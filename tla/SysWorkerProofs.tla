--------------------------- MODULE SysWorkerProofs ---------------------------
(***************************************************************************)
(* Proofs about SysWorker, for every set of workers and other handlers,    *)
(* every length of the thread's queue and every depth of nesting: the      *)
(* cycle of a worker is never lost, and it is in one place unless two      *)
(* threads have raced for its timer.                                       *)
(***************************************************************************)
EXTENDS SysWorker, EventLoopProofs

(***************************************************************************)
(* The inductive invariant                                                 *)
(*                                                                         *)
(* The six places, each as a condition, and that a worker nobody raced for *)
(* is at none of them twice.  A flag must not be in the flag group and in  *)
(* pending_events at once, or its handler would be called twice for one    *)
(* job; whoever is to take the timer of such a worker finds it registered; *)
(* and only event handlers are suspended, or a nested activation could     *)
(* come between a timer's call and its job.                                *)
(***************************************************************************)

InQueue(w) == \E i \in DOMAIN queue : queue[i] = w
Flagged(w) == event_flag[w] \in events \cup pending_events
Busy(j, w) == stack[j].call = event_node[w] /\ ~(j = Len(stack) /\ callback_done)
Finishes(w) == \E j \in DOMAIN stack : Busy(j, w)

HeldBy(c, w) == op[c] \in {Do("send", w), Do("register", w)}
Holds(w) == \E c \in Caller : HeldBy(c, w)

Somewhere(w) ==
    IsArmed(w) \/ Holds(w) \/ InQueue(w) \/ running = w \/ Flagged(w) \/ Finishes(w)

Nowhere(w) == ~Somewhere(w)

AtOne(w) ==
    /\ IsArmed(w) => ~(Holds(w) \/ InQueue(w) \/ running = w \/ Flagged(w) \/ Finishes(w))
    /\ Holds(w) => ~(InQueue(w) \/ running = w \/ Flagged(w) \/ Finishes(w))
    /\ InQueue(w) => ~(running = w \/ Flagged(w) \/ Finishes(w))
    /\ running = w => ~(Flagged(w) \/ Finishes(w))
    /\ Flagged(w) => ~Finishes(w)

Cycle ==
    \A w \in Worker : /\ w \in inited => Somewhere(w)
                      /\ w \notin inited => Nowhere(w)
                      /\ w \notin raced => AtOne(w)

\* Each place holds a worker once.
Single(w) ==
    /\ \A i, j \in DOMAIN queue : queue[i] = w /\ queue[j] = w => i = j
    /\ event_flag[w] \notin events \cap pending_events
    /\ \A i, j \in DOMAIN stack : Busy(i, w) /\ Busy(j, w) => i = j
    /\ \A c, d \in Caller : HeldBy(c, w) /\ HeldBy(d, w) => c = d

Once == \A w \in Worker : w \notin raced => Single(w)

\* Who may be registered, called and suspended, and who is to take a timer.
Taking(c, w) == op[c] \in {Do("deregister", w), Do("restart", w)}

Calls ==
    /\ \A i \in DOMAIN stack : i < Len(stack) => stack[i].call \in EventNode
    /\ callback_done => Top.call \notin ClientEvent
    /\ op["loop"] # None => stack # <<>> /\ Top.call # NULL /\ (callback_done \/ Top.call \in EventNode)
    /\ \A e \in EventNode : is_node_in(event_list, e) =>
          e \in ClientEvent \/ \E w \in inited : e = event_node[w]

Timers ==
    \A w \in Worker :
        /\ TimerCalls(w) => w \in inited
        /\ w \notin raced /\ TimerCalls(w) => IsArmed(w)
        /\ w \notin raced => \A c \in Caller : Taking(c, w) => IsArmed(w)

WInv == Inv /\ WorkerTypeOK /\ Calls /\ Timers /\ Once /\ Cycle

(***************************************************************************)
(* What single changes do to the places                                    *)
(***************************************************************************)

\* Inserting a node links that one, too.
LEMMA InsertedNodes ==
    ASSUME NEW S, NEW list \in Seq(S), NEW n \in S, NEW m
    PROVE  is_node_in(insert_node_safe(list, n), m) <=> is_node_in(list, m) \/ m = n
<1>1. CASE is_node_in(list, n)
  BY <1>1 DEF insert_node_safe, is_node_in
<1>2. CASE ~is_node_in(list, n)
  <2> DEFINE r == <<n>> \o list
  <2>1. insert_node_safe(list, n) = r
    BY <1>2 DEF insert_node_safe
  <2>2. /\ DOMAIN r = 1 .. Len(list) + 1
        /\ DOMAIN list = 1 .. Len(list)
        /\ r[1] = n
        /\ \A i \in 2 .. Len(list) + 1 : r[i] = list[i - 1]
        /\ Len(list) \in Nat
    OBVIOUS
  <2> HIDE DEF r
  <2>3. ASSUME is_node_in(list, m) PROVE is_node_in(r, m)
    <3>1. PICK i \in DOMAIN list : list[i] = m
      BY <2>3 DEF is_node_in
    <3>2. i + 1 \in DOMAIN r /\ r[i + 1] = m
      BY <2>2, <3>1
    <3> QED
      BY <3>2 DEF is_node_in
  <2>4. ASSUME is_node_in(r, m), m # n PROVE is_node_in(list, m)
    <3>1. PICK i \in DOMAIN r : r[i] = m
      BY <2>4 DEF is_node_in
    <3>2. i - 1 \in DOMAIN list /\ list[i - 1] = m
      BY <2>2, <2>4, <3>1
    <3> QED
      BY <3>2 DEF is_node_in
  <2>5. is_node_in(r, n)
    BY <2>2 DEF is_node_in
  <2> QED
    BY <2>1, <2>3, <2>4, <2>5
<1> QED
  BY <1>1, <1>2

\* Removing a node of a list that is linked once unlinks that one only.
LEMMA RemovedNodes ==
    ASSUME NEW S, NEW list \in Seq(S), NEW n, IsInjective(list), NEW m
    PROVE  is_node_in(remove_node_safe(list, n), m) <=> is_node_in(list, m) /\ m # n
<1>1. CASE ~is_node_in(list, n)
  BY <1>1 DEF remove_node_safe, is_node_in
<1>2. CASE is_node_in(list, n)
  <2> DEFINE p == Position(list, n)
             before == SubSeq(list, 1, p - 1)
             after == SubSeq(list, p + 1, Len(list))
             r == before \o after
  <2>1. remove_node_safe(list, n) = r
    BY <1>2 DEF remove_node_safe
  <2>2. p \in 1 .. Len(list)
    BY <1>2, PositionInList
  <2>p. list[p] = n
    BY <1>2, PositionInList
  <2> HIDE DEF p
  <2>3. /\ before \in Seq(S)
        /\ Len(before) = p - 1
        /\ \A i \in 1 .. p - 1 : before[i] = list[i]
    BY <2>2
  <2>4. /\ after \in Seq(S)
        /\ Len(after) = Len(list) - p
        /\ \A i \in 1 .. Len(list) - p : after[i] = list[p + i]
    BY <2>2
  <2> HIDE DEF before, after
  <2>5. /\ r \in Seq(S)
        /\ DOMAIN r = 1 .. Len(list) - 1
        /\ \A i \in 1 .. Len(list) - 1 :
              r[i] = IF i < p THEN list[i] ELSE list[i + 1]
    BY <2>2, <2>3, <2>4, ConcatProperties
  <2> HIDE DEF r
  <2>6. ASSUME NEW i \in DOMAIN list, list[i] = m, m # n
        PROVE  is_node_in(r, m)
    <3>1. CASE i < p
      <4>1. i \in DOMAIN r /\ r[i] = m
        BY <2>2, <2>5, <2>6, <3>1
      <4> QED
        BY <4>1 DEF is_node_in
    <3>2. CASE ~(i < p)
      <4>1. i - 1 \in DOMAIN r /\ r[i - 1] = m
        BY <2>2, <2>p, <2>5, <2>6, <3>2
      <4> QED
        BY <4>1 DEF is_node_in
    <3> QED
      BY <3>1, <3>2
  <2>7. ASSUME NEW i \in DOMAIN r, r[i] = m
        PROVE  is_node_in(list, m) /\ m # n
    <3> DEFINE k == IF i < p THEN i ELSE i + 1
    <3>1. k \in DOMAIN list /\ list[k] = m /\ k # p
      BY <2>2, <2>5, <2>7
    <3> HIDE DEF k
    <3>2. m # n
      BY <2>2, <2>p, <3>1 DEF IsInjective
    <3> QED
      BY <3>1, <3>2 DEF is_node_in
  <2> QED
    BY <2>1, <2>6, <2>7 DEF is_node_in
<1> QED
  BY <1>1, <1>2

\* A step that leaves worker w where it is.
Stays(w) ==
    /\ IsArmed(w)' <=> IsArmed(w)
    /\ Holds(w)' <=> Holds(w)
    /\ InQueue(w)' <=> InQueue(w)
    /\ (running = w)' <=> running = w
    /\ Flagged(w)' <=> Flagged(w)
    /\ Finishes(w)' <=> Finishes(w)

\* A step that leaves all workers where they are.
LEMMA CycleStays ==
    ASSUME Cycle, UNCHANGED <<inited, raced>>, \A w \in Worker : Stays(w)
    PROVE  Cycle'
BY DEF Cycle, AtOne, Nowhere, Somewhere, Stays

\* A step that takes one worker on to another place.
LEMMA CycleMoves ==
    ASSUME Cycle, NEW v \in Worker, inited' \in {inited, inited \cup {v}}, v \in inited',
           raced' \in {raced, raced \cup {v}},
           Somewhere(v)', v \notin raced' => AtOne(v)',
           \A w \in Worker \ {v} : Stays(w)
    PROVE  Cycle'
<1>1. ASSUME NEW w \in Worker, w # v
      PROVE  /\ w \in inited' => Somewhere(w)'
             /\ w \notin inited' => Nowhere(w)'
             /\ w \notin raced' => AtOne(w)'
  <2>1. (w \in inited' <=> w \in inited) /\ (w \notin raced' => w \notin raced)
    BY <1>1
  <2>2. /\ w \in inited => Somewhere(w)
        /\ w \notin inited => Nowhere(w)
        /\ w \notin raced => AtOne(w)
    BY DEF Cycle
  <2>3. Stays(w)
    BY <1>1
  <2> QED
    BY <2>1, <2>2, <2>3 DEF AtOne, Nowhere, Somewhere, Stays
<1> QED
  BY <1>1 DEF Cycle

\* The frames, as the steps leave them that call nobody.
LEMMA SameCalls ==
    ASSUME WInv, stack' \in Seq(Frame), Len(stack') = Len(stack),
           \A i \in 1 .. Len(stack) : stack'[i].call = stack[i].call,
           UNCHANGED callback_done
    PROVE  /\ \A j \in 1 .. Len(stack), w \in Worker : Busy(j, w)' <=> Busy(j, w)
           /\ \A w \in Worker : Finishes(w)' <=> Finishes(w)
           /\ stack # <<>> => stack' # <<>> /\ Top'.call = Top.call
           /\ stack = <<>> => stack' = <<>>
           /\ \A i \in DOMAIN stack' : i < Len(stack') => stack'[i].call \in EventNode
<1>1. DOMAIN stack' = 1 .. Len(stack) /\ DOMAIN stack = 1 .. Len(stack) /\ Len(stack) \in Nat
  BY DEF WInv, Inv, TypeOK
<1>2. \A j \in 1 .. Len(stack), w \in Worker : Busy(j, w)' <=> Busy(j, w)
  BY <1>1 DEF Busy
<1>3. \A w \in Worker : Finishes(w)' <=> Finishes(w)
  BY <1>1, <1>2 DEF Finishes
<1>4. stack # <<>> => Len(stack) \in 1 .. Len(stack)
  BY <1>1 DEF WInv, Inv, TypeOK
<1> QED
  BY <1>1, <1>2, <1>3, <1>4 DEF WInv, Calls, Top

(***************************************************************************)
(* The loop's own invariant                                                *)
(***************************************************************************)

\* A timer is taken out of the list, on any thread.
LEMMA TakeInv ==
    ASSUME Inv, NEW w \in Worker, timer_list' = remove_node_safe(timer_list, timer_node[w]),
           UNCHANGED <<flagVars, event_list, enabled, loop_stop, stack>>
    PROVE  Inv'
<1>d. DataInv /\ StackInv
  BY InvSplit
<1>1. DataInv'
  BY <1>d, RemoveKeeps DEF DataInv, LinkedOnce, flagVars
<1>2. StackInv'
  BY <1>d, ClientInv DEF StackInv
<1> QED
  BY <1>1, <1>2, InvSplitPrime

\* A timer is registered, on any thread.
LEMMA RegisterInv ==
    ASSUME Inv, NEW w \in Worker, timer_list' = insert_node_safe(timer_list, timer_node[w]),
           stack' = Rearm(stack, timer_node[w]),
           UNCHANGED <<flagVars, event_list, enabled, loop_stop>>
    PROVE  Inv'
<1>t. timer_node[w] \in TimerNode
  BY WorkerNodes
<1>d. DataInv /\ StackInv
  BY InvSplit
<1>1. DataInv'
  BY <1>d, <1>t, InsertKeeps DEF DataInv, LinkedOnce, flagVars
<1>2. StackInv'
  BY <1>d, <1>t, RearmFrames, ClientInv DEF StackInv
<1> QED
  BY <1>1, <1>2, InvSplitPrime

\* A worker's two fresh nodes are linked.
LEMMA WorkerInitInv ==
    ASSUME Inv, NEW w \in Worker, a_sys_worker_init(w)
    PROVE  Inv'
<1>d. DataInv /\ StackInv
  BY InvSplit
<1>1. timer_node[w] \in TimerNode /\ event_node[w] \in EventNode
  BY WorkerNodes
<1>2. DataInv'
  BY <1>1, <1>d, InsertKeeps DEF a_sys_worker_init, DataInv, LinkedOnce, flagVars
<1>3. \A n : is_node_in(event_list, n) => is_node_in(event_list', n)
  BY <1>1, <1>d, InsertKeeps DEF a_sys_worker_init, DataInv, LinkedOnce
<1>4. StackInv'
  BY <1>3, <1>d, ClientInv DEF a_sys_worker_init, StackInv
<1> QED
  BY <1>2, <1>4, InvSplitPrime

\* Workers and their clients keep the loop's invariant.
LEMMA LoopInv == Inv /\ WorkerNext => Inv'
<1> SUFFICES ASSUME Inv, WorkerNext PROVE Inv'
  OBVIOUS
<1> USE WorkerNodes
<1>1. CASE WorkerLoopStep
  BY <1>1, LoopStepInv DEF WorkerLoopStep
<1>2. CASE Callback
  <2>1. ASSUME NEW w \in Worker, timer_fires(w) PROVE Inv'
    BY <2>1, TakeInv DEF timer_fires, take_timer
  <2>2. ASSUME NEW w \in Worker, event_callback(w) PROVE Inv'
    BY <2>2, ClientStepInv DEF event_callback, TimerOperation
  <2>3. CASE callback_returns
    BY <2>3, ReturnInv DEF callback_returns
  <2> QED
    BY <1>2, <2>1, <2>2, <2>3 DEF Callback
<1>3. CASE Thread
  <2>1. CASE next_job
    BY <2>1, NextInv DEF next_job
  <2>2. ASSUME NEW w \in Worker, sensor_process(w) PROVE Inv'
    BY <2>2, ClientStepInv DEF sensor_process, SetFlag
  <2> QED
    BY <1>3, <2>1, <2>2 DEF Thread
<1>4. CASE ClientOperation
  <2>1. ASSUME NEW w \in Worker, a_sys_worker_init(w) PROVE Inv'
    BY <2>1, WorkerInitInv
  <2>2. ASSUME NEW w \in Worker, NEW c \in Caller, a_sys_worker_trigger(c, w) PROVE Inv'
    BY <2>2, NextInv DEF a_sys_worker_trigger
  <2>3. ASSUME NEW w \in Worker, a_sys_worker_change_inteval(w) PROVE Inv'
    BY <2>3, NextInv DEF a_sys_worker_change_inteval
  <2>4. ASSUME NEW e \in ClientEvent, register_client(e) PROVE Inv'
    BY <2>4, ClientStepInv DEF register_client, EventOperation
  <2>5. CASE client_enters
    BY <2>5, EnterInv DEF client_enters, EnterLoop
  <2>6. CASE client_breaks
    BY <2>6, ClientStepInv DEF client_breaks
  <2>7. CASE client_sets_flag
    BY <2>7, ClientStepInv DEF client_sets_flag, SetFlag
  <2> QED
    BY <1>4, <2>1, <2>2, <2>3, <2>4, <2>5, <2>6, <2>7 DEF ClientOperation
<1>5. ASSUME NEW c \in Caller, CallStep(c) PROVE Inv'
  <2>1. ASSUME NEW w \in Worker, deregister(c, w) PROVE Inv'
    BY <2>1, TakeInv DEF deregister, take_timer
  <2>2. ASSUME NEW w \in Worker, send(c, w) PROVE Inv'
    BY <2>2, NextInv DEF send
  <2>3. ASSUME NEW w \in Worker, register(c, w) PROVE Inv'
    BY <2>3, RegisterInv DEF register
  <2> QED
    BY <1>5, <2>1, <2>2, <2>3 DEF CallStep
<1> QED
  BY <1>1, <1>2, <1>3, <1>4, <1>5 DEF WorkerNext

(***************************************************************************)
(* The steps of the loop                                                   *)
(***************************************************************************)

\* A step after which every worker is where it was, and no timer of a worker is
\* called that is not registered.
LEMMA AllStay ==
    ASSUME WInv, Inv', UNCHANGED <<inited, queue, running, op, raced>>,
           callback_done' \in BOOLEAN, callback_done' => stack' # <<>> /\ Top'.call # NULL,
           Calls',
           \A w \in Worker :
               /\ IsArmed(w)' <=> IsArmed(w)
               /\ TimerCalls(w)' => TimerCalls(w) \/ IsArmed(w)
               /\ Flagged(w)' <=> Flagged(w)
               /\ event_flag[w] \in events' \cap pending_events' =>
                      event_flag[w] \in events \cap pending_events
               /\ Finishes(w)' <=> Finishes(w)
               /\ \A i \in DOMAIN stack' : Busy(i, w)' => i \in DOMAIN stack /\ Busy(i, w)
    PROVE  WInv'
<1>1. WorkerTypeOK'
  BY DEF WInv, WorkerTypeOK
<1>2. \A w \in Worker : /\ \A c \in Caller : HeldBy(c, w)' <=> HeldBy(c, w)
                        /\ \A c \in Caller : Taking(c, w)' <=> Taking(c, w)
                        /\ Holds(w)' <=> Holds(w)
  BY DEF HeldBy, Taking, Holds
<1>3. \A w \in Worker : Stays(w)
  BY <1>2 DEF Stays, InQueue
<1>4. Cycle'
  BY <1>3, CycleStays DEF WInv
<1>5. Once'
  <2> SUFFICES ASSUME NEW w \in Worker, w \notin raced'
               PROVE  Single(w)'
    BY DEF Once
  <2>1. Single(w)
    BY DEF WInv, Once
  <2> QED
    BY <1>2, <2>1 DEF Single
<1>6. \A w \in Worker : IsArmed(w) => w \in inited
  BY DEF WInv, Cycle, Nowhere, Somewhere
<1>7. Timers'
  BY <1>2, <1>6 DEF WInv, Timers
<1> QED
  BY <1>1, <1>4, <1>5, <1>7 DEF WInv

\* Flags are taken, a node is passed over, the timers are looked at, the next
\* round begins: no call begins or ends.
LEMMA QuietInv ==
    ASSUME WInv, LoopStep, UNCHANGED <<inited, threadVars, callback_done, callVars>>,
           Len(stack') = Len(stack), \A i \in 1 .. Len(stack) : stack'[i].call = stack[i].call,
           UNCHANGED listVars,
           \/ UNCHANGED flagVars
           \/ events' = {} /\ pending_events' = pending_events \cup events
    PROVE  WInv'
<1>1. Inv'
  BY LoopStepInv DEF WInv
<1>2. stack' \in Seq(Frame)
  BY <1>1 DEF Inv, TypeOK
<1>3. /\ \A j \in 1 .. Len(stack), w \in Worker : Busy(j, w)' <=> Busy(j, w)
      /\ \A w \in Worker : Finishes(w)' <=> Finishes(w)
      /\ stack # <<>> => stack' # <<>> /\ Top'.call = Top.call
      /\ stack = <<>> => stack' = <<>>
      /\ \A i \in DOMAIN stack' : i < Len(stack') => stack'[i].call \in EventNode
  BY <1>2, SameCalls DEF callVars
<1>4. DOMAIN stack' = 1 .. Len(stack) /\ DOMAIN stack = 1 .. Len(stack)
  BY <1>2 DEF WInv, Inv, TypeOK
<1>5. callback_done' \in BOOLEAN /\ (callback_done' => stack' # <<>> /\ Top'.call # NULL)
  BY <1>3 DEF WInv, WorkerTypeOK
<1>6. Calls'
  BY <1>3 DEF WInv, WorkerTypeOK, Calls, listVars, callVars, is_node_in
<1>7. \A w \in Worker : /\ IsArmed(w)' <=> IsArmed(w)
                        /\ TimerCalls(w)' => TimerCalls(w)
                        /\ Flagged(w)' <=> Flagged(w)
                        /\ event_flag[w] \in events' \cap pending_events' =>
                               event_flag[w] \in events \cap pending_events
  BY <1>3 DEF IsArmed, TimerCalls, Flagged, listVars, flagVars, is_node_in
<1> QED
  BY <1>1, <1>3, <1>4, <1>5, <1>6, <1>7, AllStay DEF threadVars, callVars

\* The innermost activation calls a handler or gets it back: what a step makes
\* of the frames.
LEMMA TopCalls ==
    ASSUME WInv, stack # <<>>, stack' \in Seq(Frame), Len(stack') = Len(stack),
           \A i \in 1 .. Len(stack) - 1 : stack'[i].call = stack[i].call
    PROVE  /\ Len(stack) \in DOMAIN stack /\ Len(stack) \in DOMAIN stack'
           /\ stack' # <<>>
           /\ Top' = stack'[Len(stack)]
           /\ \A j \in DOMAIN stack : j \in DOMAIN stack' /\ j \in 1 .. Len(stack)
           /\ \A j \in DOMAIN stack' : j \in DOMAIN stack
           /\ \A j \in DOMAIN stack, w \in Worker : j # Len(stack) => (Busy(j, w)' <=> Busy(j, w))
           /\ \A i \in DOMAIN stack' : i < Len(stack') => stack'[i].call \in EventNode
<1>1. /\ DOMAIN stack' = 1 .. Len(stack) /\ DOMAIN stack = 1 .. Len(stack)
      /\ Len(stack) \in 1 .. Len(stack)
  BY DEF WInv, Inv, TypeOK
<1>2. \A j \in DOMAIN stack, w \in Worker : j # Len(stack) => (Busy(j, w)' <=> Busy(j, w))
  BY <1>1 DEF Busy
<1>3. \A i \in DOMAIN stack' : i < Len(stack') => stack'[i].call \in EventNode
  BY <1>1 DEF WInv, Calls
<1> QED
  BY <1>1, <1>2, <1>3 DEF Top

\* Before a call, nobody is called by the innermost activation.
LEMMA Running_idle ==
    ASSUME WInv, stack # <<>>, Top.call = NULL
    PROVE  /\ callback_done = FALSE
           /\ \A w \in Worker : ~Busy(Len(stack), w)
BY WorkerNodes, NodesDistinct DEF WInv, WorkerTypeOK, Busy, Top

\* The handler of a flag is called: a worker's flag is taken and its finish_fn
\* begins; another handler's flags are no worker's.
LEMMA DispatchInv ==
    ASSUME WInv, NEW e \in EventNode, dispatch(e),
           UNCHANGED <<inited, threadVars, callback_done, callVars>>
    PROVE  WInv'
<1> USE WorkerNodes, NodesDistinct
<1>1. Inv'
  BY LoopStepInv DEF WInv, LoopStep
<1>2. stack # <<>> /\ Top.call = NULL /\ Top.node = e
  BY DEF dispatch, Running
<1>3. /\ Top \in Frame /\ Len(stack) \in 1 .. Len(stack) /\ Top = stack[Len(stack)]
  BY <1>2, TopFrame DEF WInv, Inv, TypeOK
<1>4. [Top EXCEPT !.call = e] \in Frame
  BY <1>3 DEF Frame, Node
<1>5. /\ Len(stack') = Len(stack) /\ stack' \in Seq(Frame)
      /\ stack'[Len(stack)] = [Top EXCEPT !.call = e]
      /\ \A i \in 1 .. Len(stack) - 1 : stack'[i].call = stack[i].call
  BY <1>2, <1>4, SetTopFrames DEF dispatch, WInv, Inv, TypeOK
<1>6. /\ Len(stack) \in DOMAIN stack /\ Len(stack) \in DOMAIN stack'
      /\ stack' # <<>>
      /\ Top' = stack'[Len(stack)]
      /\ \A j \in DOMAIN stack : j \in DOMAIN stack'
      /\ \A j \in DOMAIN stack' : j \in DOMAIN stack
      /\ \A j \in DOMAIN stack, w \in Worker : j # Len(stack) => (Busy(j, w)' <=> Busy(j, w))
      /\ \A i \in DOMAIN stack' : i < Len(stack') => stack'[i].call \in EventNode
  BY <1>2, <1>5, TopCalls
<1>7. callback_done = FALSE /\ callback_done' = FALSE /\ \A w \in Worker : ~Busy(Len(stack), w)
  BY <1>2, Running_idle
<1>8. stack'[Len(stack)].call = e
  BY <1>3, <1>5 DEF Frame
<1>9. \A w \in Worker : Busy(Len(stack), w)' <=> e = event_node[w]
  BY <1>5, <1>7, <1>8 DEF Busy
<1>10. e \in ClientEvent \/ \E w \in inited : e = event_node[w]
  BY <1>2, <1>3, <1>6 DEF WInv, Inv, CursorLinked, Calls
<1>11. \A w \in Worker : /\ IsArmed(w)' <=> IsArmed(w)
                         /\ InQueue(w)' <=> InQueue(w)
                         /\ (running = w)' <=> running = w
                         /\ Holds(w)' <=> Holds(w)
                         /\ ~TimerCalls(w)'
  BY <1>6, <1>8 DEF dispatch, IsArmed, InQueue, Holds, HeldBy, TimerCalls, listVars, threadVars,
                    callVars, is_node_in
<1>12. callback_done' \in BOOLEAN /\ (callback_done' => stack' # <<>> /\ Top'.call # NULL)
  BY <1>7
<1>13. Calls'
  BY <1>2, <1>6, <1>7, <1>8 DEF WInv, Calls, dispatch, listVars, callVars, is_node_in
<1>14. events' = events /\ pending_events' = pending_events \ Mask[e] /\ Mask[e] \cap pending_events # {}
  BY DEF dispatch, Runnable
<1>15. CASE e \in ClientEvent
  <2>1. \A w \in Worker : ~Busy(Len(stack), w)'
    BY <1>9, <1>15
  <2>2. \A w \in Worker : /\ Flagged(w)' <=> Flagged(w)
                          /\ event_flag[w] \in events' \cap pending_events' =>
                                 event_flag[w] \in events \cap pending_events
    BY <1>14, <1>15 DEF Flagged
  <2>3. \A w \in Worker : /\ Finishes(w)' <=> Finishes(w)
                          /\ \A i \in DOMAIN stack' : Busy(i, w)' => i \in DOMAIN stack /\ Busy(i, w)
    BY <1>6, <1>7, <2>1 DEF Finishes
  <2> QED
    BY <1>1, <1>11, <1>12, <1>13, <2>2, <2>3, AllStay DEF threadVars, callVars
<1>16. CASE e \notin ClientEvent
  <2>1. PICK v \in inited : e = event_node[v]
    BY <1>10, <1>16
  <2>2. v \in Worker /\ Mask[e] = {event_flag[v]}
    BY <2>1 DEF WInv, WorkerTypeOK
  <2>3. \A w \in Worker \ {v} : event_flag[w] # event_flag[v] /\ event_node[w] # event_node[v]
    BY <2>2 DEF IsInjective
  <2>4. Flagged(v) /\ event_flag[v] \in pending_events
    BY <1>14, <2>2 DEF Flagged
  <2>5. \A w \in Worker \ {v} : Flagged(w)' <=> Flagged(w)
    BY <1>14, <2>2, <2>3 DEF Flagged
  <2>6. \A w \in Worker \ {v} : Finishes(w)' <=> Finishes(w)
    BY <1>6, <1>7, <1>9, <2>1, <2>3 DEF Finishes
  <2>7. Finishes(v)'
    BY <1>6, <1>9, <2>1, <2>2 DEF Finishes
  <2>8. ASSUME v \notin raced
        PROVE  /\ AtOne(v)'
               /\ \A j \in DOMAIN stack' : Busy(j, v)' => j = Len(stack)
    <3>1. AtOne(v) /\ Single(v)
      BY <2>2, <2>8 DEF WInv, Cycle, Once
    <3>2. ~Finishes(v) /\ ~IsArmed(v) /\ ~Holds(v) /\ ~InQueue(v) /\ running # v
      BY <2>4, <3>1 DEF AtOne
    <3>3. event_flag[v] \notin events
      BY <2>4, <3>1 DEF Single
    <3>4. ~Flagged(v)'
      BY <1>14, <2>2, <3>3 DEF Flagged
    <3>5. \A j \in DOMAIN stack' : Busy(j, v)' => j = Len(stack)
      BY <1>6, <2>2, <3>2 DEF Finishes
    <3>6. ~IsArmed(v)' /\ ~Holds(v)' /\ ~InQueue(v)' /\ ~(running = v)'
      BY <1>11, <2>2, <3>2
    <3> QED
      BY <3>4, <3>5, <3>6 DEF AtOne
  <2>9. Cycle'
    BY <1>11, <2>1, <2>2, <2>5, <2>6, <2>7, <2>8, CycleMoves
       DEF WInv, Somewhere, Stays, callVars
  <2>10. Once'
    <3> SUFFICES ASSUME NEW w \in Worker, w \notin raced'
                 PROVE  Single(w)'
      BY DEF Once
    <3>1. Single(w)
      BY DEF WInv, Once, callVars
    <3>2. \A i, j \in DOMAIN stack' : Busy(i, w)' /\ Busy(j, w)' => i = j
      <4>1. CASE w = v
        BY <2>8, <4>1 DEF callVars
      <4>2. CASE w # v
        <5>1. \A j \in DOMAIN stack' : Busy(j, w)' => j \in DOMAIN stack /\ Busy(j, w)
          BY <1>6, <1>9, <2>1, <2>3, <4>2
        <5> QED
          BY <3>1, <5>1 DEF Single
      <4> QED
        BY <4>1, <4>2
    <3> QED
      BY <1>14, <3>1, <3>2 DEF Single, HeldBy, threadVars, callVars
  <2>11. WorkerTypeOK'
    BY <1>12 DEF WInv, WorkerTypeOK, threadVars, callVars
  <2>12. Timers'
    BY <1>11 DEF WInv, Timers, Taking, callVars
  <2> QED
    BY <1>1, <1>13, <2>9, <2>10, <2>11, <2>12 DEF WInv
<1> QED
  BY <1>15, <1>16

\* The handler of a registered timer is called.
LEMMA ExpireInv ==
    ASSUME WInv, NEW t \in TimerNode, expire(t),
           UNCHANGED <<inited, threadVars, callback_done, callVars>>
    PROVE  WInv'
<1> USE WorkerNodes, NodesDistinct
<1>1. Inv'
  BY LoopStepInv DEF WInv, LoopStep
<1>2. stack # <<>> /\ Top.call = NULL /\ is_node_in(timer_list, t)
  BY DEF expire, Running, is_node_in
<1>3. Len(stack) \in 1 .. Len(stack) /\ stack \in Seq(Frame)
  BY <1>2 DEF WInv, Inv, TypeOK
<1> DEFINE mid == Rearm(stack, t)
<1>4. /\ mid \in Seq(Frame)
      /\ Len(mid) = Len(stack)
      /\ \A i \in 1 .. Len(stack) : mid[i].call = stack[i].call
  BY <1>3, RearmFrames
<1>5. stack' = [mid EXCEPT ![Len(stack)] = [mid[Len(stack)] EXCEPT !.call = t]]
  BY DEF expire
<1>6. mid[Len(stack)] \in Frame
  BY <1>3, <1>4, ElementOfSeq
<1> HIDE DEF mid
<1> DEFINE fr == [mid[Len(stack)] EXCEPT !.call = t]
<1>f. fr \in Frame /\ fr.call = t
  BY <1>6 DEF Frame, Node
<1> HIDE DEF fr
<1>7. /\ stack' \in Seq(Frame) /\ Len(stack') = Len(stack)
      /\ stack'[Len(stack)].call = t
      /\ \A i \in 1 .. Len(stack) - 1 : stack'[i].call = stack[i].call
  <2>1. stack' = [mid EXCEPT ![Len(stack)] = fr]
    BY <1>5 DEF fr
  <2>2. /\ stack' \in Seq(Frame) /\ Len(stack') = Len(stack)
        /\ stack'[Len(stack)] = fr
        /\ \A i \in 1 .. Len(stack) - 1 : stack'[i] = mid[i]
    BY <2>1, <1>3, <1>4, <1>f, ExceptSeq
  <2> QED
    BY <2>2, <1>3, <1>4, <1>f
<1>8. /\ Len(stack) \in DOMAIN stack /\ Len(stack) \in DOMAIN stack'
      /\ stack' # <<>>
      /\ Top' = stack'[Len(stack)]
      /\ \A j \in DOMAIN stack : j \in DOMAIN stack'
      /\ \A j \in DOMAIN stack' : j \in DOMAIN stack
      /\ \A j \in DOMAIN stack, w \in Worker : j # Len(stack) => (Busy(j, w)' <=> Busy(j, w))
      /\ \A i \in DOMAIN stack' : i < Len(stack') => stack'[i].call \in EventNode
  BY <1>2, <1>7, TopCalls
<1>9. callback_done = FALSE /\ callback_done' = FALSE
      /\ \A w \in Worker : ~Busy(Len(stack), w) /\ ~Busy(Len(stack), w)'
  BY <1>2, <1>7, Running_idle DEF Busy
<1>10. \A w \in Worker :
          /\ IsArmed(w)' <=> IsArmed(w)
          /\ Flagged(w)' <=> Flagged(w)
          /\ event_flag[w] \in events' \cap pending_events' =>
                 event_flag[w] \in events \cap pending_events
          /\ Finishes(w)' <=> Finishes(w)
          /\ \A i \in DOMAIN stack' : Busy(i, w)' => i \in DOMAIN stack /\ Busy(i, w)
  BY <1>8, <1>9 DEF expire, IsArmed, Flagged, Finishes, listVars, flagVars, is_node_in
<1>11. \A w \in Worker : TimerCalls(w)' => IsArmed(w)
  BY <1>2, <1>7, <1>8 DEF TimerCalls, IsArmed
<1>12. Calls'
  <2>1. op["loop"]' = None
    BY <1>2 DEF WInv, Calls, callVars
  <2> QED
    BY <1>8, <1>9, <2>1 DEF WInv, Calls, expire, listVars, is_node_in
<1>13. callback_done' \in BOOLEAN /\ (callback_done' => stack' # <<>> /\ Top'.call # NULL)
  BY <1>9
<1> QED
  BY <1>1, <1>10, <1>11, <1>12, <1>13, AllStay DEF threadVars, callVars

\* An activation ends: the handler that ran it goes on.
LEMMA LeaveInv ==
    ASSUME WInv, stop \/ time_out, UNCHANGED <<inited, threadVars, callback_done, callVars>>
    PROVE  WInv'
<1> USE WorkerNodes, NodesDistinct
<1>1. Inv'
  BY LoopStepInv DEF WInv, LoopStep
<1>2. stack # <<>> /\ Top.call = NULL /\ Pop /\ UNCHANGED <<flagVars, listVars>>
  BY DEF stop, time_out, ScanOver, Running
<1>3. /\ DOMAIN stack' = 1 .. Len(stack) - 1 /\ DOMAIN stack = 1 .. Len(stack)
      /\ Len(stack') = Len(stack) - 1 /\ Len(stack) \in 1 .. Len(stack)
      /\ \A i \in 1 .. Len(stack) - 1 : stack'[i] = stack[i]
  BY <1>2, PopFrames DEF WInv, Inv, TypeOK
<1>4. callback_done = FALSE /\ callback_done' = FALSE /\ \A w \in Worker : ~Busy(Len(stack), w)
  BY <1>2, Running_idle
<1>5. \A j \in DOMAIN stack', w \in Worker : Busy(j, w)' <=> Busy(j, w)
  BY <1>3, <1>4 DEF Busy
<1>6. \A w \in Worker : Finishes(w)' <=> Finishes(w)
  BY <1>3, <1>4, <1>5 DEF Finishes
<1>7. \A w \in Worker : /\ IsArmed(w)' <=> IsArmed(w)
                        /\ Flagged(w)' <=> Flagged(w)
                        /\ event_flag[w] \in events' \cap pending_events' =>
                               event_flag[w] \in events \cap pending_events
  BY <1>2 DEF IsArmed, Flagged, listVars, flagVars, is_node_in
<1>8. callback_done' \in BOOLEAN /\ (callback_done' => stack' # <<>> /\ Top'.call # NULL)
  BY <1>4
<1>9. stack' # <<>> => Top'.call \in EventNode
  <2>1. ASSUME stack' # <<>> PROVE Len(stack') \in 1 .. Len(stack) - 1
    BY <1>1, <1>3, <2>1 DEF Inv, TypeOK
  <2> QED
    BY <1>3, <2>1 DEF WInv, Calls, Top
<1>10. \A w \in Worker : ~TimerCalls(w)'
  BY <1>9 DEF TimerCalls
<1>11. op["loop"]' = None
  BY <1>2 DEF WInv, Calls, callVars
<1>12. Calls'
  BY <1>2, <1>3, <1>4, <1>9, <1>11 DEF WInv, Calls, listVars, callVars, is_node_in
<1>13. \A j \in DOMAIN stack' : j \in DOMAIN stack
  BY <1>3
<1> QED
  BY <1>1, <1>5, <1>6, <1>7, <1>8, <1>10, <1>12, <1>13, AllStay DEF threadVars, callVars

\* Every step of the loop keeps each worker in one place.
LEMMA WorkerLoopInv ==
    ASSUME WInv, WorkerLoopStep
    PROVE  WInv'
<1>u. UNCHANGED <<inited, threadVars, callback_done, callVars>> /\ LoopStep
  BY DEF WorkerLoopStep
<1>s. ASSUME stack # <<>>, NEW fr \in Frame, SetTop(fr), fr.call = Top.call
      PROVE  Len(stack') = Len(stack) /\ \A i \in 1 .. Len(stack) : stack'[i].call = stack[i].call
  <2>1. /\ Len(stack') = Len(stack)
        /\ Len(stack) \in 1 .. Len(stack)
        /\ stack'[Len(stack)] = fr
        /\ \A i \in 1 .. Len(stack) - 1 : stack'[i] = stack[i]
    BY <1>s, SetTopFrames DEF WInv, Inv, TypeOK
  <2> QED
    BY <2>1, <1>s DEF Top
<1>t. ASSUME stack # <<>>
      PROVE  /\ Top \in Frame
             /\ Len(stack) \in DOMAIN stack
             /\ Top = stack[Len(stack)]
  BY <1>t, TopFrame DEF WInv, Inv, TypeOK
<1>1. CASE wait_for_event_flags
  <2> DEFINE fr == [Top EXCEPT !.pc = "dispatch",
                               !.node = IF PassNeeded(pending_events', events)
                                        THEN Front(event_list) ELSE NULL]
  <2>1. stack # <<>> /\ SetTop(fr)
    BY <1>1 DEF wait_for_event_flags, Running
  <2>2. \/ Front(event_list) = NULL
        \/ Front(event_list) \in EventNode /\ is_node_in(event_list, Front(event_list))
    BY FrontLinked DEF WInv, Inv, TypeOK
  <2>3. fr \in Frame /\ fr.call = Top.call
    BY <2>1, <2>2, <1>t DEF Frame
  <2> HIDE DEF fr
  <2>4. Len(stack') = Len(stack) /\ \A i \in 1 .. Len(stack) : stack'[i].call = stack[i].call
    BY <1>s, <2>1, <2>3
  <2> QED
    BY <1>1, <1>u, <2>4, QuietInv DEF wait_for_event_flags, TakeFlags
<1>2. ASSUME NEW e \in EventNode, skip(e)
      PROVE  WInv'
  <2> DEFINE fr == [Top EXCEPT !.node = Following(event_list, e)]
  <2>1. stack # <<>> /\ Top.node = e /\ SetTop(fr)
    BY <1>2 DEF skip, Running
  <2>2. is_node_in(event_list, e)
    BY <2>1, <1>t, NodesDistinct DEF WInv, Inv, CursorLinked
  <2>3. fr \in Frame /\ fr.call = Top.call
    BY <2>1, <2>2, <1>t, FollowingLinked DEF Frame, WInv, Inv, TypeOK
  <2> HIDE DEF fr
  <2>4. Len(stack') = Len(stack) /\ \A i \in 1 .. Len(stack) : stack'[i].call = stack[i].call
    BY <1>s, <2>1, <2>3
  <2> QED
    BY <1>2, <1>u, <2>4, QuietInv DEF skip
<1>3. ASSUME NEW due \in SUBSET Range(timer_list), process_timer(due)
      PROVE  WInv'
  <2> DEFINE fr == [Top EXCEPT !.pc = "timers", !.due = due]
  <2>1. stack # <<>> /\ SetTop(fr)
    BY <1>3 DEF process_timer, Running
  <2>2. due \in SUBSET TimerNode
    BY RangeOfSeq DEF WInv, Inv, TypeOK
  <2>3. fr \in Frame /\ fr.call = Top.call
    BY <2>1, <2>2, <1>t DEF Frame
  <2> HIDE DEF fr
  <2>4. Len(stack') = Len(stack) /\ \A i \in 1 .. Len(stack) : stack'[i].call = stack[i].call
    BY <1>s, <2>1, <2>3
  <2> QED
    BY <1>3, <1>u, <2>4, QuietInv DEF process_timer
<1>4. CASE iterate
  <2> DEFINE fr == Waiting(Top.forever)
  <2>1. stack # <<>> /\ Top.call = NULL /\ SetTop(fr)
    BY <1>4 DEF iterate, ScanOver, Running
  <2>2. fr \in Frame /\ fr.call = Top.call
    BY <2>1, <1>t DEF Frame, Waiting
  <2> HIDE DEF fr
  <2>3. Len(stack') = Len(stack) /\ \A i \in 1 .. Len(stack) : stack'[i].call = stack[i].call
    BY <1>s, <2>1, <2>2
  <2> QED
    BY <1>4, <1>u, <2>3, QuietInv DEF iterate
<1>5. ASSUME NEW e \in EventNode, dispatch(e)
      PROVE  WInv'
  BY <1>5, <1>u, DispatchInv
<1>6. ASSUME NEW t \in TimerNode, expire(t)
      PROVE  WInv'
  BY <1>6, <1>u, ExpireInv
<1>7. CASE stop \/ time_out
  BY <1>7, <1>u, LeaveInv
<1> QED
  BY <1>1, <1>2, <1>3, <1>4, <1>5, <1>6, <1>7, <1>u DEF LoopStep

(***************************************************************************)
(* The steps inside sys_worker.c, on either thread                         *)
(***************************************************************************)

\* What a caller may be doing that is busy with no worker but v.
With(v) == {None} \cup {Do(x, v) : x \in Step}

\* A caller that goes on takes no other worker's place.
LEMMA OthersHeld ==
    ASSUME WInv, NEW c \in Caller, NEW v \in Worker,
           op[c] \in With(v), NEW z \in With(v), op' = [op EXCEPT ![c] = z]
    PROVE  /\ op'[c] = z /\ \A d \in Caller \ {c} : op'[d] = op[d]
           /\ \A w \in Worker \ {v}, d \in Caller : HeldBy(d, w)' <=> HeldBy(d, w)
           /\ \A w \in Worker \ {v}, d \in Caller : Taking(d, w)' <=> Taking(d, w)
           /\ \A w \in Worker \ {v} : Holds(w)' <=> Holds(w)
<1>1. op'[c] = z /\ \A d \in Caller \ {c} : op'[d] = op[d]
  BY DEF WInv, WorkerTypeOK
<1>2. ASSUME NEW w \in Worker \ {v}, NEW d \in Caller
      PROVE  /\ HeldBy(d, w)' <=> HeldBy(d, w)
             /\ Taking(d, w)' <=> Taking(d, w)
  <2>1. CASE d = c
    BY <1>1, <2>1, WorkerNodes DEF HeldBy, Taking, Do, None, With
  <2>2. CASE d # c
    BY <1>1, <2>2 DEF HeldBy, Taking
  <2> QED
    BY <2>1, <2>2
<1> QED
  BY <1>1, <1>2 DEF Holds

\* A timer is taken by one caller: the worker is in its hands now.
LEMMA TakePlaces ==
    ASSUME WInv, NEW c \in Caller, NEW v \in inited, NEW step \in {"send", "register"},
           op[c] \in {None, Do("deregister", v), Do("restart", v)},
           take_timer(c, v, step), v \notin raced => IsArmed(v),
           callback_done' \in BOOLEAN, callback_done' => stack # <<>> /\ Top.call # NULL,
           \A w \in Worker : Finishes(w)' <=> Finishes(w),
           \A w \in Worker : \A i \in DOMAIN stack : Busy(i, w)' => Busy(i, w)
    PROVE  /\ WorkerTypeOK' /\ Once' /\ Cycle' /\ Inv'
           /\ \A w \in Worker \ {v} : IsArmed(w)' <=> IsArmed(w)
           /\ \A w \in Worker \ {v}, d \in Caller : Taking(d, w)' <=> Taking(d, w)
           /\ op'[c] = Do(step, v) /\ \A d \in Caller \ {c} : op'[d] = op[d]
           /\ \A w \in Worker : w \notin raced' => w \notin raced
           /\ v \notin raced' => ~Overtakes(c, v)
<1> USE WorkerNodes, NodesDistinct
<1>1. /\ timer_list' = remove_node_safe(timer_list, timer_node[v])
      /\ op' = [op EXCEPT ![c] = Do(step, v)]
      /\ raced' = raced \cup (IF Overtakes(c, v) THEN {v} ELSE {})
      /\ UNCHANGED <<flagVars, event_list, enabled, loop_stop, stack, inited, threadVars>>
  BY DEF take_timer, Begin
<1>v. v \in Worker /\ step \in Step
  BY DEF WInv, WorkerTypeOK, Step
<1>2. /\ op'[c] = Do(step, v) /\ \A d \in Caller \ {c} : op'[d] = op[d]
      /\ \A w \in Worker \ {v}, d \in Caller : HeldBy(d, w)' <=> HeldBy(d, w)
      /\ \A w \in Worker \ {v}, d \in Caller : Taking(d, w)' <=> Taking(d, w)
      /\ \A w \in Worker \ {v} : Holds(w)' <=> Holds(w)
  <2>1. op[c] \in With(v)
    BY DEF With, Step
  <2>2. Do(step, v) \in With(v)
    BY <1>v DEF With
  <2> QED
    BY <1>1, <1>v, <2>1, <2>2, OthersHeld
<1>3. Inv'
  BY <1>1, <1>v, TakeInv DEF WInv
<1>4. timer_list \in Seq(TimerNode) /\ IsInjective(timer_list)
  BY DEF WInv, Inv, TypeOK, LinkedOnce
<1>5. \A m : is_node_in(timer_list', m) <=> is_node_in(timer_list, m) /\ m # timer_node[v]
  BY <1>1, <1>4, RemovedNodes
<1>6. ~IsArmed(v)' /\ \A w \in Worker \ {v} : IsArmed(w)' <=> IsArmed(w)
  BY <1>v, <1>5 DEF IsArmed, IsInjective
<1>7. HeldBy(c, v)' /\ Holds(v)' /\ \A d \in Caller \ {c} : HeldBy(d, v)' <=> HeldBy(d, v)
  BY <1>2 DEF HeldBy, Holds
<1>8. raced' \in {raced, raced \cup {v}} /\ \A w \in Worker : w \notin raced' => w \notin raced
  BY <1>1
<1>r. v \notin raced' => ~Overtakes(c, v)
  BY <1>1
<1>9. v \notin raced => ~Holds(v) /\ ~InQueue(v) /\ running # v /\ ~Flagged(v) /\ ~Finishes(v)
  BY <1>v DEF WInv, Cycle, AtOne
<1>10. \A w \in Worker : /\ InQueue(w)' <=> InQueue(w)
                         /\ (running = w)' <=> running = w
                         /\ Flagged(w)' <=> Flagged(w)
  BY <1>1 DEF InQueue, Flagged, flagVars, threadVars
<1>11. v \notin raced' => AtOne(v)'
  BY <1>6, <1>8, <1>9, <1>10, <1>v DEF AtOne
<1>12. Cycle'
  <2>1. \A w \in Worker \ {v} : Stays(w)
    BY <1>2, <1>6, <1>10 DEF Stays
  <2> QED
    BY <1>1, <1>7, <1>8, <1>11, <1>v, <2>1, CycleMoves DEF WInv, Somewhere
<1>13. Once'
  <2> SUFFICES ASSUME NEW w \in Worker, w \notin raced'
               PROVE  Single(w)'
    BY DEF Once
  <2>1. Single(w)
    BY <1>8 DEF WInv, Once
  <2>2. \A a, d \in Caller : HeldBy(a, w)' /\ HeldBy(d, w)' => a = d
    <3>1. CASE w = v
      <4>1. \A d \in Caller : ~HeldBy(d, v)
        BY <1>8, <1>9, <3>1 DEF Holds
      <4> QED
        BY <1>7, <3>1, <4>1
    <3>2. CASE w # v
      <4>1. \A d \in Caller : HeldBy(d, w)' <=> HeldBy(d, w)
        BY <1>2, <3>2
      <4> QED
        BY <2>1, <4>1 DEF Single
    <3> QED
      BY <3>1, <3>2
  <2> QED
    BY <1>1, <2>1, <2>2 DEF Single, flagVars, threadVars
<1>14. WorkerTypeOK'
  <2>1. op' \in [Caller -> {None} \cup {Do(x, w) : x \in Step, w \in inited}]
    BY <1>1, <1>v DEF WInv, WorkerTypeOK
  <2> QED
    BY <1>1, <2>1 DEF WInv, WorkerTypeOK, threadVars, Top
<1> QED
  BY <1>2, <1>3, <1>6, <1>8, <1>r, <1>12, <1>13, <1>14

\* A trigger, or a change of the interval, takes the timer it has looked at.
LEMMA DeregisterInv ==
    ASSUME WInv, NEW c \in Caller, NEW v \in Worker, deregister(c, v)
    PROVE  WInv'
<1>1. PICK step \in {"send", "register"} : take_timer(c, v, step)
  BY DEF deregister
<1>2. op[c] \in {Do("deregister", v), Do("restart", v)} /\ UNCHANGED callback_done
  BY DEF deregister
<1>3. v \in inited /\ (v \notin raced => IsArmed(v))
  <2>1. op[c] # None
    BY <1>2, WorkerNodes DEF Do, None
  <2>2. PICK x \in Step, w \in inited : op[c] = Do(x, w)
    BY <2>1 DEF WInv, WorkerTypeOK
  <2>3. w = v
    BY <1>2, <2>2 DEF Do
  <2> QED
    BY <1>2, <2>2, <2>3 DEF WInv, Timers, Taking
<1>4. UNCHANGED <<stack, event_list, inited>>
  BY <1>1 DEF take_timer
<1>5. /\ \A w \in Worker : Finishes(w)' <=> Finishes(w)
      /\ \A w \in Worker : \A i \in DOMAIN stack : Busy(i, w)' => Busy(i, w)
  BY <1>2, <1>4 DEF Finishes, Busy
<1>6. callback_done' \in BOOLEAN /\ (callback_done' => stack # <<>> /\ Top.call # NULL)
  BY <1>2 DEF WInv, WorkerTypeOK
<1>7. /\ WorkerTypeOK' /\ Once' /\ Cycle' /\ Inv'
      /\ \A w \in Worker \ {v} : IsArmed(w)' <=> IsArmed(w)
      /\ \A w \in Worker \ {v}, d \in Caller : Taking(d, w)' <=> Taking(d, w)
      /\ op'[c] = Do(step, v) /\ \A d \in Caller \ {c} : op'[d] = op[d]
      /\ \A w \in Worker : w \notin raced' => w \notin raced
      /\ v \notin raced' => ~Overtakes(c, v)
  BY <1>1, <1>2, <1>3, <1>5, <1>6, TakePlaces
<1>8. \A w \in Worker : TimerCalls(w)' <=> TimerCalls(w)
  BY <1>2, <1>4 DEF TimerCalls, Top
<1>l. op["loop"] # None => (stack # <<>> /\ Top.call # NULL /\ (callback_done \/ Top.call \in EventNode))
  BY DEF WInv, Calls
<1>n. op[c] # None
  BY <1>2, WorkerNodes DEF Do, None
<1>9. Calls'
  <2>1. op["loop"]' # None => op["loop"] # None
    BY <1>7, <1>n DEF Caller
  <2> QED
    BY <1>2, <1>4, <1>l, <2>1 DEF WInv, Calls, Top, is_node_in
<1>10. Timers'
  <2>1. ASSUME NEW w \in Worker, w # v
        PROVE  /\ TimerCalls(w)' => w \in inited'
               /\ w \notin raced' /\ TimerCalls(w)' => IsArmed(w)'
               /\ w \notin raced' => \A d \in Caller : Taking(d, w)' => IsArmed(w)'
    BY <1>4, <1>7, <1>8, <2>1 DEF WInv, Timers
  <2>2. ASSUME v \notin raced'
        PROVE  ~TimerCalls(v)' /\ \A d \in Caller : ~Taking(d, v)'
    <3>1. ~Overtakes(c, v)
      BY <1>7, <2>2
    <3>2. \A d \in Caller \ {c} : ~Taking(d, v)'
      BY <1>7, <3>1 DEF Overtakes, Taking
    <3>3. ~Taking(c, v)'
      BY <1>7 DEF Taking, Do
    <3>4. ~TimerCalls(v)
      <4>1. CASE c = "library"
        BY <3>1, <4>1 DEF Overtakes
      <4>2. CASE c = "loop"
        BY <1>l, <1>n, <4>2, WorkerNodes, NodesDistinct DEF TimerCalls
      <4> QED
        BY <4>1, <4>2 DEF Caller
    <3> QED
      BY <1>8, <3>2, <3>3, <3>4
  <2>3. TimerCalls(v)' => v \in inited'
    BY <1>3, <1>4
  <2> QED
    BY <2>1, <2>2, <2>3 DEF Timers
<1> QED
  BY <1>7, <1>9, <1>10 DEF WInv

\* The timer of a worker has expired and its handler takes it.
LEMMA TimerFiresInv ==
    ASSUME WInv, NEW v \in Worker, timer_fires(v)
    PROVE  WInv'
<1> USE WorkerNodes, NodesDistinct
<1>1. TimerCalls(v) /\ take_timer("loop", v, "send") /\ callback_done' = TRUE
  BY DEF timer_fires
<1>2. stack # <<>> /\ Top.call = timer_node[v] /\ callback_done = FALSE
  BY <1>1 DEF TimerCalls, WInv, WorkerTypeOK
<1>3. v \in inited /\ (v \notin raced => IsArmed(v))
  BY <1>1 DEF WInv, Timers
<1>4. op["loop"] = None
  BY <1>2 DEF WInv, Calls
<1>5. UNCHANGED <<stack, event_list, inited>>
  BY <1>1 DEF take_timer
<1>6. \A w \in Worker : \A i \in DOMAIN stack : Busy(i, w)' <=> Busy(i, w)
  BY <1>1, <1>2, <1>5 DEF Busy, Top
<1>7. \A w \in Worker : Finishes(w)' <=> Finishes(w)
  BY <1>5, <1>6 DEF Finishes
<1>8. callback_done' \in BOOLEAN /\ (callback_done' => stack # <<>> /\ Top.call # NULL)
  BY <1>1, <1>2
<1>9. /\ WorkerTypeOK' /\ Once' /\ Cycle' /\ Inv'
      /\ \A w \in Worker \ {v} : IsArmed(w)' <=> IsArmed(w)
      /\ \A w \in Worker \ {v}, d \in Caller : Taking(d, w)' <=> Taking(d, w)
      /\ op'["loop"] = Do("send", v) /\ \A d \in Caller \ {"loop"} : op'[d] = op[d]
      /\ \A w \in Worker : w \notin raced' => w \notin raced
      /\ v \notin raced' => ~Overtakes("loop", v)
  BY <1>1, <1>3, <1>4, <1>6, <1>7, <1>8, TakePlaces DEF Caller
<1>10. Calls'
  BY <1>1, <1>2, <1>5 DEF WInv, Calls, Top, is_node_in
<1>11. \A w \in Worker : ~TimerCalls(w)'
  BY <1>1 DEF TimerCalls
<1>12. Timers'
  <2>1. ASSUME NEW w \in Worker, w # v, w \notin raced', NEW d \in Caller, Taking(d, w)'
        PROVE  IsArmed(w)'
    BY <1>9, <2>1 DEF WInv, Timers
  <2>2. ASSUME v \notin raced', NEW d \in Caller
        PROVE  ~Taking(d, v)'
    <3>1. CASE d = "loop"
      BY <1>9, <3>1 DEF Taking, Do
    <3>2. CASE d # "loop"
      BY <1>9, <2>2, <3>2 DEF Taking, Overtakes
    <3> QED
      BY <3>1, <3>2
  <2> QED
    BY <1>11, <2>1, <2>2 DEF Timers
<1> QED
  BY <1>9, <1>10, <1>12 DEF WInv

\* A caller that holds a worker sends its job, or is to register its timer.
LEMMA SendInv ==
    ASSUME WInv, NEW c \in Caller, NEW v \in Worker, send(c, v)
    PROVE  WInv'
<1> USE WorkerNodes, NodesDistinct
<1>1. /\ op[c] = Do("send", v)
      /\ UNCHANGED <<vars, inited, running, callback_done, raced>>
  BY DEF send
<1>2. Inv'
  BY <1>1, NextInv DEF WInv
<1>3. HeldBy(c, v) /\ Holds(v)
  BY <1>1 DEF HeldBy, Holds
<1>4. v \in inited
  BY <1>3 DEF WInv, Cycle, Nowhere, Somewhere
<1>5. \A w \in Worker : /\ IsArmed(w)' <=> IsArmed(w)
                        /\ TimerCalls(w)' <=> TimerCalls(w)
                        /\ (running = w)' <=> running = w
                        /\ Flagged(w)' <=> Flagged(w)
                        /\ Finishes(w)' <=> Finishes(w)
                        /\ \A i : Busy(i, w)' <=> Busy(i, w)
  BY <1>1 DEF IsArmed, TimerCalls, Flagged, Finishes, Busy, is_node_in, vars, Top
<1>6. /\ Len(queue) \in Nat /\ Len(queue) <= QueueSize /\ queue \in Seq(Worker)
      /\ DOMAIN queue = 1 .. Len(queue)
  BY DEF WInv, WorkerTypeOK
<1>n. op[c] # None
  BY <1>1 DEF Do, None
<1>7. op[c] \in With(v) /\ Do("register", v) \in With(v) /\ None \in With(v)
  BY <1>1 DEF With, Step
<1>8. ASSUME op'[c] \in {None, Do("register", v)}, \A d \in Caller \ {c} : op'[d] = op[d],
             \A w \in Worker \ {v}, d \in Caller : Taking(d, w)' <=> Taking(d, w)
      PROVE  Calls' /\ Timers'
  <2>1. op["loop"]' # None => op["loop"] # None
    BY <1>8, <1>n DEF Caller
  <2>2. Calls'
    BY <1>1, <2>1 DEF WInv, Calls, vars, is_node_in, Top
  <2>3. ASSUME NEW d \in Caller, Taking(d, v)' PROVE Taking(d, v)
    <3>1. CASE d = c
      BY <1>8, <2>3, <3>1 DEF Taking, Do, None
    <3>2. CASE d # c
      BY <1>8, <2>3, <3>2 DEF Taking
    <3> QED
      BY <3>1, <3>2
  <2>4. \A w \in Worker, d \in Caller : Taking(d, w)' => Taking(d, w)
    BY <1>8, <2>3
  <2>5. Timers'
    BY <1>1, <1>5, <2>4 DEF WInv, Timers
  <2> QED
    BY <2>2, <2>5
<1>9. v \notin raced => ~IsArmed(v) /\ ~InQueue(v) /\ running # v /\ ~Flagged(v) /\ ~Finishes(v)
                       /\ \A d \in Caller : HeldBy(d, v) => d = c
  BY <1>3 DEF WInv, Cycle, AtOne, Once, Single
<1>10. CASE /\ Len(queue) < QueueSize
            /\ queue' = Append(queue, v)
            /\ op' = [op EXCEPT ![c] = None]
  <2>1. /\ \A w \in Worker \ {v}, d \in Caller : HeldBy(d, w)' <=> HeldBy(d, w)
        /\ \A w \in Worker \ {v} : Holds(w)' <=> Holds(w)
        /\ \A d \in Caller \ {c} : op'[d] = op[d]
        /\ op'[c] = None
        /\ \A w \in Worker \ {v}, d \in Caller : Taking(d, w)' <=> Taking(d, w)
    BY <1>7, <1>10, OthersHeld
  <2>2. /\ queue' \in Seq(Worker) /\ Len(queue') = Len(queue) + 1
        /\ DOMAIN queue' = 1 .. Len(queue) + 1
        /\ queue'[Len(queue) + 1] = v
        /\ \A i \in 1 .. Len(queue) : queue'[i] = queue[i]
    BY <1>6, <1>10, AppendProperties
  <2>3. InQueue(v)' /\ \A w \in Worker \ {v} : InQueue(w)' <=> InQueue(w)
    BY <1>6, <2>2 DEF InQueue
  <2>4. \A w \in Worker \ {v} : Stays(w)
    BY <1>5, <2>1, <2>3 DEF Stays
  <2>5. ASSUME v \notin raced PROVE AtOne(v)' /\ ~Holds(v)'
    <3>1. ~Holds(v)'
      <4> SUFFICES ASSUME NEW d \in Caller, HeldBy(d, v)' PROVE FALSE
        BY DEF Holds
      <4>1. CASE d = c
        BY <2>1, <4>1 DEF HeldBy, Do, None
      <4>2. CASE d # c
        BY <1>9, <2>1, <2>5, <4>2 DEF HeldBy
      <4> QED
        BY <4>1, <4>2
    <3> QED
      BY <1>5, <1>9, <2>5, <3>1 DEF AtOne
  <2>6. Cycle'
    BY <1>1, <1>4, <2>3, <2>4, <2>5, CycleMoves DEF WInv, Somewhere
  <2>7. Once'
    <3> SUFFICES ASSUME NEW w \in Worker, w \notin raced'
                 PROVE  Single(w)'
      BY DEF Once
    <3>1. Single(w) /\ w \notin raced
      BY <1>1 DEF WInv, Once
    <3>2. \A a, d \in Caller : HeldBy(a, w)' /\ HeldBy(d, w)' => a = d
      <4>1. CASE w = v
        BY <2>5, <3>1, <4>1 DEF Holds
      <4>2. CASE w # v
        BY <2>1, <3>1, <4>2 DEF Single
      <4> QED
        BY <4>1, <4>2
    <3>3. ASSUME NEW i \in DOMAIN queue', NEW j \in DOMAIN queue', queue'[i] = w, queue'[j] = w
          PROVE  i = j
      <4>1. CASE w = v
        <5>1. \A k \in DOMAIN queue : queue[k] # v
          BY <1>9, <3>1, <4>1 DEF InQueue
        <5> QED
          BY <1>6, <2>2, <3>3, <4>1, <5>1
      <4>2. CASE w # v
        <5>1. i \in DOMAIN queue /\ j \in DOMAIN queue /\ queue[i] = w /\ queue[j] = w
          BY <1>6, <2>2, <3>3, <4>2
        <5> QED
          BY <3>1, <5>1 DEF Single
      <4> QED
        BY <4>1, <4>2
    <3> QED
      BY <1>1, <1>5, <3>1, <3>2, <3>3 DEF Single, vars
  <2>8. WorkerTypeOK'
    <3>1. Len(queue') <= QueueSize
      BY <1>6, <1>10, <2>2, QueueType
    <3>2. op' \in [Caller -> {None} \cup {Do(x, w) : x \in Step, w \in inited}]
      BY <1>10 DEF WInv, WorkerTypeOK
    <3> QED
      BY <1>1, <2>2, <3>1, <3>2 DEF WInv, WorkerTypeOK, vars, Top
  <2> QED
    BY <1>2, <1>8, <2>1, <2>6, <2>7, <2>8 DEF WInv
<1>11. CASE op' = [op EXCEPT ![c] = Do("register", v)] /\ UNCHANGED queue
  <2>1. /\ \A w \in Worker \ {v}, d \in Caller : HeldBy(d, w)' <=> HeldBy(d, w)
        /\ \A d \in Caller \ {c} : op'[d] = op[d]
        /\ op'[c] = Do("register", v)
        /\ \A w \in Worker \ {v}, d \in Caller : Taking(d, w)' <=> Taking(d, w)
    BY <1>7, <1>11, OthersHeld
  <2>2. \A w \in Worker, d \in Caller : HeldBy(d, w)' <=> HeldBy(d, w)
    <3> SUFFICES ASSUME NEW d \in Caller PROVE HeldBy(d, v)' <=> HeldBy(d, v)
      BY <2>1
    <3>1. CASE d = c
      BY <1>3, <2>1, <3>1 DEF HeldBy
    <3>2. CASE d # c
      BY <2>1, <3>2 DEF HeldBy
    <3> QED
      BY <3>1, <3>2
  <2>3. \A w \in Worker : Stays(w)
    BY <1>5, <1>11, <2>2 DEF Stays, Holds, InQueue
  <2>4. Cycle'
    BY <1>1, <2>3, CycleStays DEF WInv
  <2>5. Once'
    BY <1>1, <1>5, <1>11, <2>2 DEF WInv, Once, Single, vars
  <2>6. WorkerTypeOK'
    <3>1. op' \in [Caller -> {None} \cup {Do(x, w) : x \in Step, w \in inited}]
      BY <1>4, <1>11 DEF WInv, WorkerTypeOK, Step
    <3> QED
      BY <1>1, <1>11, <3>1 DEF WInv, WorkerTypeOK, vars, Top
  <2> QED
    BY <1>2, <1>8, <2>1, <2>4, <2>5, <2>6 DEF WInv
<1> QED
  BY <1>10, <1>11 DEF send, Begin

\* The timer of a worker is linked and no longer due: the frames keep their calls.
LEMMA LinkedAgain ==
    ASSUME WInv, NEW v \in Worker, timer_list' = insert_node_safe(timer_list, timer_node[v]),
           stack' = Rearm(stack, timer_node[v])
    PROVE  /\ IsArmed(v)' /\ \A w \in Worker \ {v} : IsArmed(w)' <=> IsArmed(w)
           /\ stack' \in Seq(Frame) /\ Len(stack') = Len(stack)
           /\ DOMAIN stack' = DOMAIN stack /\ DOMAIN stack = 1 .. Len(stack)
           /\ \A i \in 1 .. Len(stack) : stack'[i].call = stack[i].call
           /\ stack # <<>> => stack' # <<>> /\ Top'.call = Top.call
           /\ stack = <<>> => stack' = <<>>
<1>1. timer_list \in Seq(TimerNode) /\ timer_node[v] \in TimerNode /\ stack \in Seq(Frame)
  BY WorkerNodes DEF WInv, Inv, TypeOK
<1>2. \A m : is_node_in(timer_list', m) <=> is_node_in(timer_list, m) \/ m = timer_node[v]
  BY <1>1, InsertedNodes
<1>3. IsArmed(v)' /\ \A w \in Worker \ {v} : IsArmed(w)' <=> IsArmed(w)
  BY <1>2, WorkerNodes DEF IsArmed, IsInjective
<1>4. /\ stack' \in Seq(Frame) /\ Len(stack') = Len(stack)
      /\ \A i \in 1 .. Len(stack) : stack'[i].call = stack[i].call
  BY <1>1, RearmFrames
<1>5. DOMAIN stack' = 1 .. Len(stack) /\ DOMAIN stack = 1 .. Len(stack)
  BY <1>1, <1>4
<1>6. /\ stack # <<>> => stack' # <<>> /\ Top'.call = Top.call
      /\ stack = <<>> => stack' = <<>>
  <2>1. stack # <<>> => Len(stack) \in 1 .. Len(stack)
    BY <1>1
  <2> QED
    BY <1>1, <1>4, <1>5, <2>1 DEF Top
<1> QED
  BY <1>3, <1>4, <1>5, <1>6

\* A caller that holds a worker registers its timer, on either thread.
LEMMA RegisterStepInv ==
    ASSUME WInv, NEW c \in Caller, NEW v \in Worker, register(c, v)
    PROVE  WInv'
<1> USE WorkerNodes, NodesDistinct
<1>1. /\ op[c] = Do("register", v)
      /\ timer_list' = insert_node_safe(timer_list, timer_node[v])
      /\ stack' = Rearm(stack, timer_node[v])
      /\ op' = [op EXCEPT ![c] = None]
      /\ UNCHANGED <<flagVars, event_list, enabled, loop_stop, inited, threadVars, callback_done, raced>>
  BY DEF register
<1>2. Inv'
  BY <1>1, RegisterInv DEF WInv
<1>3. HeldBy(c, v) /\ Holds(v)
  BY <1>1 DEF HeldBy, Holds
<1>4. v \in inited
  BY <1>3 DEF WInv, Cycle, Nowhere, Somewhere
<1>5. /\ IsArmed(v)' /\ \A w \in Worker \ {v} : IsArmed(w)' <=> IsArmed(w)
      /\ stack' \in Seq(Frame) /\ Len(stack') = Len(stack)
      /\ DOMAIN stack' = DOMAIN stack /\ DOMAIN stack = 1 .. Len(stack)
      /\ \A i \in 1 .. Len(stack) : stack'[i].call = stack[i].call
      /\ stack # <<>> => stack' # <<>> /\ Top'.call = Top.call
      /\ stack = <<>> => stack' = <<>>
  BY <1>1, LinkedAgain
<1>6. /\ \A w \in Worker, i \in DOMAIN stack : Busy(i, w)' <=> Busy(i, w)
      /\ \A w \in Worker : Finishes(w)' <=> Finishes(w)
      /\ \A i \in DOMAIN stack' : i < Len(stack') => stack'[i].call \in EventNode
  BY <1>1, <1>5 DEF Busy, Finishes, WInv, Calls
<1>7. op[c] \in With(v) /\ None \in With(v)
  BY <1>1 DEF With, Step
<1>8. /\ op'[c] = None /\ \A d \in Caller \ {c} : op'[d] = op[d]
      /\ \A w \in Worker \ {v}, d \in Caller : HeldBy(d, w)' <=> HeldBy(d, w)
      /\ \A w \in Worker \ {v}, d \in Caller : Taking(d, w)' <=> Taking(d, w)
      /\ \A w \in Worker \ {v} : Holds(w)' <=> Holds(w)
  BY <1>1, <1>7, OthersHeld
<1>9. ~HeldBy(c, v)' /\ ~Taking(c, v)'
  BY <1>8 DEF HeldBy, Taking, Do, None
<1>10. \A d \in Caller \ {c} : HeldBy(d, v)' <=> HeldBy(d, v)
  BY <1>8 DEF HeldBy
<1>11. \A w \in Worker : /\ InQueue(w)' <=> InQueue(w)
                         /\ (running = w)' <=> running = w
                         /\ Flagged(w)' <=> Flagged(w)
  BY <1>1 DEF InQueue, Flagged, flagVars, threadVars
<1>12. ASSUME v \notin raced
       PROVE  AtOne(v)' /\ \A d \in Caller : ~HeldBy(d, v)'
  <2>1. AtOne(v) /\ Single(v)
    BY <1>12 DEF WInv, Cycle, Once
  <2>2. ~InQueue(v) /\ running # v /\ ~Flagged(v) /\ ~Finishes(v)
    BY <1>3, <2>1 DEF AtOne
  <2>3. \A d \in Caller : ~HeldBy(d, v)'
    BY <1>3, <1>9, <1>10, <2>1 DEF Single
  <2>4. ~Holds(v)'
    BY <2>3 DEF Holds
  <2> QED
    BY <1>6, <1>11, <2>2, <2>3, <2>4 DEF AtOne
<1>13. Cycle'
  <2>1. \A w \in Worker \ {v} : Stays(w)
    BY <1>5, <1>6, <1>8, <1>11 DEF Stays
  <2> QED
    BY <1>1, <1>4, <1>5, <1>12, <2>1, CycleMoves DEF WInv, Somewhere
<1>14. Once'
  <2> SUFFICES ASSUME NEW w \in Worker, w \notin raced'
               PROVE  Single(w)'
    BY DEF Once
  <2>1. Single(w) /\ w \notin raced
    BY <1>1 DEF WInv, Once
  <2>2. \A a, d \in Caller : HeldBy(a, w)' /\ HeldBy(d, w)' => a = d
    <3>1. CASE w = v
      BY <1>12, <2>1, <3>1
    <3>2. CASE w # v
      <4>1. \A d \in Caller : HeldBy(d, w)' <=> HeldBy(d, w)
        BY <1>8, <3>2
      <4> QED
        BY <2>1, <4>1 DEF Single
    <3> QED
      BY <3>1, <3>2
  <2>3. \A i, j \in DOMAIN stack' : Busy(i, w)' /\ Busy(j, w)' => i = j
    BY <1>5, <1>6, <2>1 DEF Single
  <2> QED
    BY <1>1, <2>1, <2>2, <2>3 DEF Single, flagVars, threadVars
<1>15. WorkerTypeOK'
  <2>1. op' \in [Caller -> {None} \cup {Do(x, w) : x \in Step, w \in inited}]
    BY <1>1 DEF WInv, WorkerTypeOK
  <2> QED
    BY <1>1, <1>5, <2>1 DEF WInv, WorkerTypeOK, threadVars
<1>16. Calls'
  <2>1. op["loop"]' # None => op["loop"] # None
    BY <1>8 DEF Caller
  <2>2. callback_done => stack # <<>>
    BY DEF WInv, WorkerTypeOK
  <2> QED
    BY <1>1, <1>5, <1>6, <2>1, <2>2 DEF WInv, Calls, is_node_in
<1>17. Timers'
  <2>1. \A w \in Worker : TimerCalls(w)' <=> TimerCalls(w)
    BY <1>1, <1>5 DEF TimerCalls
  <2>2. \A w \in Worker : IsArmed(w) => IsArmed(w)'
    BY <1>5
  <2>3. ASSUME NEW w \in Worker, NEW d \in Caller, Taking(d, w)', w \notin raced'
        PROVE  IsArmed(w)'
    BY <1>1, <1>5, <1>8, <2>2, <2>3 DEF WInv, Timers
  <2> QED
    BY <1>1, <2>1, <2>2, <2>3 DEF WInv, Timers
<1> QED
  BY <1>2, <1>13, <1>14, <1>15, <1>16, <1>17 DEF WInv

\* A client, or the library, has found the timer registered: nobody moves yet.
LEMMA BeginInv ==
    ASSUME WInv, NEW c \in Caller, NEW v \in Worker, NEW x \in {"deregister", "restart"},
           op[c] = None, IsArmed(v), Begin(c, x, v),
           c = "loop" => stack # <<>> /\ Top.call \in EventNode,
           UNCHANGED <<vars, inited, threadVars, callback_done, raced>>
    PROVE  WInv'
<1> USE WorkerNodes, NodesDistinct
<1>1. op' = [op EXCEPT ![c] = Do(x, v)]
  BY DEF Begin
<1>2. Inv'
  BY NextInv DEF WInv
<1>3. v \in inited
  BY DEF WInv, Cycle, Nowhere, Somewhere
<1>4. op[c] \in With(v) /\ Do(x, v) \in With(v)
  BY DEF With, Step
<1>5. /\ op'[c] = Do(x, v) /\ \A d \in Caller \ {c} : op'[d] = op[d]
      /\ \A w \in Worker \ {v}, d \in Caller : HeldBy(d, w)' <=> HeldBy(d, w)
      /\ \A w \in Worker \ {v}, d \in Caller : Taking(d, w)' <=> Taking(d, w)
      /\ \A w \in Worker \ {v} : Holds(w)' <=> Holds(w)
  BY <1>1, <1>4, OthersHeld
<1>6. \A w \in Worker, d \in Caller : HeldBy(d, w)' <=> HeldBy(d, w)
  <2>1. \A d \in Caller \ {c} : HeldBy(d, v)' <=> HeldBy(d, v)
    BY <1>5 DEF HeldBy
  <2>2. ~HeldBy(c, v)' /\ ~HeldBy(c, v)
    BY <1>5 DEF HeldBy, Do, None
  <2> QED
    BY <1>5, <2>1, <2>2
<1>7. \A w \in Worker : /\ Stays(w)
                        /\ TimerCalls(w)' <=> TimerCalls(w)
                        /\ IsArmed(w)' <=> IsArmed(w)
                        /\ \A i \in DOMAIN stack' : Busy(i, w)' => Busy(i, w)
  BY <1>6 DEF Stays, Holds, IsArmed, InQueue, Flagged, Finishes, Busy, TimerCalls, is_node_in,
              vars, threadVars, Top
<1>8. Cycle'
  BY <1>7, CycleStays DEF WInv
<1>9. Once'
  <2> SUFFICES ASSUME NEW w \in Worker, w \notin raced'
               PROVE  Single(w)'
    BY DEF Once
  <2>1. Single(w)
    BY DEF WInv, Once
  <2> QED
    BY <1>6, <1>7, <2>1 DEF Single, vars, threadVars
<1>10. WorkerTypeOK'
  <2>1. op' \in [Caller -> {None} \cup {Do(y, w) : y \in Step, w \in inited}]
    BY <1>1, <1>3 DEF WInv, WorkerTypeOK, Step
  <2> QED
    BY <2>1 DEF WInv, WorkerTypeOK, threadVars, vars, Top
<1>11. Calls'
  <2>1. op["loop"]' # None => op["loop"] # None \/ c = "loop"
    BY <1>5 DEF Caller
  <2> QED
    BY <2>1 DEF WInv, Calls, vars, is_node_in, Top
<1>12. Timers'
  <2>1. ASSUME NEW w \in Worker, NEW d \in Caller, Taking(d, w)', w \notin raced'
        PROVE  IsArmed(w)'
    <3>1. CASE w = v
      BY <1>7, <3>1
    <3>2. CASE w # v
      BY <1>5, <1>7, <2>1, <3>2 DEF WInv, Timers
    <3> QED
      BY <3>1, <3>2
  <2> QED
    BY <1>7, <2>1 DEF WInv, Timers
<1> QED
  BY <1>2, <1>8, <1>9, <1>10, <1>11, <1>12 DEF WInv

(***************************************************************************)
(* The steps of handlers, the worker thread and clients                    *)
(***************************************************************************)

\* finish_fn has returned and the timer is registered again.
LEMMA EventCallbackInv ==
    ASSUME WInv, NEW v \in Worker, event_callback(v)
    PROVE  WInv'
<1> USE WorkerNodes, NodesDistinct
<1>1. Inv'
  BY LoopInv DEF WInv, WorkerNext, Callback
<1>2. /\ stack # <<>> /\ Top.call = event_node[v] /\ callback_done = FALSE /\ callback_done' = TRUE
      /\ op["loop"] = None
      /\ timer_list' = insert_node_safe(timer_list, timer_node[v])
      /\ stack' = Rearm(stack, timer_node[v])
      /\ UNCHANGED <<flagVars, event_list, inited, threadVars, callVars>>
  BY DEF event_callback, InFinish, a_eventloop_register_timer, WInv, WorkerTypeOK
<1>3. /\ IsArmed(v)' /\ \A w \in Worker \ {v} : IsArmed(w)' <=> IsArmed(w)
      /\ stack' \in Seq(Frame) /\ Len(stack') = Len(stack)
      /\ DOMAIN stack' = DOMAIN stack /\ DOMAIN stack = 1 .. Len(stack)
      /\ \A i \in 1 .. Len(stack) : stack'[i].call = stack[i].call
      /\ stack' # <<>> /\ Top'.call = Top.call
  BY <1>2, LinkedAgain
<1>4. /\ Len(stack) \in DOMAIN stack /\ Len(stack) \in DOMAIN stack'
      /\ stack' # <<>>
      /\ Top' = stack'[Len(stack)]
      /\ \A j \in DOMAIN stack : j \in DOMAIN stack' /\ j \in 1 .. Len(stack)
      /\ \A j \in DOMAIN stack' : j \in DOMAIN stack
      /\ \A j \in DOMAIN stack, w \in Worker : j # Len(stack) => (Busy(j, w)' <=> Busy(j, w))
      /\ \A i \in DOMAIN stack' : i < Len(stack') => stack'[i].call \in EventNode
  BY <1>2, <1>3, TopCalls
<1>5. stack[Len(stack)].call = event_node[v]
  BY <1>2 DEF Top
<1>6. \A w \in Worker : ~Busy(Len(stack), w)'
  BY <1>2, <1>3 DEF Busy
<1>7. \A w \in Worker \ {v} : ~Busy(Len(stack), w)
  BY <1>5 DEF Busy, IsInjective
<1>8. Busy(Len(stack), v) /\ Finishes(v)
  BY <1>2, <1>4, <1>5 DEF Busy, Finishes
<1>9. \A w \in Worker \ {v} : Finishes(w)' <=> Finishes(w)
  BY <1>4, <1>6, <1>7 DEF Finishes
<1>10. v \in inited
  BY <1>8 DEF WInv, Cycle, Nowhere, Somewhere
<1>11. \A w \in Worker : /\ InQueue(w)' <=> InQueue(w)
                         /\ (running = w)' <=> running = w
                         /\ Flagged(w)' <=> Flagged(w)
                         /\ Holds(w)' <=> Holds(w)
                         /\ \A c \in Caller : HeldBy(c, w)' <=> HeldBy(c, w)
                         /\ \A c \in Caller : Taking(c, w)' <=> Taking(c, w)
  BY <1>2 DEF InQueue, Flagged, Holds, HeldBy, Taking, flagVars, threadVars, callVars
<1>12. ASSUME v \notin raced PROVE AtOne(v)'
  <2>1. AtOne(v) /\ Single(v)
    BY <1>12 DEF WInv, Cycle, Once
  <2>2. ~Finishes(v)'
    <3>1. \A j \in DOMAIN stack : Busy(j, v) => j = Len(stack)
      BY <1>4, <1>8, <2>1 DEF Single
    <3> QED
      BY <1>4, <1>6, <3>1 DEF Finishes
  <2>3. ~Holds(v) /\ ~InQueue(v) /\ running # v /\ ~Flagged(v)
    BY <1>8, <2>1 DEF AtOne
  <2> QED
    BY <1>11, <2>2, <2>3 DEF AtOne
<1>13. Cycle'
  <2>1. \A w \in Worker \ {v} : Stays(w)
    BY <1>3, <1>9, <1>11 DEF Stays
  <2> QED
    BY <1>2, <1>3, <1>10, <1>12, <2>1, CycleMoves DEF WInv, Somewhere, callVars
<1>14. WorkerTypeOK'
  BY <1>2, <1>3 DEF WInv, WorkerTypeOK, threadVars, callVars
<1>15. Calls'
  BY <1>2, <1>3, <1>4 DEF WInv, Calls, callVars, is_node_in
<1>16. Timers'
  <2>1. \A w \in Worker : ~TimerCalls(w)'
    BY <1>2 DEF TimerCalls
  <2> QED
    BY <1>2, <1>3, <1>11, <2>1 DEF WInv, Timers, callVars
<1>17. Once'
  <2> SUFFICES ASSUME NEW w \in Worker, w \notin raced'
               PROVE  Single(w)'
    BY DEF Once
  <2>1. Single(w)
    BY <1>2 DEF WInv, Once, callVars
  <2>2. \A i, j \in DOMAIN stack' : Busy(i, w)' /\ Busy(j, w)' => i = j
    BY <1>4, <1>6, <2>1 DEF Single
  <2> QED
    BY <1>2, <1>11, <2>1, <2>2 DEF Single, flagVars, threadVars
<1> QED
  BY <1>1, <1>13, <1>14, <1>15, <1>16, <1>17 DEF WInv

\* A handler has nothing left to do, or is one that no worker is behind.
LEMMA CallbackReturnsInv ==
    ASSUME WInv, callback_returns
    PROVE  WInv'
<1> USE WorkerNodes, NodesDistinct
<1>1. Inv'
  BY LoopInv DEF WInv, WorkerNext, Callback
<1>2. /\ stack # <<>> /\ Top.call # NULL
      /\ callback_done \/ Top.call \in ClientEvent
      /\ SetTop(AfterCall)
      /\ callback_done' = FALSE
      /\ op["loop"] = None
      /\ UNCHANGED <<flagVars, listVars, inited, threadVars, callVars>>
  BY DEF callback_returns, handler_returns
<1>3. Top \in Frame /\ Len(stack) \in 1 .. Len(stack) /\ Top = stack[Len(stack)]
  BY <1>2, TopFrame DEF WInv, Inv, TypeOK
<1>4. /\ Len(stack') = Len(stack) /\ stack' \in Seq(Frame)
      /\ stack'[Len(stack)].call = NULL
      /\ \A i \in 1 .. Len(stack) - 1 : stack'[i].call = stack[i].call
  <2>1. stack' = [stack EXCEPT ![Len(stack)] = AfterCall]
    BY <1>2 DEF SetTop
  <2>2. AfterCall.call = NULL
    BY <1>3 DEF AfterCall, Frame
  <2> DEFINE after == AfterCall
  <2> HIDE DEF after
  <2>3. stack \in Seq(Frame \cup {after})
    BY DEF WInv, Inv, TypeOK
  <2>4. Len(stack') = Len(stack) /\ stack'[Len(stack)] = after
        /\ \A i \in 1 .. Len(stack) - 1 : stack'[i] = stack[i]
    BY <1>3, <2>1, <2>3, ExceptSeq DEF after
  <2>5. stack' \in Seq(Frame)
    BY <1>1 DEF Inv, TypeOK
  <2> QED
    BY <2>2, <2>4, <2>5 DEF after
<1>5. /\ Len(stack) \in DOMAIN stack /\ Len(stack) \in DOMAIN stack'
      /\ stack' # <<>>
      /\ Top' = stack'[Len(stack)]
      /\ \A j \in DOMAIN stack : j \in DOMAIN stack' /\ j \in 1 .. Len(stack)
      /\ \A j \in DOMAIN stack' : j \in DOMAIN stack
      /\ \A j \in DOMAIN stack, w \in Worker : j # Len(stack) => (Busy(j, w)' <=> Busy(j, w))
      /\ \A i \in DOMAIN stack' : i < Len(stack') => stack'[i].call \in EventNode
  BY <1>2, <1>4, TopCalls
<1>6. \A w \in Worker : ~Busy(Len(stack), w) /\ ~Busy(Len(stack), w)'
  BY <1>2, <1>3, <1>4 DEF Busy
<1>7. \A w \in Worker :
          /\ IsArmed(w)' <=> IsArmed(w)
          /\ ~TimerCalls(w)'
          /\ Flagged(w)' <=> Flagged(w)
          /\ event_flag[w] \in events' \cap pending_events' =>
                 event_flag[w] \in events \cap pending_events
          /\ Finishes(w)' <=> Finishes(w)
          /\ \A i \in DOMAIN stack' : Busy(i, w)' => i \in DOMAIN stack /\ Busy(i, w)
  BY <1>2, <1>4, <1>5, <1>6
     DEF IsArmed, TimerCalls, Flagged, Finishes, listVars, flagVars, is_node_in
<1>8. Calls'
  BY <1>2, <1>4, <1>5 DEF WInv, Calls, listVars, callVars, is_node_in
<1> QED
  BY <1>1, <1>2, <1>7, <1>8, AllStay DEF threadVars, callVars

\* The thread takes the next job.
LEMMA NextJobInv ==
    ASSUME WInv, next_job
    PROVE  WInv'
<1> USE WorkerNodes, NodesDistinct
<1>1. /\ running = NULL /\ queue # <<>> /\ running' = Head(queue) /\ queue' = Tail(queue)
      /\ UNCHANGED <<vars, inited, callback_done, callVars>>
  BY DEF next_job
<1>2. Inv'
  BY LoopInv DEF WInv, WorkerNext, Thread
<1>h. Head(queue) \in Worker
  BY <1>1, HeadTailProperties DEF WInv, WorkerTypeOK
<1> PICK v \in Worker : v = Head(queue)
  BY <1>h
<1>3. /\ running' = v /\ queue' \in Seq(Worker) /\ Len(queue') = Len(queue) - 1
      /\ Len(queue) \in Nat \ {0} /\ queue[1] = v
      /\ DOMAIN queue = 1 .. Len(queue) /\ DOMAIN queue' = 1 .. Len(queue) - 1
      /\ \A i \in 1 .. Len(queue) - 1 : queue'[i] = queue[i + 1]
  BY <1>1, HeadTailProperties DEF WInv, WorkerTypeOK
<1>4. ASSUME NEW w \in Worker, NEW i \in DOMAIN queue', queue'[i] = w
      PROVE  i + 1 \in DOMAIN queue /\ queue[i + 1] = w /\ i + 1 # 1 /\ i \in Int
  BY <1>3, <1>4
<1>7. InQueue(v) /\ v \in inited
  <2>1. InQueue(v)
    BY <1>3 DEF InQueue
  <2> QED
    BY <2>1 DEF WInv, Cycle, Nowhere, Somewhere
<1>8. ASSUME NEW w \in Worker, w # v
      PROVE  InQueue(w)' <=> InQueue(w)
  <2>1. ASSUME NEW i \in DOMAIN queue, queue[i] = w
        PROVE  \E k \in DOMAIN queue' : queue'[k] = w
    <3>1. i # 1
      BY <1>3, <1>8, <2>1
    <3>2. i - 1 \in DOMAIN queue' /\ queue'[i - 1] = w
      BY <1>3, <2>1, <3>1
    <3> QED
      BY <3>2
  <2>2. ASSUME NEW i \in DOMAIN queue', queue'[i] = w
        PROVE  \E k \in DOMAIN queue : queue[k] = w
    BY <1>4, <2>2
  <2> QED
    BY <2>1, <2>2 DEF InQueue
<1>9. \A w \in Worker : /\ IsArmed(w)' <=> IsArmed(w)
                        /\ Holds(w)' <=> Holds(w)
                        /\ Flagged(w)' <=> Flagged(w)
                        /\ Finishes(w)' <=> Finishes(w)
  BY <1>1 DEF IsArmed, Holds, HeldBy, Flagged, Finishes, Busy, is_node_in, vars, callVars
<1>10. ASSUME v \notin raced PROVE AtOne(v)'
  <2>1. AtOne(v) /\ Single(v)
    BY <1>10 DEF WInv, Cycle, Once
  <2>2. ~InQueue(v)'
    <3> SUFFICES ASSUME NEW i \in DOMAIN queue', queue'[i] = v
                 PROVE  FALSE
      BY DEF InQueue
    <3>1. i + 1 \in DOMAIN queue /\ queue[i + 1] = v /\ i + 1 # 1 /\ 1 \in DOMAIN queue
      BY <1>3, <1>4
    <3> QED
      BY <1>3, <2>1, <3>1 DEF Single
  <2>3. ~IsArmed(v) /\ ~Holds(v) /\ ~Flagged(v) /\ ~Finishes(v)
    BY <1>7, <2>1 DEF AtOne
  <2> QED
    BY <1>9, <2>2, <2>3 DEF AtOne
<1>12. Cycle'
  <2>1. \A w \in Worker \ {v} : Stays(w)
    BY <1>1, <1>3, <1>8, <1>9 DEF Stays
  <2> QED
    BY <1>1, <1>3, <1>7, <1>10, <2>1, CycleMoves DEF WInv, Somewhere, callVars
<1>13. WorkerTypeOK'
  BY <1>1, <1>3, QueueType DEF WInv, WorkerTypeOK, vars, callVars, Top
<1>14. Calls'
  BY <1>1 DEF WInv, Calls, vars, callVars, is_node_in, Top
<1>15. Timers'
  BY <1>1 DEF WInv, Timers, Taking, TimerCalls, IsArmed, vars, callVars, is_node_in, Top
<1>16. Once'
  <2> SUFFICES ASSUME NEW w \in Worker, w \notin raced'
               PROVE  Single(w)'
    BY DEF Once
  <2>1. Single(w)
    BY <1>1 DEF WInv, Once, callVars
  <2>2. ASSUME NEW i \in DOMAIN queue', NEW j \in DOMAIN queue', queue'[i] = w, queue'[j] = w
        PROVE  i = j
    <3>1. /\ i + 1 \in DOMAIN queue /\ queue[i + 1] = w /\ i \in Int
          /\ j + 1 \in DOMAIN queue /\ queue[j + 1] = w /\ j \in Int
      BY <1>4, <2>2
    <3>2. i + 1 = j + 1
      BY <2>1, <3>1 DEF Single
    <3> QED
      BY <3>1, <3>2
  <2> QED
    BY <1>1, <2>1, <2>2 DEF Single, HeldBy, Busy, vars, callVars
<1> QED
  BY <1>2, <1>12, <1>13, <1>14, <1>15, <1>16 DEF WInv

\* worker_fn has returned and the flag is set.
LEMMA SensorProcessInv ==
    ASSUME WInv, NEW v \in Worker, sensor_process(v)
    PROVE  WInv'
<1> USE WorkerNodes, NodesDistinct
<1>1. /\ running = v /\ running' = NULL /\ events' = events \cup {event_flag[v]}
      /\ UNCHANGED <<pending_events, listVars, loop_stop, stack, inited, queue, callback_done, callVars>>
  BY DEF sensor_process, a_eventloop_set_flag
<1>2. Inv'
  BY LoopInv DEF WInv, WorkerNext, Thread
<1>3. v \in inited
  BY <1>1 DEF WInv, Cycle, Nowhere, Somewhere
<1>4. \A w \in Worker \ {v} : event_flag[w] # event_flag[v]
  BY DEF IsInjective
<1>5. Flagged(v)' /\ \A w \in Worker \ {v} : Flagged(w)' <=> Flagged(w)
  BY <1>1, <1>4 DEF Flagged
<1>6. \A w \in Worker : /\ IsArmed(w)' <=> IsArmed(w)
                        /\ Holds(w)' <=> Holds(w)
                        /\ InQueue(w)' <=> InQueue(w)
                        /\ Finishes(w)' <=> Finishes(w)
  BY <1>1 DEF IsArmed, Holds, HeldBy, InQueue, Finishes, Busy, is_node_in, listVars, callVars
<1>7. v \notin raced => AtOne(v)' /\ ~Flagged(v)
  <2> SUFFICES ASSUME v \notin raced PROVE AtOne(v)' /\ ~Flagged(v)
    OBVIOUS
  <2>1. ~IsArmed(v) /\ ~Holds(v) /\ ~InQueue(v) /\ ~Flagged(v) /\ ~Finishes(v)
    BY <1>1 DEF WInv, Cycle, AtOne
  <2> QED
    BY <1>1, <1>6, <2>1 DEF AtOne
<1>8. \A w \in Worker \ {v} : Stays(w)
  BY <1>1, <1>5, <1>6 DEF Stays
<1>9. Cycle'
  BY <1>1, <1>3, <1>5, <1>7, <1>8, CycleMoves DEF WInv, Somewhere, callVars
<1>10. WorkerTypeOK'
  BY <1>1 DEF WInv, WorkerTypeOK, callVars, Top
<1>11. Calls'
  BY <1>1 DEF WInv, Calls, listVars, callVars, is_node_in, Top
<1>12. Timers'
  BY <1>1 DEF WInv, Timers, Taking, TimerCalls, IsArmed, listVars, callVars, is_node_in, Top
<1>13. Once'
  <2> SUFFICES ASSUME NEW w \in Worker, w \notin raced'
               PROVE  Single(w)'
    BY DEF Once
  <2>1. Single(w) /\ w \notin raced
    BY <1>1 DEF WInv, Once, callVars
  <2>2. event_flag[w] \notin events' \cap pending_events'
    <3>1. CASE w = v
      BY <1>1, <1>7, <2>1, <3>1 DEF Flagged
    <3>2. CASE w # v
      BY <1>1, <1>4, <2>1, <3>2 DEF Single
    <3> QED
      BY <3>1, <3>2
  <2> QED
    BY <1>1, <2>1, <2>2 DEF Single, HeldBy, Busy, callVars
<1> QED
  BY <1>2, <1>9, <1>10, <1>11, <1>12, <1>13 DEF WInv

\* A worker is initialised: its timer is registered, and its event node.
LEMMA SetupInv ==
    ASSUME WInv, NEW v \in Worker, a_sys_worker_init(v)
    PROVE  WInv'
<1> USE WorkerNodes, NodesDistinct
<1>1. /\ stack = <<>> /\ v \notin inited /\ inited' = inited \cup {v}
      /\ timer_list' = insert_node_safe(timer_list, timer_node[v])
      /\ event_list' = insert_node_safe(event_list, event_node[v])
      /\ UNCHANGED <<flagVars, stack, threadVars, callback_done, callVars>>
  BY DEF a_sys_worker_init, Setup
<1>2. Inv'
  BY LoopInv DEF WInv, WorkerNext, ClientOperation
<1>3. Nowhere(v) /\ v \notin raced
  BY <1>1 DEF WInv, Cycle, WorkerTypeOK
<1>4. \A m : is_node_in(timer_list', m) <=> is_node_in(timer_list, m) \/ m = timer_node[v]
  BY <1>1, InsertedNodes DEF WInv, Inv, TypeOK
<1>5. \A m : is_node_in(event_list', m) <=> is_node_in(event_list, m) \/ m = event_node[v]
  BY <1>1, InsertedNodes DEF WInv, Inv, TypeOK
<1>6. IsArmed(v)' /\ \A w \in Worker \ {v} : IsArmed(w)' <=> IsArmed(w)
  BY <1>4 DEF IsArmed, IsInjective
<1>7. \A w \in Worker : /\ Holds(w)' <=> Holds(w)
                        /\ InQueue(w)' <=> InQueue(w)
                        /\ (running = w)' <=> running = w
                        /\ Flagged(w)' <=> Flagged(w)
                        /\ Finishes(w)' <=> Finishes(w)
  BY <1>1 DEF Holds, HeldBy, InQueue, Flagged, Finishes, Busy, flagVars, threadVars, callVars
<1>8. AtOne(v)'
  BY <1>3, <1>7 DEF AtOne, Nowhere, Somewhere
<1>9. Cycle'
  <2>1. \A w \in Worker \ {v} : Stays(w)
    BY <1>6, <1>7 DEF Stays
  <2> QED
    BY <1>1, <1>6, <1>8, <2>1, CycleMoves DEF WInv, Somewhere, callVars
<1>10. WorkerTypeOK'
  BY <1>1 DEF WInv, WorkerTypeOK, threadVars, callVars, Top
<1>11. Calls'
  BY <1>1, <1>5 DEF WInv, Calls, WorkerTypeOK, callVars
<1>12. Timers'
  BY <1>1, <1>6 DEF WInv, Timers, Taking, TimerCalls, callVars
<1>13. Once'
  BY <1>1 DEF WInv, Once, Single, HeldBy, Busy, flagVars, threadVars, callVars
<1> QED
  BY <1>2, <1>9, <1>10, <1>11, <1>12, <1>13 DEF WInv

\* Client code runs in handlers of events, while no finish_fn has returned.
LEMMA ClientRuns ==
    ASSUME WInv, Client
    PROVE  stack # <<>> /\ Top.call \in EventNode /\ callback_done = FALSE /\ op["loop"] = None
BY WorkerNodes DEF WInv, WorkerTypeOK, Calls, Client, InFinish

\* A trigger and a change of the interval.
LEMMA TriggerInv ==
    ASSUME WInv, NEW c \in Caller, NEW v \in Worker,
           a_sys_worker_trigger(c, v) \/ (c = "loop" /\ a_sys_worker_change_inteval(v))
    PROVE  WInv'
<1>1. CASE a_sys_worker_trigger(c, v)
  <2>1. op[c] = None /\ (c = "loop" => stack # <<>> /\ Top.call \in EventNode)
    BY <1>1, ClientRuns DEF a_sys_worker_trigger, MayCall
  <2> QED
    BY <1>1, <2>1, BeginInv DEF a_sys_worker_trigger
<1>2. CASE c = "loop" /\ a_sys_worker_change_inteval(v)
  BY <1>2, ClientRuns, BeginInv DEF a_sys_worker_change_inteval
<1> QED
  BY <1>1, <1>2

\* main or a client runs the loop.
LEMMA ClientEntersInv ==
    ASSUME WInv, client_enters
    PROVE  WInv'
<1> USE WorkerNodes, NodesDistinct
<1>1. PICK forever \in BOOLEAN : a_eventloop(forever) /\ (Client \/ stack = <<>>)
  BY DEF client_enters
<1>2. /\ stack' = Append(stack, Waiting(forever)) /\ UNCHANGED <<flagVars, listVars>>
      /\ UNCHANGED <<inited, threadVars, callback_done, callVars>>
  BY <1>1 DEF a_eventloop, client_enters
<1>3. Inv'
  BY LoopInv DEF WInv, WorkerNext, ClientOperation
<1>4. Waiting(forever) \in Frame /\ Waiting(forever).call = NULL
  BY DEF Frame, Waiting
<1>5. /\ Len(stack') = Len(stack) + 1 /\ Len(stack) \in Nat
      /\ DOMAIN stack' = 1 .. Len(stack) + 1 /\ DOMAIN stack = 1 .. Len(stack)
      /\ stack'[Len(stack) + 1].call = NULL
      /\ \A i \in 1 .. Len(stack) : stack'[i] = stack[i]
  BY <1>2, <1>4, PushFrames DEF WInv, Inv, TypeOK
<1>6. callback_done = FALSE /\ callback_done' = FALSE
  <2>1. CASE Client
    BY <2>1, <1>2, ClientRuns
  <2>2. CASE stack = <<>>
    BY <2>2, <1>2 DEF WInv, WorkerTypeOK
  <2> QED
    BY <1>1, <2>1, <2>2
<1>7. stack' # <<>> /\ Top'.call = NULL
  BY <1>5 DEF Top
<1>8. stack # <<>> => stack[Len(stack)].call \in EventNode
  BY <1>1, ClientRuns DEF Top
<1>9. \A w \in Worker : /\ \A j \in DOMAIN stack : Busy(j, w)' <=> Busy(j, w)
                        /\ \A j \in DOMAIN stack' : Busy(j, w)' => j \in DOMAIN stack
  BY <1>5, <1>6 DEF Busy
<1>10. \A w \in Worker : Finishes(w)' <=> Finishes(w)
  BY <1>5, <1>9 DEF Finishes
<1>11. \A w \in Worker :
          /\ IsArmed(w)' <=> IsArmed(w)
          /\ ~TimerCalls(w)'
          /\ Flagged(w)' <=> Flagged(w)
          /\ event_flag[w] \in events' \cap pending_events' =>
                 event_flag[w] \in events \cap pending_events
          /\ \A i \in DOMAIN stack' : Busy(i, w)' => i \in DOMAIN stack /\ Busy(i, w)
  BY <1>2, <1>7, <1>9 DEF IsArmed, TimerCalls, Flagged, listVars, flagVars, is_node_in
<1>12. \A i \in DOMAIN stack' : i < Len(stack') => stack'[i].call \in EventNode
  <2> SUFFICES ASSUME NEW i \in DOMAIN stack', i < Len(stack')
               PROVE  stack'[i].call \in EventNode
    OBVIOUS
  <2>1. i \in DOMAIN stack /\ stack'[i] = stack[i]
    BY <1>5
  <2>2. CASE i = Len(stack)
    <3>1. stack # <<>>
      BY <1>5, <2>1
    <3> QED
      BY <1>8, <2>1, <2>2, <3>1
  <2>3. CASE i # Len(stack)
    BY <1>5, <2>1, <2>3 DEF WInv, Calls
  <2> QED
    BY <2>2, <2>3
<1>13. op["loop"] = None
  BY <1>1, ClientRuns DEF WInv, Calls
<1>14. Calls'
  BY <1>2, <1>6, <1>7, <1>12, <1>13 DEF WInv, Calls, listVars, callVars, is_node_in
<1> QED
  BY <1>2, <1>3, <1>6, <1>10, <1>11, <1>14, AllStay DEF threadVars, callVars

\* Other handlers are registered, break the loop, and have flags set that are no
\* worker's.
LEMMA OtherClientInv ==
    ASSUME WInv, \/ \E e \in ClientEvent : register_client(e)
                 \/ client_breaks
                 \/ client_sets_flag
    PROVE  WInv'
<1> USE WorkerNodes, NodesDistinct
<1>1. Inv'
  BY LoopInv DEF WInv, WorkerNext, ClientOperation
<1>2. UNCHANGED <<stack, timer_list, pending_events, inited, threadVars, callback_done, callVars>>
  BY DEF register_client, client_breaks, client_sets_flag, a_eventloop_register_event,
         a_eventloop_break, a_eventloop_set_flag, flagVars, listVars
<1>3. \A w \in Worker : event_flag[w] \in events' <=> event_flag[w] \in events
  <2>1. CASE client_sets_flag
    BY <2>1 DEF client_sets_flag, a_eventloop_set_flag
  <2>2. CASE client_breaks \/ \E e \in ClientEvent : register_client(e)
    BY <2>2 DEF client_breaks, register_client, a_eventloop_break,
                a_eventloop_register_event, flagVars
  <2> QED
    BY <2>1, <2>2
<1>4. \A e \in EventNode : is_node_in(event_list', e) => is_node_in(event_list, e) \/ e \in ClientEvent
  <2>1. ASSUME NEW c \in ClientEvent, register_client(c)
        PROVE  \A e : is_node_in(event_list', e) => is_node_in(event_list, e) \/ e = c
    BY <2>1, InsertedNodes DEF register_client, a_eventloop_register_event, WInv, Inv, TypeOK
  <2>2. CASE client_breaks \/ client_sets_flag
    BY <2>2 DEF client_breaks, client_sets_flag, a_eventloop_break, a_eventloop_set_flag,
                listVars, is_node_in
  <2> QED
    BY <2>1, <2>2
<1>5. \A w \in Worker :
         /\ IsArmed(w)' <=> IsArmed(w)
         /\ TimerCalls(w)' => TimerCalls(w)
         /\ Flagged(w)' <=> Flagged(w)
         /\ event_flag[w] \in events' \cap pending_events' =>
                event_flag[w] \in events \cap pending_events
         /\ Finishes(w)' <=> Finishes(w)
         /\ \A i \in DOMAIN stack' : Busy(i, w)' => i \in DOMAIN stack /\ Busy(i, w)
  BY <1>2, <1>3 DEF IsArmed, TimerCalls, Flagged, Finishes, Busy, is_node_in, Top
<1>6. callback_done' \in BOOLEAN /\ (callback_done' => stack' # <<>> /\ Top'.call # NULL)
  BY <1>2 DEF WInv, WorkerTypeOK, Top
<1>7. Calls'
  BY <1>2, <1>4 DEF WInv, Calls, callVars, Top
<1> QED
  BY <1>1, <1>2, <1>5, <1>6, <1>7, AllStay DEF threadVars, callVars

(***************************************************************************)
(* The theorems                                                            *)
(***************************************************************************)

\* Before any worker is initialised, none is anywhere.
LEMMA WorkerInitially == WorkerInit => WInv
<1> SUFFICES ASSUME WorkerInit PROVE WInv
  OBVIOUS
<1>1. Inv
  BY InitInv DEF WorkerInit
<1>2. stack = <<>> /\ events = {} /\ pending_events = {} /\ timer_list = <<>> /\ event_list = <<>>
      /\ inited = {} /\ queue = <<>> /\ running = NULL /\ callback_done = FALSE
      /\ op = [c \in Caller |-> None] /\ raced = {}
  BY DEF WorkerInit, Init
<1>3. WorkerTypeOK
  <2>1. queue \in Seq(Worker) /\ Len(queue) = 0
    BY <1>2, EmptySeq
  <2>2. Len(queue) <= QueueSize
    BY <2>1, QueueType
  <2>3. inited \subseteq Worker /\ running \in Worker \cup {NULL} /\ callback_done = FALSE
    BY <1>2
  <2>4. op \in [Caller -> {None} \cup {Do(step, w) : step \in Step, w \in inited}]
    BY <1>2
  <2>5. raced \subseteq inited
    BY <1>2
  <2> QED
    <3>1. callback_done \in BOOLEAN /\ (callback_done => stack # <<>> /\ Top.call # NULL)
      BY <2>3
    <3> QED
      BY <3>1, <2>1, <2>2, <2>3, <2>4, <2>5, SMTT(20) DEF WorkerTypeOK, Step, Do, None
<1>4. \A w \in Worker, c \in Caller : ~HeldBy(c, w) /\ ~Taking(c, w)
  BY <1>2, WorkerNodes DEF HeldBy, Taking, Do, None
<1>5. Calls
  BY <1>2 DEF Calls, is_node_in, Caller
<1>6. Timers
  BY <1>2, <1>4 DEF Timers, TimerCalls
<1>7. Once
  BY <1>2, <1>4 DEF Once, Single
<1>8. \A w \in Worker : Nowhere(w)
  BY <1>2, <1>4, WorkerNodes
     DEF Nowhere, Somewhere, IsArmed, Holds, is_node_in, InQueue, Flagged, Finishes
<1>9. Cycle
  BY <1>2, <1>8 DEF Cycle, Nowhere, Somewhere, AtOne
<1> QED
  BY <1>1, <1>3, <1>5, <1>6, <1>7, <1>9 DEF WInv

\* The invariant is inductive.
LEMMA WorkerStepInv == WInv /\ [WorkerNext]_workerVars => WInv'
<1> SUFFICES ASSUME WInv, [WorkerNext]_workerVars PROVE WInv'
  OBVIOUS
<1>1. CASE WorkerNext
  <2>1. ASSUME NEW c \in Caller, CallStep(c) PROVE WInv'
    BY <2>1, DeregisterInv, SendInv, RegisterStepInv DEF CallStep
  <2>2. CASE Callback
    BY <2>2, TimerFiresInv, EventCallbackInv, CallbackReturnsInv DEF Callback
  <2>3. CASE ClientOperation
    <3>1. "loop" \in Caller
      BY DEF Caller
    <3> QED
      BY <2>3, <3>1, SetupInv, TriggerInv, ClientEntersInv, OtherClientInv DEF ClientOperation
  <2> QED
    BY <1>1, <2>1, <2>2, <2>3, WorkerLoopInv, NextJobInv, SensorProcessInv DEF WorkerNext, Thread
<1>2. CASE UNCHANGED workerVars
  <2>1. Inv'
    BY <1>2, NextInv DEF WInv, workerVars
  <2>2. Calls'
    BY <1>2 DEF WInv, Calls, workerVars, vars, is_node_in, Top
  <2>3. \A w \in Worker :
          /\ IsArmed(w)' <=> IsArmed(w)
          /\ TimerCalls(w)' => TimerCalls(w)
          /\ Flagged(w)' <=> Flagged(w)
          /\ event_flag[w] \in events' \cap pending_events' =>
                 event_flag[w] \in events \cap pending_events
          /\ Finishes(w)' <=> Finishes(w)
          /\ \A i \in DOMAIN stack' : Busy(i, w)' => i \in DOMAIN stack /\ Busy(i, w)
    BY <1>2 DEF IsArmed, TimerCalls, Flagged, Finishes, Busy, workerVars, vars, is_node_in, Top
  <2>4. callback_done' \in BOOLEAN /\ (callback_done' => stack' # <<>> /\ Top'.call # NULL)
    BY <1>2 DEF WInv, WorkerTypeOK, workerVars, vars, Top
  <2> QED
    BY <1>2, <2>1, <2>2, <2>3, <2>4, AllStay DEF workerVars
<1> QED
  BY <1>1, <1>2

\* The inductive invariant holds in every state.
THEOREM WorkerInvHolds == WorkerSpec => []WInv
BY WorkerInitially, WorkerStepInv, PTL DEF WorkerSpec

\* The loop's invariants hold with workers on it, whose handlers make several
\* operations in one step (sys_worker.c:22).
THEOREM LoopInvHolds == WorkerSpec => []Inv
BY WorkerInvHolds, PTL DEF WInv

\* The thread's variables keep their types: its queue is never overfull.
THEOREM WorkerTypesHold == WorkerSpec => []WorkerTypeOK
BY WorkerInvHolds, PTL DEF WInv

\* The places of CycleKept and OneBaton are the conditions of the invariant.
LEMMA PlacesAre ==
    ASSUME NEW w \in Worker
    PROVE  /\ ArmedAt(w) = {} <=> ~IsArmed(w)
           /\ Held(w) = {} <=> ~Holds(w)
           /\ Queued(w) = {} <=> ~InQueue(w)
           /\ Sampling(w) = {} <=> running # w
           /\ Sampled(w) = {} <=> ~Flagged(w)
           /\ Finishing(w) = {} <=> ~Finishes(w)
<1>1. ArmedAt(w) = {} <=> ~IsArmed(w)
  BY DEF ArmedAt, IsArmed, is_node_in
<1>2. Held(w) = {} <=> ~Holds(w)
  BY DEF Held, Holds, HeldBy
<1>3. Queued(w) = {} <=> ~InQueue(w)
  BY DEF Queued, InQueue
<1>4. Sampling(w) = {} <=> running # w
  BY DEF Sampling
<1>5. Sampled(w) = {} <=> ~Flagged(w)
  BY DEF Sampled, Flagged
<1>6. Finishing(w) = {} <=> ~Finishes(w)
  BY DEF Finishing, Finishes, Busy
<1> QED
  BY <1>1, <1>2, <1>3, <1>4, <1>5, <1>6

\* A worker's cycle of timer, job, flag and finish_fn (sys_worker.c:14-43) is never
\* lost, although two threads run timer_callback, for any number of workers and
\* handlers, any length of the thread's queue and any depth of nested loops.
THEOREM CycleKeptHolds == WorkerSpec => []CycleKept
<1>1. WInv => CycleKept
  <2> SUFFICES ASSUME WInv, NEW w \in inited
               PROVE  Places(w) # {}
    BY DEF CycleKept
  <2>1. w \in Worker
    BY DEF WInv, WorkerTypeOK
  <2>2. Somewhere(w)
    BY <2>1 DEF WInv, Cycle
  <2> QED
    BY <2>1, <2>2, PlacesAre DEF Somewhere, Places
<1> QED
  BY <1>1, WorkerInvHolds, PTL

\* A worker that is in no place twice is in one place only.
LEMMA OnePlace ==
    ASSUME WInv, NEW w \in Worker, w \notin raced
    PROVE  \A p, q \in Places(w) : p = q
<1>1. AtOne(w) /\ Single(w)
  BY DEF WInv, Cycle, Once
<1>2. \A p, q \in ArmedAt(w) : p = q
  <2>1. \A i, j \in DOMAIN timer_list : timer_list[i] = timer_node[w] /\ timer_list[j] = timer_node[w] => i = j
    BY DEF WInv, Inv, LinkedOnce, IsInjective
  <2> QED
    BY <2>1 DEF ArmedAt
<1>3. \A p, q \in Held(w) : p = q
  BY <1>1 DEF Held, Single, HeldBy
<1>4. \A p, q \in Queued(w) : p = q
  BY <1>1 DEF Queued, Single
<1>5. \A p, q \in Sampling(w) : p = q
  BY DEF Sampling
<1>6. \A p, q \in Sampled(w) : p = q
  BY <1>1 DEF Sampled, Single
<1>7. \A p, q \in Finishing(w) : p = q
  BY <1>1 DEF Finishing, Single, Busy
<1>8. \/ Places(w) = {}
      \/ Places(w) = ArmedAt(w) \/ Places(w) = Held(w) \/ Places(w) = Queued(w)
      \/ Places(w) = Sampling(w) \/ Places(w) = Sampled(w) \/ Places(w) = Finishing(w)
  BY <1>1, PlacesAre DEF Places, AtOne
<1> QED
  BY <1>2, <1>3, <1>4, <1>5, <1>6, <1>7, <1>8

\* The cycle is never in two places, unless one thread has taken the timer between
\* the other's look at it and its deregistration (sys_worker.c:39, :24).
THEOREM OneBatonHolds == WorkerSpec => []OneBaton
<1>1. WInv => OneBaton
  BY OnePlace DEF OneBaton, WInv, WorkerTypeOK
<1> QED
  BY <1>1, WorkerInvHolds, PTL
=============================================================================
