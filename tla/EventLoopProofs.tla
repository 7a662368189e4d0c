-------------------------- MODULE EventLoopProofs --------------------------
(***************************************************************************)
(* Proofs about EventLoop, for every set of timers, handlers and flags,    *)
(* every assignment of masks and every depth of nesting.                   *)
(***************************************************************************)
EXTENDS EventLoop, SequenceTheorems, TLAPS

(***************************************************************************)
(* Linked lists                                                            *)
(***************************************************************************)

\* insert_node_safe keeps the list linked once and only adds its node.
LEMMA InsertKeeps ==
    ASSUME NEW S, NEW list \in Seq(S), NEW n \in S, IsInjective(list)
    PROVE  /\ insert_node_safe(list, n) \in Seq(S)
           /\ IsInjective(insert_node_safe(list, n))
           /\ \A m : is_node_in(list, m) => is_node_in(insert_node_safe(list, n), m)
<1> DEFINE r == <<n>> \o list
<1>1. CASE is_node_in(list, n)
  BY <1>1 DEF insert_node_safe
<1>2. CASE ~is_node_in(list, n)
  <2>1. insert_node_safe(list, n) = r
    BY <1>2 DEF insert_node_safe
  <2>2. /\ r \in Seq(S)
        /\ Len(r) = Len(list) + 1
        /\ DOMAIN r = 1 .. Len(list) + 1
        /\ DOMAIN list = 1 .. Len(list)
        /\ r[1] = n
        /\ \A i \in 2 .. Len(list) + 1 : r[i] = list[i - 1]
    OBVIOUS
  <2>3. IsInjective(r)
    <3> SUFFICES ASSUME NEW a \in DOMAIN r, NEW b \in DOMAIN r, r[a] = r[b], a # b
                 PROVE  FALSE
      BY DEF IsInjective
    <3>1. \A i \in DOMAIN list : list[i] # n
      BY <1>2 DEF is_node_in
    <3>2. CASE a = 1
      BY <2>2, <3>1, <3>2
    <3>3. CASE b = 1
      BY <2>2, <3>1, <3>3
    <3>4. CASE a # 1 /\ b # 1
      <4>1. list[a - 1] = list[b - 1] /\ a - 1 \in DOMAIN list /\ b - 1 \in DOMAIN list
        BY <2>2, <3>4
      <4>2. a - 1 = b - 1
        BY <4>1 DEF IsInjective
      <4> QED
        BY <4>2, <2>2
    <3> QED
      BY <3>2, <3>3, <3>4
  <2>4. ASSUME NEW m, is_node_in(list, m)
        PROVE  is_node_in(r, m)
    <3>1. PICK i \in DOMAIN list : list[i] = m
      BY <2>4 DEF is_node_in
    <3>2. i + 1 \in DOMAIN r /\ r[i + 1] = m
      BY <2>2, <3>1
    <3> QED
      BY <3>2 DEF is_node_in
  <2> HIDE DEF r
  <2> QED
    BY <2>1, <2>2, <2>3, <2>4
<1> QED
  BY <1>1, <1>2

\* A node that is linked has a position in the list.
LEMMA PositionInList ==
    ASSUME NEW list, NEW n, is_node_in(list, n)
    PROVE  Position(list, n) \in DOMAIN list /\ list[Position(list, n)] = n
BY DEF is_node_in, Position

\* remove_node_safe keeps the list linked once.
LEMMA RemoveKeeps ==
    ASSUME NEW S, NEW list \in Seq(S), NEW n, IsInjective(list)
    PROVE  /\ remove_node_safe(list, n) \in Seq(S)
           /\ IsInjective(remove_node_safe(list, n))
<1>1. CASE ~is_node_in(list, n)
  BY <1>1 DEF remove_node_safe
<1>2. CASE is_node_in(list, n)
  <2> DEFINE p == Position(list, n)
             before == SubSeq(list, 1, p - 1)
             after == SubSeq(list, p + 1, Len(list))
             r == before \o after
  <2>1. remove_node_safe(list, n) = r
    BY <1>2 DEF remove_node_safe
  <2>2. p \in 1 .. Len(list)
    BY <1>2, PositionInList
  <2> HIDE DEF p
  <2>3. /\ before \in Seq(S)
        /\ Len(before) = p - 1
        /\ \A i \in 1 .. p - 1 : before[i] = list[i]
    BY <2>2
  <2>4. /\ after \in Seq(S)
        /\ Len(after) = Len(list) - p
        /\ \A i \in 1 .. Len(list) - p : after[i] = list[p + i]
    BY <2>2
  <2> HIDE DEF before, after
  <2>5. /\ r \in Seq(S)
        /\ DOMAIN r = 1 .. Len(list) - 1
        /\ \A i \in 1 .. Len(list) - 1 :
              r[i] = IF i < p THEN list[i] ELSE list[i + 1]
    BY <2>2, <2>3, <2>4, ConcatProperties
  <2> HIDE DEF r
  <2>6. IsInjective(r)
    <3> SUFFICES ASSUME NEW a \in DOMAIN r, NEW b \in DOMAIN r, r[a] = r[b]
                 PROVE  a = b
      BY DEF IsInjective
    <3> DEFINE up(i) == IF i < p THEN i ELSE i + 1
    <3>1. \A i \in DOMAIN r : up(i) \in DOMAIN list /\ r[i] = list[up(i)]
      BY <2>2, <2>5
    <3>2. up(a) = up(b)
      BY <3>1 DEF IsInjective
    <3> QED
      BY <3>2, <2>2, <2>5
  <2> QED
    BY <2>1, <2>5, <2>6
<1> QED
  BY <1>1, <1>2

\* node->next of a linked node is a linked node or the end of the list.
LEMMA FollowingLinked ==
    ASSUME NEW S, NEW list \in Seq(S), NEW n, is_node_in(list, n)
    PROVE  \/ Following(list, n) = NULL
           \/ Following(list, n) \in S /\ is_node_in(list, Following(list, n))
<1> DEFINE p == Position(list, n)
<1>1. p \in 1 .. Len(list)
  BY PositionInList
<1> HIDE DEF p
<1>2. CASE p = Len(list)
  BY <1>2 DEF Following, p
<1>3. CASE p # Len(list)
  <2>1. p + 1 \in DOMAIN list /\ list[p + 1] \in S
    BY <1>1, <1>3
  <2>2. Following(list, n) = list[p + 1]
    BY <1>3 DEF Following, p
  <2> QED
    BY <2>1, <2>2 DEF is_node_in
<1> QED
  BY <1>2, <1>3

\* The front of a list is a linked node or nothing.
LEMMA FrontLinked ==
    ASSUME NEW S, NEW list \in Seq(S)
    PROVE  \/ Front(list) = NULL
           \/ Front(list) \in S /\ is_node_in(list, Front(list))
<1>1. CASE list = <<>>
  BY <1>1 DEF Front
<1>2. CASE list # <<>>
  <2>1. 1 \in DOMAIN list /\ list[1] \in S
    BY <1>2
  <2> QED
    BY <1>2, <2>1 DEF Front, is_node_in
<1> QED
  BY <1>1, <1>2

(***************************************************************************)
(* The stack of activations                                                *)
(***************************************************************************)

\* Replacing the innermost frame leaves the suspended ones alone.
LEMMA SetTopFrames ==
    ASSUME stack \in Seq(Frame), stack # <<>>, NEW fr \in Frame, SetTop(fr)
    PROVE  /\ stack' \in Seq(Frame)
           /\ Len(stack') = Len(stack)
           /\ Len(stack) \in 1 .. Len(stack)
           /\ DOMAIN stack' = 1 .. Len(stack)
           /\ stack'[Len(stack)] = fr
           /\ \A i \in 1 .. Len(stack) - 1 : stack'[i] = stack[i]
BY ExceptSeq DEF SetTop

\* Returning from an activation drops the innermost frame only.
LEMMA PopFrames ==
    ASSUME stack \in Seq(Frame), stack # <<>>, Pop
    PROVE  /\ stack' \in Seq(Frame)
           /\ Len(stack') = Len(stack) - 1
           /\ DOMAIN stack' = 1 .. Len(stack) - 1
           /\ \A i \in 1 .. Len(stack) - 1 : stack'[i] = stack[i]
<1> DEFINE n == Len(stack) - 1
<1>1. n \in Nat /\ \A i \in 1 .. n : stack[i] \in Frame
  BY ElementOfSeq
<1> HIDE DEF n
<1>2. /\ SubSeq(stack, 1, n) \in Seq(Frame)
      /\ Len(SubSeq(stack, 1, n)) = n
      /\ \A i \in 1 .. n : SubSeq(stack, 1, n)[i] = stack[i]
  BY <1>1, SubSeqProperties
<1> QED
  BY <1>1, <1>2 DEF Pop, n

\* Entering a_eventloop adds one frame.
LEMMA PushFrames ==
    ASSUME stack \in Seq(Frame), NEW fr \in Frame, stack' = Append(stack, fr)
    PROVE  /\ stack' \in Seq(Frame)
           /\ Len(stack') = Len(stack) + 1
           /\ DOMAIN stack' = 1 .. Len(stack) + 1
           /\ stack'[Len(stack) + 1] = fr
           /\ \A i \in 1 .. Len(stack) : stack'[i] = stack[i]
BY AppendProperties

\* The innermost frame is a frame.
LEMMA TopFrame ==
    ASSUME stack \in Seq(Frame), stack # <<>>
    PROVE  Top \in Frame /\ Len(stack) \in 1 .. Len(stack) /\ Top = stack[Len(stack)]
BY ElementOfSeq DEF Top

\* A timer that was rearmed is out of the set of due timers, the rest of a
\* frame is as it was.
LEMMA NotDueFrame ==
    ASSUME NEW fr \in Frame, NEW t
    PROVE  /\ [fr EXCEPT !.due = @ \ {t}] \in Frame
           /\ [fr EXCEPT !.due = @ \ {t}].pc = fr.pc
           /\ [fr EXCEPT !.due = @ \ {t}].node = fr.node
           /\ [fr EXCEPT !.due = @ \ {t}].call = fr.call
BY DEF Frame

\* Rearming a timer (eventloop.c:83, :48) changes no frame but in its due timers.
LEMMA RearmFrames ==
    ASSUME NEW frames \in Seq(Frame), NEW t
    PROVE  /\ Rearm(frames, t) \in Seq(Frame)
           /\ Len(Rearm(frames, t)) = Len(frames)
           /\ \A i \in 1 .. Len(frames) :
                 /\ Rearm(frames, t)[i].pc = frames[i].pc
                 /\ Rearm(frames, t)[i].node = frames[i].node
                 /\ Rearm(frames, t)[i].call = frames[i].call
<1> DEFINE e(i) == [frames[i] EXCEPT !.due = @ \ {t}]
<1>1. ASSUME NEW i \in 1 .. Len(frames)
      PROVE  e(i) \in Frame /\ e(i).pc = frames[i].pc
             /\ e(i).node = frames[i].node /\ e(i).call = frames[i].call
  <2>1. frames[i] \in Frame
    BY ElementOfSeq
  <2> QED
    BY <2>1, NotDueFrame
<1>2. Rearm(frames, t) = [i \in 1 .. Len(frames) |-> e(i)]
  BY DEF Rearm
<1> HIDE DEF e
<1>3. [i \in 1 .. Len(frames) |-> e(i)] \in Seq(Frame)
  BY <1>1
<1> QED
  BY <1>1, <1>2, <1>3

(***************************************************************************)
(* The inductive invariant                                                 *)
(*                                                                         *)
(* Removing a node keeps a list well formed only if it is linked once;     *)
(* stepping a cursor is defined only if it is linked; an activation that   *)
(* is resumed finds the call it was suspended in.  So the types need the   *)
(* other three invariants, and they need each other.                       *)
(***************************************************************************)

\* How the frames of the model encode the C stack: all activations but the
\* innermost are in a call, an activation in its dispatch pass calls the node
\* under its cursor, and one in process_timer calls a timer's handler.
Nested ==
    \A i \in DOMAIN stack :
        LET fr == stack[i] IN
        /\ i < Len(stack) => fr.call # NULL
        /\ fr.call # NULL => \/ fr.pc = "dispatch" /\ fr.call = fr.node
                             \/ fr.pc = "timers" /\ fr.call \in TimerNode
        /\ fr.node # NULL => fr.pc = "dispatch"

Inv == TypeOK /\ LinkedOnce /\ CursorLinked /\ Nested

\* What Inv says of the flags and lists, and of the stack.
DataInv ==
    /\ events \in SUBSET Flag
    /\ pending_events \in SUBSET Flag
    /\ timer_list \in Seq(TimerNode)
    /\ event_list \in Seq(EventNode)
    /\ enabled \in [EventNode -> BOOLEAN]
    /\ loop_stop \in BOOLEAN
    /\ LinkedOnce

StackInv ==
    /\ stack \in Seq(Frame)
    /\ Len(stack) <= MaxDepth
    /\ CursorLinked
    /\ Nested

\* The invariant is one about the variables and one about the frames.
LEMMA InvSplit == Inv <=> DataInv /\ StackInv
BY DEF Inv, DataInv, StackInv, TypeOK

\* The same of the next state, as the steps' lemmas conclude it.
LEMMA InvSplitPrime == DataInv' /\ StackInv' => Inv'
BY DEF Inv, DataInv, StackInv, TypeOK

\* What the invariant asks of one frame.
GoodFrame(fr) ==
    /\ fr.node # NULL => is_node_in(event_list, fr.node) /\ fr.pc = "dispatch"
    /\ fr.call # NULL => \/ fr.pc = "dispatch" /\ fr.call = fr.node
                         \/ fr.pc = "timers" /\ fr.call \in TimerNode

\* A step that changes the innermost frame to a good one, and nothing but the
\* due timers of the others.
LEMMA InnermostInv ==
    ASSUME StackInv, stack # <<>>, stack' \in Seq(Frame), Len(stack') = Len(stack),
           GoodFrame(stack'[Len(stack)]),
           \A i \in 1 .. Len(stack) - 1 : /\ stack'[i].pc = stack[i].pc
                                          /\ stack'[i].node = stack[i].node
                                          /\ stack'[i].call = stack[i].call,
           UNCHANGED event_list
    PROVE  StackInv'
<1>1. DOMAIN stack' = 1 .. Len(stack) /\ DOMAIN stack = 1 .. Len(stack)
  BY DEF StackInv
<1>2. ASSUME NEW i \in DOMAIN stack', i # Len(stack)
      PROVE  /\ i \in DOMAIN stack
             /\ stack'[i].pc = stack[i].pc
             /\ stack'[i].node = stack[i].node
             /\ stack'[i].call = stack[i].call
  BY <1>1, <1>2
<1>3. CursorLinked'
  <2> SUFFICES ASSUME NEW i \in DOMAIN stack', stack'[i].node # NULL
               PROVE  is_node_in(event_list, stack'[i].node)
    BY DEF CursorLinked, is_node_in
  <2>1. CASE i = Len(stack)
    BY <2>1 DEF GoodFrame
  <2>2. CASE i # Len(stack)
    BY <1>2, <2>2 DEF StackInv, CursorLinked
  <2> QED
    BY <2>1, <2>2
<1>4. Nested'
  <2> SUFFICES ASSUME NEW i \in DOMAIN stack'
               PROVE  LET f == stack'[i] IN
                      /\ i < Len(stack) => f.call # NULL
                      /\ f.call # NULL => \/ f.pc = "dispatch" /\ f.call = f.node
                                          \/ f.pc = "timers" /\ f.call \in TimerNode
                      /\ f.node # NULL => f.pc = "dispatch"
    BY DEF Nested
  <2>1. CASE i = Len(stack)
    BY <2>1 DEF GoodFrame
  <2>2. CASE i # Len(stack)
    BY <1>2, <2>2 DEF StackInv, Nested
  <2> QED
    BY <2>1, <2>2
<1> QED
  BY <1>3, <1>4 DEF StackInv

\* A step that only replaces the innermost frame.
LEMMA SetTopInv ==
    ASSUME StackInv, stack # <<>>, NEW fr \in Frame, GoodFrame(fr), SetTop(fr),
           UNCHANGED event_list
    PROVE  StackInv'
BY SetTopFrames, InnermostInv DEF StackInv

\* A step that leaves the innermost activation: the one that called it, or
\* main, is resumed where it was.
LEMMA PopInv ==
    ASSUME StackInv, stack # <<>>, Pop, UNCHANGED event_list
    PROVE  StackInv'
<1>1. /\ stack' \in Seq(Frame)
      /\ Len(stack') = Len(stack) - 1
      /\ DOMAIN stack' = 1 .. Len(stack) - 1
      /\ DOMAIN stack = 1 .. Len(stack)
      /\ \A i \in 1 .. Len(stack) - 1 : stack'[i] = stack[i]
  BY PopFrames DEF StackInv
<1>2. ASSUME NEW i \in DOMAIN stack'
      PROVE  i \in DOMAIN stack /\ stack'[i] = stack[i] /\ i < Len(stack)
  BY <1>1
<1>3. Len(stack') <= MaxDepth
  BY <1>1, DepthType DEF StackInv
<1>4. CursorLinked'
  BY <1>2 DEF StackInv, CursorLinked, is_node_in
<1>5. Nested'
  BY <1>1, <1>2 DEF StackInv, Nested
<1> QED
  BY <1>1, <1>3, <1>4, <1>5 DEF StackInv

\* A step that leaves the frames alone, but for the due timers, and unlinks no
\* event node.
LEMMA ClientInv ==
    ASSUME StackInv, stack' \in Seq(Frame), Len(stack') = Len(stack),
           \A i \in 1 .. Len(stack) : /\ stack'[i].pc = stack[i].pc
                                      /\ stack'[i].node = stack[i].node
                                      /\ stack'[i].call = stack[i].call,
           \A n : is_node_in(event_list, n) => is_node_in(event_list', n)
    PROVE  StackInv'
<1>1. DOMAIN stack' = 1 .. Len(stack) /\ DOMAIN stack = 1 .. Len(stack)
  BY DEF StackInv
<1>2. CursorLinked'
  <2> SUFFICES ASSUME NEW i \in DOMAIN stack', stack'[i].node # NULL
               PROVE  is_node_in(event_list', stack'[i].node)
    BY DEF CursorLinked, is_node_in
  <2> QED
    BY <1>1 DEF StackInv, CursorLinked
<1>3. Nested'
  BY <1>1 DEF StackInv, Nested
<1> QED
  BY <1>2, <1>3 DEF StackInv

\* A step of a_eventloop itself keeps the invariant; it touches no list.
LEMMA LoopStepInv ==
    ASSUME Inv, LoopStep
    PROVE  Inv'
<1> USE NodesDistinct, MaskType
<1>d. DataInv /\ StackInv
  BY InvSplit
<1>t. ASSUME stack # <<>>
      PROVE  /\ Top \in Frame
             /\ Len(stack) \in DOMAIN stack
             /\ Top = stack[Len(stack)]
  BY <1>d, <1>t, TopFrame DEF StackInv
<1>c. ASSUME stack # <<>>, Top.node # NULL
      PROVE  Top.node \in EventNode /\ is_node_in(event_list, Top.node)
  BY <1>c, <1>t, <1>d DEF StackInv, CursorLinked, Frame
<1>1. CASE wait_for_event_flags
  <2> DEFINE fr == [Top EXCEPT !.pc = "dispatch",
                               !.node = IF PassNeeded(pending_events', events)
                                        THEN Front(event_list) ELSE NULL]
  <2>1. stack # <<>> /\ Top.call = NULL /\ SetTop(fr) /\ UNCHANGED event_list
    BY <1>1 DEF wait_for_event_flags, Running, listVars
  <2>2. \/ Front(event_list) = NULL
        \/ Front(event_list) \in EventNode /\ is_node_in(event_list, Front(event_list))
    BY <1>d, FrontLinked DEF DataInv
  <2>3. fr \in Frame /\ GoodFrame(fr)
    BY <2>1, <2>2, <1>t DEF Frame, GoodFrame
  <2> HIDE DEF fr
  <2>4. StackInv'
    BY <2>1, <2>3, <1>d, SetTopInv
  <2>5. DataInv'
    BY <1>1, <1>d DEF wait_for_event_flags, TakeFlags, DataInv, LinkedOnce, listVars
  <2> QED
    BY <2>4, <2>5, InvSplitPrime
<1>2. ASSUME NEW e \in EventNode, dispatch(e)
      PROVE  Inv'
  <2> DEFINE fr == [Top EXCEPT !.call = e]
  <2>1. stack # <<>> /\ Top.node = e /\ Top.pc = "dispatch" /\ SetTop(fr)
        /\ UNCHANGED event_list
    BY <1>2 DEF dispatch, Running, listVars
  <2>2. fr \in Frame /\ GoodFrame(fr)
    BY <2>1, <1>t, <1>c DEF Frame, GoodFrame, Node
  <2> HIDE DEF fr
  <2>3. StackInv'
    BY <2>1, <2>2, <1>d, SetTopInv
  <2>4. DataInv'
    BY <1>2, <1>d DEF dispatch, DataInv, LinkedOnce, listVars
  <2> QED
    BY <2>3, <2>4, InvSplitPrime
<1>3. ASSUME NEW e \in EventNode, skip(e)
      PROVE  Inv'
  <2> DEFINE fr == [Top EXCEPT !.node = Following(event_list, e)]
  <2>1. stack # <<>> /\ Top.node = e /\ Top.pc = "dispatch" /\ Top.call = NULL
        /\ SetTop(fr) /\ UNCHANGED event_list
    BY <1>3 DEF skip, Running, listVars
  <2>2. \/ Following(event_list, e) = NULL
        \/ Following(event_list, e) \in EventNode
           /\ is_node_in(event_list, Following(event_list, e))
    BY <2>1, <1>c, <1>d, FollowingLinked DEF DataInv
  <2>3. fr \in Frame /\ GoodFrame(fr)
    BY <2>1, <2>2, <1>t DEF Frame, GoodFrame
  <2> HIDE DEF fr
  <2>4. StackInv'
    BY <2>1, <2>3, <1>d, SetTopInv
  <2>5. DataInv'
    BY <1>3, <1>d DEF skip, DataInv, LinkedOnce, listVars, flagVars
  <2> QED
    BY <2>4, <2>5, InvSplitPrime
<1>4. CASE stop \/ time_out
  <2>1. stack # <<>> /\ Pop /\ UNCHANGED event_list
    BY <1>4 DEF stop, time_out, ScanOver, Running, listVars
  <2>2. StackInv'
    BY <2>1, <1>d, PopInv
  <2>3. DataInv'
    BY <1>4, <1>d DEF stop, time_out, DataInv, LinkedOnce, listVars, flagVars
  <2> QED
    BY <2>2, <2>3, InvSplitPrime
<1>5. ASSUME NEW due \in SUBSET Range(timer_list), process_timer(due)
      PROVE  Inv'
  <2> DEFINE fr == [Top EXCEPT !.pc = "timers", !.due = due]
  <2>1. stack # <<>> /\ Top.node = NULL /\ Top.call = NULL /\ SetTop(fr)
        /\ UNCHANGED event_list
    BY <1>5 DEF process_timer, Running, listVars
  <2>2. due \in SUBSET TimerNode
    BY <1>d, RangeOfSeq DEF DataInv
  <2>3. fr \in Frame /\ GoodFrame(fr)
    BY <2>1, <2>2, <1>t DEF Frame, GoodFrame
  <2> HIDE DEF fr
  <2>4. StackInv'
    BY <2>1, <2>3, <1>d, SetTopInv
  <2>5. DataInv'
    BY <1>5, <1>d DEF process_timer, DataInv, LinkedOnce, listVars, flagVars
  <2> QED
    BY <2>4, <2>5, InvSplitPrime
<1>6. ASSUME NEW t \in TimerNode, expire(t)
      PROVE  Inv'
  <2> DEFINE n == Len(stack)
             mid == Rearm(stack, t)
             fr == [mid[n] EXCEPT !.call = t]
  <2>1. stack # <<>> /\ Top.pc = "timers" /\ stack' = [mid EXCEPT ![n] = fr]
        /\ UNCHANGED event_list
    BY <1>6 DEF expire, Running, listVars
  <2>2. /\ mid \in Seq(Frame)
        /\ Len(mid) = n
        /\ \A i \in 1 .. n : /\ mid[i].pc = stack[i].pc
                             /\ mid[i].node = stack[i].node
                             /\ mid[i].call = stack[i].call
    BY <1>d, RearmFrames DEF StackInv
  <2>3. n \in 1 .. n /\ stack[n].pc = "timers" /\ stack[n].node = NULL
    BY <2>1, <1>t, <1>d DEF StackInv, Nested
  <2> HIDE DEF n, mid
  <2>4. mid[n] \in Frame /\ mid[n].pc = "timers" /\ mid[n].node = NULL
    BY <2>2, <2>3, ElementOfSeq
  <2>5. fr \in Frame /\ GoodFrame(fr)
    BY <2>4 DEF Frame, Node, GoodFrame
  <2> HIDE DEF fr
  <2>6. /\ stack' \in Seq(Frame)
        /\ Len(stack') = n
        /\ stack'[n] = fr
        /\ \A i \in 1 .. n - 1 : stack'[i] = mid[i]
    BY <2>1, <2>2, <2>3, <2>5, ExceptSeq
  <2>7. StackInv'
    BY <2>1, <2>2, <2>3, <2>5, <2>6, <1>d, InnermostInv DEF n
  <2>8. DataInv'
    BY <1>6, <1>d DEF expire, DataInv, LinkedOnce, listVars, flagVars
  <2> QED
    BY <2>7, <2>8, InvSplitPrime
<1>7. CASE iterate
  <2> DEFINE fr == Waiting(Top.forever)
  <2>1. stack # <<>> /\ SetTop(fr) /\ UNCHANGED event_list
    BY <1>7 DEF iterate, ScanOver, Running, listVars
  <2>2. fr \in Frame /\ GoodFrame(fr)
    BY <2>1, <1>t DEF Frame, GoodFrame, Waiting
  <2> HIDE DEF fr
  <2>3. StackInv'
    BY <2>1, <2>2, <1>d, SetTopInv
  <2>4. DataInv'
    BY <1>7, <1>d DEF iterate, DataInv, LinkedOnce, listVars, flagVars
  <2> QED
    BY <2>3, <2>4, InvSplitPrime
<1> QED
  BY <1>1, <1>2, <1>3, <1>4, <1>5, <1>6, <1>7 DEF LoopStep

\* The operations of clients keep the invariant: none unlinks an event node
\* that a cursor stands on.
LEMMA ClientStepInv ==
    ASSUME Inv, TimerOperation \/ EventOperation \/ a_eventloop_break \/ SetFlag
    PROVE  Inv'
<1> USE NodesDistinct
<1>d. DataInv /\ StackInv
  BY InvSplit
<1>s. ASSUME UNCHANGED stack,
             \A n : is_node_in(event_list, n) => is_node_in(event_list', n)
      PROVE  StackInv'
  BY <1>d, <1>s, ClientInv DEF StackInv
<1>1. ASSUME NEW t \in TimerNode, a_eventloop_register_timer(t)
      PROVE  Inv'
  <2>1. DataInv'
    BY <1>1, <1>d, InsertKeeps
       DEF a_eventloop_register_timer, DataInv, LinkedOnce, flagVars
  <2>2. stack' = Rearm(stack, t) /\ UNCHANGED event_list
    BY <1>1 DEF a_eventloop_register_timer
  <2>3. StackInv'
    BY <2>2, <1>d, RearmFrames, ClientInv DEF StackInv
  <2> QED
    BY <2>1, <2>3, InvSplitPrime
<1>2. ASSUME NEW t \in TimerNode, a_eventloop_deregister_timer(t)
      PROVE  Inv'
  <2>1. DataInv'
    BY <1>2, <1>d, RemoveKeeps
       DEF a_eventloop_deregister_timer, DataInv, LinkedOnce, flagVars
  <2>2. StackInv'
    BY <1>2, <1>s DEF a_eventloop_deregister_timer
  <2> QED
    BY <2>1, <2>2, InvSplitPrime
<1>3. ASSUME NEW e \in EventNode, a_eventloop_register_event(e)
      PROVE  Inv'
  <2>1. DataInv'
    BY <1>3, <1>d, InsertKeeps
       DEF a_eventloop_register_event, DataInv, LinkedOnce, flagVars
  <2>2. \A n : is_node_in(event_list, n) => is_node_in(event_list', n)
    BY <1>3, <1>d, InsertKeeps DEF a_eventloop_register_event, DataInv, LinkedOnce
  <2>3. StackInv'
    BY <1>3, <2>2, <1>s DEF a_eventloop_register_event
  <2> QED
    BY <2>1, <2>3, InvSplitPrime
<1>4. ASSUME NEW e \in EventNode, a_eventloop_deregister_event(e)
      PROVE  Inv'
  <2>1. DataInv'
    BY <1>4, <1>d, RemoveKeeps
       DEF a_eventloop_deregister_event, DataInv, LinkedOnce, flagVars
  <2>2. StackInv'
    BY <1>4, <1>s DEF a_eventloop_deregister_event
  <2> QED
    BY <2>1, <2>2, InvSplitPrime
<1>5. ASSUME NEW e \in EventNode,
             a_eventloop_disable_event(e) \/ a_eventloop_enable_event(e)
      PROVE  Inv'
  <2>1. DataInv'
    BY <1>5, <1>d DEF a_eventloop_disable_event, a_eventloop_enable_event,
                      DataInv, LinkedOnce, flagVars
  <2>2. StackInv'
    BY <1>5, <1>s DEF a_eventloop_disable_event, a_eventloop_enable_event
  <2> QED
    BY <2>1, <2>2, InvSplitPrime
<1>6. CASE a_eventloop_break \/ SetFlag
  <2>1. DataInv'
    BY <1>6, <1>d DEF a_eventloop_break, SetFlag, a_eventloop_set_flag,
                      DataInv, LinkedOnce, flagVars, listVars
  <2>2. StackInv'
    BY <1>6, <1>s DEF a_eventloop_break, SetFlag, a_eventloop_set_flag, listVars
  <2> QED
    BY <2>1, <2>2, InvSplitPrime
<1> QED
  BY <1>1, <1>2, <1>3, <1>4, <1>5, <1>6 DEF TimerOperation, EventOperation

\* A handler returns into the activation that called it; with its node still
\* linked, the pass goes on behind it.
LEMMA ReturnInv ==
    ASSUME Inv, handler_returns
    PROVE  Inv'
<1> USE NodesDistinct
<1>d. DataInv /\ StackInv
  BY InvSplit
<1> DEFINE fr == AfterCall
<1>1. stack # <<>> /\ Top.call # NULL /\ SetTop(fr) /\ UNCHANGED event_list
  BY DEF handler_returns, listVars
<1>2. Top \in Frame /\ Len(stack) \in DOMAIN stack /\ Top = stack[Len(stack)]
  BY <1>1, <1>d, TopFrame DEF StackInv
<1>3. fr \in Frame /\ GoodFrame(fr)
  <2>1. CASE Top.pc = "dispatch"
    <3>1. Top.node \in EventNode /\ is_node_in(event_list, Top.node)
      BY <1>1, <1>2, <2>1, <1>d DEF StackInv, Nested, CursorLinked, Frame
    <3>2. \/ Following(event_list, Top.node) = NULL
          \/ Following(event_list, Top.node) \in EventNode
             /\ is_node_in(event_list, Following(event_list, Top.node))
      BY <3>1, <1>d, FollowingLinked DEF DataInv
    <3>3. fr = [Top EXCEPT !.call = NULL, !.node = Following(event_list, Top.node)]
      BY <2>1 DEF AfterCall
    <3> QED
      BY <3>2, <3>3, <1>2, <2>1 DEF Frame, GoodFrame
  <2>2. CASE Top.pc # "dispatch"
    <3>1. fr = [Top EXCEPT !.call = NULL, !.node = NULL]
      BY <2>2 DEF AfterCall
    <3> QED
      BY <3>1, <1>2, <2>2 DEF Frame, GoodFrame
  <2> QED
    BY <2>1, <2>2
<1> HIDE DEF fr
<1>4. StackInv'
  BY <1>1, <1>3, <1>d, SetTopInv
<1>5. DataInv'
  BY <1>d DEF handler_returns, DataInv, LinkedOnce, listVars, flagVars
<1> QED
  BY <1>4, <1>5, InvSplitPrime

\* Main or a handler runs the loop (again): the caller's frame is suspended in
\* its call.
LEMMA EnterInv ==
    ASSUME Inv, EnterLoop
    PROVE  Inv'
<1> USE NodesDistinct, DepthType
<1>d. DataInv /\ StackInv
  BY InvSplit
<1> PICK forever \in BOOLEAN : a_eventloop(forever)
  BY DEF EnterLoop
<1> DEFINE fr == Waiting(forever)
<1>1. fr \in Frame /\ fr.node = NULL /\ fr.call = NULL
  BY DEF Frame, Waiting
<1>2. stack' = Append(stack, fr) /\ Len(stack) < MaxDepth /\ UNCHANGED event_list
      /\ (stack # <<>> => Top.call # NULL)
  BY DEF a_eventloop, InClient, listVars
<1> HIDE DEF fr
<1>3. /\ stack' \in Seq(Frame)
      /\ Len(stack') = Len(stack) + 1
      /\ Len(stack) \in Nat
      /\ DOMAIN stack' = 1 .. Len(stack) + 1
      /\ DOMAIN stack = 1 .. Len(stack)
      /\ stack'[Len(stack) + 1] = fr
      /\ \A i \in 1 .. Len(stack) : stack'[i] = stack[i]
  BY <1>1, <1>2, <1>d, PushFrames DEF StackInv
<1>4. CursorLinked'
  <2> SUFFICES ASSUME NEW i \in DOMAIN stack', stack'[i].node # NULL
               PROVE  is_node_in(event_list, stack'[i].node)
    BY <1>2 DEF CursorLinked, is_node_in
  <2> QED
    BY <1>1, <1>3, <1>d DEF StackInv, CursorLinked
<1>5. Nested'
  <2> SUFFICES ASSUME NEW i \in DOMAIN stack'
               PROVE  LET f == stack'[i] IN
                      /\ i < Len(stack) + 1 => f.call # NULL
                      /\ f.call # NULL => \/ f.pc = "dispatch" /\ f.call = f.node
                                          \/ f.pc = "timers" /\ f.call \in TimerNode
                      /\ f.node # NULL => f.pc = "dispatch"
    BY <1>3 DEF Nested
  <2>1. CASE i = Len(stack) + 1
    BY <1>1, <1>3, <2>1
  <2>2. CASE i = Len(stack)
    BY <1>2, <1>3, <1>d, <2>2 DEF StackInv, Nested, Top
  <2>3. CASE i < Len(stack)
    BY <1>3, <1>d, <2>3 DEF StackInv, Nested
  <2> QED
    BY <1>3, <2>1, <2>2, <2>3
<1>6. StackInv'
  BY <1>2, <1>3, <1>4, <1>5 DEF StackInv
<1>7. DataInv'
  BY <1>d DEF a_eventloop, DataInv, LinkedOnce, listVars, flagVars
<1> QED
  BY <1>6, <1>7, InvSplitPrime

\* A loop that a_eventloop_init has just prepared satisfies the invariant.
LEMMA InitInv == Init => Inv
<1> SUFFICES ASSUME Init PROVE Inv
  OBVIOUS
<1>1. TypeOK
  <2>1. /\ timer_list \in Seq(TimerNode)
        /\ event_list \in Seq(EventNode)
        /\ stack \in Seq(Frame)
        /\ Len(stack) = 0
    BY EmptySeq DEF Init
  <2>2. 0 <= MaxDepth
    BY DepthType
  <2> QED
    BY <2>1, <2>2 DEF Init, TypeOK
<1>2. LinkedOnce /\ CursorLinked /\ Nested
  BY DEF Init, LinkedOnce, IsInjective, CursorLinked, Nested
<1> QED
  BY <1>1, <1>2 DEF Inv

\* The invariant is inductive: each step of the loop and of its clients keeps it.
LEMMA NextInv == Inv /\ [Next]_vars => Inv'
<1> SUFFICES ASSUME Inv, [Next]_vars PROVE Inv'
  OBVIOUS
<1>1. CASE Next
  BY <1>1, LoopStepInv, ClientStepInv, ReturnInv, EnterInv DEF Next
<1>2. CASE UNCHANGED vars
  BY <1>2 DEF vars, Inv, TypeOK, LinkedOnce, CursorLinked, Nested, is_node_in
<1> QED
  BY <1>1, <1>2

\* The inductive invariant holds in every state of the loop (eventloop.c:136).
THEOREM InvHolds == Spec => []Inv
BY InitInv, NextInv, PTL DEF Spec

\* Every variable of the loop keeps its type, whatever clients do.
THEOREM TypesHold == Spec => []TypeOK
BY InvHolds, PTL DEF Inv

\* No node is ever linked twice (eventloop.c:27), so no list closes into a
\* cycle.
THEOREM LinkedOnceHolds == Spec => []LinkedOnce
BY InvHolds, PTL DEF Inv

\* Every activation, suspended or not, has its cursor on a linked node
\* (eventloop.c:173).
THEOREM CursorLinkedHolds == Spec => []CursorLinked
BY InvHolds, PTL DEF Inv

(***************************************************************************)
(* A dispatch pass ends                                                    *)
(***************************************************************************)

\* In a list that is linked once, a node has one position.
LEMMA PositionOnce ==
    ASSUME NEW list, IsInjective(list), NEW i \in DOMAIN list
    PROVE  Position(list, list[i]) = i
BY DEF Position, IsInjective

\* Behind a node fewer nodes are left than from the node on.
LEMMA FollowingLeft ==
    ASSUME NEW S, NEW list \in Seq(S), IsInjective(list), NEW n, n # NULL,
           is_node_in(list, n)
    PROVE  Left(list, Following(list, n)) < Left(list, n)
<1> DEFINE p == Position(list, n)
<1>1. p \in 1 .. Len(list) /\ Len(list) \in Nat
  BY PositionInList
<1>2. Left(list, n) = Len(list) - p + 1
  BY DEF Left
<1>3. CASE p = Len(list)
  <2>1. Following(list, n) = NULL
    BY <1>3 DEF Following
  <2> HIDE DEF p
  <2>2. Left(list, Following(list, n)) = 0
    BY <2>1 DEF Left
  <2> QED
    BY <1>1, <1>2, <1>3, <2>2
<1>4. CASE p # Len(list)
  <2>1. Following(list, n) = list[p + 1]
    BY <1>4 DEF Following
  <2> HIDE DEF p
  <2>2. p + 1 \in DOMAIN list
    BY <1>1, <1>4
  <2>3. Position(list, list[p + 1]) = p + 1
    BY <2>2, PositionOnce
  <2>4. Left(list, Following(list, n)) \in {0, Len(list) - (p + 1) + 1}
    BY <2>1, <2>3 DEF Left
  <2> QED
    BY <1>1, <1>2, <1>4, <2>4
<1> QED
  BY <1>3, <1>4

\* A node that is inserted comes before all cursors.
LEMMA InsertLeft ==
    ASSUME NEW S, NEW list \in Seq(S), IsInjective(list), NEW n \in S, NEW m,
           is_node_in(list, m)
    PROVE  Left(insert_node_safe(list, n), m) = Left(list, m)
<1>1. CASE is_node_in(list, n)
  BY <1>1 DEF insert_node_safe
<1>2. CASE ~is_node_in(list, n)
  <2> DEFINE r == <<n>> \o list
             p == Position(list, m)
  <2>1. insert_node_safe(list, n) = r
    BY <1>2 DEF insert_node_safe
  <2>2. IsInjective(r)
    BY <2>1, InsertKeeps
  <2>3. p \in 1 .. Len(list) /\ list[p] = m /\ Len(list) \in Nat
    BY PositionInList
  <2> HIDE DEF p
  <2>4. Len(r) = Len(list) + 1 /\ p + 1 \in DOMAIN r /\ r[p + 1] = m
    BY <2>3
  <2> HIDE DEF r
  <2>5. Position(r, m) = p + 1
    BY <2>2, <2>4, PositionOnce
  <2> QED
    BY <2>1, <2>3, <2>4, <2>5 DEF Left, p
<1> QED
  BY <1>1, <1>2

\* What a step may do to the frame of an activation, by place: nothing to the
\* cursor, or it starts anew, or it moves it to the next node.
CursorMoves(i) ==
    \/ /\ stack'[i].node = stack[i].node
       /\ stack'[i].call = stack[i].call \/ stack[i].call = NULL
    \/ stack[i].node = NULL
    \/ stack'[i].pc # "dispatch"
    \/ stack'[i].node = Following(event_list, stack[i].node) /\ UNCHANGED event_list

\* A step moves cursors in no other way, and leaves as many nodes behind those
\* that stay.
LEMMA MovesAdvance ==
    ASSUME Inv, \A i \in DOMAIN stack \cap DOMAIN stack' : CursorMoves(i),
           \A n : is_node_in(event_list, n) => Left(event_list', n) = Left(event_list, n)
    PROVE  \A i \in DOMAIN stack \cap DOMAIN stack' :
              stack[i].node # NULL /\ stack'[i].pc = "dispatch" =>
                  /\ Left(event_list', stack'[i].node) <= Left(event_list, stack[i].node)
                  /\ stack[i].call # NULL /\ stack'[i].call = NULL =>
                         Left(event_list', stack'[i].node) < Left(event_list, stack[i].node)
<1> SUFFICES ASSUME NEW i \in DOMAIN stack \cap DOMAIN stack',
                    stack[i].node # NULL, stack'[i].pc = "dispatch"
             PROVE  /\ Left(event_list', stack'[i].node) <= Left(event_list, stack[i].node)
                    /\ stack[i].call # NULL /\ stack'[i].call = NULL =>
                          Left(event_list', stack'[i].node) < Left(event_list, stack[i].node)
  OBVIOUS
<1> DEFINE n == stack[i].node
<1>1. is_node_in(event_list, n) /\ event_list \in Seq(EventNode) /\ IsInjective(event_list)
  BY DEF Inv, CursorLinked, TypeOK, LinkedOnce
<1>2. Left(event_list, n) \in Int
  BY <1>1, PositionInList DEF Left
<1>3. CASE stack'[i].node = n /\ (stack'[i].call = stack[i].call \/ stack[i].call = NULL)
  BY <1>1, <1>2, <1>3
<1>4. CASE stack'[i].node = Following(event_list, n) /\ UNCHANGED event_list
  <2>1. Left(event_list, Following(event_list, n)) < Left(event_list, n)
    BY <1>1, FollowingLeft
  <2>2. Left(event_list, Following(event_list, n)) \in Int
    <3>1. CASE Following(event_list, n) = NULL
      BY <3>1 DEF Left
    <3>2. CASE Following(event_list, n) # NULL
      <4>1. is_node_in(event_list, Following(event_list, n))
        BY <1>1, <3>2, FollowingLinked
      <4> QED
        BY <4>1, <1>1, <3>2, PositionInList DEF Left
    <3> QED
      BY <3>1, <3>2
  <2> QED
    BY <1>2, <1>4, <2>1, <2>2
<1> QED
  BY <1>3, <1>4 DEF CursorMoves

\* A step that replaces the innermost frame moves the cursors of that one only.
LEMMA TopMoves ==
    ASSUME StackInv, stack # <<>>, NEW fr \in Frame, SetTop(fr),
           \/ Top.node = NULL
           \/ fr.pc # "dispatch"
           \/ fr.node = Top.node /\ Top.call = NULL
           \/ fr.node = Following(event_list, Top.node) /\ UNCHANGED event_list
    PROVE  \A i \in DOMAIN stack \cap DOMAIN stack' : CursorMoves(i)
<1>1. /\ Len(stack) \in 1 .. Len(stack)
      /\ DOMAIN stack' = 1 .. Len(stack)
      /\ stack'[Len(stack)] = fr
      /\ \A i \in 1 .. Len(stack) - 1 : stack'[i] = stack[i]
  BY SetTopFrames DEF StackInv
<1> SUFFICES ASSUME NEW i \in DOMAIN stack \cap DOMAIN stack' PROVE CursorMoves(i)
  OBVIOUS
<1>2. CASE i = Len(stack)
  BY <1>1, <1>2 DEF CursorMoves, Top
<1>3. CASE i # Len(stack)
  BY <1>1, <1>3 DEF CursorMoves
<1> QED
  BY <1>2, <1>3

\* The steps of a_eventloop move the innermost cursor to the next node, or take
\* it away.
LEMMA LoopMoves ==
    ASSUME Inv, LoopStep
    PROVE  \A i \in DOMAIN stack \cap DOMAIN stack' : CursorMoves(i)
<1> USE NodesDistinct, MaskType
<1>d. DataInv /\ StackInv
  BY InvSplit
<1>t. ASSUME stack # <<>>
      PROVE  /\ Top \in Frame
             /\ Len(stack) \in DOMAIN stack
             /\ Top = stack[Len(stack)]
  BY <1>d, <1>t, TopFrame DEF StackInv
<1>n. ASSUME stack # <<>>, Top.pc # "dispatch"
      PROVE  Top.node = NULL
  BY <1>n, <1>t, <1>d DEF StackInv, Nested
<1>1. CASE wait_for_event_flags
  <2>1. stack # <<>> /\ Top.node = NULL
        /\ SetTop([Top EXCEPT !.pc = "dispatch",
                              !.node = IF PassNeeded(pending_events', events)
                                       THEN Front(event_list) ELSE NULL])
    BY <1>1, <1>n DEF wait_for_event_flags, Running
  <2>2. \/ Front(event_list) = NULL
        \/ Front(event_list) \in EventNode /\ is_node_in(event_list, Front(event_list))
    BY <1>d, FrontLinked DEF DataInv
  <2>3. [Top EXCEPT !.pc = "dispatch",
                    !.node = IF PassNeeded(pending_events', events)
                             THEN Front(event_list) ELSE NULL] \in Frame
    BY <2>1, <2>2, <1>t DEF Frame
  <2> QED
    BY <2>1, <2>3, <1>d, TopMoves
<1>2. ASSUME NEW e \in EventNode, dispatch(e)
      PROVE  \A i \in DOMAIN stack \cap DOMAIN stack' : CursorMoves(i)
  <2> DEFINE fr == [Top EXCEPT !.call = e]
  <2>1. stack # <<>> /\ Top.call = NULL /\ SetTop(fr)
    BY <1>2 DEF dispatch, Running
  <2>2. fr \in Frame /\ fr.node = Top.node
    BY <2>1, <1>t DEF Frame, Node
  <2> HIDE DEF fr
  <2> QED
    BY <2>1, <2>2, <1>d, TopMoves
<1>3. ASSUME NEW e \in EventNode, skip(e)
      PROVE  \A i \in DOMAIN stack \cap DOMAIN stack' : CursorMoves(i)
  <2> DEFINE fr == [Top EXCEPT !.node = Following(event_list, e)]
  <2>1. stack # <<>> /\ Top.node = e /\ SetTop(fr) /\ UNCHANGED event_list
    BY <1>3 DEF skip, Running, listVars
  <2>2. is_node_in(event_list, e)
    BY <2>1, <1>t, <1>d DEF StackInv, CursorLinked
  <2>3. fr \in Frame /\ fr.node = Following(event_list, Top.node)
    BY <2>1, <2>2, <1>t, <1>d, FollowingLinked DEF Frame, DataInv
  <2> HIDE DEF fr
  <2> QED
    BY <2>1, <2>3, <1>d, TopMoves
<1>4. CASE stop \/ time_out
  <2>1. stack # <<>> /\ Pop
    BY <1>4 DEF stop, time_out, ScanOver, Running
  <2> QED
    BY <2>1, <1>d, PopFrames DEF StackInv, CursorMoves
<1>5. ASSUME NEW due \in SUBSET Range(timer_list), process_timer(due)
      PROVE  \A i \in DOMAIN stack \cap DOMAIN stack' : CursorMoves(i)
  <2> DEFINE fr == [Top EXCEPT !.pc = "timers", !.due = due]
  <2>1. stack # <<>> /\ Top.node = NULL /\ SetTop(fr)
    BY <1>5 DEF process_timer, Running
  <2>2. due \in SUBSET TimerNode
    BY <1>d, RangeOfSeq DEF DataInv
  <2>3. fr \in Frame
    BY <2>1, <2>2, <1>t DEF Frame
  <2> HIDE DEF fr
  <2> QED
    BY <2>1, <2>3, <1>d, TopMoves
<1>6. ASSUME NEW t \in TimerNode, expire(t)
      PROVE  \A i \in DOMAIN stack \cap DOMAIN stack' : CursorMoves(i)
  <2> DEFINE mid == Rearm(stack, t)
  <2>1. stack # <<>> /\ Top.node = NULL
        /\ stack' = [mid EXCEPT ![Len(stack)] = [mid[Len(stack)] EXCEPT !.call = t]]
    BY <1>6, <1>n DEF expire, Running
  <2>2. /\ mid \in Seq(Frame)
        /\ Len(mid) = Len(stack)
        /\ \A i \in 1 .. Len(stack) : /\ mid[i].node = stack[i].node
                                      /\ mid[i].call = stack[i].call
    BY <1>d, RearmFrames DEF StackInv
  <2> HIDE DEF mid
  <2>3. /\ DOMAIN stack = 1 .. Len(stack)
        /\ DOMAIN stack' = 1 .. Len(stack)
        /\ \A i \in 1 .. Len(stack) : i # Len(stack) => stack'[i] = mid[i]
    BY <2>1, <2>2, <1>d DEF StackInv
  <2>4. stack[Len(stack)].node = NULL
    BY <2>1, <1>t
  <2> QED
    BY <2>2, <2>3, <2>4 DEF CursorMoves
<1>7. CASE iterate
  <2> DEFINE fr == Waiting(Top.forever)
  <2>1. stack # <<>> /\ Top.node = NULL /\ SetTop(fr)
    BY <1>7, <1>n DEF iterate, ScanOver, Running
  <2>2. fr \in Frame
    BY <2>1, <1>t DEF Frame, Waiting
  <2> HIDE DEF fr
  <2> QED
    BY <2>1, <2>2, <1>d, TopMoves
<1> QED
  BY <1>1, <1>2, <1>3, <1>4, <1>5, <1>6, <1>7 DEF LoopStep

\* A handler that returns hands its activation's cursor to the next node; what
\* clients do moves no cursor.
LEMMA ClientMoves ==
    ASSUME Inv, \/ handler_returns \/ EnterLoop \/ SetFlag
                \/ TimerOperation \/ EventOperation \/ a_eventloop_break
    PROVE  \A i \in DOMAIN stack \cap DOMAIN stack' : CursorMoves(i)
<1> USE NodesDistinct
<1>d. DataInv /\ StackInv
  BY InvSplit
<1>1. CASE handler_returns
  <2>1. stack # <<>> /\ Top.call # NULL /\ SetTop(AfterCall) /\ UNCHANGED event_list
    BY <1>1 DEF handler_returns, listVars
  <2>2. Top \in Frame /\ Len(stack) \in DOMAIN stack /\ Top = stack[Len(stack)]
    BY <2>1, <1>d, TopFrame DEF StackInv
  <2>3. CASE Top.pc = "dispatch"
    <3>1. is_node_in(event_list, Top.node)
      BY <2>1, <2>2, <2>3, <1>d DEF StackInv, Nested, CursorLinked
    <3>2. AfterCall = [Top EXCEPT !.call = NULL, !.node = Following(event_list, Top.node)]
      BY <2>3 DEF AfterCall
    <3>3. AfterCall \in Frame /\ AfterCall.node = Following(event_list, Top.node)
      BY <3>1, <3>2, <2>2, <1>d, FollowingLinked DEF Frame, DataInv
    <3> QED
      BY <2>1, <3>3, <1>d, TopMoves
  <2>4. CASE Top.pc # "dispatch"
    <3>1. AfterCall = [Top EXCEPT !.call = NULL, !.node = NULL]
      BY <2>4 DEF AfterCall
    <3>2. AfterCall \in Frame
      BY <3>1, <2>2 DEF Frame
    <3>3. Top.node = NULL
      BY <2>2, <2>4, <1>d DEF StackInv, Nested
    <3> QED
      BY <2>1, <3>2, <3>3, <1>d, TopMoves
  <2> QED
    BY <2>3, <2>4
<1>2. ASSUME NEW forever \in BOOLEAN, a_eventloop(forever)
      PROVE  \A i \in DOMAIN stack \cap DOMAIN stack' : CursorMoves(i)
  <2>1. Waiting(forever) \in Frame /\ stack' = Append(stack, Waiting(forever))
    BY <1>2 DEF a_eventloop, Frame, Waiting
  <2>2. \A i \in 1 .. Len(stack) : stack'[i] = stack[i]
    BY <2>1, <1>d, PushFrames DEF StackInv
  <2>3. DOMAIN stack = 1 .. Len(stack)
    BY <1>d DEF StackInv
  <2> QED
    BY <2>2, <2>3 DEF CursorMoves
<1>3. ASSUME NEW t \in TimerNode, a_eventloop_register_timer(t)
      PROVE  \A i \in DOMAIN stack \cap DOMAIN stack' : CursorMoves(i)
  <2>1. \A i \in 1 .. Len(stack) : stack'[i].node = stack[i].node /\ stack'[i].call = stack[i].call
    BY <1>3, <1>d, RearmFrames DEF a_eventloop_register_timer, StackInv
  <2>2. DOMAIN stack = 1 .. Len(stack)
    BY <1>d DEF StackInv
  <2> QED
    BY <2>1, <2>2 DEF CursorMoves
<1>4. CASE UNCHANGED stack
  BY <1>4 DEF CursorMoves
<1> QED
  BY <1>1, <1>2, <1>3, <1>4
     DEF EnterLoop, SetFlag, TimerOperation, EventOperation, a_eventloop_break,
         a_eventloop_set_flag, a_eventloop_deregister_timer, a_eventloop_register_event,
         a_eventloop_deregister_event, a_eventloop_disable_event, a_eventloop_enable_event

\* No step brings nodes behind a cursor.
LEMMA LeftStays ==
    ASSUME Inv, Next
    PROVE  \A n : is_node_in(event_list, n) => Left(event_list', n) = Left(event_list, n)
<1>1. ASSUME NEW e \in EventNode, a_eventloop_register_event(e)
      PROVE  \A n : is_node_in(event_list, n) => Left(event_list', n) = Left(event_list, n)
  BY <1>1, InsertLeft DEF a_eventloop_register_event, Inv, TypeOK, LinkedOnce
<1>2. CASE UNCHANGED event_list
  BY <1>2 DEF Left, Position
<1> QED
  BY <1>1, <1>2
     DEF Next, LoopStep, wait_for_event_flags, dispatch, skip, stop, process_timer, expire,
         iterate, time_out, handler_returns, EnterLoop, a_eventloop, SetFlag,
         a_eventloop_set_flag, TimerOperation, a_eventloop_register_timer,
         a_eventloop_deregister_timer, EventOperation, a_eventloop_deregister_event,
         a_eventloop_disable_event, a_eventloop_enable_event, a_eventloop_break,
         listVars, flagVars

\* A dispatch pass (eventloop.c:171) only moves towards the end of the list, and
\* by one node at least with each handler, although handlers of this and of
\* nested activations register nodes meanwhile: it ends, and calls no handler twice.
THEOREM PassAdvancesHolds == Spec => PassAdvances
<1>1. ASSUME Inv, [Next]_vars
      PROVE  [\A i \in DOMAIN stack \cap DOMAIN stack' :
                 stack[i].node # NULL /\ stack'[i].pc = "dispatch" =>
                     /\ Left(event_list', stack'[i].node) <= Left(event_list, stack[i].node)
                     /\ stack[i].call # NULL /\ stack'[i].call = NULL =>
                            Left(event_list', stack'[i].node) < Left(event_list, stack[i].node)]_vars
  <2>1. CASE UNCHANGED vars
    BY <2>1
  <2>2. CASE Next
    <3>1. \A i \in DOMAIN stack \cap DOMAIN stack' : CursorMoves(i)
      BY <1>1, <2>2, LoopMoves, ClientMoves DEF Next
    <3>2. \A n : is_node_in(event_list, n) => Left(event_list', n) = Left(event_list, n)
      BY <1>1, <2>2, LeftStays
    <3> QED
      BY <1>1, <3>1, <3>2, MovesAdvance
  <2> QED
    BY <1>1, <2>1, <2>2
<1> QED
  BY <1>1, InvHolds, PTL DEF Spec, PassAdvances

(***************************************************************************)
(* The loop implements LoopPromise                                         *)
(***************************************************************************)

\* Replacing the innermost frame replaces the innermost call.
LEMMA SetTopCalls ==
    ASSUME stack \in Seq(Frame), stack # <<>>, NEW fr \in Frame, SetTop(fr)
    PROVE  /\ CallStack' = [CallStack EXCEPT ![Len(CallStack)] = fr.call]
           /\ fr.call = Top.call => CallStack' = CallStack
<1>1. /\ stack' \in Seq(Frame)
      /\ Len(stack) \in 1 .. Len(stack)
      /\ DOMAIN stack' = 1 .. Len(stack)
      /\ DOMAIN stack = 1 .. Len(stack)
      /\ stack'[Len(stack)] = fr
      /\ \A i \in 1 .. Len(stack) - 1 : stack'[i] = stack[i]
  BY SetTopFrames
<1>2. Len(CallStack) = Len(stack)
  BY <1>1 DEF CallStack
<1>3. CallStack' = [i \in 1 .. Len(stack) |-> stack'[i].call]
  BY <1>1 DEF CallStack
<1>4. CallStack = [i \in 1 .. Len(stack) |-> stack[i].call]
  BY <1>1 DEF CallStack
<1>5. \A i \in 1 .. Len(stack) :
         stack'[i].call = IF i = Len(stack) THEN fr.call ELSE stack[i].call
  <2> TAKE i \in 1 .. Len(stack)
  <2>1. CASE i = Len(stack)
    BY <1>1, <2>1
  <2>2. CASE i # Len(stack)
    <3>1. Len(stack) \in Nat
      OBVIOUS
    <3>2. i \in 1 .. Len(stack) - 1
      BY <2>2, <3>1
    <3> QED
      BY <1>1, <2>2, <3>2
  <2> QED
    BY <2>1, <2>2
<1> QED
  BY <1>1, <1>2, <1>3, <1>4, <1>5 DEF Top

\* The innermost call as LoopPromise sees it.
LEMMA InnermostCall ==
    ASSUME stack \in Seq(Frame), stack # <<>>
    PROVE  /\ CallStack # <<>>
           /\ Len(CallStack) = Len(stack)
           /\ CallStack[Len(CallStack)] = Top.call
<1>1. Len(stack) \in 1 .. Len(stack) /\ DOMAIN stack = 1 .. Len(stack)
  OBVIOUS
<1>2. CallStack = [i \in 1 .. Len(stack) |-> stack[i].call]
  BY <1>1 DEF CallStack
<1> QED
  BY <1>1, <1>2 DEF Top

\* Entering the loop adds a call to nobody.
LEMMA PushCalls ==
    ASSUME stack \in Seq(Frame), NEW fr \in Frame, stack' = Append(stack, fr)
    PROVE  CallStack' = Append(CallStack, fr.call)
<1>1. /\ DOMAIN stack' = 1 .. Len(stack) + 1
      /\ DOMAIN stack = 1 .. Len(stack)
      /\ Len(stack) \in Nat
      /\ stack'[Len(stack) + 1] = fr
      /\ \A i \in 1 .. Len(stack) : stack'[i] = stack[i]
  BY PushFrames
<1>2. CallStack' = [i \in 1 .. Len(stack) + 1 |-> stack'[i].call]
  BY <1>1 DEF CallStack
<1>3. CallStack = [i \in 1 .. Len(stack) |-> stack[i].call]
  BY <1>1 DEF CallStack
<1>4. CallStack \in Seq({stack[i].call : i \in 1 .. Len(stack)} \cup {fr.call})
      /\ Len(CallStack) = Len(stack)
  BY <1>1, <1>3
<1> DEFINE r == Append(CallStack, fr.call)
<1>5. /\ DOMAIN r = 1 .. Len(stack) + 1
      /\ r = [i \in DOMAIN r |-> r[i]]
      /\ r[Len(stack) + 1] = fr.call
      /\ \A i \in 1 .. Len(stack) : r[i] = CallStack[i]
  BY <1>1, <1>4, AppendProperties
<1> HIDE DEF r
<1>6. \A i \in 1 .. Len(stack) + 1 : r[i] = stack'[i].call
  BY <1>1, <1>3, <1>5
<1> QED
  BY <1>2, <1>5, <1>6 DEF r

\* Leaving an activation drops the innermost call.
LEMMA PopCalls ==
    ASSUME stack \in Seq(Frame), stack # <<>>, Pop
    PROVE  CallStack' = SubSeq(CallStack, 1, Len(CallStack) - 1)
<1> DEFINE n == Len(stack) - 1
<1>1. /\ DOMAIN stack' = 1 .. n
      /\ DOMAIN stack = 1 .. n + 1
      /\ n \in Nat
      /\ \A i \in 1 .. n : stack'[i] = stack[i]
  BY PopFrames
<1> HIDE DEF n
<1>2. CallStack' = [i \in 1 .. n |-> stack'[i].call]
  BY <1>1 DEF CallStack
<1>3. CallStack = [i \in 1 .. n + 1 |-> stack[i].call]
  BY <1>1 DEF CallStack
<1>4. Len(CallStack) = n + 1
  BY <1>1, <1>3
<1>5. SubSeq(CallStack, 1, n) = [i \in 1 .. n |-> CallStack[i]]
  BY <1>1, <1>3
<1>6. \A i \in 1 .. n : CallStack[i] = stack'[i].call
  BY <1>1, <1>3
<1> QED
  BY <1>1, <1>2, <1>4, <1>5, <1>6

\* Rearming a timer is no call.
LEMMA RearmCalls ==
    ASSUME stack \in Seq(Frame), NEW t
    PROVE  [i \in DOMAIN Rearm(stack, t) |-> Rearm(stack, t)[i].call] = CallStack
<1>1. DOMAIN Rearm(stack, t) = DOMAIN stack
  BY DEF Rearm
<1>2. \A i \in DOMAIN stack : Rearm(stack, t)[i].call = stack[i].call
  BY RearmFrames
<1> QED
  BY <1>1, <1>2 DEF CallStack

\* A prepared loop owes nothing, arms nothing, serves nobody and calls nobody.
LEMMA InitPromise == Init => Promise!Init
BY DEF Init, Promise!Init, Owed, Armed, Serving, CallStack, Range

\* The steps of a_eventloop that call nobody are invisible to clients.
LEMMA QuietStep ==
    ASSUME StackInv, stack # <<>>, Top.call = NULL, NEW fr \in Frame, SetTop(fr),
           fr.call = NULL, UNCHANGED listVars, Owed' = Owed
    PROVE  UNCHANGED Promise!vars
<1>1. CallStack' = CallStack
  BY SetTopCalls DEF StackInv
<1>2. Armed' = Armed /\ Serving' = Serving
  BY DEF listVars, Armed, Serving
<1> QED
  BY <1>1, <1>2 DEF Promise!vars

\* Every step of a_eventloop is a delivery, an expiry, a return from the loop,
\* or invisible.
LEMMA LoopStepPromise ==
    ASSUME Inv, LoopStep
    PROVE  [Promise!Next]_(Promise!vars)
<1> USE NodesDistinct, MaskType
<1>d. DataInv /\ StackInv
  BY InvSplit
<1>t. ASSUME stack # <<>>
      PROVE  Top \in Frame
  BY <1>d, <1>t, TopFrame DEF StackInv
<1>i. ASSUME stack # <<>>, Top.call = NULL
      PROVE  Promise!Idle
  BY <1>d, <1>i, InnermostCall DEF StackInv, Promise!Idle, Promise!Innermost
<1>1. CASE wait_for_event_flags
  <2> DEFINE fr == [Top EXCEPT !.pc = "dispatch",
                               !.node = IF PassNeeded(pending_events', events)
                                        THEN Front(event_list) ELSE NULL]
  <2>1. stack # <<>> /\ Top.call = NULL /\ SetTop(fr) /\ UNCHANGED listVars
    BY <1>1 DEF wait_for_event_flags, Running
  <2>2. fr \in Frame /\ fr.call = NULL
    BY <2>1, <1>t, <1>d, FrontLinked DEF Frame, DataInv
  <2> HIDE DEF fr
  <2>3. Owed' = Owed
    BY <1>1 DEF wait_for_event_flags, TakeFlags, Owed
  <2> QED
    BY <2>1, <2>2, <2>3, <1>d, QuietStep
<1>2. ASSUME NEW e \in EventNode, dispatch(e)
      PROVE  Promise!Next
  <2> DEFINE fr == [Top EXCEPT !.call = e]
             again == events \cap Mask[e]
  <2>1. stack # <<>> /\ Top.call = NULL /\ Top.node = e /\ Runnable(e) /\ SetTop(fr)
        /\ pending_events' = pending_events \ Mask[e] /\ events' = events
        /\ UNCHANGED listVars
    BY <1>2 DEF dispatch, Running
  <2>2. fr \in Frame /\ fr.call = e
    BY <2>1, <1>t DEF Frame, Node
  <2> HIDE DEF fr
  <2>3. CallStack' = [CallStack EXCEPT ![Len(CallStack)] = e]
    BY <2>1, <2>2, <1>d, SetTopCalls DEF StackInv
  <2>4. e \in Serving /\ Mask[e] \cap Owed # {}
    <3>1. is_node_in(event_list, e)
      BY <2>1, <1>t, <1>d, TopFrame DEF StackInv, CursorLinked
    <3>2. e \in Range(event_list)
      BY <3>1 DEF is_node_in, Range
    <3> QED
      BY <2>1, <3>2 DEF Serving, Runnable, Owed
  <2>5. again \in SUBSET Flag /\ again \subseteq Owed
        /\ Owed' = (Owed \ Mask[e]) \cup again
    BY <2>1, <1>d DEF Owed, DataInv
  <2>6. Armed' = Armed /\ Serving' = Serving
    BY <2>1 DEF listVars, Armed, Serving
  <2> HIDE DEF again
  <2>7. Promise!Deliver(e, again)
    BY <2>1, <2>3, <2>4, <2>5, <2>6, <1>i DEF Promise!Deliver, Promise!Call
  <2> QED
    BY <2>5, <2>7 DEF Promise!Next
<1>3. ASSUME NEW e \in EventNode, skip(e)
      PROVE  UNCHANGED Promise!vars
  <2> DEFINE fr == [Top EXCEPT !.node = Following(event_list, e)]
  <2>1. stack # <<>> /\ Top.call = NULL /\ Top.node = e /\ SetTop(fr)
        /\ UNCHANGED listVars /\ Owed' = Owed
    BY <1>3 DEF skip, Running, flagVars, Owed
  <2>2. is_node_in(event_list, e)
    BY <2>1, <1>t, <1>d, TopFrame DEF StackInv, CursorLinked
  <2>3. fr \in Frame /\ fr.call = NULL
    BY <2>1, <2>2, <1>t, <1>d, FollowingLinked DEF Frame, DataInv
  <2> HIDE DEF fr
  <2> QED
    BY <2>1, <2>3, <1>d, QuietStep
<1>4. CASE stop \/ time_out
  <2>1. stack # <<>> /\ Top.call = NULL /\ Pop /\ UNCHANGED <<flagVars, listVars>>
    BY <1>4 DEF stop, time_out, ScanOver, Running
  <2>2. CallStack' = SubSeq(CallStack, 1, Len(CallStack) - 1)
    BY <2>1, <1>d, PopCalls DEF StackInv
  <2>3. Owed' = Owed /\ Armed' = Armed /\ Serving' = Serving
    BY <2>1 DEF flagVars, listVars, Owed, Armed, Serving
  <2> QED
    BY <2>1, <2>2, <2>3, <1>i DEF Promise!LeaveLoop, Promise!Next
<1>5. ASSUME NEW due \in SUBSET Range(timer_list), process_timer(due)
      PROVE  UNCHANGED Promise!vars
  <2> DEFINE fr == [Top EXCEPT !.pc = "timers", !.due = due]
  <2>1. stack # <<>> /\ Top.call = NULL /\ SetTop(fr)
        /\ UNCHANGED listVars /\ Owed' = Owed
    BY <1>5 DEF process_timer, Running, flagVars, Owed
  <2>2. fr \in Frame /\ fr.call = NULL
    BY <2>1, <1>t, <1>d, RangeOfSeq DEF Frame, DataInv
  <2> HIDE DEF fr
  <2> QED
    BY <2>1, <2>2, <1>d, QuietStep
<1>6. ASSUME NEW t \in TimerNode, expire(t)
      PROVE  Promise!Next
  <2> DEFINE n == Len(stack)
             mid == Rearm(stack, t)
             fr == [mid[n] EXCEPT !.call = t]
  <2>1. stack # <<>> /\ Top.call = NULL /\ stack' = [mid EXCEPT ![n] = fr]
        /\ UNCHANGED <<flagVars, listVars>> /\ t \in Armed
    BY <1>6 DEF expire, Running, Armed, Range
  <2>2. /\ mid \in Seq(Frame)
        /\ Len(mid) = n
        /\ DOMAIN mid = 1 .. n
        /\ n \in 1 .. n
        /\ \A i \in 1 .. n : mid[i] \in Frame /\ mid[i].call = stack[i].call
    BY <1>d, <2>1, RearmFrames, ElementOfSeq DEF StackInv
  <2>3. CallStack = [i \in 1 .. n |-> mid[i].call] /\ Len(CallStack) = n
    BY <2>1, <2>2, <1>d, InnermostCall DEF CallStack, StackInv
  <2> HIDE DEF n, mid
  <2>4. fr \in Frame /\ fr.call = t
    BY <2>2 DEF Frame, Node
  <2> HIDE DEF fr
  <2>5. DOMAIN stack' = 1 .. n
    BY <2>1, <2>2
  <2>6. CallStack' = [i \in 1 .. n |-> stack'[i].call]
    BY <2>5 DEF CallStack
  <2>7. ASSUME NEW i \in 1 .. n
        PROVE  stack'[i].call = IF i = n THEN t ELSE mid[i].call
    <3>1. CASE i = n
      BY <2>1, <2>2, <2>4, <3>1
    <3>2. CASE i # n
      BY <2>1, <2>2, <3>2
    <3> QED
      BY <3>1, <3>2
  <2>8. CallStack' = [CallStack EXCEPT ![Len(CallStack)] = t]
    BY <2>2, <2>3, <2>6, <2>7
  <2>9. Owed' = Owed /\ Armed' = Armed /\ Serving' = Serving
    BY <2>1 DEF flagVars, listVars, Owed, Armed, Serving
  <2> QED
    BY <2>1, <2>8, <2>9, <1>i DEF Promise!Expire, Promise!Call, Promise!Next
<1>7. CASE iterate
  <2> DEFINE fr == Waiting(Top.forever)
  <2>1. stack # <<>> /\ Top.call = NULL /\ SetTop(fr)
        /\ UNCHANGED listVars /\ Owed' = Owed
    BY <1>7 DEF iterate, ScanOver, Running, flagVars, Owed
  <2>2. fr \in Frame /\ fr.call = NULL
    BY <2>1, <1>t DEF Frame, Waiting
  <2> HIDE DEF fr
  <2> QED
    BY <2>1, <2>2, <1>d, QuietStep
<1> QED
  BY <1>1, <1>2, <1>3, <1>4, <1>5, <1>6, <1>7 DEF LoopStep

\* The client is running when LoopPromise says so.
LEMMA ClientRunsPromise ==
    ASSUME StackInv, InClient
    PROVE  Promise!ClientRuns
<1>1. CASE stack = <<>>
  BY <1>1 DEF CallStack, Promise!ClientRuns
<1>2. CASE stack # <<>>
  BY <1>2, InnermostCall DEF StackInv, InClient, Promise!ClientRuns, Promise!Innermost
<1> QED
  BY <1>1, <1>2

\* Whatever a client registers and signals in one step is one step of LoopPromise,
\* if it calls and returns to nobody.
LEMMA RegisterPromise ==
    ASSUME Inv, Inv', InClient, CallStack' = CallStack,
           Owed' = Owed \/ \E f \in Flag : Owed' = Owed \cup {f}
    PROVE  Promise!Next
<1>d. StackInv
  BY InvSplit
<1>1. Armed' \in SUBSET TimerNode /\ Serving' \in SUBSET EventNode
  <2>1. timer_list' \in Seq(TimerNode) /\ event_list' \in Seq(EventNode)
    BY DEF Inv, TypeOK
  <2>2. Range(timer_list') \in SUBSET TimerNode /\ Range(event_list') \in SUBSET EventNode
    BY <2>1, RangeOfSeq
  <2> QED
    BY <2>2 DEF Armed, Serving
<1>2. PICK F \in SUBSET Flag : Owed' = Owed \cup F
  <2>1. CASE Owed' = Owed
    <3>1. {} \in SUBSET Flag /\ Owed' = Owed \cup {}
      BY <2>1
    <3> QED
      BY <3>1
  <2>2. CASE \E f \in Flag : Owed' = Owed \cup {f}
    BY <2>2
  <2> QED
    BY <2>1, <2>2
<1>3. Promise!Register(Armed', Serving', F)
  BY <1>d, <1>2, ClientRunsPromise DEF Promise!Register
<1> QED
  BY <1>1, <1>2, <1>3 DEF Promise!Next

\* What clients do is a signal, a change of what is armed or served, a return,
\* an inner run of the loop, or invisible.
LEMMA ClientStepPromise ==
    ASSUME Inv, Inv',
           TimerOperation \/ EventOperation \/ a_eventloop_break \/ SetFlag
              \/ handler_returns \/ EnterLoop
    PROVE  [Promise!Next]_(Promise!vars)
<1> USE NodesDistinct
<1>d. DataInv /\ StackInv
  BY InvSplit
<1>1. ASSUME NEW t \in TimerNode,
             a_eventloop_register_timer(t) \/ a_eventloop_deregister_timer(t)
      PROVE  Promise!Next
  <2>1. InClient /\ UNCHANGED flagVars /\ (stack' = Rearm(stack, t) \/ stack' = stack)
    BY <1>1 DEF a_eventloop_register_timer, a_eventloop_deregister_timer
  <2>2. CallStack' = CallStack
    BY <2>1, <1>d, RearmCalls DEF CallStack, StackInv
  <2> QED
    BY <2>1, <2>2, RegisterPromise DEF flagVars, Owed
<1>2. ASSUME NEW e \in EventNode, a_eventloop_deregister_event(e)
      PROVE  Promise!Next
  <2>1. InClient /\ UNCHANGED flagVars /\ stack' = stack
    BY <1>2 DEF a_eventloop_deregister_event
  <2> QED
    BY <2>1, RegisterPromise DEF flagVars, Owed, CallStack
<1>3. ASSUME NEW e \in EventNode,
             \/ a_eventloop_register_event(e)
             \/ a_eventloop_disable_event(e)
             \/ a_eventloop_enable_event(e)
      PROVE  Promise!Next
  <2>1. InClient /\ UNCHANGED flagVars /\ stack' = stack
    BY <1>3 DEF a_eventloop_register_event, a_eventloop_disable_event,
                a_eventloop_enable_event
  <2> QED
    BY <2>1, RegisterPromise DEF flagVars, Owed, CallStack
<1>4. CASE a_eventloop_break
  BY <1>4 DEF a_eventloop_break, flagVars, listVars, Promise!vars,
              Owed, Armed, Serving, CallStack
<1>5. ASSUME NEW f \in Flag, a_eventloop_set_flag(f)
      PROVE  Promise!Next
  <2>1. Promise!Signal(f)
    BY <1>5 DEF a_eventloop_set_flag, listVars, Promise!Signal,
                Owed, Armed, Serving, CallStack
  <2> QED
    BY <2>1 DEF Promise!Next
<1>6. CASE handler_returns
  <2>1. stack # <<>> /\ Top.call # NULL /\ SetTop(AfterCall)
        /\ UNCHANGED <<flagVars, listVars>>
    BY <1>6 DEF handler_returns
  <2>2. Top \in Frame
    BY <2>1, <1>d, TopFrame DEF StackInv
  <2>3. AfterCall \in Frame /\ AfterCall.call = NULL
    <3>1. CASE Top.pc = "dispatch"
      <4>1. Top.node \in EventNode /\ is_node_in(event_list, Top.node)
        BY <2>1, <2>2, <3>1, <1>d, TopFrame DEF StackInv, Nested, CursorLinked, Frame
      <4>2. AfterCall = [Top EXCEPT !.call = NULL, !.node = Following(event_list, Top.node)]
        BY <3>1 DEF AfterCall
      <4> QED
        BY <4>1, <4>2, <2>2, <1>d, FollowingLinked DEF Frame, DataInv
    <3>2. CASE Top.pc # "dispatch"
      <4>1. AfterCall = [Top EXCEPT !.call = NULL, !.node = NULL]
        BY <3>2 DEF AfterCall
      <4> QED
        BY <4>1, <2>2 DEF Frame
    <3> QED
      BY <3>1, <3>2
  <2>4. CallStack' = [CallStack EXCEPT ![Len(CallStack)] = NULL]
    BY <2>1, <2>3, <1>d, SetTopCalls DEF StackInv
  <2>5. Owed' = Owed /\ Armed' = Armed /\ Serving' = Serving
    BY <2>1 DEF flagVars, listVars, Owed, Armed, Serving
  <2>6. CallStack # <<>> /\ CallStack[Len(CallStack)] # NULL
    BY <2>1, <1>d, InnermostCall DEF StackInv
  <2> QED
    BY <2>4, <2>5, <2>6
       DEF Promise!HandlerReturns, Promise!Call, Promise!Innermost, Promise!Next
<1>7. ASSUME NEW forever \in BOOLEAN, a_eventloop(forever)
      PROVE  Promise!Next
  <2> DEFINE fr == Waiting(forever)
  <2>1. InClient /\ stack' = Append(stack, fr) /\ UNCHANGED <<flagVars, listVars>>
    BY <1>7 DEF a_eventloop
  <2>2. fr \in Frame /\ fr.call = NULL
    BY DEF Frame, Waiting
  <2> HIDE DEF fr
  <2>3. CallStack' = Append(CallStack, NULL)
    BY <2>1, <2>2, <1>d, PushCalls DEF StackInv
  <2>4. Owed' = Owed /\ Armed' = Armed /\ Serving' = Serving
    BY <2>1 DEF flagVars, listVars, Owed, Armed, Serving
  <2> QED
    BY <2>1, <2>3, <2>4, <1>d, ClientRunsPromise DEF Promise!EnterLoop, Promise!Next
<1> QED
  BY <1>1, <1>2, <1>3, <1>4, <1>5, <1>6, <1>7
     DEF TimerOperation, EventOperation, SetFlag, EnterLoop

\* Every step of the loop and of its clients is one of LoopPromise or invisible.
LEMMA NextPromise == Inv /\ Inv' /\ [Next]_vars => [Promise!Next]_(Promise!vars)
<1> SUFFICES ASSUME Inv, Inv', [Next]_vars
             PROVE  [Promise!Next]_(Promise!vars)
  OBVIOUS
<1>1. CASE Next
  BY <1>1, LoopStepPromise, ClientStepPromise DEF Next
<1>2. CASE UNCHANGED vars
  BY <1>2 DEF vars, Promise!vars, Owed, Armed, Serving, CallStack
<1> QED
  BY <1>1, <1>2

\* The loop keeps LoopPromise for every number of timers, handlers and flags,
\* every assignment of masks (overlapping ones too) and every depth of nesting:
\* no flag is lost between the RTOS flag group, pending_events and the calls of
\* nested activations, and no unregistered timer's handler is called.
THEOREM PromiseKept == Spec => KeepsPromise
BY InitPromise, NextPromise, InvHolds, PTL DEF Spec, KeepsPromise, Promise!Spec
=============================================================================
