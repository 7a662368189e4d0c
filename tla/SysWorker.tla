----------------------------- MODULE SysWorker -----------------------------
(***************************************************************************)
(* src/common/sys_worker.c on the event loop: a periodic timer sends a     *)
(* sampling job to a worker thread, the job's end sets a flag, and the     *)
(* flag's handler publishes the sample and arms the timer again.  Several  *)
(* workers share one thread.  finish_fn is client code on the loop's       *)
(* thread: it may run the loop again (example/main.c:258 publishes), break *)
(* it, trigger a worker or change its interval; so may the handlers of     *)
(* ClientEvent.  The MQTT library triggers workers as well, from a thread  *)
(* of its own (sys_mqtt.c:85 calls example/main.c:169), so the trigger and *)
(* the timer's handler are taken step by step.                             *)
(***************************************************************************)
EXTENDS EventLoop

CONSTANTS
    Worker,         \* sys_worker_t objects
    timer_node,     \* timer_node[w], event_node[w]: the nodes inside w
    event_node,
    event_flag,     \* event_flag[w]: the flag given to a_sys_worker_init
    ClientEvent,    \* other event nodes, registered before the loop starts
    Remote,         \* workers the callback of the MQTT library may trigger
    QueueSize       \* size of the worker thread's queue

ASSUME WorkerNodes ==
    /\ timer_node \in [Worker -> TimerNode] /\ IsInjective(timer_node)
    /\ event_node \in [Worker -> EventNode \ ClientEvent]
    /\ IsInjective(event_node)
    /\ ClientEvent \subseteq EventNode
    /\ event_flag \in [Worker -> Flag] /\ IsInjective(event_flag)
    /\ \A w \in Worker : Mask[event_node[w]] = {event_flag[w]}
    /\ \A e \in ClientEvent, w \in Worker : event_flag[w] \notin Mask[e]
    /\ NULL \notin Worker
    /\ Remote \subseteq Worker
ASSUME QueueType == QueueSize \in Nat \ {0}

Caller == {"loop", "library"}    \* the threads that call sys_worker.c

VARIABLES
    inited,         \* the workers that were initialised
    queue,          \* jobs waiting for the worker thread
    running,        \* the worker whose job the thread is running
    callback_done,  \* the innermost handler has nothing left but to return
    op,             \* op[c]: what a caller inside sys_worker.c does next
    raced           \* history: workers whose timer one caller has taken while
                    \* the other had found it registered and was to take it

workerVars == <<vars, inited, queue, running, callback_done, op, raced>>
threadVars == <<queue, running>>
callVars == <<op, raced>>

Step == {"none", "deregister", "send", "register", "restart"}
Do(step, w) == [step |-> step, of |-> w]
None == Do("none", NULL)

WorkerInit ==
    /\ Init
    /\ inited = {}
    /\ queue = <<>>
    /\ running = NULL
    /\ callback_done = FALSE
    /\ op = [c \in Caller |-> None]
    /\ raced = {}

-----------------------------------------------------------------------------
(* the worker thread *)

next_job ==
    /\ running = NULL
    /\ queue # <<>>
    /\ running' = Head(queue)
    /\ queue' = Tail(queue)
    /\ UNCHANGED <<vars, inited, callback_done, callVars>>

\* worker_fn has returned.
sensor_process(w) ==
    /\ running = w
    /\ a_eventloop_set_flag(event_flag[w])
    /\ running' = NULL
    /\ UNCHANGED <<inited, queue, callback_done, callVars>>

-----------------------------------------------------------------------------
(* timer_callback, a_sys_worker_trigger and a_sys_worker_change_inteval, step *)
(* by step, on the thread of caller c                                        *)

IsArmed(w) == is_node_in(timer_list, timer_node[w])
Begin(c, step, w) == op' = [op EXCEPT ![c] = Do(step, w)]

\* process_timer has called the handler of w's timer.
TimerCalls(w) == stack # <<>> /\ Top.call = timer_node[w] /\ ~callback_done

\* The other thread is to take w's timer, too, and will not look again.
Overtakes(c, w) ==
    \/ \E d \in Caller \ {c} : op[d] \in {Do("deregister", w), Do("restart", w)}
    \/ c = "library" /\ TimerCalls(w)

\* a_eventloop_deregister_timer, whose result line 24 ignores
take_timer(c, w, step) ==
    /\ timer_list' = remove_node_safe(timer_list, timer_node[w])
    /\ Begin(c, step, w)
    /\ raced' = raced \cup (IF Overtakes(c, w) THEN {w} ELSE {})
    /\ UNCHANGED <<flagVars, event_list, enabled, loop_stop, stack,
                   inited, threadVars>>

deregister(c, w) ==
    /\ \/ op[c] = Do("deregister", w) /\ take_timer(c, w, "send")
       \/ op[c] = Do("restart", w) /\ take_timer(c, w, "register")
    /\ UNCHANGED callback_done

\* wiced_rtos_send_asynchronous_event succeeds only with room in the queue.
send_or_drop(c, w) ==
    /\ op[c] = Do("send", w)
    /\ queue' = IF Len(queue) < QueueSize THEN Append(queue, w) ELSE queue
    /\ op' = [op EXCEPT ![c] = None]
    /\ UNCHANGED <<vars, inited, running, callback_done, raced>>

send(c, w) ==
    /\ op[c] = Do("send", w)
    /\ \/ /\ Len(queue) < QueueSize
          /\ queue' = Append(queue, w)
          /\ op' = [op EXCEPT ![c] = None]
       \/ /\ Len(queue) = QueueSize
          /\ Begin(c, "register", w)
          /\ UNCHANGED queue
    /\ UNCHANGED <<vars, inited, running, callback_done, raced>>

\* a_eventloop_register_timer, on either thread
register(c, w) ==
    /\ op[c] = Do("register", w)
    /\ timer_list' = insert_node_safe(timer_list, timer_node[w])
    /\ stack' = Rearm(stack, timer_node[w])
    /\ op' = [op EXCEPT ![c] = None]
    /\ UNCHANGED <<flagVars, event_list, enabled, loop_stop, inited, threadVars,
                   callback_done, raced>>

CallStep(c) == \E w \in Worker : deregister(c, w) \/ send(c, w) \/ register(c, w)

-----------------------------------------------------------------------------
(* the handlers, on the loop's thread *)

\* timer_callback begins.
timer_fires(w) ==
    /\ TimerCalls(w)
    /\ take_timer("loop", w, "send")
    /\ callback_done' = TRUE

InFinish(w) ==
    /\ stack # <<>> /\ Top.call = event_node[w]
    /\ ~callback_done
    /\ op["loop"] = None

finish_without_timer(w) ==
    /\ InFinish(w)
    /\ callback_done' = TRUE
    /\ UNCHANGED <<vars, inited, threadVars, callVars>>

\* finish_fn has returned.
event_callback(w) ==
    /\ InFinish(w)
    /\ a_eventloop_register_timer(timer_node[w])
    /\ callback_done' = TRUE
    /\ UNCHANGED <<inited, threadVars, callVars>>

\* Handlers of other events hold no state of ours.
callback_returns ==
    /\ callback_done \/ (stack # <<>> /\ Top.call \in ClientEvent)
    /\ op["loop"] = None
    /\ handler_returns
    /\ callback_done' = FALSE
    /\ UNCHANGED <<inited, threadVars, callVars>>

-----------------------------------------------------------------------------
(* client code: main before it enters the loop, finish_fn, other handlers,   *)
(* and the callback of the MQTT library                                      *)

Setup == stack = <<>> /\ inited # Worker
Client ==
    /\ inited = Worker
    /\ op["loop"] = None
    /\ \/ stack # <<>> /\ Top.call \in ClientEvent
       \/ \E w \in Worker : InFinish(w)

\* The library has a session only after main has entered the loop.
MayCall(c, w) ==
    \/ c = "loop" /\ Client
    \/ c = "library" /\ w \in Remote /\ stack # <<>> /\ op[c] = None

\* Both nodes are fresh, so only the lists change.
a_sys_worker_init(w) ==
    /\ Setup
    /\ w \notin inited
    /\ inited' = inited \cup {w}
    /\ timer_list' = insert_node_safe(timer_list, timer_node[w])
    /\ event_list' = insert_node_safe(event_list, event_node[w])
    /\ enabled' = [enabled EXCEPT ![event_node[w]] = TRUE]
    /\ UNCHANGED <<flagVars, loop_stop, stack, threadVars, callback_done, callVars>>

register_client(e) ==
    /\ Setup
    /\ a_eventloop_register_event(e)
    /\ UNCHANGED <<inited, threadVars, callback_done, callVars>>

trigger_unchecked(c, w) ==
    /\ MayCall(c, w)
    /\ Begin(c, "deregister", w)
    /\ UNCHANGED <<vars, inited, threadVars, callback_done, raced>>

\* Nothing happens unless the timer is registered when the caller looks.
a_sys_worker_trigger(c, w) ==
    /\ MayCall(c, w)
    /\ IsArmed(w)
    /\ Begin(c, "deregister", w)
    /\ UNCHANGED <<vars, inited, threadVars, callback_done, raced>>

\* The new interval is used at once if the timer is registered, else by
\* event_callback.  No thread but the loop's changes it.
a_sys_worker_change_inteval(w) ==
    /\ Client
    /\ IsArmed(w)
    /\ Begin("loop", "restart", w)
    /\ UNCHANGED <<vars, inited, threadVars, callback_done, raced>>

\* main runs the loop for ever, handlers for a limited time (sys_mqtt.c:33).
client_enters ==
    /\ \/ Client /\ a_eventloop(FALSE)
       \/ stack = <<>> /\ inited = Worker /\ a_eventloop(TRUE)
    /\ UNCHANGED <<inited, threadVars, callback_done, callVars>>

client_breaks ==
    /\ Client
    /\ a_eventloop_break
    /\ UNCHANGED <<inited, threadVars, callback_done, callVars>>

client_sets_flag ==
    /\ \E e \in ClientEvent, f \in Flag : f \in Mask[e] /\ a_eventloop_set_flag(f)
    /\ UNCHANGED <<inited, threadVars, callback_done, callVars>>

WorkerLoopStep == LoopStep /\ UNCHANGED <<inited, threadVars, callback_done, callVars>>

Callback ==
    \/ \E w \in Worker : timer_fires(w) \/ event_callback(w)
    \/ callback_returns

Thread == next_job \/ \E w \in Worker : sensor_process(w)

ClientOperation ==
    \/ \E w \in Worker :
          \/ a_sys_worker_init(w)
          \/ \E c \in Caller : a_sys_worker_trigger(c, w)
          \/ a_sys_worker_change_inteval(w)
    \/ \E e \in ClientEvent : register_client(e)
    \/ client_enters
    \/ client_breaks
    \/ client_sets_flag

WorkerNext ==
    \/ WorkerLoopStep
    \/ Callback
    \/ Thread
    \/ \E c \in Caller : CallStep(c)
    \/ ClientOperation

WorkerSpec == WorkerInit /\ [][WorkerNext]_workerVars

WorkerTimeOut == time_out /\ UNCHANGED <<inited, threadVars, callback_done, callVars>>

\* All three threads are scheduled, worker_fn, finish_fn and the other handlers
\* return (in an activation at any depth), an activation with a time limit is
\* out of time in the end, and main calls the loop again.
WorkerFairness ==
    /\ WF_workerVars(WorkerLoopStep)
    /\ WF_workerVars(Thread)
    /\ \A c \in Caller : WF_workerVars(CallStep(c))
    /\ WF_workerVars(stack = <<>> /\ client_enters)
    /\ \A d \in 1 .. MaxDepth :
          /\ SF_workerVars(Len(stack) = d /\ Callback)
          /\ SF_workerVars(Len(stack) = d /\ WorkerTimeOut)

WorkerFairSpec == WorkerSpec /\ WorkerFairness

-----------------------------------------------------------------------------
(* properties *)

\* The variables of both threads have the type the RTOS and the C stack give them.
WorkerTypeOK ==
    /\ inited \subseteq Worker
    /\ queue \in Seq(Worker) /\ Len(queue) <= QueueSize
    /\ running \in Worker \cup {NULL}
    /\ callback_done \in BOOLEAN
    /\ callback_done => stack # <<>> /\ Top.call # NULL
    /\ op \in [Caller -> {None} \cup {Do(step, w) : step \in Step, w \in inited}]
    /\ raced \subseteq inited

\* Where the cycle of worker w stands: every place it is found in.
ArmedAt(w) == {<<"armed", i>> : i \in {j \in DOMAIN timer_list : timer_list[j] = timer_node[w]}}
Held(w) == {<<"held", c>> : c \in {d \in Caller : op[d] \in {Do("send", w), Do("register", w)}}}
Queued(w) == {<<"queued", i>> : i \in {j \in DOMAIN queue : queue[j] = w}}
Sampling(w) == IF running = w THEN {<<"sampling", 0>>} ELSE {}
Sampled(w) == {<<"sampled", set>> : set \in {s \in {"events", "pending"} :
                  event_flag[w] \in IF s = "events" THEN events ELSE pending_events}}
Finishing(w) ==
    {<<"finishing", i>> : i \in {j \in DOMAIN stack :
        stack[j].call = event_node[w] /\ ~(j = Len(stack) /\ callback_done)}}

Places(w) ==
    ArmedAt(w) \cup Held(w) \cup Queued(w) \cup Sampling(w) \cup Sampled(w) \cup Finishing(w)

\* The cycle of a worker is never lost: its timer is registered, or a thread is
\* about to send its job or to register the timer again, or a job is queued or
\* running, or its flag is set, or finish_fn is being called; not a full queue,
\* a change of the interval, a break, a loop that finish_fn runs, nor two threads
\* in timer_callback at once can end it (sys_worker.c:21-43).
CycleKept == \A w \in inited : Places(w) # {}

\* Unless one thread has taken the timer between the other's look at it
\* (sys_worker.c:39, eventloop.c:50) and its deregistration (sys_worker.c:24), a
\* worker is in one place of its cycle only: no sample is taken twice for one
\* timer, and worker_fn does not run while finish_fn reads the sample it wrote.
\* No other order of triggers, jobs, handlers and nested loops, on the loop's
\* thread and off it, makes a second job.
OneBaton == \A w \in inited \ raced : \A p, q \in Places(w) : p = q

\* Each sample that was asked for is taken and finished, and its timer is armed
\* again, whatever the other workers and the clients do meanwhile, on two threads.
SampleCompletes == \A w \in Worker : Queued(w) # {} ~> IsArmed(w)
=============================================================================
