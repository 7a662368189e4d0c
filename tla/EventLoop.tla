----------------------------- MODULE EventLoop -----------------------------
(***************************************************************************)
(* The cooperative event loop of src/common/eventloop.c: one thread runs   *)
(* a_eventloop, waits for event flags, calls the handlers of pending flags *)
(* in list order, then the handlers of expired timers.  A handler may call *)
(* a_eventloop again (sys_mqtt.c does, to wait for an answer), so the C    *)
(* call stack is part of the state: one frame per activation.              *)
(*                                                                         *)
(* Time is abstracted here: which timers have expired when process_timer   *)
(* reads the clock, and whether a bounded activation has run out of time,  *)
(* are choices.  EventLoopTimed refines them with the clock arithmetic.    *)
(***************************************************************************)
EXTENDS Naturals, Sequences, Functions

CONSTANTS
    TimerNode,      \* eventloop_timer_node_t objects
    EventNode,      \* eventloop_event_node_t objects
    Flag,           \* bits of the 32-bit event word
    Mask,           \* Mask[e]: node->mask, the bits a node is registered for
    NULL,           \* no node
    MaxDepth        \* bound: nested activations of a_eventloop

ASSUME NodesDistinct ==
    /\ TimerNode \cap EventNode = {}
    /\ NULL \notin TimerNode \cup EventNode
ASSUME MaskType == Mask \in [EventNode -> SUBSET Flag]
ASSUME DepthType == MaxDepth \in Nat \ {0}

VARIABLES
    events,         \* el->events: the RTOS flag group, set by any thread
    pending_events, \* el->pending_events: flags taken and not yet dispatched
    timer_list,     \* el->timer_list, front first
    event_list,     \* el->event_list, front first
    enabled,        \* node->enabled of every event node
    loop_stop,      \* el->loop_stop
    stack           \* activations of a_eventloop, innermost last

flagVars == <<events, pending_events>>
listVars == <<timer_list, event_list, enabled>>
vars == <<events, pending_events, timer_list, event_list, enabled,
          loop_stop, stack>>

Node == TimerNode \cup EventNode

(***************************************************************************)
(* One activation: where it stands, the dispatch cursor (local variable    *)
(* "node"), the timers that process_timer's one reading of the clock found *)
(* expired, whether timeout_ms is WICED_WAIT_FOREVER, and the handler it   *)
(* is calling.                                                             *)
(***************************************************************************)
Frame == [pc : {"wait", "dispatch", "timers"},
          node : EventNode \cup {NULL},
          due : SUBSET TimerNode,
          forever : BOOLEAN,
          call : Node \cup {NULL}]

Waiting(forever) == [pc |-> "wait", node |-> NULL, due |-> {},
                     forever |-> forever, call |-> NULL]

Init ==
    /\ events = {}
    /\ pending_events = {}
    /\ timer_list = <<>>
    /\ event_list = <<>>
    /\ enabled = [e \in EventNode |-> FALSE]
    /\ loop_stop = FALSE
    /\ stack = <<>>

-----------------------------------------------------------------------------
(* linked lists *)

is_node_in(list, n) == \E i \in DOMAIN list : list[i] = n

Position(list, n) == CHOOSE i \in DOMAIN list : list[i] = n

insert_unchecked(list, n) == <<n>> \o list

insert_node_safe(list, n) ==
    IF is_node_in(list, n) THEN list ELSE <<n>> \o list

remove_node_safe(list, n) ==
    IF is_node_in(list, n)
    THEN LET p == Position(list, n)
         IN  SubSeq(list, 1, p - 1) \o SubSeq(list, p + 1, Len(list))
    ELSE list

Front(list) == IF list = <<>> THEN NULL ELSE list[1]

RestartAtFront(list, n) == Front(list)

\* node->node.next
Following(list, n) ==
    LET p == Position(list, n)
    IN  IF p = Len(list) THEN NULL ELSE list[p + 1]

-----------------------------------------------------------------------------
(* the innermost activation *)

Top == stack[Len(stack)]
Running(pc) == stack # <<>> /\ Top.pc = pc /\ Top.call = NULL
SetTop(frame) == stack' = [stack EXCEPT ![Len(stack)] = frame]
Pop == stack' = SubSeq(stack, 1, Len(stack) - 1)

\* Client code runs on the loop thread: main before and between activations,
\* or a handler the innermost activation is calling.
InClient == stack # <<>> => Top.call # NULL

-----------------------------------------------------------------------------
(* a_eventloop *)

a_eventloop(forever) ==
    /\ InClient
    /\ Len(stack) < MaxDepth
    /\ stack' = Append(stack, Waiting(forever))
    /\ UNCHANGED <<flagVars, listVars, loop_stop>>

\* The wait does not block for ever: something is pending, a timer is
\* registered or the activation itself has a time limit.
CanTimeOut == pending_events # {} \/ timer_list # <<>> \/ ~Top.forever

\* el->pending_events |= events
KeepOnlyNew(pending, new) == new
TakeFlags(pending, new) == pending \cup new

\* if (el->pending_events), with the new flags already among them
PassForNew(pending, new) == new # {}
PassNeeded(pending, new) == pending # {}

\* wiced_rtos_wait_for_event_flags returns, with every flag set so far (and
\* clears them) or, when its time is over, with none; dispatch starts at the
\* front of the list, or is skipped when nothing is pending.
wait_for_event_flags ==
    /\ Running("wait")
    /\ events # {} \/ CanTimeOut
    /\ pending_events' = TakeFlags(pending_events, events)
    /\ events' = {}
    /\ SetTop([Top EXCEPT !.pc = "dispatch",
                          !.node = IF PassNeeded(pending_events', events)
                                   THEN Front(event_list) ELSE NULL])
    /\ UNCHANGED <<listVars, loop_stop>>

Runnable(e) == enabled[e] /\ Mask[e] \cap pending_events # {}

\* The handler is called after the flags of its mask were cleared.
dispatch(e) ==
    /\ Running("dispatch")
    /\ Top.node = e
    /\ Runnable(e)
    /\ pending_events' = pending_events \ Mask[e]
    /\ SetTop([Top EXCEPT !.call = e])
    /\ UNCHANGED <<events, listVars, loop_stop>>

skip(e) ==
    /\ Running("dispatch")
    /\ Top.node = e
    /\ ~Runnable(e)
    /\ SetTop([Top EXCEPT !.node = Following(event_list, e)])
    /\ UNCHANGED <<flagVars, listVars, loop_stop>>

\* The pass is over and some handler has asked for a stop.
stop ==
    /\ Running("dispatch")
    /\ Top.node = NULL
    /\ loop_stop
    /\ loop_stop' = FALSE
    /\ Pop
    /\ UNCHANGED <<flagVars, listVars>>

\* process_timer reads the clock once: some registered timers are due.
process_timer(due) ==
    /\ Running("dispatch")
    /\ Top.node = NULL
    /\ ~loop_stop
    /\ SetTop([Top EXCEPT !.pc = "timers", !.due = due])
    /\ UNCHANGED <<flagVars, listVars, loop_stop>>

\* The first due timer from the front is called; its next_timeout, computed
\* from the same reading, is no longer due in this scan or an outer one.
Rearm(frames, t) == [i \in DOMAIN frames |-> [frames[i] EXCEPT !.due = @ \ {t}]]

expire(t) ==
    /\ Running("timers")
    /\ t \in Top.due
    /\ \E i \in DOMAIN timer_list :
          /\ timer_list[i] = t
          /\ \A j \in 1 .. i - 1 : timer_list[j] \notin Top.due
    /\ stack' = [Rearm(stack, t) EXCEPT ![Len(stack)].call = t]
    /\ UNCHANGED <<flagVars, listVars, loop_stop>>

ScanOver ==
    /\ Running("timers")
    /\ \A i \in DOMAIN timer_list : timer_list[i] \notin Top.due

iterate ==
    /\ ScanOver
    /\ SetTop(Waiting(Top.forever))
    /\ UNCHANGED <<flagVars, listVars, loop_stop>>

\* The activation's time is over: it returns WICED_ERROR, and a stop that was
\* asked for meanwhile is forgotten.
time_out ==
    /\ ScanOver
    /\ ~Top.forever
    /\ loop_stop' = FALSE
    /\ Pop
    /\ UNCHANGED <<flagVars, listVars>>

\* After an event handler the pass goes on with the next node, after a timer
\* handler process_timer looks at the list from its front again.
AfterCall ==
    [Top EXCEPT !.call = NULL,
                !.node = IF Top.pc = "dispatch"
                         THEN Following(event_list, Top.node) ELSE NULL]

handler_returns ==
    /\ stack # <<>>
    /\ Top.call # NULL
    /\ SetTop(AfterCall)
    /\ UNCHANGED <<flagVars, listVars, loop_stop>>

-----------------------------------------------------------------------------
(* operations of clients; set_flag from any thread, the others on the loop's *)

a_eventloop_set_flag(f) ==
    /\ events' = events \cup {f}
    /\ UNCHANGED <<pending_events, listVars, loop_stop, stack>>

a_eventloop_register_timer(t) ==
    /\ InClient
    /\ timer_list' = insert_node_safe(timer_list, t)
    /\ stack' = Rearm(stack, t)
    /\ UNCHANGED <<flagVars, event_list, enabled, loop_stop>>

a_eventloop_deregister_timer(t) ==
    /\ InClient
    /\ timer_list' = remove_node_safe(timer_list, t)
    /\ UNCHANGED <<flagVars, event_list, enabled, loop_stop, stack>>

a_eventloop_register_event(e) ==
    /\ InClient
    /\ enabled' = [enabled EXCEPT ![e] = TRUE]
    /\ event_list' = insert_node_safe(event_list, e)
    /\ UNCHANGED <<flagVars, timer_list, loop_stop, stack>>

deregister_from_event_list(e) ==
    /\ InClient
    /\ event_list' = remove_node_safe(event_list, e)
    /\ UNCHANGED <<flagVars, timer_list, enabled, loop_stop, stack>>

\* The source removes the node from the timer list, where it never is.
a_eventloop_deregister_event(e) ==
    /\ InClient
    /\ timer_list' = remove_node_safe(timer_list, e)
    /\ UNCHANGED <<flagVars, event_list, enabled, loop_stop, stack>>

\* The two inline functions of eventloop.h store the value of each other.
a_eventloop_disable_event(e) ==
    /\ InClient
    /\ enabled' = [enabled EXCEPT ![e] = TRUE]
    /\ UNCHANGED <<flagVars, timer_list, event_list, loop_stop, stack>>

a_eventloop_enable_event(e) ==
    /\ InClient
    /\ enabled' = [enabled EXCEPT ![e] = FALSE]
    /\ UNCHANGED <<flagVars, timer_list, event_list, loop_stop, stack>>

a_eventloop_break ==
    /\ InClient
    /\ loop_stop' = TRUE
    /\ UNCHANGED <<flagVars, listVars, stack>>

-----------------------------------------------------------------------------
LoopStep ==
    \/ wait_for_event_flags
    \/ \E e \in EventNode : dispatch(e) \/ skip(e)
    \/ stop
    \/ \E due \in SUBSET Range(timer_list) : process_timer(due)
    \/ \E t \in TimerNode : expire(t)
    \/ iterate
    \/ time_out

TimerOperation ==
    \E t \in TimerNode :
        a_eventloop_register_timer(t) \/ a_eventloop_deregister_timer(t)

EventOperation ==
    \E e \in EventNode :
        \/ a_eventloop_register_event(e)
        \/ a_eventloop_deregister_event(e)
        \/ a_eventloop_disable_event(e)
        \/ a_eventloop_enable_event(e)

EnterLoop == \E forever \in BOOLEAN : a_eventloop(forever)
SetFlag == \E f \in Flag : a_eventloop_set_flag(f)

Next ==
    \/ LoopStep
    \/ handler_returns
    \/ EnterLoop
    \/ SetFlag
    \/ TimerOperation
    \/ EventOperation
    \/ a_eventloop_break

Spec == Init /\ [][Next]_vars

(***************************************************************************)
(* Fairness.  The loop thread is scheduled, so an enabled step of          *)
(* a_eventloop is taken; main calls a_eventloop again whenever it returns  *)
(* (example/main.c:316); every handler returns, whatever inner activations *)
(* it runs before it does.  Nothing is assumed of the other threads.       *)
(***************************************************************************)
Fairness ==
    /\ WF_vars(LoopStep)
    /\ WF_vars(stack = <<>> /\ EnterLoop)
    /\ \A d \in 1 .. MaxDepth : SF_vars(Len(stack) = d /\ handler_returns)

FairSpec == Spec /\ Fairness

-----------------------------------------------------------------------------
(* properties *)

\* Every variable has the type its C declaration gives it.
TypeOK ==
    /\ events \in SUBSET Flag
    /\ pending_events \in SUBSET Flag
    /\ timer_list \in Seq(TimerNode)
    /\ event_list \in Seq(EventNode)
    /\ enabled \in [EventNode -> BOOLEAN]
    /\ loop_stop \in BOOLEAN
    /\ stack \in Seq(Frame)
    /\ Len(stack) <= MaxDepth

\* "insert only if node is not in linked list" (eventloop.c:28): whatever
\* handlers register again, no intrusive node is ever linked twice, which
\* would close the list into a cycle that the scans never leave.
LinkedOnce == IsInjective(timer_list) /\ IsInjective(event_list)

\* The dispatch cursor of every activation, the suspended ones included, is a
\* node that is still linked: resuming after a handler that ran the whole
\* loop again follows a live next pointer (eventloop.c:173).
CursorLinked ==
    \A i \in DOMAIN stack :
        stack[i].node # NULL => is_node_in(event_list, stack[i].node)

\* Distance of the innermost cursor from the end of the list.
Left(list, n) == IF n = NULL THEN 0 ELSE Len(list) - Position(list, n) + 1

\* A dispatch pass only moves towards the end of event_list: when a handler
\* returns or a node is skipped, fewer nodes remain than before the call
\* began, although handlers of this and of inner activations insert nodes.
\* So one pass calls a handler once at most and ends.
PassAdvances ==
    [][\A i \in DOMAIN stack \cap DOMAIN stack' :
          stack[i].node # NULL /\ stack'[i].pc = "dispatch" =>
              /\ Left(event_list', stack'[i].node) <= Left(event_list, stack[i].node)
              /\ stack[i].call # NULL /\ stack'[i].call = NULL =>
                     Left(event_list', stack'[i].node) < Left(event_list, stack[i].node)
      ]_vars

\* The loop implements LoopPromise: a flag leaves the loop only by a call of
\* an enabled, registered handler that listens for it (no activation, stop or
\* time-out loses one), a timer's handler runs only while the timer is
\* registered, and calls nest.
Owed == events \cup pending_events
Armed == Range(timer_list)
Serving == {e \in Range(event_list) : enabled[e]}
CallStack == [i \in DOMAIN stack |-> stack[i].call]

Promise == INSTANCE LoopPromise WITH
    owed <- Owed, armed <- Armed, serving <- Serving, calls <- CallStack,
    Nobody <- NULL

KeepsPromise == Promise!Spec

\* Some enabled handler listens for the flag.
Served(f) == \E e \in Serving : f \in Mask[e]

\* A flag set by any thread is taken by the loop in the end, and a flag that was
\* taken is delivered to a handler unless nobody listens for it any more,
\* however activations nest, stop, time out and are entered again, whatever
\* timers do, and although flags are set again all the time.
FlagDelivered ==
    \A f \in Flag :
        /\ f \in events ~> f \notin events
        /\ f \in pending_events /\ Served(f) ~>
               f \notin pending_events \/ ~Served(f)
=============================================================================
