---------------------------- MODULE LoopPromise ----------------------------
(***************************************************************************)
(* What an event loop promises to the code that registers handlers with    *)
(* it, without saying how: a signalled flag stays owed until one handler   *)
(* that listens for it is called, a timer handler is called only while its *)
(* timer is armed, and calls nest: a handler may run the loop again, and   *)
(* is resumed when that inner run is over.  EventLoop implements this.     *)
(***************************************************************************)
EXTENDS Sequences, Naturals

CONSTANTS
    TimerNode,      \* the timers clients own
    EventNode,      \* the event handlers clients own
    Flag,           \* the flags that can be signalled
    Mask,           \* Mask[e]: the flags handler e listens for
    Nobody          \* no handler is being called

VARIABLES
    owed,           \* flags signalled and not yet delivered
    armed,          \* timers whose handler may be called
    serving,        \* handlers that may be called for a flag
    calls           \* per run of the loop, innermost last: who is being called

vars == <<owed, armed, serving, calls>>

Init ==
    /\ owed = {}
    /\ armed = {}
    /\ serving = {}
    /\ calls = <<>>

Innermost == calls[Len(calls)]
Idle == calls # <<>> /\ Innermost = Nobody
ClientRuns == calls # <<>> => Innermost # Nobody
Call(n) == calls' = [calls EXCEPT ![Len(calls)] = n]

\* Any thread signals a flag; a flag that is still owed is not owed twice.
Signal(f) ==
    /\ owed' = owed \cup {f}
    /\ UNCHANGED <<armed, serving, calls>>

\* The loop calls a listening handler that is owed a flag, and settles the
\* flags of its mask with that one call, all but those signalled again since
\* the loop took them.
Deliver(e, again) ==
    /\ Idle
    /\ e \in serving
    /\ Mask[e] \cap owed # {}
    /\ again \subseteq owed
    /\ owed' = (owed \ Mask[e]) \cup again
    /\ Call(e)
    /\ UNCHANGED <<armed, serving>>

Expire(t) ==
    /\ Idle
    /\ t \in armed
    /\ Call(t)
    /\ UNCHANGED <<owed, armed, serving>>

HandlerReturns ==
    /\ calls # <<>>
    /\ Innermost # Nobody
    /\ Call(Nobody)
    /\ UNCHANGED <<owed, armed, serving>>

EnterLoop ==
    /\ ClientRuns
    /\ calls' = Append(calls, Nobody)
    /\ UNCHANGED <<owed, armed, serving>>

LeaveLoop ==
    /\ Idle
    /\ calls' = SubSeq(calls, 1, Len(calls) - 1)
    /\ UNCHANGED <<owed, armed, serving>>

\* Client code alone changes what is armed and who is served.  It may do both
\* before the loop goes on, and signal flags meanwhile.
Register(S, handlers, F) ==
    /\ ClientRuns
    /\ armed' = S
    /\ serving' = handlers
    /\ owed' = owed \cup F
    /\ UNCHANGED calls

Next ==
    \/ \E f \in Flag : Signal(f)
    \/ \E e \in EventNode, again \in SUBSET Flag : Deliver(e, again)
    \/ \E t \in TimerNode : Expire(t)
    \/ HandlerReturns
    \/ EnterLoop
    \/ LeaveLoop
    \/ \E S \in SUBSET TimerNode, handlers \in SUBSET EventNode, F \in SUBSET Flag :
          Register(S, handlers, F)

Spec == Init /\ [][Next]_vars
=============================================================================
