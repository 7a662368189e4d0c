------------------------- MODULE EventLoopRequests -------------------------
(***************************************************************************)
(* EventLoop with a record of what the owner of each event node asked for  *)
(* last, to compare what the interface in eventloop.h says with what the   *)
(* loop does.                                                              *)
(***************************************************************************)
EXTENDS EventLoop

VARIABLE request    \* request[e]: the owner's last request about node e

AskFor(e, r) == request' = [request EXCEPT ![e] = r]

RequestInit == Init /\ request = [e \in EventNode |-> "none"]

RequestNext ==
    \/ \E e \in EventNode :
          \/ a_eventloop_register_event(e) /\ AskFor(e, "listen")
          \/ a_eventloop_deregister_event(e) /\ AskFor(e, "removed")
          \/ /\ a_eventloop_disable_event(e)
             /\ request[e] = "listen"
             /\ AskFor(e, "disabled")
          \/ /\ a_eventloop_enable_event(e)
             /\ request[e] = "disabled"
             /\ AskFor(e, "listen")
    \/ /\ LoopStep \/ handler_returns \/ EnterLoop \/ SetFlag \/ a_eventloop_break
       /\ UNCHANGED request

RequestSpec == RequestInit /\ [][RequestNext]_<<vars, request>>

\* The step calls the handler of node e.
Calls(e) == stack # <<>> /\ Top.call = NULL /\ Len(stack') = Len(stack)
            /\ stack'[Len(stack)].call = e

\* a_eventloop_deregister_event (eventloop.h:53) takes the node out of
\* event_list, "event list" (eventloop.h:34): once the owner has removed a
\* node, and perhaps freed it, the loop does not call its handler again.
RemovedIsQuiet ==
    [][\A e \in EventNode : Calls(e) => request[e] # "removed"]_<<vars, request>>

\* a_eventloop_disable_event (eventloop.h:60) switches a node off: the loop
\* does not call its handler until a_eventloop_enable_event switches it on.
DisabledIsQuiet ==
    [][\A e \in EventNode : Calls(e) => request[e] # "disabled"]_<<vars, request>>
=============================================================================
