------------------------------ MODULE SysMqtt ------------------------------
(***************************************************************************)
(* src/common/sys_mqtt.c on the event loop: one connection to a broker,    *)
(* opened when the network comes up, opened again after a random delay     *)
(* when that fails, and requests that wait for their answer by running the *)
(* event loop again inside the handler that makes them.  So any handler    *)
(* may be called while another one waits, and requests nest.               *)
(*                                                                         *)
(* The MQTT library, its broker and the network thread are external: they  *)
(* answer late, never, or drop the session at any time.                    *)
(***************************************************************************)
EXTENDS EventLoop

CONSTANTS
    mqtt_event_node,    \* node and flag of every kind of event
    mqtt_flag,
    retry_timer_node,
    start_timer_node,   \* main's timer, whose handler creates the client
    AppEvent,           \* event nodes whose handlers make requests
    Request             \* the kinds of answer those requests wait for

CONNECT_REQ == "CONNECT_REQ"
DISCONNECTED == "DISCONNECTED"
NET_CHANGE == "NET_CHANGE"
Answer == {CONNECT_REQ, "PUBLISHED", "SUBSCRIBED", DISCONNECTED}
Kind == Answer \cup {NET_CHANGE}

ASSUME MqttNodes ==
    /\ mqtt_event_node \in [Kind -> EventNode \ AppEvent]
    /\ IsInjective(mqtt_event_node)
    /\ mqtt_flag \in [Kind -> Flag] /\ IsInjective(mqtt_flag)
    /\ \A k \in Kind : Mask[mqtt_event_node[k]] = {mqtt_flag[k]}
    /\ \A k \in Kind, e \in EventNode : mqtt_flag[k] \in Mask[e] => e = mqtt_event_node[k]
    /\ retry_timer_node \in TimerNode
    /\ start_timer_node \in TimerNode \ {retry_timer_node}
    /\ AppEvent \subseteq EventNode
    /\ Request \subseteq {"PUBLISHED", "SUBSCRIBED"}

VARIABLES
    inited,         \* a_sys_mqtt_init was called
    network_up,     \* a_network_is_up()
    net_callback,   \* the network thread has still to call _net_event
    session,        \* library: there is a connection to the broker, or it is asked for
    answers,        \* library: events it has still to report
    mqtt_connected,
    mqtt_pending_event_bitmap,
    mqtt_interruptable_event_bitmap,
    reported,       \* what net_event_cb was told last
    place           \* per activation: where the handler it calls stands

libraryVars == <<session, answers>>
networkVars == <<network_up, net_callback>>
bitmapVars == <<mqtt_pending_event_bitmap, mqtt_interruptable_event_bitmap>>
objectVars == <<mqtt_connected, bitmapVars, reported>>
mqttVars == <<vars, inited, networkVars, libraryVars, objectVars, place>>

(***************************************************************************)
(* A handler begins, is in event_net_change before or after it read the    *)
(* state of the network, waits in an inner activation for a close, an open *)
(* or the answer to a request of the application, or only has to return.   *)
(***************************************************************************)
Waits == {"closing_up", "closing_down", "opening"} \cup Request
Place == {"begin", "net_change", "close_up", "close_down", "open", "report",
          "done"} \cup Waits

Awaited(p) == IF p \in {"closing_up", "closing_down"} THEN {DISCONNECTED}
              ELSE IF p = "opening" THEN {CONNECT_REQ}
              ELSE {p} \cap Request

MqttInit ==
    /\ Init
    /\ inited = FALSE
    /\ network_up \in BOOLEAN
    /\ net_callback = FALSE
    /\ session = FALSE
    /\ answers = {}
    /\ mqtt_connected = FALSE
    /\ mqtt_pending_event_bitmap = {}
    /\ mqtt_interruptable_event_bitmap = {}
    /\ reported = [net |-> FALSE, mqtt |-> FALSE]
    /\ place = <<>>

-----------------------------------------------------------------------------
(* the network thread and the library's *)

\* a_net.up changes, and after that the callbacks are called.
network_change ==
    /\ ~net_callback
    /\ network_up' = ~network_up
    /\ net_callback' = TRUE
    /\ UNCHANGED <<vars, inited, libraryVars, objectVars, place>>

_net_event ==
    /\ net_callback
    /\ net_callback' = FALSE
    /\ IF inited THEN a_eventloop_set_flag(mqtt_flag[NET_CHANGE]) ELSE UNCHANGED vars
    /\ UNCHANGED <<inited, network_up, libraryVars, objectVars, place>>

\* The flag is set whatever status the event carries: the answer to a CONNECT
\* may also say that the broker refused it, and then there is no session.
mqtt_connection_event_cb(k) ==
    /\ k \in answers
    /\ answers' = answers \ {k}
    /\ session' \in (IF k = CONNECT_REQ THEN {session, FALSE} ELSE {session})
    /\ a_eventloop_set_flag(mqtt_flag[k])
    /\ UNCHANGED <<inited, networkVars, objectVars, place>>

\* The broker closes the connection: what it still had to answer is lost.  (An
\* answer lost otherwise is one that mqtt_connection_event_cb never reports.)
session_drops ==
    /\ session
    /\ session' = FALSE
    /\ answers' = {DISCONNECTED}
    /\ UNCHANGED <<vars, inited, networkVars, objectVars, place>>

-----------------------------------------------------------------------------
(* handlers *)

At(p) == stack # <<>> /\ Top.call # NULL /\ place[Len(place)] = p
Begins(n) == At("begin") /\ Top.call = n
GoTo(p) == place' = [place EXCEPT ![Len(place)] = p]

bitmaps_not_cleared(k, p) ==
    /\ mqtt_interruptable_event_bitmap' = {DISCONNECTED, k}
    /\ UNCHANGED mqtt_pending_event_bitmap
    /\ a_eventloop(FALSE)
    /\ place' = Append([place EXCEPT ![Len(place)] = p], "begin")

\* The first half: the bitmaps are set and the loop is entered.
mqtt_inner_event_loop(k, p) ==
    /\ mqtt_pending_event_bitmap' = {}
    /\ mqtt_interruptable_event_bitmap' = {DISCONNECTED, k}
    /\ a_eventloop(FALSE)
    /\ place' = Append([place EXCEPT ![Len(place)] = p], "begin")

still_interruptable(p) == At(p) /\ UNCHANGED mqtt_interruptable_event_bitmap

\* The second half: the inner activation has returned, with the answer or not.
inner_loop_returns(p) == At(p) /\ mqtt_interruptable_event_bitmap' = {}
Success(k) == k \in mqtt_pending_event_bitmap

\* a_eventloop_register_timer with a random delay
Retry == a_eventloop_register_timer(retry_timer_node)
CancelRetry == a_eventloop_deregister_timer(retry_timer_node)

mqtt_retry_cb ==
    /\ Begins(retry_timer_node)
    /\ CancelRetry
    /\ GoTo("net_change")
    /\ UNCHANGED <<inited, networkVars, libraryVars, objectVars>>

\* event_net_change, called by the loop or by one of the two other handlers
NetChange == Begins(mqtt_event_node[NET_CHANGE]) \/ At("net_change")

net_is_up ==
    /\ NetChange
    /\ network_up
    /\ mqtt_connected' = FALSE
    /\ GoTo(IF mqtt_connected THEN "close_up" ELSE "open")
    /\ UNCHANGED <<vars, inited, networkVars, libraryVars, bitmapVars, reported>>

silent_down ==
    /\ NetChange
    /\ ~network_up
    /\ CancelRetry
    /\ mqtt_connected' = FALSE
    /\ GoTo(IF mqtt_connected THEN "close_down" ELSE "done")
    /\ UNCHANGED <<inited, networkVars, libraryVars, bitmapVars, reported>>

net_is_down ==
    /\ NetChange
    /\ ~network_up
    /\ CancelRetry
    /\ mqtt_connected' = FALSE
    /\ GoTo(IF mqtt_connected THEN "close_down" ELSE "report")
    /\ UNCHANGED <<inited, networkVars, libraryVars, bitmapVars, reported>>

\* The result of mqtt_app_close is not used.
AfterClose(p) == IF p \in {"close_up", "closing_up"} THEN "open" ELSE "report"

mqtt_app_close(p) ==
    /\ At(p) /\ p \in {"close_up", "close_down"}
    /\ \/ /\ session' = FALSE
          /\ answers' = answers \cup {DISCONNECTED}
          /\ mqtt_inner_event_loop(DISCONNECTED, IF p = "close_up" THEN "closing_up"
                                                ELSE "closing_down")
       \/ /\ GoTo(AfterClose(p))
          /\ UNCHANGED <<vars, libraryVars, bitmapVars>>
    /\ UNCHANGED <<inited, networkVars, mqtt_connected, reported>>

close_returns(p) ==
    /\ p \in {"closing_up", "closing_down"}
    /\ inner_loop_returns(p)
    /\ GoTo(AfterClose(p))
    /\ UNCHANGED <<vars, inited, networkVars, libraryVars, mqtt_connected,
                   mqtt_pending_event_bitmap, reported>>

\* No address, no broker, or a connection that is not answered: retry later.
mqtt_app_open ==
    /\ At("open")
    /\ \/ /\ session' = TRUE
          /\ answers' = answers \cup {CONNECT_REQ}
          /\ mqtt_inner_event_loop(CONNECT_REQ, "opening")
       \/ /\ Retry
          /\ GoTo("report")
          /\ UNCHANGED <<libraryVars, bitmapVars>>
    /\ UNCHANGED <<inited, networkVars, mqtt_connected, reported>>

unanswered_without_retry ==
    /\ inner_loop_returns("opening")
    /\ mqtt_connected' = Success(CONNECT_REQ)
    /\ GoTo("report")
    /\ UNCHANGED <<vars, inited, networkVars, libraryVars, mqtt_pending_event_bitmap,
                   reported>>

open_returns ==
    /\ inner_loop_returns("opening")
    /\ IF Success(CONNECT_REQ)
       THEN mqtt_connected' = TRUE /\ UNCHANGED vars
       ELSE Retry /\ UNCHANGED mqtt_connected
    /\ GoTo("report")
    /\ UNCHANGED <<inited, networkVars, libraryVars, mqtt_pending_event_bitmap, reported>>

\* net_event_cb
report ==
    /\ At("report")
    /\ reported' = [net |-> network_up, mqtt |-> mqtt_connected]
    /\ GoTo("done")
    /\ UNCHANGED <<vars, inited, networkVars, libraryVars, mqtt_connected, bitmapVars>>

break_always(k) ==
    /\ mqtt_pending_event_bitmap' = {k}
    /\ a_eventloop_break
    /\ GoTo("done")

\* The handlers of the library's events: an awaited one stops the loop.
interrupt(k) ==
    /\ k \in mqtt_interruptable_event_bitmap
    /\ mqtt_pending_event_bitmap' = {k}
    /\ a_eventloop_break
    /\ GoTo("done")

ignore_loss(k) ==
    /\ k \in Answer
    /\ Begins(mqtt_event_node[k])
    /\ \/ interrupt(k)
       \/ /\ k \notin mqtt_interruptable_event_bitmap
          /\ GoTo("done")
          /\ UNCHANGED <<vars, mqtt_pending_event_bitmap>>
    /\ UNCHANGED <<inited, networkVars, libraryVars, mqtt_connected,
                   mqtt_interruptable_event_bitmap, reported>>

event_mqtt(k) ==
    /\ k \in Answer
    /\ Begins(mqtt_event_node[k])
    /\ \/ interrupt(k)
       \/ /\ k \notin mqtt_interruptable_event_bitmap
          /\ IF k = DISCONNECTED THEN CancelRetry /\ GoTo("net_change")
             ELSE GoTo("done") /\ UNCHANGED vars
          /\ UNCHANGED mqtt_pending_event_bitmap
    /\ UNCHANGED <<inited, networkVars, libraryVars, mqtt_connected,
                   mqtt_interruptable_event_bitmap, reported>>

\* a_sys_mqtt_publish and a_sys_mqtt_app_subscribe, called by a handler of the
\* application; the library refuses a request without a session.
request(k) ==
    /\ \E e \in AppEvent : Begins(e)
    /\ session
    /\ answers' = answers \cup {k}
    /\ mqtt_inner_event_loop(k, k)
    /\ UNCHANGED <<inited, networkVars, session, mqtt_connected, reported>>

request_returns(k) ==
    /\ inner_loop_returns(k)
    /\ GoTo("done")
    /\ UNCHANGED <<vars, inited, networkVars, libraryVars, mqtt_connected,
                   mqtt_pending_event_bitmap, reported>>

callback_returns ==
    /\ At("done") \/ \E n \in AppEvent \cup {start_timer_node} : Begins(n)
    /\ handler_returns
    /\ GoTo("begin")
    /\ UNCHANGED <<inited, networkVars, libraryVars, objectVars>>

-----------------------------------------------------------------------------
(* the loop, main and the application *)

MqttLoopStep ==
    /\ LoopStep
    /\ place' = SubSeq(place, 1, Len(stack'))
    /\ UNCHANGED <<inited, networkVars, libraryVars, objectVars>>

\* linked front first: the node registered last is the first
Registered == <<mqtt_event_node[DISCONNECTED], mqtt_event_node["SUBSCRIBED"],
                mqtt_event_node["PUBLISHED"], mqtt_event_node[CONNECT_REQ],
                mqtt_event_node[NET_CHANGE]>>

\* The handler of main's timer takes the timer away and creates the client.
a_sys_mqtt_init ==
    /\ Begins(start_timer_node) /\ ~inited
    /\ inited' = TRUE
    /\ timer_list' = remove_node_safe(timer_list, start_timer_node)
    /\ event_list' = Registered \o event_list
    /\ enabled' = [e \in EventNode |-> enabled[e] \/ e \in Range(Registered)]
    /\ events' = IF network_up THEN events \cup {mqtt_flag[NET_CHANGE]} ELSE events
    /\ GoTo("done")
    /\ UNCHANGED <<pending_events, loop_stop, stack, networkVars, libraryVars, objectVars>>

\* main registers its handlers and its timer, and enters the loop.
application_start ==
    /\ stack = <<>>
    /\ \/ /\ \E e \in AppEvent : ~enabled[e] /\ a_eventloop_register_event(e)
          /\ UNCHANGED place
       \/ /\ ~inited
          /\ a_eventloop_register_timer(start_timer_node)
          /\ UNCHANGED place
       \/ /\ inited \/ is_node_in(timer_list, start_timer_node)
          /\ \A e \in AppEvent : enabled[e]
          /\ a_eventloop(TRUE)
          /\ place' = <<"begin">>
    /\ UNCHANGED <<inited, networkVars, libraryVars, objectVars>>

app_event ==
    /\ \E e \in AppEvent, f \in Flag : f \in Mask[e] /\ a_eventloop_set_flag(f)
    /\ UNCHANGED <<inited, networkVars, libraryVars, objectVars, place>>

External ==
    \/ network_change
    \/ _net_event
    \/ \E k \in Answer : mqtt_connection_event_cb(k)
    \/ session_drops
    \/ app_event

Handler ==
    \/ mqtt_retry_cb
    \/ net_is_up
    \/ net_is_down
    \/ \E p \in Place : mqtt_app_close(p) \/ close_returns(p)
    \/ mqtt_app_open
    \/ open_returns
    \/ report
    \/ \E k \in Answer : event_mqtt(k)
    \/ \E k \in Request : request(k) \/ request_returns(k)
    \/ callback_returns

MqttNext ==
    MqttLoopStep \/ Handler \/ External \/ a_sys_mqtt_init \/ application_start

MqttSpec == MqttInit /\ [][MqttNext]_mqttVars

-----------------------------------------------------------------------------
(* properties *)

\* The object's fields have their types, and each activation has its place.
MqttTypeOK ==
    /\ inited \in BOOLEAN /\ network_up \in BOOLEAN /\ net_callback \in BOOLEAN
    /\ session \in BOOLEAN /\ answers \subseteq Answer
    /\ mqtt_connected \in BOOLEAN
    /\ mqtt_pending_event_bitmap \subseteq Answer
    /\ mqtt_interruptable_event_bitmap \subseteq Answer
    /\ reported \in [net : BOOLEAN, mqtt : BOOLEAN]
    /\ place \in Seq(Place)
    /\ Len(place) = Len(stack)

\* main's activation waits and no handler is suspended.
Idle == Len(stack) = 1 /\ Running("wait")
NetChangeOwed ==
    net_callback \/ mqtt_flag[NET_CHANGE] \in events \cup pending_events

\* Whatever handlers nested, when the loop is idle the client, once created, has
\* not given up: the network is down, or it believes it is connected, or the
\* retry timer is registered, or a change of the network is still to be handled.
NeverGivesUp ==
    Idle /\ inited /\ network_up =>
        mqtt_connected \/ is_node_in(timer_list, retry_timer_node) \/ NetChangeOwed

\* What net_event_cb was told last (the LEDs of example/main.c) is what the
\* module believes when the loop is idle, although the connection is opened and
\* closed in handlers that suspend each other.
ReportedIsCurrent ==
    Idle /\ inited =>
        /\ reported.mqtt = mqtt_connected
        /\ reported.net = network_up \/ NetChangeOwed

\* A handler stops only an activation that a handler waits in: the stop is asked
\* for above a suspended request, and main's activation never returns.
MainKeepsRunning == loop_stop => Len(stack) > 1

\* Only the innermost waiting handler can be interrupted, by the answer it awaits
\* or by the end of the session.
OnlyInnermostWaits ==
    mqtt_interruptable_event_bitmap # {} =>
        \E i \in DOMAIN stack :
            /\ place[i] \in Waits
            /\ mqtt_interruptable_event_bitmap = Awaited(place[i]) \cup {DISCONNECTED}
            /\ \A j \in DOMAIN stack : j > i => place[j] \notin Waits
=============================================================================
