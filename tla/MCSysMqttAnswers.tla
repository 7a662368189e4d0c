----------------------------- MODULE MCSysMqttAnswers -------------------------
(***************************************************************************)
(* SysMqttAnswers with one handler of the application that makes requests. *)
(***************************************************************************)
EXTENDS SysMqttAnswers, TLC

CONSTANTS con, pub, sub, discon, net, app,
          fcon, fpub, fsub, fdiscon, fnet, fapp

MCEventNode == {con, pub, sub, discon, net, app}
MCFlag == {fcon, fpub, fsub, fdiscon, fnet, fapp}
MCMask == (con :> {fcon}) @@ (pub :> {fpub}) @@ (sub :> {fsub})
          @@ (discon :> {fdiscon}) @@ (net :> {fnet}) @@ (app :> {fapp})
MCmqtt_event_node ==
    (CONNECT_REQ :> con) @@ ("PUBLISHED" :> pub) @@ ("SUBSCRIBED" :> sub)
    @@ (DISCONNECTED :> discon) @@ (NET_CHANGE :> net)
MCmqtt_flag ==
    (CONNECT_REQ :> fcon) @@ ("PUBLISHED" :> fpub) @@ ("SUBSCRIBED" :> fsub)
    @@ (DISCONNECTED :> fdiscon) @@ (NET_CHANGE :> fnet)
MCAppEvent == {app}

(***************************************************************************)
(* For deep nesting: the network stays as it is when the program starts,   *)
(* and the other threads act only while the loop waits.                    *)
(***************************************************************************)
Library == session_drops \/ \E k \in Answer : mqtt_connection_event_cb(k)

MCNext ==
    /\ \/ MqttLoopStep \/ Handler \/ a_sys_mqtt_init \/ application_start
       \/ (stack # <<>> => Running("wait")) /\ (Library \/ app_event)
    /\ Listen
    /\ Remember

MCSpec == AnswersInit /\ [][MCNext]_answerVars
=============================================================================
