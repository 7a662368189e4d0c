----------------------------- MODULE MCSysMqtt -----------------------------
(***************************************************************************)
(* SysMqtt with one handler of the application that makes requests.        *)
(***************************************************************************)
EXTENDS SysMqtt, TLC

CONSTANTS con, pub, sub, discon, net, app,
          fcon, fpub, fsub, fdiscon, fnet, fapp

MCEventNode == {con, pub, sub, discon, net, app}
MCFlag == {fcon, fpub, fsub, fdiscon, fnet, fapp}
MCMask == (con :> {fcon}) @@ (pub :> {fpub}) @@ (sub :> {fsub})
          @@ (discon :> {fdiscon}) @@ (net :> {fnet}) @@ (app :> {fapp})
MCmqtt_event_node ==
    (CONNECT_REQ :> con) @@ ("PUBLISHED" :> pub) @@ ("SUBSCRIBED" :> sub)
    @@ (DISCONNECTED :> discon) @@ (NET_CHANGE :> net)
MCmqtt_flag ==
    (CONNECT_REQ :> fcon) @@ ("PUBLISHED" :> fpub) @@ ("SUBSCRIBED" :> fsub)
    @@ (DISCONNECTED :> fdiscon) @@ (NET_CHANGE :> fnet)
MCAppEvent == {app}

(***************************************************************************)
(* A step of the loop's own code between the wait and the call of a        *)
(* handler reads and writes only what belongs to the loop's thread, so it  *)
(* commutes with every step of the other threads: these are taken while    *)
(* the loop waits and while a handler runs.  A handler reads the state of  *)
(* the network and of the session, and of what the others do besides it    *)
(* sees nothing before the next wait.  In a nested activation they act     *)
(* only while it waits: this is a bound.                                   *)
(***************************************************************************)
Seen == network_change \/ _net_event \/ session_drops

Others ==
    \/ stack = <<>> /\ External
    \/ Running("wait") /\ External
    \/ Len(stack) = 1 /\ Top.call # NULL /\ Seen

MCNext ==
    MqttLoopStep \/ Handler \/ a_sys_mqtt_init \/ application_start \/ Others

MCSpec == MqttInit /\ [][MCNext]_mqttVars
=============================================================================
