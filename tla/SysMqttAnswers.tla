--------------------------- MODULE SysMqttAnswers ---------------------------
(***************************************************************************)
(* SysMqtt with a record of the answers that came while a handler waits:   *)
(* what mqtt_inner_event_loop returns, and what is believed of the         *)
(* connection afterwards, is compared with what happened.                  *)
(***************************************************************************)
EXTENDS SysMqtt

VARIABLES
    heard,      \* per activation: while its handler waits, has a handler been
                \* called for an answer of the kind it awaits
    stopped,    \* and was that answer to stop this very wait
    misled      \* a loss of the session ended a wait, or an open was made while
                \* another one waits, or was refused

answerVars == <<mqttVars, heard, stopped, misled>>

AnswersInit == MqttInit /\ heard = <<>> /\ stopped = <<>> /\ misled = FALSE

\* The answer whose handler runs in this step.
Heard == {k \in Answer : Begins(mqtt_event_node[k]) /\ place' # place}

\* Handler i goes on waiting.
StillWaits(i) == i \in DOMAIN place /\ place[i] \in Waits /\ place'[i] \in Waits

\* The wait that a handler can stop is that of the handler below the innermost
\* activation.
Listen ==
    /\ heard' = [i \in DOMAIN place' |->
          StillWaits(i) /\ (heard[i] \/ Awaited(place[i]) \subseteq Heard)]
    /\ stopped' = [i \in DOMAIN place' |->
          StillWaits(i) /\ (\/ stopped[i]
                           \/ /\ i = Len(stack) - 1 /\ ~loop_stop /\ loop_stop'
                              /\ Awaited(place[i]) \subseteq Heard)]

\* event_mqtt takes DISCONNECTED for the end of a wait that is not for it.
LossTaken ==
    /\ DISCONNECTED \in Heard \cap mqtt_interruptable_event_bitmap
    /\ mqtt_interruptable_event_bitmap # {DISCONNECTED}

OpensNested(pl) ==
    \E i, j \in DOMAIN pl : i < j /\ pl[i] = "opening" /\ pl[j] = "opening"

\* There is no session any more, and the library has no end of it to report.
OpenRefused == session /\ ~session' /\ DISCONNECTED \notin answers'

Remember == misled' = (misled \/ LossTaken \/ OpensNested(place') \/ OpenRefused)

AnswersNext == MqttNext /\ Listen /\ Remember

AnswersSpec == AnswersInit /\ [][AnswersNext]_answerVars

\* The handler is about to learn how its wait ended.
Returning == \E p \in Waits : At(p)
Answered == Awaited(place[Len(place)]) \subseteq mqtt_pending_event_bitmap

\* Success is not made up: mqtt_inner_event_loop returns WICED_SUCCESS only if a
\* handler was called for an answer of the awaited kind since this wait began,
\* in this activation or in one nested in it; an answer that an earlier request
\* left in the bitmap is no success.
SuccessHeard == Returning /\ Answered => heard[Len(stack)]

\* "Fail to response" (sys_mqtt.c:40) is said of requests without a response: a
\* wait that the awaited answer was to stop returns WICED_SUCCESS.
FailureMeansSilence == Returning /\ stopped[Len(stack)] => Answered

\* A connection that is believed in is there, or the end of it is still to be
\* handled, whatever closed, failed, came late or was suspended before.  The three
\* ways to lose sight of it are what misled records: event_mqtt (sys_mqtt.c:246)
\* only ends the wait that a DISCONNECTED meets, an open that waits below another
\* one may take the other's answer for its own, and a CONNECT_REQ_STATUS that
\* says the broker refused is taken for a connection (sys_mqtt.c:71-73).
BelievesSession ==
    Idle /\ mqtt_connected /\ ~misled =>
        \/ session
        \/ DISCONNECTED \in answers
        \/ mqtt_flag[DISCONNECTED] \in events \cup pending_events
=============================================================================
