---------------------------- MODULE SysMqttProofs ----------------------------
(***************************************************************************)
(* Proofs about SysMqtt and SysMqttAnswers, for every application, every   *)
(* depth of nesting and every interleaving with the network's thread and   *)
(* the library's.                                                          *)
(***************************************************************************)
EXTENDS SysMqttAnswers, EventLoopProofs

(***************************************************************************)
(* The inductive invariant                                                 *)
(*                                                                         *)
(* A handler is suspended only where it waits.  What it still has to do    *)
(* when it is resumed is then seen from its place: it will come to an open *)
(* (Tries) or to the report (Tells).  So at each moment the module may     *)
(* have given up, or have told something out of date, only as long as some *)
(* handler, at whatever depth, is still to make up for it.                 *)
(***************************************************************************)

Places ==
    /\ \A i \in DOMAIN stack : i < Len(stack) => place[i] \in Waits
    /\ \A i \in DOMAIN stack : stack[i].call = NULL => place[i] = "begin"

\* Who is called before the client is created.
EarlyCall == AppEvent \cup {start_timer_node, NULL}

Started ==
    ~inited => /\ ~mqtt_connected /\ ~session
               /\ ~reported.mqtt /\ ~reported.net
               /\ \A e : is_node_in(event_list, e) => e \in AppEvent
               /\ \A t : is_node_in(timer_list, t) => t = start_timer_node
               /\ \A i \in DOMAIN stack :
                     place[i] = "begin" /\ stack[i].call \in EarlyCall

\* The handler of a network change begins.
Noticing(i) == place[i] = "begin" /\ stack[i].call = mqtt_event_node[NET_CHANGE]

Tries(i) ==
    \/ place[i] \in {"net_change", "close_up", "closing_up", "open", "opening"}
    \/ Noticing(i)

Tells(i) ==
    place[i] \in {"close_up", "closing_up", "open", "opening", "close_down",
                  "closing_down", "report"}

Looks(i) == Tells(i) \/ place[i] = "net_change" \/ Noticing(i)

RetryArmed == is_node_in(timer_list, retry_timer_node)

Trying ==
    inited /\ network_up =>
        \/ mqtt_connected \/ RetryArmed \/ NetChangeOwed
        \/ \E i \in DOMAIN stack : Tries(i)

TellsConnection ==
    (reported.mqtt <=> mqtt_connected) \/ \E i \in DOMAIN stack : Tells(i)

TellsNetwork ==
    inited => \/ reported.net <=> network_up
              \/ NetChangeOwed
              \/ \E i \in DOMAIN stack : Looks(i)

MqttInv ==
    /\ Inv /\ MqttTypeOK /\ Places /\ Started
    /\ OnlyInnermostWaits /\ MainKeepsRunning
    /\ Trying /\ TellsConnection /\ TellsNetwork

(***************************************************************************)
(* What single steps do to the frames and the places                       *)
(***************************************************************************)

\* The frames and the places as sequences of the same length.
Sized ==
    /\ stack \in Seq(Frame) /\ place \in Seq(Place) /\ Len(place) = Len(stack)
    /\ DOMAIN stack = 1 .. Len(stack) /\ DOMAIN place = 1 .. Len(stack)
    /\ Len(stack) \in Nat

LEMMA SizedHolds == Inv /\ MqttTypeOK => Sized
BY DEF Inv, TypeOK, MqttTypeOK, Sized

\* The handler of the innermost activation goes to another place; the frames and
\* places below are as they were.
Goes(n, p) ==
    /\ n \in DOMAIN stack /\ n \in DOMAIN stack' /\ DOMAIN stack \subseteq DOMAIN stack'
    /\ place'[n] = p
    /\ \A i \in DOMAIN stack : i # n =>
          place'[i] = place[i] /\ stack'[i].call = stack[i].call

\* What others still have to do remains.
LEMMA GoesKeeps ==
    ASSUME NEW n, NEW p, Goes(n, p)
    PROVE  /\ (\E i \in DOMAIN stack : Tries(i)) => Tries(n) \/ \E i \in DOMAIN stack' : Tries(i)'
           /\ (\E i \in DOMAIN stack : Tells(i)) => Tells(n) \/ \E i \in DOMAIN stack' : Tells(i)'
           /\ (\E i \in DOMAIN stack : Looks(i)) => Looks(n) \/ \E i \in DOMAIN stack' : Looks(i)'
           /\ Tries(n)' => \E i \in DOMAIN stack' : Tries(i)'
           /\ Tells(n)' => \E i \in DOMAIN stack' : Tells(i)'
           /\ Looks(n)' => \E i \in DOMAIN stack' : Looks(i)'
<1>1. \A i \in DOMAIN stack : i # n =>
         /\ Tries(i)' <=> Tries(i)
         /\ Tells(i)' <=> Tells(i)
         /\ Looks(i)' <=> Looks(i)
  BY DEF Goes, Tries, Tells, Looks, Noticing
<1>2. n \in DOMAIN stack' /\ \A i \in DOMAIN stack : i \in DOMAIN stack'
  BY DEF Goes
<1> QED
  BY <1>1, <1>2

\* A handler's step inside its activation: the operations it may call there
\* change no call.
LEMMA SameFrames ==
    ASSUME Inv, UNCHANGED vars \/ Retry \/ CancelRetry \/ a_eventloop_break
    PROVE  /\ Inv' /\ stack' \in Seq(Frame) /\ Len(stack') = Len(stack)
           /\ \A i \in 1 .. Len(stack) : stack'[i].call = stack[i].call
           /\ UNCHANGED <<events, pending_events, event_list>>
<1> USE MqttNodes
<1>1. stack \in Seq(Frame)
  BY DEF Inv, TypeOK
<1>2. CASE UNCHANGED vars
  <2>1. Inv'
    BY <1>2, NextInv
  <2> QED
    BY <1>1, <1>2, <2>1 DEF vars
<1>3. CASE Retry
  <2>1. Inv'
    BY <1>3, ClientStepInv DEF Retry, TimerOperation
  <2>2. stack' = Rearm(stack, retry_timer_node) /\ UNCHANGED <<events, pending_events, event_list>>
    BY <1>3 DEF Retry, a_eventloop_register_timer, flagVars
  <2> QED
    BY <1>1, <2>1, <2>2, RearmFrames
<1>4. CASE CancelRetry
  <2>1. Inv'
    BY <1>4, ClientStepInv DEF CancelRetry, TimerOperation
  <2>2. UNCHANGED <<events, pending_events, event_list, stack>>
    BY <1>4 DEF CancelRetry, a_eventloop_deregister_timer, flagVars
  <2> QED
    BY <1>1, <2>1, <2>2
<1>5. CASE a_eventloop_break
  <2>1. Inv'
    BY <1>5, ClientStepInv
  <2>2. UNCHANGED <<events, pending_events, event_list, stack>>
    BY <1>5 DEF a_eventloop_break, flagVars, listVars
  <2> QED
    BY <1>1, <2>1, <2>2
<1> QED
  BY <1>2, <1>3, <1>4, <1>5

\* The step's places.
LEMMA GoToPlaces ==
    ASSUME Sized, stack # <<>>, NEW p \in Place, GoTo(p), NEW n, n = Len(stack)
    PROVE  /\ place' \in Seq(Place) /\ Len(place') = n
           /\ n \in DOMAIN stack /\ place[Len(place)] = place[n] /\ Top = stack[n]
           /\ place'[n] = p
           /\ \A i \in DOMAIN stack : i # n => place'[i] = place[i]
<1>1. Len(place) = n /\ n \in 1 .. n /\ n \in Nat /\ place # <<>>
  BY DEF Sized
<1>2. /\ [place EXCEPT ![n] = p] \in Seq(Place)
      /\ Len([place EXCEPT ![n] = p]) = Len(place)
      /\ \A j \in 1 .. Len(place) : [place EXCEPT ![n] = p][j] = IF j = n THEN p ELSE place[j]
  BY <1>1, ExceptSeq DEF Sized
<1> QED
  BY <1>1, <1>2 DEF Sized, GoTo, Top

\* No handler has anything left to do that is forgotten (three ways each).
Kept(n) ==
    /\ \/ ~network_up' \/ mqtt_connected' \/ RetryArmed' \/ Tries(n)'
       \/ UNCHANGED <<mqtt_connected, timer_list>> /\ ~Tries(n)
    /\ \/ Tells(n)' \/ (reported'.mqtt <=> mqtt_connected')
       \/ UNCHANGED <<mqtt_connected, reported>> /\ ~Tells(n)
    /\ \/ Looks(n)' \/ (reported'.net <=> network_up')
       \/ UNCHANGED reported /\ ~Looks(n)

LEMMA KeptInv ==
    ASSUME MqttInv, NEW n, NEW p, Goes(n, p), Kept(n),
           UNCHANGED <<inited, networkVars>>,
           NetChangeOwed => NetChangeOwed' \/ (Tries(n)' /\ Looks(n)')
    PROVE  Trying' /\ TellsConnection' /\ TellsNetwork'
<1>1. UNCHANGED <<inited, network_up>>
  BY DEF networkVars
<1>2. Trying'
  <2> SUFFICES ASSUME inited, network_up
               PROVE  \/ mqtt_connected' \/ RetryArmed' \/ NetChangeOwed'
                      \/ \E i \in DOMAIN stack' : Tries(i)'
    BY <1>1 DEF Trying
  <2>1. mqtt_connected \/ RetryArmed \/ NetChangeOwed \/ \E i \in DOMAIN stack : Tries(i)
    BY DEF MqttInv, Trying
  <2>2. UNCHANGED timer_list => RetryArmed' = RetryArmed
    BY DEF RetryArmed, is_node_in
  <2> QED
    BY <1>1, <2>1, <2>2, GoesKeeps DEF Kept
<1>3. TellsConnection'
  <2>1. (reported.mqtt <=> mqtt_connected) \/ \E i \in DOMAIN stack : Tells(i)
    BY DEF MqttInv, TellsConnection
  <2> QED
    BY <2>1, GoesKeeps DEF Kept, TellsConnection
<1>4. TellsNetwork'
  <2> SUFFICES ASSUME inited
               PROVE  \/ reported'.net <=> network_up'
                      \/ NetChangeOwed'
                      \/ \E i \in DOMAIN stack' : Looks(i)'
    BY <1>1 DEF TellsNetwork
  <2>1. (reported.net <=> network_up) \/ NetChangeOwed \/ \E i \in DOMAIN stack : Looks(i)
    BY DEF MqttInv, TellsNetwork
  <2> QED
    BY <1>1, <2>1, GoesKeeps DEF Kept
<1> QED
  BY <1>2, <1>3, <1>4

\* The fields of the object, the library and the network have their types.
FieldTypes ==
    /\ inited \in BOOLEAN /\ network_up \in BOOLEAN /\ net_callback \in BOOLEAN
    /\ session \in BOOLEAN /\ answers \subseteq Answer
    /\ mqtt_connected \in BOOLEAN
    /\ mqtt_pending_event_bitmap \subseteq Answer
    /\ mqtt_interruptable_event_bitmap \subseteq Answer
    /\ reported \in [net : BOOLEAN, mqtt : BOOLEAN]

LEMMA TypesSplit == MqttTypeOK <=> FieldTypes /\ place \in Seq(Place) /\ Len(place) = Len(stack)
BY DEF MqttTypeOK, FieldTypes

\* A step of a handler that stays in its activation.
LEMMA HandlerInv ==
    ASSUME MqttInv, inited, stack # <<>>, Top.call # NULL, NEW n, n = Len(stack),
           NEW p \in Place \ Waits, GoTo(p),
           UNCHANGED vars \/ Retry \/ CancelRetry \/ a_eventloop_break,
           UNCHANGED <<inited, networkVars>>,
           FieldTypes', loop_stop' => loop_stop \/ Len(stack) > 1,
           \/ mqtt_interruptable_event_bitmap' = {}
           \/ UNCHANGED mqtt_interruptable_event_bitmap /\ place[n] \notin Waits,
           Goes(n, p) => Kept(n)
    PROVE  MqttInv'
<1>0. Inv /\ MqttTypeOK /\ Places /\ Started /\ OnlyInnermostWaits /\ MainKeepsRunning
  BY DEF MqttInv
<1>1. Sized
  BY <1>0, SizedHolds
<1>2. /\ Inv' /\ stack' \in Seq(Frame) /\ Len(stack') = Len(stack)
      /\ \A i \in 1 .. Len(stack) : stack'[i].call = stack[i].call
      /\ UNCHANGED <<events, pending_events, event_list>>
  BY <1>0, SameFrames
<1>3. /\ place' \in Seq(Place) /\ Len(place') = n
      /\ n \in DOMAIN stack /\ place[Len(place)] = place[n] /\ Top = stack[n]
      /\ place'[n] = p
      /\ \A i \in DOMAIN stack : i # n => place'[i] = place[i]
  BY <1>1, GoToPlaces
<1>4. DOMAIN stack' = DOMAIN stack /\ \A i \in DOMAIN stack : stack'[i].call = stack[i].call
  BY <1>1, <1>2 DEF Sized
<1>5. Goes(n, p)
  BY <1>3, <1>4 DEF Goes
<1>6. Trying' /\ TellsConnection' /\ TellsNetwork'
  <2>1. NetChangeOwed => NetChangeOwed'
    BY <1>2 DEF NetChangeOwed, networkVars
  <2> QED
    BY <1>5, <2>1, KeptInv
<1>7. MqttTypeOK'
  BY <1>2, <1>3 DEF MqttTypeOK, FieldTypes
<1>8. Places'
  BY <1>0, <1>2, <1>3, <1>4 DEF Places
<1>9. Started'
  BY DEF Started
<1>10. OnlyInnermostWaits'
  <2>1. CASE mqtt_interruptable_event_bitmap' = {}
    BY <2>1 DEF OnlyInnermostWaits
  <2>2. CASE UNCHANGED mqtt_interruptable_event_bitmap /\ place[n] \notin Waits
                 /\ mqtt_interruptable_event_bitmap # {}
    <3>1. PICK i \in DOMAIN stack :
             /\ place[i] \in Waits
             /\ mqtt_interruptable_event_bitmap = Awaited(place[i]) \cup {DISCONNECTED}
             /\ \A j \in DOMAIN stack : j > i => place[j] \notin Waits
      BY <1>0, <2>2 DEF OnlyInnermostWaits
    <3>2. i # n /\ i \in DOMAIN stack' /\ place'[i] = place[i]
      BY <1>3, <1>4, <2>2, <3>1
    <3>3. \A j \in DOMAIN stack' : j > i => place'[j] \notin Waits
      BY <1>3, <1>4, <3>1
    <3>4. Awaited(place'[i]) = Awaited(place[i])
      BY <3>2
    <3> QED
      BY <2>2, <3>1, <3>2, <3>3, <3>4 DEF OnlyInnermostWaits
  <2> QED
    BY <2>1, <2>2
<1>11. MainKeepsRunning'
  BY <1>0, <1>2 DEF MainKeepsRunning
<1> QED
  BY <1>2, <1>6, <1>7, <1>8, <1>9, <1>10, <1>11 DEF MqttInv

\* The frames and places of a handler that waits, and of the activation it enters.
LEMMA EnterShape ==
    ASSUME Sized, stack # <<>>, NEW n, n = Len(stack), NEW p \in Waits, NEW k,
           mqtt_inner_event_loop(k, p)
    PROVE  /\ Len(stack') = n + 1 /\ n \in Nat
           /\ DOMAIN stack' = 1 .. n + 1 /\ DOMAIN stack = 1 .. n /\ n \in 1 .. n
           /\ stack'[n + 1].call = NULL
           /\ \A i \in DOMAIN stack : stack'[i].call = stack[i].call
           /\ Top = stack[n]
           /\ place' \in Seq(Place) /\ Len(place') = n + 1
           /\ place'[n] = p /\ place'[n + 1] = "begin"
           /\ \A i \in DOMAIN stack : i # n => place'[i] = place[i]
           /\ UNCHANGED <<events, pending_events>>
<1>1. Sized
  OBVIOUS
<1>2. /\ a_eventloop(FALSE)
      /\ place' = Append([place EXCEPT ![Len(place)] = p], "begin")
  BY DEF mqtt_inner_event_loop
<1>3. /\ stack' = Append(stack, Waiting(FALSE)) /\ Waiting(FALSE).call = NULL
      /\ UNCHANGED <<events, pending_events>>
  BY <1>2 DEF a_eventloop, flagVars, Waiting
<1>5. /\ Len(stack') = n + 1 /\ n \in Nat
      /\ DOMAIN stack' = 1 .. n + 1 /\ DOMAIN stack = 1 .. n /\ n \in 1 .. n
      /\ stack'[n + 1].call = NULL
      /\ \A i \in DOMAIN stack : stack'[i].call = stack[i].call
      /\ Top = stack[n]
  <2>1. Waiting(FALSE) \in Frame
    BY DEF Frame, Waiting
  <2>2. /\ Len(stack') = Len(stack) + 1
        /\ DOMAIN stack' = 1 .. Len(stack) + 1
        /\ stack'[Len(stack) + 1] = Waiting(FALSE)
        /\ \A i \in 1 .. Len(stack) : stack'[i] = stack[i]
    BY <1>1, <1>3, <2>1, PushFrames DEF Sized
  <2> QED
    <3>1. n \in Nat /\ n \in 1 .. n /\ DOMAIN stack = 1 .. n /\ Top = stack[n]
      BY <1>1 DEF Sized, Top
    <3>2. \A i \in DOMAIN stack : stack'[i].call = stack[i].call
      BY <2>2, <3>1
    <3>3. stack'[n + 1].call = NULL
      BY <1>3, <2>2
    <3> QED
      BY <2>2, <3>1, <3>2, <3>3
<1>6. /\ place' \in Seq(Place) /\ Len(place') = n + 1
      /\ place'[n] = p /\ place'[n + 1] = "begin"
      /\ \A i \in DOMAIN stack : i # n => place'[i] = place[i]
  <2> DEFINE q == [place EXCEPT ![Len(place)] = p]
  <2>1. Len(place) = n /\ p \in Place /\ "begin" \in Place
    BY <1>1 DEF Sized, Place
  <2>2. q \in Seq(Place) /\ Len(q) = n /\ \A j \in 1 .. n : q[j] = IF j = n THEN p ELSE place[j]
    BY <1>1, <1>5, <2>1, ExceptSeq DEF Sized
  <2>3. place' = Append(q, "begin")
    BY <1>2
  <2> HIDE DEF q
  <2>4. /\ place' \in Seq(Place) /\ Len(place') = Len(q) + 1
        /\ \A i \in 1 .. Len(q) : place'[i] = q[i]
        /\ place'[Len(q) + 1] = "begin"
    BY <2>1, <2>2, <2>3, AppendProperties
  <2> QED
    BY <1>5, <2>2, <2>4
<1> QED
  BY <1>3, <1>5, <1>6

\* A handler that waits enters the loop.
LEMMA WaitsInv ==
    ASSUME MqttInv, inited, stack # <<>>, Top.call # NULL, NEW n, n = Len(stack),
           NEW p \in Waits, NEW k \in Answer, Awaited(p) \cup {DISCONNECTED} = {DISCONNECTED, k},
           mqtt_inner_event_loop(k, p),
           UNCHANGED <<inited, networkVars>>,
           FieldTypes',
           Goes(n, p) => Kept(n)
    PROVE  MqttInv'
<1>0. Inv /\ MqttTypeOK /\ Places /\ Started /\ OnlyInnermostWaits /\ MainKeepsRunning
  BY DEF MqttInv
<1>1. Sized
  BY <1>0, SizedHolds
<1>2. /\ a_eventloop(FALSE)
      /\ place' = Append([place EXCEPT ![Len(place)] = p], "begin")
      /\ mqtt_interruptable_event_bitmap' = {DISCONNECTED, k}
  BY DEF mqtt_inner_event_loop
<1>3. /\ stack' = Append(stack, Waiting(FALSE)) /\ Waiting(FALSE).call = NULL
      /\ UNCHANGED <<events, pending_events, event_list, loop_stop>>
  BY <1>2 DEF a_eventloop, flagVars, listVars, Waiting
<1>4. Inv'
  BY <1>0, <1>2, EnterInv DEF EnterLoop
<1>5. /\ Len(stack') = n + 1 /\ n \in Nat
      /\ DOMAIN stack' = 1 .. n + 1 /\ DOMAIN stack = 1 .. n /\ n \in 1 .. n
      /\ stack'[n + 1].call = NULL
      /\ \A i \in DOMAIN stack : stack'[i].call = stack[i].call
      /\ Top = stack[n]
  BY <1>1, EnterShape
<1>6. /\ place' \in Seq(Place) /\ Len(place') = n + 1
      /\ place'[n] = p /\ place'[n + 1] = "begin"
      /\ \A i \in DOMAIN stack : i # n => place'[i] = place[i]
  BY <1>1, EnterShape
<1>7. Goes(n, p)
  BY <1>5, <1>6 DEF Goes
<1>8. Trying' /\ TellsConnection' /\ TellsNetwork'
  <2>1. NetChangeOwed => NetChangeOwed'
    BY <1>3 DEF NetChangeOwed, networkVars
  <2> QED
    BY <1>7, <2>1, KeptInv
<1>9. MqttTypeOK'
  BY <1>5, <1>6 DEF MqttTypeOK, FieldTypes
<1>10. Places'
  <2>1. ASSUME NEW i \in 1 .. n + 1, i < n + 1 PROVE place'[i] \in Waits
    <3>1. i \in DOMAIN stack /\ (i # n => i < Len(stack))
      BY <1>5, <2>1
    <3> QED
      BY <1>0, <1>6, <3>1 DEF Places
  <2>2. ASSUME NEW i \in 1 .. n + 1, stack'[i].call = NULL PROVE place'[i] = "begin"
    <3>1. CASE i = n + 1
      BY <1>6, <3>1
    <3>2. CASE i # n + 1
      <4>1. i \in DOMAIN stack /\ stack[i].call = NULL
        BY <1>5, <2>2, <3>2
      <4>2. i # n
        BY <1>5, <4>1
      <4> QED
        BY <1>0, <1>6, <4>1, <4>2 DEF Places
    <3> QED
      BY <3>1, <3>2
  <2> QED
    BY <1>5, <2>1, <2>2 DEF Places
<1>11. Started'
  BY DEF Started
<1>12. OnlyInnermostWaits'
  <2>1. n \in DOMAIN stack' /\ place'[n] \in Waits
    BY <1>5, <1>6
  <2>2. mqtt_interruptable_event_bitmap' = Awaited(place'[n]) \cup {DISCONNECTED}
    BY <1>2, <1>6
  <2>3. \A j \in DOMAIN stack' : j > n => place'[j] \notin Waits
    <3>1. \A j \in DOMAIN stack' : j > n => j = n + 1
      BY <1>5
    <3>2. "begin" \notin Waits
      BY MqttNodes DEF Waits
    <3> QED
      BY <1>6, <3>1, <3>2
  <2> QED
    BY <2>1, <2>2, <2>3 DEF OnlyInnermostWaits
<1>13. MainKeepsRunning'
  <2>1. n + 1 > 1
    BY <1>5
  <2> QED
    BY <1>5, <2>1 DEF MainKeepsRunning
<1> QED
  BY <1>4, <1>8, <1>9, <1>10, <1>11, <1>12, <1>13 DEF MqttInv

(***************************************************************************)
(* The handlers                                                            *)
(***************************************************************************)

\* Where a handler stands, as the lemmas above take it.
LEMMA Stands ==
    ASSUME MqttInv, NEW q, At(q)
    PROVE  /\ stack # <<>> /\ Top.call # NULL
           /\ Len(stack) \in DOMAIN stack
           /\ place[Len(stack)] = q /\ Top = stack[Len(stack)]
           /\ FieldTypes /\ Len(stack) \in Nat
<1>1. Sized /\ FieldTypes
  BY SizedHolds, TypesSplit DEF MqttInv
<1>2. stack # <<>> /\ Top.call # NULL /\ place[Len(place)] = q
  BY DEF At
<1>3. Len(stack) \in 1 .. Len(stack)
  BY <1>1, <1>2 DEF Sized
<1> QED
  BY <1>1, <1>2, <1>3 DEF Sized, Top

\* Nodes of different events are different, and no timer's.
LEMMA Nodes ==
    /\ \A k \in Kind : mqtt_event_node[k] \in EventNode \ AppEvent
    /\ \A k \in Answer : mqtt_event_node[k] # mqtt_event_node[NET_CHANGE]
    /\ retry_timer_node \in TimerNode
    /\ \A k \in Kind : retry_timer_node # mqtt_event_node[k]
    /\ start_timer_node \in TimerNode /\ start_timer_node # retry_timer_node
    /\ \A k \in Kind : start_timer_node # mqtt_event_node[k]
    /\ start_timer_node # NULL
    /\ \A k \in Kind : mqtt_event_node[k] # NULL
    /\ NULL \notin AppEvent
    /\ NET_CHANGE \in Kind /\ Answer \subseteq Kind /\ NET_CHANGE \notin Answer
<1> USE MqttNodes, NodesDistinct
<1>1. NET_CHANGE \in Kind /\ Answer \subseteq Kind /\ NET_CHANGE \notin Answer
  BY DEF Kind, Answer, NET_CHANGE, CONNECT_REQ, DISCONNECTED
<1>2. \A k \in Answer : mqtt_event_node[k] # mqtt_event_node[NET_CHANGE]
  BY <1>1 DEF IsInjective
<1>3. \A k \in Kind : mqtt_event_node[k] \in EventNode \ AppEvent
  OBVIOUS
<1> QED
  BY <1>1, <1>2, <1>3

\* What the places mean, told by their names.
LEMMA PlaceNames ==
    /\ "begin" \in Place \ Waits /\ "net_change" \in Place \ Waits
    /\ "close_up" \in Place \ Waits /\ "close_down" \in Place \ Waits
    /\ "open" \in Place \ Waits /\ "report" \in Place \ Waits /\ "done" \in Place \ Waits
    /\ "closing_up" \in Waits /\ "closing_down" \in Waits /\ "opening" \in Waits
    /\ Request \subseteq Waits /\ Waits \subseteq Place
    /\ Awaited("closing_up") \cup {DISCONNECTED} = {DISCONNECTED, DISCONNECTED}
    /\ Awaited("closing_down") \cup {DISCONNECTED} = {DISCONNECTED, DISCONNECTED}
    /\ Awaited("opening") \cup {DISCONNECTED} = {DISCONNECTED, CONNECT_REQ}
    /\ \A k \in Request : Awaited(k) \cup {DISCONNECTED} = {DISCONNECTED, k}
    /\ CONNECT_REQ \in Answer /\ DISCONNECTED \in Answer /\ Request \subseteq Answer
BY MqttNodes DEF Place, Waits, Awaited, Answer, CONNECT_REQ, DISCONNECTED

\* The retry timer's handler.
LEMMA RetryCallbackInv == ASSUME MqttInv, inited, mqtt_retry_cb PROVE MqttInv'
<1>1. /\ At("begin") /\ CancelRetry /\ GoTo("net_change")
      /\ UNCHANGED <<inited, networkVars, libraryVars, objectVars>>
  BY DEF mqtt_retry_cb, Begins
<1> PICK n : n = Len(stack)
  OBVIOUS
<1>2. stack # <<>> /\ Top.call # NULL /\ place[n] = "begin" /\ FieldTypes
  BY <1>1, Stands
<1>3. FieldTypes' /\ UNCHANGED <<loop_stop, mqtt_interruptable_event_bitmap>>
  BY <1>1, <1>2 DEF FieldTypes, networkVars, libraryVars, objectVars, bitmapVars, CancelRetry,
                    a_eventloop_deregister_timer
<1>4. ASSUME Goes(n, "net_change") PROVE Kept(n)
  <2>1. place'[n] = "net_change" /\ UNCHANGED <<mqtt_connected, reported>>
    BY <1>1, <1>4 DEF Goes, objectVars
  <2> QED
    BY <1>2, <2>1 DEF Kept, Tries, Tells, Looks
<1> QED
  BY <1>1, <1>2, <1>3, <1>4, PlaceNames, HandlerInv

\* event_net_change begins.
LEMMA NetChangeInv == ASSUME MqttInv, inited, net_is_up \/ net_is_down PROVE MqttInv'
<1> PICK n : n = Len(stack)
  OBVIOUS
<1>1. stack # <<>> /\ Top.call # NULL /\ place[n] \in {"begin", "net_change"} /\ FieldTypes
  BY Stands DEF net_is_up, net_is_down, NetChange, Begins
<1>2. CASE net_is_up
  <2>1. PICK p \in {"close_up", "open"} :
           /\ GoTo(p) /\ mqtt_connected' = FALSE
           /\ UNCHANGED <<vars, inited, networkVars, libraryVars, bitmapVars, reported>>
    BY <1>2 DEF net_is_up
  <2>2. FieldTypes' /\ UNCHANGED <<vars, loop_stop, mqtt_interruptable_event_bitmap>>
    BY <1>1, <2>1 DEF FieldTypes, networkVars, libraryVars, bitmapVars, vars
  <2>3. ASSUME Goes(n, p) PROVE Kept(n)
    <3>1. place'[n] \in {"close_up", "open"}
      BY <2>3 DEF Goes
    <3> QED
      BY <3>1 DEF Kept, Tries, Tells, Looks
  <2>4. p \in Place \ Waits /\ place[n] \notin Waits
    BY <1>1, PlaceNames
  <2> QED
    BY <1>1, <2>1, <2>2, <2>3, <2>4, HandlerInv
<1>3. CASE net_is_down
  <2>1. PICK p \in {"close_down", "report"} :
           /\ GoTo(p) /\ mqtt_connected' = FALSE /\ CancelRetry /\ ~network_up
           /\ UNCHANGED <<inited, networkVars, libraryVars, bitmapVars, reported>>
    BY <1>3 DEF net_is_down
  <2>2. FieldTypes' /\ UNCHANGED <<loop_stop, mqtt_interruptable_event_bitmap>>
    BY <1>1, <2>1 DEF FieldTypes, networkVars, libraryVars, bitmapVars, CancelRetry,
                      a_eventloop_deregister_timer
  <2>3. ASSUME Goes(n, p) PROVE Kept(n)
    <3>1. place'[n] \in {"close_down", "report"} /\ ~network_up'
      BY <2>1, <2>3 DEF Goes, networkVars
    <3> QED
      BY <3>1 DEF Kept, Tells, Looks
  <2>4. p \in Place \ Waits /\ place[n] \notin Waits
    BY <1>1, PlaceNames
  <2> QED
    BY <1>1, <2>1, <2>2, <2>3, <2>4, HandlerInv
<1> QED
  BY <1>2, <1>3

\* mqtt_app_close is asked for, or refused.
LEMMA CloseInv == ASSUME MqttInv, inited, NEW q, mqtt_app_close(q) PROVE MqttInv'
<1> PICK n : n = Len(stack)
  OBVIOUS
<1>1. /\ At(q) /\ q \in {"close_up", "close_down"}
      /\ UNCHANGED <<inited, networkVars, mqtt_connected, reported>>
  BY DEF mqtt_app_close
<1>2. stack # <<>> /\ Top.call # NULL /\ place[n] = q /\ FieldTypes
  BY <1>1, Stands
<1>3. ASSUME session' = FALSE, answers' = answers \cup {DISCONNECTED},
             mqtt_inner_event_loop(DISCONNECTED, IF q = "close_up" THEN "closing_up"
                                                 ELSE "closing_down")
      PROVE  MqttInv'
  <2>1. PICK p : p = (IF q = "close_up" THEN "closing_up" ELSE "closing_down")
    OBVIOUS
  <2>2. p \in Waits /\ Awaited(p) \cup {DISCONNECTED} = {DISCONNECTED, DISCONNECTED}
    BY <2>1, PlaceNames
  <2>3. FieldTypes'
    BY <1>1, <1>2, <1>3, PlaceNames DEF FieldTypes, networkVars, mqtt_inner_event_loop
  <2>4. ASSUME Goes(n, p) PROVE Kept(n)
    <3>1. place'[n] = p /\ UNCHANGED <<mqtt_connected, reported, timer_list>>
      BY <1>1, <1>3, <2>4 DEF Goes, mqtt_inner_event_loop, a_eventloop, listVars
    <3>2. CASE q = "close_up"
      BY <2>1, <3>1, <3>2 DEF Kept, Tries, Tells, Looks
    <3>3. CASE q = "close_down"
      BY <1>2, <2>1, <3>1, <3>3 DEF Kept, Tries, Tells, Looks, Noticing
    <3> QED
      BY <1>1, <3>2, <3>3
  <2>5. mqtt_inner_event_loop(DISCONNECTED, p)
    BY <1>3, <2>1
  <2> QED
    BY <1>1, <1>2, <2>2, <2>3, <2>4, <2>5, PlaceNames, WaitsInv
<1>4. ASSUME GoTo(AfterClose(q)), UNCHANGED <<vars, libraryVars, bitmapVars>>
      PROVE  MqttInv'
  <2>1. PICK p : p = (IF q = "close_up" THEN "open" ELSE "report")
    OBVIOUS
  <2>2. GoTo(p) /\ p \in Place \ Waits /\ place[n] \notin Waits
    BY <1>1, <1>2, <1>4, <2>1, PlaceNames DEF AfterClose
  <2>3. FieldTypes' /\ UNCHANGED <<vars, loop_stop, mqtt_interruptable_event_bitmap>>
    BY <1>1, <1>2, <1>4 DEF FieldTypes, networkVars, libraryVars, bitmapVars, vars
  <2>4. ASSUME Goes(n, p) PROVE Kept(n)
    <3>1. place'[n] = p /\ UNCHANGED <<mqtt_connected, reported, timer_list>>
      BY <1>1, <1>4, <2>4 DEF Goes, vars
    <3>2. CASE q = "close_up"
      BY <2>1, <3>1, <3>2 DEF Kept, Tries, Tells, Looks
    <3>3. CASE q = "close_down"
      BY <1>2, <2>1, <3>1, <3>3 DEF Kept, Tries, Tells, Looks, Noticing
    <3> QED
      BY <1>1, <3>2, <3>3
  <2> QED
    BY <1>1, <1>2, <2>2, <2>3, <2>4, HandlerInv
<1> QED
  BY <1>3, <1>4 DEF mqtt_app_close

\* and returns.
LEMMA CloseReturnsInv == ASSUME MqttInv, inited, NEW q, close_returns(q) PROVE MqttInv'
<1> PICK n : n = Len(stack)
  OBVIOUS
<1>1. /\ At(q) /\ q \in {"closing_up", "closing_down"} /\ GoTo(AfterClose(q))
      /\ mqtt_interruptable_event_bitmap' = {}
      /\ UNCHANGED <<vars, inited, networkVars, libraryVars, mqtt_connected,
                     mqtt_pending_event_bitmap, reported>>
  BY DEF close_returns, inner_loop_returns
<1>2. stack # <<>> /\ Top.call # NULL /\ place[n] = q /\ FieldTypes
  BY <1>1, Stands
<1>3. PICK p : p = (IF q = "closing_up" THEN "open" ELSE "report")
  OBVIOUS
<1>4. GoTo(p) /\ p \in Place \ Waits
  BY <1>1, <1>3, PlaceNames DEF AfterClose
<1>5. FieldTypes' /\ UNCHANGED <<vars, loop_stop>>
  BY <1>1, <1>2 DEF FieldTypes, networkVars, libraryVars, vars
<1>6. ASSUME Goes(n, p) PROVE Kept(n)
  <2>1. place'[n] = p /\ UNCHANGED <<mqtt_connected, reported, timer_list>>
    BY <1>1, <1>6 DEF Goes, vars
  <2>2. CASE q = "closing_up"
    BY <1>3, <2>1, <2>2 DEF Kept, Tries, Tells, Looks
  <2>3. CASE q = "closing_down"
    BY <1>2, <1>3, <2>1, <2>3 DEF Kept, Tries, Tells, Looks, Noticing
  <2> QED
    BY <1>1, <2>2, <2>3
<1> QED
  BY <1>1, <1>2, <1>4, <1>5, <1>6, HandlerInv

\* The retry's timer is registered.
LEMMA RetryArms == ASSUME Inv, Retry PROVE RetryArmed' /\ UNCHANGED loop_stop
<1>1. /\ timer_list' = insert_node_safe(timer_list, retry_timer_node)
      /\ UNCHANGED loop_stop
  BY DEF Retry, a_eventloop_register_timer
<1>2. timer_list \in Seq(TimerNode) /\ retry_timer_node \in TimerNode
  BY MqttNodes DEF Inv, TypeOK
<1>3. CASE is_node_in(timer_list, retry_timer_node)
  BY <1>1, <1>3 DEF insert_node_safe, RetryArmed, is_node_in
<1>4. CASE ~is_node_in(timer_list, retry_timer_node)
  <2>1. timer_list' = <<retry_timer_node>> \o timer_list
    BY <1>1, <1>4 DEF insert_node_safe
  <2>2. 1 \in DOMAIN timer_list' /\ timer_list'[1] = retry_timer_node
    BY <1>2, <2>1
  <2> QED
    BY <1>1, <2>2 DEF RetryArmed, is_node_in
<1> QED
  BY <1>1, <1>3, <1>4

\* A connection is asked for, or cannot be.
LEMMA OpenInv == ASSUME MqttInv, inited, mqtt_app_open PROVE MqttInv'
<1> PICK n : n = Len(stack)
  OBVIOUS
<1>1. At("open") /\ UNCHANGED <<inited, networkVars, mqtt_connected, reported>>
  BY DEF mqtt_app_open
<1>2. stack # <<>> /\ Top.call # NULL /\ place[n] = "open" /\ FieldTypes
  BY <1>1, Stands
<1>3. ASSUME session' = TRUE, answers' = answers \cup {CONNECT_REQ},
             mqtt_inner_event_loop(CONNECT_REQ, "opening")
      PROVE  MqttInv'
  <2>1. FieldTypes'
    BY <1>1, <1>2, <1>3, PlaceNames DEF FieldTypes, networkVars, mqtt_inner_event_loop
  <2>2. ASSUME Goes(n, "opening") PROVE Kept(n)
    <3>1. place'[n] = "opening"
      BY <2>2 DEF Goes
    <3> QED
      BY <3>1 DEF Kept, Tries, Tells, Looks
  <2> QED
    BY <1>1, <1>2, <1>3, <2>1, <2>2, PlaceNames, WaitsInv
<1>4. ASSUME Retry, GoTo("report"), UNCHANGED <<libraryVars, bitmapVars>>
      PROVE  MqttInv'
  <2>1. RetryArmed' /\ UNCHANGED loop_stop
    BY <1>4, RetryArms DEF MqttInv
  <2>2. FieldTypes' /\ UNCHANGED mqtt_interruptable_event_bitmap
    BY <1>1, <1>2, <1>4 DEF FieldTypes, networkVars, libraryVars, bitmapVars
  <2>3. ASSUME Goes(n, "report") PROVE Kept(n)
    <3>1. place'[n] = "report"
      BY <2>3 DEF Goes
    <3> QED
      BY <2>1, <3>1 DEF Kept, Tells, Looks
  <2>4. place[n] \notin Waits
    BY <1>2, PlaceNames
  <2> QED
    BY <1>1, <1>2, <1>4, <2>1, <2>2, <2>3, <2>4, PlaceNames, HandlerInv
<1> QED
  BY <1>3, <1>4 DEF mqtt_app_open

\* The connection is answered, or the retry armed.
LEMMA OpenReturnsInv == ASSUME MqttInv, inited, open_returns PROVE MqttInv'
<1> PICK n : n = Len(stack)
  OBVIOUS
<1>1. /\ At("opening") /\ GoTo("report") /\ mqtt_interruptable_event_bitmap' = {}
      /\ UNCHANGED <<inited, networkVars, libraryVars, mqtt_pending_event_bitmap, reported>>
  BY DEF open_returns, inner_loop_returns
<1>2. stack # <<>> /\ Top.call # NULL /\ place[n] = "opening" /\ FieldTypes
  BY <1>1, Stands
<1>3. \/ mqtt_connected' = TRUE /\ UNCHANGED vars
      \/ Retry /\ UNCHANGED mqtt_connected
  BY DEF open_returns
<1>4. (mqtt_connected' \/ RetryArmed') /\ UNCHANGED loop_stop
  BY <1>3, RetryArms DEF MqttInv, vars
<1>5. FieldTypes'
  BY <1>1, <1>2, <1>3 DEF FieldTypes, networkVars, libraryVars
<1>6. ASSUME Goes(n, "report") PROVE Kept(n)
  <2>1. place'[n] = "report"
    BY <1>6 DEF Goes
  <2> QED
    BY <1>4, <2>1 DEF Kept, Tells, Looks
<1> QED
  BY <1>1, <1>2, <1>3, <1>4, <1>5, <1>6, PlaceNames, HandlerInv

\* What is believed is told.
LEMMA ReportInv == ASSUME MqttInv, inited, report PROVE MqttInv'
<1> PICK n : n = Len(stack)
  OBVIOUS
<1>1. /\ At("report") /\ GoTo("done")
      /\ reported' = [net |-> network_up, mqtt |-> mqtt_connected]
      /\ UNCHANGED <<vars, inited, networkVars, libraryVars, mqtt_connected, bitmapVars>>
  BY DEF report
<1>2. stack # <<>> /\ Top.call # NULL /\ place[n] = "report" /\ FieldTypes
  BY <1>1, Stands
<1>3. FieldTypes' /\ UNCHANGED <<loop_stop, timer_list, mqtt_interruptable_event_bitmap>>
  BY <1>1, <1>2 DEF FieldTypes, networkVars, libraryVars, bitmapVars, vars
<1>4. ASSUME Goes(n, "done") PROVE Kept(n)
  <2>1. reported'.mqtt = mqtt_connected' /\ reported'.net = network_up'
    BY <1>1 DEF networkVars
  <2>2. ~Tries(n)
    BY <1>2 DEF Tries, Noticing
  <2> QED
    BY <1>1, <1>3, <2>1, <2>2 DEF Kept
<1>5. place[n] \notin Waits
  BY <1>2, PlaceNames
<1> QED
  BY <1>1, <1>2, <1>3, <1>4, <1>5, PlaceNames, HandlerInv

\* Somebody waits below a handler that begins, when an answer is awaited.
LEMMA WaitsBelow ==
    ASSUME MqttInv, At("begin"), mqtt_interruptable_event_bitmap # {}
    PROVE  Len(stack) > 1
<1>1. PICK i \in DOMAIN stack : place[i] \in Waits
  BY DEF MqttInv, OnlyInnermostWaits
<1>2. place[Len(stack)] = "begin"
  BY Stands
<1>3. i # Len(stack)
  BY <1>1, <1>2, PlaceNames
<1>4. DOMAIN stack = 1 .. Len(stack) /\ Len(stack) \in Nat
  BY SizedHolds DEF MqttInv, Sized
<1> QED
  BY <1>1, <1>3, <1>4

\* An event of the library ends a wait, or tells of a lost connection.
LEMMA EventInv == ASSUME MqttInv, inited, NEW k \in Answer, event_mqtt(k) PROVE MqttInv'
<1> PICK n : n = Len(stack)
  OBVIOUS
<1>1. /\ At("begin") /\ Top.call = mqtt_event_node[k]
      /\ UNCHANGED <<inited, networkVars, libraryVars, mqtt_connected,
                     mqtt_interruptable_event_bitmap, reported>>
  BY DEF event_mqtt, Begins
<1>2. /\ stack # <<>> /\ Top.call # NULL /\ place[n] = "begin" /\ FieldTypes
      /\ stack[n].call = mqtt_event_node[k]
  BY <1>1, Stands
<1>3. place[n] \notin Waits
  BY <1>2, PlaceNames
<1>4. ~Tries(n) /\ ~Tells(n) /\ ~Looks(n)
  BY <1>2, Nodes DEF Tries, Tells, Looks, Noticing
<1>5. CASE interrupt(k)
  <2>1. /\ mqtt_pending_event_bitmap' = {k} /\ a_eventloop_break /\ GoTo("done")
        /\ mqtt_interruptable_event_bitmap # {}
    BY <1>5 DEF interrupt
  <2>2. Len(stack) > 1
    BY <1>1, <2>1, WaitsBelow
  <2>3. FieldTypes'
    BY <1>1, <1>2, <2>1 DEF FieldTypes, networkVars, libraryVars
  <2>4. ASSUME Goes(n, "done") PROVE Kept(n)
    BY <1>1, <1>4, <2>1 DEF Kept, a_eventloop_break, listVars
  <2> QED
    BY <1>1, <1>2, <1>3, <2>1, <2>2, <2>3, <2>4, PlaceNames, HandlerInv
<1>6. CASE CancelRetry /\ GoTo("net_change") /\ UNCHANGED mqtt_pending_event_bitmap
  <2>1. FieldTypes' /\ UNCHANGED loop_stop
    BY <1>1, <1>2, <1>6 DEF FieldTypes, networkVars, libraryVars, CancelRetry,
                            a_eventloop_deregister_timer
  <2>2. ASSUME Goes(n, "net_change") PROVE Kept(n)
    <3>1. place'[n] = "net_change"
      BY <2>2 DEF Goes
    <3> QED
      BY <1>1, <1>4, <3>1 DEF Kept, Tries, Looks
  <2> QED
    BY <1>1, <1>2, <1>3, <1>6, <2>1, <2>2, PlaceNames, HandlerInv
<1>7. CASE GoTo("done") /\ UNCHANGED vars /\ UNCHANGED mqtt_pending_event_bitmap
  <2>1. FieldTypes' /\ UNCHANGED <<vars, loop_stop, timer_list>>
    BY <1>1, <1>2, <1>7 DEF FieldTypes, networkVars, libraryVars, vars
  <2>2. ASSUME Goes(n, "done") PROVE Kept(n)
    BY <1>1, <1>4, <2>1 DEF Kept
  <2> QED
    BY <1>1, <1>2, <1>3, <1>7, <2>1, <2>2, PlaceNames, HandlerInv
<1> QED
  BY <1>5, <1>6, <1>7 DEF event_mqtt

\* A handler of the application makes a request,
LEMMA RequestInv == ASSUME MqttInv, inited, NEW k \in Request, request(k) PROVE MqttInv'
<1> PICK n : n = Len(stack)
  OBVIOUS
<1>1. /\ At("begin") /\ Top.call \in AppEvent
      /\ answers' = answers \cup {k} /\ mqtt_inner_event_loop(k, k)
      /\ UNCHANGED <<inited, networkVars, session, mqtt_connected, reported>>
  BY DEF request, Begins
<1>2. /\ stack # <<>> /\ Top.call # NULL /\ place[n] = "begin" /\ FieldTypes
      /\ stack[n].call \in AppEvent
  BY <1>1, Stands
<1>3. /\ k \in Waits /\ k \in Answer
      /\ Awaited(k) \cup {DISCONNECTED} = {DISCONNECTED, k}
  BY PlaceNames
<1>4. FieldTypes'
  BY <1>1, <1>2, <1>3, PlaceNames DEF FieldTypes, networkVars, mqtt_inner_event_loop
<1>5. ~Tries(n) /\ ~Tells(n) /\ ~Looks(n)
  BY <1>2, Nodes DEF Tries, Tells, Looks, Noticing
<1>6. UNCHANGED timer_list
  BY <1>1 DEF mqtt_inner_event_loop, a_eventloop, listVars
<1>7. Kept(n)
  BY <1>1, <1>5, <1>6 DEF Kept
<1> QED
  BY <1>1, <1>2, <1>3, <1>4, <1>7, WaitsInv

\* which returns.
LEMMA RequestReturnsInv == ASSUME MqttInv, inited, NEW k \in Request, request_returns(k) PROVE MqttInv'
<1> PICK n : n = Len(stack)
  OBVIOUS
<1>1. /\ At(k) /\ mqtt_interruptable_event_bitmap' = {} /\ GoTo("done")
      /\ UNCHANGED <<vars, inited, networkVars, libraryVars, mqtt_connected,
                     mqtt_pending_event_bitmap, reported>>
  BY DEF request_returns, inner_loop_returns
<1>2. stack # <<>> /\ Top.call # NULL /\ place[n] = k /\ FieldTypes
  BY <1>1, Stands
<1>3. FieldTypes' /\ UNCHANGED <<vars, loop_stop, timer_list>>
  BY <1>1, <1>2 DEF FieldTypes, networkVars, libraryVars, vars
<1>4. k \in {"PUBLISHED", "SUBSCRIBED"}
  BY MqttNodes
<1>5. ~Tries(n) /\ ~Tells(n) /\ ~Looks(n)
  BY <1>2, <1>4 DEF Tries, Tells, Looks, Noticing
<1>6. Kept(n)
  BY <1>1, <1>3, <1>5 DEF Kept
<1> QED
  BY <1>1, <1>2, <1>3, <1>6, PlaceNames, HandlerInv

(***************************************************************************)
(* The loop                                                                *)
(***************************************************************************)

\* The innermost activation changes and nothing else, as a step of the loop or
\* the return of a handler leaves it.
LEMMA InnermostStep ==
    ASSUME MqttInv, Inv', NEW n, n = Len(stack), stack # <<>>,
           DOMAIN stack' = DOMAIN stack, Len(stack') = Len(stack),
           \A i \in DOMAIN stack : i # n => stack'[i].call = stack[i].call,
           place' \in Seq(Place), Len(place') = Len(place),
           \A i \in DOMAIN stack : i # n => place'[i] = place[i],
           place'[n] = "begin", place[n] \notin Waits,
           ~Tries(n), ~Tells(n), ~Looks(n),
           UNCHANGED <<inited, networkVars, libraryVars, objectVars, timer_list, event_list,
                       loop_stop>>,
           inited \/ stack'[n].call \in EarlyCall,
           NetChangeOwed => NetChangeOwed' \/ (Tries(n)' /\ Looks(n)')
    PROVE  MqttInv'
<1>0. Inv /\ MqttTypeOK /\ Places /\ Started /\ OnlyInnermostWaits /\ MainKeepsRunning
  BY DEF MqttInv
<1>1. Sized /\ n \in DOMAIN stack /\ FieldTypes
  <2>1. Sized /\ FieldTypes
    BY <1>0, SizedHolds, TypesSplit
  <2> QED
    BY <2>1 DEF Sized
<1>2. Goes(n, "begin")
  BY <1>1 DEF Goes
<1>3. Trying' /\ TellsConnection' /\ TellsNetwork'
  <2>1. Kept(n)
    BY DEF Kept, objectVars
  <2> QED
    BY <1>2, <2>1, KeptInv
<1>4. MqttTypeOK'
  <2>1. FieldTypes'
    BY <1>1 DEF FieldTypes, networkVars, libraryVars, objectVars, bitmapVars
  <2>2. Len(place') = Len(stack')
    BY <1>1 DEF Sized
  <2> QED
    BY <2>1, <2>2 DEF FieldTypes, MqttTypeOK
<1>5. Places'
  <2>1. ASSUME NEW i \in DOMAIN stack, i < Len(stack) PROVE place'[i] \in Waits
    BY <1>0, <2>1 DEF Places
  <2>2. ASSUME NEW i \in DOMAIN stack, stack'[i].call = NULL PROVE place'[i] = "begin"
    BY <1>0, <2>2 DEF Places
  <2> QED
    BY <2>1, <2>2 DEF Places
<1>6. Started'
  <2> SUFFICES ASSUME ~inited PROVE Started'
    BY DEF Started
  <2>1. ~mqtt_connected' /\ ~session' /\ ~reported'.mqtt /\ ~reported'.net
    BY <1>0 DEF Started, libraryVars, objectVars
  <2>2. \A i \in DOMAIN stack' : place'[i] = "begin" /\ stack'[i].call \in EarlyCall
    BY <1>0 DEF Started
  <2> QED
    BY <1>0, <2>1, <2>2 DEF Started, is_node_in
<1>7. OnlyInnermostWaits'
  <2> SUFFICES ASSUME mqtt_interruptable_event_bitmap # {}
               PROVE  OnlyInnermostWaits'
    BY DEF OnlyInnermostWaits, objectVars, bitmapVars
  <2>1. PICK i \in DOMAIN stack :
           /\ place[i] \in Waits
           /\ mqtt_interruptable_event_bitmap = Awaited(place[i]) \cup {DISCONNECTED}
           /\ \A j \in DOMAIN stack : j > i => place[j] \notin Waits
    BY <1>0 DEF OnlyInnermostWaits
  <2>2. i # n /\ i \in DOMAIN stack' /\ place'[i] = place[i]
    BY <2>1
  <2>3. "begin" \notin Waits
    BY PlaceNames
  <2>4. \A j \in DOMAIN stack' : j > i => place'[j] \notin Waits
    BY <2>1, <2>3
  <2>5. Awaited(place'[i]) = Awaited(place[i])
    BY <2>2
  <2> QED
    BY <2>1, <2>2, <2>4, <2>5 DEF OnlyInnermostWaits, objectVars, bitmapVars
<1>8. MainKeepsRunning'
  BY <1>0 DEF MainKeepsRunning
<1> QED
  BY <1>3, <1>4, <1>5, <1>6, <1>7, <1>8 DEF MqttInv

\* The frames after a step that sets the innermost one.
LEMMA SetTopShape ==
    ASSUME Inv, Inv', stack # <<>>, NEW fr, SetTop(fr), NEW n, n = Len(stack)
    PROVE  /\ DOMAIN stack' = DOMAIN stack /\ Len(stack') = Len(stack)
           /\ n \in DOMAIN stack /\ stack'[n] = fr /\ Top = stack[n]
           /\ \A i \in DOMAIN stack : i # n => stack'[i] = stack[i]
<1>1. /\ stack \in Seq(Frame) /\ stack' \in Seq(Frame)
      /\ stack' = [stack EXCEPT ![n] = fr]
  BY DEF Inv, TypeOK, SetTop
<1>2. /\ DOMAIN stack = 1 .. n /\ n \in Nat /\ n \in 1 .. n
      /\ DOMAIN stack' = 1 .. Len(stack') /\ Len(stack') \in Nat
  BY <1>1, LenProperties
<1>3. DOMAIN stack' = DOMAIN stack /\ stack'[n] = fr
      /\ \A i \in DOMAIN stack : i # n => stack'[i] = stack[i]
  BY <1>1, <1>2
<1>4. Len(stack') = n
  <2> DEFINE m == Len(stack')
  <2>1. m \in Nat /\ 1 .. m = 1 .. n
    BY <1>2, <1>3
  <2> HIDE DEF m
  <2>2. n \in 1 .. m /\ n >= 1
    BY <1>2, <2>1
  <2>3. m \in 1 .. m
    BY <1>2, <2>1, <2>2
  <2>4. m \in 1 .. n
    BY <2>1, <2>3
  <2>5. m = n
    BY <1>2, <2>1, <2>2, <2>4
  <2> QED
    BY <2>5 DEF m
<1> QED
  BY <1>2, <1>3, <1>4 DEF Top

\* Nobody is called by the innermost activation: its place is that of a handler
\* that has not begun.
LEMMA RunningPlace ==
    ASSUME MqttInv, stack # <<>>, Top.call = NULL, NEW n, n = Len(stack)
    PROVE  /\ n \in DOMAIN stack /\ n \in Nat /\ place[n] = "begin" /\ stack[n].call = NULL
           /\ place[n] \notin Waits /\ ~Tries(n) /\ ~Tells(n) /\ ~Looks(n)
<1>1. Sized
  BY SizedHolds DEF MqttInv
<1>2. n \in DOMAIN stack /\ Top = stack[n] /\ n \in Nat
  BY <1>1 DEF Sized, Top
<1>3. place[n] = "begin"
  BY <1>2 DEF MqttInv, Places
<1> QED
  BY <1>2, <1>3, PlaceNames, Nodes DEF Tries, Tells, Looks, Noticing

\* The places of the activations that are there are kept.
LEMMA KeptPlaces ==
    ASSUME Sized, NEW m \in 0 .. Len(stack), place' = SubSeq(place, 1, m)
    PROVE  /\ place' \in Seq(Place) /\ Len(place') = m
           /\ \A i \in 1 .. m : place'[i] = place[i]
<1>1. \A i \in 1 .. m : place[i] \in Place
  BY ElementOfSeq DEF Sized
<1>2. /\ SubSeq(place, 1, m) \in Seq(Place)
      /\ Len(SubSeq(place, 1, m)) = IF 1 <= m THEN m - 1 + 1 ELSE 0
      /\ \A i \in 1 .. m - 1 + 1 : SubSeq(place, 1, m)[i] = place[1 + i - 1]
  BY <1>1, SubSeqProperties
<1> QED
  BY <1>2

\* A handler returns to the loop.
LEMMA ReturnsInv == ASSUME MqttInv, callback_returns PROVE MqttInv'
<1> PICK n : n = Len(stack)
  OBVIOUS
<1>1. /\ At("done") \/ (At("begin") /\ Top.call \in AppEvent \cup {start_timer_node})
      /\ handler_returns /\ GoTo("begin")
      /\ UNCHANGED <<inited, networkVars, libraryVars, objectVars>>
  BY DEF callback_returns, Begins
<1>2. /\ stack # <<>>
      /\ \/ place[n] = "done"
         \/ place[n] = "begin" /\ stack[n].call \in AppEvent \cup {start_timer_node}
  BY <1>1, Stands
<1>3. place[n] \notin Waits /\ ~Tries(n) /\ ~Tells(n) /\ ~Looks(n)
  BY <1>2, PlaceNames, Nodes DEF Tries, Tells, Looks, Noticing
<1>4. /\ Inv' /\ SetTop(AfterCall)
      /\ UNCHANGED <<events, pending_events, timer_list, event_list, loop_stop>>
  BY <1>1, ReturnInv DEF MqttInv, handler_returns, flagVars, listVars
<1>5. /\ DOMAIN stack' = DOMAIN stack /\ Len(stack') = Len(stack)
      /\ \A i \in DOMAIN stack : i # n => stack'[i].call = stack[i].call
      /\ stack'[n] = AfterCall
  BY <1>2, <1>4, SetTopShape DEF MqttInv
<1>6. Sized
  BY SizedHolds DEF MqttInv
<1>7. /\ place' \in Seq(Place) /\ Len(place') = n
      /\ place'[n] = "begin"
      /\ \A i \in DOMAIN stack : i # n => place'[i] = place[i]
  BY <1>1, <1>2, <1>6, GoToPlaces, PlaceNames
<1>8. Len(place') = Len(place)
  BY <1>6, <1>7 DEF Sized
<1>9. NetChangeOwed => NetChangeOwed'
  BY <1>1, <1>4 DEF NetChangeOwed, networkVars
<1>10. stack'[n].call \in EarlyCall
  <2>1. Top \in Frame
    BY <1>2, TopFrame DEF MqttInv, Inv, TypeOK
  <2> QED
    BY <1>5, <2>1 DEF AfterCall, Frame, EarlyCall
<1> QED
  BY <1>1, <1>2, <1>3, <1>4, <1>5, <1>7, <1>8, <1>9, <1>10, InnermostStep

\* Between the calls, the places stay.
LEMMA LoopSets ==
    ASSUME MqttInv, MqttLoopStep, stack # <<>>, Top.call = NULL, NEW fr, SetTop(fr),
           NEW n, n = Len(stack), UNCHANGED <<timer_list, event_list, loop_stop>>,
           inited \/ fr.call \in EarlyCall,
           NetChangeOwed => \/ NetChangeOwed'
                            \/ fr.call = mqtt_event_node[NET_CHANGE]
    PROVE  MqttInv'
<1>1. Inv' /\ place' = SubSeq(place, 1, Len(stack'))
      /\ UNCHANGED <<inited, networkVars, libraryVars, objectVars>>
  BY LoopStepInv DEF MqttLoopStep, MqttInv
<1>2. /\ DOMAIN stack' = DOMAIN stack /\ Len(stack') = Len(stack)
      /\ n \in DOMAIN stack /\ stack'[n] = fr
      /\ \A i \in DOMAIN stack : i # n => stack'[i] = stack[i]
  BY <1>1, SetTopShape DEF MqttInv
<1>3. /\ n \in Nat /\ place[n] = "begin"
      /\ place[n] \notin Waits /\ ~Tries(n) /\ ~Tells(n) /\ ~Looks(n)
  BY RunningPlace
<1>4. Sized
  BY SizedHolds DEF MqttInv
<1>5. place' \in Seq(Place) /\ Len(place') = Len(place)
      /\ \A i \in DOMAIN stack : place'[i] = place[i]
  <2>1. n \in 0 .. Len(stack) /\ place' = SubSeq(place, 1, n)
    BY <1>1, <1>2, <1>3
  <2>2. place' \in Seq(Place) /\ Len(place') = n /\ \A i \in 1 .. n : place'[i] = place[i]
    BY <1>4, <2>1, KeptPlaces
  <2> QED
    BY <1>4, <2>2 DEF Sized
<1>6. NetChangeOwed => NetChangeOwed' \/ (Tries(n)' /\ Looks(n)')
  BY <1>2, <1>3, <1>5 DEF Tries, Looks, Noticing
<1> QED
  BY <1>1, <1>2, <1>3, <1>5, <1>6, InnermostStep

\* An activation that returns resumes the handler that waits in it.
LEMMA LoopPops ==
    ASSUME MqttInv, MqttLoopStep, stack # <<>>, Top.call = NULL, Pop, loop_stop' = FALSE,
           UNCHANGED <<flagVars, listVars>>
    PROVE  MqttInv'
<1> PICK n : n = Len(stack)
  OBVIOUS
<1>0. Inv /\ MqttTypeOK /\ Places /\ Started /\ OnlyInnermostWaits /\ MainKeepsRunning
  BY DEF MqttInv
<1>1. Inv' /\ place' = SubSeq(place, 1, Len(stack'))
      /\ UNCHANGED <<inited, networkVars, libraryVars, objectVars>>
  BY LoopStepInv DEF MqttLoopStep, MqttInv
<1>2. Sized
  BY <1>0, SizedHolds
<1>3. /\ n \in Nat /\ n \in DOMAIN stack /\ place[n] \notin Waits
      /\ ~Tries(n) /\ ~Tells(n) /\ ~Looks(n)
  BY RunningPlace
<1>4. /\ Len(stack') = n - 1 /\ DOMAIN stack' = 1 .. n - 1 /\ DOMAIN stack = 1 .. n
      /\ \A i \in 1 .. n - 1 : stack'[i] = stack[i]
  BY <1>2, PopFrames DEF Sized
<1>5. place' \in Seq(Place) /\ Len(place') = n - 1 /\ \A i \in 1 .. n - 1 : place'[i] = place[i]
  <2>1. n - 1 \in 0 .. Len(stack) /\ place' = SubSeq(place, 1, n - 1)
    BY <1>1, <1>3, <1>4
  <2> QED
    BY <1>2, <2>1, KeptPlaces
<1>6. \A i \in DOMAIN stack : i # n => i \in DOMAIN stack'
  BY <1>3, <1>4
<1>7. \A i \in DOMAIN stack' :
         /\ i \in DOMAIN stack /\ i < Len(stack)
         /\ place'[i] = place[i] /\ stack'[i] = stack[i]
         /\ Tries(i)' <=> Tries(i)
         /\ Tells(i)' <=> Tells(i)
         /\ Looks(i)' <=> Looks(i)
  <2> SUFFICES ASSUME NEW i \in DOMAIN stack'
               PROVE  /\ i \in DOMAIN stack /\ i < Len(stack)
                      /\ place'[i] = place[i] /\ stack'[i] = stack[i]
                      /\ Tries(i)' <=> Tries(i)
                      /\ Tells(i)' <=> Tells(i)
                      /\ Looks(i)' <=> Looks(i)
    OBVIOUS
  <2>1. i \in DOMAIN stack /\ i < Len(stack) /\ place'[i] = place[i] /\ stack'[i] = stack[i]
    BY <1>3, <1>4, <1>5
  <2> QED
    BY <2>1 DEF Tries, Tells, Looks, Noticing
<1>8. /\ UNCHANGED <<inited, network_up, mqtt_connected, reported, timer_list, event_list>>
      /\ UNCHANGED mqtt_interruptable_event_bitmap
      /\ NetChangeOwed' = NetChangeOwed
      /\ RetryArmed' = RetryArmed
  BY <1>1 DEF networkVars, objectVars, bitmapVars, NetChangeOwed, RetryArmed, is_node_in, flagVars,
              listVars
<1>9. Trying'
  <2>1. (\E i \in DOMAIN stack : Tries(i)) => \E i \in DOMAIN stack' : Tries(i)'
    BY <1>3, <1>6, <1>7
  <2> QED
    BY <1>8, <2>1 DEF MqttInv, Trying
<1>10. TellsConnection'
  <2>1. (\E i \in DOMAIN stack : Tells(i)) => \E i \in DOMAIN stack' : Tells(i)'
    BY <1>3, <1>6, <1>7
  <2> QED
    BY <1>8, <2>1 DEF MqttInv, TellsConnection
<1>11. TellsNetwork'
  <2>1. (\E i \in DOMAIN stack : Looks(i)) => \E i \in DOMAIN stack' : Looks(i)'
    BY <1>3, <1>6, <1>7
  <2> QED
    BY <1>8, <2>1 DEF MqttInv, TellsNetwork
<1>12. MqttTypeOK'
  <2>1. FieldTypes'
    BY <1>0, <1>1, TypesSplit DEF FieldTypes, networkVars, libraryVars, objectVars, bitmapVars
  <2> QED
    BY <1>4, <1>5, <2>1 DEF FieldTypes, MqttTypeOK
<1>13. Places'
  <2>1. \A i \in DOMAIN stack' : i < Len(stack') => place'[i] \in Waits
    BY <1>0, <1>7 DEF Places
  <2>2. \A i \in DOMAIN stack' : stack'[i].call = NULL => place'[i] = "begin"
    BY <1>0, <1>7 DEF Places
  <2> QED
    BY <2>1, <2>2 DEF Places
<1>14. Started'
  <2> SUFFICES ASSUME ~inited PROVE Started'
    BY <1>8 DEF Started
  <2>1. ~mqtt_connected' /\ ~session' /\ ~reported'.mqtt /\ ~reported'.net
    BY <1>0, <1>1, <1>8 DEF Started, libraryVars
  <2>2. \A i \in DOMAIN stack' : place'[i] = "begin" /\ stack'[i].call \in EarlyCall
    BY <1>0, <1>7 DEF Started
  <2> QED
    BY <1>0, <1>8, <2>1, <2>2 DEF Started, is_node_in
<1>15. OnlyInnermostWaits'
  <2> SUFFICES ASSUME mqtt_interruptable_event_bitmap # {}
               PROVE  OnlyInnermostWaits'
    BY <1>8 DEF OnlyInnermostWaits
  <2>1. PICK i \in DOMAIN stack :
           /\ place[i] \in Waits
           /\ mqtt_interruptable_event_bitmap = Awaited(place[i]) \cup {DISCONNECTED}
           /\ \A j \in DOMAIN stack : j > i => place[j] \notin Waits
    BY <1>0 DEF OnlyInnermostWaits
  <2>2. i \in DOMAIN stack' /\ place'[i] = place[i]
    BY <1>3, <1>6, <1>7, <2>1
  <2>3. \A j \in DOMAIN stack' : j > i => place'[j] \notin Waits
    BY <1>7, <2>1
  <2>4. Awaited(place'[i]) = Awaited(place[i])
    BY <2>2
  <2> QED
    BY <1>8, <2>1, <2>2, <2>3, <2>4 DEF OnlyInnermostWaits
<1>16. MainKeepsRunning'
  BY DEF MainKeepsRunning
<1> QED
  BY <1>1, <1>9, <1>10, <1>11, <1>12, <1>13, <1>14, <1>15, <1>16 DEF MqttInv

\* Every step of the loop keeps the invariant.
LEMMA MqttLoopInv == ASSUME MqttInv, MqttLoopStep PROVE MqttInv'
<1> PICK n : n = Len(stack)
  OBVIOUS
<1>0. Inv /\ LoopStep /\ UNCHANGED <<networkVars, net_callback>>
  BY DEF MqttInv, MqttLoopStep, networkVars
<1>c. ASSUME stack # <<>>, Top.call = NULL,
             NEW pc, NEW node, NEW due, NEW fr \in {[Top EXCEPT !.pc = pc, !.node = node],
                                                   [Top EXCEPT !.node = node],
                                                   [Top EXCEPT !.pc = pc, !.due = due]}
      PROVE  fr.call \in EarlyCall
  <2>1. Top \in Frame
    BY <1>0, <1>c, TopFrame DEF Inv, TypeOK
  <2> QED
    BY <1>c, <2>1 DEF Frame, EarlyCall
<1>1. CASE wait_for_event_flags
  <2>1. /\ stack # <<>> /\ Top.call = NULL
        /\ pending_events' = pending_events \cup events
        /\ UNCHANGED <<timer_list, event_list, loop_stop>>
    BY <1>1 DEF wait_for_event_flags, Running, TakeFlags, listVars
  <2>2. PICK fr : fr = [Top EXCEPT !.pc = "dispatch",
                                   !.node = IF PassNeeded(pending_events', events)
                                            THEN Front(event_list) ELSE NULL]
    OBVIOUS
  <2>3. SetTop(fr)
    BY <1>1, <2>2 DEF wait_for_event_flags
  <2>4. NetChangeOwed => NetChangeOwed'
    BY <1>0, <2>1 DEF NetChangeOwed
  <2> QED
    BY <1>c, <2>1, <2>2, <2>3, <2>4, LoopSets
<1>2. ASSUME NEW e \in EventNode, dispatch(e) PROVE MqttInv'
  <2>1. /\ stack # <<>> /\ Top.call = NULL
        /\ pending_events' = pending_events \ Mask[e]
        /\ UNCHANGED <<events, timer_list, event_list, loop_stop>>
        /\ Top.node = e
    BY <1>2 DEF dispatch, Running, listVars
  <2>2. PICK fr : fr = [Top EXCEPT !.call = e]
    OBVIOUS
  <2>3. SetTop(fr)
    BY <1>2, <2>2 DEF dispatch
  <2>4. fr.call = e
    <3>1. Top \in Frame
      BY <1>0, <2>1, TopFrame DEF Inv, TypeOK
    <3> QED
      BY <2>2, <3>1 DEF Frame
  <2>5. NetChangeOwed => NetChangeOwed' \/ fr.call = mqtt_event_node[NET_CHANGE]
    <3>1. mqtt_flag[NET_CHANGE] \in Mask[e] => e = mqtt_event_node[NET_CHANGE]
      BY MqttNodes, Nodes
    <3> QED
      BY <1>0, <2>1, <2>4, <3>1 DEF NetChangeOwed
  <2>6. inited \/ fr.call \in EarlyCall
    <3>1. n \in DOMAIN stack /\ Top = stack[n]
      BY <2>1, SizedHolds DEF MqttInv, Sized, Top
    <3>2. e # NULL
      BY NodesDistinct
    <3>3. is_node_in(event_list, e)
      BY <1>0, <2>1, <3>1, <3>2 DEF Inv, CursorLinked
    <3> QED
      BY <2>4, <3>3 DEF MqttInv, Started, EarlyCall
  <2> QED
    BY <2>1, <2>3, <2>5, <2>6, LoopSets
<1>3. ASSUME NEW e \in EventNode, skip(e) PROVE MqttInv'
  <2>1. /\ stack # <<>> /\ Top.call = NULL
        /\ UNCHANGED <<events, pending_events, timer_list, event_list, loop_stop>>
    BY <1>3 DEF skip, Running, listVars, flagVars
  <2>2. PICK fr : fr = [Top EXCEPT !.node = Following(event_list, e)]
    OBVIOUS
  <2>3. SetTop(fr)
    BY <1>3, <2>2 DEF skip
  <2>4. NetChangeOwed => NetChangeOwed'
    BY <1>0, <2>1 DEF NetChangeOwed
  <2> QED
    BY <1>c, <2>1, <2>2, <2>3, <2>4, LoopSets
<1>4. CASE stop
  <2>1. stack # <<>> /\ Top.call = NULL /\ Pop /\ loop_stop' = FALSE
        /\ UNCHANGED <<flagVars, listVars>>
    BY <1>4 DEF stop, Running
  <2> QED
    BY <2>1, LoopPops
<1>5. ASSUME NEW due \in SUBSET Range(timer_list), process_timer(due) PROVE MqttInv'
  <2>1. /\ stack # <<>> /\ Top.call = NULL
        /\ UNCHANGED <<events, pending_events, timer_list, event_list, loop_stop>>
    BY <1>5 DEF process_timer, Running, listVars, flagVars
  <2>2. PICK fr : fr = [Top EXCEPT !.pc = "timers", !.due = due]
    OBVIOUS
  <2>3. SetTop(fr)
    BY <1>5, <2>2 DEF process_timer
  <2>4. NetChangeOwed => NetChangeOwed'
    BY <1>0, <2>1 DEF NetChangeOwed
  <2> QED
    BY <1>c, <2>1, <2>2, <2>3, <2>4, LoopSets
<1>6. ASSUME NEW t \in TimerNode, expire(t) PROVE MqttInv'
  <2>1. /\ stack # <<>> /\ Top.call = NULL
        /\ stack' = [Rearm(stack, t) EXCEPT ![n].call = t]
        /\ is_node_in(timer_list, t)
        /\ UNCHANGED <<events, pending_events, timer_list, event_list, loop_stop>>
    BY <1>6 DEF expire, Running, listVars, flagVars, is_node_in
  <2>2. /\ Inv' /\ place' = SubSeq(place, 1, Len(stack'))
        /\ UNCHANGED <<inited, networkVars, libraryVars, objectVars>>
    BY LoopStepInv DEF MqttLoopStep, MqttInv
  <2>3. /\ n \in DOMAIN stack /\ n \in Nat /\ place[n] = "begin"
        /\ place[n] \notin Waits /\ ~Tries(n) /\ ~Tells(n) /\ ~Looks(n)
    BY <2>1, RunningPlace
  <2>4. Sized
    BY SizedHolds DEF MqttInv
  <2>5. /\ DOMAIN stack' = DOMAIN stack /\ Len(stack') = Len(stack)
        /\ \A i \in DOMAIN stack : i # n => stack'[i].call = stack[i].call
        /\ stack'[n].call = t
    <3> DEFINE r == Rearm(stack, t)
    <3>1. /\ r \in Seq(Frame) /\ Len(r) = Len(stack)
          /\ \A i \in 1 .. Len(stack) : r[i].call = stack[i].call
      BY <2>4, RearmFrames DEF Sized
    <3>2. stack' = [r EXCEPT ![n] = [r[n] EXCEPT !.call = t]]
      BY <2>1
    <3> HIDE DEF r
    <3>3. n \in 1 .. Len(r) /\ r[n] \in Frame
      BY <2>3, <2>4, <3>1, ElementOfSeq DEF Sized
    <3>4. [r[n] EXCEPT !.call = t] \in Frame
      BY <3>3 DEF Frame, Node
    <3>5. /\ Len(stack') = Len(r) /\ stack' \in Seq(Frame)
          /\ \A j \in 1 .. Len(r) : stack'[j] = IF j = n THEN [r[n] EXCEPT !.call = t] ELSE r[j]
      BY <3>1, <3>2, <3>3, <3>4, ExceptSeq
    <3>6. DOMAIN stack' = 1 .. Len(stack')
      BY <3>5
    <3>7. stack'[n].call = t
      BY <3>3, <3>5 DEF Frame
    <3> QED
      BY <2>4, <3>1, <3>5, <3>6, <3>7 DEF Sized
  <2>6. place' \in Seq(Place) /\ Len(place') = Len(place)
        /\ \A i \in DOMAIN stack : place'[i] = place[i]
    <3>1. n \in 0 .. Len(stack) /\ place' = SubSeq(place, 1, n)
      BY <2>2, <2>3, <2>5
    <3>2. place' \in Seq(Place) /\ Len(place') = n /\ \A i \in 1 .. n : place'[i] = place[i]
      BY <2>4, <3>1, KeptPlaces
    <3> QED
      BY <2>4, <3>2 DEF Sized
  <2>7. NetChangeOwed => NetChangeOwed'
    BY <1>0, <2>1 DEF NetChangeOwed
  <2>8. inited \/ stack'[n].call \in EarlyCall
    BY <2>1, <2>5 DEF MqttInv, Started, EarlyCall
  <2> QED
    BY <2>1, <2>2, <2>3, <2>5, <2>6, <2>7, <2>8, InnermostStep
<1>7. CASE iterate
  <2>1. /\ stack # <<>> /\ Top.call = NULL
        /\ UNCHANGED <<events, pending_events, timer_list, event_list, loop_stop>>
    BY <1>7 DEF iterate, ScanOver, Running, listVars, flagVars
  <2>2. SetTop(Waiting(Top.forever))
    BY <1>7 DEF iterate
  <2>3. NetChangeOwed => NetChangeOwed'
    BY <1>0, <2>1 DEF NetChangeOwed
  <2>4. Waiting(Top.forever).call \in EarlyCall
    BY DEF Waiting, EarlyCall
  <2> QED
    BY <2>1, <2>2, <2>3, <2>4, LoopSets
<1>8. CASE time_out
  <2>1. stack # <<>> /\ Top.call = NULL /\ Pop /\ loop_stop' = FALSE
        /\ UNCHANGED <<flagVars, listVars>>
    BY <1>8 DEF time_out, ScanOver, Running
  <2> QED
    BY <2>1, LoopPops
<1> QED
  BY <1>0, <1>1, <1>2, <1>3, <1>4, <1>5, <1>6, <1>7, <1>8 DEF LoopStep

(***************************************************************************)
(* Other threads, main and the start                                       *)
(***************************************************************************)

\* A step of another thread moves no handler and no activation.
LEMMA OutsideInv ==
    ASSUME MqttInv, Inv', FieldTypes',
           UNCHANGED <<stack, place, inited, timer_list, event_list, objectVars, loop_stop>>,
           session' => session,
           \/ NetChangeOwed'
           \/ ~inited
           \/ UNCHANGED network_up /\ (NetChangeOwed => NetChangeOwed')
    PROVE  MqttInv'
<1>1. /\ UNCHANGED <<mqtt_connected, reported, mqtt_interruptable_event_bitmap>>
      /\ Inv /\ MqttTypeOK /\ Places /\ Started /\ OnlyInnermostWaits /\ MainKeepsRunning
  BY DEF objectVars, bitmapVars, MqttInv
<1>2. MqttTypeOK'
  BY <1>1 DEF MqttTypeOK, FieldTypes
<1>3. Places' /\ MainKeepsRunning'
  BY <1>1 DEF Places, MainKeepsRunning
<1>4. Started'
  BY <1>1 DEF Started, is_node_in
<1>5. OnlyInnermostWaits'
  BY <1>1 DEF OnlyInnermostWaits
<1>6. \A i \in DOMAIN stack :
         (Tries(i)' <=> Tries(i)) /\ (Tells(i)' <=> Tells(i)) /\ (Looks(i)' <=> Looks(i))
  BY DEF Tries, Tells, Looks, Noticing
<1>7. RetryArmed' = RetryArmed
  BY DEF RetryArmed, is_node_in
<1>8. Trying'
  BY <1>1, <1>6, <1>7 DEF MqttInv, Trying
<1>9. TellsConnection'
  BY <1>1, <1>6 DEF MqttInv, TellsConnection
<1>10. TellsNetwork'
  BY <1>1, <1>6 DEF MqttInv, TellsNetwork
<1> QED
  BY <1>2, <1>3, <1>4, <1>5, <1>8, <1>9, <1>10 DEF MqttInv

\* A flag is set by another thread.
LEMMA FlagSet ==
    ASSUME Inv, NEW f \in Flag, a_eventloop_set_flag(f)
    PROVE  /\ Inv' /\ UNCHANGED <<stack, timer_list, event_list, loop_stop>>
           /\ events' = events \cup {f} /\ UNCHANGED pending_events
<1>1. SetFlag
  BY DEF SetFlag
<1> QED
  BY <1>1, ClientStepInv DEF a_eventloop_set_flag, listVars

\* The network's thread, the library's and the application's events.
LEMMA ExternalInv == ASSUME MqttInv, External PROVE MqttInv'
<1>0. Inv /\ FieldTypes
  BY TypesSplit DEF MqttInv
<1>1. CASE network_change
  <2>1. Inv'
    BY <1>0, <1>1, NextInv DEF network_change
  <2>2. FieldTypes' /\ NetChangeOwed'
    BY <1>0, <1>1 DEF network_change, FieldTypes, libraryVars, objectVars, bitmapVars, NetChangeOwed
  <2>3. UNCHANGED <<stack, place, inited, timer_list, event_list, objectVars, loop_stop, session>>
    BY <1>1 DEF network_change, vars, libraryVars
  <2> QED
    BY <2>1, <2>2, <2>3, OutsideInv
<1>2. CASE _net_event
  <2>1. /\ net_callback' = FALSE
        /\ UNCHANGED <<inited, network_up, libraryVars, session, objectVars, place>>
    BY <1>2 DEF _net_event, libraryVars
  <2>2. FieldTypes'
    BY <1>0, <2>1 DEF FieldTypes, libraryVars, objectVars, bitmapVars
  <2>3. CASE inited
    <3>1. a_eventloop_set_flag(mqtt_flag[NET_CHANGE]) /\ mqtt_flag[NET_CHANGE] \in Flag
      BY <1>2, <2>3, Nodes, MqttNodes DEF _net_event
    <3>2. /\ Inv' /\ UNCHANGED <<stack, timer_list, event_list, loop_stop>>
          /\ events' = events \cup {mqtt_flag[NET_CHANGE]}
      BY <1>0, <3>1, FlagSet
    <3>3. NetChangeOwed'
      BY <3>2 DEF NetChangeOwed
    <3> QED
      BY <2>1, <2>2, <3>2, <3>3, OutsideInv
  <2>4. CASE ~inited
    <3>1. UNCHANGED vars
      BY <1>2, <2>4 DEF _net_event
    <3>2. Inv'
      BY <1>0, <3>1, NextInv
    <3>3. UNCHANGED <<stack, timer_list, event_list, loop_stop>>
      BY <3>1 DEF vars
    <3> QED
      BY <2>1, <2>2, <2>4, <3>2, <3>3, OutsideInv
  <2> QED
    BY <2>3, <2>4
<1>3. ASSUME NEW k \in Answer, mqtt_connection_event_cb(k) PROVE MqttInv'
  <2>1. /\ answers' = answers \ {k} /\ a_eventloop_set_flag(mqtt_flag[k])
        /\ session' = session \/ session' = FALSE
        /\ session' => session
        /\ UNCHANGED <<inited, networkVars, objectVars, place>>
    BY <1>3 DEF mqtt_connection_event_cb
  <2>2. FieldTypes'
    BY <1>0, <2>1 DEF FieldTypes, networkVars, objectVars, bitmapVars
  <2>3. /\ Inv' /\ UNCHANGED <<stack, timer_list, event_list, loop_stop>>
        /\ events' = events \cup {mqtt_flag[k]} /\ UNCHANGED pending_events
    BY <1>0, <2>1, FlagSet, Nodes, MqttNodes
  <2>4. UNCHANGED network_up /\ (NetChangeOwed => NetChangeOwed')
    BY <2>1, <2>3 DEF networkVars, NetChangeOwed
  <2> QED
    BY <2>1, <2>2, <2>3, <2>4, OutsideInv
<1>4. CASE session_drops
  <2>1. Inv'
    BY <1>0, <1>4, NextInv DEF session_drops
  <2>2. FieldTypes' /\ UNCHANGED network_up
    BY <1>0, <1>4, PlaceNames DEF session_drops, FieldTypes, networkVars, objectVars, bitmapVars
  <2>3. /\ UNCHANGED <<stack, place, inited, timer_list, event_list, objectVars, loop_stop>>
        /\ NetChangeOwed => NetChangeOwed'
        /\ ~session'
    BY <1>4 DEF session_drops, vars, networkVars, NetChangeOwed
  <2> QED
    BY <2>1, <2>2, <2>3, OutsideInv
<1>5. CASE app_event
  <2>1. PICK f \in Flag : a_eventloop_set_flag(f)
    BY <1>5 DEF app_event
  <2>2. UNCHANGED <<inited, networkVars, libraryVars, session, objectVars, place>>
    BY <1>5 DEF app_event, libraryVars
  <2>3. FieldTypes'
    BY <1>0, <2>2 DEF FieldTypes, networkVars, libraryVars, objectVars, bitmapVars
  <2>4. /\ Inv' /\ UNCHANGED <<stack, timer_list, event_list, loop_stop>>
        /\ events' = events \cup {f} /\ UNCHANGED pending_events
    BY <1>0, <2>1, FlagSet
  <2>5. UNCHANGED network_up /\ (NetChangeOwed => NetChangeOwed')
    BY <2>2, <2>4 DEF networkVars, NetChangeOwed
  <2> QED
    BY <2>2, <2>3, <2>4, <2>5, OutsideInv
<1> QED
  BY <1>1, <1>2, <1>3, <1>4, <1>5 DEF External

\* Two lists of different nodes, put one behind the other.
LEMMA Joined ==
    ASSUME NEW S, NEW r \in Seq(S), NEW s \in Seq(S), IsInjective(r), IsInjective(s),
           \A i \in DOMAIN r, j \in DOMAIN s : r[i] # s[j]
    PROVE  r \o s \in Seq(S) /\ IsInjective(r \o s)
<1> DEFINE q == r \o s
<1> PICK m \in Nat : m = Len(r)
  OBVIOUS
<1>1. /\ q \in Seq(S) /\ Len(q) = m + Len(s)
      /\ DOMAIN q = 1 .. m + Len(s) /\ DOMAIN s = 1 .. Len(s) /\ DOMAIN r = 1 .. m
      /\ \A i \in 1 .. m + Len(s) : q[i] = IF i <= m THEN r[i] ELSE s[i - m]
      /\ Len(s) \in Nat
  OBVIOUS
<1> HIDE DEF q
<1>2. ASSUME NEW a \in DOMAIN q, NEW b \in DOMAIN q, q[a] = q[b] PROVE a = b
  <2>1. CASE a <= m /\ b <= m
    <3>1. a \in DOMAIN r /\ b \in DOMAIN r /\ r[a] = r[b]
      BY <1>1, <1>2, <2>1
    <3> QED
      BY <3>1 DEF IsInjective
  <2>2. CASE a <= m /\ ~(b <= m)
    <3>1. a \in DOMAIN r /\ b - m \in DOMAIN s /\ r[a] = s[b - m]
      BY <1>1, <1>2, <2>2
    <3> QED
      BY <3>1
  <2>3. CASE ~(a <= m) /\ b <= m
    <3>1. b \in DOMAIN r /\ a - m \in DOMAIN s /\ r[b] = s[a - m]
      BY <1>1, <1>2, <2>3
    <3> QED
      BY <3>1
  <2>4. CASE ~(a <= m) /\ ~(b <= m)
    <3>1. a - m \in DOMAIN s /\ b - m \in DOMAIN s /\ s[a - m] = s[b - m]
      BY <1>1, <1>2, <2>4
    <3>2. a - m = b - m
      BY <3>1 DEF IsInjective
    <3> QED
      BY <1>1, <3>2
  <2> QED
    BY <2>1, <2>2, <2>3, <2>4
<1>3. IsInjective(q)
  BY <1>2 DEF IsInjective
<1> QED
  BY <1>1, <1>3 DEF q

\* The client's five nodes are different ones.
LEMMA RegisteredNodes ==
    /\ Registered \in Seq(EventNode) /\ IsInjective(Registered)
    /\ \A i \in DOMAIN Registered : Registered[i] \notin AppEvent
<1>1. /\ DISCONNECTED \in Kind /\ "SUBSCRIBED" \in Kind /\ "PUBLISHED" \in Kind
      /\ CONNECT_REQ \in Kind /\ NET_CHANGE \in Kind
  BY DEF Kind, Answer
<1>2. /\ mqtt_event_node[DISCONNECTED] \in EventNode \ AppEvent
      /\ mqtt_event_node["SUBSCRIBED"] \in EventNode \ AppEvent
      /\ mqtt_event_node["PUBLISHED"] \in EventNode \ AppEvent
      /\ mqtt_event_node[CONNECT_REQ] \in EventNode \ AppEvent
      /\ mqtt_event_node[NET_CHANGE] \in EventNode \ AppEvent
  BY <1>1, Nodes
<1>3. \A k, l \in Kind : mqtt_event_node[k] = mqtt_event_node[l] => k = l
  BY MqttNodes DEF IsInjective
<1> DEFINE a == mqtt_event_node[DISCONNECTED]
           b == mqtt_event_node["SUBSCRIBED"]
           c == mqtt_event_node["PUBLISHED"]
           d == mqtt_event_node[CONNECT_REQ]
           e == mqtt_event_node[NET_CHANGE]
<1>4. a # b /\ a # c /\ a # d /\ a # e /\ b # c /\ b # d /\ b # e /\ c # d /\ c # e /\ d # e
  BY <1>1, <1>3 DEF DISCONNECTED, CONNECT_REQ, NET_CHANGE
<1>5. Registered = <<a, b, c, d, e>>
  BY DEF Registered
<1>6. /\ a \in EventNode \ AppEvent /\ b \in EventNode \ AppEvent
      /\ c \in EventNode \ AppEvent /\ d \in EventNode \ AppEvent
      /\ e \in EventNode \ AppEvent
  BY <1>2
<1> HIDE DEF a, b, c, d, e
<1>7. /\ Registered \in Seq(EventNode) /\ DOMAIN Registered = 1 .. 5
      /\ Registered[1] = a /\ Registered[2] = b /\ Registered[3] = c
      /\ Registered[4] = d /\ Registered[5] = e
  BY <1>5, <1>6
<1>8. \A i \in 1 .. 5 : i = 1 \/ i = 2 \/ i = 3 \/ i = 4 \/ i = 5
  OBVIOUS
<1>9. \A i \in DOMAIN Registered : Registered[i] \notin AppEvent
  BY <1>6, <1>7, <1>8
<1>10. IsInjective(Registered)
  <2> SUFFICES ASSUME NEW i \in 1 .. 5, NEW j \in 1 .. 5, Registered[i] = Registered[j]
               PROVE  i = j
    BY <1>7 DEF IsInjective
  <2> QED
    BY <1>4, <1>7, <1>8
<1> QED
  BY <1>7, <1>9, <1>10

\* No activation: no handler, nothing awaited, nothing to stop.
LEMMA NoActivation ==
    ASSUME MqttInv, stack = <<>>
    PROVE  /\ DOMAIN stack = {} /\ Len(stack) = 0 /\ DOMAIN place = {} /\ place = <<>>
           /\ mqtt_interruptable_event_bitmap = {} /\ ~loop_stop
<1>1. Sized
  BY SizedHolds DEF MqttInv
<1>2. Len(stack) = 0 /\ DOMAIN stack = {}
  OBVIOUS
<1>3. DOMAIN place = {} /\ place = <<>>
  BY <1>1, <1>2 DEF Sized
<1>4. mqtt_interruptable_event_bitmap = {}
  BY <1>2 DEF MqttInv, OnlyInnermostWaits
<1>5. loop_stop \in BOOLEAN
  BY DEF MqttInv, Inv, TypeOK
<1>6. ~loop_stop
  BY <1>2 DEF MqttInv, MainKeepsRunning
<1> QED
  BY <1>2, <1>3, <1>4, <1>6

\* What is linked stays so in front of other nodes.
LEMMA JoinedHas ==
    ASSUME NEW S, NEW q \in Seq(S), NEW t \in Seq(S), NEW m, is_node_in(t, m)
    PROVE  is_node_in(q \o t, m)
<1>1. PICK i \in DOMAIN t : t[i] = m
  BY DEF is_node_in
<1>2. Len(q) + i \in DOMAIN (q \o t) /\ (q \o t)[Len(q) + i] = t[i]
  BY <1>1
<1> QED
  BY <1>1, <1>2 DEF is_node_in

\* Before the client is created no handler waits, and nothing is to stop; the
\* step that creates it moves the handler of main's timer and nobody else.
LEMMA Creation ==
    ASSUME MqttInv, a_sys_mqtt_init, NEW n, n = Len(stack)
    PROVE  /\ stack # <<>> /\ Top.call = start_timer_node /\ ~inited
           /\ n \in DOMAIN stack /\ n \in Nat
           /\ stack[n].call = start_timer_node
           /\ \A i \in DOMAIN stack : place[i] = "begin" /\ stack[i].call \in EarlyCall
           /\ DOMAIN place = DOMAIN stack /\ DOMAIN place' = DOMAIN stack
           /\ place' \in Seq(Place) /\ Len(place') = n /\ place'[n] = "done"
           /\ \A i \in DOMAIN stack : i # n => place'[i] = place[i]
           /\ mqtt_interruptable_event_bitmap = {}
           /\ UNCHANGED <<stack, bitmapVars, mqtt_connected, session, answers>>
<1>1. Sized
  BY SizedHolds DEF MqttInv
<1>2. /\ At("begin") /\ Top.call = start_timer_node /\ ~inited /\ GoTo("done")
      /\ UNCHANGED <<stack, bitmapVars, mqtt_connected, session, answers>>
  BY DEF a_sys_mqtt_init, Begins, objectVars, libraryVars
<1>3. \A i \in DOMAIN stack : place[i] = "begin" /\ stack[i].call \in EarlyCall
  BY <1>2 DEF MqttInv, Started
<1>4. /\ stack # <<>> /\ n \in DOMAIN stack /\ n \in Nat /\ Top = stack[n]
  BY <1>2, Stands
<1>5. /\ place' \in Seq(Place) /\ Len(place') = n /\ place'[n] = "done"
      /\ \A i \in DOMAIN stack : i # n => place'[i] = place[i]
  BY <1>1, <1>2, <1>4, GoToPlaces, PlaceNames
<1>6. mqtt_interruptable_event_bitmap = {}
  BY <1>3, PlaceNames DEF MqttInv, OnlyInnermostWaits
<1>7. DOMAIN place = DOMAIN stack /\ DOMAIN place' = DOMAIN stack
  BY <1>1, <1>5 DEF Sized
<1> QED
  BY <1>2, <1>3, <1>4, <1>5, <1>6, <1>7

\* a_sys_mqtt_init is called.
LEMMA MqttStartInv == ASSUME MqttInv, a_sys_mqtt_init PROVE MqttInv'
<1> PICK n : n = Len(stack)
  OBVIOUS
<1>0. /\ inited' = TRUE /\ UNCHANGED <<pending_events, loop_stop, stack>>
      /\ timer_list' = remove_node_safe(timer_list, start_timer_node)
      /\ event_list' = Registered \o event_list
      /\ enabled' = [e \in EventNode |-> enabled[e] \/ e \in Range(Registered)]
      /\ events' = IF network_up THEN events \cup {mqtt_flag[NET_CHANGE]} ELSE events
      /\ UNCHANGED <<networkVars, libraryVars, objectVars>>
  BY DEF a_sys_mqtt_init
<1>1. /\ ~inited /\ n \in DOMAIN stack /\ stack[n].call = start_timer_node
      /\ \A i \in DOMAIN stack : place[i] = "begin"
      /\ DOMAIN place' = DOMAIN stack
      /\ place' \in Seq(Place) /\ Len(place') = n /\ place'[n] = "done"
      /\ \A i \in DOMAIN stack : i # n => place'[i] = place[i]
      /\ mqtt_interruptable_event_bitmap = {}
  BY Creation
<1>2. /\ DataInv /\ StackInv /\ FieldTypes /\ Started /\ Places /\ MainKeepsRunning
  BY InvSplit, TypesSplit DEF MqttInv
<1>3. UNCHANGED <<mqtt_connected, reported, network_up, mqtt_interruptable_event_bitmap>>
  BY <1>0 DEF objectVars, bitmapVars, networkVars
<1>4. event_list' \in Seq(EventNode) /\ IsInjective(event_list')
  <2>1. event_list \in Seq(EventNode) /\ IsInjective(event_list)
    BY <1>2 DEF DataInv, LinkedOnce
  <2>2. \A j \in DOMAIN event_list : event_list[j] \in AppEvent
    BY <1>1, <1>2 DEF Started, is_node_in
  <2>3. \A i \in DOMAIN Registered, j \in DOMAIN event_list : Registered[i] # event_list[j]
    BY <2>2, RegisteredNodes
  <2> QED
    BY <1>0, <2>1, <2>3, RegisteredNodes, Joined
<1>5. DataInv'
  <2>1. enabled' \in [EventNode -> BOOLEAN]
    BY <1>0
  <2>2. mqtt_flag[NET_CHANGE] \in Flag
    BY Nodes, MqttNodes
  <2>3. timer_list' \in Seq(TimerNode) /\ IsInjective(timer_list')
    BY <1>0, <1>2, RemoveKeeps DEF DataInv, LinkedOnce
  <2> QED
    BY <1>0, <1>2, <1>4, <2>1, <2>2, <2>3 DEF DataInv, LinkedOnce
<1>6. StackInv'
  <2>1. CursorLinked'
    <3>1. ASSUME NEW m, is_node_in(event_list, m) PROVE is_node_in(event_list', m)
      BY <1>0, <1>2, <3>1, RegisteredNodes, JoinedHas DEF DataInv
    <3> QED
      BY <1>0, <1>2, <3>1 DEF StackInv, CursorLinked
  <2> QED
    BY <1>0, <1>2, <2>1 DEF StackInv, Nested
<1>7. Inv'
  BY <1>5, <1>6, InvSplitPrime
<1>8. MqttTypeOK'
  BY <1>0, <1>1, <1>2 DEF MqttTypeOK, FieldTypes, networkVars, libraryVars, objectVars, bitmapVars
<1>9. Places' /\ MainKeepsRunning' /\ OnlyInnermostWaits'
  <2>1. Places'
    <3>1. stack'[n].call # NULL
      BY <1>0, <1>1, Nodes
    <3> QED
      BY <1>0, <1>1, <1>2, <3>1 DEF Places
  <2>2. MainKeepsRunning' /\ OnlyInnermostWaits'
    BY <1>0, <1>1, <1>2, <1>3 DEF MainKeepsRunning, OnlyInnermostWaits
  <2> QED
    BY <2>1, <2>2
<1>10. Started'
  BY <1>0 DEF Started
<1>11. Trying'
  BY <1>0, <1>3 DEF Trying, NetChangeOwed
<1>12. TellsConnection'
  BY <1>0, <1>1, <1>2, <1>3 DEF Started, TellsConnection
<1>13. TellsNetwork'
  <2>1. ~reported'.net
    BY <1>0, <1>1, <1>2, <1>3 DEF Started
  <2>2. CASE network_up
    BY <1>0, <2>2 DEF TellsNetwork, NetChangeOwed
  <2>3. CASE ~network_up
    BY <1>3, <2>1, <2>3 DEF TellsNetwork
  <2> QED
    BY <2>2, <2>3
<1> QED
  BY <1>7, <1>8, <1>9, <1>10, <1>11, <1>12, <1>13 DEF MqttInv

\* What is linked after a node is inserted was linked before, or is that node.
LEMMA InsertedNode ==
    ASSUME NEW S, NEW list \in Seq(S), NEW e \in S,
           NEW m, is_node_in(insert_node_safe(list, e), m)
    PROVE  is_node_in(list, m) \/ m = e
<1>1. CASE is_node_in(list, e)
  BY <1>1 DEF insert_node_safe
<1>2. CASE ~is_node_in(list, e)
  <2> DEFINE q == <<e>> \o list
  <2>1. q = insert_node_safe(list, e)
    BY <1>2 DEF insert_node_safe
  <2>2. PICK i \in DOMAIN q : q[i] = m
    BY <2>1 DEF is_node_in
  <2>3. \/ i = 1 /\ q[i] = e
        \/ i - 1 \in DOMAIN list /\ q[i] = list[i - 1]
    BY <2>2
  <2> QED
    BY <2>2, <2>3 DEF is_node_in
<1> QED
  BY <1>1, <1>2

\* The application registers its handlers and main enters the loop.
LEMMA ApplicationStartInv == ASSUME MqttInv, application_start PROVE MqttInv'
<1>0. stack = <<>> /\ UNCHANGED <<inited, networkVars, libraryVars, objectVars>>
  BY DEF application_start
<1>1. /\ DOMAIN stack = {} /\ Len(stack) = 0 /\ DOMAIN place = {} /\ place = <<>>
      /\ mqtt_interruptable_event_bitmap = {} /\ ~loop_stop
  BY <1>0, NoActivation
<1>2. /\ Inv /\ FieldTypes
      /\ place \in Seq(Place) /\ Len(place) = Len(stack) /\ Started
  BY TypesSplit DEF MqttInv
<1>3. /\ UNCHANGED <<mqtt_connected, reported, network_up, net_callback,
                     mqtt_interruptable_event_bitmap>>
      /\ FieldTypes'
  BY <1>0, <1>2 DEF objectVars, bitmapVars, networkVars, libraryVars, FieldTypes
<1>4. ASSUME NEW e \in AppEvent, a_eventloop_register_event(e), UNCHANGED place
      PROVE  MqttInv'
  <2>1. e \in EventNode
    BY MqttNodes
  <2>2. Inv'
    BY <1>2, <1>4, <2>1, ClientStepInv DEF EventOperation
  <2>3. /\ event_list' = insert_node_safe(event_list, e)
        /\ UNCHANGED <<events, pending_events, timer_list, loop_stop, stack>>
    BY <1>4 DEF a_eventloop_register_event, flagVars
  <2>4. Started'
    <3>1. event_list \in Seq(EventNode)
      BY <1>2 DEF Inv, TypeOK
    <3>2. \A m : is_node_in(event_list', m) => is_node_in(event_list, m) \/ m = e
      BY <2>1, <2>3, <3>1, InsertedNode
    <3> QED
      BY <1>0, <1>1, <1>2, <1>3, <2>3, <3>2 DEF Started, libraryVars
  <2>5. RetryArmed' = RetryArmed /\ NetChangeOwed' = NetChangeOwed
    BY <1>3, <2>3 DEF RetryArmed, NetChangeOwed, is_node_in
  <2>6. MqttTypeOK'
    BY <1>2, <1>3, <1>4, <2>3 DEF MqttTypeOK, FieldTypes
  <2>7. Places' /\ MainKeepsRunning' /\ OnlyInnermostWaits'
    BY <1>1, <1>3, <2>3 DEF Places, MainKeepsRunning, OnlyInnermostWaits
  <2>8. Trying' /\ TellsConnection' /\ TellsNetwork'
    BY <1>0, <1>1, <1>3, <2>5 DEF MqttInv, Trying, TellsConnection, TellsNetwork
  <2> QED
    BY <2>2, <2>4, <2>6, <2>7, <2>8 DEF MqttInv
<1>5. ASSUME a_eventloop(TRUE), place' = <<"begin">>
      PROVE  MqttInv'
  <2>1. Inv'
    BY <1>2, <1>5, EnterInv DEF EnterLoop
  <2>2. /\ stack' = Append(stack, Waiting(TRUE))
        /\ UNCHANGED <<events, pending_events, timer_list, event_list, loop_stop>>
    BY <1>5 DEF a_eventloop, flagVars, listVars
  <2>3. Len(stack') = 1 /\ DOMAIN stack' = 1 .. 1
    <3>1. stack \in Seq(Frame) /\ Waiting(TRUE) \in Frame
      BY <1>2 DEF Inv, TypeOK, Frame, Waiting
    <3>2. Len(stack') = Len(stack) + 1 /\ DOMAIN stack' = 1 .. Len(stack) + 1
      BY <2>2, <3>1, PushFrames
    <3> QED
      BY <1>1, <3>2
  <2>4. place' \in Seq(Place) /\ Len(place') = 1 /\ place'[1] = "begin"
    BY <1>5 DEF Place
  <2>5. Places' /\ MainKeepsRunning' /\ OnlyInnermostWaits'
    <3>1. \A i \in DOMAIN stack' : i = 1
      BY <2>3
    <3>2. \A i \in DOMAIN stack' : place'[i] = "begin" /\ ~(i < Len(stack'))
      BY <2>3, <2>4, <3>1
    <3>3. Places'
      BY <3>2 DEF Places
    <3>4. MainKeepsRunning'
      BY <1>1, <2>2 DEF MainKeepsRunning
    <3>5. OnlyInnermostWaits'
      BY <1>1, <1>3 DEF OnlyInnermostWaits
    <3> QED
      BY <3>3, <3>4, <3>5
  <2>6. RetryArmed' = RetryArmed /\ NetChangeOwed' = NetChangeOwed
    BY <1>3, <2>2 DEF RetryArmed, NetChangeOwed, is_node_in
  <2>7. MqttTypeOK'
    BY <1>3, <2>3, <2>4 DEF MqttTypeOK, FieldTypes
  <2>8. Trying' /\ TellsConnection' /\ TellsNetwork'
    BY <1>0, <1>1, <1>3, <2>6 DEF MqttInv, Trying, TellsConnection, TellsNetwork
  <2>9. Started'
    <3>1. \A i \in DOMAIN stack' : i = 1
      BY <2>3
    <3>2. stack'[1].call = NULL
      <4>1. stack \in Seq(Frame) /\ Waiting(TRUE) \in Frame
        BY <1>2 DEF Inv, TypeOK, Frame, Waiting
      <4>2. stack'[Len(stack) + 1] = Waiting(TRUE)
        BY <2>2, <4>1, PushFrames
      <4> QED
        BY <1>1, <4>2 DEF Waiting
    <3>3. \A i \in DOMAIN stack' : place'[i] = "begin" /\ stack'[i].call \in EarlyCall
      BY <2>4, <3>1, <3>2 DEF EarlyCall
    <3> QED
      BY <1>0, <1>2, <1>3, <2>2, <3>3 DEF Started, libraryVars, is_node_in
  <2> QED
    BY <2>1, <2>5, <2>7, <2>8, <2>9 DEF MqttInv
<1>6. ASSUME ~inited, a_eventloop_register_timer(start_timer_node), UNCHANGED place
      PROVE  MqttInv'
  <2>1. start_timer_node \in TimerNode
    BY Nodes
  <2>2. Inv'
    BY <1>2, <1>6, <2>1, ClientStepInv DEF TimerOperation
  <2>3. /\ timer_list' = insert_node_safe(timer_list, start_timer_node)
        /\ stack' = Rearm(stack, start_timer_node)
        /\ UNCHANGED <<events, pending_events, event_list, loop_stop>>
    BY <1>6 DEF a_eventloop_register_timer, flagVars
  <2>4. Len(stack') = 0 /\ DOMAIN stack' = {}
    <3>1. stack \in Seq(Frame)
      BY <1>2 DEF Inv, TypeOK
    <3>2. stack' \in Seq(Frame) /\ Len(stack') = Len(stack)
      BY <2>3, <3>1, RearmFrames
    <3> QED
      BY <1>1, <3>2
  <2>5. Started'
    <3>1. timer_list \in Seq(TimerNode)
      BY <1>2 DEF Inv, TypeOK
    <3>2. \A m : is_node_in(timer_list', m) => is_node_in(timer_list, m) \/ m = start_timer_node
      BY <2>1, <2>3, <3>1, InsertedNode
    <3> QED
      BY <1>0, <1>2, <1>3, <1>6, <2>3, <2>4, <3>2 DEF Started, libraryVars, is_node_in
  <2>6. MqttTypeOK'
    BY <1>1, <1>2, <1>3, <1>6, <2>4 DEF MqttTypeOK, FieldTypes
  <2>7. Places' /\ MainKeepsRunning' /\ OnlyInnermostWaits'
    BY <1>1, <1>3, <2>3, <2>4 DEF Places, MainKeepsRunning, OnlyInnermostWaits
  <2>8. Trying' /\ TellsNetwork'
    BY <1>0, <1>6 DEF Trying, TellsNetwork
  <2>9. TellsConnection'
    BY <1>2, <1>3, <1>6 DEF Started, TellsConnection
  <2> QED
    BY <2>2, <2>5, <2>6, <2>7, <2>8, <2>9 DEF MqttInv
<1> QED
  BY <1>4, <1>5, <1>6 DEF application_start

\* In the beginning nothing is believed and nothing was told.
LEMMA MqttInitInv == ASSUME MqttInit PROVE MqttInv
<1>1. /\ Init /\ inited = FALSE /\ network_up \in BOOLEAN /\ net_callback = FALSE
      /\ session = FALSE /\ answers = {} /\ mqtt_connected = FALSE
      /\ mqtt_pending_event_bitmap = {} /\ mqtt_interruptable_event_bitmap = {}
      /\ reported = [net |-> FALSE, mqtt |-> FALSE] /\ place = <<>>
  BY DEF MqttInit
<1>2. stack = <<>> /\ event_list = <<>> /\ timer_list = <<>> /\ loop_stop = FALSE
  BY <1>1 DEF Init
<1>3. DOMAIN stack = {} /\ DOMAIN event_list = {} /\ DOMAIN timer_list = {}
  BY <1>2
<1>4. MqttTypeOK
  <2>1. place \in Seq(Place) /\ Len(place) = Len(stack)
    BY <1>1, <1>2, EmptySeq
  <2> QED
    BY <1>1, <2>1 DEF MqttTypeOK
<1>5. Started
  BY <1>1, <1>2, <1>3 DEF Started, is_node_in
<1>6. Places /\ OnlyInnermostWaits /\ MainKeepsRunning
  BY <1>1, <1>2, <1>3 DEF Places, OnlyInnermostWaits, MainKeepsRunning
<1>7. Trying /\ TellsConnection /\ TellsNetwork
  BY <1>1 DEF Trying, TellsConnection, TellsNetwork
<1> QED
  BY <1>1, <1>4, <1>5, <1>6, <1>7, InitInv DEF MqttInv

\* No handler of the client is called, and nothing requested, before it is created.
LEMMA HandlerInited == ASSUME MqttInv, Handler, ~callback_returns PROVE inited
<1> SUFFICES ASSUME ~inited PROVE FALSE
  OBVIOUS
<1>1. ASSUME NEW q, At(q) PROVE q = "begin" /\ Top.call \in EarlyCall
  BY <1>1, Stands DEF MqttInv, Started
<1>2. /\ retry_timer_node \notin EarlyCall
      /\ \A k \in Kind : mqtt_event_node[k] \notin EarlyCall
  BY Nodes, MqttNodes, NodesDistinct DEF EarlyCall
<1>3. ~mqtt_retry_cb /\ ~net_is_up /\ ~net_is_down
  BY <1>1, <1>2, Nodes DEF mqtt_retry_cb, net_is_up, net_is_down, NetChange, Begins
<1>4. \A q : ~mqtt_app_close(q) /\ ~close_returns(q)
  BY <1>1 DEF mqtt_app_close, close_returns, inner_loop_returns
<1>5. ~mqtt_app_open /\ ~open_returns /\ ~report
  BY <1>1 DEF mqtt_app_open, open_returns, report, inner_loop_returns
<1>6. \A k \in Answer : ~event_mqtt(k)
  BY <1>1, <1>2, Nodes DEF event_mqtt, Begins
<1>7. \A k \in Request : ~request(k) /\ ~request_returns(k)
  <2>1. ~session
    BY DEF MqttInv, Started
  <2>2. \A k \in Request : k # "begin"
    BY PlaceNames
  <2> QED
    BY <1>1, <2>1, <2>2 DEF request, request_returns, inner_loop_returns
<1> QED
  BY <1>3, <1>4, <1>5, <1>6, <1>7 DEF Handler

\* Every handler keeps the invariant.
LEMMA HandlersInv == ASSUME MqttInv, Handler PROVE MqttInv'
<1>1. CASE callback_returns
  BY <1>1, ReturnsInv
<1>2. CASE ~callback_returns
  <2>1. inited
    BY <1>2, HandlerInited
  <2> QED
    BY <1>2, <2>1, RetryCallbackInv, NetChangeInv, CloseInv, CloseReturnsInv, OpenInv,
       OpenReturnsInv, ReportInv, EventInv, RequestInv, RequestReturnsInv DEF Handler
<1> QED
  BY <1>1, <1>2

\* So does every step.
LEMMA MqttNextInv == MqttInv /\ [MqttNext]_mqttVars => MqttInv'
<1> SUFFICES ASSUME MqttInv, [MqttNext]_mqttVars PROVE MqttInv'
  OBVIOUS
<1>1. CASE MqttNext
  BY <1>1, MqttLoopInv, HandlersInv, ExternalInv, MqttStartInv, ApplicationStartInv DEF MqttNext
<1>2. CASE UNCHANGED mqttVars
  <2>1. UNCHANGED vars /\ UNCHANGED <<inited, networkVars, libraryVars, objectVars, place>>
    BY <1>2 DEF mqttVars
  <2>2. Inv'
    BY <2>1, NextInv DEF MqttInv
  <2>3. FieldTypes'
    BY <2>1, TypesSplit DEF MqttInv, FieldTypes, networkVars, libraryVars, objectVars, bitmapVars
  <2>4. UNCHANGED <<stack, timer_list, event_list, loop_stop, session>>
    BY <2>1 DEF vars, libraryVars
  <2>5. UNCHANGED network_up /\ (NetChangeOwed => NetChangeOwed')
    BY <2>1 DEF vars, networkVars, NetChangeOwed
  <2> QED
    BY <2>1, <2>2, <2>3, <2>4, <2>5, OutsideInv
<1> QED
  BY <1>1, <1>2

\* The inductive invariant holds in every state of the client (sys_mqtt.c).
THEOREM MqttInvHolds == MqttSpec => []MqttInv
BY MqttInitInv, MqttNextInv, PTL DEF MqttSpec

(***************************************************************************)
(* What it is for                                                          *)
(***************************************************************************)

\* When main's activation waits, nobody has anything left to do.
LEMMA IdlePlaces ==
    ASSUME MqttInv, Idle
    PROVE  \A i \in DOMAIN stack : ~Tries(i) /\ ~Tells(i) /\ ~Looks(i)
<1>1. stack # <<>> /\ Top.call = NULL /\ Len(stack) = 1
  BY DEF Idle, Running
<1>2. Len(stack) \in DOMAIN stack /\ ~Tries(Len(stack)) /\ ~Tells(Len(stack)) /\ ~Looks(Len(stack))
  BY <1>1, RunningPlace
<1>3. \A i \in DOMAIN stack : i = 1
  <2>1. DOMAIN stack = 1 .. Len(stack)
    BY SizedHolds DEF MqttInv, Sized
  <2> QED
    BY <1>1, <2>1
<1> QED
  BY <1>1, <1>2, <1>3

LEMMA IdleFacts == MqttInv => NeverGivesUp /\ ReportedIsCurrent
<1> SUFFICES ASSUME MqttInv PROVE NeverGivesUp /\ ReportedIsCurrent
  OBVIOUS
<1>1. NeverGivesUp
  BY IdlePlaces DEF MqttInv, NeverGivesUp, Trying, RetryArmed
<1>2. FieldTypes
  BY TypesSplit DEF MqttInv
<1>3. ReportedIsCurrent
  <2> SUFFICES ASSUME Idle, inited
               PROVE  reported.mqtt = mqtt_connected /\ (reported.net = network_up \/ NetChangeOwed)
    BY DEF ReportedIsCurrent
  <2>1. reported.mqtt <=> mqtt_connected
    BY IdlePlaces DEF MqttInv, TellsConnection
  <2>2. (reported.net <=> network_up) \/ NetChangeOwed
    BY IdlePlaces DEF MqttInv, TellsNetwork
  <2>3. reported.mqtt \in BOOLEAN /\ reported.net \in BOOLEAN
        /\ mqtt_connected \in BOOLEAN /\ network_up \in BOOLEAN
    BY <1>2 DEF FieldTypes
  <2>4. reported.mqtt = mqtt_connected
    BY <2>1, <2>3
  <2>5. reported.net = network_up \/ NetChangeOwed
    BY <2>2, <2>3
  <2> QED
    BY <2>4, <2>5
<1> QED
  BY <1>1, <1>3

\* The fields of the object have their types, and each activation of the loop
\* has its handler's place.
THEOREM MqttTypesHold == MqttSpec => []MqttTypeOK
BY MqttInvHolds, PTL DEF MqttInv

\* Whatever handlers suspended each other, an idle client has not given up
\* (sys_mqtt.c:217, :229): it is connected, or retries, or has a change of the
\* network to handle, or has no network.
THEOREM NeverGivesUpHolds == MqttSpec => []NeverGivesUp
BY MqttInvHolds, IdleFacts, PTL

\* What an idle client told last (sys_mqtt.c:241) is what it believes.
THEOREM ReportedIsCurrentHolds == MqttSpec => []ReportedIsCurrent
BY MqttInvHolds, IdleFacts, PTL

\* No handler of the client ever stops main's activation of the loop.
THEOREM MainKeepsRunningHolds == MqttSpec => []MainKeepsRunning
BY MqttInvHolds, PTL DEF MqttInv

\* Of the handlers that wait, the innermost only can be interrupted, by the
\* answer it awaits or by the end of the session (sys_mqtt.c:30).
THEOREM OnlyInnermostWaitsHolds == MqttSpec => []OnlyInnermostWaits
BY MqttInvHolds, PTL DEF MqttInv

(***************************************************************************)
(* Success is not made up                                                  *)
(***************************************************************************)

\* The answer that a waiting handler finds in the bitmap was heard in its wait.
HeardInv ==
    /\ DOMAIN heard = DOMAIN place
    /\ \A i \in DOMAIN place :
          place[i] \in Waits /\ Awaited(place[i]) \subseteq mqtt_pending_event_bitmap => heard[i]

\* Who waits after the step has waited before it, for the same answer.
WaitsStand ==
    \A i \in DOMAIN place' : place'[i] \in Waits => i \in DOMAIN place /\ place'[i] = place[i]

\* The innermost handler's wait is over.
WaitEnds ==
    /\ mqtt_interruptable_event_bitmap' = {} /\ UNCHANGED mqtt_pending_event_bitmap
    /\ Len(place) \in DOMAIN place
    /\ place[Len(place)] \in Waits /\ place'[Len(place)] \notin Waits

\* An answer that is awaited comes.
Interrupted ==
    /\ UNCHANGED mqtt_interruptable_event_bitmap
    /\ \E k \in mqtt_interruptable_event_bitmap \cap Heard : mqtt_pending_event_bitmap' = {k}

\* No step of the loop adds an activation.
LEMMA LoopShrinks ==
    ASSUME Inv, LoopStep
    PROVE  Len(stack') \in 0 .. Len(stack)
<1>0. Inv' /\ stack \in Seq(Frame) /\ Len(stack) \in Nat
  BY LoopStepInv DEF Inv, TypeOK
<1>1. ASSUME NEW fr, stack # <<>>, SetTop(fr) PROVE Len(stack') = Len(stack)
  BY <1>0, <1>1, SetTopShape
<1>2. ASSUME stack # <<>>, Pop PROVE Len(stack') = Len(stack) - 1 /\ Len(stack) # 0
  BY <1>0, <1>2, PopFrames
<1>3. ASSUME NEW t \in TimerNode, expire(t) PROVE Len(stack') = Len(stack)
  <2> DEFINE r == Rearm(stack, t)
             n == Len(stack)
  <2>1. stack # <<>> /\ stack' = [r EXCEPT ![n] = [r[n] EXCEPT !.call = t]]
    BY <1>3 DEF expire, Running
  <2>2. r \in Seq(Frame) /\ Len(r) = n
    BY <1>0, RearmFrames
  <2> HIDE DEF r
  <2>3. n \in 1 .. Len(r) /\ r[n] \in Frame
    BY <1>0, <2>1, <2>2, ElementOfSeq
  <2>4. [r[n] EXCEPT !.call = t] \in Frame
    BY <2>3 DEF Frame, Node
  <2>5. Len(stack') = Len(r)
    BY <2>1, <2>2, <2>3, <2>4, ExceptSeq
  <2> QED
    BY <2>2, <2>5
<1>4. Len(stack') = Len(stack) \/ (Len(stack') = Len(stack) - 1 /\ Len(stack) # 0)
  BY <1>1, <1>2, <1>3
     DEF LoopStep, wait_for_event_flags, dispatch, skip, stop, process_timer, iterate, time_out,
         ScanOver, Running
<1> QED
  BY <1>0, <1>4

\* What a step does to the waits and to the bitmap of answers.
LEMMA BitmapSteps ==
    ASSUME MqttInv, MqttNext
    PROVE  \/ mqtt_pending_event_bitmap' = {}
           \/ WaitsStand /\ UNCHANGED bitmapVars
           \/ WaitsStand /\ WaitEnds
           \/ WaitsStand /\ Interrupted
<1>0. Sized
  BY SizedHolds DEF MqttInv
<1>1. ASSUME NEW p \in Place \ Waits, GoTo(p) PROVE WaitsStand
  BY <1>1 DEF GoTo, WaitsStand
<1>2. ASSUME UNCHANGED place PROVE WaitsStand
  BY <1>2 DEF WaitsStand
<1>w. ASSUME NEW q \in Waits, inner_loop_returns(q), NEW p \in Place \ Waits, GoTo(p),
             UNCHANGED mqtt_pending_event_bitmap
      PROVE  WaitsStand /\ WaitEnds
  <2>1. /\ stack # <<>> /\ place[Len(place)] = q
        /\ mqtt_interruptable_event_bitmap' = {}
    BY <1>w DEF inner_loop_returns, At
  <2>2. Len(place) \in DOMAIN place /\ place'[Len(place)] = p
    BY <1>0, <1>w, <2>1, GoToPlaces DEF Sized
  <2> QED
    BY <1>1, <1>w, <2>1, <2>2 DEF WaitEnds
<1>3. CASE MqttLoopStep
  <2>1. LoopStep /\ place' = SubSeq(place, 1, Len(stack')) /\ UNCHANGED bitmapVars
    BY <1>3 DEF MqttLoopStep, objectVars
  <2>2. PICK m : m = Len(stack')
    OBVIOUS
  <2>3. m \in 0 .. Len(stack)
    BY <2>1, <2>2, LoopShrinks DEF MqttInv
  <2>4. place' \in Seq(Place) /\ Len(place') = m /\ \A i \in 1 .. m : place'[i] = place[i]
    BY <1>0, <2>1, <2>2, <2>3, KeptPlaces
  <2>5. \A i \in DOMAIN place' : i \in 1 .. m /\ i \in DOMAIN place
    BY <1>0, <2>3, <2>4 DEF Sized
  <2> QED
    BY <2>1, <2>4, <2>5 DEF WaitsStand
<1>4. CASE External
  <2>1. UNCHANGED place /\ UNCHANGED bitmapVars
    BY <1>4 DEF External, network_change, _net_event, mqtt_connection_event_cb, session_drops,
                app_event, objectVars
  <2> QED
    BY <1>2, <2>1
<1>13. CASE a_sys_mqtt_init
  BY <1>1, <1>13, PlaceNames DEF a_sys_mqtt_init, objectVars
<1>5. CASE application_start
  <2>1. UNCHANGED bitmapVars /\ (UNCHANGED place \/ place' = <<"begin">>)
    BY <1>5 DEF application_start, objectVars
  <2>2. ASSUME place' = <<"begin">> PROVE WaitsStand
    <3>1. \A i \in DOMAIN place' : place'[i] = "begin"
      BY <2>2
    <3> QED
      BY <3>1, PlaceNames DEF WaitsStand
  <2> QED
    BY <1>2, <2>1, <2>2
<1>6. ASSUME NEW k \in Answer, event_mqtt(k)
      PROVE  \/ WaitsStand /\ UNCHANGED bitmapVars
             \/ WaitsStand /\ Interrupted
  <2>1. CASE interrupt(k)
    <3>1. /\ mqtt_pending_event_bitmap' = {k} /\ GoTo("done") /\ Begins(mqtt_event_node[k])
          /\ k \in mqtt_interruptable_event_bitmap /\ UNCHANGED mqtt_interruptable_event_bitmap
      BY <1>6, <2>1 DEF interrupt, event_mqtt
    <3>2. place[Len(place)] = "begin" /\ stack # <<>>
      BY <3>1 DEF Begins, At
    <3>3. place'[Len(place)] = "done"
      BY <1>0, <3>1, <3>2, PlaceNames, GoToPlaces DEF Sized
    <3>4. k \in Heard
      BY <3>1, <3>2, <3>3 DEF Heard
    <3> QED
      BY <1>1, <3>1, <3>4, PlaceNames DEF Interrupted
  <2>2. CASE UNCHANGED bitmapVars /\ (GoTo("net_change") \/ GoTo("done"))
    BY <1>1, <2>2, PlaceNames
  <2> QED
    BY <1>6, <2>1, <2>2 DEF event_mqtt, bitmapVars
<1>7. ASSUME NEW q, mqtt_app_close(q) \/ close_returns(q)
      PROVE  \/ mqtt_pending_event_bitmap' = {}
             \/ WaitsStand /\ UNCHANGED bitmapVars
             \/ WaitsStand /\ WaitEnds
  <2>1. AfterClose(q) \in Place \ Waits
    BY PlaceNames DEF AfterClose
  <2>2. CASE mqtt_app_close(q)
    BY <1>1, <2>1, <2>2 DEF mqtt_app_close, mqtt_inner_event_loop
  <2>3. CASE close_returns(q)
    BY <1>w, <2>1, <2>3, PlaceNames DEF close_returns
  <2> QED
    BY <1>7, <2>2, <2>3
<1>8. CASE mqtt_app_open
  BY <1>1, <1>8, PlaceNames DEF mqtt_app_open, mqtt_inner_event_loop
<1>9. ASSUME NEW k \in Request, request(k) \/ request_returns(k)
      PROVE  \/ mqtt_pending_event_bitmap' = {}
             \/ WaitsStand /\ WaitEnds
  <2>1. CASE request(k)
    BY <2>1 DEF request, mqtt_inner_event_loop
  <2>2. CASE request_returns(k)
    BY <1>w, <2>2, PlaceNames DEF request_returns
  <2> QED
    BY <1>9, <2>1, <2>2
<1>10. CASE open_returns
  BY <1>w, <1>10, PlaceNames DEF open_returns
<1>11. CASE mqtt_retry_cb \/ net_is_up \/ net_is_down \/ report \/ callback_returns
  <2>1. UNCHANGED bitmapVars
    BY <1>11 DEF mqtt_retry_cb, net_is_up, net_is_down, report, callback_returns, objectVars
  <2>2. \E p \in {"net_change", "close_up", "open", "close_down", "report", "done", "begin"} :
           GoTo(p)
    BY <1>11 DEF mqtt_retry_cb, net_is_up, net_is_down, report, callback_returns
  <2> QED
    BY <1>1, <2>1, <2>2, PlaceNames
<1>12. CASE Handler
  BY <1>6, <1>7, <1>8, <1>9, <1>10, <1>11, <1>12 DEF Handler
<1> QED
  BY <1>3, <1>4, <1>5, <1>12, <1>13 DEF MqttNext

\* Every wait is for something.
LEMMA AwaitsSomething == \A p \in Waits : Awaited(p) # {}
BY DEF Waits, Awaited

LEMMA HeardStep == ASSUME MqttInv, HeardInv, AnswersNext PROVE HeardInv'
<1>1. MqttNext /\ DOMAIN heard' = DOMAIN place'
      /\ \A i \in DOMAIN place' :
            heard'[i] = (StillWaits(i) /\ (heard[i] \/ Awaited(place[i]) \subseteq Heard))
  BY DEF AnswersNext, Listen
<1>2. ASSUME NEW i \in DOMAIN place', place'[i] \in Waits,
             Awaited(place'[i]) \subseteq mqtt_pending_event_bitmap'
      PROVE  heard'[i]
  <2>1. mqtt_pending_event_bitmap' # {}
    BY <1>2, AwaitsSomething
  <2>2. /\ WaitsStand
        /\ \/ UNCHANGED mqtt_pending_event_bitmap
           \/ mqtt_pending_event_bitmap' \subseteq Heard
    BY <1>1, <2>1, BitmapSteps DEF bitmapVars, WaitEnds, Interrupted
  <2>3. i \in DOMAIN place /\ place'[i] = place[i]
    BY <1>2, <2>2 DEF WaitsStand
  <2>4. StillWaits(i) /\ Awaited(place[i]) \subseteq mqtt_pending_event_bitmap'
    BY <1>2, <2>3 DEF StillWaits
  <2>5. heard[i] \/ Awaited(place[i]) \subseteq Heard
    BY <1>2, <2>2, <2>3, <2>4 DEF HeardInv
  <2> QED
    BY <1>1, <2>4, <2>5
<1> QED
  BY <1>1, <1>2 DEF HeardInv

\* SysMqttAnswers only records what SysMqtt does: its invariant holds, and that
\* of the record.
LEMMA AnswersInvHolds == AnswersSpec => [](MqttInv /\ HeardInv)
<1>1. AnswersInit => MqttInv /\ HeardInv
  <2> SUFFICES ASSUME AnswersInit PROVE MqttInv /\ HeardInv
    OBVIOUS
  <2>1. MqttInit /\ heard = <<>> /\ place = <<>>
    BY DEF AnswersInit, MqttInit
  <2> QED
    BY <2>1, MqttInitInv DEF HeardInv
<1>2. MqttInv /\ HeardInv /\ [AnswersNext]_answerVars => (MqttInv /\ HeardInv)'
  <2> SUFFICES ASSUME MqttInv, HeardInv, [AnswersNext]_answerVars PROVE (MqttInv /\ HeardInv)'
    OBVIOUS
  <2>1. CASE AnswersNext
    BY <2>1, MqttNextInv, HeardStep DEF AnswersNext
  <2>2. CASE UNCHANGED answerVars
    <3>1. UNCHANGED mqttVars /\ UNCHANGED heard
      BY <2>2 DEF answerVars
    <3>2. UNCHANGED <<place, mqtt_pending_event_bitmap>>
      BY <3>1 DEF mqttVars, objectVars, bitmapVars
    <3> QED
      BY <3>1, <3>2, MqttNextInv DEF HeardInv
  <2> QED
    BY <2>1, <2>2
<1> QED
  BY <1>1, <1>2, PTL DEF AnswersSpec

\* mqtt_inner_event_loop (sys_mqtt.c:37) returns WICED_SUCCESS only to a handler
\* whose answer was heard since its wait began.
THEOREM SuccessHeardHolds == AnswersSpec => []SuccessHeard
<1>1. MqttInv /\ HeardInv => SuccessHeard
  <2> SUFFICES ASSUME MqttInv, HeardInv, Returning, Answered PROVE heard[Len(stack)]
    BY DEF SuccessHeard
  <2>1. PICK p \in Waits : At(p)
    BY DEF Returning
  <2>2. Len(stack) \in DOMAIN stack /\ place[Len(stack)] = p
    BY <2>1, Stands
  <2>3. Len(place) = Len(stack) /\ DOMAIN place = DOMAIN stack
    BY SizedHolds DEF MqttInv, Sized
  <2> QED
    BY <2>1, <2>2, <2>3 DEF Answered, HeardInv
<1> QED
  BY <1>1, AnswersInvHolds, PTL

(***************************************************************************)
(* A connection that is believed in                                        *)
(***************************************************************************)

\* The handler of the session's end begins.
EndBegins(i) ==
    place[i] = "begin" /\ stack[i].call = mqtt_event_node[DISCONNECTED]

\* The session lasts, or its end is still to be noticed.
EndOwed ==
    \/ session
    \/ DISCONNECTED \in answers
    \/ mqtt_flag[DISCONNECTED] \in events \cup pending_events
    \/ \E i \in DOMAIN place : EndBegins(i)

Stand(P) == \E i \in DOMAIN place : place[i] \in P

\* Who is about to close, or waits for nothing but the close, believes in none.
CloseForgets ==
    /\ Stand({"close_up", "close_down"}) => ~mqtt_connected
    /\ mqtt_interruptable_event_bitmap = {DISCONNECTED} => ~mqtt_connected

\* As long as the answer to the open is awaited, the session was not lost
\* unnoticed; if the answer came, it is awaited still, and by the innermost.
OpenNotices ==
    /\ CONNECT_REQ \in mqtt_interruptable_event_bitmap => EndOwed
    /\ \A i \in DOMAIN place :
          place[i] = "opening" /\ CONNECT_REQ \in mqtt_pending_event_bitmap =>
              /\ CONNECT_REQ \in mqtt_interruptable_event_bitmap
              /\ \A j \in DOMAIN place : j > i => place[j] \notin Waits

Noticed == mqtt_connected => EndOwed \/ Stand({"net_change"})

BelievesInv ==
    /\ CloseForgets
    /\ ~misled => ~OpensNested(place) /\ OpenNotices /\ Noticed

\* A handler's step moves it alone; an activation that it enters calls nobody.
MovesTop(n) ==
    /\ n \in DOMAIN place /\ DOMAIN place \subseteq DOMAIN place'
    /\ \A i \in DOMAIN place : i # n =>
          place'[i] = place[i] /\ stack'[i].call = stack[i].call
    /\ \A i \in DOMAIN place' : i \notin DOMAIN place => place'[i] = "begin"
    /\ UNCHANGED <<events, pending_events>>

LEMMA StaysMoves ==
    ASSUME MqttInv, NEW q, At(q), NEW p \in Place, GoTo(p),
           UNCHANGED vars \/ Retry \/ CancelRetry \/ a_eventloop_break,
           NEW n, n = Len(stack)
    PROVE  MovesTop(n) /\ place'[n] = p
<1>1. Sized /\ Inv
  BY SizedHolds DEF MqttInv
<1>2. stack # <<>>
  BY DEF At
<1>3. /\ stack' \in Seq(Frame) /\ Len(stack') = Len(stack)
      /\ \A i \in 1 .. Len(stack) : stack'[i].call = stack[i].call
      /\ UNCHANGED <<events, pending_events, event_list>>
  BY <1>1, SameFrames
<1>4. /\ place' \in Seq(Place) /\ Len(place') = n
      /\ n \in DOMAIN stack
      /\ place'[n] = p
      /\ \A i \in DOMAIN stack : i # n => place'[i] = place[i]
  BY <1>1, <1>2, GoToPlaces
<1>5. DOMAIN place' = DOMAIN place /\ DOMAIN place = 1 .. Len(stack) /\ DOMAIN stack = 1 .. Len(stack)
  BY <1>1, <1>4 DEF Sized
<1> QED
  BY <1>3, <1>4, <1>5 DEF MovesTop

LEMMA EntersMoves ==
    ASSUME MqttInv, NEW q, At(q), NEW p \in Waits, NEW k, mqtt_inner_event_loop(k, p),
           NEW n, n = Len(stack)
    PROVE  MovesTop(n) /\ place'[n] = p
<1>1. Sized
  BY SizedHolds DEF MqttInv
<1>2. stack # <<>>
  BY DEF At
<1>3. /\ Len(stack') = n + 1 /\ n \in Nat /\ DOMAIN stack = 1 .. n /\ n \in 1 .. n
      /\ \A i \in DOMAIN stack : stack'[i].call = stack[i].call
      /\ place' \in Seq(Place) /\ Len(place') = n + 1
      /\ place'[n] = p /\ place'[n + 1] = "begin"
      /\ \A i \in DOMAIN stack : i # n => place'[i] = place[i]
      /\ UNCHANGED <<events, pending_events>>
  BY <1>1, <1>2, EnterShape
<1>4. DOMAIN place = 1 .. n /\ DOMAIN place' = 1 .. n + 1
  BY <1>1, <1>3 DEF Sized
<1>5. \A i \in DOMAIN place' : i \notin DOMAIN place => i = n + 1
  BY <1>3, <1>4
<1> QED
  BY <1>3, <1>4, <1>5 DEF MovesTop

LEMMA HandlerMoves ==
    ASSUME MqttInv, Handler, NEW n, n = Len(stack)
    PROVE  /\ MovesTop(n)
           /\ place'[n] \in {"close_up", "close_down"} => ~mqtt_connected'
<1>1. ASSUME NEW q, At(q), NEW p \in Place \ {"close_up", "close_down"}, GoTo(p),
             UNCHANGED vars \/ Retry \/ CancelRetry \/ a_eventloop_break
      PROVE  MovesTop(n) /\ place'[n] \notin {"close_up", "close_down"}
  BY <1>1, StaysMoves
<1>2. ASSUME NEW q, At(q), NEW p \in Waits, NEW k, mqtt_inner_event_loop(k, p)
      PROVE  MovesTop(n) /\ place'[n] \notin {"close_up", "close_down"}
  BY <1>2, EntersMoves, PlaceNames
<1>3. CASE mqtt_retry_cb
  BY <1>1, <1>3, PlaceNames DEF mqtt_retry_cb, Begins
<1>4. CASE net_is_up \/ net_is_down
  <2>1. PICK q \in {"begin", "net_change"}, p \in {"close_up", "close_down", "open", "report"} :
           At(q) /\ GoTo(p)
    BY <1>4 DEF net_is_up, net_is_down, NetChange, Begins
  <2>2. (UNCHANGED vars \/ CancelRetry) /\ ~mqtt_connected'
    BY <1>4 DEF net_is_up, net_is_down
  <2> QED
    BY <2>1, <2>2, PlaceNames, StaysMoves
<1>5. ASSUME NEW q, mqtt_app_close(q) \/ close_returns(q)
      PROVE  MovesTop(n) /\ place'[n] \notin {"close_up", "close_down"}
  <2>1. AfterClose(q) \in Place \ {"close_up", "close_down"}
    BY PlaceNames DEF AfterClose
  <2> QED
    BY <1>1, <1>2, <1>5, <2>1, PlaceNames DEF mqtt_app_close, close_returns, inner_loop_returns
<1>6. CASE mqtt_app_open
  BY <1>1, <1>2, <1>6, PlaceNames DEF mqtt_app_open
<1>7. CASE open_returns
  BY <1>1, <1>7, PlaceNames DEF open_returns, inner_loop_returns
<1>8. CASE report
  BY <1>1, <1>8, PlaceNames DEF report
<1>9. ASSUME NEW k \in Answer, event_mqtt(k)
      PROVE  MovesTop(n) /\ place'[n] \notin {"close_up", "close_down"}
  BY <1>1, <1>9, PlaceNames DEF event_mqtt, interrupt, Begins
<1>10. ASSUME NEW k \in Request, request(k) \/ request_returns(k)
       PROVE  MovesTop(n) /\ place'[n] \notin {"close_up", "close_down"}
  BY <1>1, <1>2, <1>10, PlaceNames DEF request, request_returns, inner_loop_returns, Begins
<1>11. CASE callback_returns
  <2>1. /\ stack # <<>> /\ GoTo("begin") /\ SetTop(AfterCall)
        /\ UNCHANGED <<events, pending_events>>
    BY <1>11 DEF callback_returns, handler_returns, flagVars
  <2>2. Sized /\ Inv /\ Inv'
    BY <1>11, SizedHolds, ReturnInv DEF MqttInv, callback_returns
  <2>3. \A i \in DOMAIN stack : i # n => stack'[i] = stack[i]
    BY <2>1, <2>2, SetTopShape
  <2>4. /\ place' \in Seq(Place) /\ Len(place') = n /\ n \in DOMAIN stack
        /\ place'[n] = "begin"
        /\ \A i \in DOMAIN stack : i # n => place'[i] = place[i]
    BY <2>1, <2>2, GoToPlaces, PlaceNames
  <2>5. DOMAIN place' = DOMAIN place /\ DOMAIN place = DOMAIN stack
    BY <2>2, <2>4 DEF Sized
  <2> QED
    BY <2>1, <2>3, <2>4, <2>5 DEF MovesTop
<1> QED
  BY <1>3, <1>4, <1>5, <1>6, <1>7, <1>8, <1>9, <1>10, <1>11 DEF Handler

\* The end of the session is noticed by its own handler only.
LEMMA EndHandler ==
    ASSUME MqttInv, Handler, At("begin"), Top.call = mqtt_event_node[DISCONNECTED]
    PROVE  event_mqtt(DISCONNECTED)
<1>1. place[Len(place)] = "begin"
  BY DEF At
<1>2. /\ Top.call \notin {retry_timer_node, start_timer_node} \cup AppEvent
      /\ Top.call # mqtt_event_node[NET_CHANGE]
  BY Nodes, PlaceNames
<1>3. \A k \in Answer : Top.call = mqtt_event_node[k] => k = DISCONNECTED
  BY MqttNodes, Nodes, PlaceNames DEF IsInjective
<1>4. ~mqtt_retry_cb /\ ~net_is_up /\ ~net_is_down /\ ~callback_returns
  BY <1>1, <1>2 DEF mqtt_retry_cb, net_is_up, net_is_down, callback_returns, NetChange, Begins, At
<1>5. ~mqtt_app_open /\ ~open_returns /\ ~report
  BY <1>1 DEF mqtt_app_open, open_returns, report, inner_loop_returns, At
<1>6. \A q : ~mqtt_app_close(q) /\ ~close_returns(q)
  BY <1>1 DEF mqtt_app_close, close_returns, inner_loop_returns, At
<1>7. \A k \in Request : ~request(k) /\ ~request_returns(k)
  <2>1. \A k \in Request : k # "begin"
    BY PlaceNames
  <2> QED
    BY <1>1, <1>2, <2>1 DEF request, request_returns, inner_loop_returns, Begins, At
<1>8. \A k \in Answer : event_mqtt(k) => k = DISCONNECTED
  BY <1>3 DEF event_mqtt, Begins
<1> QED
  BY <1>4, <1>5, <1>6, <1>7, <1>8 DEF Handler

\* It goes on from its beginning, so that SysMqttAnswers hears it.
LEMMA EndHeard ==
    ASSUME MqttInv, event_mqtt(DISCONNECTED)
    PROVE  /\ DISCONNECTED \in Heard
           /\ \/ DISCONNECTED \in mqtt_interruptable_event_bitmap
              \/ /\ DISCONNECTED \notin mqtt_interruptable_event_bitmap
                 /\ Stand({"net_change"})'
<1> PICK n : n = Len(stack)
  OBVIOUS
<1>1. /\ Begins(mqtt_event_node[DISCONNECTED]) /\ DISCONNECTED \in Answer
      /\ \/ /\ GoTo("done") /\ a_eventloop_break
            /\ DISCONNECTED \in mqtt_interruptable_event_bitmap
         \/ /\ GoTo("net_change") /\ CancelRetry
            /\ DISCONNECTED \notin mqtt_interruptable_event_bitmap
  BY DEF event_mqtt, interrupt
<1>2. At("begin")
  BY <1>1 DEF Begins
<1>3. PICK p \in {"done", "net_change"} :
        /\ GoTo(p) /\ (CancelRetry \/ a_eventloop_break)
        /\ \/ DISCONNECTED \in mqtt_interruptable_event_bitmap
           \/ DISCONNECTED \notin mqtt_interruptable_event_bitmap /\ p = "net_change"
  BY <1>1
<1>4. MovesTop(n) /\ place'[n] = p
  BY <1>2, <1>3, StaysMoves, PlaceNames
<1>5. place[n] = "begin" /\ n \in DOMAIN place' /\ place' # place
  BY <1>2, <1>3, <1>4, Stands DEF MovesTop
<1> QED
  BY <1>1, <1>3, <1>4, <1>5 DEF Heard, Stand

\* Between the calls nobody's handler begins or stands elsewhere than in a wait.
LEMMA LoopPlaces ==
    ASSUME MqttInv, MqttLoopStep
    PROVE  /\ \A i \in DOMAIN place : ~EndBegins(i) /\ place[i] \in Waits \cup {"begin"}
           /\ \A i \in DOMAIN place' : i \in DOMAIN place /\ place'[i] = place[i]
<1> PICK n : n = Len(stack)
  OBVIOUS
<1>1. Sized
  BY SizedHolds DEF MqttInv
<1>2. /\ LoopStep /\ place' = SubSeq(place, 1, Len(stack'))
      /\ stack # <<>> /\ Top.call = NULL
  BY DEF MqttLoopStep, LoopStep, wait_for_event_flags, dispatch, skip, stop, process_timer, expire,
         iterate, time_out, ScanOver, Running
<1>3. place[n] = "begin" /\ stack[n].call = NULL /\ n \in Nat
  BY <1>2, RunningPlace
<1>4. \A i \in DOMAIN place : i # n => place[i] \in Waits
  <2>1. \A i \in DOMAIN place : i # n => i < Len(stack) /\ i \in DOMAIN stack
    BY <1>1, <1>3 DEF Sized
  <2> QED
    BY <2>1 DEF MqttInv, Places
<1>5. mqtt_event_node[DISCONNECTED] # NULL
  BY Nodes, PlaceNames
<1>6. PICK m : m = Len(stack')
  OBVIOUS
<1>7. m \in 0 .. Len(stack)
  BY <1>2, <1>6, LoopShrinks DEF MqttInv
<1>8. place' \in Seq(Place) /\ Len(place') = m /\ \A i \in 1 .. m : place'[i] = place[i]
  BY <1>1, <1>2, <1>6, <1>7, KeptPlaces
<1>9. \A i \in DOMAIN place' : i \in 1 .. m /\ i \in DOMAIN place
  BY <1>1, <1>3, <1>7, <1>8 DEF Sized
<1>10. \A i \in DOMAIN place : ~EndBegins(i)
  BY <1>3, <1>4, <1>5, PlaceNames DEF EndBegins
<1> QED
  BY <1>3, <1>4, <1>8, <1>9, <1>10

\* The end of the session is forgotten by nobody but its handler.
LEMMA EndKept ==
    ASSUME MqttInv, MqttNext, EndOwed
    PROVE  EndOwed' \/ event_mqtt(DISCONNECTED) \/ OpenRefused
<1> PICK n : n = Len(stack)
  OBVIOUS
<1> PICK f : f = mqtt_flag[DISCONNECTED]
  OBVIOUS
<1>0. Sized /\ Inv /\ DISCONNECTED \in Kind
  BY SizedHolds, Nodes, PlaceNames DEF MqttInv
<1>1. CASE MqttLoopStep
  <2>1. LoopStep /\ UNCHANGED <<session, answers>> /\ Inv'
    BY <1>0, <1>1, LoopStepInv DEF MqttLoopStep, libraryVars
  <2>2. session \/ DISCONNECTED \in answers \/ f \in events \cup pending_events
    BY <1>0, <1>1, LoopPlaces DEF EndOwed
  <2>3. ASSUME NEW e \in EventNode, dispatch(e), f \in events \cup pending_events PROVE EndOwed'
    <3>1. /\ stack # <<>> /\ Top.call = NULL /\ UNCHANGED events
          /\ pending_events' = pending_events \ Mask[e]
      BY <2>3 DEF dispatch, Running
    <3>2. CASE f \notin Mask[e]
      BY <2>3, <3>1, <3>2 DEF EndOwed
    <3>3. CASE f \in Mask[e]
      <4>1. e = mqtt_event_node[DISCONNECTED]
        BY <1>0, <3>3, MqttNodes
      <4>2. PICK fr : fr = [Top EXCEPT !.call = e]
        OBVIOUS
      <4>3. SetTop(fr)
        BY <2>3, <4>2 DEF dispatch
      <4>4. fr.call = e
        <5>1. Top \in Frame
          BY <1>0, <3>1, TopFrame DEF Inv, TypeOK
        <5> QED
          BY <4>2, <5>1 DEF Frame
      <4>5. Len(stack') = Len(stack) /\ n \in DOMAIN stack /\ stack'[n] = fr
        BY <1>0, <2>1, <3>1, <4>3, SetTopShape
      <4>6. place[n] = "begin" /\ n \in Nat
        BY <3>1, RunningPlace
      <4>7. place' = SubSeq(place, 1, n) /\ n \in 0 .. Len(stack)
        BY <1>1, <4>5, <4>6 DEF MqttLoopStep
      <4>8. place' \in Seq(Place) /\ Len(place') = n /\ \A i \in 1 .. n : place'[i] = place[i]
        BY <1>0, <4>7, KeptPlaces
      <4>9. n \in DOMAIN place' /\ n \in 1 .. n
        BY <1>0, <4>5, <4>8 DEF Sized
      <4> QED
        BY <4>1, <4>4, <4>5, <4>6, <4>8, <4>9 DEF EndOwed, EndBegins
    <3> QED
      BY <3>2, <3>3
  <2>4. ASSUME f \in events \cup pending_events PROVE EndOwed'
    <3>1. CASE \E e \in EventNode : dispatch(e)
      BY <2>3, <2>4, <3>1
    <3>2. CASE ~\E e \in EventNode : dispatch(e)
      <4>1. f \in events' \cup pending_events'
        BY <2>1, <2>4, <3>2
           DEF LoopStep, wait_for_event_flags, skip, stop, process_timer, expire, iterate,
               time_out, flagVars, TakeFlags
      <4> QED
        BY <4>1 DEF EndOwed
    <3> QED
      BY <3>1, <3>2
  <2> QED
    BY <2>1, <2>2, <2>4 DEF EndOwed
<1>2. CASE External
  <2>1. UNCHANGED <<stack, place>> /\ events \subseteq events' /\ UNCHANGED pending_events
    BY <1>2 DEF External, network_change, _net_event, mqtt_connection_event_cb, session_drops,
                app_event, a_eventloop_set_flag, vars
  <2>2. \/ UNCHANGED <<session, answers>>
        \/ /\ session' = session \/ session' = FALSE
           /\ \E k \in Answer : answers' = answers \ {k} /\ events' = events \cup {mqtt_flag[k]}
        \/ answers' = {DISCONNECTED}
    BY <1>2 DEF External, network_change, _net_event, mqtt_connection_event_cb, session_drops,
                app_event, a_eventloop_set_flag, libraryVars
  <2>3. (\E i \in DOMAIN place : EndBegins(i)) => \E i \in DOMAIN place' : EndBegins(i)'
    BY <2>1 DEF EndBegins
  <2> QED
    BY <2>1, <2>2, <2>3 DEF EndOwed, OpenRefused
<1>3. CASE a_sys_mqtt_init \/ application_start
  <2>1. \A i \in DOMAIN place : ~EndBegins(i)
    <3>1. mqtt_event_node[DISCONNECTED] \notin EarlyCall
      BY <1>0, Nodes, MqttNodes, NodesDistinct DEF EarlyCall
    <3>2. CASE a_sys_mqtt_init
      BY <3>1, <3>2, Creation DEF EndBegins
    <3>3. CASE application_start
      BY <3>3, NoActivation DEF application_start
    <3> QED
      BY <1>3, <3>2, <3>3
  <2>2. /\ UNCHANGED <<session, answers, pending_events>> /\ events \subseteq events'
    BY <1>3 DEF a_sys_mqtt_init, application_start, libraryVars, a_eventloop_register_event,
                a_eventloop_register_timer, a_eventloop, flagVars
  <2> QED
    BY <2>1, <2>2 DEF EndOwed
<1>4. CASE Handler
  <2>1. (session => session' \/ DISCONNECTED \in answers') /\ answers \subseteq answers'
    BY <1>4 DEF Handler, mqtt_retry_cb, net_is_up, net_is_down, mqtt_app_close, close_returns,
                mqtt_app_open, open_returns, report, event_mqtt, request, request_returns,
                callback_returns, libraryVars
  <2>2. MovesTop(n)
    BY <1>4, HandlerMoves
  <2>3. ASSUME NEW i \in DOMAIN place, EndBegins(i)
        PROVE  EndOwed' \/ event_mqtt(DISCONNECTED)
    <3>1. CASE i # n
      BY <2>2, <2>3, <3>1 DEF MovesTop, EndBegins, EndOwed
    <3>2. CASE i = n
      <4>1. PICK q : At(q)
        BY <1>4 DEF Handler, mqtt_retry_cb, net_is_up, net_is_down, mqtt_app_close, close_returns,
                    mqtt_app_open, open_returns, report, event_mqtt, request, request_returns,
                    callback_returns, inner_loop_returns, Begins, NetChange
      <4>2. Top = stack[n] /\ place[n] = q
        BY <4>1, Stands
      <4>3. At("begin") /\ Top.call = mqtt_event_node[DISCONNECTED]
        BY <2>3, <3>2, <4>1, <4>2 DEF EndBegins
      <4> QED
        BY <1>4, <4>3, EndHandler
    <3> QED
      BY <3>1, <3>2
  <2>4. UNCHANGED <<events, pending_events>>
    BY <2>2 DEF MovesTop
  <2> QED
    BY <2>1, <2>3, <2>4 DEF EndOwed
<1> QED
  BY <1>1, <1>2, <1>3, <1>4 DEF MqttNext

\* What a step does to the answers that end a wait, and to what is believed.
LEMMA BitmapSet ==
    ASSUME MqttInv, MqttNext
    PROVE  \/ mqtt_interruptable_event_bitmap' = {}
           \/ UNCHANGED mqtt_interruptable_event_bitmap
           \/ /\ mqtt_interruptable_event_bitmap' = {DISCONNECTED}
              /\ Stand({"close_up", "close_down"}) /\ UNCHANGED mqtt_connected
           \/ mqtt_interruptable_event_bitmap' = {DISCONNECTED, CONNECT_REQ} /\ session'
           \/ \E k \in Request : mqtt_interruptable_event_bitmap' = {DISCONNECTED, k}
<1>1. ASSUME NEW q, mqtt_app_close(q), mqtt_inner_event_loop(DISCONNECTED, IF q = "close_up"
                                                       THEN "closing_up" ELSE "closing_down")
      PROVE  /\ mqtt_interruptable_event_bitmap' = {DISCONNECTED}
             /\ Stand({"close_up", "close_down"}) /\ UNCHANGED mqtt_connected
  <2>1. /\ At(q) /\ q \in {"close_up", "close_down"} /\ UNCHANGED mqtt_connected
        /\ mqtt_interruptable_event_bitmap' = {DISCONNECTED}
    BY <1>1 DEF mqtt_app_close, mqtt_inner_event_loop
  <2>2. Len(stack) \in DOMAIN place /\ place[Len(stack)] = q
    BY <2>1, Stands, SizedHolds DEF MqttInv, Sized
  <2> QED
    BY <2>1, <2>2 DEF Stand
<1>2. ASSUME NEW q, mqtt_app_close(q) \/ close_returns(q)
      PROVE  \/ mqtt_interruptable_event_bitmap' = {}
             \/ UNCHANGED mqtt_interruptable_event_bitmap
             \/ /\ mqtt_interruptable_event_bitmap' = {DISCONNECTED}
                /\ Stand({"close_up", "close_down"}) /\ UNCHANGED mqtt_connected
  BY <1>1, <1>2 DEF mqtt_app_close, close_returns, inner_loop_returns, bitmapVars
<1>3. CASE mqtt_app_open
  BY <1>3 DEF mqtt_app_open, mqtt_inner_event_loop, bitmapVars
<1>4. ASSUME NEW k \in Request, request(k) \/ request_returns(k)
      PROVE  \/ mqtt_interruptable_event_bitmap' = {}
             \/ mqtt_interruptable_event_bitmap' = {DISCONNECTED, k}
  BY <1>4 DEF request, request_returns, inner_loop_returns, mqtt_inner_event_loop
<1>5. CASE mqtt_retry_cb \/ net_is_up \/ net_is_down \/ open_returns \/ report \/ callback_returns
  BY <1>5 DEF mqtt_retry_cb, net_is_up, net_is_down, open_returns, report, callback_returns,
              inner_loop_returns, objectVars, bitmapVars
<1>6. ASSUME NEW k \in Answer, event_mqtt(k) PROVE UNCHANGED mqtt_interruptable_event_bitmap
  BY <1>6 DEF event_mqtt
<1>7. CASE MqttLoopStep \/ External \/ a_sys_mqtt_init \/ application_start
  BY <1>7 DEF MqttLoopStep, External, network_change, _net_event, mqtt_connection_event_cb,
              session_drops, app_event, a_sys_mqtt_init, application_start, objectVars, bitmapVars
<1>8. CASE Handler
  BY <1>2, <1>3, <1>4, <1>5, <1>6, <1>8 DEF Handler
<1> QED
  BY <1>7, <1>8 DEF MqttNext

LEMMA BelievedFrom ==
    ASSUME MqttInv, MqttNext, mqtt_connected'
    PROVE  \/ mqtt_connected /\ ~net_is_up /\ ~net_is_down
           \/ open_returns /\ At("opening") /\ CONNECT_REQ \in mqtt_pending_event_bitmap
                  /\ mqtt_interruptable_event_bitmap' = {}
<1>1. CASE open_returns
  BY <1>1 DEF open_returns, inner_loop_returns, Success, net_is_up, net_is_down
<1>2. CASE net_is_up \/ net_is_down
  BY <1>2 DEF net_is_up, net_is_down
<1>3. CASE ~open_returns /\ ~net_is_up /\ ~net_is_down
  <2>1. UNCHANGED mqtt_connected
    BY <1>3 DEF MqttNext, Handler, mqtt_retry_cb, mqtt_app_close, close_returns, mqtt_app_open,
                report, event_mqtt, request, request_returns, callback_returns, MqttLoopStep,
                External, network_change, _net_event, mqtt_connection_event_cb, session_drops,
                app_event, a_sys_mqtt_init, application_start, objectVars
  <2> QED
    BY <1>3, <2>1
<1> QED
  BY <1>1, <1>2, <1>3

\* The awaited answers always have the session's end among them.
LEMMA EndAwaited ==
    ASSUME MqttInv, mqtt_interruptable_event_bitmap # {}
    PROVE  DISCONNECTED \in mqtt_interruptable_event_bitmap
BY DEF MqttInv, OnlyInnermostWaits

\* Nothing but the change's own handler ends it.
LEMMA ChangeStands ==
    ASSUME MqttInv, MqttNext, Stand({"net_change"}), ~net_is_up, ~net_is_down
    PROVE  Stand({"net_change"})'
<1> PICK n : n = Len(stack)
  OBVIOUS
<1>0. PICK i \in DOMAIN place : place[i] = "net_change"
  BY DEF Stand
<1>1. "net_change" \notin Waits \cup {"begin"}
  BY PlaceNames
<1>2. ~MqttLoopStep
  BY <1>0, <1>1, LoopPlaces
<1>3. CASE External
  <2>1. UNCHANGED place
    BY <1>3 DEF External, network_change, _net_event, mqtt_connection_event_cb, session_drops,
                app_event
  <2> QED
    BY <1>0, <2>1 DEF Stand
<1>4. ~a_sys_mqtt_init /\ ~application_start
  <2>1. ~application_start
    BY <1>0, NoActivation DEF application_start
  <2>2. ~a_sys_mqtt_init
    BY <1>0, Creation
  <2> QED
    BY <2>1, <2>2
<1>5. CASE Handler
  <2>1. MovesTop(n)
    BY <1>5, HandlerMoves
  <2>2. CASE i # n
    BY <1>0, <2>1, <2>2 DEF MovesTop, Stand
  <2>3. CASE i = n
    <3>1. PICK q : At(q)
      BY <1>5 DEF Handler, mqtt_retry_cb, net_is_up, net_is_down, mqtt_app_close, close_returns,
                  mqtt_app_open, open_returns, report, event_mqtt, request, request_returns,
                  callback_returns, inner_loop_returns, Begins, NetChange
    <3>2. place[n] = q /\ Len(place) = n
      BY <3>1, Stands, SizedHolds DEF MqttInv, Sized
    <3>3. place[Len(place)] = "net_change"
      BY <1>0, <2>3, <3>2
    <3>4. ~mqtt_retry_cb /\ ~mqtt_app_open /\ ~open_returns /\ ~report /\ ~callback_returns
      BY <3>3 DEF mqtt_retry_cb, mqtt_app_open, open_returns, report, callback_returns,
                  inner_loop_returns, Begins, At
    <3>5. \A p : ~mqtt_app_close(p) /\ ~close_returns(p)
      BY <3>3 DEF mqtt_app_close, close_returns, inner_loop_returns, At
    <3>6. \A k \in Request : ~request(k) /\ ~request_returns(k)
      <4>1. \A k \in Request : k # "net_change"
        BY PlaceNames
      <4> QED
        BY <3>3, <4>1 DEF request, request_returns, inner_loop_returns, Begins, At
    <3>7. \A k \in Answer : ~event_mqtt(k)
      BY <3>3 DEF event_mqtt, Begins, At
    <3> QED
      BY <1>5, <3>4, <3>5, <3>6, <3>7 DEF Handler
  <2> QED
    BY <2>2, <2>3
<1> QED
  BY <1>2, <1>3, <1>4, <1>5 DEF MqttNext

\* Who closes has just stopped believing.
LEMMA CloseForgetsStep ==
    ASSUME MqttInv, CloseForgets, MqttNext
    PROVE  CloseForgets'
<1> PICK n : n = Len(stack)
  OBVIOUS
<1>0. Sized
  BY SizedHolds DEF MqttInv
<1>1. ASSUME Stand({"close_up", "close_down"})' PROVE ~mqtt_connected'
  <2>1. PICK i \in DOMAIN place' : place'[i] \in {"close_up", "close_down"}
    BY <1>1 DEF Stand
  <2>2. CASE MqttLoopStep
    <3>1. place'[i] \in Waits \cup {"begin"}
      BY <2>2, LoopPlaces
    <3> QED
      BY <2>1, <3>1, PlaceNames
  <2>3. CASE External
    <3>1. UNCHANGED <<place, mqtt_connected>>
      BY <2>3 DEF External, network_change, _net_event, mqtt_connection_event_cb, session_drops,
                  app_event, objectVars
    <3> QED
      BY <2>1, <3>1 DEF CloseForgets, Stand
  <2>6. CASE a_sys_mqtt_init
    <3>1. place'[i] \in {"begin", "done"}
      BY <2>1, <2>6, Creation
    <3> QED
      BY <2>1, <3>1
  <2>4. CASE application_start
    <3>1. place' = place \/ place' = <<"begin">>
      BY <2>4 DEF application_start
    <3>2. DOMAIN place = {}
      BY <2>4, NoActivation DEF application_start
    <3>3. ASSUME place' = <<"begin">> PROVE place'[i] = "begin"
      BY <2>1, <3>3
    <3> QED
      BY <2>1, <3>1, <3>2, <3>3
  <2>5. CASE Handler
    <3>1. MovesTop(n) /\ (place'[n] \in {"close_up", "close_down"} => ~mqtt_connected')
      BY <2>5, HandlerMoves
    <3>2. i \in DOMAIN place
      BY <2>1, <3>1 DEF MovesTop
    <3>3. i = n
      <4>1. n \in Nat /\ DOMAIN place = 1 .. n /\ DOMAIN stack = 1 .. n
        BY <1>0 DEF Sized
      <4>2. i # n => place[i] \in Waits /\ place'[i] = place[i]
        BY <3>1, <3>2, <4>1 DEF MqttInv, Places, MovesTop
      <4> QED
        BY <2>1, <4>2, PlaceNames
    <3> QED
      BY <2>1, <3>1, <3>3
  <2> QED
    BY <2>2, <2>3, <2>4, <2>5, <2>6 DEF MqttNext
<1>2. ASSUME mqtt_interruptable_event_bitmap' = {DISCONNECTED}, mqtt_connected' PROVE FALSE
  <2>1. mqtt_connected
    BY <1>2, BelievedFrom
  <2>2. \A k \in Request : {DISCONNECTED, k} # {DISCONNECTED}
    BY MqttNodes DEF DISCONNECTED
  <2>3. {DISCONNECTED, CONNECT_REQ} # {DISCONNECTED}
    BY DEF DISCONNECTED, CONNECT_REQ
  <2>4. \/ UNCHANGED mqtt_interruptable_event_bitmap
        \/ Stand({"close_up", "close_down"})
    BY <1>2, <2>2, <2>3, BitmapSet
  <2> QED
    BY <1>2, <2>1, <2>4 DEF CloseForgets
<1> QED
  BY <1>1, <1>2 DEF CloseForgets

\* An open that is alone takes no other's answer for its own.
LEMMA OpenAnswered ==
    ASSUME MqttInv, OpenNotices, MqttNext, ~OpensNested(place'),
           NEW i \in DOMAIN place', place'[i] = "opening",
           CONNECT_REQ \in mqtt_pending_event_bitmap'
    PROVE  /\ CONNECT_REQ \in mqtt_interruptable_event_bitmap'
           /\ \A j \in DOMAIN place' : j > i => place'[j] \notin Waits
<1>0. Sized
  BY SizedHolds DEF MqttInv
<1>1. "opening" \in Waits
  BY PlaceNames
<1>2. CASE WaitsStand /\ UNCHANGED bitmapVars
  <2>1. i \in DOMAIN place /\ place[i] = "opening" /\ CONNECT_REQ \in mqtt_pending_event_bitmap
    BY <1>1, <1>2 DEF WaitsStand, bitmapVars
  <2> QED
    BY <1>2, <2>1 DEF OpenNotices, WaitsStand, bitmapVars
<1>3. CASE WaitsStand /\ WaitEnds
  <2>1. i \in DOMAIN place /\ place[i] = "opening" /\ CONNECT_REQ \in mqtt_pending_event_bitmap
    BY <1>1, <1>3 DEF WaitsStand, WaitEnds
  <2>2. Len(place) \in DOMAIN place /\ place[Len(place)] \in Waits /\ place'[Len(place)] \notin Waits
    BY <1>3 DEF WaitEnds
  <2>3. i # Len(place)
    BY <1>1, <2>2
  <2>4. Len(place) > i
    BY <1>0, <2>1, <2>3 DEF Sized
  <2> QED
    BY <2>1, <2>2, <2>4 DEF OpenNotices
<1>4. CASE WaitsStand /\ Interrupted
  <2>1. /\ i \in DOMAIN place /\ place[i] = "opening"
        /\ CONNECT_REQ \in mqtt_interruptable_event_bitmap
        /\ CONNECT_REQ \in Heard /\ UNCHANGED mqtt_interruptable_event_bitmap
    BY <1>1, <1>4 DEF WaitsStand, Interrupted
  <2>2. PICK m \in DOMAIN stack :
           /\ place[m] \in Waits
           /\ mqtt_interruptable_event_bitmap = Awaited(place[m]) \cup {DISCONNECTED}
           /\ \A j \in DOMAIN stack : j > m => place[j] \notin Waits
    BY <2>1 DEF MqttInv, OnlyInnermostWaits
  <2>3. CONNECT_REQ \notin Request /\ CONNECT_REQ # DISCONNECTED
    BY MqttNodes DEF CONNECT_REQ, DISCONNECTED
  <2>4. place[m] = "opening"
    BY <2>1, <2>2, <2>3 DEF Awaited, Waits
  <2>5. m \in DOMAIN place' /\ place'[m] = "opening"
    <3> PICK n : n = Len(stack)
      OBVIOUS
    <3>1. Begins(mqtt_event_node[CONNECT_REQ]) /\ place' # place
      BY <2>1 DEF Heard
    <3>2. place[n] = "begin"
      BY <3>1, Stands DEF Begins
    <3>3. stack # <<>> /\ Top.call # NULL /\ Top.call \notin AppEvent
      BY <3>1, Nodes, PlaceNames DEF Begins, At
    <3>4. Handler
      <4>1. ~a_sys_mqtt_init /\ ~application_start
        BY <3>1, <3>3, Nodes, PlaceNames DEF a_sys_mqtt_init, application_start, Begins
      <4>2. ~External
        BY <3>1 DEF External, network_change, _net_event, mqtt_connection_event_cb, session_drops,
                    app_event
      <4>3. ~MqttLoopStep
        BY <3>3 DEF MqttLoopStep, LoopStep, wait_for_event_flags, dispatch, skip, stop,
                    process_timer, expire, iterate, time_out, ScanOver, Running
      <4> QED
        BY <4>1, <4>2, <4>3 DEF MqttNext
    <3>5. MovesTop(n)
      BY <3>4, HandlerMoves
    <3>6. m \in DOMAIN place /\ m # n
      BY <1>0, <1>1, <2>4, <3>2 DEF Sized
    <3> QED
      BY <2>4, <3>5, <3>6 DEF MovesTop
  <2>6. i = m
    <3>1. ~(i < m) /\ ~(m < i)
      BY <2>5 DEF OpensNested
    <3>2. i \in Nat /\ m \in Nat
      BY <1>0, <2>1, <2>2 DEF Sized
    <3> QED
      BY <3>1, <3>2
  <2>7. ASSUME NEW j \in DOMAIN place', j > i, place'[j] \in Waits PROVE FALSE
    <3>1. j \in DOMAIN place /\ place[j] \in Waits
      BY <1>4, <2>7 DEF WaitsStand
    <3>2. j \in DOMAIN stack
      BY <1>0, <3>1 DEF Sized
    <3> QED
      BY <2>2, <2>6, <2>7, <3>1, <3>2
  <2> QED
    BY <2>1, <2>7
<1> QED
  BY <1>2, <1>3, <1>4, BitmapSteps

\* A loss that only ends a wait, of whatever else, is recorded.
LEMMA EndNotTaken ==
    ASSUME MqttInv, event_mqtt(DISCONNECTED), ~LossTaken
    PROVE  mqtt_interruptable_event_bitmap \in {{}, {DISCONNECTED}}
BY EndHeard, EndAwaited DEF LossTaken

\* Every step keeps sight of the session.
LEMMA BelievesStep ==
    ASSUME MqttInv, BelievesInv, AnswersNext
    PROVE  BelievesInv'
<1>1. MqttNext /\ misled' = (misled \/ LossTaken \/ OpensNested(place') \/ OpenRefused)
  BY DEF AnswersNext, Remember
<1>2. CloseForgets'
  BY <1>1, CloseForgetsStep DEF BelievesInv
<1>3. ASSUME ~misled' PROVE ~OpensNested(place') /\ OpenNotices' /\ Noticed'
  <2>1. ~misled /\ ~LossTaken /\ ~OpensNested(place') /\ ~OpenRefused
    BY <1>1, <1>3
  <2>2. CloseForgets /\ OpenNotices /\ Noticed
    BY <2>1 DEF BelievesInv
  <2>3. ASSUME CONNECT_REQ \in mqtt_interruptable_event_bitmap' PROVE EndOwed'
    <3>1. CONNECT_REQ \notin Request /\ CONNECT_REQ # DISCONNECTED
      BY MqttNodes DEF CONNECT_REQ, DISCONNECTED
    <3>2. UNCHANGED mqtt_interruptable_event_bitmap \/ session'
      BY <1>1, <2>3, <3>1, BitmapSet
    <3>3. CASE session'
      BY <3>3 DEF EndOwed
    <3>4. CASE UNCHANGED mqtt_interruptable_event_bitmap
      <4>1. EndOwed
        BY <2>2, <2>3, <3>4 DEF OpenNotices
      <4>2. ~event_mqtt(DISCONNECTED)
        BY <2>1, <2>3, <3>1, <3>4, EndNotTaken
      <4> QED
        BY <1>1, <2>1, <4>1, <4>2, EndKept
    <3> QED
      BY <3>2, <3>3, <3>4
  <2>4. OpenNotices'
    BY <1>1, <2>1, <2>2, <2>3, OpenAnswered DEF OpenNotices
  <2>5. ASSUME mqtt_connected' PROVE EndOwed' \/ Stand({"net_change"})'
    <3>1. ASSUME EndOwed, ~event_mqtt(DISCONNECTED) PROVE EndOwed'
      BY <1>1, <2>1, <3>1, EndKept
    <3>2. CASE open_returns /\ At("opening") /\ CONNECT_REQ \in mqtt_pending_event_bitmap
      <4>1. Len(stack) \in DOMAIN place /\ place[Len(stack)] = "opening"
        BY <3>2, Stands, SizedHolds DEF MqttInv, Sized
      <4>2. EndOwed
        BY <2>2, <3>2, <4>1 DEF OpenNotices
      <4>3. ~event_mqtt(DISCONNECTED)
        BY <3>2 DEF At, event_mqtt, Begins
      <4> QED
        BY <3>1, <4>2, <4>3
    <3>3. CASE mqtt_connected /\ ~net_is_up /\ ~net_is_down
      <4>1. CASE event_mqtt(DISCONNECTED)
        <5>1. mqtt_interruptable_event_bitmap \in {{}, {DISCONNECTED}}
          BY <2>1, <4>1, EndNotTaken
        <5>2. mqtt_interruptable_event_bitmap # {DISCONNECTED}
          BY <2>2, <3>3 DEF CloseForgets
        <5>3. DISCONNECTED \notin mqtt_interruptable_event_bitmap
          BY <5>1, <5>2
        <5> QED
          BY <4>1, <5>3, EndHeard
      <4>2. CASE EndOwed /\ ~event_mqtt(DISCONNECTED)
        BY <3>1, <4>2
      <4>3. CASE Stand({"net_change"})
        BY <1>1, <3>3, <4>3, ChangeStands
      <4> QED
        BY <2>2, <3>3, <4>1, <4>2, <4>3 DEF Noticed
    <3> QED
      BY <1>1, <2>5, <3>2, <3>3, BelievedFrom
  <2> QED
    BY <2>1, <2>4, <2>5 DEF Noticed
<1> QED
  BY <1>2, <1>3 DEF BelievesInv

\* SysMqttAnswers never loses sight of the session but where it says so.
LEMMA BelievesInvHolds == AnswersSpec => [](MqttInv /\ BelievesInv)
<1>1. AnswersInit => MqttInv /\ BelievesInv
  <2> SUFFICES ASSUME AnswersInit PROVE MqttInv /\ BelievesInv
    OBVIOUS
  <2>1. /\ MqttInit /\ place = <<>> /\ mqtt_connected = FALSE
        /\ mqtt_interruptable_event_bitmap = {}
    BY DEF AnswersInit, MqttInit
  <2>2. DOMAIN place = {}
    BY <2>1
  <2>3. ~OpensNested(place)
    BY <2>2 DEF OpensNested
  <2> QED
    BY <2>1, <2>2, <2>3, MqttInitInv DEF BelievesInv, CloseForgets, OpenNotices, Noticed
<1>2. MqttInv /\ BelievesInv /\ [AnswersNext]_answerVars => (MqttInv /\ BelievesInv)'
  <2> SUFFICES ASSUME MqttInv, BelievesInv, [AnswersNext]_answerVars
               PROVE  (MqttInv /\ BelievesInv)'
    OBVIOUS
  <2>1. CASE AnswersNext
    BY <2>1, MqttNextInv, BelievesStep DEF AnswersNext
  <2>2. CASE UNCHANGED answerVars
    <3>1. UNCHANGED mqttVars /\ UNCHANGED misled
      BY <2>2 DEF answerVars
    <3>2. UNCHANGED <<place, stack, events, pending_events, session, answers, mqtt_connected,
                      mqtt_pending_event_bitmap, mqtt_interruptable_event_bitmap>>
      BY <3>1 DEF mqttVars, vars, libraryVars, objectVars, bitmapVars
    <3>3. CloseForgets' /\ EndOwed' = EndOwed /\ Stand({"net_change"})' = Stand({"net_change"})
      BY <3>2 DEF BelievesInv, CloseForgets, Stand, EndOwed, EndBegins
    <3>4. OpenNotices => OpenNotices'
      BY <3>2, <3>3 DEF OpenNotices
    <3>5. Noticed => Noticed'
      BY <3>2, <3>3 DEF Noticed
    <3> QED
      BY <3>1, <3>2, <3>3, <3>4, <3>5, MqttNextInv DEF BelievesInv
  <2> QED
    BY <2>1, <2>2
<1> QED
  BY <1>1, <1>2, PTL DEF AnswersSpec

\* An idle client that believes in its connection has one, or will be told that
\* it has none (sys_mqtt.c:244); misled names the three ways to lose sight of it.
THEOREM BelievesSessionHolds == AnswersSpec => []BelievesSession
<1>1. MqttInv /\ BelievesInv => BelievesSession
  <2> SUFFICES ASSUME MqttInv, BelievesInv, Idle, mqtt_connected, ~misled
               PROVE  \/ session
                      \/ DISCONNECTED \in answers
                      \/ mqtt_flag[DISCONNECTED] \in events \cup pending_events
    BY DEF BelievesSession
  <2>1. EndOwed \/ Stand({"net_change"})
    BY DEF BelievesInv, Noticed
  <2>2. stack # <<>> /\ Top.call = NULL /\ Len(stack) = 1
    BY DEF Idle, Running
  <2>3. place[1] = "begin" /\ stack[1].call = NULL
    BY <2>2, RunningPlace
  <2>4. \A i \in DOMAIN place : i = 1
    <3>1. DOMAIN place = 1 .. Len(stack)
      BY SizedHolds DEF MqttInv, Sized
    <3> QED
      BY <2>2, <3>1
  <2>5. mqtt_event_node[DISCONNECTED] # NULL
    BY Nodes, PlaceNames
  <2>6. ~Stand({"net_change"}) /\ \A i \in DOMAIN place : ~EndBegins(i)
    BY <2>3, <2>4, <2>5 DEF Stand, EndBegins
  <2> QED
    BY <2>1, <2>6 DEF EndOwed
<1> QED
  BY <1>1, BelievesInvHolds, PTL

(***************************************************************************)
(* The loop with the client keeps the loop's promise                       *)
(***************************************************************************)

\* Each step but the initialisation is one of the loop, or none of it.
LEMMA MqttIsLoopStep ==
    ASSUME MqttNext, ~a_sys_mqtt_init
    PROVE  [Next]_vars
<1> USE MqttNodes
<1>1. CASE MqttLoopStep
  BY <1>1 DEF MqttLoopStep, Next
<1>2. CASE Handler
  <2> USE DEF Retry, CancelRetry, mqtt_inner_event_loop, TimerOperation, EnterLoop
  <2>1. CASE mqtt_retry_cb \/ net_is_up \/ net_is_down
    BY <2>1 DEF mqtt_retry_cb, net_is_up, net_is_down, Next
  <2>2. ASSUME NEW p \in Place, mqtt_app_close(p) \/ close_returns(p) PROVE [Next]_vars
    BY <2>2 DEF mqtt_app_close, close_returns, Next
  <2>3. CASE mqtt_app_open \/ open_returns \/ report
    BY <2>3 DEF mqtt_app_open, open_returns, report, Next
  <2>4. ASSUME NEW k \in Answer, event_mqtt(k) PROVE [Next]_vars
    BY <2>4 DEF event_mqtt, interrupt, Next
  <2>5. ASSUME NEW k \in Request, request(k) \/ request_returns(k) PROVE [Next]_vars
    BY <2>5 DEF request, request_returns, Next
  <2>6. CASE callback_returns
    BY <2>6 DEF callback_returns, Next
  <2> QED
    BY <1>2, <2>1, <2>2, <2>3, <2>4, <2>5, <2>6 DEF Handler
<1>3. CASE External
  <2> USE DEF SetFlag, Next
  <2>1. CASE network_change \/ session_drops
    BY <2>1 DEF network_change, session_drops
  <2>2. CASE _net_event
    BY <2>2, Nodes DEF _net_event
  <2>3. ASSUME NEW k \in Answer, mqtt_connection_event_cb(k) PROVE [Next]_vars
    BY <2>3, Nodes DEF mqtt_connection_event_cb
  <2>4. CASE app_event
    BY <2>4 DEF app_event
  <2> QED
    BY <1>3, <2>1, <2>2, <2>3, <2>4 DEF External
<1>4. CASE application_start
  BY <1>4, Nodes DEF application_start, Next, EventOperation, TimerOperation, EnterLoop
<1> QED
  BY <1>1, <1>2, <1>3, <1>4 DEF MqttNext

\* The initialisation registers five nodes, takes one away and may signal the
\* network's flag.
LEMMA MqttPromise ==
    ASSUME Inv, Inv', [MqttNext]_mqttVars
    PROVE  [Promise!Next]_(Promise!vars)
<1>1. CASE a_sys_mqtt_init
  <2>1. InClient /\ stack' = stack
    BY <1>1 DEF a_sys_mqtt_init, Begins, At, InClient
  <2>2. CallStack' = CallStack
    BY <2>1 DEF CallStack
  <2>3. Owed' = Owed \/ Owed' = Owed \cup {mqtt_flag[NET_CHANGE]}
    BY <1>1 DEF a_sys_mqtt_init, Owed
  <2>4. mqtt_flag[NET_CHANGE] \in Flag
    BY Nodes, MqttNodes
  <2> QED
    BY <2>1, <2>2, <2>3, <2>4, RegisterPromise
<1>2. CASE MqttNext /\ ~a_sys_mqtt_init
  BY <1>2, MqttIsLoopStep, NextPromise
<1>3. CASE UNCHANGED mqttVars
  BY <1>3, NextPromise DEF mqttVars
<1> QED
  BY <1>1, <1>2, <1>3

\* The client waits for its answers in inner activations, at any depth, and breaks
\* them, but the loop beneath it is still what other handlers rely on
\* (sys_mqtt.c:33): no flag of theirs is lost in the nesting.
THEOREM MqttKeepsPromise == MqttSpec => KeepsPromise
<1>1. MqttInit => Promise!Init
  BY InitPromise DEF MqttInit
<1>2. Inv /\ Inv' /\ [MqttNext]_mqttVars => [Promise!Next]_(Promise!vars)
  BY MqttPromise
<1>3. MqttSpec => []Inv
  BY MqttInvHolds, PTL DEF MqttInv
<1> QED
  BY <1>1, <1>2, <1>3, PTL DEF MqttSpec, KeepsPromise, Promise!Spec
=============================================================================
