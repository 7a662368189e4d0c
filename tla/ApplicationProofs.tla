------------------------- MODULE ApplicationProofs -------------------------
(***************************************************************************)
(* Proofs about the upgrade and the example, each by itself and for every  *)
(* value of its constants, and about the seven components of MCComponents  *)
(* together.                                                               *)
(***************************************************************************)
EXTENDS MCComponents, PeripheralProofs, JsonProofs, FiniteSetTheorems, TLAPS

(***************************************************************************)
(* The upgrade, for images, slots and limits of any size: what is selected *)
(* was verified, and what every exit releases.                *)
(***************************************************************************)

Tls == IF args.use_tls THEN {"tls"} ELSE {}
Connected == {"socket"} \cup Tls

\* What has been acquired at each stage; nothing else is at that stage.
HeldAt ==
    /\ stage \in {"idle", "lookup", "socket", "connect", "stream", "request", "status",
                  "headers", "app", "body", "hash", "verify", "select", "rebooting"}
    /\ stage \in {"lookup", "socket", "select", "rebooting"} => held = {}
    /\ stage \in {"connect", "stream"} => held = Connected
    /\ stage = "request" => held = Connected \cup {"stream"}
    /\ stage \in {"status", "headers", "app"} => held = Connected \cup {"stream", "buf"}
    /\ stage = "body" => held = Connected \cup {"stream", "buf", "app"}
    /\ stage = "hash" => held = {"buf"}
    /\ stage = "verify" => held = {"buf", "app"}
    /\ stage \in {"status", "headers", "app", "body"} => args.path

\* Nothing is received before the slot is erased, and from then on nothing is
\* selected; the hash has been compared once it is
\* behind, and so has the slot.
Unselected ==
    /\ len \in Nat
    /\ stage \in {"lookup", "socket", "connect", "stream", "request", "status", "headers", "app"}
          => received = <<>>
    /\ stage \in {"body", "hash", "verify", "select"} => chosen = {} /\ len <= SlotSize
    /\ stage = "body" => Len(slot) = Len(received)
    /\ stage \in {"verify", "select"} => HashMatches
    /\ stage = "select" => slot = received

UpgradeInv == UpgradeTypeOK /\ Released /\ BootsVerified /\ HeldAt /\ Unselected

LEMMA UpgradeInitInv == UpgradeInit => UpgradeInv
  <1> SUFFICES ASSUME UpgradeInit PROVE UpgradeInv
    OBVIOUS
  <1> USE UpgradeConstants DEF UpgradeInit
  <1>1. Cardinality(chosen) = 0
    BY FS_EmptySet
  <1>2. args \in Args
    BY DEF Args
  <1>3. received \in Seq(Chunk) /\ slot \in Seq(Chunk \cup {"damaged"}) /\ Len(received) = 0 /\ Len(slot) = 0
    OBVIOUS
  <1>4. UpgradeTypeOK
    BY <1>1, <1>2, <1>3 DEF UpgradeTypeOK
  <1>5. QED
    BY <1>4 DEF UpgradeInv, Released, Leaked, BootsVerified, HeldAt, Unselected, Nothing

\* Steps that only acquire something, or release and return.
LEMMA AttemptInv ==
    ASSUME UpgradeInv,
           \/ hostname_lookup \/ create_socket \/ tcp_connect \/ stream_init
           \/ no_path \/ send_request \/ read_status
    PROVE  UpgradeInv'
  <1> USE UpgradeConstants DEF UpgradeInv, Attempt, GoTo, flashVars
  <1> USE DEF hostname_lookup, create_socket, tcp_connect, stream_init, no_path, send_request, read_status
  <1>1. UpgradeTypeOK'
    BY DEF UpgradeTypeOK, return_error, return_error_with_socket, return_error_with_stream
  <1>2. HeldAt'
    BY DEF HeldAt, Connected, Tls
  <1>3. Released'
    BY DEF Released, Leaked, HeldAt, Connected, Tls,
           return_error, return_error_with_socket, return_error_with_stream
  <1>4. BootsVerified'
    BY DEF BootsVerified
  <1>5. Unselected'
    BY DEF Unselected, HashMatches
  <1>6. QED
    BY <1>1, <1>2, <1>3, <1>4, <1>5

\* Begin, end and power failure.
LEMMA CallInv ==
    ASSUME UpgradeInv, (\E a \in Args : a_upgrade_try(a)) \/ restart
    PROVE  UpgradeInv'
  <1> USE UpgradeConstants DEF UpgradeInv, a_upgrade_try, restart, flashVars, Nothing
  <1>1. UpgradeTypeOK'
    <2>1. received' \in Seq(Chunk) /\ Len(received') <= len'
      <3>1. received' = <<>> /\ len' = 0
        OBVIOUS
      <3>2. QED
        BY <3>1
    <2>2. args' \in Args
      BY DEF UpgradeTypeOK
    <2>3. held' = {} /\ slot' = slot /\ boot' = boot /\ chosen' = chosen
      OBVIOUS
    <2>4. QED
      BY <2>1, <2>2, <2>3 DEF UpgradeTypeOK
  <1>2. HeldAt' /\ Released'
    BY DEF HeldAt, Released, Leaked
  <1>3. BootsVerified'
    BY DEF BootsVerified
  <1>4. Unselected'
    BY DEF Unselected, HashMatches
  <1>5. QED
    BY <1>1, <1>2, <1>3, <1>4

LEMMA HeadersInv ==
    ASSUME UpgradeInv, read_headers \/ app_too_small
    PROVE  UpgradeInv'
  <1> USE UpgradeConstants DEF UpgradeInv, read_headers, app_too_small, GoTo, flashVars
  <1>1. UpgradeTypeOK'
    <2>1. received' \in Seq(Chunk) /\ Len(received') <= len'
      <3>1. CASE read_headers
        <4>1. received' = <<>> /\ len' \in Nat
          BY <3>1 DEF Unselected
        <4>2. QED
          BY <4>1
      <3>2. CASE app_too_small
        BY <3>2 DEF UpgradeTypeOK
      <3>3. QED
        BY <3>1, <3>2
    <2>2. held' \subseteq held
      BY DEF return_error
    <2>3. args' = args /\ slot' = slot /\ boot' = boot /\ chosen' = chosen
      OBVIOUS
    <2>4. QED
      BY <2>1, <2>2, <2>3 DEF UpgradeTypeOK
  <1>2. HeldAt'
    BY DEF HeldAt, Connected, Tls
  <1>3. Released'
    BY DEF Released, Leaked, HeldAt, Connected, Tls, return_error, return_error_with_socket,
           return_error_with_stream, return_error_with_sflash
  <1>4. BootsVerified'
    BY DEF BootsVerified
  <1>5. Unselected'
    BY DEF Unselected, HashMatches
  <1>6. QED
    BY <1>1, <1>2, <1>3, <1>4, <1>5

LEMMA EraseInv == ASSUME UpgradeInv, app_erase PROVE UpgradeInv'
  <1> USE UpgradeConstants DEF UpgradeInv, app_erase
  <1>1. Cardinality(chosen') = 0
    BY FS_EmptySet
  <1>2. UpgradeTypeOK'
    BY <1>1 DEF UpgradeTypeOK
  <1>3. HeldAt' /\ Released'
    BY DEF HeldAt, Released, Leaked, Connected, Tls
  <1>4. BootsVerified' /\ Unselected'
    BY DEF BootsVerified, Unselected, UpgradeTypeOK
  <1>5. QED
    BY <1>2, <1>3, <1>4

LEMMA DownloadInv == ASSUME UpgradeInv, download PROVE UpgradeInv'
  <1> USE UpgradeConstants DEF UpgradeInv, download, GoTo
  <1>1. UpgradeTypeOK'
    <2>1. \/ received' = received /\ slot' = slot
          \/ \E c \in Chunk, w \in Chunk \cup {"damaged"} :
                received' = Append(received, c) /\ slot' = Append(slot, w)
      OBVIOUS
    <2>2. /\ received' \in Seq(Chunk) /\ Len(received') <= len
          /\ slot' \in Seq(Chunk \cup {"damaged"}) /\ Len(slot') <= SlotSize
      <3>1. CASE received' = received /\ slot' = slot
        BY <3>1 DEF UpgradeTypeOK
      <3>2. ASSUME NEW c \in Chunk, NEW w \in Chunk \cup {"damaged"},
                   received' = Append(received, c), slot' = Append(slot, w)
            PROVE  /\ received' \in Seq(Chunk) /\ Len(received') <= len
                   /\ slot' \in Seq(Chunk \cup {"damaged"}) /\ Len(slot') <= SlotSize
        <4>1. Len(received') = Len(received) + 1 /\ Len(slot') = Len(slot) + 1
          BY <3>2 DEF UpgradeTypeOK
        <4>2. /\ Len(received) \in Nat /\ Len(slot) = Len(received)
              /\ Len(received) < len /\ len <= SlotSize /\ len \in Nat
          BY DEF UpgradeTypeOK, Unselected
        <4>3. received' \in Seq(Chunk) /\ slot' \in Seq(Chunk \cup {"damaged"})
          BY <3>2 DEF UpgradeTypeOK
        <4>4. QED
          BY <4>1, <4>2, <4>3
      <3>3. QED
        BY <2>1, <3>1, <3>2
    <2>3. QED
      BY <2>2 DEF UpgradeTypeOK, return_error_with_sflash, return_error_with_stream,
                  return_error_with_socket, return_error
  <1>2. HeldAt'
    BY DEF HeldAt, Connected, Tls
  <1>3. Released'
    BY DEF Released, Leaked, HeldAt, Connected, Tls, return_error, return_error_with_socket,
           return_error_with_stream, return_error_with_sflash
  <1>4. BootsVerified'
    BY DEF BootsVerified, Unselected
  <1>5. Unselected'
    BY DEF Unselected, UpgradeTypeOK
  <1>6. QED
    BY <1>1, <1>2, <1>3, <1>4, <1>5

LEMMA CompletedInv == ASSUME UpgradeInv, download_completed PROVE UpgradeInv'
  <1> USE UpgradeConstants DEF UpgradeInv, download_completed, flashVars
  <1>1. UpgradeTypeOK' /\ BootsVerified' /\ Unselected'
    BY DEF UpgradeTypeOK, BootsVerified, Unselected
  <1>2. HeldAt' /\ Released'
    BY DEF HeldAt, Released, Leaked, Connected, Tls
  <1>3. QED
    BY <1>1, <1>2

LEMMA CheckInv == ASSUME UpgradeInv, check_hash \/ verify_writing PROVE UpgradeInv'
  <1> USE UpgradeConstants DEF UpgradeInv, check_hash, verify_writing, GoTo, flashVars, return_error
  <1>1. UpgradeTypeOK'
    BY DEF UpgradeTypeOK
  <1>2. HeldAt' /\ Released'
    BY DEF HeldAt, Released, Leaked
  <1>3. BootsVerified'
    BY DEF BootsVerified
  <1>4. Unselected'
    BY DEF Unselected, HashMatches
  <1>5. QED
    BY <1>1, <1>2, <1>3, <1>4

\* The slot that is selected holds what was received, and what was received has
\* the hash, if there is one.
LEMMA SelectInv == ASSUME UpgradeInv, set_boot PROVE UpgradeInv'
  <1> USE UpgradeConstants DEF UpgradeInv, set_boot
  <1>1. args.md5 \in {"none", "given"} /\ (args.md5 # "none" => received = Image)
    BY DEF Unselected, HashMatches
  <1>2. Cardinality(chosen') = 1
    BY FS_Singleton
  <1>3. UpgradeTypeOK'
    BY <1>1, <1>2 DEF UpgradeTypeOK
  <1>4. HeldAt' /\ Released'
    BY DEF HeldAt, Released, Leaked
  <1>5. BootsVerified'
    BY <1>1 DEF BootsVerified, Unselected, Image
  <1>6. Unselected'
    BY DEF Unselected
  <1>7. QED
    BY <1>3, <1>4, <1>5, <1>6

\* A step of the upgrade, or none, keeps the five parts.
LEMMA UpgradeStepInv == UpgradeInv /\ [UpgradeNext]_upgradeVars => UpgradeInv'
  <1> SUFFICES ASSUME UpgradeInv, [UpgradeNext]_upgradeVars PROVE UpgradeInv'
    OBVIOUS
  <1>1. CASE UpgradeNext
    BY <1>1, AttemptInv, CallInv, HeadersInv, EraseInv, DownloadInv, CompletedInv,
       CheckInv, SelectInv DEF UpgradeNext
  <1>2. CASE UNCHANGED upgradeVars
    BY <1>2 DEF upgradeVars, callVars, flashVars, UpgradeInv, UpgradeTypeOK, Released, Leaked,
                BootsVerified, HeldAt, Unselected, Connected, Tls, HashMatches
  <1>3. QED
    BY <1>1, <1>2

\* Every step keeps the five parts.
THEOREM UpgradeInvHolds == UpgradeSpec => []UpgradeInv
  BY UpgradeStepInv, UpgradeInitInv, PTL DEF UpgradeSpec

\* upgrade.c: what is written never exceeds the slot.
THEOREM UpgradeTypesHold == UpgradeSpec => []UpgradeTypeOK
  <1>1. UpgradeInv => UpgradeTypeOK
    BY DEF UpgradeInv
  <1>2. QED
    BY <1>1, UpgradeInvHolds, PTL

\* upgrade.c: the slot selected for the next boot holds what was received, and
\* the image with the caller's hash if one was given.
THEOREM BootsVerifiedHolds == UpgradeSpec => []BootsVerified
  <1>1. UpgradeInv => BootsVerified
    BY DEF UpgradeInv
  <1>2. QED
    BY <1>1, UpgradeInvHolds, PTL

\* upgrade.c: each exit releases what was acquired, but for the stream behind a call
\* without a path and the slot's handle behind a comparison that failed.
THEOREM ReleasedHolds == UpgradeSpec => []Released
  <1>1. UpgradeInv => Released
    BY DEF UpgradeInv
  <1>2. QED
    BY <1>1, UpgradeInvHolds, PTL

(***************************************************************************)
(* The types of the example.  The blinking of the start-up gives timer_node *)
(* up when it has counted to seven, so it never counts beyond; a thread's  *)
(* port is one there is while it reads its pin or sets its LEDs, and the   *)
(* first one before.                                                       *)
(***************************************************************************)

Update == {"update_led", "register", "blink", "full", "deregister", "steady", "read_level",
           "indicate", "green", "red", "trigger"}
LoopOnly == {"toggle", "toggled", "detect", "net_state"}
Place == Update \cup LoopOnly \cup {"idle"}

PortAt(p, i) ==
    /\ p \in {"green", "red", "detect"} => i < MAX_FAULT_PORT
    /\ p \notin {"indicate", "green", "red", "detect"} => i = 0

StillStarting == timer_node = "initial_led_blink_cb" => cnt < 7 /\ front # "net_state"

ExampleTypes ==
    /\ ExampleTypeOK
    /\ at \in [Threads -> Place]
    /\ at["library"] \notin LoopOnly
    /\ \A t \in Threads : PortAt(at[t], fault_port[t])
    /\ StillStarting

LEMMA ExampleInitTypes == ExampleInit => ExampleTypes
  <1> SUFFICES ASSUME ExampleInit PROVE ExampleTypes
    OBVIOUS
  <1> USE DEF ExampleInit
  <1>1. led_fail \in [0 .. MAX_FAULT_PORT - 1 -> BOOLEAN] /\ led_modes \in [PortLed -> LedMode]
    BY DEF LedMode
  <1>2. /\ fault_port \in [Threads -> 0 .. MAX_FAULT_PORT] /\ led_mode \in [Threads -> LedMode]
        /\ failing \in [Threads -> BOOLEAN] /\ in_set \in [Threads -> BOOLEAN]
        /\ at \in [Threads -> Place]
    BY ExampleConstants DEF LedMode, Place
  <1>3. led_count \in Int /\ cnt \in 0 .. 7 /\ cnt < 7 /\ state_led_on_level \in 0 .. 100 /\ level \in 0 .. 100
    OBVIOUS
  <1>4. at["library"] \notin LoopOnly /\ \A t \in Threads : PortAt(at[t], fault_port[t])
    BY ExampleConstants DEF LoopOnly, PortAt, Threads
  <1>5. /\ StateTypes /\ LightTypes /\ SysLedTypes /\ IndicateTypes /\ StartTypes /\ WorkerTypes
        /\ overlapped \in BOOLEAN /\ settled \in BOOLEAN /\ StillStarting
    <2>1. StateTypes /\ SysLedTypes
      <3>1. state_led_emergency \in BOOLEAN /\ led_timer \in BOOLEAN /\ torn \in BOOLEAN
        BY Zenon
      <3>2. QED
        <4> HIDE DEF ExampleInit
        <4>1. QED
          BY <1>1, <1>3, <3>1 DEF StateTypes, SysLedTypes
    <2>2. LightTypes /\ StartTypes /\ WorkerTypes /\ StillStarting
      BY <1>3 DEF LightTypes, StartTypes, WorkerTypes, StillStarting
    <2>3. QED
      BY <1>2, <2>1, <2>2 DEF IndicateTypes
  <1>6. QED
    BY <1>2, <1>4, <1>5 DEF ExampleTypes, ExampleTypeOK

\* A level is a percentage, whatever a message asks for.
LEMMA ClampRange ==
    ASSUME NEW i \in Int
    PROVE  clamp(i, 0, 100) \in 0 .. 100
  BY DEF clamp

\* The two LEDs of a port are two of those there are, and no other port's.
LEMMA PortLeds ==
    ASSUME NEW i \in 0 .. MAX_FAULT_PORT - 1
    PROVE  /\ Green(i) \in PortLed /\ Red(i) \in PortLed /\ Green(i) # Red(i)
           /\ \A j \in 0 .. MAX_FAULT_PORT - 1 \ {i} :
                 Green(j) \notin {Green(i), Red(i)} /\ Red(j) \notin {Green(i), Red(i)}
  BY ExampleConstants DEF Green, Red, PortLed

\* Where a thread goes, the other one stays.
LEMMA PlacesAfter ==
    ASSUME ExampleTypes, NEW t \in Threads, NEW q \in Place,
           at' = [at EXCEPT ![t] = q],
           t = "library" => q \notin LoopOnly,
           PortAt(q, fault_port'[t]), \A u \in Threads \ {t} : fault_port'[u] = fault_port[u]
    PROVE  /\ at' \in [Threads -> Place] /\ at'["library"] \notin LoopOnly
           /\ \A u \in Threads : PortAt(at'[u], fault_port'[u])
  <1>1. /\ at' \in [Threads -> Place] /\ at'[t] = q
        /\ \A u \in Threads \ {t} : at'[u] = at[u]
    BY DEF ExampleTypes
  <1>2. at'["library"] \notin LoopOnly
    BY <1>1 DEF ExampleTypes, Threads
  <1>3. QED
    BY <1>1, <1>2 DEF ExampleTypes

\* A call of a_sys_led_set gives an LED a mode.
LEMMA SetModeTypes ==
    ASSUME SysLedTypes, NEW l \in PortLed, NEW m \in LedMode, SetMode(l, m)
    PROVE  SysLedTypes'
  <1> USE DEF SysLedTypes, SetMode
  <1>1. led_modes' \in [PortLed -> LedMode] /\ torn' \in BOOLEAN
    OBVIOUS
  <1>2. led_count' \in Int
    OBVIOUS
  <1>3. led_timer' \in BOOLEAN
    <2>1. \/ led_timer' = led_timer
          \/ led_timer' = (led_timer /\ led_count' # 0)
          \/ led_timer' = (led_timer \/ led_count = 0)
      BY Zenon
    <2>2. QED
      BY <2>1
  <1>4. QED
    BY <1>1, <1>2, <1>3

\* The beginning of a call concerns the count.
LEMMA EnterTypes ==
    ASSUME SysLedTypes, IndicateTypes, NEW t \in Threads, Enter(t), led_modes' = led_modes,
           UNCHANGED <<fault_port, led_mode, failing>>
    PROVE  SysLedTypes' /\ IndicateTypes'
  <1>1. led_count' \in Int /\ led_timer' \in BOOLEAN /\ torn' \in BOOLEAN
    BY DEF SysLedTypes, IndicateTypes, Enter
  <1>2. in_set' \in [Threads -> BOOLEAN]
    BY DEF IndicateTypes, Enter
  <1>3. QED
    BY <1>1, <1>2 DEF SysLedTypes, IndicateTypes

\* A group of variables that do not change keep their types.
LEMMA TypesKept ==
    /\ StateTypes /\ UNCHANGED stateVars => StateTypes'
    /\ LightTypes /\ UNCHANGED lightVars => LightTypes'
    /\ SysLedTypes /\ UNCHANGED sysLedVars => SysLedTypes'
    /\ IndicateTypes /\ UNCHANGED indicateVars => IndicateTypes'
    /\ StartTypes /\ UNCHANGED startVars => StartTypes'
    /\ WorkerTypes /\ UNCHANGED workerVarsOfExample => WorkerTypes'
  <1>1. StateTypes /\ UNCHANGED stateVars => StateTypes'
    BY DEF StateTypes, stateVars
  <1>2. LightTypes /\ UNCHANGED lightVars => LightTypes'
    BY DEF LightTypes, lightVars
  <1>3. SysLedTypes /\ UNCHANGED sysLedVars => SysLedTypes'
    BY DEF SysLedTypes, sysLedVars, countVars
  <1>4. IndicateTypes /\ UNCHANGED indicateVars => IndicateTypes'
    BY DEF IndicateTypes, indicateVars
  <1>5. StartTypes /\ UNCHANGED startVars => StartTypes'
    BY DEF StartTypes, startVars
  <1>6. WorkerTypes /\ UNCHANGED workerVarsOfExample => WorkerTypes'
    BY DEF WorkerTypes, workerVarsOfExample
  <1>7. QED
    BY <1>1, <1>2, <1>3, <1>4, <1>5, <1>6

\* What a step of an update, or of the blinking, leaves alone.
LEMMA GoOnTypes ==
    ASSUME ExampleTypes, NEW t \in Threads, NEW p, NEW q, GoOn(t, p, q),
           timer_node' # "initial_led_blink_cb" \/ timer_node' = timer_node
    PROVE  /\ StateTypes' /\ StartTypes' /\ overlapped' \in BOOLEAN /\ StillStarting'
           /\ sample' \in {"armed", "sent"} => WorkerTypes'
  <1>1. StateTypes' /\ StartTypes'
    BY TypesKept DEF ExampleTypes, ExampleTypeOK, GoOn
  <1>2. sample' \in {"armed", "sent"} => WorkerTypes'
    BY DEF ExampleTypes, ExampleTypeOK, GoOn, WorkerTypes
  <1>3. overlapped' \in BOOLEAN
    BY DEF ExampleTypes, ExampleTypeOK, GoOn
  <1>4. StillStarting'
    BY DEF ExampleTypes, StillStarting, GoOn, startVars
  <1>5. QED
    BY <1>1, <1>2, <1>3, <1>4

LEMMA UpdateTypes ==
    ASSUME ExampleTypes, NEW t \in Threads, update_led(t)
    PROVE  ExampleTypes'
  <1>0. /\ StateTypes /\ LightTypes /\ SysLedTypes /\ IndicateTypes /\ StartTypes /\ WorkerTypes
        /\ overlapped \in BOOLEAN /\ settled \in BOOLEAN
        /\ sample \in {"armed", "sent"}
        /\ fault_port[t] \in 0 .. MAX_FAULT_PORT /\ PortAt(at[t], fault_port[t])
    BY DEF ExampleTypes, ExampleTypeOK, WorkerTypes, IndicateTypes
  <1> DEFINE Stay == \A u \in Threads \ {t} : fault_port'[u] = fault_port[u]
             Placed == /\ at' \in [Threads -> Place] /\ at'["library"] \notin LoopOnly
                       /\ \A u \in Threads : PortAt(at'[u], fault_port'[u])
  <1>1. ASSUME NEW p, NEW q \in Update \cup {"idle"}, GoOn(t, p, q),
               PortAt(q, fault_port'[t]), Stay,
               timer_node' # "initial_led_blink_cb" \/ timer_node' = timer_node,
               LightTypes', SysLedTypes', IndicateTypes', sample' \in {"armed", "sent"},
               settled' \in BOOLEAN
        PROVE  ExampleTypes'
    <2>1. q \in Place /\ (t = "library" => q \notin LoopOnly)
      BY DEF Place, Update, LoopOnly
    <2>2. Placed
      BY <1>1, <2>1, PlacesAfter DEF GoOn
    <2>3. QED
      BY <1>1, <2>2, GoOnTypes DEF ExampleTypes, ExampleTypeOK
  <1>2. CASE indicate_led(t)
    <2>1. /\ fault_port[t] \in 0 .. MAX_FAULT_PORT - 1 /\ GoOn(t, "indicate", "green")
          /\ UNCHANGED <<lightVars, sysLedVars, fault_port, led_mode, in_set, sample, settled>>
      BY <1>0, <1>2, ExampleConstants DEF indicate_led
    <2>2. IndicateTypes'
      BY <1>0, <1>2, <2>1 DEF indicate_led, IndicateTypes, StateTypes
    <2>3. LightTypes' /\ SysLedTypes'
      BY <1>0, <2>1, TypesKept
    <2>4. PortAt("green", fault_port'[t])
      BY <2>1, ExampleConstants DEF PortAt
    <2>5. QED
      BY <1>0, <1>1, <2>1, <2>2, <2>3, <2>4 DEF Update, lightVars
  <1>3. CASE begin_led_set(t)
    <2>1. SysLedTypes' /\ IndicateTypes'
      BY <1>0, <1>3, EnterTypes DEF begin_led_set
    <2>2. /\ StateTypes' /\ LightTypes' /\ StartTypes' /\ WorkerTypes'
      BY <1>0, <1>3, TypesKept DEF begin_led_set
    <2>3. StillStarting' /\ UNCHANGED <<at, fault_port, overlapped, settled>>
      BY <1>3 DEF begin_led_set, ExampleTypes, StillStarting, lightVars, startVars
    <2>4. QED
      BY <1>0, <2>1, <2>2, <2>3 DEF ExampleTypes, ExampleTypeOK
  <1>4. CASE end_led_set(t)
    <2>1. PICK p \in {"green", "red"}, q \in {"red", "indicate"} :
             /\ GoOn(t, p, q) /\ (p = "red" <=> q = "indicate")
             /\ IF p = "green" THEN UNCHANGED <<fault_port, failing>>
                ELSE /\ fault_port' = [fault_port EXCEPT ![t] = fault_port[t] + 1]
                     /\ failing' = [failing EXCEPT ![t] = FALSE]
             /\ \E l \in {Green(fault_port[t]), Red(fault_port[t])},
                   m \in {PortModes(failing[t], led_mode[t]).green,
                          PortModes(failing[t], led_mode[t]).red} : SetMode(l, m)
      BY <1>4 DEF end_led_set
    <2>2. fault_port[t] \in 0 .. MAX_FAULT_PORT - 1
      BY <1>0, <2>1, ExampleConstants DEF GoOn, PortAt
    <2>3. /\ PortModes(failing[t], led_mode[t]).green \in LedMode
          /\ PortModes(failing[t], led_mode[t]).red \in LedMode
      BY <1>0 DEF IndicateTypes, PortModes, LedMode
    <2>4. SysLedTypes'
      BY <1>0, <2>1, <2>2, <2>3, PortLeds, SetModeTypes
    <2>5. /\ fault_port' \in [Threads -> 0 .. MAX_FAULT_PORT] /\ Stay
          /\ PortAt(q, fault_port'[t])
      BY <1>0, <2>1, <2>2, ExampleConstants DEF IndicateTypes, PortAt
    <2>6. IndicateTypes'
      BY <1>0, <1>4, <2>1, <2>5 DEF end_led_set, Leave, IndicateTypes
    <2>7. LightTypes' /\ UNCHANGED <<lightVars, sample, settled>>
      BY <1>0, <1>4, TypesKept DEF end_led_set
    <2>8. QED
      BY <1>0, <1>1, <2>1, <2>4, <2>5, <2>6, <2>7 DEF Update, lightVars
  <1>5. CASE indicated(t)
    <2>1. /\ GoOn(t, "indicate", "trigger") /\ UNCHANGED <<lightVars, sysLedVars, sample, settled>>
          /\ fault_port' = [fault_port EXCEPT ![t] = 0]
      BY <1>5 DEF indicated
    <2>2. fault_port' \in [Threads -> 0 .. MAX_FAULT_PORT] /\ Stay /\ PortAt("trigger", fault_port'[t])
      BY <1>0, <2>1, ExampleConstants DEF IndicateTypes, PortAt
    <2>3. IndicateTypes'
      BY <1>0, <1>5, <2>2 DEF indicated, IndicateTypes, LedMode
    <2>4. LightTypes' /\ SysLedTypes'
      BY <1>0, <2>1, TypesKept
    <2>5. QED
      BY <1>0, <1>1, <2>1, <2>2, <2>3, <2>4 DEF Update, lightVars
  <1>6. ASSUME NEW p \in Update \ {"indicate", "green", "red"}, NEW q \in Update \cup {"idle"},
               q \notin {"green", "red"}, GoOn(t, p, q), fault_port' = fault_port,
               timer_node' # "initial_led_blink_cb" \/ timer_node' = timer_node,
               LightTypes', sysLedVars' = sysLedVars, IndicateTypes',
               sample' \in {"armed", "sent"}, settled' \in BOOLEAN
        PROVE  ExampleTypes'
    <2>1. PortAt(q, fault_port'[t])
      BY <1>0, <1>6, ExampleConstants DEF GoOn, PortAt, Update
    <2>2. SysLedTypes'
      BY <1>0, <1>6, TypesKept
    <2>3. QED
      BY <1>1, <1>6, <2>1, <2>2
  <1>7. ASSUME UNCHANGED indicateVars PROVE IndicateTypes' /\ fault_port' = fault_port
    BY <1>0, <1>7, TypesKept DEF indicateVars
  <1>8. CASE trigger(t)
    <2>1. LightTypes' /\ settled' \in BOOLEAN /\ sample' = "sent"
      BY <1>0, <1>8, TypesKept DEF trigger
    <2>2. QED
      BY <1>6, <1>7, <1>8, <2>1 DEF trigger, Update, lightVars
  <1>9. CASE full_level(t) \/ read_level(t)
    <2>1. IndicateTypes'
      BY <1>0, <1>9 DEF full_level, read_level, IndicateTypes, LedMode
    <2>2. LightTypes' /\ timer_node' = timer_node
      BY <1>0, <1>9 DEF full_level, read_level, LightTypes, lightVars
    <2>3. \E p \in {"full", "read_level"} : GoOn(t, p, "indicate")
      BY <1>9 DEF full_level, read_level
    <2>4. UNCHANGED <<fault_port, sysLedVars, sample, settled>>
      BY <1>9 DEF full_level, read_level
    <2>5. QED
      BY <1>0, <1>6, <2>1, <2>2, <2>3, <2>4 DEF Update
  <1>10. CASE steady_level(t) \/ set_blink(t) \/ read_emergency(t)
    <2>1. LightTypes' /\ timer_node' = timer_node
      <3>1. state_led_on_level \in 0 .. 100
        BY <1>0 DEF StateTypes
      <3>2. QED
        BY <1>0, <1>10, <3>1 DEF steady_level, set_blink, read_emergency, LightTypes, lightVars
    <2>2. /\ \E p \in {"steady", "blink", "update_led"}, q \in {"read_level", "full", "register",
                                                               "deregister"} : GoOn(t, p, q)
          /\ UNCHANGED <<indicateVars, sysLedVars, sample, settled>>
      BY <1>10 DEF steady_level, set_blink, read_emergency
    <2>3. QED
      BY <1>0, <1>6, <1>7, <2>1, <2>2 DEF Update
  <1>11. CASE register_blink(t) \/ deregister_blink(t)
    <2>1. LightTypes' /\ timer_node' # "initial_led_blink_cb"
      BY <1>0, <1>11 DEF register_blink, deregister_blink, LightTypes
    <2>2. /\ \E p \in {"register", "deregister"}, q \in {"blink", "steady"} : GoOn(t, p, q)
          /\ UNCHANGED <<indicateVars, sysLedVars, sample, settled>>
      BY <1>11 DEF register_blink, deregister_blink
    <2>3. QED
      BY <1>0, <1>6, <1>7, <2>1, <2>2 DEF Update
  <1>12. QED
    BY <1>2, <1>3, <1>4, <1>5, <1>8, <1>9, <1>10, <1>11 DEF update_led

\* Where a handler begins.
LEMMA BeginTypes ==
    ASSUME ExampleTypes, NEW t \in Threads, NEW p \in Place \ {"indicate", "green", "red"},
           t = "library" => p \notin LoopOnly, Begin(t, p), fault_port' = fault_port
    PROVE  /\ at' \in [Threads -> Place] /\ at'["library"] \notin LoopOnly
           /\ \A u \in Threads : PortAt(at'[u], fault_port'[u])
           /\ overlapped' \in BOOLEAN
  <1>1. /\ at' = [at EXCEPT ![t] = p] /\ at[t] = "idle"
        /\ overlapped' \in BOOLEAN
    BY DEF Begin, Idle
  <1>2. PortAt(p, fault_port'[t])
    BY <1>1, ExampleConstants DEF ExampleTypes, PortAt
  <1>3. QED
    BY <1>1, <1>2, PlacesAfter

\* The handlers on the loop's thread.
LEMMA HandlerTypes ==
    ASSUME ExampleTypes,
           \/ fault_detect_fn \/ read_fault \/ emergency_expires \/ emergency_blink_cb
           \/ update_net_state_fn
    PROVE  ExampleTypes'
  <1>0. /\ StateTypes /\ LightTypes /\ SysLedTypes /\ IndicateTypes /\ StartTypes /\ WorkerTypes
        /\ overlapped \in BOOLEAN /\ settled \in BOOLEAN /\ StillStarting
        /\ "loop" \in Threads /\ "loop" # "library"
        /\ fault_port["loop"] \in 0 .. MAX_FAULT_PORT /\ PortAt(at["loop"], fault_port["loop"])
    BY DEF ExampleTypes, ExampleTypeOK, IndicateTypes, Threads
  <1> DEFINE Placed == /\ at' \in [Threads -> Place] /\ at'["library"] \notin LoopOnly
                       /\ \A u \in Threads : PortAt(at'[u], fault_port'[u])
  <1>1. ASSUME UNCHANGED <<lightVars, startVars>> PROVE StillStarting'
    BY <1>0, <1>1 DEF StillStarting, lightVars, startVars
  <1>2. ASSUME NEW p \in LoopOnly, Begin("loop", p), fault_port' = fault_port
        PROVE  Placed /\ overlapped' \in BOOLEAN
    <2>1. p \in Place \ {"indicate", "green", "red"}
      BY DEF Place, LoopOnly
    <2>2. QED
      BY <1>0, <1>2, <2>1, BeginTypes
  <1>3. ASSUME NEW p \in {"toggle", "toggled", "net_state"}, NEW q \in {"toggled", "idle"},
               GoOn("loop", p, q), fault_port' = fault_port
        PROVE  Placed
    <2>1. at' = [at EXCEPT !["loop"] = q] /\ q \in Place /\ PortAt(q, fault_port'["loop"])
      BY <1>0, <1>3 DEF GoOn, Place, LoopOnly, PortAt
    <2>2. QED
      BY <1>0, <1>3, <2>1, PlacesAfter
  <1>4. CASE fault_detect_fn \/ emergency_expires
    <2>1. /\ \E p \in {"detect", "toggle"} : Begin("loop", p)
          /\ UNCHANGED <<stateVars, lightVars, sysLedVars, indicateVars, startVars,
                         workerVarsOfExample, settled>>
      BY <1>4 DEF fault_detect_fn, emergency_expires
    <2>2. Placed /\ overlapped' \in BOOLEAN
      BY <1>2, <2>1 DEF LoopOnly, indicateVars
    <2>3. QED
      BY <1>0, <1>1, <2>1, <2>2, TypesKept DEF ExampleTypes, ExampleTypeOK
  <1>5. CASE read_fault
    <2>1. /\ at["loop"] = "detect" /\ fault_port["loop"] \in 0 .. MAX_FAULT_PORT - 1
          /\ UNCHANGED <<lightVars, sysLedVars, startVars, workerVarsOfExample, overlapped, settled>>
      BY <1>0, <1>5, ExampleConstants DEF read_fault, PortAt
    <2>2. StateTypes'
      BY <1>0, <1>5 DEF StateTypes, read_fault
    <2>3. PICK q \in {"detect", "update_led"}, i \in 0 .. MAX_FAULT_PORT :
             /\ at' = [at EXCEPT !["loop"] = q] /\ fault_port' = [fault_port EXCEPT !["loop"] = i]
             /\ PortAt(q, i)
      <3>1. at = [at EXCEPT !["loop"] = "detect"]
        BY <1>0, <2>1 DEF ExampleTypes
      <3>2. CASE fault_port["loop"] + 1 < MAX_FAULT_PORT
        <4>1. fault_port["loop"] + 1 \in 0 .. MAX_FAULT_PORT /\ PortAt("detect", fault_port["loop"] + 1)
          BY <2>1, <3>2, ExampleConstants DEF PortAt
        <4>2. QED
          BY <1>5, <3>1, <3>2, <4>1 DEF read_fault
      <3>3. CASE ~(fault_port["loop"] + 1 < MAX_FAULT_PORT)
        <4>1. 0 \in 0 .. MAX_FAULT_PORT /\ PortAt("update_led", 0)
          BY ExampleConstants DEF PortAt
        <4>2. QED
          BY <1>5, <3>3, <4>1 DEF read_fault
      <3>4. QED
        BY <3>2, <3>3
    <2>4. /\ fault_port' \in [Threads -> 0 .. MAX_FAULT_PORT] /\ fault_port'["loop"] = i
          /\ \A u \in Threads \ {"loop"} : fault_port'[u] = fault_port[u]
      BY <1>0, <2>3 DEF IndicateTypes
    <2>5. Placed
      <3>1. q \in Place
        BY DEF Place, LoopOnly, Update
      <3>2. QED
        BY <1>0, <2>3, <2>4, <3>1, PlacesAfter
    <2>6. IndicateTypes'
      BY <1>0, <1>5, <2>4 DEF IndicateTypes, read_fault
    <2>7. QED
      BY <1>0, <1>1, <2>1, <2>2, <2>5, <2>6, TypesKept DEF ExampleTypes, ExampleTypeOK
  <1>6. CASE emergency_blink_cb
    <2>1. /\ \E p \in {"toggle", "toggled"}, q \in {"toggled", "idle"} : GoOn("loop", p, q)
          /\ UNCHANGED <<timer_node, sysLedVars, indicateVars, sample, settled>>
      BY <1>6 DEF emergency_blink_cb
    <2>2. Placed
      BY <1>3, <2>1 DEF indicateVars
    <2>3. LightTypes'
      <3>1. blink' \in BOOLEAN
        BY <1>0, <1>6 DEF emergency_blink_cb, LightTypes
      <3>2. level' \in 0 .. 100
        BY <1>0, <1>6 DEF emergency_blink_cb, LightTypes
      <3>3. QED
        BY <1>0, <2>1, <3>1, <3>2 DEF LightTypes
    <2>4. sample' \in {"armed", "sent"}
      BY <1>0, <2>1 DEF WorkerTypes
    <2>5. QED
      BY <1>0, <2>1, <2>2, <2>3, <2>4, GoOnTypes, TypesKept DEF ExampleTypes, ExampleTypeOK
  <1>7. CASE update_net_state_fn
    <2>1. /\ UNCHANGED <<stateVars, lightVars, led_modes, fault_port, led_mode, failing, startVars,
                         workerVarsOfExample, settled>>
          /\ \/ Begin("loop", "net_state") /\ Enter("loop")
             \/ /\ GoOn("loop", "net_state", "idle") /\ Leave("loop") /\ UNCHANGED countVars
      BY <1>7 DEF update_net_state_fn
    <2>2. Placed /\ overlapped' \in BOOLEAN
      BY <1>0, <1>2, <1>3, <2>1 DEF LoopOnly, GoOn
    <2>3. SysLedTypes' /\ IndicateTypes'
      <3>1. CASE Enter("loop")
        BY <1>0, <2>1, <3>1, EnterTypes
      <3>2. CASE Leave("loop") /\ UNCHANGED countVars
        BY <1>0, <2>1, <3>2, TypesKept DEF Leave, IndicateTypes, sysLedVars
      <3>3. QED
        BY <2>1, <3>1, <3>2
    <2>4. QED
      BY <1>0, <1>1, <2>1, <2>2, <2>3, TypesKept DEF ExampleTypes, ExampleTypeOK
  <1>8. QED
    BY <1>4, <1>5, <1>6, <1>7

\* Every variable keeps its type, and every thread its place.
LEMMA ExampleStepTypes == ExampleTypes /\ [ExampleNext]_exampleVars => ExampleTypes'
  <1> SUFFICES ASSUME ExampleTypes, [ExampleNext]_exampleVars PROVE ExampleTypes'
    OBVIOUS
  <1>0. /\ StateTypes /\ LightTypes /\ SysLedTypes /\ IndicateTypes /\ StartTypes /\ WorkerTypes
        /\ overlapped \in BOOLEAN /\ settled \in BOOLEAN /\ StillStarting
    BY DEF ExampleTypes, ExampleTypeOK
  <1>1. CASE initial_led_blink_cb
    <2>1. StartTypes' /\ StillStarting'
      BY <1>0, <1>1 DEF StartTypes, StillStarting, initial_led_blink_cb
    <2>2. LightTypes' /\ SysLedTypes'
      BY <1>0, <1>1 DEF LightTypes, SysLedTypes, initial_led_blink_cb
    <2>3. UNCHANGED <<stateVars, indicateVars, workerVarsOfExample, at, overlapped, settled>>
      BY <1>1 DEF initial_led_blink_cb
    <2>4. QED
      BY <1>0, <2>1, <2>2, <2>3, TypesKept DEF ExampleTypes, ExampleTypeOK, indicateVars
  <1>2. CASE sample_due \/ send_telemetry_sensor
    <2>1. WorkerTypes'
      BY <1>0, <1>2 DEF WorkerTypes, StartTypes, sample_due, send_telemetry_sensor
    <2>2. UNCHANGED <<stateVars, lightVars, sysLedVars, indicateVars, startVars, at, overlapped,
                      settled>>
      BY <1>2 DEF sample_due, send_telemetry_sensor
    <2>3. StillStarting'
      BY <1>0, <2>2 DEF StillStarting, lightVars, startVars
    <2>4. QED
      BY <1>0, <2>1, <2>2, <2>3, TypesKept DEF ExampleTypes, ExampleTypeOK, indicateVars
  <1>3. ASSUME NEW params \in RpcParam, mqtt_subscribe_cb_fn(params) PROVE ExampleTypes'
    <2>1. params \in Int
      BY ExampleConstants
    <2>2. clamp(params, 0, 100) \in 0 .. 100
      BY <2>1, ClampRange
    <2>3. StateTypes'
      BY <1>0, <1>3, <2>2 DEF StateTypes, mqtt_subscribe_cb_fn, set_emergency, set_on_level
    <2>4. /\ Begin("library", "update_led")
          /\ UNCHANGED <<lightVars, sysLedVars, indicateVars, startVars, workerVarsOfExample, settled>>
      BY <1>3 DEF mqtt_subscribe_cb_fn
    <2>5. /\ at' \in [Threads -> Place] /\ at'["library"] \notin LoopOnly
          /\ \A u \in Threads : PortAt(at'[u], fault_port'[u])
          /\ overlapped' \in BOOLEAN
      <3>1. /\ "library" \in Threads
            /\ "update_led" \in Place \ {"indicate", "green", "red"}
            /\ "update_led" \notin LoopOnly
        BY DEF Threads, Place, Update, LoopOnly
      <3>2. fault_port' = fault_port
        BY <2>4 DEF indicateVars
      <3>3. QED
        BY <2>4, <3>1, <3>2, BeginTypes
    <2>6. StillStarting'
      BY <1>0, <2>4 DEF StillStarting, lightVars, startVars
    <2>7. QED
      BY <1>0, <2>3, <2>4, <2>5, <2>6, TypesKept DEF ExampleTypes, ExampleTypeOK
  <1>4. CASE UNCHANGED exampleVars
    BY <1>0, <1>4, TypesKept
    DEF exampleVars, ExampleTypes, ExampleTypeOK, StillStarting, lightVars, startVars, indicateVars
  <1>5. QED
    BY <1>1, <1>2, <1>3, <1>4, UpdateTypes, HandlerTypes DEF ExampleNext

\* main.c: the start-up counts to seven and no further, and the level of the light
\* is a percentage, for any number of ports and any parameters of the messages.
THEOREM ExampleTypesHold == ExampleSpec => []ExampleTypeOK
  <1>1. ExampleSpec => []ExampleTypes
    BY ExampleInitTypes, ExampleStepTypes, PTL DEF ExampleSpec
  <1>2. QED
    BY <1>1, PTL DEF ExampleTypes

(***************************************************************************)
(* The lights, for any number of ports and any parameters of the messages: *)
(* an update that runs alone ends with the lights as the state says, and   *)
(* the LEDs are counted until two calls overlap. Inductive is: how far an  *)
(* update that runs alone has come (Reached), that a thread that is not    *)
(* alone knows of it, and that two updates that met leave the lights       *)
(* unsettled.                                                              *)
(***************************************************************************)

Threading ==
    /\ ~Idle("loop") /\ ~Idle("library") => overlapped
    /\ overlapped /\ Idle("library") => ~settled

\* Timer, phase and level as an update leaves them.
LightSet ==
    IF state_led_emergency
    THEN timer_node = "emergency_blink_cb" /\ blink /\ level = 100
    ELSE timer_node # "emergency_blink_cb" /\ level = state_led_on_level

\* What an update that runs alone has done at the step where thread t is.
Reached(t) ==
    /\ at[t] \in {"register", "blink", "full"} => state_led_emergency
    /\ at[t] \in {"blink", "full"} => timer_node = "emergency_blink_cb"
    /\ at[t] = "full" => blink
    /\ at[t] \in {"deregister", "steady", "read_level"} => ~state_led_emergency
    /\ at[t] \in {"steady", "read_level"} => timer_node # "emergency_blink_cb"
    /\ at[t] = "read_level" => level = state_led_on_level
    /\ at[t] \in {"indicate", "green", "red"} =>
          /\ LightSet /\ led_mode[t] = WantedMode
          /\ \A i \in 0 .. MAX_FAULT_PORT - 1 : i < fault_port[t] => PortShows(i)
    /\ at[t] \in {"green", "red"} => failing[t] = led_fail[fault_port[t]]
    /\ at[t] = "red" =>
          led_modes[Green(fault_port[t])] = PortModes(failing[t], led_mode[t]).green
    /\ at[t] = "trigger" => ShowsState

AloneReached == ~overlapped => \A t \in Threads : at[t] \in Update => Reached(t)

\* The blinking leaves all but the level as it is, and sets the level last; the
\* reports of link and session leave the lights alone.
Toggling ==
    ~overlapped /\ settled /\ Idle("library") =>
        /\ at["loop"] \in {"toggle", "net_state"} => ShowsState
        /\ at["loop"] \in {"toggle", "toggled"} =>
              PortsShow /\ state_led_emergency /\ timer_node = "emergency_blink_cb"

SettledShows == AllIdle /\ settled => ShowsState
CountedUntilTorn == ~torn => LedsCounted

ExampleInv == Threading /\ AloneReached /\ Toggling /\ SettledShows /\ CountedUntilTorn

\* One LED more or less is one more or less in the count.
LEMMA PortLedCounts ==
    ASSUME NEW S \in SUBSET PortLed
    PROVE  /\ Cardinality(S) \in Nat
           /\ \A l \in PortLed \ S : Cardinality(S \cup {l}) = Cardinality(S) + 1
           /\ \A l \in S : Cardinality(S \ {l}) = Cardinality(S) - 1 /\ Cardinality(S) # 0
  <1>1. IsFiniteSet(PortLed)
    BY FS_Interval, ExampleConstants DEF PortLed
  <1>2. IsFiniteSet(S) /\ Cardinality(S) \in Nat
    BY <1>1, FS_Subset, FS_CardinalityType
  <1>3. Cardinality(S) = 0 <=> S = {}
    BY <1>2, FS_EmptySet
  <1>4. QED
    BY <1>2, <1>3, FS_AddElement, FS_RemoveElement

\* A call that meets no other one keeps the LEDs counted.
LEMMA SetModeCounts ==
    ASSUME SysLedTypes, NEW l \in PortLed, NEW m \in LedMode, SetMode(l, m), front' = front,
           CountedUntilTorn
    PROVE  CountedUntilTorn'
  <1> SUFFICES ASSUME ~torn' PROVE LedsCounted'
    BY DEF CountedUntilTorn
  <1>1. ~torn /\ LedsCounted /\ led_modes' = [led_modes EXCEPT ![l] = m]
    BY DEF SetMode, CountedUntilTorn
  <1>2. /\ BlinkingLeds \in SUBSET PortLed
        /\ BlinkingLeds' = IF m = "LED_BLINK" THEN BlinkingLeds \cup {l} ELSE BlinkingLeds \ {l}
        /\ l \in BlinkingLeds <=> led_modes[l] = "LED_BLINK"
    BY <1>1 DEF BlinkingLeds, SysLedTypes
  <1>3. FrontBlinking \in Nat /\ FrontBlinking' = FrontBlinking
    BY DEF FrontBlinking
  <1>4. CASE led_modes[l] = "LED_BLINK" /\ m # "LED_BLINK"
    <2>1. led_count' = led_count - 1 /\ led_timer' = (led_timer /\ led_count' # 0)
      BY <1>1, <1>4 DEF SetMode
    <2>2. Cardinality(BlinkingLeds') = Cardinality(BlinkingLeds) - 1
          /\ Cardinality(BlinkingLeds) \in Nat /\ Cardinality(BlinkingLeds) # 0
      BY <1>2, <1>4, PortLedCounts
    <2>3. led_count' = Cardinality(BlinkingLeds') + FrontBlinking' /\ led_count # 0
      BY <1>1, <1>3, <2>1, <2>2 DEF LedsCounted
    <2>4. QED
      BY <1>1, <2>1, <2>3 DEF LedsCounted
  <1>5. CASE led_modes[l] # "LED_BLINK" /\ m = "LED_BLINK"
    <2>1. led_count' = led_count + 1 /\ led_timer' = (led_timer \/ led_count = 0)
      BY <1>1, <1>5 DEF SetMode
    <2>2. Cardinality(BlinkingLeds') = Cardinality(BlinkingLeds) + 1
          /\ Cardinality(BlinkingLeds) \in Nat
      BY <1>2, <1>5, PortLedCounts
    <2>3. led_count = Cardinality(BlinkingLeds) + FrontBlinking
      BY <1>1 DEF LedsCounted
    <2>4. led_count' = Cardinality(BlinkingLeds') + FrontBlinking' /\ led_count' # 0
      BY <1>3, <2>1, <2>2, <2>3
    <2>5. led_timer'
      BY <1>1, <2>1 DEF LedsCounted
    <2>6. QED
      BY <2>4, <2>5 DEF LedsCounted
  <1>6. CASE led_modes[l] = "LED_BLINK" <=> m = "LED_BLINK"
    <2>1. led_count' = led_count /\ led_timer' = led_timer
      BY <1>6 DEF SetMode
    <2>2. BlinkingLeds' = BlinkingLeds
      BY <1>2, <1>6
    <2>3. QED
      BY <1>1, <1>3, <2>1, <2>2 DEF LedsCounted
  <1>7. QED
    BY <1>4, <1>5, <1>6

\* The LEDs stay counted.
LEMMA CountStep ==
    ASSUME ExampleTypes, CountedUntilTorn, [ExampleNext]_exampleVars
    PROVE  CountedUntilTorn'
  <1>0. SysLedTypes /\ IndicateTypes
    BY DEF ExampleTypes, ExampleTypeOK
  <1>1. ASSUME UNCHANGED sysLedVars, UNCHANGED startVars PROVE CountedUntilTorn'
    BY <1>1 DEF sysLedVars, countVars, startVars, CountedUntilTorn, LedsCounted, BlinkingLeds,
                FrontBlinking
  <1>2. ASSUME NEW t \in Threads, Enter(t), led_modes' = led_modes, UNCHANGED startVars
        PROVE  CountedUntilTorn'
    <2>1. ~torn' => ~torn /\ led_count' = led_count /\ (led_timer' <=> led_timer)
      BY <1>2 DEF Enter
    <2>2. QED
      BY <1>2, <2>1 DEF startVars, CountedUntilTorn, LedsCounted, BlinkingLeds, FrontBlinking
  <1>3. ASSUME NEW t \in Threads, end_led_set(t) PROVE CountedUntilTorn'
    <2>1. PICK l \in {Green(fault_port[t]), Red(fault_port[t])},
               m \in {PortModes(failing[t], led_mode[t]).green,
                      PortModes(failing[t], led_mode[t]).red} : SetMode(l, m)
      BY <1>3 DEF end_led_set
    <2>2. fault_port[t] \in 0 .. MAX_FAULT_PORT - 1
      <3>1. fault_port[t] \in 0 .. MAX_FAULT_PORT /\ PortAt(at[t], fault_port[t])
        BY <1>0 DEF ExampleTypes, IndicateTypes
      <3>2. QED
        BY <1>3, <3>1, ExampleConstants DEF end_led_set, GoOn, PortAt
    <2>3. l \in PortLed /\ m \in LedMode
      BY <1>0, <2>2, PortLeds DEF IndicateTypes, PortModes, LedMode
    <2>4. front' = front
      BY <1>3 DEF end_led_set, GoOn, startVars
    <2>5. QED
      BY <1>0, <2>1, <2>3, <2>4, SetModeCounts
  <1>4. ASSUME NEW t \in Threads, update_led(t) PROVE CountedUntilTorn'
    <2>1. begin_led_set(t) => CountedUntilTorn'
      BY <1>2 DEF begin_led_set
    <2>2. ASSUME update_led(t), ~begin_led_set(t), ~end_led_set(t)
          PROVE  UNCHANGED sysLedVars /\ UNCHANGED startVars
      BY <2>2 DEF update_led, read_emergency, register_blink, set_blink, full_level,
                  deregister_blink, steady_level, read_level, indicate_led, indicated, trigger, GoOn
    <2>3. QED
      BY <1>1, <1>3, <1>4, <2>1, <2>2
  <1>5. CASE update_net_state_fn
    <2>1. "loop" \in Threads
      BY DEF Threads
    <2>2. QED
      BY <1>1, <1>2, <1>5, <2>1 DEF update_net_state_fn, sysLedVars
  <1>6. CASE initial_led_blink_cb
    <2>1. /\ cnt \in Int /\ cnt' = cnt + 1 /\ torn' = torn /\ BlinkingLeds' = BlinkingLeds
          /\ led_count' = IF cnt' > 6 THEN led_count + 2 ELSE led_count
          /\ led_timer' = (led_timer \/ cnt' > 6)
          /\ front' = "net_state" <=> cnt' > 6
          /\ front # "net_state"
      BY <1>6 DEF initial_led_blink_cb, ExampleTypes, ExampleTypeOK, StartTypes, StillStarting,
                  BlinkingLeds
    <2>2. Cardinality(BlinkingLeds) \in Nat
      BY PortLedCounts DEF BlinkingLeds
    <2>3. FrontBlinking = 0 /\ FrontBlinking' = IF cnt' > 6 THEN 2 ELSE 0
      BY <2>1 DEF FrontBlinking
    <2>4. ~torn => led_count' = Cardinality(BlinkingLeds') + FrontBlinking'
      <3>1. ~torn => led_count = Cardinality(BlinkingLeds) + FrontBlinking
        BY DEF CountedUntilTorn, LedsCounted
      <3>2. QED
        BY <2>1, <2>2, <2>3, <3>1
    <2>5. ASSUME ~torn PROVE led_timer' <=> led_count' # 0
      <3>1. /\ led_count = Cardinality(BlinkingLeds) + FrontBlinking
            /\ led_timer <=> led_count # 0
        BY <2>5 DEF CountedUntilTorn, LedsCounted
      <3>2. CASE cnt' > 6
        <4>1. led_count' = led_count + 2 /\ led_count \in Nat
          BY <2>1, <2>2, <2>3, <3>1, <3>2
        <4>2. led_count' # 0 /\ led_timer'
          <5>1. led_timer'
            BY <2>1, <3>2
          <5>2. QED
            BY <4>1, <5>1
        <4>3. QED
          BY <4>2
      <3>3. CASE ~(cnt' > 6)
        BY <2>1, <3>1, <3>3
      <3>4. QED
        BY <3>2, <3>3
    <2>6. QED
      BY <2>1, <2>4, <2>5 DEF CountedUntilTorn, LedsCounted
  <1>7. CASE \/ fault_detect_fn \/ read_fault \/ emergency_expires \/ emergency_blink_cb
             \/ sample_due \/ send_telemetry_sensor \/ UNCHANGED exampleVars
    <2>1. UNCHANGED sysLedVars /\ UNCHANGED startVars
      BY <1>7 DEF fault_detect_fn, read_fault, emergency_expires, emergency_blink_cb, sample_due,
                  send_telemetry_sensor, exampleVars, GoOn
    <2>2. QED
      BY <1>1, <2>1
  <1>8. ASSUME NEW params \in RpcParam, mqtt_subscribe_cb_fn(params) PROVE CountedUntilTorn'
    BY <1>1, <1>8 DEF mqtt_subscribe_cb_fn
  <1>9. QED
    BY <1>4, <1>5, <1>6, <1>7, <1>8 DEF ExampleNext

\* Of a step of an update: one thread goes on, the other one stays where it is.
LEMMA UpdateGoesOn ==
    ASSUME ExampleTypes, NEW t \in Threads, update_led(t)
    PROVE  /\ at[t] \in Update /\ overlapped' = overlapped
           /\ IF at[t] = "trigger" THEN at'[t] = "idle" /\ settled' = ~overlapped
              ELSE at'[t] \in Update /\ settled' = settled
           /\ \A u \in Threads \ {t} : at'[u] = at[u]
  <1>1. at \in [Threads -> Place]
    BY DEF ExampleTypes
  <1>2. /\ at[t] \in Update /\ overlapped' = overlapped
        /\ \E q \in Update \cup {"idle"} :
              /\ at' = [at EXCEPT ![t] = q] \/ (at' = at /\ q = at[t])
              /\ IF at[t] = "trigger" THEN q = "idle" /\ settled' = ~overlapped
                 ELSE q \in Update /\ settled' = settled
    BY DEF update_led, read_emergency, register_blink, set_blink, full_level, deregister_blink,
           steady_level, read_level, indicate_led, begin_led_set, end_led_set, indicated, trigger,
           GoOn, Update
  <1>3. QED
    BY <1>1, <1>2

LEMMA UpdateThreading ==
    ASSUME ExampleTypes, Threading, NEW t \in Threads, update_led(t)
    PROVE  /\ Threading'
           /\ ~overlapped => \A u \in Threads \ {t} : Idle(u) /\ Idle(u)'
           /\ AllIdle' /\ settled' => ~overlapped /\ Idle(t)'
  <1>1. "idle" \notin Update
    BY DEF Update
  <1>2. /\ at[t] # "idle" /\ overlapped' = overlapped
        /\ IF at[t] = "trigger" THEN at'[t] = "idle" /\ settled' = ~overlapped
           ELSE at'[t] # "idle" /\ settled' = settled
        /\ \A u \in Threads \ {t} : at'[u] = at[u]
    BY <1>1, UpdateGoesOn
  <1>3. /\ Threads = {"loop", "library"} /\ "loop" # "library"
        /\ t = "loop" \/ t = "library"
    BY DEF Threads
  <1>4. Threading'
    BY <1>2, <1>3 DEF Threading, Idle
  <1>5. ~overlapped => \A u \in Threads \ {t} : Idle(u) /\ Idle(u)'
    BY <1>2, <1>3 DEF Threading, Idle
  <1>6. AllIdle' /\ settled' => ~overlapped /\ Idle(t)'
    BY <1>2 DEF AllIdle, Idle
  <1>7. QED
    BY <1>4, <1>5, <1>6

\* The modes that end_led_set gives the port's LEDs are those of PortModes, and the
\* ports behind keep theirs.
LEMMA EndSetReached ==
    ASSUME ExampleTypes, NEW t \in Threads, end_led_set(t), Reached(t)
    PROVE  Reached(t)'
  <1> DEFINE shows == PortModes(failing[t], led_mode[t])
  <1>0. /\ led_modes \in [PortLed -> LedMode] /\ fault_port \in [Threads -> 0 .. MAX_FAULT_PORT]
        /\ at \in [Threads -> Place] /\ PortAt(at[t], fault_port[t])
    BY DEF ExampleTypes, ExampleTypeOK, SysLedTypes, IndicateTypes
  <1>a. PICK i \in 0 .. MAX_FAULT_PORT - 1 : i = fault_port[t]
    BY <1>0, ExampleConstants DEF end_led_set, GoOn, PortAt
  <1>1. /\ at[t] \in {"green", "red"}
        /\ LightSet /\ led_mode[t] = WantedMode /\ failing[t] = led_fail[i]
        /\ \A j \in 0 .. MAX_FAULT_PORT - 1 : j < i => PortShows(j)
    BY <1>a DEF end_led_set, GoOn, Reached
  <1>2. /\ UNCHANGED <<stateVars, lightVars, led_mode>>
        /\ WantedMode' = WantedMode /\ LightSet' = LightSet
    BY DEF end_led_set, GoOn, stateVars, lightVars, WantedMode, LightSet
  <1>3. ASSUME NEW l \in {Green(i), Red(i)}, NEW m, led_modes' = [led_modes EXCEPT ![l] = m]
        PROVE  \A j \in 0 .. MAX_FAULT_PORT - 1 : j < i => PortShows(j)'
    <2>1. SUFFICES ASSUME NEW j \in 0 .. MAX_FAULT_PORT - 1, j < i PROVE PortShows(j)'
      OBVIOUS
    <2>2. /\ Green(j) \in PortLed /\ Red(j) \in PortLed /\ l \in PortLed
          /\ Green(j) # l /\ Red(j) # l
      BY <1>1, <2>1, PortLeds
    <2>3. led_modes'[Green(j)] = led_modes[Green(j)] /\ led_modes'[Red(j)] = led_modes[Red(j)]
      BY <1>0, <1>3, <2>2
    <2>4. PortShows(j)
      BY <1>1, <2>1
    <2>5. QED
      BY <1>2, <2>3, <2>4 DEF PortShows, stateVars
  <1>4. CASE at[t] = "green"
    <2>1. /\ SetMode(Green(i), shows.green) /\ at' = [at EXCEPT ![t] = "red"]
          /\ UNCHANGED <<fault_port, failing>>
      BY <1>4, <1>a DEF end_led_set, GoOn
    <2>2. led_modes' = [led_modes EXCEPT ![Green(i)] = shows.green] /\ Green(i) \in PortLed
      BY <2>1, PortLeds DEF SetMode
    <2>3. at'[t] = "red" /\ led_modes'[Green(i)] = shows.green
      BY <1>0, <2>1, <2>2
    <2>4. \A j \in 0 .. MAX_FAULT_PORT - 1 : j < i => PortShows(j)'
      BY <1>3, <2>2
    <2>5. QED
      BY <1>1, <1>2, <1>a, <2>1, <2>3, <2>4 DEF Reached, stateVars
  <1>5. CASE at[t] = "red"
    <2>1. /\ SetMode(Red(i), shows.red) /\ at' = [at EXCEPT ![t] = "indicate"]
          /\ fault_port' = [fault_port EXCEPT ![t] = i + 1]
      BY <1>5, <1>a DEF end_led_set, GoOn
    <2>2. /\ led_modes' = [led_modes EXCEPT ![Red(i)] = shows.red]
          /\ Red(i) \in PortLed /\ Green(i) \in PortLed /\ Red(i) # Green(i)
      BY <2>1, PortLeds DEF SetMode
    <2>3. at'[t] = "indicate" /\ fault_port'[t] = i + 1
      BY <1>0, <2>1
    <2>4. led_modes'[Red(i)] = shows.red /\ led_modes'[Green(i)] = shows.green
      BY <1>0, <1>5, <1>a, <2>2 DEF Reached
    <2>5. PortShows(i)'
      <3>1. shows = [green |-> shows.green, red |-> shows.red]
        BY DEF PortModes
      <3>2. shows = PortModes(led_fail'[i], WantedMode')
        BY <1>1, <1>2 DEF stateVars
      <3>3. QED
        BY <2>4, <3>1, <3>2 DEF PortShows
    <2>6. \A j \in 0 .. MAX_FAULT_PORT - 1 : j < i => PortShows(j)'
      BY <1>3, <2>2
    <2>7. \A j \in 0 .. MAX_FAULT_PORT - 1 : j < i + 1 => PortShows(j)'
      <3>1. \A j \in 0 .. MAX_FAULT_PORT - 1 : j < i + 1 => j < i \/ j = i
        BY <1>1, ExampleConstants
      <3>2. QED
        BY <2>5, <2>6, <3>1 DEF PortShows
    <2>8. QED
      BY <1>1, <1>2, <2>3, <2>7 DEF Reached, stateVars
  <1>6. QED
    BY <1>1, <1>4, <1>5

\* Each step of an update that runs alone.
LEMMA UpdateReached ==
    ASSUME ExampleTypes, NEW t \in Threads, update_led(t), Reached(t)
    PROVE  IF at'[t] = "idle" THEN ShowsState' ELSE Reached(t)'
  <1>0. /\ at \in [Threads -> Place] /\ fault_port \in [Threads -> 0 .. MAX_FAULT_PORT]
        /\ led_mode \in [Threads -> LedMode] /\ failing \in [Threads -> BOOLEAN]
        /\ PortAt(at[t], fault_port[t]) /\ blink \in BOOLEAN
    BY DEF ExampleTypes, ExampleTypeOK, IndicateTypes, LightTypes
  <1>1. ASSUME NEW q, at' = [at EXCEPT ![t] = q] PROVE at'[t] = q
    BY <1>0, <1>1
  <1>2. ASSUME UNCHANGED <<stateVars, led_modes>>
        PROVE  /\ WantedMode' = WantedMode /\ PortsShow' = PortsShow
               /\ \A i \in 0 .. MAX_FAULT_PORT - 1 : PortShows(i)' = PortShows(i)
    BY <1>2 DEF stateVars, WantedMode, PortsShow, PortShows
  <1> USE DEF GoOn, stateVars, lightVars
  <1>3. CASE read_emergency(t)
    BY <1>1, <1>3 DEF read_emergency, Reached
  <1>4. CASE register_blink(t)
    BY <1>1, <1>4 DEF register_blink, Reached
  <1>5. CASE set_blink(t)
    BY <1>1, <1>5 DEF set_blink, Reached
  <1>6. CASE full_level(t)
    <2>1. /\ at'[t] = "indicate" /\ LightSet' /\ led_mode'[t] = "LED_BLINK"
          /\ WantedMode' = "LED_BLINK" /\ fault_port'[t] = 0
      BY <1>0, <1>1, <1>6 DEF full_level, Reached, LightSet, WantedMode, PortAt
    <2>2. QED
      BY <2>1 DEF Reached
  <1>7. CASE deregister_blink(t)
    BY <1>1, <1>7 DEF deregister_blink, Reached
  <1>8. CASE steady_level(t)
    BY <1>1, <1>8 DEF steady_level, Reached
  <1>9. CASE read_level(t)
    <2>1. /\ at'[t] = "indicate" /\ LightSet' /\ led_mode'[t] = WantedMode'
          /\ fault_port'[t] = 0
      BY <1>0, <1>1, <1>9 DEF read_level, Reached, LightSet, WantedMode, PortAt
    <2>2. QED
      BY <2>1 DEF Reached
  <1>10. CASE indicate_led(t)
    <2>1. /\ at'[t] = "green" /\ failing'[t] = led_fail[fault_port[t]] /\ at[t] = "indicate"
          /\ UNCHANGED <<stateVars, lightVars, led_modes, fault_port, led_mode>>
      BY <1>0, <1>1, <1>10 DEF indicate_led, sysLedVars
    <2>2. LightSet' = LightSet
      BY <2>1 DEF LightSet
    <2>3. QED
      BY <1>2, <2>1, <2>2 DEF Reached
  <1>11. CASE begin_led_set(t)
    <2>1. UNCHANGED <<stateVars, lightVars, led_modes, fault_port, led_mode, failing, at>>
          /\ at[t] \in {"green", "red"}
      BY <1>11 DEF begin_led_set
    <2>2. LightSet' = LightSet
      BY <2>1 DEF LightSet
    <2>3. QED
      BY <1>2, <2>1, <2>2 DEF Reached
  <1>12. CASE end_led_set(t)
    <2>1. at'[t] \in {"red", "indicate"}
      BY <1>1, <1>12 DEF end_led_set
    <2>2. QED
      BY <1>12, <2>1, EndSetReached
  <1>13. CASE indicated(t)
    <2>1. /\ at'[t] = "trigger" /\ at[t] = "indicate" /\ fault_port[t] = MAX_FAULT_PORT
          /\ UNCHANGED <<stateVars, lightVars, led_modes>>
      BY <1>1, <1>13 DEF indicated, sysLedVars
    <2>2. \A i \in 0 .. MAX_FAULT_PORT - 1 : i < fault_port[t]
      BY <2>1, ExampleConstants
    <2>3. PortsShow /\ LightSet
      BY <2>1, <2>2 DEF Reached, PortsShow
    <2>4. ShowsState
      BY <2>3 DEF LightSet, ShowsState
    <2>5. ShowsState'
      BY <1>2, <2>1, <2>4 DEF ShowsState
    <2>6. QED
      BY <2>1, <2>5 DEF Reached
  <1>14. CASE trigger(t)
    <2>1. /\ at'[t] = "idle" /\ at[t] = "trigger"
          /\ UNCHANGED <<stateVars, lightVars, led_modes>>
      BY <1>1, <1>14 DEF trigger, sysLedVars
    <2>2. ShowsState
      BY <2>1 DEF Reached
    <2>3. QED
      BY <1>2, <2>1, <2>2 DEF ShowsState
  <1>15. QED
    BY <1>3, <1>4, <1>5, <1>6, <1>7, <1>8, <1>9, <1>10, <1>11, <1>12, <1>13, <1>14 DEF update_led

\* The invariant but for the count, which CountStep is about.
AloneInv == Threading /\ AloneReached /\ Toggling /\ SettledShows

LEMMA UpdateInv ==
    ASSUME ExampleTypes, AloneInv, NEW t \in Threads, update_led(t)
    PROVE  AloneInv'
  <1>1. /\ Threading'
        /\ ~overlapped => \A u \in Threads \ {t} : Idle(u) /\ Idle(u)'
        /\ AllIdle' /\ settled' => ~overlapped /\ Idle(t)'
    BY UpdateThreading DEF AloneInv
  <1>2. /\ at[t] \in Update /\ overlapped' = overlapped
        /\ at'[t] \in Update \cup {"idle"}
    BY UpdateGoesOn
  <1>3. ~overlapped => IF at'[t] = "idle" THEN ShowsState' ELSE Reached(t)'
    BY <1>2, UpdateReached DEF AloneInv, AloneReached
  <1>4. "idle" \notin Update /\ Update \cap LoopOnly = {}
    BY DEF Update, LoopOnly
  <1>5. AloneReached'
    BY <1>1, <1>2, <1>3, <1>4 DEF AloneReached, Idle
  <1>6. Toggling'
    <2>1. ~overlapped' => at'["loop"] \notin LoopOnly
      BY <1>1, <1>2, <1>4 DEF Threads, Idle, LoopOnly
    <2>2. QED
      BY <2>1 DEF Toggling, LoopOnly
  <1>7. SettledShows'
    BY <1>1, <1>3 DEF SettledShows, Idle
  <1>8. QED
    BY <1>1, <1>5, <1>6, <1>7 DEF AloneInv

\* Where a handler begins while another one runs, nothing is known of it.
LEMMA BeginThreading ==
    ASSUME ExampleTypes, Threading, NEW t \in Threads, NEW p \in Place \ {"idle"},
           Begin(t, p), settled' = settled
    PROVE  /\ Threading'
           /\ at'[t] = p /\ \A u \in Threads \ {t} : at'[u] = at[u]
           /\ ~AllIdle'
           /\ ~overlapped' => AllIdle
  <1>1. /\ at'[t] = p /\ \A u \in Threads \ {t} : at'[u] = at[u]
        /\ overlapped' = ~AllIdle /\ at[t] = "idle"
    BY DEF ExampleTypes, Begin, Idle
  <1>2. /\ Threads = {"loop", "library"} /\ "loop" # "library"
        /\ t = "loop" \/ t = "library"
    BY DEF Threads
  <1>3. ~(at'["loop"] = "idle") /\ ~(at'["library"] = "idle") => overlapped'
    BY <1>1, <1>2 DEF AllIdle, Idle
  <1>4. overlapped' /\ at'["library"] = "idle" => ~settled'
    BY <1>1, <1>2 DEF AllIdle, Idle
  <1>5. QED
    BY <1>1, <1>2, <1>3, <1>4 DEF Threading, AllIdle, Idle

\* Handlers that begin on a thread, and have done nothing yet.
LEMMA HandlerBegins ==
    ASSUME ExampleTypes, AloneInv,
           \/ fault_detect_fn
           \/ emergency_expires
           \/ Begin("loop", "net_state") /\ update_net_state_fn
           \/ \E params \in RpcParam : mqtt_subscribe_cb_fn(params)
    PROVE  AloneInv'
  <1>1. PICK t \in Threads, p \in {"detect", "toggle", "net_state", "update_led"} :
           /\ Begin(t, p) /\ settled' = settled
           /\ p = "update_led" \/ (t = "loop" /\ UNCHANGED <<stateVars, lightVars, led_modes>>)
           /\ p = "toggle" => timer_node = "emergency_blink_cb"
    BY DEF fault_detect_fn, emergency_expires, update_net_state_fn, mqtt_subscribe_cb_fn, Threads,
           sysLedVars
  <1>2. p \in Place \ {"idle"}
    BY DEF Place, Update, LoopOnly
  <1>3. /\ Threading'
        /\ at'[t] = p /\ \A u \in Threads \ {t} : at'[u] = at[u]
        /\ ~AllIdle'
        /\ ~overlapped' => AllIdle
    BY <1>1, <1>2, BeginThreading DEF AloneInv
  <1>4. AloneReached'
    <2>1. "idle" \notin Update
      BY DEF Update
    <2>2. ~overlapped' => \A u \in Threads \ {t} : at'[u] \notin Update
      BY <1>3, <2>1 DEF AllIdle, Idle
    <2>3. ~overlapped' /\ at'[t] \in Update => Reached(t)'
      BY <1>3 DEF Reached, Update
    <2>4. QED
      BY <2>2, <2>3 DEF AloneReached
  <1>5. Toggling'
    <2>1. SUFFICES ASSUME ~overlapped', settled', at'["loop"] \in {"toggle", "toggled", "net_state"}
                   PROVE  /\ at'["loop"] \in {"toggle", "net_state"} => ShowsState'
                          /\ at'["loop"] \in {"toggle", "toggled"} =>
                                PortsShow' /\ state_led_emergency' /\ timer_node' = "emergency_blink_cb"
      BY DEF Toggling
    <2>2. t = "loop" /\ AllIdle /\ p \in {"toggle", "net_state"}
      BY <1>1, <1>3, <2>1 DEF Threads, AllIdle, Idle
    <2>3. ShowsState /\ UNCHANGED <<stateVars, lightVars, led_modes>>
      BY <1>1, <2>1, <2>2 DEF AloneInv, SettledShows
    <2>4. ShowsState' = ShowsState /\ PortsShow' = PortsShow
      BY <2>3 DEF ShowsState, PortsShow, PortShows, WantedMode, stateVars, lightVars
    <2>5. p = "toggle" => state_led_emergency /\ PortsShow
      BY <1>1, <2>3 DEF ShowsState
    <2>6. QED
      BY <1>1, <1>3, <2>2, <2>3, <2>4, <2>5 DEF stateVars, lightVars
  <1>6. SettledShows'
    BY <1>3 DEF SettledShows
  <1>7. QED
    BY <1>3, <1>4, <1>5, <1>6 DEF AloneInv

\* The loop's thread goes on within one of its own handlers.
LEMMA HandlerGoesOn ==
    ASSUME ExampleTypes, AloneInv,
           \/ read_fault
           \/ emergency_blink_cb
           \/ GoOn("loop", "net_state", "idle") /\ update_net_state_fn
    PROVE  AloneInv'
  <1>0. /\ at \in [Threads -> Place] /\ "loop" \in Threads /\ "library" \in Threads
        /\ "loop" # "library" /\ Threads = {"loop", "library"}
    BY DEF ExampleTypes, Threads
  <1>1. /\ at["loop"] \in {"detect", "toggle", "toggled", "net_state"}
        /\ \/ at["loop"] = "detect" /\ at'["loop"] \in {"detect", "update_led"}
           \/ at["loop"] = "toggle" /\ at'["loop"] = "toggled"
           \/ at["loop"] \in {"toggled", "net_state"} /\ at'["loop"] = "idle"
        /\ at'["library"] = at["library"]
        /\ overlapped' = overlapped /\ settled' = settled
    BY <1>0 DEF read_fault, emergency_blink_cb, update_net_state_fn, GoOn
  <1>2. Threading'
    BY <1>1 DEF AloneInv, Threading, Idle
  <1>3. ~overlapped => at["library"] = "idle"
    BY <1>1 DEF AloneInv, Threading, Idle
  <1>4. AloneReached'
    <2>1. "idle" \notin Update /\ "detect" \notin Update /\ "toggled" \notin Update
      BY DEF Update
    <2>2. at'["loop"] = "update_led" => Reached("loop")'
      BY DEF Reached
    <2>3. ~overlapped' => \A u \in Threads : at'[u] \in Update => u = "loop" /\ at'["loop"] = "update_led"
      BY <1>0, <1>1, <1>3, <2>1
    <2>4. QED
      BY <2>2, <2>3 DEF AloneReached
  <1>5. ASSUME ~overlapped, settled
        PROVE  /\ at'["loop"] = "toggled" =>
                     PortsShow' /\ state_led_emergency' /\ timer_node' = "emergency_blink_cb"
               /\ at'["loop"] = "idle" => ShowsState'
    <2>1. /\ at["loop"] \in {"toggle", "net_state"} => ShowsState
          /\ at["loop"] \in {"toggle", "toggled"} =>
                PortsShow /\ state_led_emergency /\ timer_node = "emergency_blink_cb"
      BY <1>3, <1>5 DEF AloneInv, Toggling, Idle
    <2>2. UNCHANGED <<stateVars, led_modes>> => PortsShow' = PortsShow
      BY DEF PortsShow, PortShows, WantedMode, stateVars
    <2>3. CASE at["loop"] = "detect"
      BY <1>1, <2>3
    <2>4. CASE at["loop"] = "toggle"
      <3>1. UNCHANGED <<stateVars, led_modes, timer_node>>
        BY <2>4 DEF emergency_blink_cb, read_fault, update_net_state_fn, GoOn, sysLedVars
      <3>2. QED
        BY <1>1, <2>1, <2>2, <2>4, <3>1 DEF stateVars
    <2>5. CASE at["loop"] = "toggled"
      <3>1. /\ UNCHANGED <<stateVars, led_modes, timer_node, blink>>
            /\ level' = IF blink THEN 100 ELSE 50
        BY <2>5 DEF emergency_blink_cb, read_fault, update_net_state_fn, GoOn, sysLedVars
      <3>2. QED
        BY <1>1, <2>1, <2>2, <2>5, <3>1 DEF stateVars, ShowsState
    <2>6. CASE at["loop"] = "net_state"
      <3>1. UNCHANGED <<stateVars, led_modes, lightVars>>
        BY <2>6 DEF emergency_blink_cb, read_fault, update_net_state_fn, GoOn
      <3>2. QED
        BY <1>1, <2>1, <2>2, <2>6, <3>1 DEF stateVars, lightVars, ShowsState
    <2>7. QED
      BY <1>1, <2>3, <2>4, <2>5, <2>6
  <1>6. Toggling'
    BY <1>1, <1>5 DEF Toggling
  <1>7. SettledShows'
    <2>1. AllIdle' => at'["loop"] = "idle" /\ at'["library"] = "idle"
      BY <1>0 DEF AllIdle, Idle
    <2>2. AllIdle' /\ settled' => ~overlapped
      BY <1>1, <2>1 DEF AloneInv, Threading, Idle
    <2>3. QED
      BY <1>1, <1>5, <2>1, <2>2 DEF SettledShows
  <1>8. QED
    BY <1>2, <1>4, <1>6, <1>7 DEF AloneInv

\* The start-up may give timer_node up, but only while it has it; the sampling
\* leaves the lights alone.
LEMMA OthersInv ==
    ASSUME AloneInv,
           initial_led_blink_cb \/ sample_due \/ send_telemetry_sensor \/ UNCHANGED exampleVars
    PROVE  AloneInv'
  <1>1. /\ UNCHANGED <<stateVars, blink, level, led_modes, indicateVars, at, overlapped, settled>>
        /\ timer_node' = timer_node \/ (/\ at["loop"] = "idle"
                                        /\ timer_node # "emergency_blink_cb"
                                        /\ timer_node' # "emergency_blink_cb")
    BY DEF initial_led_blink_cb, sample_due, send_telemetry_sensor, exampleVars, lightVars,
           sysLedVars, Idle
  <1>2. /\ WantedMode' = WantedMode /\ PortsShow' = PortsShow
        /\ \A i \in 0 .. MAX_FAULT_PORT - 1 : PortShows(i)' = PortShows(i)
    BY <1>1 DEF stateVars, WantedMode, PortsShow, PortShows
  <1>3. (ShowsState => ShowsState') /\ (LightSet => LightSet')
    BY <1>1, <1>2 DEF ShowsState, LightSet, stateVars
  <1>4. \A t \in Threads : Reached(t) => Reached(t)'
    BY <1>1, <1>2, <1>3 DEF Reached, stateVars, indicateVars
  <1>5. Threading' /\ AloneReached'
    BY <1>1, <1>4 DEF AloneInv, Threading, AloneReached, Idle
  <1>6. Toggling'
    BY <1>1, <1>2, <1>3 DEF AloneInv, Toggling, Idle, stateVars
  <1>7. SettledShows'
    BY <1>1, <1>3 DEF AloneInv, SettledShows, AllIdle, Idle
  <1>8. QED
    BY <1>5, <1>6, <1>7 DEF AloneInv

LEMMA ExampleInitInv == ExampleInit => ExampleInv
  <1> SUFFICES ASSUME ExampleInit PROVE ExampleInv
    OBVIOUS
  <1>1. /\ \A t \in Threads : at[t] = "idle"
        /\ timer_node = "initial_led_blink_cb" /\ front = "off"
        /\ state_led_emergency = FALSE /\ state_led_on_level = 0 /\ level = 0
        /\ led_count = 0 /\ led_timer = FALSE /\ overlapped = FALSE
    BY DEF ExampleInit
  <1>2. Threading /\ AloneReached /\ Toggling
    BY <1>1 DEF Threading, AloneReached, Toggling, Threads, Idle, Update
  <1>3. PortsShow
    <2>1. /\ led_modes = [l \in PortLed |-> "LED_OFF"]
          /\ led_fail = [i \in 0 .. MAX_FAULT_PORT - 1 |-> FALSE]
      BY DEF ExampleInit
    <2>2. \A i \in 0 .. MAX_FAULT_PORT - 1 :
             led_modes[Green(i)] = "LED_OFF" /\ led_modes[Red(i)] = "LED_OFF" /\ led_fail[i] = FALSE
      BY <2>1, PortLeds
    <2>3. QED
      BY <1>1, <2>2 DEF PortsShow, PortShows, PortModes, WantedMode
  <1>4. SettledShows
    BY <1>1, <1>3 DEF SettledShows, ShowsState
  <1>5. CountedUntilTorn
    <2>1. BlinkingLeds = {} /\ FrontBlinking = 0
      BY DEF ExampleInit, BlinkingLeds, FrontBlinking
    <2>2. QED
      BY <1>1, <2>1, FS_EmptySet DEF CountedUntilTorn, LedsCounted
  <1>6. QED
    BY <1>2, <1>4, <1>5 DEF ExampleInv

\* A step of the example, or none, keeps the five parts.
LEMMA ExampleStepInv ==
    ExampleTypes /\ ExampleInv /\ [ExampleNext]_exampleVars => ExampleInv'
  <1> SUFFICES ASSUME ExampleTypes, ExampleInv, [ExampleNext]_exampleVars PROVE ExampleInv'
    OBVIOUS
  <1>1. AloneInv /\ CountedUntilTorn
    BY DEF ExampleInv, AloneInv
  <1>2. update_net_state_fn => AloneInv'
    BY <1>1, HandlerBegins, HandlerGoesOn DEF update_net_state_fn
  <1>3. AloneInv'
    BY <1>1, <1>2, UpdateInv, HandlerBegins, HandlerGoesOn, OthersInv DEF ExampleNext
  <1>4. QED
    BY <1>1, <1>3, CountStep DEF ExampleInv, AloneInv

\* Every step keeps the five parts.
THEOREM ExampleInvHolds == ExampleSpec => [](ExampleTypes /\ ExampleInv)
  BY ExampleInitTypes, ExampleStepTypes, ExampleStepInv, ExampleInitInv, PTL DEF ExampleSpec

\* main.c: once no thread changes the lights, and the last update ran alone, timer,
\* level and modes are as the state says, and the emergency light keeps blinking;
\* and until two calls of a_sys_led_set overlap the blinking LEDs are counted right.
THEOREM AloneShowsStateHolds == ExampleSpec => []AloneShowsState
  <1>1. ExampleInv => AloneShowsState
    BY DEF ExampleInv, SettledShows, CountedUntilTorn, AloneShowsState
  <1>2. QED
    BY <1>1, ExampleInvHolds, PTL

(***************************************************************************)
(* The seven components of MCComponents, of which one is chosen: the sum   *)
(* of their invariants is an invariant of the composition, whatever is     *)
(* chosen, since a step of the one leaves the variables of the others      *)
(* alone. So what the run checks of each is what its own theorems say.     *)
(***************************************************************************)

PeripheralsInv == LedInv /\ PwmInv /\ ButtonInv /\ UartInv
ApplicationsInv == UpgradeInv /\ ExampleInv /\ ExampleTypes /\ JsonInv /\ InDocument
ComponentsInv == PeripheralsInv /\ ApplicationsInv

\* Each component begins as it does alone; the parser that rests is as if it had
\* been given no message.
LEMMA ComponentsBegin == MCInit => ComponentsInv
  <1> SUFFICES ASSUME MCInit PROVE ComponentsInv
    OBVIOUS
  <1>1. PeripheralsInv
    BY LedInitInv, PwmInitInv, ButtonInitInv, UartInitInv DEF MCInit, PeripheralsInv
  <1>2. UpgradeInv /\ ExampleInv /\ ExampleTypes
    BY UpgradeInitInv, ExampleInitInv, ExampleInitTypes DEF MCInit
  <1>3. CASE part = "json"
    <2>1. JsonInv /\ InDocument
      BY <1>3, InitialState, JsonInitInv, DocumentInit DEF MCInit
    <2>2. QED
      BY <1>1, <1>2, <2>1 DEF ComponentsInv, ApplicationsInv
  <1>4. CASE part # "json"
    <2>1. JsonInv /\ InDocument
      <3>1. JsonRests
        BY <1>4 DEF MCInit
      <3>2. <<>> \in Seq(Char)
        OBVIOUS
      <3>3. QED
        BY <3>1, <3>2, JsonInitInv, DocumentInit DEF JsonRests
    <2>2. QED
      BY <1>1, <1>2, <2>1 DEF ComponentsInv, ApplicationsInv
  <1>5. QED
    BY <1>3, <1>4

\* A step is one of the chosen component, and none of each other one.
LEMMA OneSteps ==
    ASSUME [MCNext]_componentVars
    PROVE  /\ [LedNext]_ledVars /\ [PwmNext]_pwmVars
           /\ [ButtonNext]_buttonVars /\ [UartNext]_uartVars
           /\ [UpgradeNext]_upgradeVars /\ [ExampleNext]_exampleVars
           /\ [a_json_append_str_sized]_jsonVars
  <1>1. CASE LedStep
    BY <1>1 DEF LedStep
  <1>2. CASE PwmStep
    BY <1>2 DEF PwmStep
  <1>3. CASE ButtonStep
    BY <1>3 DEF ButtonStep
  <1>4. CASE UartStep
    BY <1>4 DEF UartStep
  <1>5. CASE UpgradeStep
    BY <1>5 DEF UpgradeStep
  <1>6. CASE ExampleStep
    BY <1>6 DEF ExampleStep
  <1>7. CASE JsonStep
    BY <1>7 DEF JsonStep
  <1>8. CASE UNCHANGED componentVars
    BY <1>8 DEF componentVars
  <1>9. QED
    BY <1>1, <1>2, <1>3, <1>4, <1>5, <1>6, <1>7, <1>8 DEF MCNext

\* Every step keeps the invariant of each.
THEOREM ComponentsInvHolds == MCSpec => []ComponentsInv
  <1>1. ComponentsInv /\ [MCNext]_componentVars => ComponentsInv'
    <2> SUFFICES ASSUME ComponentsInv, [MCNext]_componentVars PROVE ComponentsInv'
      OBVIOUS
    <2>1. PeripheralsInv'
      BY OneSteps, LedStepInv, PwmStepInv, ButtonStepInv, UartStepInv
      DEF ComponentsInv, PeripheralsInv
    <2>2. ApplicationsInv'
      BY OneSteps, UpgradeStepInv, ExampleStepInv, ExampleStepTypes, JsonStepInv, DocumentInv
      DEF ComponentsInv, ApplicationsInv
    <2>3. QED
      BY <2>1, <2>2 DEF ComponentsInv
  <1>2. QED
    BY <1>1, ComponentsBegin, PTL DEF MCSpec

\* Every variable of the seven keeps its type, for all LEDs, buttons, ring buffers,
\* images, slots, ports and messages.
THEOREM ComponentTypesHold == MCSpec => []ComponentsTypeOK
  <1>1. ComponentsInv => ComponentsTypeOK
    BY DEF ComponentsInv, PeripheralsInv, ApplicationsInv, LedInv, PwmInv, ButtonInv, UartInv,
           UpgradeInv, ExampleTypes, JsonInv, ComponentsTypeOK
  <1>2. QED
    BY <1>1, ComponentsInvHolds, PTL

\* What each of the seven promises holds of the composition: the timer of the LEDs,
\* their pins, the ramp's level, the last states of the buttons, the order of the
\* bytes, the image that boots, what the upgrade releases, the lights, and what the
\* parser finds.
THEOREM ComponentInvariantsHold ==
    MCSpec => [](/\ TimerWhileBlinking /\ PinsShowModes /\ OnItsWay
                 /\ LastStateOnItsWay /\ BytesInOrder /\ BootsVerified /\ Released
                 /\ AloneShowsState /\ InPlace /\ FindsMembers)
  <1>1. ComponentsInv => TimerWhileBlinking /\ PinsShowModes
    BY DEF ComponentsInv, PeripheralsInv, LedInv
  <1>2. ComponentsInv => OnItsWay /\ LastStateOnItsWay /\ BytesInOrder
    BY DEF ComponentsInv, PeripheralsInv, PwmInv, ButtonInv, UartInv
  <1>3. ComponentsInv => InPlace /\ FindsMembers
    BY DocumentFound DEF ComponentsInv, ApplicationsInv, JsonInv
  <1>4. ComponentsInv => BootsVerified /\ Released /\ AloneShowsState
    BY DEF ComponentsInv, ApplicationsInv, UpgradeInv, ExampleInv, SettledShows, CountedUntilTorn,
           AloneShowsState
  <1>5. QED
    BY <1>1, <1>2, <1>3, <1>4, ComponentsInvHolds, PTL
=============================================================================
