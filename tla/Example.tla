------------------------------ MODULE Example ------------------------------
(***************************************************************************)
(* src/example/main.c: the emergency light, which two threads change, and  *)
(* the start-up that blinks with the same timer node before it creates the *)
(* MQTT client.  Fault reports and timers are handled on the loop's        *)
(* thread; the RPC messages on the thread of the MQTT library, which calls *)
(* subscribe_cb from mqtt_connection_event_cb (sys_mqtt.c:85).  Nothing    *)
(* keeps the two apart: update_led is a step for each of its calls, and a  *)
(* call of a_sys_led_set has a beginning and an end, so that calls can     *)
(* overlap.  Each operation on the loop's lists is taken as atomic.        *)
(***************************************************************************)
EXTENDS Integers, FiniteSets

CONSTANTS
    MAX_FAULT_PORT, \* LED ports; led_fault_det has a button for two of the four
    RpcParam        \* values of "params"

ASSUME ExampleConstants == MAX_FAULT_PORT \in Nat \ {0} /\ RpcParam \subseteq Int

VARIABLES
    timer_node,     \* the handler timer_node is registered with, or "none"
    cnt,
    mqtt_inited,
    front,          \* what the server and WiFi LEDs show
    state_led_emergency,
    state_led_on_level,
    blink,
    level,          \* the target of the ramp
    led_fail,
    led_modes,      \* led.modes of the ports' LEDs
    led_count,      \* led.num_blink_led, until two calls of a_sys_led_set overlap
    led_timer,      \* led.timer_node is registered, until then
    fault_port, led_mode, \* per thread: indicate_led's i, its argument,
    failing,        \* the led_fail[i] it has read,
    in_set,         \* and whether it is inside a_sys_led_set
    torn,           \* two calls of a_sys_led_set have overlapped
    sample,         \* the worker's timer is "armed", or its job was "sent"
    published_early, \* a sample was published before there was a client
    at,             \* per thread: the next step of the handler it runs
    overlapped,     \* since a thread began alone, the other one has begun too
    settled         \* the last update of the lights was made alone

stateVars == <<state_led_emergency, state_led_on_level, led_fail>>
lightVars == <<timer_node, blink, level>>
indicateVars == <<fault_port, led_mode, failing, in_set>>
countVars == <<led_count, led_timer, torn>>
sysLedVars == <<led_modes, countVars>>
startVars == <<cnt, mqtt_inited, front>>
workerVarsOfExample == <<sample, published_early>>
exampleVars == <<stateVars, lightVars, sysLedVars, indicateVars, startVars,
                 workerVarsOfExample, at, overlapped, settled>>

Threads == {"loop", "library"}
Idle(t) == at[t] = "idle"
AllIdle == \A t \in Threads : Idle(t)

\* Indices of a port's LEDs, counted from LED_P1_G, which the repository does not
\* define.
Green(i) == 2 * i
Red(i) == 2 * i + 1
PortLed == 0 .. 2 * MAX_FAULT_PORT - 1
LedMode == {"LED_OFF", "LED_ON", "LED_BLINK"}

ExampleInit ==
    /\ timer_node = "initial_led_blink_cb"
    /\ cnt = 0 /\ mqtt_inited = FALSE /\ front = "off"
    /\ state_led_emergency = FALSE /\ state_led_on_level = 0
    /\ blink = FALSE /\ level = 0
    /\ led_fail = [i \in 0 .. MAX_FAULT_PORT - 1 |-> FALSE]
    /\ led_modes = [l \in PortLed |-> "LED_OFF"]
    /\ led_count = 0 /\ led_timer = FALSE /\ torn = FALSE
    /\ fault_port = [t \in Threads |-> 0] /\ led_mode = [t \in Threads |-> "LED_OFF"]
    /\ failing = [t \in Threads |-> FALSE] /\ in_set = [t \in Threads |-> FALSE]
    /\ sample = "armed" /\ published_early = FALSE
    /\ at = [t \in Threads |-> "idle"]
    /\ overlapped = FALSE
    /\ settled = TRUE

\* A handler begins, and goes on.
Begin(t, p) ==
    /\ Idle(t)
    /\ at' = [at EXCEPT ![t] = p]
    /\ overlapped' = ~AllIdle

GoOn(t, p, q) ==
    /\ at[t] = p
    /\ at' = [at EXCEPT ![t] = q]
    /\ UNCHANGED <<stateVars, startVars, published_early, overlapped>>

-----------------------------------------------------------------------------
(* a_sys_led_set, which reads the mode of an LED, counts, and changes the  *)
(* LED timer and the mode, without a lock                                      *)

Enter(t) ==
    /\ ~in_set[t]
    /\ in_set' = [in_set EXCEPT ![t] = TRUE]
    /\ torn' = (torn \/ \E u \in Threads : in_set[u])
    /\ led_count' = IF torn' THEN 0 ELSE led_count
    /\ led_timer' = (led_timer /\ ~torn')

Leave(t) ==
    /\ in_set[t]
    /\ in_set' = [in_set EXCEPT ![t] = FALSE]

\* What a call that met no other one does (SysLed). Calls that overlap may count an
\* LED twice or not at all, so from then on count and LED timer may be anything:
\* they are followed no further.
SetMode(l, m) ==
    LET stops == led_modes[l] = "LED_BLINK" /\ m # "LED_BLINK"
        starts == led_modes[l] # "LED_BLINK" /\ m = "LED_BLINK"
    IN  /\ led_modes' = [led_modes EXCEPT ![l] = m]
        /\ \/ (torn \/ ~(stops \/ starts)) /\ UNCHANGED <<led_count, led_timer>>
           \/ /\ ~torn /\ stops
              /\ led_count' = led_count - 1
              /\ led_timer' = (led_timer /\ led_count' # 0)
           \/ /\ ~torn /\ starts
              /\ led_count' = led_count + 1
              /\ led_timer' = (led_timer \/ led_count = 0)
        /\ UNCHANGED torn

-----------------------------------------------------------------------------
(* update_led, on either thread *)

read_emergency(t) ==
    /\ GoOn(t, "update_led", IF state_led_emergency THEN "register" ELSE "deregister")
    /\ UNCHANGED <<lightVars, sysLedVars, indicateVars, sample, settled>>

register_blink(t) ==
    /\ GoOn(t, "register", "blink")
    /\ timer_node' = "emergency_blink_cb"
    /\ UNCHANGED <<blink, level, sysLedVars, indicateVars, sample, settled>>

set_blink(t) ==
    /\ GoOn(t, "blink", "full")
    /\ blink' = TRUE
    /\ UNCHANGED <<timer_node, level, sysLedVars, indicateVars, sample, settled>>

full_level(t) ==
    /\ GoOn(t, "full", "indicate")
    /\ level' = 100
    /\ led_mode' = [led_mode EXCEPT ![t] = "LED_BLINK"]
    /\ UNCHANGED <<timer_node, blink, sysLedVars, fault_port, failing, in_set, sample, settled>>

keep_timer(t) ==
    /\ GoOn(t, "deregister", "steady")
    /\ UNCHANGED <<lightVars, sysLedVars, indicateVars, sample, settled>>

deregister_blink(t) ==
    /\ GoOn(t, "deregister", "steady")
    /\ timer_node' = "none"
    /\ UNCHANGED <<blink, level, sysLedVars, indicateVars, sample, settled>>

steady_level(t) ==
    /\ GoOn(t, "steady", "read_level")
    /\ level' = state_led_on_level
    /\ UNCHANGED <<timer_node, blink, sysLedVars, indicateVars, sample, settled>>

read_level(t) ==
    /\ GoOn(t, "read_level", "indicate")
    /\ led_mode' = [led_mode EXCEPT ![t] = IF state_led_on_level # 0 THEN "LED_ON" ELSE "LED_OFF"]
    /\ UNCHANGED <<lightVars, sysLedVars, fault_port, failing, in_set, sample, settled>>

\* A port with a fault blinks red, the others show the mode in green.
PortModes(fail, m) ==
    IF fail THEN [green |-> "LED_OFF", red |-> "LED_BLINK"]
            ELSE [green |-> m, red |-> "LED_OFF"]

indicate_led(t) ==
    /\ fault_port[t] < MAX_FAULT_PORT
    /\ GoOn(t, "indicate", "green")
    /\ failing' = [failing EXCEPT ![t] = led_fail[fault_port[t]]]
    /\ UNCHANGED <<lightVars, sysLedVars, fault_port, led_mode, in_set, sample, settled>>

begin_led_set(t) ==
    /\ at[t] \in {"green", "red"}
    /\ Enter(t)
    /\ UNCHANGED <<stateVars, lightVars, led_modes, fault_port, led_mode, failing, startVars,
                   workerVarsOfExample, at, overlapped, settled>>

end_led_set(t) ==
    /\ Leave(t)
    /\ LET shows == PortModes(failing[t], led_mode[t])
       IN  \/ /\ GoOn(t, "green", "red")
              /\ SetMode(Green(fault_port[t]), shows.green)
              /\ UNCHANGED <<fault_port, failing>>
           \/ /\ GoOn(t, "red", "indicate")
              /\ SetMode(Red(fault_port[t]), shows.red)
              /\ fault_port' = [fault_port EXCEPT ![t] = fault_port[t] + 1]
              /\ failing' = [failing EXCEPT ![t] = FALSE]
    /\ UNCHANGED <<lightVars, led_mode, sample, settled>>

indicated(t) ==
    /\ fault_port[t] = MAX_FAULT_PORT
    /\ GoOn(t, "indicate", "trigger")
    /\ fault_port' = [fault_port EXCEPT ![t] = 0]
    /\ led_mode' = [led_mode EXCEPT ![t] = "LED_OFF"]
    /\ UNCHANGED <<lightVars, sysLedVars, failing, in_set, sample, settled>>

\* a_sys_worker_trigger: nothing, if the job is already on its way.  Its thread's
\* queue has room for two jobs and no other worker uses it.
trigger(t) ==
    /\ GoOn(t, "trigger", "idle")
    /\ sample' = "sent"
    /\ settled' = ~overlapped
    /\ UNCHANGED <<lightVars, sysLedVars, indicateVars>>

update_led(t) ==
    \/ read_emergency(t) \/ register_blink(t) \/ set_blink(t) \/ full_level(t)
    \/ deregister_blink(t) \/ steady_level(t) \/ read_level(t)
    \/ indicate_led(t) \/ begin_led_set(t) \/ end_led_set(t) \/ indicated(t) \/ trigger(t)

-----------------------------------------------------------------------------
(* handlers on the loop's thread *)

fault_detect_fn ==
    /\ Begin("loop", "detect")
    /\ UNCHANGED <<stateVars, lightVars, sysLedVars, indicateVars, startVars, workerVarsOfExample,
                   settled>>

\* wiced_gpio_input_get may read anything; for the two ports behind the end of
\* led_fault_det the pin itself is whatever lies there.
read_fault ==
    /\ at["loop"] = "detect"
    /\ \E fail \in BOOLEAN : led_fail' = [led_fail EXCEPT ![fault_port["loop"]] = fail]
    /\ IF fault_port["loop"] + 1 < MAX_FAULT_PORT
       THEN /\ fault_port' = [fault_port EXCEPT !["loop"] = fault_port["loop"] + 1]
            /\ UNCHANGED at
       ELSE /\ fault_port' = [fault_port EXCEPT !["loop"] = 0]
            /\ at' = [at EXCEPT !["loop"] = "update_led"]
    /\ UNCHANGED <<state_led_emergency, state_led_on_level, lightVars, sysLedVars, led_mode,
                   failing, in_set, startVars, workerVarsOfExample, overlapped, settled>>

\* process_timer has found timer_node expired, and calls its handler.
emergency_expires ==
    /\ timer_node = "emergency_blink_cb"
    /\ Begin("loop", "toggle")
    /\ UNCHANGED <<stateVars, lightVars, sysLedVars, indicateVars, startVars, workerVarsOfExample,
                   settled>>

emergency_blink_cb ==
    /\ \/ /\ GoOn("loop", "toggle", "toggled")
          /\ blink' = ~blink
          /\ UNCHANGED level
       \/ /\ GoOn("loop", "toggled", "idle")
          /\ level' = IF blink THEN 100 ELSE 50
          /\ UNCHANGED blink
    /\ UNCHANGED <<timer_node, sysLedVars, indicateVars, sample, settled>>

\* Of each pair of the first four LEDs one blinks, before and after, whatever the
\* MQTT client reports: so the four calls are taken as one.
update_net_state_fn ==
    /\ \/ /\ mqtt_inited
          /\ Begin("loop", "net_state")
          /\ Enter("loop")
       \/ /\ GoOn("loop", "net_state", "idle")
          /\ Leave("loop")
          /\ UNCHANGED countVars
    /\ UNCHANGED <<stateVars, lightVars, led_modes, fault_port, led_mode, failing, startVars,
                   workerVarsOfExample, settled>>

last_blink_lost ==
    /\ timer_node = "initial_led_blink_cb" /\ Idle("loop")
    /\ cnt' = cnt + 1
    /\ timer_node' = IF cnt' > 5 THEN "none" ELSE timer_node
    /\ mqtt_inited' = (cnt' > 6)
    /\ front' = IF cnt' > 6 THEN "net_state" ELSE IF cnt' % 2 = 1 THEN "green" ELSE "red"
    /\ led_count' = IF cnt' > 6 THEN led_count + 2 ELSE led_count
    /\ led_timer' = (led_timer \/ cnt' > 6)
    /\ UNCHANGED <<stateVars, blink, level, led_modes, torn, indicateVars, workerVarsOfExample, at,
                   overlapped, settled>>

\* The library does not call subscribe_cb before init_mqtt, so this handler is
\* alone.
initial_led_blink_cb ==
    /\ timer_node = "initial_led_blink_cb" /\ Idle("loop")
    /\ cnt' = cnt + 1
    /\ timer_node' = IF cnt' > 6 THEN "none" ELSE timer_node
    /\ mqtt_inited' = (cnt' > 6)
    /\ front' = IF cnt' > 6 THEN "net_state" ELSE IF cnt' % 2 = 1 THEN "green" ELSE "red"
    /\ led_count' = IF cnt' > 6 THEN led_count + 2 ELSE led_count
    /\ led_timer' = (led_timer \/ cnt' > 6)
    /\ UNCHANGED <<stateVars, blink, level, led_modes, torn, indicateVars, workerVarsOfExample, at,
                   overlapped, settled>>

\* SENSING_INTERVAL is 10 s and the start-up blinks for 3.5 s.
sample_due ==
    /\ Idle("loop")
    /\ sample = "armed" /\ timer_node # "initial_led_blink_cb"
    /\ sample' = "sent"
    /\ UNCHANGED <<stateVars, lightVars, sysLedVars, indicateVars, startVars, published_early, at,
                   overlapped, settled>>

\* finish_fn; the worker arms its timer again (SysWorker).
send_telemetry_sensor ==
    /\ Idle("loop")
    /\ sample = "sent"
    /\ sample' = "armed"
    /\ published_early' = (published_early \/ ~mqtt_inited)
    /\ UNCHANGED <<stateVars, lightVars, sysLedVars, indicateVars, startVars, at, overlapped, settled>>

-----------------------------------------------------------------------------
(* an RPC message, on the library's thread *)

\* a_json_get_prop_int of a value that is a number
clamp(i, min, max) == IF i <= min THEN min ELSE IF i >= max THEN max ELSE i

set_emergency(params) ==
    /\ state_led_emergency' = (clamp(params, 0, 1) = 1)
    /\ state_led_emergency' # state_led_emergency
    /\ UNCHANGED state_led_on_level

set_on_level(params) ==
    /\ state_led_on_level' = clamp(params, 0, 100)
    /\ state_led_on_level' # state_led_on_level
    /\ UNCHANGED state_led_emergency

mqtt_subscribe_cb_fn(params) ==
    /\ mqtt_inited
    /\ set_emergency(params) \/ set_on_level(params)
    /\ Begin("library", "update_led")
    /\ UNCHANGED <<led_fail, lightVars, sysLedVars, indicateVars, startVars, workerVarsOfExample,
                   settled>>

ExampleNext ==
    \/ \E t \in Threads : update_led(t)
    \/ fault_detect_fn
    \/ read_fault
    \/ update_net_state_fn
    \/ emergency_expires
    \/ emergency_blink_cb
    \/ initial_led_blink_cb
    \/ sample_due
    \/ send_telemetry_sensor
    \/ \E params \in RpcParam : mqtt_subscribe_cb_fn(params)

\* The loop calls the handler of an expired timer in the end.
ExampleSpec == ExampleInit /\ [][ExampleNext]_exampleVars /\ WF_exampleVars(initial_led_blink_cb)

-----------------------------------------------------------------------------
StateTypes ==
    /\ state_led_emergency \in BOOLEAN /\ state_led_on_level \in 0 .. 100
    /\ led_fail \in [0 .. MAX_FAULT_PORT - 1 -> BOOLEAN]

LightTypes ==
    /\ timer_node \in {"none", "initial_led_blink_cb", "emergency_blink_cb"}
    /\ blink \in BOOLEAN /\ level \in 0 .. 100

SysLedTypes ==
    /\ led_modes \in [PortLed -> LedMode]
    /\ led_count \in Int /\ led_timer \in BOOLEAN /\ torn \in BOOLEAN

IndicateTypes ==
    /\ fault_port \in [Threads -> 0 .. MAX_FAULT_PORT] /\ led_mode \in [Threads -> LedMode]
    /\ failing \in [Threads -> BOOLEAN] /\ in_set \in [Threads -> BOOLEAN]

StartTypes ==
    /\ cnt \in 0 .. 7 /\ mqtt_inited \in BOOLEAN
    /\ front \in {"off", "green", "red", "net_state"}

WorkerTypes == sample \in {"armed", "sent"} /\ published_early \in BOOLEAN

\* Every variable has its type; the blinking counts to seven.
ExampleTypeOK ==
    /\ StateTypes /\ LightTypes /\ SysLedTypes /\ IndicateTypes /\ StartTypes /\ WorkerTypes
    /\ overlapped \in BOOLEAN /\ settled \in BOOLEAN

FrontBlinking == IF front = "net_state" THEN 2 ELSE 0
BlinkingLeds == {l \in PortLed : led_modes[l] = "LED_BLINK"}

\* The count and the timer of the LEDs are right.
LedsCounted ==
    /\ led_count = Cardinality(BlinkingLeds) + FrontBlinking
    /\ led_timer <=> led_count # 0

WantedMode ==
    IF state_led_emergency THEN "LED_BLINK"
    ELSE IF state_led_on_level # 0 THEN "LED_ON" ELSE "LED_OFF"

PortShows(i) ==
    [green |-> led_modes[Green(i)], red |-> led_modes[Red(i)]] = PortModes(led_fail[i], WantedMode)

PortsShow == \A i \in 0 .. MAX_FAULT_PORT - 1 : PortShows(i)

ShowsState ==
    /\ PortsShow
    /\ IF state_led_emergency
       THEN /\ timer_node = "emergency_blink_cb"
            /\ level = IF blink THEN 100 ELSE 50
       ELSE /\ timer_node # "emergency_blink_cb"
            /\ level = state_led_on_level

\* An update of the lights that the other thread did not meet leaves timer, level
\* and the modes of the LEDs as the state says, and the blinking keeps them so:
\* of timer_node, level and modes whatever updates overlapped before is repaired by
\* the next one.  Updates that do overlap may leave an emergency that does not
\* blink, or a light that blinks without one.  The count of the blinking LEDs and
\* the timer behind it are right as long as no two calls of a_sys_led_set have
\* overlapped; after that no later call repairs them (sys_led.c:49-61).
AloneShowsState ==
    /\ AllIdle /\ settled => ShowsState
    /\ ~torn => LedsCounted

\* Unless a fault is reported while it blinks (the report takes timer_node away,
\* main.c:161), the start-up ends with the client created, and nothing was
\* published before.
MqttStarts ==
    [](mqtt_inited \/ Idle("loop")) => <>mqtt_inited /\ []~published_early
=============================================================================
