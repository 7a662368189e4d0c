------------------------------- MODULE SysLed -------------------------------
(***************************************************************************)
(* src/common/sys_led.c: LEDs that are off, on or blinking, the blinking   *)
(* ones driven by one timer that is registered only while some LED blinks. *)
(* Of the event loop it needs what LoopPromise promises: the timer's       *)
(* handler is called on the loop's thread, and only while it is armed.     *)
(***************************************************************************)
EXTENDS Naturals, FiniteSets

CONSTANT Led            \* indices below max_leds

ASSUME LedType == IsFiniteSet(Led)

VARIABLES
    modes,          \* s->modes
    num_blink_led,
    blink_cur,
    led_armed,      \* s->timer_node is in the loop's timer list
    gpio            \* what each pin was set to last

ledVars == <<modes, num_blink_led, blink_cur, led_armed, gpio>>

Mode == {"LED_OFF", "LED_ON", "LED_BLINK"}

\* a_sys_led_init does not drive the pins: their level is the board's.
a_sys_led_init ==
    /\ modes = [i \in Led |-> "LED_OFF"]
    /\ num_blink_led = 0
    /\ blink_cur = FALSE
    /\ led_armed = FALSE
    /\ gpio = [i \in Led |-> "undriven"]

PinLevel(on) == IF on THEN "high" ELSE "low"

Blinking == {i \in Led : modes[i] = "LED_BLINK"}

led_timer_callback ==
    /\ led_armed
    /\ blink_cur' = ~blink_cur
    /\ gpio' = [i \in Led |-> IF i \in Blinking THEN PinLevel(~blink_cur) ELSE gpio[i]]
    /\ UNCHANGED <<modes, num_blink_led, led_armed>>

stop_without_count(i, mode) ==
    /\ i \in Blinking
    /\ mode # "LED_BLINK"
    /\ num_blink_led' = num_blink_led - 1
    /\ led_armed' = FALSE
    /\ UNCHANGED blink_cur

\* The last blinking LED takes the timer away,
stop_blinking(i, mode) ==
    /\ i \in Blinking
    /\ mode # "LED_BLINK"
    /\ num_blink_led' = num_blink_led - 1
    /\ led_armed' = (led_armed /\ num_blink_led' # 0)
    /\ UNCHANGED blink_cur

start_again(i, mode) ==
    /\ mode = "LED_BLINK"
    /\ num_blink_led' = num_blink_led + 1
    /\ led_armed' = TRUE
    /\ blink_cur' = IF num_blink_led = 0 THEN TRUE ELSE blink_cur

start_in_new_phase(i, mode) ==
    /\ i \notin Blinking
    /\ mode = "LED_BLINK"
    /\ num_blink_led' = num_blink_led + 1
    /\ led_armed' = TRUE
    /\ blink_cur' = TRUE

\* the first one registers it and begins with light,
start_blinking(i, mode) ==
    /\ i \notin Blinking
    /\ mode = "LED_BLINK"
    /\ num_blink_led' = num_blink_led + 1
    /\ led_armed' = (led_armed \/ num_blink_led = 0)
    /\ blink_cur' = (blink_cur \/ num_blink_led = 0)

\* and any other change of mode concerns one pin.
keep_blinking(i, mode) ==
    /\ i \in Blinking <=> mode = "LED_BLINK"
    /\ UNCHANGED <<num_blink_led, blink_cur, led_armed>>

a_sys_led_set(i, mode) ==
    /\ stop_blinking(i, mode) \/ start_blinking(i, mode) \/ keep_blinking(i, mode)
    /\ modes' = [modes EXCEPT ![i] = mode]
    /\ gpio' = [gpio EXCEPT ![i] =
          PinLevel(mode = "LED_ON" \/ (mode = "LED_BLINK" /\ blink_cur'))]

LedNext ==
    \/ led_timer_callback
    \/ \E i \in Led, mode \in Mode : a_sys_led_set(i, mode)

LedSpec == a_sys_led_init /\ [][LedNext]_ledVars

-----------------------------------------------------------------------------
\* The counter never goes below zero nor beyond the LEDs there are.
LedTypeOK ==
    /\ modes \in [Led -> Mode]
    /\ num_blink_led \in 0 .. Cardinality(Led)
    /\ blink_cur \in BOOLEAN
    /\ led_armed \in BOOLEAN
    /\ gpio \in [Led -> {"high", "low", "undriven"}]

\* The timer is registered exactly while some LED blinks, however often the
\* modes of all of them are set and set again: the counter behind it counts the
\* blinking LEDs.
TimerWhileBlinking ==
    /\ num_blink_led = Cardinality(Blinking)
    /\ led_armed <=> Blinking # {}

\* Each pin shows its LED's mode, and all blinking LEDs blink in phase, those
\* included that began at different times.
PinsShowModes ==
    \A i \in Led : gpio[i] # "undriven" =>
        gpio[i] = PinLevel(modes[i] = "LED_ON" \/ (i \in Blinking /\ blink_cur))
=============================================================================
