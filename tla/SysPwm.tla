------------------------------- MODULE SysPwm -------------------------------
(***************************************************************************)
(* src/common/sys_pwm.c: a level that moves to its target along a square   *)
(* curve, one step per timer call.  The timer is one-shot: its handler     *)
(* takes it away and registers it again while the ramp goes on.            *)
(***************************************************************************)
EXTENDS Integers

CONSTANTS
    PwmLevel,       \* levels a_sys_pwm_level is called with, in per cent
    total_step      \* steps of a ramp

ASSUME PwmConstants == PwmLevel \subseteq 0 .. 100 /\ total_step \in Nat \ {0}

VARIABLES start_val, target_val, cur_val, step,
    pwm_armed,      \* s->timer_node is in the loop's timer list
    pwm             \* the duty cycle set last

pwmVars == <<start_val, target_val, cur_val, step, pwm_armed, pwm>>

\* round() of the quotient of n by the positive d: half away from zero
Round(n, d) == IF n >= 0 THEN (2 * n + d) \div (2 * d) ELSE -((d - 2 * n) \div (2 * d))

falls_backwards(start, end, total, i) ==
    LET j == IF end < start THEN total - i ELSE i
        v == Round((end - start) * j * j, total * total)
    IN  v + start

\* The curve is flat where the level is low, so a falling ramp is the rising
\* one run backwards.
square_val(start, end, total, i) ==
    LET j == IF end < start THEN total - i ELSE i
        v == Round((end - start) * j * j, total * total)
    IN  IF end >= start THEN v + start ELSE end - v

a_sys_pwm_init ==
    /\ start_val = 0 /\ target_val = 0 /\ cur_val = 0 /\ step = 0
    /\ pwm_armed = FALSE
    /\ pwm = 0

one_step_short(start, target, cur, i) ==
    LET last == i + 1 >= total_step \/ cur = target
    IN  /\ step' = i + 1
        /\ cur_val' = square_val(start, target, total_step, i)
        /\ pwm' = cur_val'
        /\ pwm_armed' = ~last

timer_not_registered(start, target, cur, i) ==
    LET last == i + 1 >= total_step \/ cur = target
    IN  /\ step' = i + 1
        /\ cur_val' = IF last THEN target ELSE square_val(start, target, total_step, i + 1)
        /\ pwm' = cur_val'
        /\ pwm_armed' = FALSE

\* timer_callback on the state it finds; the handler of the timer and
\* a_sys_pwm_level both call it.
advance(start, target, cur, i) ==
    LET last == i + 1 >= total_step \/ cur = target
    IN  /\ step' = i + 1
        /\ cur_val' = IF last THEN target ELSE square_val(start, target, total_step, i + 1)
        /\ pwm' = cur_val'
        /\ pwm_armed' = ~last

pwm_timer_callback ==
    /\ pwm_armed
    /\ advance(start_val, target_val, cur_val, step)
    /\ UNCHANGED <<start_val, target_val>>

\* A new ramp begins where the old one was, at its second step.
a_sys_pwm_level(level) ==
    /\ start_val' = cur_val
    /\ target_val' = level
    /\ advance(cur_val, level, cur_val, 1)

SetLevel == \E level \in PwmLevel : a_sys_pwm_level(level)

PwmNext == pwm_timer_callback \/ SetLevel

\* The loop calls the handler of an expired timer in the end.
PwmSpec == a_sys_pwm_init /\ [][PwmNext]_pwmVars /\ WF_pwmVars(pwm_timer_callback)

-----------------------------------------------------------------------------
Between(a, x, b) == (a <= x /\ x <= b) \/ (b <= x /\ x <= a)

\* The duty cycle is a percentage and a ramp has total_step steps at most.
PwmTypeOK ==
    /\ {start_val, target_val, cur_val, pwm} \subseteq 0 .. 100
    /\ step \in 0 .. total_step + 1
    /\ pwm_armed \in BOOLEAN

\* While the timer is registered the level is on its way, between where the
\* ramp began and its target; without a timer it has arrived.
OnItsWay ==
    /\ pwm = cur_val
    /\ IF pwm_armed THEN Between(start_val, cur_val, target_val) ELSE cur_val = target_val

\* No step of a ramp leads away from its target, rising or falling, also when a
\* new level interrupts the ramp to the old one.
NeverAway ==
    [][Between(cur_val, cur_val', target_val')]_pwmVars

\* When no new level is asked for, the level asked for last is reached and
\* stays.
Settles == <>[][~SetLevel]_pwmVars => <>[](pwm = target_val /\ ~pwm_armed)
=============================================================================
