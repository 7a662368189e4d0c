-------------------------- MODULE EventLoopTimed ---------------------------
(***************************************************************************)
(* EventLoop with its clock: next_timeout of every timer, the wait's       *)
(* time-out, process_timer's one reading of the time and the time limit of *)
(* an activation, all computed on an unsigned clock that wraps.            *)
(*                                                                         *)
(* Time passes while the loop sleeps, while client code runs, and a tick   *)
(* may fall into a wait with a zero time-out; between two readings of the  *)
(* clock in the loop's own code (line 182 of one iteration and lines 149   *)
(* to 151 of the next) none does.                                          *)
(***************************************************************************)
EXTENDS EventLoop, Integers

CONSTANTS
    Modulus,        \* wiced_time_t counts modulo this (2^32 ms in C)
    Interval,       \* intervals clients register timers with
    Limit,          \* values of timeout_ms other than WICED_WAIT_FOREVER
    Forever         \* WICED_WAIT_FOREVER

Half == Modulus \div 2

ASSUME ModulusType == Modulus \in Nat /\ Modulus = 2 * Half /\ Half > 1
\* No caller in the repository registers a timer with the interval 0.  Such a
\* timer would be due again at once, and the scan of eventloop.c:50 not end.
ASSUME IntervalType == Interval \subseteq 1 .. Half - 1
ASSUME LimitType == \A l \in Limit : l \in Nat /\ 0 < l /\ 2 * l < Modulus
ASSUME ForeverDistinct == Forever \notin Nat

VARIABLES
    clock,          \* wiced_time_get_time
    interval,       \* node->interval
    next_timeout,   \* node->next_timeout
    times,          \* per activation, what its local variables say of time
    age             \* ticks since the reading next_timeout was computed from

timeVars == <<interval, next_timeout, age>>
timedVars == <<vars, clock, timeVars, times>>

(***************************************************************************)
(* start: start_time; limit: timeout_ms; now: process_timer's reading of   *)
(* the clock, while it scans; asked and until: when the current wait began *)
(* and when it times out.                                                  *)
(***************************************************************************)
Time == 0 .. Modulus - 1
Times == [start : Time, limit : Limit \cup {Forever}, now : Time,
          asked : Time, until : Time \cup {Forever}]

After(a, d) == (a + d) % Modulus
Since(a) == (clock - a) % Modulus
\* (int)(a - b)
UnsignedGap(a, b) == (a - b) % Modulus
Gap(a, b) == LET d == (a - b) % Modulus IN IF d < Half THEN d ELSE d - Modulus

Now == times[Len(times)]

TimedInit ==
    /\ Init
    /\ clock = 0
    /\ interval = [t \in TimerNode |-> 0]
    /\ next_timeout = [t \in TimerNode |-> 0]
    /\ times = <<>>
    /\ age = [t \in TimerNode |-> 0]

-----------------------------------------------------------------------------
\* get_first_timeout: zero if a timer is due, else the shortest distance.
last_timeout ==
    LET gaps == {Gap(next_timeout[t], clock) : t \in Range(timer_list)}
    IN  IF timer_list = <<>> THEN Forever
        ELSE IF \E g \in gaps : g <= 0 THEN 0
        ELSE CHOOSE g \in gaps : \A h \in gaps : g >= h

get_first_timeout ==
    LET gaps == {Gap(next_timeout[t], clock) : t \in Range(timer_list)}
    IN  IF timer_list = <<>> THEN Forever
        ELSE IF \E g \in gaps : g <= 0 THEN 0
        ELSE CHOOSE g \in gaps : \A h \in gaps : g <= h

Shorter(a, b) ==
    IF a = Forever THEN b ELSE IF b = Forever THEN a ELSE IF a < b THEN a ELSE b

\* The source shortens the wait to the time that has passed since start.
unlimited(limit, elapsed) == Forever
limit_of_wait(limit, elapsed) == IF limit = Forever THEN Forever ELSE elapsed

\* Lines 146 to 157: the time-out of the next wait.
timeout(limit, elapsed) ==
    IF pending_events # {} THEN 0
    ELSE Shorter(get_first_timeout, limit_of_wait(limit, elapsed))

WaitingTimes(start, limit) ==
    LET d == timeout(limit, Since(start))
    IN  [start |-> start, limit |-> limit, now |-> 0, asked |-> clock,
         until |-> IF d = Forever THEN Forever ELSE After(clock, d)]

SetNow(tm) == times' = [times EXCEPT ![Len(times)] = tm]

enter(limit) ==
    /\ a_eventloop(limit = Forever)
    /\ times' = Append(times, WaitingTimes(clock, limit))
    /\ UNCHANGED <<clock, timeVars>>

\* The flags are there or the time-out is over.
wait ==
    /\ wait_for_event_flags
    /\ events = {} => Now.until # Forever /\ Gap(Now.until, clock) <= 0
    /\ SetNow([Now EXCEPT !.asked = 0, !.until = 0])
    /\ UNCHANGED <<clock, timeVars>>

expired_unwrapped(t) == next_timeout[t] <= clock

\* (int)(node->next_timeout - now) <= 0
expired_unsigned(t) == UnsignedGap(next_timeout[t], clock) <= 0
expired(t) == Gap(next_timeout[t], clock) <= 0

scan ==
    /\ process_timer({t \in Range(timer_list) : expired(t)})
    /\ SetNow([Now EXCEPT !.now = clock])
    /\ UNCHANGED <<clock, timeVars>>

\* node->next_timeout = now + node->interval, before the call.
rearm_from_due(t) == After(next_timeout[t], interval[t])
rearm(t) == After(Now.now, interval[t])

fire(t) ==
    /\ expire(t)
    /\ next_timeout' = [next_timeout EXCEPT ![t] = rearm(t)]
    /\ age' = [age EXCEPT ![t] = Since(Now.now)]
    /\ UNCHANGED <<clock, interval, times>>

OutOfTime == Now.limit # Forever /\ Since(Now.start) >= Now.limit

again ==
    /\ iterate
    /\ ~OutOfTime
    /\ SetNow(WaitingTimes(Now.start, Now.limit))
    /\ UNCHANGED <<clock, timeVars>>

Leave == times' = SubSeq(times, 1, Len(times) - 1)

leave ==
    /\ stop \/ (time_out /\ OutOfTime)
    /\ Leave
    /\ UNCHANGED <<clock, timeVars>>

in_pass ==
    /\ \/ \E e \in EventNode : dispatch(e) \/ skip(e)
       \/ handler_returns
    /\ UNCHANGED <<clock, timeVars, times>>

register_timer(t, i) ==
    /\ a_eventloop_register_timer(t)
    /\ interval' = [interval EXCEPT ![t] = i]
    /\ next_timeout' = [next_timeout EXCEPT ![t] = After(clock, i)]
    /\ age' = [age EXCEPT ![t] = 0]
    /\ UNCHANGED <<clock, times>>

deregister_timer(t) ==
    /\ a_eventloop_deregister_timer(t)
    /\ age' = [age EXCEPT ![t] = 0]
    /\ UNCHANGED <<clock, interval, next_timeout, times>>

other_client_step ==
    /\ \/ EventOperation
       \/ a_eventloop_break
       \/ SetFlag
    /\ UNCHANGED <<clock, timeVars, times>>

-----------------------------------------------------------------------------
(***************************************************************************)
(* Bounds on how long client code keeps the loop.  They say that no        *)
(* handler runs for half the range of the clock (24 days): beyond it the   *)
(* signed distance of a late timer changes its sign.                       *)
(***************************************************************************)
InRange(now) ==
    /\ \A t \in Range(timer_list) : age[t] + 1 < Half
    /\ \A i \in DOMAIN stack :
          /\ times[i].limit # Forever => (now - times[i].start) % Modulus # 0
          /\ stack[i].pc = "timers" =>
                \A d \in Interval : ((now - times[i].now) % Modulus) + d < Half

\* The sleep is not over, or a zero time-out is being polled.
Asleep ==
    /\ Running("wait")
    /\ events = {}
    /\ Now.until # Forever =>
          Gap(Now.until, clock) > 0 \/ (Now.until = Now.asked /\ Now.asked = clock)

tick ==
    /\ Asleep \/ (stack # <<>> /\ Top.call # NULL)
    /\ InRange(After(clock, 1))
    /\ clock' = After(clock, 1)
    /\ age' = [t \in TimerNode |->
                  IF is_node_in(timer_list, t) THEN age[t] + 1 ELSE age[t]]
    /\ UNCHANGED <<vars, interval, next_timeout, times>>

TimedLoopStep ==
    wait \/ in_pass \/ scan \/ (\E t \in TimerNode : fire(t)) \/ again \/ leave

TimedNext ==
    \/ TimedLoopStep
    \/ \E l \in Limit \cup {Forever} : enter(l)
    \/ \E t \in TimerNode, i \in Interval : register_timer(t, i)
    \/ \E t \in TimerNode : deregister_timer(t)
    \/ other_client_step
    \/ tick

TimedSpec == TimedInit /\ [][TimedNext]_timedVars

\* As for EventLoop; nothing is assumed of the clock but that a sleep ends.
TimedFairness ==
    /\ WF_timedVars(TimedLoopStep)
    /\ WF_timedVars(tick)
    /\ WF_timedVars(stack = <<>> /\ enter(Forever))
    /\ \A d \in 1 .. MaxDepth :
          SF_timedVars(Len(stack) = d /\ in_pass /\ Top.call # NULL)

TimedFairSpec == TimedSpec /\ TimedFairness

-----------------------------------------------------------------------------
(* properties *)

\* Clock readings stay on the clock, and each activation has its own.
TimedTypeOK ==
    /\ clock \in Time
    /\ interval \in [TimerNode -> Interval \cup {0}]
    /\ next_timeout \in [TimerNode -> Time]
    /\ times \in Seq(Times)
    /\ Len(times) = Len(stack)
    /\ age \in [TimerNode -> 0 .. Half - 1]

\* The timers a scan still has to call are those of timer_list whose
\* next_timeout is not after the scan's reading of the clock, as the C
\* expression computes it, in every activation and although handlers and inner
\* activations rearm, register and deregister timers meanwhile: EventLoop's
\* sets of due timers say what eventloop.c:47 computes.
DueExact ==
    \A i \in DOMAIN stack : stack[i].pc = "timers" =>
        \A t \in Range(timer_list) :
            t \in stack[i].due <=> Gap(next_timeout[t], times[i].now) <= 0

\* No timer's handler is called before its interval has passed since it was
\* registered or since the scan that called it last, the clock's wrap included.
NeverEarly ==
    [][\A t \in TimerNode : fire(t) => age[t] >= interval[t]]_timedVars

\* The loop never sleeps past a timer: a wait that is not a poll ends by the
\* time the first registered timer is due (eventloop.c:149).
NoOversleep ==
    Running("wait") /\ Now.until # Now.asked =>
        \A t \in Range(timer_list) :
            /\ Now.until # Forever
            /\ Gap(next_timeout[t], Now.until) >= 0

\* An activation with a time limit sleeps at last until less than twice its
\* limit: it waits as long again as it has run (eventloop.c:153), and it has run
\* for less than the limit.
SleepBounded ==
    Running("wait") /\ Now.limit # Forever =>
        /\ Now.until # Forever
        /\ (Now.until - Now.start) % Modulus < 2 * Now.limit

\* A timer that is due is called in the end, unless it is rearmed or removed
\* first, whatever flags keep coming and although other timers are due ahead of
\* it in the list each time process_timer starts again from the front.  What can
\* still put it off is a handler that breaks the loop in every pass: the loop
\* returns before process_timer (eventloop.c:176).
Overdue(t) == t \in Range(timer_list) /\ age[t] >= interval[t]
Called(t) == stack # <<>> /\ Top.call = t
OverdueServed ==
    \A t \in TimerNode : Overdue(t) ~> ~Overdue(t) \/ Called(t) \/ loop_stop
=============================================================================
