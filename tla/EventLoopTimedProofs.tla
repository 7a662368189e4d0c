------------------------ MODULE EventLoopTimedProofs ------------------------
(***************************************************************************)
(* Proofs about the loop's clock, for every even range of the clock, all   *)
(* intervals below half of it, all time limits, and every depth of         *)
(* nesting: the C expressions on wiced_time_t compute what they are meant  *)
(* to although the clock wraps.                                            *)
(***************************************************************************)
EXTENDS EventLoopTimed, EventLoopProofs, WellFoundedInduction

(***************************************************************************)
(* The clock                                                               *)
(***************************************************************************)

\* What is known of the range of the clock.
LEMMA ClockRange ==
    /\ Half \in Nat /\ Half > 1
    /\ Modulus \in Nat /\ Modulus = 2 * Half
    /\ Interval \subseteq 1 .. Half - 1
    /\ \A l \in Limit : l \in 1 .. Half - 1 /\ 2 * l < Modulus
<1>1. Modulus \in Nat /\ Modulus = 2 * Half /\ Half > 1
  BY ModulusType
<1>2. Half \in Nat
  BY <1>1 DEF Half
<1> QED
  BY <1>1, <1>2, IntervalType, LimitType

\* Half a range fits the range, and readings are natural numbers.
LEMMA ReadingsAre == \A a \in Int : a \in Time <=> 0 <= a /\ a < Modulus
BY ClockRange DEF Time

LEMMA TimeIsNat == Time \subseteq Nat
BY ModulusType DEF Time

\* The clock's reading of a sum or difference of two readings.
Reading(a) == a % Modulus

\* What it is for a number at most one range out of it.
Wrapped(a) == IF a < 0 THEN a + Modulus ELSE IF a < Modulus THEN a ELSE a - Modulus

LEMMA ReadingWraps ==
    ASSUME NEW a \in Int, 0 - Modulus <= a, a < 2 * Modulus
    PROVE  /\ Reading(a) \in Time
           /\ Reading(a) = Wrapped(a)
<1>1. Modulus \in Nat /\ Modulus > 0
  BY ClockRange
<1>2. a % Modulus = IF a < 0 THEN a + Modulus
                    ELSE IF a < Modulus THEN a ELSE a - Modulus
  BY <1>1
<1>3. a % Modulus \in 0 .. Modulus - 1
  BY <1>1
<1> QED
  BY <1>2, <1>3 DEF Reading, Wrapped, Time

\* A reading moved by a duration.
LEMMA AfterReading ==
    ASSUME NEW a \in Time, NEW d \in 0 .. Half
    PROVE  /\ After(a, d) \in Time
           /\ After(a, d) = IF a + d < Modulus THEN a + d ELSE a + d - Modulus
<1>1. After(a, d) = Reading(a + d)
  BY DEF After, Reading
<1> QED
  BY <1>1, ClockRange, ReadingsAre, TimeIsNat, ReadingWraps DEF Wrapped

\* The time from one reading to another.
LEMMA Distance ==
    ASSUME NEW a \in Time, NEW b \in Time
    PROVE  /\ UnsignedGap(a, b) \in Time
           /\ UnsignedGap(a, b) = IF a < b THEN a - b + Modulus ELSE a - b
           /\ UnsignedGap(a, a) = 0
<1>1. UnsignedGap(a, b) = Reading(a - b) /\ UnsignedGap(a, a) = Reading(a - a)
  BY DEF UnsignedGap, Reading
<1> QED
  BY <1>1, ClockRange, ReadingsAre, TimeIsNat, ReadingWraps DEF Wrapped

\* The time since a reading grows with the clock until it wraps.
LEMMA DistanceGrows ==
    ASSUME NEW a \in Time, NEW b \in Time, NEW d \in 0 .. Half,
           UnsignedGap(a, b) + d < Modulus
    PROVE  UnsignedGap(After(a, d), b) = UnsignedGap(a, b) + d
<1>1. After(a, d) \in Time
  BY AfterReading
<1> QED
  BY <1>1, ClockRange, ReadingsAre, TimeIsNat, AfterReading, Distance

\* The signed distance of two readings.
LEMMA GapType ==
    ASSUME NEW a \in Time, NEW b \in Time
    PROVE  /\ Gap(a, b) \in (0 - Half) .. Half - 1
           /\ Gap(a, a) = 0
           /\ Gap(a, b) = IF UnsignedGap(a, b) < Half THEN UnsignedGap(a, b)
                          ELSE UnsignedGap(a, b) - Modulus
<1>1. /\ Gap(a, b) = IF UnsignedGap(a, b) < Half THEN UnsignedGap(a, b)
                     ELSE UnsignedGap(a, b) - Modulus
      /\ Gap(a, a) = IF UnsignedGap(a, a) < Half THEN UnsignedGap(a, a)
                     ELSE UnsignedGap(a, a) - Modulus
  BY DEF Gap, UnsignedGap
<1>2. UnsignedGap(a, b) \in Time /\ UnsignedGap(a, a) = 0
  BY Distance
<1>3. UnsignedGap(a, b) \in Nat /\ UnsignedGap(a, b) < Modulus
  BY <1>2, ClockRange DEF Time
<1>4. Gap(a, a) = 0
  BY <1>1, <1>2, ClockRange
<1>5. Gap(a, b) \in (0 - Half) .. Half - 1
  BY <1>1, <1>3, ClockRange
<1> QED
  BY <1>1, <1>4, <1>5

\* The signed distance of a reading to a clock that moves towards it.
LEMMA GapShrinks ==
    ASSUME NEW a \in Time, NEW b \in Time, NEW d \in 0 .. Half, d <= Gap(a, b)
    PROVE  Gap(a, After(b, d)) = Gap(a, b) - d
<1>1. After(b, d) \in Time
  BY AfterReading
<1>2. After(b, d) = IF b + d < Modulus THEN b + d ELSE b + d - Modulus
  BY AfterReading
<1>3. /\ UnsignedGap(a, b) = IF a < b THEN a - b + Modulus ELSE a - b
      /\ UnsignedGap(a, After(b, d)) =
            IF a < After(b, d) THEN a - After(b, d) + Modulus ELSE a - After(b, d)
  BY <1>1, Distance
<1>4. /\ Gap(a, b) = IF UnsignedGap(a, b) < Half THEN UnsignedGap(a, b)
                     ELSE UnsignedGap(a, b) - Modulus
      /\ Gap(a, After(b, d)) =
            IF UnsignedGap(a, After(b, d)) < Half THEN UnsignedGap(a, After(b, d))
            ELSE UnsignedGap(a, After(b, d)) - Modulus
  BY <1>1, GapType
<1> QED
  BY <1>1, <1>2, <1>3, <1>4, ClockRange, ReadingsAre, TimeIsNat

\* When a timer is due: i after the reading that was g before a clock c.
DueAt(c, g, i) == (c - g + i) % Modulus

LEMMA DueReading ==
    ASSUME NEW c \in Time, NEW g \in 0 .. Half, NEW i \in 0 .. Half
    PROVE  DueAt(c, g, i) \in Time /\ DueAt(c, g, i) = Wrapped(c - g + i)
<1>1. DueAt(c, g, i) = Reading(c - g + i)
  BY DEF DueAt, Reading
<1>2. c - g + i \in Int /\ 0 - Modulus <= c - g + i /\ c - g + i < 2 * Modulus
  BY ClockRange, ReadingsAre, TimeIsNat
<1> QED
  BY <1>1, <1>2, ReadingWraps

\* A tick makes the reading a tick older and leaves the timer due when it was.
LEMMA DueStays ==
    ASSUME NEW c \in Time, NEW g \in 0 .. Half - 1, NEW i \in 0 .. Half - 1
    PROVE  DueAt(After(c, 1), g + 1, i) = DueAt(c, g, i)
<1> DEFINE h == g + 1
           k == After(c, 1)
<1>1. k \in Time /\ k = IF c + 1 < Modulus THEN c + 1 ELSE c + 1 - Modulus
  BY ClockRange, AfterReading
<1>2. g \in 0 .. Half /\ h \in 0 .. Half /\ i \in 0 .. Half /\ h = g + 1
  BY ClockRange
<1> HIDE DEF h, k
<1>3. DueAt(c, g, i) = Wrapped(c - g + i) /\ DueAt(k, h, i) = Wrapped(k - h + i)
  BY <1>1, <1>2, DueReading
<1>4. Wrapped(k - h + i) = Wrapped(c - g + i)
  BY <1>1, <1>2, ClockRange, ReadingsAre, TimeIsNat DEF Wrapped
<1> QED
  BY <1>3, <1>4 DEF h, k

\* A timer is due its interval after the reading it was armed from, be that
\* reading the present one (eventloop.c:84) or the scan's (eventloop.c:48).
LEMMA DueFromReading ==
    ASSUME NEW c \in Time, NEW b \in Time, NEW i \in 0 .. Half - 1,
           UnsignedGap(c, b) < Half
    PROVE  DueAt(c, UnsignedGap(c, b), i) = After(b, i)
<1>1. UnsignedGap(c, b) \in Time
      /\ UnsignedGap(c, b) = IF c < b THEN c - b + Modulus ELSE c - b
  BY Distance
<1>2. UnsignedGap(c, b) \in 0 .. Half /\ i \in 0 .. Half
  BY <1>1, ClockRange, ReadingsAre, TimeIsNat
<1>3. DueAt(c, UnsignedGap(c, b), i) = Wrapped(c - UnsignedGap(c, b) + i)
  BY <1>2, DueReading
<1>4. After(b, i) = IF b + i < Modulus THEN b + i ELSE b + i - Modulus
  BY ClockRange, AfterReading
<1> QED
  BY <1>1, <1>2, <1>3, <1>4, ClockRange, ReadingsAre, TimeIsNat DEF Wrapped

\* The signed distance of a timer to the reading of a scan that is not too long
\* ago (eventloop.c:47).
LEMMA DueGap ==
    ASSUME NEW c \in Time, NEW g \in 0 .. Half - 1, NEW i \in 1 .. Half - 1,
           NEW b \in Time, UnsignedGap(c, b) + i < Half
    PROVE  Gap(DueAt(c, g, i), b) = UnsignedGap(c, b) + i - g
<1> DEFINE x == DueAt(c, g, i)
<1>1. x \in Time /\ x = Wrapped(c - g + i)
  BY ClockRange, DueReading
<1> HIDE DEF x
<1>2. /\ UnsignedGap(x, b) = IF x < b THEN x - b + Modulus ELSE x - b
      /\ UnsignedGap(c, b) = IF c < b THEN c - b + Modulus ELSE c - b
  BY <1>1, Distance
<1>3. Gap(x, b) = IF UnsignedGap(x, b) < Half THEN UnsignedGap(x, b)
                  ELSE UnsignedGap(x, b) - Modulus
  BY <1>1, GapType
<1>4. Gap(x, b) = UnsignedGap(c, b) + i - g
  BY <1>1, <1>2, <1>3, ClockRange, ReadingsAre, TimeIsNat DEF Wrapped
<1> QED
  BY <1>4 DEF x

(***************************************************************************)
(* The lists and the frames                                                *)
(***************************************************************************)

\* The timers that are registered after insert_node_safe and remove_node_safe.
LEMMA InsertRange ==
    ASSUME NEW S, NEW list \in Seq(S), NEW n
    PROVE  Range(insert_node_safe(list, n)) = Range(list) \cup {n}
<1>1. CASE is_node_in(list, n)
  BY <1>1 DEF insert_node_safe, is_node_in, Range
<1>2. CASE ~is_node_in(list, n)
  <2> DEFINE r == <<n>> \o list
  <2>1. /\ DOMAIN r = 1 .. Len(list) + 1
        /\ DOMAIN list = 1 .. Len(list)
        /\ Len(list) \in Nat
        /\ r[1] = n
        /\ \A i \in DOMAIN list : i + 1 \in DOMAIN r /\ r[i + 1] = list[i]
        /\ \A i \in DOMAIN r : i # 1 => i - 1 \in DOMAIN list /\ r[i] = list[i - 1]
    OBVIOUS
  <2> HIDE DEF r
  <2>2. Range(r) \subseteq Range(list) \cup {n}
    BY <2>1 DEF Range
  <2>3. Range(list) \subseteq Range(r) /\ n \in Range(r)
    BY <2>1 DEF Range
  <2> QED
    BY <1>2, <2>2, <2>3 DEF insert_node_safe, r
<1> QED
  BY <1>1, <1>2

LEMMA RemoveRange ==
    ASSUME NEW S, NEW list \in Seq(S), NEW n, IsInjective(list)
    PROVE  Range(remove_node_safe(list, n)) = Range(list) \ {n}
<1>1. CASE ~is_node_in(list, n)
  BY <1>1 DEF remove_node_safe, is_node_in, Range
<1>2. CASE is_node_in(list, n)
  <2> DEFINE p == Position(list, n)
             before == SubSeq(list, 1, p - 1)
             after == SubSeq(list, p + 1, Len(list))
             r == before \o after
  <2>1. remove_node_safe(list, n) = r
    BY <1>2 DEF remove_node_safe
  <2>2. p \in 1 .. Len(list)
    BY <1>2, PositionInList
  <2>p. list[p] = n
    BY <1>2, PositionInList
  <2> HIDE DEF p
  <2>3. /\ before \in Seq(S)
        /\ Len(before) = p - 1
        /\ \A i \in 1 .. p - 1 : before[i] = list[i]
    BY <2>2
  <2>4. /\ after \in Seq(S)
        /\ Len(after) = Len(list) - p
        /\ \A i \in 1 .. Len(list) - p : after[i] = list[p + i]
    BY <2>2
  <2> HIDE DEF before, after
  <2>5. /\ r \in Seq(S)
        /\ DOMAIN r = 1 .. Len(list) - 1
        /\ \A i \in 1 .. Len(list) - 1 :
              r[i] = IF i < p THEN list[i] ELSE list[i + 1]
    <3>1. Len(list) \in Nat
      OBVIOUS
    <3>2. /\ r \in Seq(S)
          /\ Len(r) = Len(before) + Len(after)
          /\ \A i \in 1 .. Len(before) + Len(after) :
                r[i] = IF i <= Len(before) THEN before[i] ELSE after[i - Len(before)]
      BY <2>3, <2>4, ConcatProperties
    <3> HIDE DEF r
    <3>3. Len(r) = Len(list) - 1 /\ DOMAIN r = 1 .. Len(r)
      BY <3>1, <3>2, <2>2, <2>3, <2>4
    <3>4. ASSUME NEW i \in 1 .. Len(list) - 1
          PROVE  r[i] = IF i < p THEN list[i] ELSE list[i + 1]
      <4>1. CASE i < p
        <5>1. /\ i \in 1 .. p - 1
              /\ i <= p - 1
          BY <4>1, <3>1, <2>2
        <5>2. i \in 1 .. Len(before) + Len(after)
          BY <3>1, <2>2, <2>3, <2>4
        <5>3. r[i] = before[i]
          BY <5>1, <5>2, <3>2, <2>3
        <5>4. before[i] = list[i]
          BY <5>1, <2>3
        <5> QED
          BY <4>1, <5>3, <5>4
      <4>2. CASE ~(i < p)
        <5>1. /\ i - (p - 1) \in 1 .. Len(list) - p
              /\ p + (i - (p - 1)) = i + 1
              /\ ~(i <= p - 1)
          BY <4>2, <3>1, <2>2
        <5>2. i \in 1 .. Len(before) + Len(after)
          BY <3>1, <2>2, <2>3, <2>4
        <5>3. r[i] = after[i - (p - 1)]
          BY <5>1, <5>2, <3>2, <2>3
        <5>4. after[i - (p - 1)] = list[i + 1]
          BY <5>1, <2>4
        <5> QED
          BY <4>2, <5>3, <5>4
      <4> QED
        BY <4>1, <4>2
    <3> QED
      BY <3>2, <3>3, <3>4
  <2> HIDE DEF r
  <2>6. DOMAIN list = 1 .. Len(list) /\ Len(list) \in Nat
    OBVIOUS
  <2>7. \A i \in DOMAIN list : list[i] = n => i = p
    BY <2>2, <2>p, <2>6 DEF IsInjective
  <2>8. ASSUME NEW i \in DOMAIN r
        PROVE  r[i] \in Range(list) \ {n}
    <3>1. PICK j \in DOMAIN list : r[i] = list[j] /\ j # p
      BY <2>2, <2>5, <2>6
    <3> QED
      BY <3>1, <2>7 DEF Range
  <2>9. ASSUME NEW j \in DOMAIN list, list[j] # n
        PROVE  list[j] \in Range(r)
    <3>1. j # p
      BY <2>p, <2>9
    <3>2. PICK i \in DOMAIN r : r[i] = list[j]
      <4>1. CASE j < p
        BY <4>1, <2>2, <2>5, <2>6
      <4>2. CASE j > p
        <5>1. j - 1 \in DOMAIN r /\ r[j - 1] = list[j]
          BY <4>2, <2>2, <2>5, <2>6
        <5> QED
          BY <5>1
      <4> QED
        BY <3>1, <4>1, <4>2, <2>2, <2>6
    <3> QED
      BY <3>2 DEF Range
  <2>10. Range(r) \subseteq Range(list) \ {n}
    BY <2>8 DEF Range
  <2>11. Range(list) \ {n} \subseteq Range(r)
    BY <2>9 DEF Range
  <2> QED
    BY <2>1, <2>10, <2>11
<1> QED
  BY <1>1, <1>2

\* Rearming takes the timer out of every scan's due timers, and no other.
LEMMA RearmDue ==
    ASSUME NEW frames \in Seq(Frame), NEW t
    PROVE  \A i \in 1 .. Len(frames) : Rearm(frames, t)[i].due = frames[i].due \ {t}
<1> SUFFICES ASSUME NEW i \in 1 .. Len(frames)
             PROVE  Rearm(frames, t)[i].due = frames[i].due \ {t}
  OBVIOUS
<1>1. i \in DOMAIN frames /\ frames[i] \in Frame
  BY ElementOfSeq
<1>2. Rearm(frames, t)[i] = [frames[i] EXCEPT !.due = @ \ {t}]
  BY <1>1 DEF Rearm
<1> QED
  BY <1>1, <1>2 DEF Frame

(***************************************************************************)
(* The time-out of the wait                                                *)
(***************************************************************************)

\* A set of natural numbers has a least one.
LEMMA LeastNumber ==
    ASSUME NEW S \in SUBSET Nat, S # {}
    PROVE  \E m \in S : \A k \in S : m <= k
<1>1. PICK m \in S : \A k \in S : ~(<<k, m>> \in OpToRel(<, Nat))
  BY WFMin, NatLessThanWellFounded
<1>2. \A k \in S : ~(k < m)
  BY <1>1 DEF OpToRel
<1> QED
  BY <1>2

\* get_first_timeout is zero if a timer is due, else no timer is due earlier.
LEMMA FirstTimeout ==
    ASSUME timer_list \in Seq(TimerNode), clock \in Time,
           next_timeout \in [TimerNode -> Time]
    PROVE  \/ timer_list = <<>> /\ get_first_timeout = Forever
           \/ /\ timer_list # <<>>
              /\ get_first_timeout \in 0 .. Half - 1
              /\ get_first_timeout # 0 =>
                    \A t \in Range(timer_list) :
                        get_first_timeout <= Gap(next_timeout[t], clock)
<1> DEFINE gaps == {Gap(next_timeout[t], clock) : t \in Range(timer_list)}
           first(g) == \A h \in gaps : g <= h
<1>1. CASE timer_list = <<>>
  BY <1>1 DEF get_first_timeout
<1>2. CASE timer_list # <<>>
  <2>1. Range(timer_list) # {} /\ Range(timer_list) \subseteq TimerNode
    <3>1. 1 \in DOMAIN timer_list
      BY <1>2
    <3>2. Range(timer_list) # {}
      BY <3>1 DEF Range
    <3> QED
      BY <3>2, RangeOfSeq
  <2>2. \A t \in Range(timer_list) :
            Gap(next_timeout[t], clock) \in (0 - Half) .. Half - 1
    BY <2>1, GapType
  <2>3. gaps # {} /\ gaps \subseteq (0 - Half) .. Half - 1
        /\ \A t \in Range(timer_list) : Gap(next_timeout[t], clock) \in gaps
    BY <2>1, <2>2
  <2>4. get_first_timeout = IF \E g \in gaps : g <= 0 THEN 0
                            ELSE CHOOSE g \in gaps : first(g)
    BY <1>2 DEF get_first_timeout
  <2> HIDE DEF gaps
  <2>5. CASE \E g \in gaps : g <= 0
    BY <1>2, <2>4, <2>5, ClockRange
  <2>6. CASE ~\E g \in gaps : g <= 0
    <3>1. gaps \subseteq Nat
      BY <2>3, <2>6, ClockRange
    <3>2. \E g \in gaps : first(g)
      BY <3>1, <2>3, LeastNumber
    <3>3. get_first_timeout \in gaps /\ first(get_first_timeout)
      BY <2>4, <2>6, <3>2
    <3>4. get_first_timeout \in 0 .. Half - 1
      BY <3>1, <3>3, <2>3, ClockRange
    <3>5. \A t \in Range(timer_list) :
              get_first_timeout <= Gap(next_timeout[t], clock)
      BY <3>3, <2>3
    <3> QED
      BY <1>2, <3>4, <3>5
  <2> QED
    BY <2>5, <2>6
<1> QED
  BY <1>1, <1>2

\* What a wait knows of its end: a timed activation's is less than twice its
\* limit after its start, and no registered timer is due before.
EndsInTime(tm) ==
    /\ tm.limit # Forever => /\ tm.until # Forever
                             /\ UnsignedGap(tm.until, tm.start) < 2 * tm.limit
    /\ tm.until # tm.asked => \A t \in Range(timer_list) :
                                  /\ tm.until # Forever
                                  /\ Gap(next_timeout[t], tm.until) >= 0

\* Every wait begins so: one with a time limit only while its activation has not
\* used it up (eventloop.c:146 to :157).
LEMMA WaitBegins ==
    ASSUME timer_list \in Seq(TimerNode), clock \in Time,
           next_timeout \in [TimerNode -> Time],
           NEW start \in Time, NEW limit \in Limit \cup {Forever},
           limit # Forever => Since(start) < limit
    PROVE  /\ WaitingTimes(start, limit) \in Times
           /\ EndsInTime(WaitingTimes(start, limit))
<1> DEFINE tm == WaitingTimes(start, limit)
           e == Since(start)
           d == timeout(limit, e)
           g == get_first_timeout
           n == UnsignedGap(clock, start)
<1> USE ForeverDistinct
<1>1. e = n /\ n \in Time /\ n \in Nat
  BY Distance, TimeIsNat DEF Since, UnsignedGap
<1>2. /\ tm.start = start /\ tm.limit = limit /\ tm.now = 0 /\ tm.asked = clock
      /\ tm.until = IF d = Forever THEN Forever ELSE After(clock, d)
      /\ tm = [start |-> start, limit |-> limit, now |-> 0, asked |-> clock,
               until |-> tm.until]
  BY DEF WaitingTimes
<1>3. d = IF pending_events # {} THEN 0
          ELSE Shorter(g, IF limit = Forever THEN Forever ELSE e)
  BY DEF timeout, limit_of_wait
<1>4. \/ g = Forever /\ Range(timer_list) = {}
      \/ g \in 0 .. Half - 1 /\ (g # 0 => \A t \in Range(timer_list) :
                                             g <= Gap(next_timeout[t], clock))
  BY FirstTimeout DEF Range
<1>5. limit # Forever => limit \in 1 .. Half - 1 /\ 2 * limit < Modulus
  BY ClockRange
<1>6. 0 \in Time
  BY ClockRange DEF Time
<1> HIDE DEF e, d, g, n, tm
<1>7. limit # Forever => e \in 0 .. Half - 1 /\ e < limit
  BY <1>1, <1>5, ClockRange DEF e
<1>8. /\ limit # Forever => d \in 0 .. e
      /\ d \in 0 .. Half - 1 \/ (d = Forever /\ limit = Forever)
  <2>1. CASE pending_events # {}
    BY <1>3, <1>7, <2>1, ClockRange
  <2>2. CASE pending_events = {} /\ limit = Forever
    <3>1. d = g
      BY <1>3, <2>2 DEF Shorter
    <3> QED
      BY <1>4, <2>2, <3>1
  <2>3. CASE pending_events = {} /\ limit # Forever
    <3>1. d = Shorter(g, e) /\ e \in 0 .. Half - 1 /\ e # Forever
      BY <1>3, <1>7, <2>3, ClockRange
    <3>2. CASE g = Forever
      <4>1. d = e
        BY <3>1, <3>2 DEF Shorter
      <4> QED
        BY <3>1, <4>1, ClockRange
    <3>3. CASE g # Forever
      <4>1. d = IF g < e THEN g ELSE e
        BY <3>1, <3>3 DEF Shorter
      <4>2. g \in 0 .. Half - 1
        BY <1>4, <3>3
      <4> QED
        BY <3>1, <4>1, <4>2, ClockRange
    <3> QED
      BY <3>2, <3>3
  <2> QED
    BY <2>1, <2>2, <2>3
<1>9. d # 0 => /\ d = Forever => Range(timer_list) = {}
               /\ d # Forever => \A t \in Range(timer_list) :
                                     d <= Gap(next_timeout[t], clock)
  <2> SUFFICES ASSUME d # 0, NEW t \in Range(timer_list)
               PROVE  d # Forever /\ d <= Gap(next_timeout[t], clock)
    BY <1>8, ClockRange
  <2>1. g \in 0 .. Half - 1 /\ pending_events = {}
    BY <1>3, <1>4
  <2>2. g # 0
    BY <1>3, <1>7, <2>1, ClockRange DEF Shorter
  <2>3. g <= Gap(next_timeout[t], clock)
    BY <1>4, <2>1, <2>2
  <2>4. d \in Nat /\ d <= g
    <3>1. CASE limit = Forever
      <4>1. d = g
        BY <1>3, <2>1, <3>1 DEF Shorter
      <4> QED
        BY <2>1, <4>1, ClockRange
    <3>2. CASE limit # Forever
      <4>1. e \in 0 .. Half - 1 /\ d = Shorter(g, e)
        BY <1>3, <1>7, <2>1, <3>2
      <4> QED
        BY <2>1, <4>1, ClockRange DEF Shorter
    <3> QED
      BY <3>1, <3>2
  <2>5. t \in TimerNode
    BY RangeOfSeq
  <2>6. Gap(next_timeout[t], clock) \in Int
    BY <2>5, GapType, ClockRange
  <2> QED
    BY <2>1, <2>3, <2>4, <2>6
<1>10. tm.until \in Time \cup {Forever}
  BY <1>2, <1>8, ClockRange, AfterReading
<1>11. tm \in Times
  BY <1>2, <1>6, <1>10 DEF Times
<1>12. ASSUME limit # Forever
       PROVE  tm.until # Forever /\ UnsignedGap(tm.until, start) < 2 * limit
  <2>1. d \in 0 .. Half /\ tm.until = After(clock, d) /\ d <= e /\ e < limit
    BY <1>2, <1>7, <1>8, <1>12, ClockRange
  <2>2. n + d < Modulus
    BY <1>1, <1>5, <1>12, <2>1, ClockRange
  <2>3. UnsignedGap(tm.until, start) = n + d
    BY <2>1, <2>2, DistanceGrows DEF n
  <2>4. tm.until \in Nat
    BY <2>1, AfterReading, TimeIsNat
  <2> QED
    BY <1>1, <1>5, <1>12, <2>1, <2>3, <2>4, ClockRange
<1>13. ASSUME tm.until # tm.asked, NEW t \in Range(timer_list)
       PROVE  tm.until # Forever /\ Gap(next_timeout[t], tm.until) >= 0
  <2>1. d # 0
    <3>1. After(clock, 0) = clock
      BY AfterReading, ClockRange, ReadingsAre, TimeIsNat
    <3>2. 0 # Forever
      OBVIOUS
    <3> QED
      BY <1>2, <1>13, <3>1, <3>2
  <2>2. d # Forever /\ d <= Gap(next_timeout[t], clock)
    BY <1>9, <2>1
  <2>3. d \in 0 .. Half /\ tm.until = After(clock, d)
    BY <1>2, <1>8, <2>2, ClockRange
  <2>4. next_timeout[t] \in Time
    BY RangeOfSeq
  <2>5. Gap(next_timeout[t], tm.until) = Gap(next_timeout[t], clock) - d
    BY <2>2, <2>3, <2>4, GapShrinks
  <2>6. Gap(next_timeout[t], clock) \in Int
    BY <2>4, GapType, ClockRange
  <2>7. tm.until \in Nat
    BY <2>3, AfterReading, TimeIsNat
  <2> QED
    BY <2>2, <2>3, <2>5, <2>6, <2>7
<1>14. EndsInTime(tm)
  BY <1>2, <1>12, <1>13 DEF EndsInTime
<1> QED
  BY <1>11, <1>14 DEF tm

(***************************************************************************)
(* The inductive invariant                                                 *)
(*                                                                         *)
(* A registered timer is due its interval after the reading it was armed   *)
(* from (AgeExact).  A scan's reading is less than half the clock's range  *)
(* old, with room for an interval, and an inner scan's is no older than an *)
(* outer one's (ScansNested): so a timer that an inner scan rearms is not  *)
(* due for the outer ones, which is what DueExact needs; and DueExact with *)
(* AgeExact is what says that no timer is early.                           *)
(***************************************************************************)

AgeExact ==
    \A t \in Range(timer_list) :
        /\ interval[t] \in Interval
        /\ next_timeout[t] = DueAt(clock, age[t], interval[t])

ScansNested ==
    \A i \in DOMAIN stack : stack[i].pc = "timers" =>
        \A d \in Interval :
            /\ UnsignedGap(clock, times[i].now) + d < Half
            /\ \A j \in i .. Len(stack) : stack[j].pc = "timers" =>
                  UnsignedGap(clock, times[j].now) <= UnsignedGap(clock, times[i].now)

WaitsEnd ==
    \A i \in DOMAIN stack : stack[i].pc = "wait" => EndsInTime(times[i])

TimedInv == TimedTypeOK /\ AgeExact /\ ScansNested /\ DueExact /\ WaitsEnd

\* What is known of the clock's part of the state.
LEMMA TimedTypes ==
    ASSUME Inv, TimedInv
    PROVE  /\ clock \in Time
           /\ interval \in [TimerNode -> Interval \cup {0}]
           /\ next_timeout \in [TimerNode -> Time]
           /\ age \in [TimerNode -> 0 .. Half - 1]
           /\ timer_list \in Seq(TimerNode) /\ Range(timer_list) \subseteq TimerNode
           /\ stack \in Seq(Frame) /\ Len(stack) \in Nat /\ DOMAIN stack = 1 .. Len(stack)
           /\ times \in Seq(Times) /\ Len(times) = Len(stack)
           /\ \A i \in 1 .. Len(stack) : stack[i] \in Frame /\ times[i] \in Times
<1>1. /\ clock \in Time
      /\ interval \in [TimerNode -> Interval \cup {0}]
      /\ next_timeout \in [TimerNode -> Time]
      /\ age \in [TimerNode -> 0 .. Half - 1]
      /\ times \in Seq(Times) /\ Len(times) = Len(stack)
  BY DEF TimedInv, TimedTypeOK
<1>2. timer_list \in Seq(TimerNode) /\ stack \in Seq(Frame)
  BY DEF Inv, TypeOK
<1>3. \A i \in 1 .. Len(stack) : stack[i] \in Frame /\ times[i] \in Times
  BY <1>1, <1>2, ElementOfSeq
<1> QED
  BY <1>1, <1>2, <1>3, RangeOfSeq

\* The innermost activation and its local variables.
LEMMA InnermostTimes ==
    ASSUME Inv, TimedInv, stack # <<>>
    PROVE  /\ Len(stack) \in 1 .. Len(stack)
           /\ Top = stack[Len(stack)] /\ Top \in Frame
           /\ Now = times[Len(stack)] /\ Now \in Times
           /\ Now.start \in Time /\ Now.limit \in Limit \cup {Forever}
           /\ Now.now \in Time
<1>1. Len(stack) \in 1 .. Len(stack)
  BY TimedTypes
<1>2. Now = times[Len(stack)] /\ Now \in Times
  BY <1>1, TimedTypes DEF Now
<1>3. Top = stack[Len(stack)] /\ Top \in Frame
  BY <1>1, TimedTypes DEF Top
<1> QED
  BY <1>1, <1>2, <1>3 DEF Times

\* Only the innermost activation may wait, and it does not while it calls.
LEMMA NobodyWaits ==
    ASSUME Inv, TimedInv, stack # <<>> => Top.call # NULL \/ Top.pc # "wait"
    PROVE  \A i \in 1 .. Len(stack) : stack[i].pc # "wait"
<1> SUFFICES ASSUME NEW i \in 1 .. Len(stack)
             PROVE  stack[i].pc # "wait"
  OBVIOUS
<1>1. Len(stack) \in Nat /\ i \in DOMAIN stack /\ stack # <<>>
  BY TimedTypes
<1>2. i < Len(stack) \/ i = Len(stack)
  BY <1>1
<1>3. stack[i].call # NULL \/ stack[i].pc # "wait"
  BY <1>1, <1>2 DEF Inv, Nested, Top
<1> QED
  BY <1>1, <1>3 DEF Inv, Nested

\* What a step may leave as the innermost activation, when it is not as before.
Fresh(fr, tm) ==
    \/ fr.pc = "dispatch"
    \/ fr.pc = "wait" /\ EndsInTime(tm)
    \/ /\ fr.pc = "timers"
       /\ tm.now = clock
       /\ \A t \in Range(timer_list) : t \in fr.due <=> Gap(next_timeout[t], clock) <= 0

\* A step that arms no timer and takes no time, and of the activations changes
\* the innermost one only.
LEMMA NothingArmed ==
    ASSUME Inv, Inv', TimedInv,
           UNCHANGED <<clock, interval, next_timeout>>,
           Range(timer_list') \subseteq Range(timer_list),
           age' \in [TimerNode -> 0 .. Half - 1],
           \A t \in Range(timer_list') : age'[t] = age[t],
           times' \in Seq(Times), Len(times') = Len(stack'),
           \A i \in 1 .. Len(stack') :
              \/ /\ i \in 1 .. Len(stack)
                 /\ stack'[i].pc = stack[i].pc /\ stack'[i].due = stack[i].due
                 /\ times'[i] = times[i]
              \/ i = Len(stack') /\ Fresh(stack'[i], times'[i])
    PROVE  TimedInv'
<1>1. /\ DOMAIN stack = 1 .. Len(stack) /\ DOMAIN stack' = 1 .. Len(stack')
      /\ Len(stack) \in Nat /\ Len(stack') \in Nat
      /\ clock \in Time
      /\ \A i \in 1 .. Len(stack) : times[i].now \in Time
  <2>1. stack' \in Seq(Frame)
    BY DEF Inv, TypeOK
  <2> QED
    BY <2>1, TimedTypes DEF Times
<1>2. TimedTypeOK'
  BY DEF TimedInv, TimedTypeOK
<1>3. AgeExact'
  BY DEF TimedInv, AgeExact
<1>4. DueExact'
  <2> SUFFICES ASSUME NEW i \in 1 .. Len(stack'), stack'[i].pc = "timers",
                      NEW t \in Range(timer_list')
               PROVE  t \in stack'[i].due <=> Gap(next_timeout[t], times'[i].now) <= 0
    BY <1>1 DEF DueExact
  <2>1. CASE /\ i \in 1 .. Len(stack)
             /\ stack'[i].pc = stack[i].pc /\ stack'[i].due = stack[i].due
             /\ times'[i] = times[i]
    BY <1>1, <2>1 DEF TimedInv, DueExact
  <2>2. CASE Fresh(stack'[i], times'[i])
    BY <2>2 DEF Fresh
  <2> QED
    BY <2>1, <2>2
<1>5. WaitsEnd'
  <2> SUFFICES ASSUME NEW i \in 1 .. Len(stack'), stack'[i].pc = "wait"
               PROVE  EndsInTime(times'[i])
    BY <1>1 DEF WaitsEnd, EndsInTime
  <2>1. CASE /\ i \in 1 .. Len(stack)
             /\ stack'[i].pc = stack[i].pc
             /\ times'[i] = times[i]
    BY <1>1, <2>1 DEF TimedInv, WaitsEnd
  <2>2. CASE Fresh(stack'[i], times'[i])
    BY <2>2 DEF Fresh
  <2> QED
    BY <2>1, <2>2
<1>6. ScansNested'
  <2> SUFFICES ASSUME NEW i \in 1 .. Len(stack'), stack'[i].pc = "timers",
                      NEW d \in Interval,
                      NEW j \in i .. Len(stack'), stack'[j].pc = "timers"
               PROVE  /\ UnsignedGap(clock, times'[i].now) + d < Half
                      /\ UnsignedGap(clock, times'[j].now)
                            <= UnsignedGap(clock, times'[i].now)
    <3>1. \A i \in 1 .. Len(stack') : i \in i .. Len(stack')
      BY <1>1
    <3> QED
      BY <1>1, <3>1 DEF ScansNested
  <2>1. j \in 1 .. Len(stack') /\ (i = Len(stack') => j = i)
    BY <1>1
  <2>2. UnsignedGap(clock, clock) = 0 /\ d \in 1 .. Half - 1
    BY <1>1, Distance, ClockRange
  <2>3. CASE Fresh(stack'[i], times'[i]) /\ i = Len(stack')
    <3>1. times'[i].now = clock /\ times'[j].now = clock
      BY <2>1, <2>3 DEF Fresh
    <3> QED
      BY <2>2, <3>1, ClockRange
  <2>4. CASE /\ i \in 1 .. Len(stack)
             /\ stack'[i].pc = stack[i].pc
             /\ times'[i] = times[i]
    <3>1. UnsignedGap(clock, times[i].now) + d < Half
      BY <1>1, <2>4 DEF TimedInv, ScansNested
    <3>2. UnsignedGap(clock, times[i].now) \in Nat
      BY <1>1, <2>4, Distance, TimeIsNat
    <3>3. CASE Fresh(stack'[j], times'[j])
      <4>1. times'[j].now = clock
        BY <3>3 DEF Fresh
      <4> QED
        BY <2>2, <2>4, <3>1, <3>2, <4>1
    <3>4. CASE /\ j \in 1 .. Len(stack)
               /\ stack'[j].pc = stack[j].pc
               /\ times'[j] = times[j]
      <4>1. j \in i .. Len(stack)
        BY <2>4, <3>4
      <4> QED
        BY <1>1, <2>4, <3>1, <3>4, <4>1 DEF TimedInv, ScansNested
    <3> QED
      BY <2>1, <3>3, <3>4
  <2> QED
    BY <2>3, <2>4
<1> QED
  BY <1>2, <1>3, <1>4, <1>5, <1>6 DEF TimedInv

\* A step that arms one timer, from a reading no scan's is later than: every
\* scan has done with the timer.
LEMMA OneArmed ==
    ASSUME Inv, Inv', TimedInv, NEW t \in TimerNode, NEW r \in Time, NEW d \in Interval,
           UNCHANGED <<clock, times>>,
           UnsignedGap(clock, r) + d < Half,
           \A i \in 1 .. Len(stack) : stack[i].pc = "timers" =>
               UnsignedGap(clock, r) <= UnsignedGap(clock, times[i].now),
           \A i \in 1 .. Len(stack) : stack[i].pc # "wait",
           Range(timer_list') = Range(timer_list) \cup {t},
           interval' = [interval EXCEPT ![t] = d],
           next_timeout' = [next_timeout EXCEPT ![t] = After(r, d)],
           age' = [age EXCEPT ![t] = UnsignedGap(clock, r)],
           Len(stack') = Len(stack),
           \A i \in 1 .. Len(stack) : /\ stack'[i].pc = stack[i].pc
                                      /\ stack'[i].due = stack[i].due \ {t}
    PROVE  TimedInv'
<1>1. /\ DOMAIN stack = 1 .. Len(stack) /\ DOMAIN stack' = 1 .. Len(stack)
      /\ Len(stack) \in Nat
      /\ clock \in Time
      /\ \A i \in 1 .. Len(stack) : times[i].now \in Time
  <2>1. stack' \in Seq(Frame)
    BY DEF Inv, TypeOK
  <2> QED
    BY <2>1, TimedTypes DEF Times
<1>2. UnsignedGap(clock, r) \in 0 .. Half - 1 /\ d \in 1 .. Half - 1 /\ d \in 0 .. Half
  <2>1. UnsignedGap(clock, r) \in Nat
    BY <1>1, Distance, TimeIsNat
  <2> QED
    BY <2>1, ClockRange
<1>3. After(r, d) \in Time /\ After(r, d) = DueAt(clock, UnsignedGap(clock, r), d)
  <2>1. d \in 0 .. Half - 1 /\ UnsignedGap(clock, r) < Half
    BY <1>2, ClockRange
  <2> QED
    BY <1>1, <1>2, <2>1, AfterReading, DueFromReading
<1>4. TimedTypeOK'
  <2>1. /\ interval' \in [TimerNode -> Interval \cup {0}]
        /\ next_timeout' \in [TimerNode -> Time]
        /\ age' \in [TimerNode -> 0 .. Half - 1]
    BY <1>2, <1>3, TimedTypes
  <2> QED
    BY <2>1, TimedTypes DEF TimedTypeOK
<1>5. /\ interval'[t] = d /\ next_timeout'[t] = After(r, d)
      /\ age'[t] = UnsignedGap(clock, r)
      /\ \A u \in Range(timer_list') \ {t} :
            /\ u \in Range(timer_list)
            /\ interval'[u] = interval[u] /\ next_timeout'[u] = next_timeout[u]
            /\ age'[u] = age[u]
  BY TimedTypes
<1>6. AgeExact'
  <2> SUFFICES ASSUME NEW u \in Range(timer_list')
               PROVE  /\ interval'[u] \in Interval
                      /\ next_timeout'[u] = DueAt(clock, age'[u], interval'[u])
    BY DEF AgeExact
  <2>1. CASE u = t
    BY <1>3, <1>5, <2>1
  <2>2. CASE u # t
    BY <1>5, <2>2 DEF TimedInv, AgeExact
  <2> QED
    BY <2>1, <2>2
<1>7. DueExact'
  <2> SUFFICES ASSUME NEW i \in 1 .. Len(stack), stack'[i].pc = "timers",
                      NEW u \in Range(timer_list')
               PROVE  u \in stack'[i].due <=> Gap(next_timeout'[u], times[i].now) <= 0
    BY <1>1 DEF DueExact
  <2>1. CASE u = t
    <3>1. t \notin stack'[i].due
      OBVIOUS
    <3>2. UnsignedGap(clock, r) <= UnsignedGap(clock, times[i].now)
          /\ UnsignedGap(clock, times[i].now) + d < Half
      BY <1>1 DEF TimedInv, ScansNested
    <3>3. Gap(After(r, d), times[i].now)
             = UnsignedGap(clock, times[i].now) + d - UnsignedGap(clock, r)
      BY <1>1, <1>2, <1>3, <3>2, DueGap
    <3>4. UnsignedGap(clock, times[i].now) \in Nat
      BY <1>1, Distance, TimeIsNat
    <3>5. ~(Gap(After(r, d), times[i].now) <= 0)
      BY <1>2, <3>2, <3>3, <3>4, ClockRange
    <3> QED
      BY <1>5, <2>1, <3>1, <3>5
  <2>2. CASE u # t
    <3>1. u \in stack'[i].due <=> u \in stack[i].due
      BY <2>2
    <3>2. u \in stack[i].due <=> Gap(next_timeout[u], times[i].now) <= 0
      BY <1>1, <1>5, <2>2 DEF TimedInv, DueExact
    <3> QED
      BY <1>5, <2>2, <3>1, <3>2
  <2> QED
    BY <2>1, <2>2
<1>8. ScansNested'
  BY <1>1 DEF TimedInv, ScansNested
<1>9. WaitsEnd'
  BY <1>1 DEF WaitsEnd
<1> QED
  BY <1>4, <1>6, <1>7, <1>8, <1>9 DEF TimedInv

\* A tick makes every registered timer and every scan's reading a tick older:
\* within the bounds on how long handlers run, none of them wraps.
LEMMA TickInv ==
    ASSUME Inv, TimedInv, tick
    PROVE  TimedInv'
<1> DEFINE c == After(clock, 1)
<1>1. /\ clock' = c
      /\ age' = [t \in TimerNode |-> IF is_node_in(timer_list, t) THEN age[t] + 1
                                     ELSE age[t]]
      /\ UNCHANGED <<timer_list, stack, interval, next_timeout, times>>
      /\ \A t \in Range(timer_list) : age[t] + 1 < Half
      /\ \A i \in DOMAIN stack : stack[i].pc = "timers" =>
            \A d \in Interval : UnsignedGap(c, times[i].now) + d < Half
  BY DEF tick, InRange, vars, UnsignedGap
<1>2. /\ clock \in Time
      /\ age \in [TimerNode -> 0 .. Half - 1]
      /\ Range(timer_list) \subseteq TimerNode
      /\ DOMAIN stack = 1 .. Len(stack) /\ Len(stack) \in Nat
      /\ \A i \in 1 .. Len(stack) : times[i].now \in Time
  BY TimedTypes DEF Times
<1>3. c \in Time
  BY <1>2, ClockRange, AfterReading
<1>4. \A t \in TimerNode : t \in Range(timer_list) <=> is_node_in(timer_list, t)
  BY DEF Range, is_node_in
<1>5. age' \in [TimerNode -> 0 .. Half - 1]
  <2> SUFFICES ASSUME NEW t \in TimerNode
               PROVE  (IF is_node_in(timer_list, t) THEN age[t] + 1 ELSE age[t])
                         \in 0 .. Half - 1
    BY <1>1
  <2> QED
    BY <1>1, <1>2, <1>4, ClockRange
<1>6. TimedTypeOK'
  BY <1>1, <1>3, <1>5 DEF TimedInv, TimedTypeOK
<1>7. AgeExact'
  <2> SUFFICES ASSUME NEW t \in Range(timer_list)
               PROVE  /\ interval[t] \in Interval
                      /\ next_timeout[t] = DueAt(c, age'[t], interval[t])
    BY <1>1 DEF AgeExact
  <2>1. interval[t] \in Interval /\ next_timeout[t] = DueAt(clock, age[t], interval[t])
    BY DEF TimedInv, AgeExact
  <2>2. age'[t] = age[t] + 1 /\ age[t] \in 0 .. Half - 1
    BY <1>1, <1>2, <1>4
  <2>3. interval[t] \in 1 .. Half - 1
    BY <2>1, ClockRange
  <2>4. interval[t] \in 0 .. Half - 1
    BY <2>3, ClockRange
  <2> QED
    BY <1>2, <2>1, <2>2, <2>4, DueStays
<1>8. ScansNested'
  <2>1. ASSUME NEW i \in DOMAIN stack, stack[i].pc = "timers", NEW d \in Interval
        PROVE  UnsignedGap(c, times[i].now) = UnsignedGap(clock, times[i].now) + 1
    <3>1. UnsignedGap(clock, times[i].now) + d < Half
      BY <2>1 DEF TimedInv, ScansNested
    <3>2. times[i].now \in Time /\ UnsignedGap(clock, times[i].now) \in Nat
      BY <1>2, Distance, TimeIsNat
    <3>3. UnsignedGap(clock, times[i].now) + 1 < Modulus /\ 1 \in 0 .. Half
      BY <3>1, <3>2, ClockRange
    <3> QED
      BY <1>2, <3>2, <3>3, DistanceGrows
  <2>2. ASSUME NEW i \in DOMAIN stack, stack[i].pc = "timers", NEW d \in Interval,
               NEW j \in i .. Len(stack), stack[j].pc = "timers"
        PROVE  UnsignedGap(c, times[j].now) <= UnsignedGap(c, times[i].now)
    <3>1. j \in DOMAIN stack
      BY <1>2
    <3>2. UnsignedGap(clock, times[j].now) <= UnsignedGap(clock, times[i].now)
      BY <2>2 DEF TimedInv, ScansNested
    <3>3. UnsignedGap(clock, times[j].now) \in Nat /\ UnsignedGap(clock, times[i].now) \in Nat
      BY <1>2, <3>1, Distance, TimeIsNat
    <3> QED
      BY <2>1, <2>2, <3>1, <3>2, <3>3
  <2> QED
    BY <1>1, <2>2 DEF ScansNested
<1>9. DueExact' /\ WaitsEnd'
  BY <1>1 DEF TimedInv, DueExact, WaitsEnd, EndsInTime
<1> QED
  BY <1>6, <1>7, <1>8, <1>9 DEF TimedInv

(***************************************************************************)
(* The steps                                                               *)
(***************************************************************************)

\* Every step with the clock is one without it, or invisible to EventLoop.
LEMMA TimedStepIsStep == [TimedNext]_timedVars => [Next]_vars
<1> SUFFICES ASSUME TimedNext PROVE [Next]_vars
  BY DEF timedVars
<1>1. CASE TimedLoopStep
  <2>1. CASE wait
    BY <2>1 DEF wait, LoopStep, Next
  <2>2. CASE in_pass
    BY <2>2 DEF in_pass, LoopStep, Next
  <2>3. CASE scan
    BY <2>3 DEF scan, LoopStep, Next
  <2>4. CASE \E t \in TimerNode : fire(t)
    BY <2>4 DEF fire, LoopStep, Next
  <2>5. CASE again
    BY <2>5 DEF again, LoopStep, Next
  <2>6. CASE leave
    BY <2>6 DEF leave, LoopStep, Next
  <2> QED
    BY <1>1, <2>1, <2>2, <2>3, <2>4, <2>5, <2>6 DEF TimedLoopStep
<1>2. CASE \E l \in Limit \cup {Forever} : enter(l)
  BY <1>2 DEF enter, EnterLoop, Next
<1>3. CASE \E t \in TimerNode, i \in Interval : register_timer(t, i)
  BY <1>3 DEF register_timer, TimerOperation, Next
<1>4. CASE \E t \in TimerNode : deregister_timer(t)
  BY <1>4 DEF deregister_timer, TimerOperation, Next
<1>5. CASE other_client_step
  BY <1>5 DEF other_client_step, Next
<1>6. CASE tick
  BY <1>6 DEF tick
<1> QED
  BY <1>1, <1>2, <1>3, <1>4, <1>5, <1>6 DEF TimedNext

\* A step that replaces the innermost activation, or what it knows of time.
LEMMA TopReplaced ==
    ASSUME Inv, Inv', TimedInv, stack # <<>>, NEW fr, SetTop(fr),
           UNCHANGED <<clock, timeVars, timer_list>>,
           NEW tm \in Times, SetNow(tm) \/ (times' = times /\ tm = Now),
           Fresh(fr, tm) \/ (fr.pc = Top.pc /\ fr.due = Top.due /\ tm = Now)
    PROVE  TimedInv'
<1> DEFINE n == Len(stack)
<1>1. /\ n \in 1 .. n /\ n \in Nat
      /\ Top = stack[n] /\ Now = times[n]
      /\ DOMAIN stack = 1 .. n /\ times \in Seq(Times) /\ Len(times) = n
      /\ age \in [TimerNode -> 0 .. Half - 1]
  BY InnermostTimes, TimedTypes
<1>2. stack' \in Seq(Frame) /\ stack' = [stack EXCEPT ![n] = fr]
  BY DEF Inv, TypeOK, SetTop
<1> HIDE DEF n
<1>3. /\ Len(stack') = n
      /\ stack'[n] = fr
      /\ \A i \in 1 .. n : i # n => stack'[i] = stack[i]
  <2>1. DOMAIN stack' = 1 .. n
    BY <1>1, <1>2
  <2>2. Len(stack') = n
    BY <1>1, <1>2, <2>1
  <2> QED
    BY <1>1, <1>2, <2>2
<1>4. /\ times' \in Seq(Times) /\ Len(times') = n
      /\ times'[n] = tm
      /\ \A i \in 1 .. n : i # n => times'[i] = times[i]
  <2>1. CASE SetNow(tm)
    <3>1. times' = [times EXCEPT ![n] = tm]
      BY <1>1, <2>1 DEF SetNow
    <3> QED
      BY <1>1, <3>1, ExceptSeq
  <2>2. CASE times' = times /\ tm = Now
    BY <1>1, <2>2
  <2> QED
    BY <2>1, <2>2
<1>5. ASSUME NEW i \in 1 .. n
      PROVE  \/ /\ i \in 1 .. n
                /\ stack'[i].pc = stack[i].pc /\ stack'[i].due = stack[i].due
                /\ times'[i] = times[i]
             \/ i = n /\ Fresh(stack'[i], times'[i])
  <2>1. CASE i # n
    BY <1>3, <1>4, <2>1
  <2>2. CASE i = n
    BY <1>1, <1>3, <1>4, <2>2
  <2> QED
    BY <2>1, <2>2
<1>6. UNCHANGED <<clock, interval, next_timeout, age, timer_list>>
  BY DEF timeVars
<1> QED
  BY <1>1, <1>3, <1>4, <1>5, <1>6, NothingArmed DEF n

\* The loop's own steps.
LEMMA LoopStepTimed ==
    ASSUME Inv, Inv', TimedInv, TimedLoopStep
    PROVE  TimedInv'
<1>1. CASE wait
  <2> DEFINE fr == [Top EXCEPT !.pc = "dispatch",
                               !.node = IF PassNeeded(pending_events', events)
                                        THEN Front(event_list) ELSE NULL]
             tm == [Now EXCEPT !.asked = 0, !.until = 0]
  <2>1. /\ stack # <<>> /\ SetTop(fr) /\ SetNow(tm)
        /\ UNCHANGED <<clock, timeVars, timer_list>>
    BY <1>1 DEF wait, wait_for_event_flags, Running, listVars
  <2>2. Top \in Frame /\ Now \in Times
    BY <2>1, InnermostTimes
  <2>0. 0 \in Time
    BY ClockRange DEF Time
  <2>3. fr.pc = "dispatch" /\ tm \in Times
    BY <2>0, <2>2 DEF Frame, Times
  <2> HIDE DEF fr, tm
  <2>4. Fresh(fr, tm)
    BY <2>3 DEF Fresh
  <2> QED
    BY <2>1, <2>3, <2>4, TopReplaced
<1>2. CASE in_pass
  <2>1. ASSUME NEW fr, stack # <<>>, SetTop(fr), UNCHANGED <<clock, timeVars, times, listVars>>,
               fr.pc = "dispatch" \/ (fr.pc = Top.pc /\ fr.due = Top.due)
        PROVE  TimedInv'
    <3>1. Now \in Times /\ UNCHANGED timer_list
      BY <2>1, InnermostTimes DEF listVars
    <3>2. Fresh(fr, Now) \/ (fr.pc = Top.pc /\ fr.due = Top.due)
      BY <2>1 DEF Fresh
    <3> QED
      BY <2>1, <3>1, <3>2, TopReplaced
  <2>2. ASSUME NEW e \in EventNode, dispatch(e)
        PROVE  TimedInv'
    <3>1. stack # <<>> /\ Top.pc = "dispatch" /\ SetTop([Top EXCEPT !.call = e])
          /\ UNCHANGED <<clock, timeVars, times, listVars>>
      BY <1>2, <2>2 DEF in_pass, dispatch, Running
    <3>2. [Top EXCEPT !.call = e].pc = "dispatch"
      BY <3>1, InnermostTimes DEF Frame
    <3> QED
      BY <3>1, <3>2, <2>1
  <2>3. ASSUME NEW e \in EventNode, skip(e)
        PROVE  TimedInv'
    <3>1. stack # <<>> /\ Top.pc = "dispatch"
          /\ SetTop([Top EXCEPT !.node = Following(event_list, e)])
          /\ UNCHANGED <<clock, timeVars, times, listVars>>
      BY <1>2, <2>3 DEF in_pass, skip, Running
    <3>2. [Top EXCEPT !.node = Following(event_list, e)].pc = "dispatch"
      BY <3>1, InnermostTimes DEF Frame
    <3> QED
      BY <3>1, <3>2, <2>1
  <2>4. CASE handler_returns
    <3>1. stack # <<>> /\ SetTop(AfterCall) /\ UNCHANGED <<clock, timeVars, times, listVars>>
      BY <1>2, <2>4 DEF in_pass, handler_returns
    <3>2. AfterCall.pc = Top.pc /\ AfterCall.due = Top.due
      BY <3>1, InnermostTimes DEF AfterCall, Frame
    <3> QED
      BY <3>1, <3>2, <2>1
  <2> QED
    BY <1>2, <2>2, <2>3, <2>4 DEF in_pass
<1>3. CASE scan
  <2> DEFINE due == {t \in Range(timer_list) : expired(t)}
             fr == [Top EXCEPT !.pc = "timers", !.due = due]
             tm == [Now EXCEPT !.now = clock]
  <2>1. /\ stack # <<>> /\ SetTop(fr) /\ SetNow(tm)
        /\ UNCHANGED <<clock, timeVars, timer_list>>
    BY <1>3 DEF scan, process_timer, Running, listVars
  <2>2. Top \in Frame /\ Now \in Times /\ clock \in Time
    BY <2>1, InnermostTimes, TimedTypes
  <2>3. fr.pc = "timers" /\ fr.due = due /\ tm \in Times /\ tm.now = clock
    BY <2>2 DEF Frame, Times
  <2>4. \A t \in Range(timer_list) : t \in due <=> Gap(next_timeout[t], clock) <= 0
    BY DEF expired
  <2> HIDE DEF due, fr, tm
  <2>5. Fresh(fr, tm)
    BY <2>3, <2>4 DEF Fresh
  <2> QED
    BY <2>1, <2>3, <2>5, TopReplaced
<1>4. ASSUME NEW t \in TimerNode, fire(t)
      PROVE  TimedInv'
  <2> DEFINE n == Len(stack)
             r == Now.now
             d == interval[t]
             mid == Rearm(stack, t)
  <2>1. /\ stack # <<>> /\ Top.pc = "timers" /\ t \in Range(timer_list)
        /\ stack' = [mid EXCEPT ![n].call = t]
        /\ next_timeout' = [next_timeout EXCEPT ![t] = After(r, d)]
        /\ age' = [age EXCEPT ![t] = UnsignedGap(clock, r)]
        /\ UNCHANGED <<clock, interval, times, timer_list>>
    BY <1>4 DEF fire, expire, Running, rearm, Since, UnsignedGap, Range, listVars
  <2>2. /\ n \in 1 .. n /\ n \in Nat /\ Top = stack[n] /\ Now = times[n]
        /\ r \in Time /\ clock \in Time
        /\ DOMAIN stack = 1 .. n /\ stack \in Seq(Frame)
        /\ interval \in [TimerNode -> Interval \cup {0}]
        /\ stack' \in Seq(Frame)
    BY <2>1, InnermostTimes, TimedTypes DEF Inv, TypeOK
  <2>3. d \in Interval /\ interval' = [interval EXCEPT ![t] = d]
    BY <2>1, <2>2 DEF TimedInv, AgeExact
  <2>4. UnsignedGap(clock, r) + d < Half
    BY <2>1, <2>2, <2>3 DEF TimedInv, ScansNested
  <2>5. ASSUME NEW i \in 1 .. n, stack[i].pc = "timers"
        PROVE  UnsignedGap(clock, r) <= UnsignedGap(clock, times[i].now)
    <3>1. n \in i .. n
      BY <2>2
    <3> QED
      BY <2>1, <2>2, <2>3, <2>5, <3>1 DEF TimedInv, ScansNested
  <2>6. \A i \in 1 .. n : stack[i].pc # "wait"
    BY <2>1, NobodyWaits
  <2>7. /\ mid \in Seq(Frame) /\ Len(mid) = n /\ DOMAIN mid = 1 .. n
        /\ \A i \in 1 .. n : /\ mid[i] \in Frame
                             /\ mid[i].pc = stack[i].pc
                             /\ mid[i].due = stack[i].due \ {t}
    BY <2>2, RearmFrames, RearmDue, ElementOfSeq
  <2> HIDE DEF n, mid, r, d
  <2>8. DOMAIN stack' = 1 .. n /\ Len(stack') = n
    <3>1. DOMAIN stack' = 1 .. n
      BY <2>1, <2>7
    <3> QED
      BY <2>2, <3>1
  <2>9. ASSUME NEW i \in 1 .. n
        PROVE  stack'[i].pc = stack[i].pc /\ stack'[i].due = stack[i].due \ {t}
    <3>1. CASE i = n
      <4>1. stack'[i] = [mid[n] EXCEPT !.call = t]
        BY <2>1, <2>7, <3>1
      <4> QED
        BY <2>2, <2>7, <3>1, <4>1 DEF Frame
    <3>2. CASE i # n
      BY <2>1, <2>7, <3>2
    <3> QED
      BY <3>1, <3>2
  <2>10. Range(timer_list') = Range(timer_list) \cup {t}
    BY <2>1
  <2> QED
    BY <2>1, <2>2, <2>3, <2>4, <2>5, <2>6, <2>8, <2>9, <2>10, OneArmed DEF n
<1>5. CASE again
  <2> DEFINE fr == Waiting(Top.forever)
             tm == WaitingTimes(Now.start, Now.limit)
  <2>1. /\ stack # <<>> /\ SetTop(fr) /\ SetNow(tm) /\ ~OutOfTime
        /\ UNCHANGED <<clock, timeVars, timer_list>>
    BY <1>5 DEF again, iterate, ScanOver, Running, listVars
  <2>2. Now.start \in Time /\ Now.limit \in Limit \cup {Forever} /\ clock \in Time
    BY <2>1, InnermostTimes, TimedTypes
  <2>3. Now.limit # Forever => Since(Now.start) < Now.limit
    <3>1. Since(Now.start) \in Nat
      BY <2>2, Distance, TimeIsNat DEF Since, UnsignedGap
    <3>2. Now.limit # Forever => Now.limit \in Nat
      BY <2>2, LimitType
    <3> QED
      BY <2>1, <3>1, <3>2 DEF OutOfTime
  <2>4. tm \in Times /\ EndsInTime(tm)
    BY <2>2, <2>3, WaitBegins, TimedTypes
  <2>5. fr.pc = "wait"
    BY DEF Waiting
  <2> HIDE DEF fr, tm
  <2>6. Fresh(fr, tm)
    BY <2>4, <2>5 DEF Fresh
  <2> QED
    BY <2>1, <2>4, <2>6, TopReplaced
<1>6. CASE leave
  <2> DEFINE n == Len(stack) - 1
  <2>1. /\ stack # <<>> /\ Pop /\ Leave
        /\ UNCHANGED <<clock, interval, next_timeout, age, timer_list>>
    BY <1>6 DEF leave, stop, time_out, ScanOver, Running, listVars, timeVars
  <2>2. /\ stack \in Seq(Frame) /\ times \in Seq(Times) /\ Len(times) = Len(stack)
        /\ n \in Nat /\ \A i \in 1 .. n : i \in 1 .. Len(stack) /\ times[i] \in Times
        /\ age \in [TimerNode -> 0 .. Half - 1]
    BY <2>1, InnermostTimes, TimedTypes
  <2>3. Len(stack') = n /\ \A i \in 1 .. n : stack'[i] = stack[i]
    BY <2>1, <2>2, PopFrames
  <2>4. times' = SubSeq(times, 1, n)
    BY <2>1, <2>2 DEF Leave
  <2> HIDE DEF n
  <2>5. /\ times' \in Seq(Times) /\ Len(times') = n
        /\ \A i \in 1 .. n : times'[i] = times[i]
    BY <2>2, <2>4, SubSeqProperties
  <2> QED
    BY <2>1, <2>2, <2>3, <2>5, NothingArmed
<1> QED
  BY <1>1, <1>2, <1>3, <1>4, <1>5, <1>6 DEF TimedLoopStep

\* What clients do, and the tick.
LEMMA ClientStepTimed ==
    ASSUME Inv, Inv', TimedInv,
           \/ \E l \in Limit \cup {Forever} : enter(l)
           \/ \E t \in TimerNode, i \in Interval : register_timer(t, i)
           \/ \E t \in TimerNode : deregister_timer(t)
           \/ other_client_step
    PROVE  TimedInv'
<1>1. ASSUME NEW l \in Limit \cup {Forever}, enter(l)
      PROVE  TimedInv'
  <2> DEFINE n == Len(stack)
             fr == Waiting(l = Forever)
             tm == WaitingTimes(clock, l)
  <2>1. /\ stack' = Append(stack, fr) /\ times' = Append(times, tm)
        /\ UNCHANGED <<clock, interval, next_timeout, age, timer_list>>
    BY <1>1 DEF enter, a_eventloop, listVars, timeVars
  <2>2. /\ n \in Nat /\ stack \in Seq(Frame) /\ times \in Seq(Times) /\ Len(times) = n
        /\ clock \in Time /\ age \in [TimerNode -> 0 .. Half - 1]
    BY TimedTypes
  <2>3. l # Forever => Since(clock) < l
    <3>1. Since(clock) = 0
      BY <2>2, Distance DEF Since, UnsignedGap
    <3> QED
      BY <3>1, LimitType
  <2>4. tm \in Times /\ EndsInTime(tm)
    BY <2>2, <2>3, WaitBegins, TimedTypes
  <2>5. fr \in Frame /\ fr.pc = "wait"
    BY DEF Frame, Waiting
  <2> HIDE DEF n, fr, tm
  <2>6. /\ Len(stack') = n + 1 /\ stack'[n + 1] = fr
        /\ \A i \in 1 .. n : stack'[i] = stack[i]
    BY <2>1, <2>5, <2>2, PushFrames DEF n
  <2>7. /\ times' \in Seq(Times) /\ Len(times') = n + 1 /\ times'[n + 1] = tm
        /\ \A i \in 1 .. n : times'[i] = times[i]
    BY <2>1, <2>2, <2>4, AppendProperties
  <2>8. Fresh(fr, tm)
    BY <2>4, <2>5 DEF Fresh
  <2>9. ASSUME NEW i \in 1 .. Len(stack')
        PROVE  \/ /\ i \in 1 .. Len(stack)
                  /\ stack'[i].pc = stack[i].pc /\ stack'[i].due = stack[i].due
                  /\ times'[i] = times[i]
               \/ i = Len(stack') /\ Fresh(stack'[i], times'[i])
    <3>1. i \in 1 .. n \/ i = n + 1
      BY <2>2, <2>6
    <3> QED
      BY <2>6, <2>7, <2>8, <3>1 DEF n
  <2> QED
    BY <2>1, <2>2, <2>6, <2>7, <2>9, NothingArmed
<1>2. ASSUME NEW t \in TimerNode, NEW d \in Interval, register_timer(t, d)
      PROVE  TimedInv'
  <2>1. /\ InClient
        /\ timer_list' = insert_node_safe(timer_list, t)
        /\ stack' = Rearm(stack, t)
        /\ interval' = [interval EXCEPT ![t] = d]
        /\ next_timeout' = [next_timeout EXCEPT ![t] = After(clock, d)]
        /\ age' = [age EXCEPT ![t] = 0]
        /\ UNCHANGED <<clock, times>>
    BY <1>2 DEF register_timer, a_eventloop_register_timer
  <2>2. /\ clock \in Time /\ stack \in Seq(Frame) /\ timer_list \in Seq(TimerNode)
        /\ \A i \in 1 .. Len(stack) : times[i].now \in Time
    BY TimedTypes DEF Times
  <2>3. UnsignedGap(clock, clock) = 0
    BY <2>2, Distance
  <2>4. UnsignedGap(clock, clock) + d < Half
    BY <2>3, ClockRange
  <2>5. ASSUME NEW i \in 1 .. Len(stack)
        PROVE  UnsignedGap(clock, clock) <= UnsignedGap(clock, times[i].now)
    <3>1. UnsignedGap(clock, times[i].now) \in Nat
      BY <2>2, Distance, TimeIsNat
    <3> QED
      BY <2>3, <3>1
  <2>6. \A i \in 1 .. Len(stack) : stack[i].pc # "wait"
    BY <2>1, NobodyWaits DEF InClient
  <2>7. Range(timer_list') = Range(timer_list) \cup {t}
    BY <2>1, <2>2, InsertRange
  <2>8. /\ Len(stack') = Len(stack)
        /\ \A i \in 1 .. Len(stack) : /\ stack'[i].pc = stack[i].pc
                                      /\ stack'[i].due = stack[i].due \ {t}
    BY <2>1, <2>2, RearmFrames, RearmDue
  <2> QED
    BY <2>1, <2>2, <2>3, <2>4, <2>5, <2>6, <2>7, <2>8, OneArmed
<1>3. ASSUME stack' = stack, UNCHANGED <<clock, interval, next_timeout, times>>,
             Range(timer_list') \subseteq Range(timer_list),
             age' \in [TimerNode -> 0 .. Half - 1],
             \A t \in Range(timer_list') : age'[t] = age[t]
      PROVE  TimedInv'
  <2>1. times' \in Seq(Times) /\ Len(times') = Len(stack')
    BY <1>3, TimedTypes
  <2>2. \A i \in 1 .. Len(stack') : /\ i \in 1 .. Len(stack)
                                    /\ stack'[i].pc = stack[i].pc
                                    /\ stack'[i].due = stack[i].due
                                    /\ times'[i] = times[i]
    BY <1>3
  <2> QED
    BY <1>3, <2>1, <2>2, NothingArmed
<1>4. ASSUME NEW t \in TimerNode, deregister_timer(t)
      PROVE  TimedInv'
  <2>1. /\ stack' = stack /\ UNCHANGED <<clock, interval, next_timeout, times>>
        /\ timer_list' = remove_node_safe(timer_list, t)
        /\ age' = [age EXCEPT ![t] = 0]
    BY <1>4 DEF deregister_timer, a_eventloop_deregister_timer
  <2>2. age \in [TimerNode -> 0 .. Half - 1] /\ timer_list \in Seq(TimerNode)
        /\ IsInjective(timer_list) /\ Range(timer_list) \subseteq TimerNode
    BY TimedTypes DEF Inv, LinkedOnce
  <2>3. Range(timer_list') = Range(timer_list) \ {t}
    BY <2>1, <2>2, RemoveRange
  <2>4. age' \in [TimerNode -> 0 .. Half - 1]
    BY <2>1, <2>2, ClockRange
  <2>5. \A u \in Range(timer_list') : age'[u] = age[u]
    BY <2>1, <2>2, <2>3
  <2> QED
    BY <1>3, <2>1, <2>3, <2>4, <2>5
<1>5. CASE other_client_step
  <2>1. /\ stack' = stack
        /\ UNCHANGED <<clock, interval, next_timeout, age, times>>
        /\ \/ timer_list' = timer_list
           \/ \E e \in EventNode : timer_list' = remove_node_safe(timer_list, e)
    BY <1>5 DEF other_client_step, timeVars, EventOperation, a_eventloop_break, SetFlag,
                a_eventloop_set_flag, a_eventloop_register_event,
                a_eventloop_deregister_event, a_eventloop_disable_event,
                a_eventloop_enable_event, listVars
  <2>2. age \in [TimerNode -> 0 .. Half - 1] /\ timer_list \in Seq(TimerNode)
        /\ IsInjective(timer_list)
    BY TimedTypes DEF Inv, LinkedOnce
  <2>3. Range(timer_list') \subseteq Range(timer_list)
    BY <2>1, <2>2, RemoveRange
  <2> QED
    BY <1>3, <2>1, <2>2, <2>3
<1> QED
  BY <1>1, <1>2, <1>4, <1>5

\* No timer is registered and no activation runs at first.
LEMMA InitTimedInv == TimedInit => TimedInv
<1> SUFFICES ASSUME TimedInit PROVE TimedInv
  OBVIOUS
<1> USE DEF TimedInit, Init
<1>1. 0 \in Time /\ 0 \in 0 .. Half - 1
  BY ClockRange DEF Time
<1>2. TimedTypeOK
  BY <1>1 DEF TimedTypeOK
<1>3. DOMAIN stack = {} /\ Range(timer_list) = {}
  BY DEF Range
<1> QED
  BY <1>2, <1>3 DEF TimedInv, AgeExact, ScansNested, DueExact, WaitsEnd

\* The invariant is inductive.
LEMMA NextTimedInv == Inv /\ TimedInv /\ [TimedNext]_timedVars => Inv' /\ TimedInv'
<1> SUFFICES ASSUME Inv, TimedInv, [TimedNext]_timedVars
             PROVE  Inv' /\ TimedInv'
  OBVIOUS
<1>1. Inv'
  BY TimedStepIsStep, NextInv
<1>2. CASE TimedNext
  BY <1>1, <1>2, LoopStepTimed, ClientStepTimed, TickInv DEF TimedNext
<1>3. CASE UNCHANGED timedVars
  <2>1. UNCHANGED <<clock, interval, next_timeout, age, times, stack, timer_list>>
    BY <1>3 DEF timedVars, timeVars, vars
  <2>2. TimedTypeOK' /\ AgeExact'
    BY <2>1 DEF TimedInv, TimedTypeOK, AgeExact
  <2>3. ScansNested'
    BY <2>1 DEF TimedInv, ScansNested
  <2>4. DueExact' /\ WaitsEnd'
    BY <2>1 DEF TimedInv, DueExact, WaitsEnd, EndsInTime
  <2> QED
    BY <1>1, <2>2, <2>3, <2>4 DEF TimedInv
<1> QED
  BY <1>1, <1>2, <1>3

(***************************************************************************)
(* The theorems                                                            *)
(***************************************************************************)

\* The loop with its clock is the loop of EventLoop, whose theorems therefore hold
\* of it: the clock decides which timers are due and when a wait ends, and changes
\* nothing else.
THEOREM TimedIsLoop == TimedSpec => Spec
<1>1. TimedInit => Init
  BY DEF TimedInit
<1>2. [TimedNext]_timedVars => [Next]_vars
  BY TimedStepIsStep
<1> QED
  BY <1>1, <1>2, PTL DEF TimedSpec, Spec

\* With its clock too, the loop is what its clients rely on.
THEOREM TimedKeepsPromise == TimedSpec => KeepsPromise
BY TimedIsLoop, PromiseKept, PTL

\* The invariant holds in every state of the loop with its clock.
THEOREM TimedInvHolds == TimedSpec => [](Inv /\ TimedInv)
<1>1. TimedInit => Inv /\ TimedInv
  BY InitInv, InitTimedInv DEF TimedInit
<1> QED
  BY <1>1, NextTimedInv, PTL DEF TimedSpec

\* Clock readings stay on the clock, and each activation has its own
\* (eventloop.c:138).
THEOREM TimedTypesHold == TimedSpec => []TimedTypeOK
BY TimedInvHolds, PTL DEF TimedInv

\* The timers a scan still has to call are those its C expression finds due
\* (eventloop.c:47), whatever inner activations do to the timers meanwhile, for
\* every even range of the clock.
THEOREM DueExactHolds == TimedSpec => []DueExact
BY TimedInvHolds, PTL DEF TimedInv

\* What a wait knows of its end, for the innermost activation.
LEMMA WaitingEnds ==
    ASSUME Inv, TimedInv, Running("wait")
    PROVE  EndsInTime(Now)
<1>1. stack # <<>> /\ Top.pc = "wait"
  BY DEF Running
<1>2. Len(stack) \in DOMAIN stack /\ Top = stack[Len(stack)] /\ Now = times[Len(stack)]
  BY <1>1, InnermostTimes, TimedTypes
<1> QED
  BY <1>1, <1>2 DEF TimedInv, WaitsEnd

\* A wait that is not a poll ends by the time the first timer is due
\* (eventloop.c:149).
THEOREM NoOversleepHolds == TimedSpec => []NoOversleep
<1>1. Inv /\ TimedInv => NoOversleep
  BY WaitingEnds DEF NoOversleep, EndsInTime
<1> QED
  BY <1>1, TimedInvHolds, PTL

\* An activation with a time limit sleeps until less than twice its limit after
\* its start (eventloop.c:153).
THEOREM SleepBoundedHolds == TimedSpec => []SleepBounded
<1>1. Inv /\ TimedInv => SleepBounded
  BY WaitingEnds DEF SleepBounded, EndsInTime, UnsignedGap
<1> QED
  BY <1>1, TimedInvHolds, PTL

\* A timer that a scan finds due is not early: its interval has passed since the
\* reading it was armed from.
LEMMA NotEarly ==
    ASSUME Inv, TimedInv, NEW t \in TimerNode, fire(t)
    PROVE  age[t] >= interval[t]
<1> DEFINE n == Len(stack)
           b == Now.now
<1>1. stack # <<>> /\ Top.pc = "timers" /\ t \in Top.due /\ t \in Range(timer_list)
  BY DEF fire, expire, Running, Range
<1>2. /\ n \in DOMAIN stack /\ n \in n .. n /\ Top = stack[n] /\ Now = times[n]
      /\ b \in Time /\ clock \in Time /\ age[t] \in 0 .. Half - 1
  BY <1>1, InnermostTimes, TimedTypes
<1>3. interval[t] \in Interval /\ next_timeout[t] = DueAt(clock, age[t], interval[t])
  BY <1>1 DEF TimedInv, AgeExact
<1>4. UnsignedGap(clock, b) + interval[t] < Half
  BY <1>1, <1>2, <1>3 DEF TimedInv, ScansNested
<1>5. Gap(next_timeout[t], b) <= 0
  BY <1>1, <1>2 DEF TimedInv, DueExact
<1>6. interval[t] \in 1 .. Half - 1
  BY <1>3, ClockRange
<1>7. Gap(next_timeout[t], b) = UnsignedGap(clock, b) + interval[t] - age[t]
  BY <1>2, <1>3, <1>4, <1>6, DueGap
<1>8. UnsignedGap(clock, b) \in Nat
  BY <1>2, Distance, TimeIsNat
<1> QED
  BY <1>2, <1>5, <1>6, <1>7, <1>8, ClockRange

\* No handler of a timer is called before its interval has passed
\* (eventloop.c:47), the clock's wrap included.
THEOREM NeverEarlyHolds == TimedSpec => NeverEarly
<1>1. Inv /\ TimedInv /\ [TimedNext]_timedVars =>
         [\A t \in TimerNode : fire(t) => age[t] >= interval[t]]_timedVars
  BY NotEarly
<1> QED
  BY <1>1, TimedInvHolds, PTL DEF TimedSpec, NeverEarly
=============================================================================
