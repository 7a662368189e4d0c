-------------------------- MODULE PeripheralProofs --------------------------
(***************************************************************************)
(* Proofs about the four peripherals, each by itself and for every value   *)
(* of its constants.                                                       *)
(***************************************************************************)
EXTENDS SysLed, SysPwm, SysButton, SysUart, FiniteSetTheorems, SequenceTheorems, TLAPS

(***************************************************************************)
(* The LEDs: the counter behind the shared timer counts the blinking ones, *)
(* and the pins show the modes.                                            *)
(***************************************************************************)

LedInv == LedTypeOK /\ TimerWhileBlinking /\ PinsShowModes

\* The blinking LEDs after a change of one mode.
LEMMA BlinkingAfter ==
    ASSUME modes \in [Led -> Mode], NEW i \in Led, NEW mode \in Mode,
           modes' = [modes EXCEPT ![i] = mode]
    PROVE  Blinking' = IF mode = "LED_BLINK" THEN Blinking \cup {i} ELSE Blinking \ {i}
  BY DEF Blinking

\* One LED more or less is one more or less in the count, which is zero exactly
\* when there is none.
LEMMA SubsetCounts ==
    ASSUME NEW S \in SUBSET Led
    PROVE  /\ Cardinality(S) \in 0 .. Cardinality(Led)
           /\ Cardinality(S) = 0 <=> S = {}
           /\ \A i \in Led \ S : Cardinality(S \cup {i}) = Cardinality(S) + 1
           /\ \A i \in S : Cardinality(S \ {i}) = Cardinality(S) - 1
  <1>1. /\ IsFiniteSet(S) /\ Cardinality(S) <= Cardinality(Led)
        /\ Cardinality(S) \in Nat /\ Cardinality(Led) \in Nat
    BY LedType, FS_Subset, FS_CardinalityType
  <1>2. Cardinality(S) = 0 <=> S = {}
    BY <1>1, FS_EmptySet
  <1>3. QED
    BY <1>1, <1>2, FS_AddElement, FS_RemoveElement

LEMMA BlinkingCounts ==
    /\ Blinking \in SUBSET Led
    /\ Cardinality(Blinking) \in 0 .. Cardinality(Led)
    /\ Cardinality(Blinking) = 0 <=> Blinking = {}
  <1>1. Blinking \in SUBSET Led
    BY DEF Blinking
  <1>2. QED
    BY <1>1, SubsetCounts

\* Nothing blinks at first.
LEMMA LedInitInv == a_sys_led_init => LedInv
  <1> SUFFICES ASSUME a_sys_led_init PROVE LedInv
    OBVIOUS
  <1> USE DEF a_sys_led_init
  <1>1. Blinking = {}
    BY DEF Blinking
  <1>2. Cardinality(Blinking) = 0 /\ 0 \in 0 .. Cardinality(Led)
    BY <1>1, BlinkingCounts
  <1>3. LedTypeOK
    BY <1>2 DEF LedTypeOK, Mode
  <1>4. QED
    BY <1>1, <1>2, <1>3 DEF LedInv, TimerWhileBlinking, PinsShowModes

\* The timer's handler changes the phase of the blinking pins and of no others.
LEMMA LedTimerInv == LedInv /\ led_timer_callback => LedInv'
  <1> SUFFICES ASSUME LedInv, led_timer_callback PROVE LedInv'
    OBVIOUS
  <1> USE DEF led_timer_callback
  <1>1. Blinking' = Blinking
    BY DEF Blinking
  <1>2. LedTypeOK'
    BY DEF LedInv, LedTypeOK, PinLevel
  <1>3. TimerWhileBlinking'
    BY <1>1 DEF LedInv, TimerWhileBlinking
  <1>4. PinsShowModes'
    <2> SUFFICES ASSUME NEW i \in Led, gpio'[i] # "undriven"
                 PROVE gpio'[i] = PinLevel(modes[i] = "LED_ON" \/ (i \in Blinking /\ ~blink_cur))
      BY <1>1 DEF PinsShowModes
    <2>1. CASE i \in Blinking
      <3>1. gpio'[i] = PinLevel(~blink_cur) /\ modes[i] # "LED_ON"
        BY <2>1 DEF Blinking
      <3>2. QED
        BY <2>1, <3>1 DEF PinLevel
    <2>2. CASE i \notin Blinking
      BY <2>2 DEF LedInv, PinsShowModes, PinLevel
    <2>3. QED
      BY <2>1, <2>2
  <1>5. QED
    BY <1>2, <1>3, <1>4 DEF LedInv

\* Setting a mode keeps counter and timer, whichever of the three branches runs.
LEMMA LedSetInv ==
    ASSUME LedInv, NEW i \in Led, NEW mode \in Mode, a_sys_led_set(i, mode)
    PROVE  LedInv'
  <1>1. /\ modes \in [Led -> Mode] /\ modes' = [modes EXCEPT ![i] = mode]
        /\ blink_cur \in BOOLEAN /\ led_armed \in BOOLEAN
        /\ gpio \in [Led -> {"high", "low", "undriven"}]
    BY DEF LedInv, LedTypeOK, a_sys_led_set
  <1>2. Blinking' = IF mode = "LED_BLINK" THEN Blinking \cup {i} ELSE Blinking \ {i}
    BY <1>1, BlinkingAfter
  <1>3. /\ num_blink_led = Cardinality(Blinking)
        /\ led_armed <=> Blinking # {}
    BY DEF LedInv, TimerWhileBlinking
  <1>4. /\ num_blink_led' = Cardinality(Blinking') /\ num_blink_led' \in 0 .. Cardinality(Led)
        /\ led_armed' \in BOOLEAN /\ (led_armed' <=> Blinking' # {})
        /\ blink_cur' \in BOOLEAN
        /\ blink_cur' # blink_cur => Blinking = {}
    <2>1. CASE stop_blinking(i, mode)
      <3>1. Blinking' = Blinking \ {i} /\ i \in Blinking
        BY <1>2, <2>1 DEF stop_blinking
      <3>2. /\ Cardinality(Blinking') = Cardinality(Blinking) - 1
            /\ Cardinality(Blinking) \in 0 .. Cardinality(Led)
            /\ Cardinality(Blinking) # 0
            /\ Cardinality(Led) \in Nat
        BY <3>1, BlinkingCounts, SubsetCounts, LedType, FS_CardinalityType
      <3>3. num_blink_led' = Cardinality(Blinking')
        BY <1>3, <2>1, <3>2 DEF stop_blinking
      <3>4. num_blink_led' \in 0 .. Cardinality(Led)
        BY <3>2, <3>3
      <3>5. (num_blink_led' # 0) <=> Blinking' # {}
        <4>1. Blinking' \in SUBSET Led
          BY <3>1, BlinkingCounts
        <4>2. QED
          BY <3>3, <4>1, SubsetCounts
      <3>6. led_armed' \in BOOLEAN /\ (led_armed' <=> Blinking' # {})
        BY <1>1, <1>3, <2>1, <3>1, <3>5 DEF stop_blinking
      <3>7. QED
        BY <1>1, <2>1, <3>3, <3>4, <3>6 DEF stop_blinking
    <2>2. CASE start_blinking(i, mode)
      <3>1. Blinking' = Blinking \cup {i} /\ i \notin Blinking
        BY <1>2, <2>2 DEF start_blinking
      <3>2. /\ Cardinality(Blinking') = Cardinality(Blinking) + 1
            /\ Cardinality(Blinking') \in 0 .. Cardinality(Led)
        <4>1. i \in Led \ Blinking /\ Blinking' \in SUBSET Led
          BY <3>1, BlinkingCounts
        <4>2. QED
          BY <3>1, <4>1, BlinkingCounts, SubsetCounts
      <3>3. num_blink_led' = Cardinality(Blinking')
        BY <1>3, <2>2, <3>2 DEF start_blinking
      <3>4. num_blink_led = 0 <=> Blinking = {}
        BY <1>3, BlinkingCounts
      <3>5. QED
        BY <1>1, <1>3, <2>2, <3>1, <3>2, <3>3, <3>4 DEF start_blinking
    <2>3. CASE keep_blinking(i, mode)
      <3>1. Blinking' = Blinking
        BY <1>2, <2>3 DEF keep_blinking
      <3>2. QED
        BY <1>1, <1>3, <2>3, <3>1, BlinkingCounts DEF keep_blinking
    <2>4. QED
      BY <2>1, <2>2, <2>3 DEF a_sys_led_set
  <1>5. gpio' = [gpio EXCEPT ![i] = PinLevel(mode = "LED_ON" \/ (mode = "LED_BLINK" /\ blink_cur'))]
    BY DEF a_sys_led_set
  <1>6. LedTypeOK'
    BY <1>1, <1>4, <1>5 DEF LedTypeOK, PinLevel
  <1>7. TimerWhileBlinking'
    BY <1>4 DEF TimerWhileBlinking
  <1>8. PinsShowModes'
    <2> SUFFICES ASSUME NEW j \in Led, gpio'[j] # "undriven"
                 PROVE gpio'[j] = PinLevel(modes'[j] = "LED_ON" \/ (j \in Blinking' /\ blink_cur'))
      BY DEF PinsShowModes
    <2>1. CASE j = i
      BY <1>1, <1>2, <1>5, <2>1 DEF PinLevel
    <2>2. CASE j # i
      <3>1. gpio'[j] = gpio[j] /\ modes'[j] = modes[j] /\ (j \in Blinking' <=> j \in Blinking)
        BY <1>1, <1>2, <1>5, <2>2
      <3>2. gpio[j] = PinLevel(modes[j] = "LED_ON" \/ (j \in Blinking /\ blink_cur))
        BY <3>1 DEF LedInv, PinsShowModes
      <3>3. j \in Blinking => blink_cur' = blink_cur
        BY <1>4
      <3>4. QED
        BY <3>1, <3>2, <3>3 DEF PinLevel
    <2>3. QED
      BY <2>1, <2>2
  <1>9. QED
    BY <1>6, <1>7, <1>8 DEF LedInv

\* A step of the LEDs, or none, keeps the three parts.
LEMMA LedStepInv == LedInv /\ [LedNext]_ledVars => LedInv'
  <1> SUFFICES ASSUME LedInv, [LedNext]_ledVars PROVE LedInv'
    OBVIOUS
  <1>1. CASE led_timer_callback
    BY <1>1, LedTimerInv
  <1>2. CASE \E i \in Led, mode \in Mode : a_sys_led_set(i, mode)
    BY <1>2, LedSetInv
  <1>3. CASE UNCHANGED ledVars
    BY <1>3 DEF ledVars, LedInv, LedTypeOK, TimerWhileBlinking, PinsShowModes, Blinking
  <1>4. QED
    BY <1>1, <1>2, <1>3 DEF LedNext

\* The three parts together are inductive.
THEOREM LedInvHolds == LedSpec => []LedInv
  BY LedStepInv, LedInitInv, PTL DEF LedSpec

\* The counter stays between none and all of the LEDs.
THEOREM LedTypesHold == LedSpec => []LedTypeOK
  <1>1. LedInv => LedTypeOK
    BY DEF LedInv
  <1>2. QED
    BY <1>1, LedInvHolds, PTL

\* sys_led.c: the timer is registered exactly while some LED blinks.
THEOREM TimerWhileBlinkingHolds == LedSpec => []TimerWhileBlinking
  <1>1. LedInv => TimerWhileBlinking
    BY DEF LedInv
  <1>2. QED
    BY <1>1, LedInvHolds, PTL

\* sys_led.c: each pin shows the mode of its LED, and all blink in phase.
THEOREM PinsShowModesHolds == LedSpec => []PinsShowModes
  <1>1. LedInv => PinsShowModes
    BY DEF LedInv
  <1>2. QED
    BY <1>1, LedInvHolds, PTL

(***************************************************************************)
(* The ramp is on its way to its target, never moves away from it, and what *)
(* it writes is a percentage.  The arithmetic comes first: round() of a    *)
(* quotient is monotone, and bounded by what bounds the quotient.          *)
(***************************************************************************)

\* What div returns.
LEMMA Quotient ==
    ASSUME NEW a \in Nat, NEW b \in Nat \ {0}
    PROVE  a \div b \in Nat /\ b * (a \div b) <= a /\ a < b * (a \div b) + b
  OBVIOUS

\* A larger product has the larger factor,
LEMMA Factor ==
    ASSUME NEW b \in Nat \ {0}, NEW x \in Nat, NEW y \in Nat, b * x < b * y + b
    PROVE  x <= y
  OBVIOUS

\* and a larger factor the larger product.
LEMMA Times ==
    ASSUME NEW x \in Nat, NEW y \in Nat, NEW z \in Nat, x <= y
    PROVE  x * z \in Nat /\ y * z \in Nat /\ x * z <= y * z
  OBVIOUS

LEMMA QuotientGrows ==
    ASSUME NEW a \in Nat, NEW c \in Nat, NEW b \in Nat \ {0}, a <= c
    PROVE  a \div b <= c \div b
  <1> DEFINE x == a \div b
             y == c \div b
  <1>1. x \in Nat /\ y \in Nat /\ b * x <= a /\ c < b * y + b
    BY Quotient
  <1> HIDE DEF x, y
  <1>2. b * x \in Nat /\ b * y \in Nat
    BY <1>1
  <1>3. b * x < b * y + b
    BY <1>1, <1>2
  <1>4. x <= y
    BY <1>1, <1>3, Factor
  <1>5. QED
    BY <1>4 DEF x, y

\* round() of what is not negative: monotone, and exact for multiples.
LEMMA RoundGrows ==
    ASSUME NEW n \in Nat, NEW m \in Nat, NEW d \in Nat \ {0}, n <= m
    PROVE  Round(n, d) \in Nat /\ Round(m, d) \in Nat /\ Round(n, d) <= Round(m, d)
  <1>1. 2 * n + d \in Nat /\ 2 * m + d \in Nat /\ 2 * d \in Nat \ {0} /\ 2 * n + d <= 2 * m + d
    OBVIOUS
  <1>2. /\ (2 * n + d) \div (2 * d) <= (2 * m + d) \div (2 * d)
        /\ (2 * n + d) \div (2 * d) \in Nat /\ (2 * m + d) \div (2 * d) \in Nat
    BY <1>1, QuotientGrows, Quotient
  <1>3. QED
    BY <1>2 DEF Round

LEMMA RoundBounded ==
    ASSUME NEW n \in Nat, NEW d \in Nat \ {0}, NEW k \in Nat, n <= k * d
    PROVE  Round(n, d) \in 0 .. k
  <1> DEFINE b == 2 * d
             x == (2 * n + d) \div b
  <1>1. x \in Nat /\ b * x <= 2 * n + d /\ b \in Nat \ {0}
    <2>1. b \in Nat \ {0} /\ 2 * n + d \in Nat
      OBVIOUS
    <2> HIDE DEF b
    <2>2. QED
      BY <2>1, Quotient
  <1>2. k * d \in Nat /\ b * k = 2 * (k * d)
    OBVIOUS
  <1>3. 2 * n + d < b * k + b
    BY <1>2
  <1>4. x <= k
    <2> HIDE DEF x
    <2>1. b * x < b * k + b
      <3>1. b * x \in Nat /\ b * k \in Nat
        BY <1>1, <1>2
      <3>2. QED
        BY <1>1, <1>3, <3>1
    <2>2. QED
      BY <1>1, <2>1, Factor
  <1>5. QED
    BY <1>1, <1>4 DEF Round

\* round() is odd.
LEMMA RoundOdd ==
    ASSUME NEW n \in Nat, NEW d \in Nat \ {0}
    PROVE  Round(-n, d) = -Round(n, d)
  <1>1. CASE n = 0
    <2>1. Round(0, d) \in 0 .. 0
      BY RoundBounded
    <2>2. QED
      BY <1>1, <2>1
  <1>2. CASE n # 0
    <2>1. ~(-n >= 0) /\ n >= 0 /\ d - 2 * (-n) = 2 * n + d
      BY <1>2
    <2>2. QED
      BY <2>1 DEF Round
  <1>3. QED
    BY <1>1, <1>2

-----------------------------------------------------------------------------
\* The square curve of height h at step j of total_step.
Rise(h, j) == Round(h * j * j, total_step * total_step)

LEMMA RiseGrows ==
    ASSUME NEW h \in Nat, NEW j \in 0 .. total_step, NEW k \in j .. total_step
    PROVE  Rise(h, j) \in 0 .. h /\ Rise(h, k) \in 0 .. h /\ Rise(h, j) <= Rise(h, k)
  <1> USE PwmConstants
  <1>1. j \in Nat /\ k \in Nat /\ total_step \in Nat /\ j <= k /\ k <= total_step
    OBVIOUS
  <1>2. ASSUME NEW x \in Nat, NEW y \in Nat, x <= y
        PROVE  h * x * x \in Nat /\ h * y * y \in Nat /\ h * x * x <= h * y * y
    <2>1. x * h \in Nat /\ y * h \in Nat /\ x * h <= y * h
      BY <1>2, Times
    <2>2. (x * h) * x \in Nat /\ (y * h) * x \in Nat /\ (x * h) * x <= (y * h) * x
      BY <2>1, Times
    <2>3. (y * h) * x <= (y * h) * y /\ (y * h) * y \in Nat
      BY <1>2, <2>1, Times
    <2>4. h * x * x = (x * h) * x /\ h * y * y = (y * h) * y
      OBVIOUS
    <2>5. QED
      BY <2>2, <2>3, <2>4
  <1>3. h * total_step * total_step = h * (total_step * total_step)
    OBVIOUS
  <1>4. total_step * total_step \in Nat \ {0}
    OBVIOUS
  <1>5. /\ h * j * j \in Nat /\ h * k * k \in Nat /\ h * j * j <= h * k * k
        /\ h * k * k <= h * (total_step * total_step)
        /\ h * j * j <= h * (total_step * total_step)
    <2>1. h * j * j \in Nat /\ h * k * k \in Nat /\ h * j * j <= h * k * k
      BY <1>1, <1>2
    <2>2. h * k * k <= h * total_step * total_step /\ h * total_step * total_step \in Nat
      BY <1>1, <1>2
    <2>3. QED
      BY <1>3, <2>1, <2>2
  <1>6. Rise(h, j) \in 0 .. h /\ Rise(h, k) \in 0 .. h
    BY <1>4, <1>5, RoundBounded DEF Rise
  <1>7. Rise(h, j) <= Rise(h, k)
    BY <1>4, <1>5, RoundGrows DEF Rise
  <1>8. QED
    BY <1>6, <1>7

\* square_val() in terms of it: the curve, or the curve backwards.
LEMMA SquareVal ==
    ASSUME NEW a \in Nat, NEW z \in Nat, NEW i \in 0 .. total_step
    PROVE  square_val(a, z, total_step, i) =
               IF z >= a THEN a + Rise(z - a, i) ELSE z + Rise(a - z, total_step - i)
  <1> USE PwmConstants
  <1>1. CASE z >= a
    <2>1. z - a \in Nat /\ i \in i .. total_step
      BY <1>1
    <2>2. Rise(z - a, i) \in Int
      BY <2>1, RiseGrows
    <2>3. square_val(a, z, total_step, i) = Rise(z - a, i) + a
      BY <1>1 DEF square_val, Rise
    <2>4. QED
      BY <1>1, <2>2, <2>3
  <1>2. CASE ~(z >= a)
    <2> DEFINE h == a - z
               j == total_step - i
    <2>1. h \in Nat /\ j \in 0 .. total_step /\ j \in j .. total_step /\ z < a /\ z - a = -h
      BY <1>2
    <2>2. square_val(a, z, total_step, i) = z - Round((-h) * j * j, total_step * total_step)
      BY <2>1 DEF square_val
    <2> HIDE DEF h, j
    <2>3. (-h) * j * j = -(h * j * j) /\ h * j * j \in Nat /\ total_step * total_step \in Nat \ {0}
      <3>1. h * j \in Nat /\ (-h) * j = -(h * j) /\ j \in Nat
        BY <2>1
      <3>2. (h * j) * j \in Nat /\ (-(h * j)) * j = -((h * j) * j)
        BY <3>1
      <3>3. QED
        BY <3>1, <3>2
    <2>4. Round((-h) * j * j, total_step * total_step) = -Rise(h, j)
      BY <2>3, RoundOdd DEF Rise
    <2>5. Rise(h, j) \in Int
      BY <2>1, RiseGrows
    <2>6. square_val(a, z, total_step, i) = z + Rise(h, j)
      BY <2>2, <2>4, <2>5
    <2>7. QED
      BY <1>2, <2>6 DEF h, j
  <1>3. QED
    BY <1>1, <1>2

\* The curve runs from the start to the target and never turns.
LEMMA Curve ==
    ASSUME NEW a \in 0 .. 100, NEW z \in 0 .. 100,
           NEW i \in 0 .. total_step, NEW k \in i .. total_step
    PROVE  /\ square_val(a, z, total_step, k) \in 0 .. 100
           /\ Between(a, square_val(a, z, total_step, k), z)
           /\ Between(square_val(a, z, total_step, i), square_val(a, z, total_step, k), z)
  <1> USE PwmConstants
  <1>1. a \in Nat /\ z \in Nat /\ k \in 0 .. total_step
    OBVIOUS
  <1>2. CASE z >= a
    <2>1. z - a \in Nat
      BY <1>2
    <2>2. /\ Rise(z - a, i) \in 0 .. z - a /\ Rise(z - a, k) \in 0 .. z - a
          /\ Rise(z - a, i) <= Rise(z - a, k)
      BY <2>1, RiseGrows
    <2>3. /\ square_val(a, z, total_step, i) = a + Rise(z - a, i)
          /\ square_val(a, z, total_step, k) = a + Rise(z - a, k)
      BY <1>1, <1>2, SquareVal
    <2>4. QED
      BY <1>2, <2>2, <2>3 DEF Between
  <1>3. CASE ~(z >= a)
    <2>1. a - z \in Nat
      BY <1>3
    <2>2. /\ total_step - k \in 0 .. total_step
          /\ total_step - i \in (total_step - k) .. total_step
      OBVIOUS
    <2>3. /\ Rise(a - z, total_step - i) \in 0 .. a - z
          /\ Rise(a - z, total_step - k) \in 0 .. a - z
          /\ Rise(a - z, total_step - k) <= Rise(a - z, total_step - i)
      BY <2>1, <2>2, RiseGrows
    <2>4. /\ square_val(a, z, total_step, i) = z + Rise(a - z, total_step - i)
          /\ square_val(a, z, total_step, k) = z + Rise(a - z, total_step - k)
      BY <1>1, <1>3, SquareVal
    <2>5. QED
      BY <1>3, <2>3, <2>4 DEF Between
  <1>4. QED
    BY <1>2, <1>3

-----------------------------------------------------------------------------
\* While the timer is registered the level is the curve's at this step.
OnCurve ==
    pwm_armed =>
        /\ step < total_step
        /\ cur_val = square_val(start_val, target_val, total_step, step)

PwmInv == PwmTypeOK /\ OnItsWay /\ OnCurve

Steps == Between(cur_val, cur_val', target_val')

LEMMA PwmInitInv == a_sys_pwm_init => PwmInv
  <1> SUFFICES ASSUME a_sys_pwm_init PROVE PwmInv
    OBVIOUS
  <1>1. PwmTypeOK
    <2>1. {start_val, target_val, cur_val, pwm} = {0} /\ 0 \in 0 .. 100
      BY DEF a_sys_pwm_init
    <2>2. step \in 0 .. total_step + 1
      <3>1. step = 0 /\ total_step \in Nat
        BY PwmConstants DEF a_sys_pwm_init
      <3>2. QED
        BY <3>1
    <2>3. pwm_armed \in BOOLEAN
      BY DEF a_sys_pwm_init
    <2>4. QED
      BY <2>1, <2>2, <2>3 DEF PwmTypeOK
  <1>2. OnItsWay /\ OnCurve
    BY DEF a_sys_pwm_init, OnItsWay, OnCurve
  <1>3. QED
    BY <1>1, <1>2 DEF PwmInv

\* timer_callback, from the timer,
LEMMA PwmTimerInv == ASSUME PwmInv, pwm_timer_callback PROVE PwmInv' /\ Steps
  <1>1. /\ start_val \in 0 .. 100 /\ target_val \in 0 .. 100 /\ cur_val \in 0 .. 100
        /\ step \in Nat /\ step < total_step /\ total_step \in Nat
        /\ start_val' = start_val /\ target_val' = target_val /\ step' = step + 1
        /\ pwm' = cur_val'
        /\ cur_val = square_val(start_val, target_val, total_step, step)
    BY PwmConstants DEF PwmInv, pwm_timer_callback, advance, PwmTypeOK, OnCurve
  <1>2. CASE step + 1 >= total_step \/ cur_val = target_val
    <2>1. cur_val' = target_val /\ pwm_armed' = FALSE
      BY <1>2 DEF pwm_timer_callback, advance
    <2>2. PwmInv'
      <3>1. step' \in 0 .. total_step + 1
        BY <1>1
      <3>2. {start_val', target_val', cur_val', pwm'} \subseteq 0 .. 100
        BY <1>1, <2>1
      <3>3. PwmTypeOK'
        BY <2>1, <3>1, <3>2 DEF PwmTypeOK
      <3>4. OnItsWay' /\ OnCurve'
        BY <1>1, <2>1 DEF OnItsWay, OnCurve
      <3>5. QED
        BY <3>3, <3>4 DEF PwmInv
    <2>3. Steps
      BY <1>1, <2>1 DEF Steps, Between
    <2>4. QED
      BY <2>2, <2>3
  <1>3. CASE ~(step + 1 >= total_step \/ cur_val = target_val)
    <2>1. /\ cur_val' = square_val(start_val, target_val, total_step, step + 1)
          /\ pwm_armed' = TRUE
      BY <1>3 DEF pwm_timer_callback, advance
    <2>2. step \in 0 .. total_step /\ step + 1 \in step .. total_step /\ step + 1 < total_step
      BY <1>1, <1>3
    <2>3. /\ cur_val' \in 0 .. 100
          /\ Between(start_val, cur_val', target_val) /\ Between(cur_val, cur_val', target_val)
      BY <1>1, <2>1, <2>2, Curve
    <2>4. PwmTypeOK'
      BY <1>1, <2>1, <2>2, <2>3 DEF PwmTypeOK
    <2>5. OnItsWay' /\ OnCurve'
      BY <1>1, <2>1, <2>2, <2>3 DEF OnItsWay, OnCurve
    <2>6. QED
      BY <1>1, <2>3, <2>4, <2>5 DEF PwmInv, Steps
  <1>4. QED
    BY <1>2, <1>3

\* and from a_sys_pwm_level, whatever ramp it interrupts.
LEMMA PwmLevelInv == ASSUME PwmInv, SetLevel PROVE PwmInv' /\ Steps
  <1>1. PICK level \in PwmLevel : a_sys_pwm_level(level)
    BY DEF SetLevel
  <1>2. /\ level \in 0 .. 100 /\ cur_val \in 0 .. 100 /\ total_step \in Nat \ {0}
        /\ start_val' = cur_val /\ target_val' = level /\ step' = 2
        /\ pwm' = cur_val'
    <2>1. level \in 0 .. 100 /\ total_step \in Nat \ {0}
      BY PwmConstants
    <2>2. cur_val \in 0 .. 100
      BY DEF PwmInv, PwmTypeOK
    <2>3. start_val' = cur_val /\ target_val' = level /\ step' = 2 /\ pwm' = cur_val'
      BY <1>1 DEF a_sys_pwm_level, advance
    <2>4. QED
      BY <2>1, <2>2, <2>3
  <1>3. CASE 2 >= total_step \/ cur_val = level
    <2>1. cur_val' = level /\ pwm_armed' = FALSE
      BY <1>1, <1>2, <1>3 DEF a_sys_pwm_level, advance
    <2>2. PwmInv'
      <3>1. step' \in 0 .. total_step + 1
        BY <1>2
      <3>2. {start_val', target_val', cur_val', pwm'} \subseteq 0 .. 100
        BY <1>2, <2>1
      <3>3. PwmTypeOK'
        BY <2>1, <3>1, <3>2 DEF PwmTypeOK
      <3>4. OnItsWay' /\ OnCurve'
        BY <1>2, <2>1 DEF OnItsWay, OnCurve
      <3>5. QED
        BY <3>3, <3>4 DEF PwmInv
    <2>3. Steps
      BY <1>2, <2>1 DEF Steps, Between
    <2>4. QED
      BY <2>2, <2>3
  <1>4. CASE ~(2 >= total_step \/ cur_val = level)
    <2>1. cur_val' = square_val(cur_val, level, total_step, 2) /\ pwm_armed' = TRUE
      <3> DEFINE v == square_val(cur_val, level, total_step, 2)
      <3> HIDE DEF v
      <3>1. cur_val' = v /\ pwm_armed' = TRUE
        BY <1>1, <1>2, <1>4 DEF a_sys_pwm_level, advance, v
      <3>2. QED
        BY <3>1 DEF v
    <2>2. 2 \in 0 .. total_step /\ 2 \in 2 .. total_step /\ 2 < total_step
      BY <1>2, <1>4
    <2>3. cur_val' \in 0 .. 100 /\ Between(cur_val, cur_val', level)
      BY <1>2, <2>1, <2>2, Curve
    <2>4. PwmTypeOK'
      BY <1>2, <2>1, <2>2, <2>3 DEF PwmTypeOK
    <2>5. OnItsWay' /\ OnCurve'
      BY <1>2, <2>1, <2>2, <2>3 DEF OnItsWay, OnCurve
    <2>6. QED
      BY <1>2, <2>3, <2>4, <2>5 DEF PwmInv, Steps
  <1>5. QED
    BY <1>3, <1>4

\* A step of the ramp, or none, keeps the three parts.
LEMMA PwmStepInv == PwmInv /\ [PwmNext]_pwmVars => PwmInv'
  <1>1. PwmInv /\ UNCHANGED pwmVars => PwmInv'
    BY DEF pwmVars, PwmInv, PwmTypeOK, OnItsWay, OnCurve
  <1>2. QED
    BY <1>1, PwmTimerInv, PwmLevelInv DEF PwmNext

\* Every step keeps the three parts.
THEOREM PwmInvHolds == PwmSpec => []PwmInv
  BY PwmStepInv, PwmInitInv, PTL DEF PwmSpec

\* sys_pwm.c: the duty cycle is a percentage.
THEOREM PwmTypesHold == PwmSpec => []PwmTypeOK
  <1>1. PwmInv => PwmTypeOK
    BY DEF PwmInv
  <1>2. QED
    BY <1>1, PwmInvHolds, PTL

\* sys_pwm.c: the level lies between start and target while the timer runs, and is
\* the target when it does not.
THEOREM OnItsWayHolds == PwmSpec => []OnItsWay
  <1>1. PwmInv => OnItsWay
    BY DEF PwmInv
  <1>2. QED
    BY <1>1, PwmInvHolds, PTL

\* sys_pwm.c: no step leads away from the target, for any curve and any ramp that
\* another one interrupts.
THEOREM NeverAwayHolds == PwmSpec => NeverAway
  <1>1. PwmInv /\ [PwmNext]_pwmVars => [Steps]_pwmVars
    BY PwmTimerInv, PwmLevelInv DEF PwmNext
  <1>2. QED
    BY <1>1, PwmInvHolds, PTL DEF PwmSpec, NeverAway, Steps

(***************************************************************************)
(* The last state of a button is not missed.  LastStateOnItsWay is not     *)
(* inductive: what the application knows may be right while its handler    *)
(* already holds an older state, which must then be on its way as well     *)
(* (ReadOnItsWay).                                                         *)
(***************************************************************************)

\* Whoever can be called has a button, and so has whoever was.
Assigned ==
    /\ button \in [Object -> Button \cup {NULL}]
    /\ button_used \in [Button -> Object \cup {NULL}]
    /\ \A id \in Button : button_used[id] # NULL => button[button_used[id]] \in Button
    /\ \A s \in Object :
          s \in button_owed \/ running = s \/ told[s] # NULL => button[s] \in Button

\* A state that was read and is not yet told is that of the button, or there is
\* another call to come.
ReadOnItsWay ==
    /\ running = NULL => read = NULL
    /\ \A s \in Object : running = s /\ read # NULL =>
          read = pressed[button[s]] \/ button[s] \in changed \/ s \in button_owed

ButtonInv == ButtonTypeOK /\ Assigned /\ ReadOnItsWay /\ LastStateOnItsWay

LEMMA ButtonInitInv == ButtonInit => ButtonInv
  BY NullDistinct
  DEF ButtonInit, ButtonInv, ButtonTypeOK, Assigned, ReadOnItsWay, LastStateOnItsWay

\* The list stays one of objects, whether the object is put in front or the rest
\* behind it is cut off.
LEMMA RelinkedType ==
    ASSUME event_list \in Seq(Object), NEW s \in Object
    PROVE  Relinked(s) \in Seq(Object)
  <1>1. CASE Linked(s)
    <2>1. PICK p \in DOMAIN event_list :
             Relinked(s) = SubSeq(event_list, 1, p)
      BY <1>1 DEF Linked, Relinked
    <2>2. QED
      BY <2>1
  <1>2. CASE ~Linked(s)
    BY <1>2 DEF Relinked
  <1>3. QED
    BY <1>1, <1>2

\* An object is given a button that no other object has.
LEMMA ButtonGivenInv ==
    ASSUME ButtonInv, NEW s \in Object, NEW id \in Button, a_sys_button_init(s, id)
    PROVE  ButtonInv'
  <1> USE NullDistinct DEF ButtonInv, a_sys_button_init, hardwareVars, handlerVars
  <1>1. \A r \in Object : r # s => button'[r] = button[r] /\ button[r] # id
    BY DEF ButtonTypeOK, Assigned
  <1>2. ButtonTypeOK'
    BY <1>1, RelinkedType DEF ButtonTypeOK, Assigned
  <1>3. Assigned'
    BY <1>1 DEF Assigned
  <1>4. ReadOnItsWay'
    BY <1>1 DEF ReadOnItsWay
  <1>5. LastStateOnItsWay'
    BY <1>1 DEF LastStateOnItsWay
  <1>6. QED
    BY <1>2, <1>3, <1>4, <1>5

\* A change of an object's button is reported, since the table has the object.
LEMMA ButtonChangeInv ==
    ASSUME ButtonInv, NEW id \in Button, press_or_release(id)
    PROVE  ButtonInv'
  <1> USE NullDistinct DEF ButtonInv, press_or_release, initVars, handlerVars
  <1>1. ButtonTypeOK' /\ Assigned'
    BY DEF ButtonTypeOK, Assigned
  <1>2. \A s \in Object : button[s] \in Button =>
           \/ button[s] \in changed'
           \/ pressed'[button[s]] = pressed[button[s]] /\ (button[s] \in changed => button[s] \in changed')
    BY DEF ButtonTypeOK, Assigned
  <1>3. ReadOnItsWay'
    BY <1>2 DEF ReadOnItsWay, Assigned
  <1>4. LastStateOnItsWay'
    BY <1>2 DEF LastStateOnItsWay, Assigned
  <1>5. QED
    BY <1>1, <1>3, <1>4

\* A report on its way becomes a flag.
LEMMA ButtonReportInv ==
    ASSUME ButtonInv, NEW id \in Button, button_callback(id)
    PROVE  ButtonInv'
  <1> USE NullDistinct DEF ButtonInv, button_callback, initVars, handlerVars
  <1>1. ButtonTypeOK' /\ Assigned'
    BY DEF ButtonTypeOK, Assigned
  <1>2. \A s \in Object : button[s] \in Button =>
           /\ button[s] \in changed => button[s] \in changed' \/ s \in button_owed'
           /\ s \in button_owed => s \in button_owed'
    BY DEF ButtonTypeOK
  <1>3. ReadOnItsWay'
    BY <1>2 DEF ReadOnItsWay, Assigned
  <1>4. LastStateOnItsWay'
    BY <1>2 DEF LastStateOnItsWay, Assigned
  <1>5. QED
    BY <1>1, <1>3, <1>4

LEMMA ButtonHandlerInv ==
    ASSUME ButtonInv, NEW s \in Object,
           dispatch(s) \/ read_button(s) \/ button_recv_callback(s)
    PROVE  ButtonInv'
  <1> USE NullDistinct DEF ButtonInv, hardwareVars, initVars, handlerVars
  <1>1. ButtonTypeOK' /\ Assigned'
    BY DEF ButtonTypeOK, Assigned, dispatch, read_button, button_recv_callback
  <1>2. ReadOnItsWay'
    BY DEF ButtonTypeOK, ReadOnItsWay, dispatch, read_button, button_recv_callback
  <1>3. LastStateOnItsWay'
    <2>1. CASE dispatch(s)
      BY <2>1 DEF ReadOnItsWay, LastStateOnItsWay, dispatch
    <2>2. CASE read_button(s)
      BY <2>2 DEF LastStateOnItsWay, read_button
    <2>3. CASE button_recv_callback(s)
      BY <2>3 DEF ButtonTypeOK, ReadOnItsWay, LastStateOnItsWay, button_recv_callback
    <2>4. QED
      BY <2>1, <2>2, <2>3
  <1>4. QED
    BY <1>1, <1>2, <1>3

\* A step of the buttons, or none, keeps the four parts.
LEMMA ButtonStepInv == ButtonInv /\ [ButtonNext]_buttonVars => ButtonInv'
  <1> SUFFICES ASSUME ButtonInv, [ButtonNext]_buttonVars PROVE ButtonInv'
    OBVIOUS
  <1>1. CASE ButtonNext
    BY <1>1, ButtonGivenInv, ButtonChangeInv, ButtonReportInv, ButtonHandlerInv DEF ButtonNext
  <1>2. CASE UNCHANGED buttonVars
    BY <1>2 DEF buttonVars, hardwareVars, initVars, handlerVars,
                ButtonInv, ButtonTypeOK, Assigned, ReadOnItsWay, LastStateOnItsWay
  <1>3. QED
    BY <1>1, <1>2

\* Every step keeps the four parts.
THEOREM ButtonInvHolds == ButtonSpec => []ButtonInv
  BY ButtonStepInv, ButtonInitInv, PTL DEF ButtonSpec

\* sys_button.c: the table knows the object of every object's button.
THEOREM ButtonTypesHold == ButtonSpec => []ButtonTypeOK
  <1>1. ButtonInv => ButtonTypeOK
    BY DEF ButtonInv
  <1>2. QED
    BY <1>1, ButtonInvHolds, PTL

\* sys_button.c: the application's picture of a button is out of date only while
\* a report of the change, its flag or its handler is on the way.
THEOREM LastStateOnItsWayHolds == ButtonSpec => []LastStateOnItsWay
  <1>1. ButtonInv => LastStateOnItsWay
    BY DEF ButtonInv
  <1>2. QED
    BY <1>1, ButtonInvHolds, PTL

(***************************************************************************)
(* Each byte that the UART's driver accepted is in one place, in the order *)
(* of arrival.  That needs whose turn it is (Turn): the worker's job is on *)
(* its way or waits for a byte, or its byte is owed to the handler, or the *)
(* handler runs, and never two of these.                                   *)
(***************************************************************************)

Sequences ==
    delivered \in Seq(Nat) /\ buf \in Seq(Nat) /\ rx_buffer \in Seq(Nat) /\ last_data \in Nat

Turn ==
    \/ jobs = 1 /\ ~receiving /\ ~uart_owed /\ buf = <<>>
    \/ jobs = 0 /\ receiving /\ ~uart_owed /\ buf = <<>>
    \/ jobs = 0 /\ ~receiving /\ uart_owed /\ buf = <<>>
    \/ jobs = 0 /\ ~receiving /\ ~uart_owed /\ buf # <<>>

UartInv == UartTypeOK /\ Sequences /\ Turn /\ BytesInOrder

\* The types, numbers and flags apart: the provers take them one at a time.
Numbers ==
    /\ arrived \in 0 .. MaxBytes /\ lost \subseteq 1 .. arrived
    /\ Len(rx_buffer) <= RingSize
    /\ last_data \in 0 .. arrived
    /\ jobs \in 0 .. 1

Flags == receiving \in BOOLEAN /\ uart_owed \in BOOLEAN

LEMMA TypesSplit == UartTypeOK <=> Numbers /\ Flags
BY DEF UartTypeOK, Numbers, Flags

\* Four sequences in a row, regrouped.
LEMMA Regroup ==
    ASSUME NEW d \in Seq(Nat), NEW h \in Seq(Nat), NEW o \in Seq(Nat), NEW u \in Seq(Nat)
    PROVE  (d \o (h \o o)) \o u = (d \o h) \o (o \o u)
<1>1. d \o h \in Seq(Nat)
  BY ConcatProperties
<1>2. d \o (h \o o) = (d \o h) \o o
  BY ConcatAssociative, SMTT(30)
<1>3. \A v \in Seq(Nat) : (v \o o) \o u = v \o (o \o u)
  BY ConcatAssociative
<1>4. ((d \o h) \o o) \o u = (d \o h) \o (o \o u)
  BY <1>1, <1>3
<1> QED
  BY <1>2, <1>4

\* A sequence is its first element and the rest.
LEMMA HeadAndTail ==
    ASSUME NEW r \in Seq(Nat), r # <<>>
    PROVE  /\ Head(r) \in Nat /\ Tail(r) \in Seq(Nat) /\ <<Head(r)>> \in Seq(Nat)
           /\ Len(Tail(r)) = Len(r) - 1 /\ Len(r) \in Nat \ {0} /\ Head(r) = r[1]
           /\ <<Head(r)>> \o Tail(r) = r
<1>1. Head(r) \in Nat /\ Tail(r) \in Seq(Nat) /\ Len(Tail(r)) = Len(r) - 1
  BY HeadTailProperties
<1>2. Len(r) \in Nat \ {0}
  BY EmptySeq
<1>3. Head(r) = r[1]
  OBVIOUS
<1>4. <<Head(r)>> \in Seq(Nat)
  BY <1>1
<1>5. SubSeq(r, 1, Len(r)) = <<r[1]>> \o SubSeq(r, 2, Len(r))
  <2>1. 1 \in 1 .. Len(r) /\ Len(r) \in 1 .. Len(r) /\ 1 + 1 = 2
    BY <1>2
  <2> QED
    BY <2>1, SubSeqRecursiveFirst
<1>6. SubSeq(r, 1, Len(r)) = r /\ Tail(r) = SubSeq(r, 2, Len(r))
  BY SubSeqFull, TailIsSubSeq
<1> QED
  BY <1>1, <1>2, <1>3, <1>4, <1>5, <1>6

\* Three sequences in a row.
Row(d, h, r) == d \o h \o r

\* Moving the first byte of a sequence to the end of the one before it.
LEMMA HeadMoves ==
    ASSUME NEW d \in Seq(Nat), NEW h \in Seq(Nat), NEW r \in Seq(Nat), r # <<>>
    PROVE  /\ Append(h, Head(r)) \in Seq(Nat)
           /\ Append(h, Head(r)) = h \o <<Head(r)>>
           /\ Row(d, Append(h, Head(r)), Tail(r)) = Row(d, h, r)
<1>1. Head(r) \in Nat /\ Tail(r) \in Seq(Nat) /\ <<Head(r)>> \in Seq(Nat)
      /\ <<Head(r)>> \o Tail(r) = r
  BY HeadAndTail
<1>2. Append(h, Head(r)) \in Seq(Nat)
  BY <1>1, AppendProperties
<1>3. Append(h, Head(r)) = h \o <<Head(r)>>
  BY <1>1, AppendIsConcat
<1>4. (d \o (h \o <<Head(r)>>)) \o Tail(r) = (d \o h) \o (<<Head(r)>> \o Tail(r))
  BY <1>1, Regroup, SMTT(30)
<1> QED
  BY <1>1, <1>2, <1>3, <1>4 DEF Row

\* What is held is a sequence of bytes.
LEMMA HeldSequence == Sequences => Held \in Seq(Nat) /\ Bytes \in Seq(Nat)
BY ConcatProperties DEF Sequences, Held, Bytes

\* A step that keeps all bytes where they are in the order, keeps the order.
LEMMA SameBytes ==
    ASSUME BytesInOrder, Bytes' = Bytes, UNCHANGED <<arrived, lost>>
    PROVE  BytesInOrder'
BY DEF BytesInOrder

\* No byte is there before the first arrives.
LEMMA UartInitInv == UartInit => UartInv
<1> SUFFICES ASSUME UartInit PROVE UartInv
  OBVIOUS
<1> USE UartConstants
<1>1. /\ arrived = 0 /\ lost = {} /\ rx_buffer = <<>> /\ last_data = 0
      /\ jobs = 1 /\ receiving = FALSE /\ uart_owed = FALSE /\ buf = <<>> /\ delivered = <<>>
  BY DEF UartInit
<1>2. Sequences
  BY <1>1, EmptySeq DEF Sequences
<1>3. Turn
  BY <1>1 DEF Turn
<1>4. UartTypeOK
  <2>1. Len(rx_buffer) <= RingSize
    <3>1. Len(rx_buffer) = 0
      BY <1>1, EmptySeq
    <3> QED
      BY <3>1
  <2>2. Numbers
    <3>1. arrived = 0 /\ lost = {} /\ last_data = 0 /\ jobs = 1
      BY <1>1
    <3> QED
      BY <2>1, <3>1 DEF Numbers
  <2>3. Flags
    BY <1>1 DEF Flags
  <2> QED
    BY <2>2, <2>3, TypesSplit
<1>5. BytesInOrder
  <2>1. Held = <<>>
    BY <1>1 DEF Held
  <2>2. Bytes \in Seq(Nat) /\ Len(Bytes) = 0
    BY <1>1, <2>1, EmptySeq, ConcatProperties DEF Bytes
  <2>3. DOMAIN Bytes = {}
    BY <2>2
  <2> QED
    BY <1>1, <2>3 DEF BytesInOrder
<1> QED
  BY <1>2, <1>3, <1>4, <1>5 DEF UartInv

\* A byte arrives behind all others, or is lost.
LEMMA ArrivesInv == ASSUME UartInv, byte_arrives PROVE UartInv'
<1> USE UartConstants
<1>1. /\ arrived < MaxBytes /\ arrived' = arrived + 1 /\ arrived \in Nat
      /\ UNCHANGED <<last_data, threadVars, uart_owed, buf, delivered>>
  BY DEF byte_arrives, UartInv, UartTypeOK
<1>2. Turn'
  BY <1>1 DEF UartInv, Turn, threadVars
<1>3. Held' = Held
  BY <1>1 DEF Held
<1>4. Held \in Seq(Nat) /\ Bytes \in Seq(Nat) /\ Sequences
  BY HeldSequence DEF UartInv
<1>5. CASE /\ Len(rx_buffer) < RingSize
           /\ rx_buffer' = Append(rx_buffer, arrived') /\ UNCHANGED lost
  <2>1. rx_buffer' = rx_buffer \o <<arrived'>> /\ rx_buffer' \in Seq(Nat)
        /\ Len(rx_buffer') = Len(rx_buffer) + 1 /\ <<arrived'>> \in Seq(Nat)
    <3>1. arrived' \in Nat /\ rx_buffer \in Seq(Nat)
      BY <1>1, <1>4 DEF Sequences
    <3>2. /\ Append(rx_buffer, arrived') \in Seq(Nat)
          /\ Len(Append(rx_buffer, arrived')) = Len(rx_buffer) + 1
      BY <3>1, AppendProperties
    <3>3. Append(rx_buffer, arrived') = rx_buffer \o <<arrived'>>
      BY <3>1, AppendIsConcat
    <3>4. <<arrived'>> \in Seq(Nat)
      BY <3>1
    <3> QED
      BY <1>5, <3>2, <3>3, <3>4
  <2>2. Sequences'
    BY <1>1, <1>4, <2>1 DEF Sequences
  <2>3. UartTypeOK'
    <3>1. Numbers /\ Flags /\ Len(rx_buffer) \in Nat
      BY <1>4, TypesSplit DEF UartInv, Sequences
    <3>2. Numbers'
      BY <1>1, <1>5, <2>1, <3>1 DEF Numbers, threadVars
    <3>3. Flags'
      BY <1>1, <3>1 DEF Flags, threadVars
    <3> QED
      BY <3>2, <3>3 DEF UartTypeOK, Numbers, Flags
  <2>4. Bytes' = Bytes \o <<arrived'>>
    <3>1. delivered \o Held \in Seq(Nat)
      BY <1>4, ConcatProperties DEF Sequences
    <3>2. (delivered \o Held) \o (rx_buffer \o <<arrived'>>)
             = ((delivered \o Held) \o rx_buffer) \o <<arrived'>>
      BY <3>1, <2>1, <1>4, ConcatAssociative DEF Sequences
    <3> QED
      BY <3>2, <2>1, <1>1, <1>3 DEF Bytes
  <2> DEFINE n == Len(Bytes)
  <2>5. /\ n \in Nat /\ DOMAIN Bytes = 1 .. n /\ DOMAIN Bytes' = 1 .. n + 1
        /\ Bytes'[n + 1] = arrived + 1
        /\ \A i \in 1 .. n : Bytes'[i] = Bytes[i]
    <3>1. <<arrived'>>[1] = arrived' /\ Len(<<arrived'>>) = 1
      OBVIOUS
    <3>2. Bytes' \in Seq(Nat) /\ Len(Bytes') = n + 1
          /\ \A i \in 1 .. n + 1 : Bytes'[i] = IF i <= n THEN Bytes[i] ELSE <<arrived'>>[i - n]
      BY <2>1, <2>4, <3>1, <1>4, ConcatProperties
    <3>3. n \in Nat /\ DOMAIN Bytes = 1 .. n
      BY <1>4, LenProperties
    <3> HIDE DEF n
    <3>4. DOMAIN Bytes' = 1 .. n + 1
      BY <3>2, LenProperties
    <3>5. (n + 1) - n = 1 /\ n + 1 \in 1 .. n + 1 /\ ~(n + 1 <= n)
      BY <3>3
    <3>6. Bytes'[n + 1] = arrived'
      BY <3>1, <3>2, <3>5
    <3>7. \A i \in 1 .. n : i \in 1 .. n + 1 /\ i <= n
      BY <3>3
    <3>8. \A i \in 1 .. n : Bytes'[i] = Bytes[i]
      BY <3>2, <3>7
    <3> QED
      BY <1>1, <3>3, <3>4, <3>6, <3>8
  <2> HIDE DEF n
  <2>6. \A i \in 1 .. n : Bytes[i] \in 1 .. arrived
    BY <2>5 DEF UartInv, BytesInOrder
  <2>7. {Bytes'[i] : i \in DOMAIN Bytes'} = {Bytes[i] : i \in DOMAIN Bytes} \cup {arrived + 1}
    BY <2>5
  <2>8. (1 .. arrived') \ lost = ((1 .. arrived) \ lost) \cup {arrived + 1}
    BY <1>1 DEF UartInv, UartTypeOK
  <2>9. \A i, j \in DOMAIN Bytes' : i < j => Bytes'[i] < Bytes'[j]
    <3> SUFFICES ASSUME NEW i \in 1 .. n + 1, NEW j \in 1 .. n + 1, i < j
                 PROVE  Bytes'[i] < Bytes'[j]
      BY <2>5
    <3>1. CASE j = n + 1
      BY <1>1, <2>5, <2>6, <3>1
    <3>2. CASE j # n + 1
      BY <2>5, <3>2 DEF UartInv, BytesInOrder
    <3> QED
      BY <3>1, <3>2
  <2>10. BytesInOrder'
    BY <1>5, <2>7, <2>8, <2>9 DEF UartInv, BytesInOrder
  <2> QED
    BY <1>2, <2>2, <2>3, <2>10 DEF UartInv
<1>6. CASE lost' = lost \cup {arrived'} /\ UNCHANGED rx_buffer
  <2>1. Sequences'
    BY <1>1, <1>4, <1>6 DEF Sequences
  <2>2. UartTypeOK'
    <3>1. Numbers /\ Flags
      BY TypesSplit DEF UartInv
    <3>2. Numbers'
      BY <1>1, <1>6, <3>1 DEF Numbers, threadVars
    <3>3. Flags'
      BY <1>1, <3>1 DEF Flags, threadVars
    <3> QED
      BY <3>2, <3>3 DEF UartTypeOK, Numbers, Flags
  <2>3. Bytes' = Bytes
    BY <1>1, <1>3, <1>6 DEF Bytes
  <2>4. (1 .. arrived') \ lost' = (1 .. arrived) \ lost
    BY <1>1, <1>6 DEF UartInv, UartTypeOK
  <2>5. BytesInOrder'
    BY <2>3, <2>4 DEF UartInv, BytesInOrder
  <2> QED
    BY <1>2, <2>1, <2>2, <2>5 DEF UartInv
<1> QED
  BY <1>5, <1>6 DEF byte_arrives

\* The worker begins to wait, and takes the byte that it waited for.
LEMMA WorkerInv == ASSUME UartInv, Worker PROVE UartInv'
<1> USE UartConstants
<1>1. CASE begin_job
  <2>1. /\ jobs > 0 /\ ~receiving /\ jobs' = jobs - 1 /\ receiving' = TRUE
        /\ UNCHANGED <<arrived, lost, rx_buffer, last_data, uart_owed, buf, delivered>>
    BY <1>1 DEF begin_job
  <2>2. Turn' /\ UartTypeOK' /\ Sequences'
    BY <2>1 DEF UartInv, Turn, UartTypeOK, Sequences
  <2>3. Bytes' = Bytes
    BY <2>1 DEF Bytes, Held
  <2> QED
    BY <2>1, <2>2, <2>3, SameBytes DEF UartInv
<1>2. CASE recv_worker
  <2>1. /\ receiving /\ rx_buffer # <<>> /\ last_data' = Head(rx_buffer)
        /\ rx_buffer' = Tail(rx_buffer) /\ receiving' = FALSE /\ uart_owed' = TRUE
        /\ UNCHANGED <<arrived, lost, jobs, buf, delivered>>
    BY <1>2 DEF recv_worker
  <2>2. Sequences /\ Turn /\ BytesInOrder /\ UartTypeOK
    BY DEF UartInv
  <2>3. Held = <<>> /\ Held' = <<Head(rx_buffer)>> /\ Turn'
    BY <2>1, <2>2 DEF Held, Turn
  <2>4. /\ <<>> \in Seq(Nat) /\ <<>> \o <<Head(rx_buffer)>> = <<Head(rx_buffer)>>
        /\ Append(<<>>, Head(rx_buffer)) = <<Head(rx_buffer)>>
        /\ Tail(rx_buffer) \in Seq(Nat)
        /\ Row(delivered, Append(<<>>, Head(rx_buffer)), Tail(rx_buffer)) = Row(delivered, <<>>, rx_buffer)
    <3>1. <<>> \in Seq(Nat)
      BY EmptySeq
    <3>2. /\ <<Head(rx_buffer)>> \in Seq(Nat)
          /\ Append(<<>>, Head(rx_buffer)) = <<>> \o <<Head(rx_buffer)>>
          /\ Tail(rx_buffer) \in Seq(Nat)
          /\ Row(delivered, Append(<<>>, Head(rx_buffer)), Tail(rx_buffer)) = Row(delivered, <<>>, rx_buffer)
      BY <2>1, <2>2, <3>1, HeadAndTail, HeadMoves DEF Sequences
    <3> QED
      BY <3>1, <3>2, ConcatEmptySeq
  <2>5. Bytes' = Bytes
    BY <2>1, <2>3, <2>4 DEF Bytes, Row
  <2>6. Len(rx_buffer') = Len(rx_buffer) - 1 /\ Head(rx_buffer) \in Nat
    BY <2>1, <2>2, HeadTailProperties DEF Sequences
  <2>7. Sequences'
    BY <2>1, <2>2, <2>4, <2>6 DEF Sequences
  <2>8. last_data' \in 1 .. arrived
    <3>1. Len(rx_buffer) \in Nat \ {0} /\ rx_buffer[1] = Head(rx_buffer)
      BY <2>1, <2>2, HeadAndTail DEF Sequences
    <3>2. Len(delivered \o Held) \in Nat /\ delivered \o Held \in Seq(Nat)
      BY <2>2, HeldSequence, ConcatProperties DEF Sequences
    <3>3. /\ Len(delivered \o Held) + 1 \in DOMAIN Bytes
          /\ Bytes[Len(delivered \o Held) + 1] = Head(rx_buffer)
      BY <2>2, <3>1, <3>2, ConcatProperties DEF Sequences, Bytes
    <3> QED
      BY <2>1, <2>2, <3>3 DEF BytesInOrder
  <2>9. UartTypeOK'
    <3>1. Numbers /\ Flags /\ Len(rx_buffer) \in Nat
      BY <2>2, TypesSplit DEF Sequences
    <3>2. Numbers'
      BY <2>1, <2>6, <2>8, <3>1 DEF Numbers
    <3>3. Flags'
      BY <2>1, <3>1 DEF Flags
    <3> QED
      BY <3>2, <3>3 DEF UartTypeOK, Numbers, Flags
  <2> QED
    BY <2>1, <2>2, <2>3, <2>5, <2>7, <2>9, SameBytes DEF UartInv
<1> QED
  BY <1>1, <1>2 DEF Worker

\* The handler takes the worker's byte and what else has arrived, and hands it on.
LEMMA CallbackInv == ASSUME UartInv, Callback PROVE UartInv'
<1> USE UartConstants
<1>i. Sequences /\ Turn /\ BytesInOrder /\ UartTypeOK
  BY DEF UartInv
<1>1. CASE uart_recv_callback
  <2>1. /\ uart_owed /\ buf = <<>> /\ uart_owed' = FALSE /\ buf' = <<last_data>>
        /\ UNCHANGED <<arrived, lost, rx_buffer, last_data, threadVars, delivered>>
    BY <1>1 DEF uart_recv_callback
  <2>2. Turn' /\ UartTypeOK' /\ Sequences'
    <3>1. Turn'
      <4>1. buf' # <<>>
        BY <2>1
      <4> QED
        BY <1>i, <2>1, <4>1 DEF Turn, threadVars
    <3>2. UartTypeOK'
      BY <1>i, <2>1 DEF UartTypeOK, threadVars
    <3>3. <<last_data>> \in Seq(Nat)
      BY <1>i DEF Sequences
    <3>4. Sequences'
      BY <1>i, <2>1, <3>3 DEF Sequences
    <3> QED
      BY <3>1, <3>2, <3>4
  <2>3. Bytes' = Bytes
    BY <2>1 DEF Bytes, Held
  <2> QED
    BY <1>i, <2>1, <2>2, <2>3, SameBytes DEF UartInv
<1>2. CASE drain
  <2>1. /\ buf # <<>> /\ rx_buffer # <<>> /\ buf' = Append(buf, Head(rx_buffer))
        /\ rx_buffer' = Tail(rx_buffer)
        /\ UNCHANGED <<arrived, lost, last_data, threadVars, uart_owed, delivered>>
    BY <1>2 DEF drain
  <2>2. /\ Append(buf, Head(rx_buffer)) \in Seq(Nat) /\ Tail(rx_buffer) \in Seq(Nat)
        /\ Row(delivered, Append(buf, Head(rx_buffer)), Tail(rx_buffer)) = Row(delivered, buf, rx_buffer)
    <3>1. /\ delivered \in Seq(Nat) /\ buf \in Seq(Nat) /\ rx_buffer \in Seq(Nat)
          /\ rx_buffer # <<>>
      BY <1>i, <2>1 DEF Sequences
    <3>2. Tail(rx_buffer) \in Seq(Nat)
      BY <3>1, HeadAndTail
    <3> QED
      BY <3>1, <3>2, HeadMoves
  <2>3. Len(rx_buffer') = Len(rx_buffer) - 1 /\ Head(rx_buffer) \in Nat
    BY <1>i, <2>1, HeadTailProperties DEF Sequences
  <2>4. buf' # <<>>
    BY <1>i, <2>1, <2>3, AppendProperties DEF Sequences
  <2>5. Turn' /\ Held = buf /\ Held' = buf'
    BY <1>i, <2>1, <2>4 DEF Turn, Held, threadVars
  <2>6. Bytes' = Bytes
    BY <2>1, <2>2, <2>5 DEF Bytes, Row
  <2>7. Sequences'
    BY <1>i, <2>1, <2>2 DEF Sequences
  <2>8. UartTypeOK'
    BY <1>i, <2>1, <2>3 DEF UartTypeOK, Sequences, threadVars
  <2> QED
    BY <1>i, <2>1, <2>5, <2>6, <2>7, <2>8, SameBytes DEF UartInv
<1>3. CASE hand_over
  <2>1. /\ buf # <<>> /\ rx_buffer = <<>> /\ delivered' = delivered \o buf /\ buf' = <<>>
        /\ jobs' = jobs + 1
        /\ UNCHANGED <<arrived, lost, rx_buffer, last_data, receiving, uart_owed>>
    BY <1>3 DEF hand_over
  <2>2. Turn' /\ UartTypeOK' /\ Held = buf /\ Held' = <<>>
    BY <1>i, <2>1 DEF Turn, UartTypeOK, Held
  <2>3. delivered' \in Seq(Nat) /\ <<>> \in Seq(Nat)
    BY <1>i, <2>1, ConcatProperties, EmptySeq DEF Sequences
  <2>4. delivered' \o <<>> = delivered'
    BY <2>3, ConcatEmptySeq
  <2>5. Bytes' = Bytes
    BY <2>1, <2>2, <2>4 DEF Bytes
  <2>6. Sequences'
    BY <1>i, <2>1, <2>3 DEF Sequences
  <2> QED
    BY <1>i, <2>1, <2>2, <2>5, <2>6, SameBytes DEF UartInv
<1> QED
  BY <1>1, <1>2, <1>3 DEF Callback

\* A step of the UART, or none, keeps the four parts.
LEMMA UartStepInv == UartInv /\ [UartNext]_uartVars => UartInv'
<1>1. UartInv /\ UNCHANGED uartVars => UartInv'
  <2> SUFFICES ASSUME UartInv, UNCHANGED uartVars PROVE UartInv'
    OBVIOUS
  <2>1. UNCHANGED <<arrived, lost, rx_buffer, last_data, jobs, receiving, uart_owed, buf,
                    delivered>>
    BY DEF uartVars, threadVars
  <2>2. UartTypeOK'
    BY <2>1 DEF UartInv, UartTypeOK
  <2>3. Sequences' /\ Turn'
    BY <2>1 DEF UartInv, Sequences, Turn
  <2>4. Bytes' = Bytes
    BY <2>1 DEF Bytes, Held
  <2> QED
    BY <2>1, <2>2, <2>3, <2>4, SameBytes DEF UartInv
<1> QED
  BY <1>1, ArrivesInv, WorkerInv, CallbackInv DEF UartNext

\* The inductive invariant holds in every state.
THEOREM UartInvHolds == UartSpec => []UartInv
BY UartStepInv, UartInitInv, PTL DEF UartSpec

\* The ring buffer holds what it has room for, and one job at most is sent.
THEOREM UartTypesHold == UartSpec => []UartTypeOK
BY UartInvHolds, PTL DEF UartInv

\* The bytes that the driver accepted are delivered, held or waiting, each once and
\* in the order of arrival (sys_uart.c:50), for any ring buffer and any number.
THEOREM BytesInOrderHolds == UartSpec => []BytesInOrder
BY UartInvHolds, PTL DEF UartInv
=============================================================================
