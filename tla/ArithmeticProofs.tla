-------------------------- MODULE ArithmeticProofs --------------------------
(***************************************************************************)
(* Proofs about the operators that compute with machine numbers: when a    *)
(* timer fires, and what is left of a float on its way through a message.  *)
(***************************************************************************)
EXTENDS Timer, PhysicalValue, TLAPS

-----------------------------------------------------------------------------
(* Timers *)

(* What start() leaves behind.                                             *)
LEMMA Started ==
    ASSUME NEW t \in Timers, NEW d \in Nat, d # 0, NEW s \in Nat
    PROVE  Start(t, d, s) = [startTime |-> s, duration |-> d, startCount |-> 1]
BY DEF Start, Restart

(* A stopped timer does not fire, whatever the clock shows.                *)
THEOREM StoppedSilent ==
    ASSUME NEW t \in Timers, NEW now \in Clock
    PROVE  Elapsed(Stop(t), now) = -1
<1>1. Stop(t).startCount = 0
  BY DEF Stop, Timers
<1>. QED
  BY <1>1 DEF Elapsed

(* Started, and with a clock that goes forward, a timer fires when its     *)
(* duration has passed and not before.                                     *)
THEOREM FiresWhenDue ==
    ASSUME Span \in Nat, NEW t \in Timers, NEW d \in Clock, d # 0,
           NEW s \in Clock, NEW now \in Clock, now >= s
    PROVE  Elapsed(Start(t, d, s), now) > 0 <=> now - s > d
<1>1. d \in Nat /\ s \in Nat /\ now \in Nat
  BY DEF Clock
<1>2. Start(t, d, s) = [startTime |-> s, duration |-> d, startCount |-> 1]
  BY <1>1, Started
<1>3. Diff(now, s) = now - s
  BY <1>1 DEF Diff
<1>. QED
  BY <1>1, <1>2, <1>3 DEF Elapsed

(* The timers run on the system clock: when it is set back, a running      *)
(* timer fires at once, unless its duration is close to the whole range.   *)
THEOREM FiresWhenSetBack ==
    ASSUME Span \in Nat, NEW t \in Timers, NEW d \in Clock, d # 0,
           NEW s \in Clock, NEW now \in Clock, now < s, d < Span - (s - now)
    PROVE  Elapsed(Start(t, d, s), now) > 0
<1>1. d \in Nat /\ s \in Nat /\ now \in Nat
  BY DEF Clock
<1>2. Start(t, d, s) = [startTime |-> s, duration |-> d, startCount |-> 1]
  BY <1>1, Started
<1>3. Diff(now, s) = now - s + Span
  BY <1>1 DEF Diff
<1>4. Diff(now, s) > d
  BY <1>1, <1>3
<1>. QED
  BY <1>2, <1>4 DEF Elapsed

-----------------------------------------------------------------------------
(* Physical values *)

(* The conversion ends up in the range of int16_t, differs from its        *)
(* argument by a multiple of 2^16, and by none if the argument fits.       *)
LEMMA Int16Type == ASSUME NEW x \in Int PROVE Int16(x) \in Int /\ Fits(Int16(x))
  BY SMT DEF Int16, Fits

LEMMA Int16Rest == ASSUME NEW x \in Int PROVE \E k \in Int : x = Int16(x) + 65536 * k
<1>1. PICK q \in Int : x + 32768 = 65536 * q + ((x + 32768) % 65536)
  BY SMT
<1>2. x = Int16(x) + 65536 * q
  BY SMT, <1>1 DEF Int16
<1>. QED
  BY <1>2

LEMMA Int16Same == ASSUME NEW x \in Int, Fits(x) PROVE Int16(x) = x
  BY SMT DEF Int16, Fits

(* 10^e - 1 is odd, so that it does not help to make a multiple of 2^16.   *)
LEMMA NoMultiple ==
    ASSUME NEW a \in Int, NEW k \in Int, Fits(a),
           9 * a = 65536 * k \/ 99 * a = 65536 * k \/ 999 * a = 65536 * k
    PROVE  a = 0
<1>1. CASE 9 * a = 65536 * k
  BY SMT, <1>1 DEF Fits
<1>2. CASE 99 * a = 65536 * k
  BY SMT, <1>2 DEF Fits
<1>3. CASE 999 * a = 65536 * k
  BY SMT, <1>3 DEF Fits
<1>. QED
  BY <1>1, <1>2, <1>3

(* A whole number below 2^15 arrives as it was sent.                       *)
THEOREM SmallValuesKept ==
    ASSUME NEW v, Whole(v), v < 32768
    PROVE  ToFloat(FromFloat(v)) = v
<1>1. v \in Int
  BY DEF Whole
<1>2. FromFloat(v) = [value |-> v, exponent |-> 0]
  BY SMT, <1>1 DEF FromFloat
<1>. QED
  BY SMT, <1>1, <1>2 DEF ToFloat, Pow10

(* No larger one does, whatever the exponent it is sent with: the energy   *)
(* capacity that the vehicle announces in ChargeParameterDiscoveryReq is   *)
(* wrong from 32768 Wh on.                                                 *)
THEOREM LargeValuesLost ==
    ASSUME NEW v, Whole(v), v >= 32768
    PROVE  ToFloat(FromFloat(v)) # v
<1>1. v \in Int
  BY DEF Whole
<1>2. SUFFICES ASSUME ToFloat(FromFloat(v)) = v PROVE FALSE
  OBVIOUS
<1>3. PICK k \in Int : v = Int16(v) + 65536 * k
  BY <1>1, Int16Rest
<1>4. Int16(v) \in Int /\ Fits(Int16(v))
  BY <1>1, Int16Type
<1>5. v = Int16(v) * Pow10(Excess(v))
  <2>1. FromFloat(v) = [value |-> Int16(v), exponent |-> Excess(v)]
    BY SMT, <1>1 DEF FromFloat
  <2>. QED
    BY <1>2, <2>1 DEF ToFloat
<1>6. Pow10(Excess(v)) = 1 \/ Pow10(Excess(v)) = 10 \/ Pow10(Excess(v)) = 100
        \/ Pow10(Excess(v)) = 1000
  BY DEF Pow10
<1>7. CASE Pow10(Excess(v)) = 1
  BY SMT, <1>1, <1>4, <1>5, <1>7 DEF Fits
<1>8. CASE Pow10(Excess(v)) \in {10, 100, 1000}
  <2> DEFINE a == Int16(v)
  <2> HIDE DEF a
  <2>1. a \in Int /\ Fits(a) /\ v = a + 65536 * k
    BY <1>3, <1>4 DEF a
  <2>2. v = a * 10 \/ v = a * 100 \/ v = a * 1000
    BY <1>5, <1>8 DEF a
  <2>3. 9 * a = 65536 * k \/ 99 * a = 65536 * k \/ 999 * a = 65536 * k
    BY SMT, <2>1, <2>2, <1>1
  <2>4. a = 0
    BY <2>1, <2>3, NoMultiple
  <2>. QED
    BY SMT, <2>2, <2>4, <1>1
<1>. QED
  BY <1>6, <1>7, <1>8

(* From 2^15 up to 2^16 it arrives as a negative number.                   *)
THEOREM LargeValuesNegative ==
    ASSUME NEW v \in Int, 32768 <= v, v <= 65535
    PROVE  ToFloat(FromFloat(v)) = v - 65536
<1>1. Excess(v) = 0
  BY SMT DEF Excess
<1>2. FromFloat(v) = [value |-> Int16(v), exponent |-> 0]
  BY SMT, <1>1 DEF FromFloat
<1>3. Int16(v) = v - 65536
  BY SMT DEF Int16
<1>. QED
  BY SMT, <1>2, <1>3 DEF ToFloat, Pow10

(* The voltage that the vehicle waits for in the PreCharge loop arrives    *)
(* exactly up to 3276.7 V.                                                 *)
THEOREM VoltagesKept ==
    ASSUME NEW t \in Int, 0 <= t, t <= 32767
    PROVE  ToTenths(FromTenths(t)) = t
<1>1. Fits(t)
  BY SMT DEF Fits
<1>2. Int16(t) = t
  BY <1>1, Int16Same
<1>. QED
  BY SMT, <1>2 DEF ToTenths, FromTenths

=============================================================================
