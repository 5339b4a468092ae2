----------------------------- MODULE PhysicalValue -----------------------------
(***************************************************************************)
(* stExiPysicalValue: a float as the messages carry it, a 16 bit value and *)
(* a decimal exponent.  For whole numbers a float holds exactly, and for   *)
(* the exponents the state machines ask for: 0, and -1 for the voltage of  *)
(* PreChargeRes, here in tenths of a volt.                                 *)
(***************************************************************************)
EXTENDS Integers

(* The conversion of an int to int16_t, and the numbers it leaves alone. *)
Int16(x) == ((x + 32768) % 65536) - 32768
Fits(x)  == -32768 <= x /\ x <= 32767

(* The whole numbers a float holds exactly: from 0 to 2^24. *)
Whole(v) == v \in Int /\ 0 <= v /\ v <= 256 * 65536

Pow10(n) == IF n = 0 THEN 1 ELSE IF n = 1 THEN 10 ELSE IF n = 2 THEN 100 ELSE 1000

(* ceil(log10(v)) - 5 *)
Excess(v) ==
    IF v <= 10 * 10000 THEN 0
    ELSE IF v <= 100 * 10000 THEN 1 ELSE IF v <= 1000 * 10000 THEN 2 ELSE 3

(* fromFloat(v) with exponent 0: what does not fit gets an exponent, but   *)
(* the value is scaled by the parameter, which is 0.                       *)
FromFloat(v) ==
    IF v < 32768
    THEN [value |-> v, exponent |-> 0]
    ELSE [value |-> Int16(v), exponent |-> Excess(v)]

(* fromFloat(t / 10, V, -1) *)
FromTenths(t) ==
    IF t = 0 THEN [value |-> 0, exponent |-> 0]
             ELSE [value |-> Int16(t), exponent |-> -1]

ToFloat(p)  == p.value * Pow10(p.exponent)
ToTenths(p) == IF p.exponent = -1 THEN p.value ELSE 10 * p.value

=============================================================================
