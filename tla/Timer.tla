--------------------------------- MODULE Timer ---------------------------------
(***************************************************************************)
(* cTimer: a timer is a start time on the system clock and a duration, and *)
(* is compared in unsigned arithmetic.  Its users act on elapsed() > 0.    *)
(***************************************************************************)
EXTENDS Integers

CONSTANT Span   \* the values of the clock, 2^64

Clock  == 0 .. Span - 1
Timers == [startTime : Clock, duration : Clock, startCount : Nat]

(* diffp(a, b): a difference of clock values, taken for unsigned.          *)
Diff(a, b) == IF a >= b THEN a - b ELSE a - b + Span

(* elapsed() of timer t when the clock shows now *)
Elapsed(t, now) ==
    IF t.duration = 0 \/ t.startCount = 0 THEN -1
    ELSE IF Diff(now, t.startTime) > t.duration THEN t.startCount
    ELSE 0

(* restart() *)
Restart(t, now) ==
    [startTime |-> now, duration |-> t.duration,
     startCount |-> IF t.duration # 0 THEN t.startCount + 1 ELSE t.startCount]

(* start(d): a duration of 0 keeps the one of the last start.              *)
Start(t, d, now) ==
    Restart([startTime |-> t.startTime, duration |-> IF d # 0 THEN d ELSE t.duration,
             startCount |-> 0], now)

(* stop() *)
Stop(t) == [t EXCEPT !.startCount = 0]

=============================================================================
