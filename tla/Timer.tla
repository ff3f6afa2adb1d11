-------------------------------- MODULE Timer --------------------------------
(* A timer of timer.c: the tick it was started at and its length, compared     *)
(* with a clock of milliseconds that wraps around.                             *)
EXTENDS Integers

CONSTANTS
  ClockModulus,   \* 2^32
  MaxTimeout      \* TIMER_MAX_TIMEOUT_MS

ASSUME TimerAssumption ==
  /\ ClockModulus \in Nat /\ MaxTimeout \in Nat
  /\ 0 < MaxTimeout /\ MaxTimeout < ClockModulus

VARIABLES
  now,     \* the clock
  timer,   \* struct Timer
  age,     \* (history) the time since the timer was started, while it runs
  asked,   \* (history) the time it was started for
  rung     \* (history) it has been found expired

timerVars == <<now, timer, age, asked, rung>>

\* Sums and differences of uint32_t.
Plus(a, b) == IF a + b < ClockModulus THEN a + b ELSE a + b - ClockModulus
FaultyMinus(a, b) == IF a >= b THEN a - b ELSE b - a  \* no wrap-around

Minus(a, b) == IF a >= b THEN a - b ELSE a - b + ClockModulus

\* countdown_ms, which asserts its limit; countdown_sec goes through it.
Countdown(tms) ==
  /\ tms < MaxTimeout
  /\ timer' = [start |-> now, length |-> tms]
  /\ age' = 0 /\ asked' = tms /\ rung' = FALSE
  /\ UNCHANGED now

\* left_ms, and has_timer_expired where it is zero: a timer found expired has its
\* length cleared, or it would run again once the clock has come round.
Expired == Minus(now, timer.start) >= timer.length
LeftMs == IF Expired THEN 0 ELSE timer.length - Minus(now, timer.start)

Stopped == [timer EXCEPT !.length = 0]

AskLeft ==
  /\ timer' = IF Expired THEN Stopped ELSE timer
  /\ rung' = (rung \/ Expired)
  /\ UNCHANGED <<now, age, asked>>

\* Time passes.  The environment asks a running timer at least once while the
\* clock goes round, in 49 days.
Pass(d) ==
  /\ rung \/ age + d < ClockModulus
  /\ now' = Plus(now, d)
  /\ age' = IF rung THEN age ELSE age + d
  /\ UNCHANGED <<timer, asked, rung>>

\* init_timer
TimerInit ==
  /\ now \in 0 .. ClockModulus - 1
  /\ timer = [start |-> 0, length |-> 0]
  /\ age = 0 /\ asked = 0 /\ rung = TRUE

TimerNext ==
  \/ \E tms \in 0 .. MaxTimeout - 1 : Countdown(tms)
  \/ AskLeft
  \/ \E d \in 0 .. ClockModulus - 1 : Pass(d)

TimerSpec == TimerInit /\ [][TimerNext]_timerVars

-----------------------------------------------------------------------------
TimerTypeOK ==
  /\ now \in 0 .. ClockModulus - 1
  /\ timer \in [start : 0 .. ClockModulus - 1, length : 0 .. MaxTimeout - 1]
  /\ age \in 0 .. ClockModulus - 1
  /\ asked \in 0 .. MaxTimeout - 1
  /\ rung \in BOOLEAN

\* A timer found expired was not early, and is expired until it is started
\* again, however often the clock comes round (left_ms clears the length).
StaysExpired == rung => age >= asked /\ LeftMs = 0

\* A timer answers with the time it has left, wherever the clock wraps around,
\* until it is over, and then stays expired (left_ms, has_timer_expired).
TellsTimeLeft ==
  /\ ~rung => LeftMs = IF age >= asked THEN 0 ELSE asked - age
  /\ StaysExpired

=============================================================================
