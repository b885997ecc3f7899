------------------------------ MODULE MsTimer2 ------------------------------
(***************************************************************************)
(* The timer library of the devices (arduino/libraries/MsTimer2): Timer2   *)
(* overflows every millisecond, its interrupt counts, and calls a callback *)
(* when the count reaches msecs.                                           *)
(*                                                                         *)
(* The interrupt runs with interrupts masked, callback included: while the *)
(* callback runs, the hardware keeps one overflow pending and drops those  *)
(* that follow, so that the time between two calls stretches.              *)
(***************************************************************************)
EXTENDS Integers

CONSTANT ms        \* the period given to set()

ASSUME TimerAssumption == ms \in Nat

VARIABLES
    count,         \* MsTimer2::count
    overflowing,   \* MsTimer2::overflowing, while the callback runs
    pending,       \* TOV2: an overflow whose interrupt has not run
    since          \* history: milliseconds since the last call began, or
                   \* since start(), as far as msecs

timerVars == <<count, overflowing, pending, since>>

\* set()
msecs == IF ms = 0 THEN 1 ELSE ms

TimerTypeOK ==
    /\ count \in 0 .. msecs - 1
    /\ overflowing \in BOOLEAN
    /\ pending \in BOOLEAN
    /\ since \in 0 .. msecs

\* start()
TimerInit ==
    /\ count = 0
    /\ overflowing = FALSE
    /\ pending = FALSE
    /\ since = 0

\* A millisecond, whatever the processor is doing.
Overflow ==
    /\ pending' = TRUE
    /\ since' = IF since < msecs THEN since + 1 ELSE since
    /\ UNCHANGED <<count, overflowing>>

\* Mutated form of CountOnly: the overflows of a callback that runs with
\* interrupts enabled are counted.
CountOnlyNested ==
    /\ pending
    /\ overflowing \/ count + 1 < msecs
    /\ count' = count + 1
    /\ pending' = FALSE
    /\ UNCHANGED <<overflowing, since>>

\* The interrupt: _overflow() with nothing to call ...
CountOnly ==
    /\ pending /\ ~overflowing
    /\ count + 1 < msecs
    /\ count' = count + 1
    /\ pending' = FALSE
    /\ UNCHANGED <<overflowing, since>>

\* ... or up to the call of func ...
StartCall ==
    /\ pending /\ ~overflowing
    /\ count + 1 >= msecs
    /\ count' = count + 1 - msecs
    /\ overflowing' = TRUE
    /\ pending' = FALSE
    /\ since' = 0

\* ... and after it.
EndCall ==
    /\ overflowing
    /\ overflowing' = FALSE
    /\ UNCHANGED <<count, pending, since>>

\* What is counted has passed since the last call began.
CountIsElapsed == count <= since /\ (pending => count < since)
=============================================================================
