----------------------------- MODULE CockpitClock -----------------------------
(***************************************************************************)
(* The monotonic clock that the timers of a cockpit read, up to a bound.   *)
(***************************************************************************)
EXTENDS Integers

CONSTANT
    MaxTime         \* bound on the clock

VARIABLE
    now

Never == -1
Times == 0..MaxTime
==============================================================================
