------------------------------ MODULE Timeouts ------------------------------
(***************************************************************************)
(* A program that asks for one timeout after another, on a build with some *)
(* tick rate, and the waits that ticks_from_ms turns them into.  The       *)
(* machine exists to compare a wait with the timeout it was computed from  *)
(* and with the waits of other timeouts.                                   *)
(***************************************************************************)
EXTENDS TickMath

CONSTANTS
    Rates,   \* Tick rates (CONFIG_FREERTOS_HZ) a build may have.
    Asks     \* Timeouts in milliseconds a caller may pass.

ASSUME TimeoutsAssumption ==
    /\ Rates \subseteq UInt32 \ {0}
    /\ Asks \subseteq UInt32
    /\ 0 \in Asks

VARIABLES
    hz,     \* The tick rate of this build.
    ms,     \* The timeout asked for last.
    ticks   \* The wait it was given.

vars == <<hz, ms, ticks>>

Init ==
    /\ hz \in Rates
    /\ ms = 0
    /\ ticks = TicksFromMs(0, hz)

Ask(m) ==
    /\ ms' = m
    /\ ticks' = TicksFromMs(m, hz)
    /\ UNCHANGED hz

Next == \E m \in Asks : Ask(m)

Spec == Init /\ [][Next]_vars
-----------------------------------------------------------------------------
TypeOK ==
    /\ hz \in Rates
    /\ ms \in Asks
    /\ ticks \in Nat

(***************************************************************************)
(* A timeout argument never reaches portMAX_DELAY, for which               *)
(* uart_read_bytes() waits without end (Saturate, ticks_from_ms).          *)
(***************************************************************************)
NeverForever == ticks < MaxDelay

(***************************************************************************)
(* The wait is the timeout to within one tick, in exact arithmetic: it is  *)
(* never the short wait of a product that wrapped, and it is cut only at   *)
(* the last value below portMAX_DELAY.                                     *)
(***************************************************************************)
WithinATick ==
    \/ ticks = MaxDelay - 1 /\ ms * hz >= 1000 * ticks
    \/ /\ ms * hz < 1000 * (ticks + 1)
       /\ 1000 * (ticks - 1) < ms * hz

(***************************************************************************)
(* A timeout above 0 waits: only 0 asks for the read that does not block,  *)
(* whatever the tick rate (the sub-tick floor of ticks_from_ms).           *)
(***************************************************************************)
WaitsWhenAsked == ticks = 0 <=> ms = 0

(***************************************************************************)
(* A longer timeout never waits less than a shorter one, across the floor, *)
(* the division and the saturation.                                        *)
(***************************************************************************)
Monotone == [][ms <= ms' => ticks <= ticks']_vars
=============================================================================
