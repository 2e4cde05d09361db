------------------------------ MODULE TickMath ------------------------------
(***************************************************************************)
(* ticks_from_ms (src/unit/rs485_tick_math.hpp): a caller's timeout in     *)
(* milliseconds becomes a number of scheduler ticks.  The three integer    *)
(* widths of the code are kept: timeout_ms and tick_rate_hz are uint32_t,  *)
(* the product is computed in uint64_t, the result is a Tick.              *)
(***************************************************************************)
EXTENDS Integers

CONSTANTS
    Word,      \* Number of values of a uint32_t: 2^32 in the program.
    MaxDelay   \* portMAX_DELAY, the tick count that means "block forever".

(***************************************************************************)
(* portMAX_DELAY is the greatest value of a TickType_t of 16 or 32 bits.   *)
(***************************************************************************)
ASSUME TickAssumption ==
    /\ Word \in Nat \ {0}
    /\ MaxDelay \in Nat
    /\ 2 <= MaxDelay
    /\ MaxDelay < Word

UInt32 == 0 .. Word - 1

(***************************************************************************)
(* The product in a signed integer of 32 bits: a mutant of Wide.           *)
(***************************************************************************)
WideSigned(x) == IF x % Word < Word \div 2 THEN x % Word ELSE (x % Word) - Word

(***************************************************************************)
(* A value cast to uint64_t, which is as wide as two uint32_t.             *)
(***************************************************************************)
Wide(x) == x % (Word * Word)

(***************************************************************************)
(* The product without the cast to 64 bits: a mutant of Product.           *)
(***************************************************************************)
ProductNarrow(ms, hz) == (ms * hz) % Word

(***************************************************************************)
(* The product of the two uint32_t arguments, taken in 64 bits.            *)
(***************************************************************************)
Product(ms, hz) == Wide(ms * hz)

(***************************************************************************)
(* A timeout below a tick cut to no wait at all: a mutant of SubTick.      *)
(***************************************************************************)
SubTickDropped(ms) == 0

(***************************************************************************)
(* What a quotient of no tick at all becomes: a timeout that was asked for *)
(* is at least one tick, only a timeout of 0 is a read that does not wait. *)
(***************************************************************************)
SubTick(ms) == IF ms > 0 THEN 1 ELSE 0

(***************************************************************************)
(* A comparison that lets portMAX_DELAY itself through: a mutant of        *)
(* Saturate.                                                               *)
(***************************************************************************)
SaturateAbove(ticks) == IF ticks > MaxDelay THEN MaxDelay - 1 ELSE ticks

(***************************************************************************)
(* The cast to TickType_t without the comparison: a mutant of Saturate.    *)
(***************************************************************************)
SaturateByCast(ticks) == ticks % (MaxDelay + 1)

(***************************************************************************)
(* What a quotient of some ticks becomes: never the endless wait.          *)
(***************************************************************************)
Saturate(ticks) == IF ticks >= MaxDelay THEN MaxDelay - 1 ELSE ticks

TicksFromMs(ms, hz) ==
    LET ticks == Product(ms, hz) \div 1000
    IN  IF ticks = 0 THEN SubTick(ms) ELSE Saturate(ticks)
=============================================================================
