--------------------------- MODULE TimeoutsProofs ---------------------------
(***************************************************************************)
(* What ticks_from_ms returns for every word, every tick rate and every    *)
(* portMAX_DELAY, and from that the properties of Timeouts.                *)
(***************************************************************************)
EXTENDS Timeouts, TLAPS

(***************************************************************************)
(* The product of two uint32_t never wraps in a uint64_t.                  *)
(***************************************************************************)
LEMMA ProductIsExact ==
    ASSUME NEW m \in UInt32, NEW r \in UInt32
    PROVE  Product(m, r) = m * r
<1>1. Word \in Nat /\ 0 < Word
  BY TickAssumption
<1>2. m \in Nat /\ r \in Nat /\ m < Word /\ r < Word
  BY <1>1 DEF UInt32
<1>3. m * r \in Nat
  BY <1>2
<1>4. m * r <= m * Word
  BY <1>1, <1>2
<1>5. m * Word < Word * Word
  BY <1>1, <1>2
<1>6. m * r < Word * Word /\ Word * Word \in Nat
  BY <1>1, <1>2, <1>3, <1>4, <1>5
<1> DEFINE x == m * r  y == Word * Word
<1>7. ASSUME NEW a \in Nat, NEW b \in Nat, a < b
      PROVE  a % b = a
  BY <1>7
<1>8. x % y = x
  BY <1>3, <1>6, <1>7
<1> QED
  BY <1>8 DEF Product, Wide

(***************************************************************************)
(* The two facts about the quotient by 1000 that the results rest on.      *)
(***************************************************************************)
LEMMA Quotient ==
    ASSUME NEW x \in Nat
    PROVE  /\ x \div 1000 \in Nat
           /\ 1000 * (x \div 1000) <= x
           /\ x < 1000 * (x \div 1000 + 1)
  OBVIOUS

(***************************************************************************)
(* What ticks_from_ms returns, case by case.                               *)
(***************************************************************************)
LEMMA TicksCases ==
    ASSUME NEW m \in UInt32, NEW r \in UInt32
    PROVE  /\ m \in Nat /\ r \in Nat /\ m * r \in Nat
           /\ MaxDelay \in Nat /\ 2 <= MaxDelay
           /\ LET q == (m * r) \div 1000
              IN  /\ q = 0 /\ m = 0 => TicksFromMs(m, r) = 0
                  /\ q = 0 /\ 0 < m => TicksFromMs(m, r) = 1
                  /\ 0 < q /\ q < MaxDelay => TicksFromMs(m, r) = q
                  /\ 0 < q /\ MaxDelay <= q => TicksFromMs(m, r) = MaxDelay - 1
<1>1. m \in Nat /\ r \in Nat
  BY TickAssumption DEF UInt32
<1>2. m * r \in Nat
  BY <1>1
<1>3. MaxDelay \in Nat /\ 2 <= MaxDelay
  BY TickAssumption
<1> DEFINE q == (m * r) \div 1000
<1>4. TicksFromMs(m, r) = IF q = 0 THEN SubTick(m) ELSE Saturate(q)
  BY ProductIsExact DEF TicksFromMs
<1>5. q \in Nat
  BY <1>2, Quotient
<1> HIDE DEF q
<1>6. /\ q = 0 /\ m = 0 => TicksFromMs(m, r) = 0
      /\ q = 0 /\ 0 < m => TicksFromMs(m, r) = 1
  BY <1>1, <1>4 DEF SubTick
<1>7. /\ 0 < q /\ q < MaxDelay => TicksFromMs(m, r) = q
      /\ 0 < q /\ MaxDelay <= q => TicksFromMs(m, r) = MaxDelay - 1
  BY <1>3, <1>4, <1>5 DEF Saturate
<1> QED
  BY <1>1, <1>2, <1>3, <1>6, <1>7 DEF q

(***************************************************************************)
(* The wait is a tick count below portMAX_DELAY: no timeout argument means *)
(* "block forever".                                                        *)
(***************************************************************************)
LEMMA TicksBounded ==
    ASSUME NEW m \in UInt32, NEW r \in UInt32
    PROVE  TicksFromMs(m, r) \in Nat /\ TicksFromMs(m, r) < MaxDelay
<1> DEFINE q == (m * r) \div 1000
<1>1. q \in Nat
  BY TicksCases, Quotient
<1> QED
  BY <1>1, TicksCases

(***************************************************************************)
(* Only a timeout of 0 does not wait.                                      *)
(***************************************************************************)
LEMMA TicksZero ==
    ASSUME NEW m \in UInt32, NEW r \in UInt32
    PROVE  TicksFromMs(m, r) = 0 <=> m = 0
<1> DEFINE q == (m * r) \div 1000
<1>1. q \in Nat
  BY TicksCases, Quotient
<1>2. m = 0 => q = 0
  BY TicksCases
<1> QED
  BY <1>1, <1>2, TicksCases

(***************************************************************************)
(* Multiplying by a rate keeps the order of two timeouts, and dividing by  *)
(* 1000 keeps the order of two products.                                   *)
(***************************************************************************)
LEMMA QuotientMonotone ==
    ASSUME NEW m \in Nat, NEW n \in Nat, NEW r \in Nat, m <= n
    PROVE  (m * r) \div 1000 <= (n * r) \div 1000
<1>1. m * r \in Nat /\ n * r \in Nat /\ m * r <= n * r
  OBVIOUS
<1>2. ASSUME NEW x \in Nat, NEW y \in Nat, x <= y
      PROVE  x \div 1000 <= y \div 1000
  BY <1>2
<1> QED
  BY <1>1, <1>2

(***************************************************************************)
(* A longer timeout never waits less than a shorter one.                   *)
(***************************************************************************)
LEMMA TicksMonotone ==
    ASSUME NEW m \in UInt32, NEW n \in UInt32, NEW r \in UInt32, m <= n
    PROVE  TicksFromMs(m, r) <= TicksFromMs(n, r)
<1> DEFINE p == (m * r) \div 1000  q == (n * r) \div 1000
<1>1. p \in Nat /\ q \in Nat
  BY TicksCases, Quotient
<1>2. p <= q
  BY TicksCases, QuotientMonotone
<1>3. /\ p = 0 /\ m = 0 => TicksFromMs(m, r) = 0
      /\ p = 0 /\ 0 < m => TicksFromMs(m, r) = 1
      /\ 0 < p /\ p < MaxDelay => TicksFromMs(m, r) = p
      /\ 0 < p /\ MaxDelay <= p => TicksFromMs(m, r) = MaxDelay - 1
  BY TicksCases
<1>4. /\ q = 0 /\ n = 0 => TicksFromMs(n, r) = 0
      /\ q = 0 /\ 0 < n => TicksFromMs(n, r) = 1
      /\ 0 < q /\ q < MaxDelay => TicksFromMs(n, r) = q
      /\ 0 < q /\ MaxDelay <= q => TicksFromMs(n, r) = MaxDelay - 1
  BY TicksCases
<1>5. m \in Nat /\ n \in Nat /\ MaxDelay \in Nat /\ 2 <= MaxDelay
  BY TicksCases
<1> HIDE DEF p, q
<1> QED
  BY <1>1, <1>2, <1>3, <1>4, <1>5
-----------------------------------------------------------------------------
(***************************************************************************)
(* Every state holds a timeout that was asked for and the wait computed    *)
(* from it: the invariant the properties of the states follow from.        *)
(***************************************************************************)
Computed ==
    /\ hz \in Rates
    /\ ms \in Asks
    /\ ticks = TicksFromMs(ms, hz)

(***************************************************************************)
(* The machine only ever holds waits that ticks_from_ms computed.          *)
(***************************************************************************)
THEOREM ComputedHolds == Spec => []Computed
<1>1. Init => Computed
  BY TimeoutsAssumption DEF Init, Computed
<1>2. Computed /\ [Next]_vars => Computed'
  BY DEF Computed, Next, Ask, vars
<1> QED
  BY <1>1, <1>2, PTL DEF Spec

(***************************************************************************)
(* Type correctness: in particular a wait is a number of ticks, whatever   *)
(* the product and the cut do to it.                                       *)
(***************************************************************************)
THEOREM TimeoutsTypeCorrect == Spec => []TypeOK
<1>1. Computed => TypeOK
  BY TicksBounded, TimeoutsAssumption DEF Computed, TypeOK
<1> QED
  BY <1>1, ComputedHolds, PTL

(***************************************************************************)
(* For every tick rate, a timeout argument never reaches the tick count    *)
(* that blocks forever.                                                    *)
(***************************************************************************)
THEOREM NeverForeverHolds == Spec => []NeverForever
<1>1. Computed => NeverForever
  BY TicksBounded, TimeoutsAssumption DEF Computed, NeverForever
<1> QED
  BY <1>1, ComputedHolds, PTL

(***************************************************************************)
(* For every tick rate, exactly the timeout 0 is a read that does not      *)
(* wait.                                                                   *)
(***************************************************************************)
THEOREM WaitsWhenAskedHolds == Spec => []WaitsWhenAsked
<1>1. Computed => WaitsWhenAsked
  BY TicksZero, TimeoutsAssumption DEF Computed, WaitsWhenAsked
<1> QED
  BY <1>1, ComputedHolds, PTL

(***************************************************************************)
(* For every tick rate, the wait is the timeout to within one tick, or the *)
(* longest wait that ends.                                                 *)
(***************************************************************************)
THEOREM WithinATickHolds == Spec => []WithinATick
<1>1. ASSUME Computed PROVE WithinATick
  <2>1. ms \in UInt32 /\ hz \in UInt32 /\ 0 < hz
    BY <1>1, TimeoutsAssumption, TickAssumption DEF Computed, UInt32
  <2> DEFINE x == ms * hz  q == x \div 1000
  <2>2. x \in Nat /\ ms \in Nat /\ MaxDelay \in Nat /\ 2 <= MaxDelay
    BY <2>1, TicksCases
  <2>3. q \in Nat /\ 1000 * q <= x /\ x < 1000 * (q + 1)
    BY <2>2, Quotient
  <2>4. 0 < ms => 0 < x
    BY <2>1, <2>2
  <2>5. ms = 0 => x = 0
    BY <2>1, TicksCases
  <2>6. /\ q = 0 /\ ms = 0 => ticks = 0
        /\ q = 0 /\ 0 < ms => ticks = 1
        /\ 0 < q /\ q < MaxDelay => ticks = q
        /\ 0 < q /\ MaxDelay <= q => ticks = MaxDelay - 1
    BY <1>1, <2>1, TicksCases DEF Computed
  <2>7. \/ ticks = MaxDelay - 1 /\ x >= 1000 * ticks
        \/ x < 1000 * (ticks + 1) /\ 1000 * (ticks - 1) < x
    <3> HIDE DEF x, q
    <3> QED
      BY <2>2, <2>3, <2>4, <2>5, <2>6
  <2> QED
    BY <2>7 DEF WithinATick
<1> QED
  BY <1>1, ComputedHolds, PTL

(***************************************************************************)
(* For every tick rate, a longer timeout never waits less.                 *)
(***************************************************************************)
THEOREM MonotoneHolds == Spec => Monotone
<1>1. Computed /\ [Next]_vars => [ms <= ms' => ticks <= ticks']_vars
  <2> SUFFICES ASSUME Computed, NEW m \in Asks, Ask(m), ms <= ms'
               PROVE  ticks <= ticks'
    BY DEF Next
  <2> QED
    BY TicksMonotone, TimeoutsAssumption DEF Computed, Ask
<1> QED
  BY <1>1, ComputedHolds, PTL DEF Spec, Monotone
=============================================================================
