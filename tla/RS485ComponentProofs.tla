------------------------ MODULE RS485ComponentProofs ------------------------
(***************************************************************************)
(* Ownership of the serial backends, for any number of components,         *)
(* backends and pins: nothing dangles, nothing is freed twice or leaked,   *)
(* and owner and pin travel with the backend.                              *)
(***************************************************************************)
EXTENDS DirectedWrites, TLAPS

(***************************************************************************)
(* What a pointer of a component can be: the shared fallback of one that   *)
(* lives, a backend of one that lives, and null for one that does not.     *)
(***************************************************************************)
PointerInv ==
    \A c \in Objects :
        IF c \in alive
        THEN \/ serial[c] = SharedFallback
             \/ serial[c].owned /\ serial[c].ptr \in made
        ELSE serial[c] = Gone

(***************************************************************************)
(* No two components have one backend.                                     *)
(***************************************************************************)
UniqueInv ==
    \A c, d \in Objects :
        serial[c].ptr = serial[d].ptr /\ serial[c].ptr \in made => c = d

(***************************************************************************)
(* A backend is deleted exactly when the last component that had it is     *)
(* gone or has another one.                                                *)
(***************************************************************************)
DeleteInv ==
    /\ \A b \in (Backends \ made) \cup {Fallback} : deletes[b] = 0
    /\ \A b \in made :
          \/ deletes[b] = 0 /\ \E c \in Objects : serial[c].ptr = b
          \/ deletes[b] = 1 /\ \A c \in Objects : serial[c].ptr # b

OwnInv == PointerInv /\ UniqueInv /\ DeleteInv

(***************************************************************************)
(* A pointer of either kind is of the type of _serial.                     *)
(***************************************************************************)
LEMMA PtrType ==
    ASSUME NEW p \in Backends \cup {Fallback, NullPtr}, NEW o \in BOOLEAN
    PROVE  /\ SerialPtr(p, o) \in [ptr : Backends \cup {Fallback, NullPtr}, owned : BOOLEAN]
           /\ SerialPtr(p, o).ptr = p
           /\ SerialPtr(p, o).owned = o
  BY DEF SerialPtr

(***************************************************************************)
(* Every component, pointer, pin and counter is of its type.               *)
(***************************************************************************)
THEOREM ComponentTypeCorrect == Spec => []TypeOK
<1>1. Init => TypeOK
  <2>1. Gone \in [ptr : Backends \cup {Fallback, NullPtr}, owned : BOOLEAN]
    BY PtrType DEF Gone
  <2>2. [c \in Objects |-> Gone]
            \in [Objects -> [ptr : Backends \cup {Fallback, NullPtr}, owned : BOOLEAN]]
    BY <2>1
  <2> QED
    BY <2>2 DEF Init, TypeOK
<1>2. TypeOK /\ [Next]_vars => TypeOK'
  <2> SUFFICES ASSUME TypeOK, [Next]_vars PROVE TypeOK'
    OBVIOUS
  <2> USE DEF TypeOK
  <2>1. CASE UNCHANGED vars
    BY <2>1 DEF vars
  <2>2. ASSUME NEW s, s \in [ptr : Backends \cup {Fallback, NullPtr}, owned : BOOLEAN]
        PROVE  Release(s) \in [Backends \cup {Fallback} -> Nat]
    BY DEF Release, Deletes
  <2>3. ASSUME NEW d \in Objects, NEW s
        PROVE  Rebound(d, s) \in [Backends -> Objects \cup {NoObject}]
    BY DEF Rebound
  <2>4. SharedFallback \in [ptr : Backends \cup {Fallback, NullPtr}, owned : BOOLEAN]
    BY PtrType DEF SharedFallback
  <2>5. Gone \in [ptr : Backends \cup {Fallback, NullPtr}, owned : BOOLEAN]
    BY PtrType DEF Gone
  <2>6. ASSUME NEW c \in Objects, NEW d \in Objects, TakeOver(c, d)
        PROVE  /\ serial' \in [Objects -> [ptr : Backends \cup {Fallback, NullPtr}, owned : BOOLEAN]]
               /\ owner' \in [Backends -> Objects \cup {NoObject}]
               /\ dirPin' \in [Objects -> Pins \cup {NoPin}]
               /\ captured' \in [Objects -> Pins \cup {NoPin}]
               /\ refused' \subseteq Objects
               /\ made' = made /\ pinOf' = pinOf
    BY <2>3, <2>4, <2>6 DEF TakeOver
  <2>7. ASSUME NEW c \in Objects, Construct(c)
        PROVE  TypeOK'
    BY <2>4, <2>7 DEF Construct
  <2>8. ASSUME NEW c \in Objects, Destroy(c)
        PROVE  TypeOK'
    BY <2>2, <2>5, <2>8 DEF Destroy
  <2>9. ASSUME NEW c \in Objects, NEW p \in Pins \cup {NoPin}, Config(c, p)
        PROVE  TypeOK'
    BY <2>9 DEF Config
  <2>10. ASSUME NEW c \in Objects, NEW n \in Backends, BeginOk(c, n)
         PROVE  TypeOK'
    <3>1. PinFor(c) \in Pins \cup {NoPin}
      BY DEF PinFor
    <3>2. SerialPtr(n, TRUE) \in [ptr : Backends \cup {Fallback, NullPtr}, owned : BOOLEAN]
      BY PtrType
    <3> QED
      BY <2>2, <2>10, <3>1, <3>2 DEF BeginOk, OwnerFor
  <2>11. ASSUME NEW c \in Objects, BeginRefused(c)
         PROVE  TypeOK'
    BY <2>11 DEF BeginRefused
  <2>12. ASSUME NEW c \in Objects, BeginFails(c)
         PROVE  TypeOK'
    BY <2>12 DEF BeginFails
  <2>13. ASSUME NEW c \in Objects, NEW d \in Objects, MoveConstruct(c, d)
         PROVE  TypeOK'
    BY <2>6, <2>13 DEF MoveConstruct
  <2>14. ASSUME NEW c \in Objects, NEW d \in Objects, MoveAssign(c, d)
         PROVE  TypeOK'
    BY <2>2, <2>6, <2>14 DEF MoveAssign
  <2> QED
    BY <2>1, <2>7, <2>8, <2>9, <2>10, <2>11, <2>12, <2>13, <2>14 DEF Next
<1> QED
  BY <1>1, <1>2, PTL DEF Spec

-----------------------------------------------------------------------------
(***************************************************************************)
(* The pointers that are no backend: which they are, and that they delete  *)
(* nothing.                                                                *)
(***************************************************************************)
LEMMA NotOwned ==
    /\ SharedFallback.ptr = Fallback /\ SharedFallback.owned = FALSE
    /\ Gone.ptr = NullPtr /\ Gone.owned = FALSE
    /\ Fallback \notin Backends /\ NullPtr \notin Backends /\ Fallback # NullPtr
  BY ComponentAssumption DEF SharedFallback, Gone, SerialPtr

(***************************************************************************)
(* Releasing the pointer of an object deletes the backend it had, once,    *)
(* and nothing if it had none.                                             *)
(***************************************************************************)
LEMMA ReleaseFacts ==
    ASSUME TypeOK, OwnInv, NEW c \in Objects
    PROVE  \A b \in Backends \cup {Fallback} :
               Release(serial[c])[b] =
                   IF b \in made /\ serial[c].ptr = b THEN deletes[b] + 1 ELSE deletes[b]
<1> SUFFICES ASSUME NEW b \in Backends \cup {Fallback}
             PROVE  Deletes(serial[c], b) <=> b \in made /\ serial[c].ptr = b
  BY DEF Release
<1>1. CASE c \in alive
  BY <1>1, NotOwned DEF OwnInv, PointerInv, Deletes, TypeOK
<1>2. CASE c \notin alive
  BY <1>2, NotOwned DEF OwnInv, PointerInv, Deletes, TypeOK
<1> QED
  BY <1>1, <1>2

(***************************************************************************)
(* Giving d what c had, and c the fallback, keeps the three parts, if what *)
(* d had has been released.                                                *)
(***************************************************************************)
LEMMA TakeOverOwns ==
    ASSUME TypeOK, OwnInv, NEW c \in alive, NEW d \in Objects, c # d,
           alive' = alive \cup {d}, TakeOver(c, d), deletes' = Release(serial[d])
    PROVE  OwnInv'
<1>1. /\ made' = made /\ c \in Objects
      /\ \A e \in Objects : serial'[e] = IF e = c THEN SharedFallback
                                         ELSE IF e = d THEN serial[c] ELSE serial[e]
  BY DEF TakeOver, TypeOK
<1>2. PointerInv'
  BY <1>1 DEF OwnInv, PointerInv
<1>3. \A b \in made : b \in Backends /\ b # Fallback
  BY NotOwned DEF TypeOK
<1>4. UniqueInv'
  BY <1>1, <1>3, NotOwned DEF OwnInv, UniqueInv
<1>5. \A b \in Backends \cup {Fallback} :
          deletes'[b] = IF b \in made /\ serial[d].ptr = b THEN deletes[b] + 1 ELSE deletes[b]
  BY ReleaseFacts
<1>6. ASSUME NEW b \in made
      PROVE  \/ deletes'[b] = 0 /\ \E e \in Objects : serial'[e].ptr = b
             \/ deletes'[b] = 1 /\ \A e \in Objects : serial'[e].ptr # b
  <2>1. CASE serial[d].ptr = b
    <3>1. deletes[b] = 0 /\ deletes'[b] = 1
      BY <1>3, <1>5, <1>6, <2>1 DEF OwnInv, DeleteInv
    <3>2. \A e \in Objects : e # d => serial[e].ptr # b
      BY <1>6, <2>1 DEF OwnInv, UniqueInv
    <3>3. \A e \in Objects : serial'[e].ptr # b
      BY <1>1, <1>3, <3>2, NotOwned
    <3> QED
      BY <3>1, <3>3
  <2>2. CASE serial[d].ptr # b
    <3>1. deletes'[b] = deletes[b]
      BY <1>3, <1>5, <1>6, <2>2
    <3>2. CASE deletes[b] = 0 /\ \E e \in Objects : serial[e].ptr = b
      <4>1. PICK e \in Objects : serial[e].ptr = b
        BY <3>2
      <4>2. serial'[IF e = c THEN d ELSE e].ptr = b
        BY <1>1, <2>2, <4>1
      <4> QED
        BY <3>1, <3>2, <4>2
    <3>3. CASE deletes[b] = 1 /\ \A e \in Objects : serial[e].ptr # b
      BY <1>1, <1>3, <3>1, <3>3, NotOwned
    <3> QED
      BY <1>6, <3>2, <3>3 DEF OwnInv, DeleteInv
  <2> QED
    BY <2>1, <2>2
<1>7. DeleteInv'
  BY <1>1, <1>5, <1>6, NotOwned DEF OwnInv, DeleteInv, TypeOK
<1> QED
  BY <1>2, <1>4, <1>7 DEF OwnInv

(***************************************************************************)
(* The three parts hold in every state: each backend has exactly one       *)
(* component or has been deleted exactly once.                             *)
(***************************************************************************)
THEOREM OwnershipHolds == Spec => []OwnInv
<1>1. Init => OwnInv
  <2> SUFFICES ASSUME Init PROVE OwnInv
    OBVIOUS
  <2>1. /\ \A c \in Objects : serial[c] = Gone
        /\ alive = {} /\ made = {}
        /\ \A b \in Backends \cup {Fallback} : deletes[b] = 0
    BY DEF Init
  <2> QED
    BY <2>1 DEF OwnInv, PointerInv, UniqueInv, DeleteInv
<1>2. TypeOK /\ OwnInv /\ [Next]_vars => OwnInv'
  <2> SUFFICES ASSUME TypeOK, OwnInv, [Next]_vars PROVE OwnInv'
    OBVIOUS
  <2>0. \A b \in made : b \in Backends /\ b # Fallback
    BY NotOwned DEF TypeOK
  <2>1. ASSUME UNCHANGED <<alive, serial, made, deletes>> PROVE OwnInv'
    BY <2>1 DEF OwnInv, PointerInv, UniqueInv, DeleteInv
  <2>2. ASSUME NEW c \in Objects, Construct(c) PROVE OwnInv'
    <3>1. /\ made' = made /\ deletes' = deletes /\ c \notin alive
          /\ alive' = alive \cup {c}
          /\ \A e \in Objects : serial'[e] = IF e = c THEN SharedFallback ELSE serial[e]
      BY <2>2 DEF Construct, TypeOK
    <3>2. serial[c].ptr = NullPtr
      BY <3>1, NotOwned DEF OwnInv, PointerInv
    <3>3. PointerInv'
      BY <3>1 DEF OwnInv, PointerInv
    <3>4. UniqueInv'
      BY <2>0, <3>1, NotOwned DEF OwnInv, UniqueInv
    <3>5. DeleteInv'
      BY <2>0, <3>1, <3>2, NotOwned DEF OwnInv, DeleteInv
    <3> QED
      BY <3>3, <3>4, <3>5 DEF OwnInv
  <2>3. ASSUME NEW c \in Objects, Destroy(c) PROVE OwnInv'
    <3>1. /\ made' = made /\ c \in alive /\ deletes' = Release(serial[c])
          /\ alive' = alive \ {c}
          /\ \A e \in Objects : serial'[e] = IF e = c THEN Gone ELSE serial[e]
      BY <2>3 DEF Destroy, TypeOK
    <3>2. PointerInv'
      BY <3>1 DEF OwnInv, PointerInv
    <3>3. UniqueInv'
      BY <2>0, <3>1, NotOwned DEF OwnInv, UniqueInv
    <3>4. \A b \in Backends \cup {Fallback} :
              deletes'[b] = IF b \in made /\ serial[c].ptr = b THEN deletes[b] + 1
                            ELSE deletes[b]
      BY <3>1, ReleaseFacts
    <3>5. ASSUME NEW b \in made
          PROVE  \/ deletes'[b] = 0 /\ \E e \in Objects : serial'[e].ptr = b
                 \/ deletes'[b] = 1 /\ \A e \in Objects : serial'[e].ptr # b
      <4>1. CASE serial[c].ptr = b
        <5>1. deletes[b] = 0 /\ deletes'[b] = 1
          BY <2>0, <3>4, <3>5, <4>1 DEF OwnInv, DeleteInv
        <5>2. \A e \in Objects : e # c => serial[e].ptr # b
          BY <3>5, <4>1 DEF OwnInv, UniqueInv
        <5> QED
          BY <2>0, <3>1, <5>1, <5>2, NotOwned
      <4>2. CASE serial[c].ptr # b
        BY <2>0, <3>1, <3>4, <4>2, NotOwned DEF OwnInv, DeleteInv
      <4> QED
        BY <4>1, <4>2
    <3>6. DeleteInv'
      BY <3>1, <3>4, <3>5, NotOwned DEF OwnInv, DeleteInv, TypeOK
    <3> QED
      BY <3>2, <3>3, <3>6 DEF OwnInv
  <2>4. ASSUME NEW c \in Objects, NEW n \in Backends, BeginOk(c, n) PROVE OwnInv'
    <3>1. /\ made' = made \cup {n} /\ c \in alive /\ n \notin made /\ alive' = alive
          /\ deletes' = Release(serial[c])
          /\ \A e \in Objects : serial'[e] = IF e = c THEN SerialPtr(n, TRUE) ELSE serial[e]
      BY <2>4 DEF BeginOk, TypeOK
    <3>2. SerialPtr(n, TRUE).ptr = n /\ SerialPtr(n, TRUE).owned
      BY DEF SerialPtr
    <3>3. \A e \in Objects : serial[e].ptr # n
      BY <3>1, NotOwned DEF OwnInv, PointerInv
    <3>4. PointerInv'
      BY <3>1, <3>2 DEF OwnInv, PointerInv
    <3>5. UniqueInv'
      BY <3>1, <3>2, <3>3 DEF OwnInv, UniqueInv
    <3>6. \A b \in Backends \cup {Fallback} :
              deletes'[b] = IF b \in made /\ serial[c].ptr = b THEN deletes[b] + 1
                            ELSE deletes[b]
      BY <3>1, ReleaseFacts
    <3>7. ASSUME NEW b \in made
          PROVE  \/ deletes'[b] = 0 /\ \E e \in Objects : serial'[e].ptr = b
                 \/ deletes'[b] = 1 /\ \A e \in Objects : serial'[e].ptr # b
      <4>1. CASE serial[c].ptr = b
        <5>1. deletes[b] = 0 /\ deletes'[b] = 1
          BY <2>0, <3>6, <3>7, <4>1 DEF OwnInv, DeleteInv
        <5>2. \A e \in Objects : e # c => serial[e].ptr # b
          BY <3>7, <4>1 DEF OwnInv, UniqueInv
        <5> QED
          BY <3>1, <3>2, <5>1, <5>2
      <4>2. CASE serial[c].ptr # b
        <5>1. deletes'[b] = deletes[b] /\ b # n
          BY <2>0, <3>1, <3>6, <3>7, <4>2
        <5>2. \A e \in Objects : serial'[e].ptr = b <=> serial[e].ptr = b
          BY <3>1, <3>2, <4>2, <5>1
        <5> QED
          BY <3>7, <5>1, <5>2 DEF OwnInv, DeleteInv
      <4> QED
        BY <4>1, <4>2
    <3>8. deletes'[n] = 0 /\ \E e \in Objects : serial'[e].ptr = n
      BY <3>1, <3>2, <3>6 DEF OwnInv, DeleteInv, TypeOK
    <3>9. DeleteInv'
      BY <3>1, <3>6, <3>7, <3>8, NotOwned DEF OwnInv, DeleteInv, TypeOK
    <3> QED
      BY <3>4, <3>5, <3>9 DEF OwnInv
  <2>5. ASSUME NEW c \in Objects, NEW d \in Objects, MoveConstruct(c, d) PROVE OwnInv'
    <3>1. serial[d] = Gone
      BY <2>5 DEF MoveConstruct, OwnInv, PointerInv
    <3>2. Release(serial[d]) = deletes
      BY <3>1, NotOwned DEF Release, Deletes, TypeOK
    <3> QED
      BY <2>5, <3>2, TakeOverOwns DEF MoveConstruct, Movable
  <2>6. ASSUME NEW c \in Objects, NEW d \in Objects, MoveAssign(c, d) PROVE OwnInv'
    <3>1. alive' = alive \cup {d}
      BY <2>6 DEF MoveAssign
    <3> QED
      BY <2>6, <3>1, TakeOverOwns DEF MoveAssign, Movable
  <2>7. CASE UNCHANGED vars
    BY <2>1, <2>7 DEF vars
  <2>8. ASSUME NEW c \in Objects, NEW p \in Pins \cup {NoPin}, Config(c, p) PROVE OwnInv'
    BY <2>1, <2>8 DEF Config
  <2>9. ASSUME NEW c \in Objects, BeginRefused(c) \/ BeginFails(c) PROVE OwnInv'
    BY <2>1, <2>9 DEF BeginRefused, BeginFails
  <2> QED
    BY <2>2, <2>3, <2>4, <2>5, <2>6, <2>7, <2>8, <2>9 DEF Next
<1> QED
  BY <1>1, <1>2, ComponentTypeCorrect, PTL DEF Spec

(***************************************************************************)
(* A component that lives can always be called.                            *)
(***************************************************************************)
THEOREM NeverDanglingHolds == Spec => []NeverDangling
<1>1. TypeOK /\ OwnInv => NeverDangling
  BY NotOwned DEF TypeOK, OwnInv, PointerInv, DeleteInv, NeverDangling
<1> QED
  BY <1>1, ComponentTypeCorrect, OwnershipHolds, PTL

(***************************************************************************)
(* No backend is deleted twice or leaked, the fallback is never deleted.   *)
(***************************************************************************)
THEOREM DeletedOnceHolds == Spec => []DeletedOnce
<1>1. TypeOK /\ OwnInv => DeletedOnce
  <2> SUFFICES ASSUME TypeOK, OwnInv PROVE DeletedOnce
    OBVIOUS
  <2>1. ASSUME NEW b \in made, NEW c \in Objects, serial[c].ptr = b
        PROVE  c \in alive /\ serial[c].owned
    <3>1. b \in Backends
      BY DEF TypeOK
    <3> QED
      BY <2>1, <3>1, NotOwned DEF OwnInv, PointerInv
  <2> QED
    BY <2>1 DEF OwnInv, DeleteInv, DeletedOnce, Holds
<1> QED
  BY <1>1, ComponentTypeCorrect, OwnershipHolds, PTL
-----------------------------------------------------------------------------
(***************************************************************************)
(* What the moves and begin() make of the pointers, with the facts that    *)
(* the invariants give about them.                                         *)
(***************************************************************************)
LEMMA TakeOverPointers ==
    ASSUME TypeOK, OwnInv, NEW c \in alive, NEW d \in Objects, c # d, TakeOver(c, d)
    PROVE  /\ made' = made /\ pinOf' = pinOf /\ c \in Objects
           /\ \A b \in made : b \in Backends /\ b # Fallback
           /\ \A e \in Objects : serial'[e] = IF e = c THEN SharedFallback
                                              ELSE IF e = d THEN serial[c] ELSE serial[e]
           /\ \A e \in Objects : captured'[e] = IF e = d THEN captured[c] ELSE captured[e]
           /\ \A b \in made : owner'[b] = IF serial[c].ptr = b /\ owner[b] # NoObject
                                          THEN d ELSE owner[b]
<1>1. serial[c].ptr \in made => serial[c].owned
  BY NotOwned DEF OwnInv, PointerInv, TypeOK
<1>2. \A b \in made : b \in Backends /\ b # Fallback
  BY NotOwned DEF TypeOK
<1> QED
  BY <1>1, <1>2 DEF TakeOver, Rebound, TypeOK

LEMMA BeginPointers ==
    ASSUME TypeOK, OwnInv, NEW c \in Objects, NEW n \in Backends, BeginOk(c, n)
    PROVE  /\ made' = made \cup {n} /\ alive' = alive
           /\ serial'[c].ptr = n
           /\ \A e \in Objects : e # c => serial'[e] = serial[e] /\ serial'[e].ptr # n
           /\ captured'[c] = pinOf'[n]
           /\ owner'[n] = IF c \in Directed THEN c ELSE NoObject
           /\ \A e \in Objects : e # c => captured'[e] = captured[e]
           /\ \A b \in Backends : b # n => owner'[b] = owner[b] /\ pinOf'[b] = pinOf[b]
<1>1. \A e \in Objects : serial[e].ptr # n
  BY NotOwned DEF BeginOk, OwnInv, PointerInv
<1>2. SerialPtr(n, TRUE).ptr = n
  BY DEF SerialPtr
<1> QED
  BY <1>1, <1>2 DEF BeginOk, OwnerFor, TypeOK

(***************************************************************************)
(* The backend of a UnitSIT3088 always points at the unit that holds it.   *)
(***************************************************************************)
THEOREM OwnerFollowsHolds == Spec => []OwnerFollows
<1> USE DEF OwnerFollows, OwnerFor, Holds
<1>1. Init => OwnerFollows
  BY DEF Init
<1>2. TypeOK /\ OwnInv /\ OwnerFollows /\ [Next]_vars => OwnerFollows'
  <2> SUFFICES ASSUME TypeOK, OwnInv, OwnerFollows, [Next]_vars PROVE OwnerFollows'
    OBVIOUS
  <2>0. /\ alive \subseteq Objects /\ made \subseteq Backends
        /\ \A b \in made : b # Fallback /\ b # NullPtr
    BY NotOwned DEF TypeOK
  <2>1. ASSUME UNCHANGED <<alive, serial, made, owner>> PROVE OwnerFollows'
    BY <2>1
  <2>2. ASSUME NEW c \in Objects, Construct(c) \/ Destroy(c) PROVE OwnerFollows'
    BY <2>0, <2>2, NotOwned DEF Construct, Destroy, TypeOK
  <2>3. ASSUME NEW c \in Objects, NEW n \in Backends, BeginOk(c, n) PROVE OwnerFollows'
    BY <2>0, <2>3, BeginPointers
  <2>4. ASSUME NEW c \in alive, NEW d \in Objects, Movable(c, d), TakeOver(c, d),
               alive' = alive \cup {d}
        PROVE  OwnerFollows'
    <3>1. c # d /\ (c \in Directed <=> d \in Directed)
      BY <2>4 DEF Movable
    <3> SUFFICES ASSUME NEW e \in alive', NEW b \in made, serial'[e].ptr = b
                 PROVE  owner'[b] = IF e \in Directed THEN e ELSE NoObject
      BY <2>4, <3>1, TakeOverPointers
    <3>2. /\ e \in Objects /\ e # c
          /\ serial'[e] = IF e = d THEN serial[c] ELSE serial[e]
          /\ owner'[b] = IF serial[c].ptr = b /\ owner[b] # NoObject THEN d ELSE owner[b]
      BY <2>0, <2>4, <3>1, TakeOverPointers, NotOwned
    <3>3. CASE e = d
      BY <2>0, <3>1, <3>2, <3>3, ComponentAssumption
    <3>4. CASE e # d
      <4>1. e \in alive /\ serial[e].ptr = b
        BY <2>4, <3>2, <3>4
      <4>2. serial[c].ptr # b
        BY <2>0, <3>2, <4>1 DEF OwnInv, UniqueInv
      <4> QED
        BY <3>2, <4>1, <4>2
    <3> QED
      BY <3>3, <3>4
  <2>5. ASSUME NEW c \in Objects, NEW d \in Objects, MoveConstruct(c, d) \/ MoveAssign(c, d)
        PROVE  OwnerFollows'
    BY <2>4, <2>5 DEF MoveConstruct, MoveAssign, Movable
  <2>6. CASE UNCHANGED vars
    BY <2>1, <2>6 DEF vars
  <2>7. ASSUME NEW c \in Objects, NEW p \in Pins \cup {NoPin}, Config(c, p)
        PROVE  OwnerFollows'
    BY <2>1, <2>7 DEF Config
  <2>8. ASSUME NEW c \in Objects, BeginRefused(c) \/ BeginFails(c) PROVE OwnerFollows'
    BY <2>1, <2>8 DEF BeginRefused, BeginFails
  <2> QED
    BY <2>2, <2>3, <2>5, <2>6, <2>7, <2>8 DEF Next
<1> QED
  BY <1>1, <1>2, ComponentTypeCorrect, OwnershipHolds, PTL DEF Spec

(***************************************************************************)
(* The unit that holds a backend has the pin begin() captured for it, or   *)
(* none.                                                                   *)
(***************************************************************************)
THEOREM PinTravelsHolds == Spec => []PinTravels
<1> USE DEF PinTravels, Holds
<1>1. Init => PinTravels
  BY DEF Init
<1>2. TypeOK /\ OwnInv /\ PinTravels /\ [Next]_vars => PinTravels'
  <2> SUFFICES ASSUME TypeOK, OwnInv, PinTravels, [Next]_vars PROVE PinTravels'
    OBVIOUS
  <2>0. /\ alive \subseteq Objects /\ made \subseteq Backends
        /\ \A b \in made : b # Fallback /\ b # NullPtr
    BY NotOwned DEF TypeOK
  <2>1. ASSUME UNCHANGED <<alive, serial, made, captured, pinOf>> PROVE PinTravels'
    BY <2>1
  <2>2. ASSUME NEW c \in Objects, Construct(c) \/ Destroy(c) PROVE PinTravels'
    BY <2>0, <2>2, NotOwned DEF Construct, Destroy, TypeOK
  <2>3. ASSUME NEW c \in Objects, NEW n \in Backends, BeginOk(c, n) PROVE PinTravels'
    BY <2>0, <2>3, BeginPointers
  <2>4. ASSUME NEW c \in alive, NEW d \in Objects, Movable(c, d), TakeOver(c, d),
               alive' = alive \cup {d}
        PROVE  PinTravels'
    <3>1. c # d /\ (c \in Directed <=> d \in Directed)
      BY <2>4 DEF Movable
    <3> SUFFICES ASSUME NEW e \in alive' \cap Directed, NEW b \in made, serial'[e].ptr = b
                 PROVE  captured'[e] \in {pinOf'[b], NoPin}
      BY <2>4, <3>1, TakeOverPointers
    <3> QED
      BY <2>0, <2>4, <3>1, TakeOverPointers, NotOwned
  <2>5. ASSUME NEW c \in Objects, NEW d \in Objects, MoveConstruct(c, d) \/ MoveAssign(c, d)
        PROVE  PinTravels'
    BY <2>4, <2>5 DEF MoveConstruct, MoveAssign, Movable
  <2>6. CASE UNCHANGED vars
    BY <2>1, <2>6 DEF vars
  <2>7. ASSUME NEW c \in Objects, NEW p \in Pins \cup {NoPin}, Config(c, p)
        PROVE  PinTravels'
    BY <2>1, <2>7 DEF Config
  <2>8. ASSUME NEW c \in Objects, BeginRefused(c) PROVE PinTravels'
    BY <2>1, <2>8 DEF BeginRefused
  <2>9. ASSUME NEW c \in Objects, BeginFails(c) PROVE PinTravels'
    BY <2>0, <2>9 DEF BeginFails, TypeOK
  <2> QED
    BY <2>2, <2>3, <2>5, <2>6, <2>7, <2>8, <2>9 DEF Next
<1> QED
  BY <1>1, <1>2, ComponentTypeCorrect, OwnershipHolds, PTL DEF Spec
-----------------------------------------------------------------------------
(***************************************************************************)
(* Who has a backend, read from the invariant.                             *)
(***************************************************************************)
LEMMA HolderFacts ==
    ASSUME TypeOK, OwnInv
    PROVE  /\ HolderOf = [b \in Backends |-> HolderOf[b]]
           /\ \A b \in Backends \ made : HolderOf[b] = "unborn"
           /\ \A b \in made :
                 (\A c \in Objects : serial[c].ptr # b) => HolderOf[b] = "freed"
           /\ \A b \in made : \A c \in Objects :
                 serial[c].ptr = b => HolderOf[b] = c
<1>0. alive \subseteq Objects /\ made \subseteq Backends
  BY DEF TypeOK
<1>1. HolderOf = [b \in Backends |-> HolderOf[b]]
  BY DEF HolderOf
<1>2. \A b \in Backends \ made : HolderOf[b] = "unborn"
  BY DEF HolderOf
<1>3. ASSUME NEW b \in made, \A c \in Objects : serial[c].ptr # b
      PROVE  HolderOf[b] = "freed"
  <2>1. deletes[b] = 1
    BY <1>3 DEF OwnInv, DeleteInv
  <2>2. Holders(b) = {}
    BY <1>0, <1>3 DEF Holders, Holds
  <2> QED
    BY <1>0, <2>1, <2>2 DEF HolderOf
<1>4. ASSUME NEW b \in made, NEW c \in Objects, serial[c].ptr = b
      PROVE  HolderOf[b] = c
  <2>1. deletes[b] = 0
    BY <1>4 DEF OwnInv, DeleteInv
  <2>2. c \in alive
    BY <1>0, <1>4, NotOwned DEF OwnInv, PointerInv
  <2>3. Holders(b) = {c}
    BY <1>0, <1>4, <2>2 DEF Holders, Holds, OwnInv, UniqueInv
  <2>4. \A d : Holders(b) = {d} => d = c
    BY <2>3
  <2>5. HolderOf[b] = CHOOSE d \in Objects : Holders(b) = {d}
    BY <1>0, <2>1, <2>3 DEF HolderOf
  <2> QED
    BY <2>3, <2>4, <2>5
<1> QED
  BY <1>1, <1>2, <1>3, <1>4

(***************************************************************************)
(* The same of the state after a step.                                     *)
(***************************************************************************)
LEMMA HolderFactsNext ==
    ASSUME TypeOK', OwnInv'
    PROVE  /\ HolderOf' = [b \in Backends |-> HolderOf'[b]]
           /\ \A b \in Backends \ made' : HolderOf'[b] = "unborn"
           /\ \A b \in made' :
                 (\A c \in Objects : serial'[c].ptr # b) => HolderOf'[b] = "freed"
           /\ \A b \in made' : \A c \in Objects :
                 serial'[c].ptr = b => HolderOf'[b] = c
<1>0. alive' \subseteq Objects /\ made' \subseteq Backends
  BY DEF TypeOK
<1>1. HolderOf' = [b \in Backends |-> HolderOf'[b]]
  BY DEF HolderOf
<1>2. \A b \in Backends \ made' : HolderOf'[b] = "unborn"
  BY DEF HolderOf
<1>3. ASSUME NEW b \in made', \A c \in Objects : serial'[c].ptr # b
      PROVE  HolderOf'[b] = "freed"
  <2>1. deletes'[b] = 1
    BY <1>3 DEF OwnInv, DeleteInv
  <2>2. Holders(b)' = {}
    BY <1>0, <1>3 DEF Holders, Holds
  <2> QED
    BY <1>0, <2>1, <2>2 DEF HolderOf
<1>4. ASSUME NEW b \in made', NEW c \in Objects, serial'[c].ptr = b
      PROVE  HolderOf'[b] = c
  <2>1. deletes'[b] = 0
    BY <1>4 DEF OwnInv, DeleteInv
  <2>2. c \in alive'
    BY <1>0, <1>4, NotOwned DEF OwnInv, PointerInv
  <2>3. Holders(b)' = {c}
    BY <1>0, <1>4, <2>2 DEF Holders, Holds, OwnInv, UniqueInv
  <2>4. \A d : Holders(b)' = {d} => d = c
    BY <2>3
  <2>5. HolderOf'[b] = CHOOSE d \in Objects : Holders(b)' = {d}
    BY <1>0, <2>1, <2>3 DEF HolderOf
  <2> QED
    BY <2>3, <2>4, <2>5
<1> QED
  BY <1>1, <1>2, <1>3, <1>4

(***************************************************************************)
(* The component implements BackendLifecycle: every begin() installs, both *)
(* moves hand over, a destructor drops, and no other step concerns a       *)
(* backend.                                                                *)
(***************************************************************************)
THEOREM BackendPromiseHolds == Spec => BackendPromise
<1>1. Init => Lifecycle!Init
  BY DEF Init, HolderOf, Lifecycle!Init
<1>2. TypeOK /\ TypeOK' /\ OwnInv /\ OwnInv' /\ [Next]_vars => [Lifecycle!Next]_HolderOf
  <2> SUFFICES ASSUME TypeOK, TypeOK', OwnInv, OwnInv', [Next]_vars
               PROVE  Lifecycle!Next \/ HolderOf' = HolderOf
    OBVIOUS
  <2>0. /\ alive \subseteq Objects /\ made \subseteq Backends /\ Fallback \notin made
        /\ \A c \in Objects, b \in made : serial[c].ptr = b => c \in alive
        /\ "unborn" \notin Objects /\ "freed" \notin Objects
    BY NotOwned, ComponentAssumption DEF TypeOK, OwnInv, PointerInv
  <2>1. ASSUME UNCHANGED <<alive, serial, made, deletes>> PROVE HolderOf' = HolderOf
    BY <2>1 DEF HolderOf, Holders, Holds
  <2>2. ASSUME NEW c \in Objects, Construct(c) PROVE HolderOf' = HolderOf
    <3>1. /\ made' = made /\ c \notin alive
          /\ \A e \in Objects : serial'[e] = IF e = c THEN SharedFallback ELSE serial[e]
      BY <2>2 DEF Construct, TypeOK
    <3>2. \A b \in made, e \in Objects : serial'[e].ptr = b <=> serial[e].ptr = b
      BY <2>0, <3>1, NotOwned
    <3>3. ASSUME NEW b \in Backends PROVE HolderOf'[b] = HolderOf[b]
      BY <3>1, <3>2, HolderFacts, HolderFactsNext
    <3> QED
      BY <3>3, HolderFacts, HolderFactsNext
  <2>3. ASSUME NEW c \in Objects, Destroy(c) PROVE Lifecycle!Drop(c)
    <3>1. /\ made' = made
          /\ \A e \in Objects : serial'[e] = IF e = c THEN Gone ELSE serial[e]
      BY <2>3 DEF Destroy, TypeOK
    <3>2. ASSUME NEW b \in Backends PROVE HolderOf'[b] = Lifecycle!FreeOf(c, b)
      <4>1. CASE b \notin made
        BY <2>0, <3>1, <4>1, HolderFacts, HolderFactsNext DEF Lifecycle!FreeOf
      <4>2. CASE b \in made /\ serial[c].ptr = b
        <5>1. \A e \in Objects : serial'[e].ptr # b
          BY <2>0, <3>1, <4>2, NotOwned DEF OwnInv, UniqueInv
        <5> QED
          BY <3>1, <4>2, <5>1, HolderFacts, HolderFactsNext DEF Lifecycle!FreeOf
      <4>3. CASE b \in made /\ serial[c].ptr # b
        <5>1. \A e \in Objects : serial'[e].ptr = b <=> serial[e].ptr = b
          BY <2>0, <3>1, <4>3, NotOwned
        <5>2. HolderOf'[b] = HolderOf[b]
          BY <3>1, <4>3, <5>1, HolderFacts, HolderFactsNext
        <5>3. HolderOf[b] # c
          BY <2>0, <4>3, HolderFacts
        <5> QED
          BY <5>2, <5>3 DEF Lifecycle!FreeOf
      <4> QED
        BY <4>1, <4>2, <4>3
    <3> QED
      BY <3>2, HolderFactsNext DEF Lifecycle!Drop
  <2>4. ASSUME NEW c \in Objects, NEW n \in Backends, BeginOk(c, n)
        PROVE  Lifecycle!Install(c, n)
    <3>1. /\ made' = made \cup {n} /\ n \notin made /\ serial'[c].ptr = n
          /\ \A e \in Objects : e # c => serial'[e] = serial[e] /\ serial'[e].ptr # n
      BY <2>4, BeginPointers DEF BeginOk
    <3>2. HolderOf[n] = "unborn"
      BY <3>1, HolderFacts
    <3>3. HolderOf'[n] = c
      BY <3>1, HolderFactsNext
    <3>4. ASSUME NEW b \in Backends, b # n PROVE HolderOf'[b] = Lifecycle!FreeOf(c, b)
      <4>1. CASE b \notin made
        BY <2>0, <3>1, <3>4, <4>1, HolderFacts, HolderFactsNext DEF Lifecycle!FreeOf
      <4>2. CASE b \in made /\ serial[c].ptr = b
        <5>1. \A e \in Objects : serial'[e].ptr # b
          BY <3>1, <3>4, <4>2 DEF OwnInv, UniqueInv
        <5> QED
          BY <3>1, <4>2, <5>1, HolderFacts, HolderFactsNext DEF Lifecycle!FreeOf
      <4>3. CASE b \in made /\ serial[c].ptr # b
        <5>1. \A e \in Objects : serial'[e].ptr = b <=> serial[e].ptr = b
          BY <3>1, <3>4, <4>3
        <5>2. HolderOf'[b] = HolderOf[b]
          BY <3>1, <4>3, <5>1, HolderFacts, HolderFactsNext
        <5>3. HolderOf[b] # c
          BY <2>0, <4>3, HolderFacts
        <5> QED
          BY <5>2, <5>3 DEF Lifecycle!FreeOf
      <4> QED
        BY <4>1, <4>2, <4>3
    <3> QED
      BY <3>2, <3>3, <3>4, HolderFactsNext DEF Lifecycle!Install
  <2>5. ASSUME NEW c \in alive, NEW d \in Objects, c # d, TakeOver(c, d)
        PROVE  Lifecycle!Hand(c, d)
    <3>1. /\ made' = made /\ c \in Objects
          /\ \A e \in Objects : serial'[e] = IF e = c THEN SharedFallback
                                             ELSE IF e = d THEN serial[c] ELSE serial[e]
      BY <2>5, TakeOverPointers
    <3>2. ASSUME NEW b \in Backends
          PROVE  HolderOf'[b] = IF HolderOf[b] = c THEN d ELSE Lifecycle!FreeOf(d, b)
      <4>1. CASE b \notin made
        BY <2>0, <3>1, <4>1, HolderFacts, HolderFactsNext DEF Lifecycle!FreeOf
      <4>2. CASE b \in made /\ serial[c].ptr = b
        <5>1. serial'[d].ptr = b
          BY <2>5, <3>1, <4>2
        <5> QED
          BY <3>1, <4>2, <5>1, HolderFacts, HolderFactsNext
      <4>3. CASE b \in made /\ serial[c].ptr # b /\ serial[d].ptr = b
        <5>1. \A e \in Objects : serial'[e].ptr # b
          BY <2>0, <3>1, <4>3, NotOwned DEF OwnInv, UniqueInv
        <5>2. HolderOf[b] = d /\ HolderOf'[b] = "freed"
          BY <3>1, <4>3, <5>1, HolderFacts, HolderFactsNext
        <5> QED
          BY <2>5, <5>2 DEF Lifecycle!FreeOf
      <4>4. CASE b \in made /\ serial[c].ptr # b /\ serial[d].ptr # b
        <5>1. \A e \in Objects : serial'[e].ptr = b <=> serial[e].ptr = b
          BY <2>0, <3>1, <4>4, NotOwned
        <5>2. HolderOf'[b] = HolderOf[b]
          BY <3>1, <4>4, <5>1, HolderFacts, HolderFactsNext
        <5>3. HolderOf[b] # c /\ HolderOf[b] # d
          BY <2>0, <3>1, <4>4, HolderFacts
        <5> QED
          BY <5>2, <5>3 DEF Lifecycle!FreeOf
      <4> QED
        BY <4>1, <4>2, <4>3, <4>4
    <3> QED
      BY <2>5, <3>2, HolderFactsNext DEF Lifecycle!Hand
  <2>6. ASSUME NEW c \in Objects, NEW d \in Objects, MoveConstruct(c, d) \/ MoveAssign(c, d)
        PROVE  Lifecycle!Hand(c, d)
    BY <2>5, <2>6 DEF MoveConstruct, MoveAssign, Movable
  <2>7. CASE UNCHANGED vars
    BY <2>1, <2>7 DEF vars
  <2>8. ASSUME NEW c \in Objects, NEW p \in Pins \cup {NoPin}, Config(c, p)
        PROVE  HolderOf' = HolderOf
    BY <2>1, <2>8 DEF Config
  <2>9. ASSUME NEW c \in Objects, BeginRefused(c) \/ BeginFails(c)
        PROVE  HolderOf' = HolderOf
    BY <2>1, <2>9 DEF BeginRefused, BeginFails
  <2> QED
    BY <2>2, <2>3, <2>4, <2>6, <2>7, <2>8, <2>9 DEF Next, Lifecycle!Next
<1> QED
  BY <1>1, <1>2, ComponentTypeCorrect, OwnershipHolds, PTL
  DEF Spec, BackendPromise, Lifecycle!Spec
-----------------------------------------------------------------------------
(***************************************************************************)
(* The writes of moved units, for any number of units, backends and pins   *)
(* and every size of ring and FIFO.  The components under the writes are   *)
(* RS485Component's, so what is proved of those holds here as well; the    *)
(* invariant below adds what a write in progress knows of its unit.        *)
(***************************************************************************)

(***************************************************************************)
(* Between the writes the components do what RS485Component says, and      *)
(* during them nothing.                                                    *)
(***************************************************************************)
THEOREM WritesKeepComponents == DirectedSpec => Spec
<1>1. DirectedInit => Init
  BY DEF DirectedInit
<1>2. [DirectedNext]_allVars => [Next]_vars
  <2> SUFFICES ASSUME [DirectedNext]_allVars PROVE [Next]_vars
    OBVIOUS
  <2>1. CASE UNCHANGED allVars
    BY <2>1 DEF allVars
  <2>2. CASE Lives
    BY <2>2 DEF Lives, KeepsLevels, Begins, Next
  <2>3. CASE WriteReturns \/ Load \/ Shift \/ \E k \in 1 .. pending : Push(k)
    BY <2>3 DEF WriteReturns, Load, Shift, Push
  <2>4. CASE \E c \in Objects : WriteNull(c) \/ \E n \in WriteSizes : StartWrite(c, n)
    BY <2>4 DEF WriteNull, StartWrite
  <2> QED
    BY <2>1, <2>2, <2>3, <2>4 DEF DirectedNext
<1> QED
  BY <1>1, <1>2, PTL DEF Spec, DirectedSpec
-----------------------------------------------------------------------------
(***************************************************************************)
(* A unit whose latest begin() did not fail has the pin its backend was    *)
(* begun with, and not merely that one or none.                            *)
(***************************************************************************)
PinFresh ==
    \A c \in (alive \cap Directed) \ refused, b \in made :
        Holds(c, b) => captured[c] = pinOf[b]

(***************************************************************************)
(* Such a unit goes on having that pin through every begin, move and       *)
(* config().                                                               *)
(***************************************************************************)
THEOREM PinFreshHolds == Spec => []PinFresh
<1> USE DEF PinFresh, Holds
<1>1. Init => PinFresh
  BY DEF Init
<1>2. TypeOK /\ OwnInv /\ PinFresh /\ [Next]_vars => PinFresh'
  <2> SUFFICES ASSUME TypeOK, OwnInv, PinFresh, [Next]_vars PROVE PinFresh'
    OBVIOUS
  <2>0. /\ alive \subseteq Objects /\ made \subseteq Backends
        /\ \A b \in made : b # Fallback /\ b # NullPtr
    BY NotOwned DEF TypeOK
  <2>1. ASSUME UNCHANGED <<alive, serial, made, captured, pinOf>>, refused \subseteq refused'
        PROVE  PinFresh'
    <3>1. ASSUME NEW c \in (alive' \cap Directed) \ refused', NEW b \in made',
                 serial'[c].ptr = b
          PROVE  captured'[c] = pinOf'[b]
      <4>1. c \in (alive \cap Directed) \ refused /\ b \in made /\ serial[c].ptr = b
        BY <2>1, <3>1
      <4> QED
        BY <2>1, <4>1
    <3> QED
      BY <3>1
  <2>2. ASSUME NEW c \in Objects, Construct(c) \/ Destroy(c) PROVE PinFresh'
    BY <2>0, <2>2, NotOwned DEF Construct, Destroy, TypeOK
  <2>3. ASSUME NEW c \in Objects, NEW n \in Backends, BeginOk(c, n) PROVE PinFresh'
    <3>1. refused' = refused \ {c}
      BY <2>3 DEF BeginOk
    <3> SUFFICES ASSUME NEW e \in (alive' \cap Directed) \ refused', NEW b \in made',
                        serial'[e].ptr = b
                 PROVE  captured'[e] = pinOf'[b]
      OBVIOUS
    <3> QED
      BY <2>0, <2>3, <3>1, BeginPointers
  <2>4. ASSUME NEW c \in alive, NEW d \in Objects, Movable(c, d), TakeOver(c, d),
               alive' = alive \cup {d}
        PROVE  PinFresh'
    <3>1. c # d /\ (c \in Directed <=> d \in Directed)
      BY <2>4 DEF Movable
    <3>2. refused' = IF c \in refused THEN refused \cup {d} ELSE refused \ {d}
      BY <2>4 DEF TakeOver
    <3> SUFFICES ASSUME NEW e \in (alive' \cap Directed) \ refused', NEW b \in made,
                        serial'[e].ptr = b
                 PROVE  captured'[e] = pinOf'[b]
      BY <2>4, <3>1, TakeOverPointers
    <3> QED
      BY <2>0, <2>4, <3>1, <3>2, TakeOverPointers, NotOwned
  <2>5. ASSUME NEW c \in Objects, NEW d \in Objects, MoveConstruct(c, d) \/ MoveAssign(c, d)
        PROVE  PinFresh'
    BY <2>4, <2>5 DEF MoveConstruct, MoveAssign, Movable
  <2>6. CASE UNCHANGED vars
    BY <2>1, <2>6 DEF vars
  <2>7. ASSUME NEW c \in Objects, NEW p \in Pins \cup {NoPin}, Config(c, p)
        PROVE  PinFresh'
    BY <2>1, <2>7 DEF Config
  <2>8. ASSUME NEW c \in Objects, BeginRefused(c) PROVE PinFresh'
    BY <2>1, <2>8 DEF BeginRefused
  <2>9. ASSUME NEW c \in Objects, BeginFails(c) PROVE PinFresh'
    BY <2>0, <2>9 DEF BeginFails, TypeOK
  <2> QED
    BY <2>2, <2>3, <2>5, <2>6, <2>7, <2>8, <2>9 DEF Next
<1> QED
  BY <1>1, <1>2, ComponentTypeCorrect, OwnershipHolds, PTL DEF Spec
-----------------------------------------------------------------------------
(***************************************************************************)
(* What a call, in progress or returned, is: none, or a write of the unit  *)
(* that has the backend.                                                   *)
(***************************************************************************)
Sound(w) ==
    \/ w = NoCall
    \/ /\ w.via \in made
       /\ w.unit \in alive \cap Directed
       /\ Holds(w.unit, w.via)
       /\ w.size \in WriteSizes

(***************************************************************************)
(* The captured pin of the unit that writes is high and no other; nothing  *)
(* is lost while that is the wired one.  Between the writes the port is    *)
(* empty and all pins are low or floating.                                 *)
(***************************************************************************)
WriteInv ==
    /\ level \in [Pins -> {"float", "low", "high"}]
    /\ tx \in TxType /\ pending \in Nat
    /\ Sound(call) /\ Sound(answer)
    /\ Idle => TxDone /\ pending = 0 /\ \A p \in Pins : level[p] # "high"
    /\ ~Idle => /\ answer = NoCall
                /\ \A p \in Pins : level[p] = "high" <=> p = captured[call.unit]
                /\ captured[call.unit] = Wired => lost = 0
    /\ answer # NoCall /\ captured[answer.unit] = Wired => lost = 0

(***************************************************************************)
(* A write is told from no write by its length.                            *)
(***************************************************************************)
LEMMA CallFacts ==
    /\ NoCall.size = 0 /\ NoCall.via = Fallback
    /\ \A b, c, n : /\ Call(b, c, n).via = b /\ Call(b, c, n).unit = c
                    /\ Call(b, c, n).size = n
    /\ 0 \notin WriteSizes
    /\ \A b, c : \A n \in WriteSizes : Call(b, c, n) # NoCall
  BY WritesAssumption DEF NoCall, Call

LEMMA TxFacts ==
    /\ FifoLen \in Nat /\ TxRing \in Nat
    /\ TxEmpty \in TxType
    /\ \A t \in TxType : t.ring \in Nat /\ t.fifo \in Nat
    /\ tx \in TxType => \A k \in Nat : Accept(k) => tx' \in TxType
    /\ tx \in TxType /\ LoadFifo => tx' \in TxType /\ ~TxDone
    /\ tx \in TxType /\ ShiftOut => tx' \in TxType /\ ~TxDone
<1> USE UartAssumption DEF TxType, TxEmpty, TxDone
<1>1. TxEmpty \in TxType
  OBVIOUS
<1>2. ASSUME tx \in TxType, NEW k \in Nat, Accept(k) PROVE tx' \in TxType
  BY <1>2 DEF Accept, TxRoom, TxFree
<1>3. ASSUME tx \in TxType, LoadFifo PROVE tx' \in TxType /\ ~TxDone
  BY <1>3 DEF LoadFifo
<1>4. ASSUME tx \in TxType, ShiftOut PROVE tx' \in TxType /\ ~TxDone
  BY <1>4 DEF ShiftOut
<1> QED
  BY <1>1, <1>2, <1>3, <1>4

(***************************************************************************)
(* What the task knows of a write in progress, whatever was done to its    *)
(* unit before it.                                                         *)
(***************************************************************************)
THEOREM WriteInvHolds == DirectedSpec => []WriteInv
<1>1. DirectedInit => WriteInv
  BY TxFacts DEF DirectedInit, WriteInv, Sound, Idle, TxDone
<1>2. TypeOK /\ TypeOK' /\ OwnInv /\ OwnerFollows /\ WriteInv /\ [DirectedNext]_allVars => WriteInv'
  <2> SUFFICES ASSUME TypeOK, TypeOK', OwnInv, OwnerFollows, WriteInv, [DirectedNext]_allVars
               PROVE  WriteInv'
    OBVIOUS
  <2>0. /\ \A c \in Objects : captured[c] \in Pins \cup {NoPin} /\ dirPin[c] \in Pins \cup {NoPin}
        /\ NoPin \notin Pins /\ alive \subseteq Objects /\ made \subseteq Backends
    BY ComponentAssumption DEF TypeOK
  <2>1. CASE UNCHANGED allVars
    BY <2>1 DEF allVars, writeVars, callVars, vars, WriteInv, Sound, Holds, Idle, TxDone
  <2>2. CASE Lives
    <3>1. Idle' /\ Sound(call)' /\ Sound(answer)' /\ answer' = NoCall /\ TxDone' /\ pending' = 0
      BY <2>2 DEF Lives, WriteInv, Sound, Idle, TxDone, NoCall
    <3>2. \/ level' = level
          \/ \E c \in Objects : dirPin[c] \in Pins /\ level' = [level EXCEPT ![dirPin[c]] = "low"]
      BY <2>0, <2>2 DEF Lives, KeepsLevels, Begins, Receives, BeginOk, BeginFails
    <3>3. level' \in [Pins -> {"float", "low", "high"}] /\ \A p \in Pins : level'[p] # "high"
      BY <2>2, <3>2 DEF Lives, WriteInv
    <3> QED
      BY <2>2, <3>1, <3>3 DEF Lives, WriteInv
  <2>3. ASSUME NEW c \in Objects, WriteNull(c) PROVE WriteInv'
    BY <2>3 DEF WriteNull, vars, WriteInv, Sound, Holds, Idle, TxDone
  <2>4. ASSUME NEW c \in Objects, NEW n \in WriteSizes, StartWrite(c, n) PROVE WriteInv'
    <3> DEFINE b == serial[c].ptr
    <3>1. /\ Idle /\ c \in alive \cap Directed /\ b \in made
          /\ call' = Call(b, owner[b], n) /\ pending' = n /\ lost' = 0 /\ answer' = NoCall
          /\ UNCHANGED <<vars, tx>> /\ SetTransmit(owner[b], "high")
      BY <2>4, NotOwned DEF StartWrite, OwnInv, PointerInv
    <3>2. owner[b] = c
      BY <3>1 DEF OwnerFollows, Holds, OwnerFor
    <3>3. /\ level' \in [Pins -> {"float", "low", "high"}]
          /\ \A p \in Pins : level'[p] = "high" <=> p = captured[c]
      BY <2>0, <3>1, <3>2 DEF SetTransmit, WriteInv
    <3>4. call'.unit = c /\ call'.via = b /\ call'.size = n /\ call' # NoCall
      BY <3>1, <3>2, CallFacts
    <3>5. Sound(call)' /\ ~Idle'
      BY <3>1, <3>4 DEF Sound, Holds, vars, Idle, NoCall
    <3> QED
      BY <3>1, <3>3, <3>4, <3>5, WritesAssumption DEF WriteInv, Sound, vars, NoCall
  <2>5. ASSUME NEW k \in 1 .. pending, Push(k) PROVE WriteInv'
    <3>1. k \in Nat /\ pending - k \in Nat
      BY <2>5 DEF WriteInv
    <3>2. tx' \in TxType
      BY <2>5, <3>1, TxFacts DEF Push, WriteInv
    <3> QED
      BY <2>5, <3>1, <3>2 DEF Push, vars, WriteInv, Sound, Holds, Idle
  <2>6. CASE WriteReturns
    <3>1. /\ ~Idle /\ pending = 0 /\ TxDone /\ SetTransmit(call.unit, "low")
          /\ call' = NoCall /\ answer' = call /\ UNCHANGED <<vars, tx, pending, lost>>
      BY <2>6 DEF WriteReturns
    <3>2. call.unit \in Objects
      BY <2>0, <3>1 DEF WriteInv, Sound, Idle
    <3>3. level' \in [Pins -> {"float", "low", "high"}] /\ \A p \in Pins : level'[p] # "high"
      BY <2>0, <3>1, <3>2 DEF SetTransmit, WriteInv
    <3>4. Sound(call)' /\ Sound(answer)' /\ Idle' /\ TxDone'
      BY <3>1 DEF WriteInv, Sound, Holds, vars, Idle, TxDone, NoCall
    <3> QED
      BY <3>1, <3>3, <3>4 DEF WriteInv, vars, Idle
  <2>7. CASE Load
    <3>1. tx' \in TxType /\ ~TxDone
      BY <2>7, TxFacts DEF Load, WriteInv
    <3> QED
      BY <2>7, <3>1 DEF Load, vars, callVars, WriteInv, Sound, Holds, Idle
  <2>8. CASE Shift
    <3>1. tx' \in TxType /\ ~TxDone
      BY <2>8, TxFacts DEF Shift, WriteInv
    <3>2. ~Idle
      BY <3>1 DEF WriteInv
    <3>3. captured[call.unit] = Wired => lost' = 0
      BY <2>8, <3>2, WritesAssumption DEF Shift, WriteInv
    <3> QED
      BY <2>8, <3>1, <3>2, <3>3 DEF Shift, vars, WriteInv, Sound, Holds, Idle
  <2> QED
    BY <2>1, <2>2, <2>3, <2>4, <2>5, <2>6, <2>7, <2>8 DEF DirectedNext
<1>3. DirectedSpec => [](TypeOK /\ OwnInv /\ OwnerFollows)
  BY WritesKeepComponents, ComponentTypeCorrect, OwnershipHolds, OwnerFollowsHolds, PTL
<1> QED
  BY <1>1, <1>2, <1>3, PTL DEF DirectedSpec
-----------------------------------------------------------------------------
(***************************************************************************)
(* A write drives no pin but the one its backend was begun with, through a *)
(* unit that lives, and nothing drives between the writes.                 *)
(***************************************************************************)
THEOREM DrivesItsPinHolds == DirectedSpec => []DrivesItsPin
<1>1. TypeOK /\ PinTravels /\ WriteInv => DrivesItsPin
  <2> SUFFICES ASSUME TypeOK, PinTravels, WriteInv PROVE DrivesItsPin
    OBVIOUS
  <2>1. CASE Idle
    BY <2>1 DEF WriteInv, DrivesItsPin
  <2>2. CASE ~Idle
    <3>1. /\ call.via \in made /\ call.unit \in alive \cap Directed
          /\ Holds(call.unit, call.via)
      BY <2>2 DEF WriteInv, Sound, Idle
    <3>2. captured[call.unit] \in {pinOf[call.via], NoPin}
      BY <3>1 DEF PinTravels
    <3> QED
      BY <2>2, <3>1, <3>2, ComponentAssumption DEF WriteInv, DrivesItsPin
  <2> QED
    BY <2>1, <2>2
<1> QED
  BY <1>1, WritesKeepComponents, ComponentTypeCorrect, PinTravelsHolds, WriteInvHolds, PTL

(***************************************************************************)
(* A write through a backend begun with the wired pin is heard in full,    *)
(* wherever it was moved, unless the unit's latest begin() failed.         *)
(***************************************************************************)
THEOREM MovedWriteIsHeardHolds == DirectedSpec => []MovedWriteIsHeard
<1>1. PinFresh /\ WriteInv => MovedWriteIsHeard
  <2> SUFFICES ASSUME PinFresh, WriteInv, answer.size > 0, pinOf[answer.via] = Wired,
                      answer.unit \notin refused
               PROVE  lost = 0
    BY DEF MovedWriteIsHeard
  <2>1. answer # NoCall
    BY CallFacts
  <2>2. captured[answer.unit] = Wired
    BY <2>1 DEF WriteInv, Sound, PinFresh
  <2> QED
    BY <2>1, <2>2 DEF WriteInv
<1> QED
  BY <1>1, WritesKeepComponents, PinFreshHolds, WriteInvHolds, PTL
=============================================================================
