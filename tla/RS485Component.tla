--------------------------- MODULE RS485Component ---------------------------
(***************************************************************************)
(* Who owns the serial backend of a component, through begin(), the move   *)
(* members and destruction (src/unit/rs485_component.cpp), with the part   *)
(* of UnitSIT3088 that travels: its backend points back at the unit whose  *)
(* DIR pin it drives.                                                      *)
(*                                                                         *)
(* An object is a place in memory where a component may be constructed,    *)
(* moved from and destroyed.  Whether begin() finds a usable adapter is    *)
(* the environment's choice at every call.                                 *)
(***************************************************************************)
EXTENDS Integers

CONSTANTS
    Objects,    \* Places a component may live in.
    Directed,   \* The ones of type UnitSIT3088; the others are UnitSP485.
    Backends,   \* Backends that make_serial() may build, a bound for TLC.
    Pins,       \* Usable DIR pins.
    NoPin,      \* -1, no DIR pin.
    NoObject,   \* A null owner pointer.
    Fallback,   \* The NullSerial in static storage that every component shares.
    NullPtr     \* What a unique_ptr that was moved from holds.

ASSUME ComponentAssumption ==
    /\ Directed \subseteq Objects
    /\ NoPin \notin Pins
    /\ NoObject \notin Objects
    /\ Fallback \notin Backends
    /\ NullPtr \notin Backends \cup {Fallback}
    /\ {"unborn", "freed", "broken"} \cap Objects = {}

VARIABLES
    alive,      \* The objects that are constructed and not destroyed.
    serial,     \* _serial: [ptr, owned], the pointer with its SerialDeleter.
    made,       \* The backends built so far.
    deletes,    \* How often each backend, and the fallback, was deleted.
    owner,      \* _owner of each backend.
    dirPin,     \* _dir_pin of each object.
    captured,   \* _configured_dir_pin of each object.
    pinOf,      \* History: the pin begin() captured for each backend.
    refused     \* History: the objects whose latest begin() failed.

vars == <<alive, serial, made, deletes, owner, dirPin, captured, pinOf, refused>>

SerialPtr(p, owned) == [ptr |-> p, owned |-> owned]
SharedFallback == SerialPtr(Fallback, FALSE)
Gone == SerialPtr(NullPtr, FALSE)

Init ==
    /\ alive = {}
    /\ serial = [c \in Objects |-> Gone]
    /\ made = {}
    /\ deletes = [b \in Backends \cup {Fallback} |-> 0]
    /\ owner = [b \in Backends |-> NoObject]
    /\ dirPin = [c \in Objects |-> NoPin]
    /\ captured = [c \in Objects |-> NoPin]
    /\ pinOf = [b \in Backends |-> NoPin]
    /\ refused = {}
-----------------------------------------------------------------------------
(***************************************************************************)
(* The deleter ignores its flag: a mutant of Deletes.                      *)
(***************************************************************************)
DeletesAll(s, b) == s.ptr = b

(***************************************************************************)
(* The deleter's flag negated: a mutant of Deletes.                        *)
(***************************************************************************)
DeletesShared(s, b) == ~s.owned /\ s.ptr = b

(***************************************************************************)
(* SerialDeleter: only what is owned is deleted.                           *)
(***************************************************************************)
Deletes(s, b) == s.owned /\ s.ptr = b

(***************************************************************************)
(* Assigning to, or destroying, the unique_ptr that holds s applies the    *)
(* deleter s came with.                                                    *)
(***************************************************************************)
Release(s) ==
    [b \in Backends \cup {Fallback} |->
        IF Deletes(s, b) THEN deletes[b] + 1 ELSE deletes[b]]

(***************************************************************************)
(* The move does not call rebind(): a mutant of Rebound.                   *)
(***************************************************************************)
ReboundNever(d, s) == owner

(***************************************************************************)
(* rebind_serial() of the object d that s has just been moved into: an     *)
(* owned backend is told its component.  Only the backend of a UnitSIT3088 *)
(* overrides rebind() and keeps the pointer.                               *)
(***************************************************************************)
Rebound(d, s) ==
    [b \in Backends |->
        IF s.owned /\ s.ptr = b /\ owner[b] # NoObject THEN d ELSE owner[b]]

(***************************************************************************)
(* A new component answers through the fallback.                           *)
(***************************************************************************)
Construct(c) ==
    /\ c \notin alive
    /\ alive' = alive \cup {c}
    /\ serial' = [serial EXCEPT ![c] = SharedFallback]
    /\ dirPin' = [dirPin EXCEPT ![c] = NoPin]
    /\ captured' = [captured EXCEPT ![c] = NoPin]
    /\ refused' = refused \ {c}
    /\ UNCHANGED <<made, deletes, owner, pinOf>>

Destroy(c) ==
    /\ c \in alive
    /\ alive' = alive \ {c}
    /\ deletes' = Release(serial[c])
    /\ serial' = [serial EXCEPT ![c] = Gone]
    /\ UNCHANGED <<made, owner, dirPin, captured, pinOf, refused>>

Config(c, p) ==
    /\ c \in alive \cap Directed
    /\ dirPin' = [dirPin EXCEPT ![c] = p]
    /\ UNCHANGED <<alive, serial, made, deletes, owner, captured, pinOf, refused>>

(***************************************************************************)
(* GPIO 0 for a unit without a DIR pin: a mutant of PinFor.                *)
(***************************************************************************)
PinForZero(c) == IF c \in Directed THEN dirPin[c] ELSE 0

(***************************************************************************)
(* The pin a begin() captures: its own for a UnitSIT3088, none otherwise.  *)
(***************************************************************************)
PinFor(c) == IF c \in Directed THEN dirPin[c] ELSE NoPin

(***************************************************************************)
(* make_serial() of UnitSIT3088 passes the unit to its decorator.          *)
(***************************************************************************)
OwnerFor(c) == IF c \in Directed THEN c ELSE NoObject

(***************************************************************************)
(* begin() of either unit with a usable adapter: make_serial() builds a    *)
(* backend, bound to the unit if it is a UnitSIT3088, and install_serial() *)
(* puts it in place of the one there was.                                  *)
(***************************************************************************)
BeginOk(c, n) ==
    /\ c \in alive
    /\ n \notin made
    /\ c \in Directed => dirPin[c] # NoPin
    /\ made' = made \cup {n}
    /\ captured' = [captured EXCEPT ![c] = PinFor(c)]
    /\ pinOf' = [pinOf EXCEPT ![n] = PinFor(c)]
    /\ owner' = [owner EXCEPT ![n] = OwnerFor(c)]
    /\ deletes' = Release(serial[c])
    /\ serial' = [serial EXCEPT ![c] = SerialPtr(n, TRUE)]
    /\ refused' = refused \ {c}
    /\ UNCHANGED <<alive, dirPin>>

(***************************************************************************)
(* UnitSIT3088::begin() refuses an unset pin before it touches anything.   *)
(***************************************************************************)
BeginRefused(c) ==
    /\ c \in alive \cap Directed
    /\ dirPin[c] = NoPin
    /\ refused' = refused \cup {c}
    /\ UNCHANGED <<alive, serial, made, deletes, owner, dirPin, captured, pinOf>>

(***************************************************************************)
(* RS485Component::begin() finds no usable adapter; UnitSIT3088::begin()   *)
(* then takes back the pin it had captured.                                *)
(***************************************************************************)
BeginFails(c) ==
    /\ c \in alive
    /\ c \in Directed => dirPin[c] # NoPin
    /\ captured' = [captured EXCEPT ![c] = NoPin]
    /\ refused' = refused \cup {c}
    /\ UNCHANGED <<alive, serial, made, deletes, owner, dirPin, pinOf>>

(***************************************************************************)
(* The moves are between units of one type: the base's are protected.      *)
(***************************************************************************)
Movable(c, d) == c \in alive /\ c # d /\ (c \in Directed <=> d \in Directed)

(***************************************************************************)
(* The component that was moved from is left with a null pointer: a mutant *)
(* of TakeOver.                                                            *)
(***************************************************************************)
TakeOverLeavesNull(c, d) ==
    /\ serial' = [serial EXCEPT ![d] = serial[c], ![c] = Gone]
    /\ owner' = Rebound(d, serial[c])
    /\ dirPin' = [dirPin EXCEPT ![d] = dirPin[c]]
    /\ captured' = [captured EXCEPT ![d] = captured[c]]
    /\ refused' = IF c \in refused THEN refused \cup {d} ELSE refused \ {d}
    /\ UNCHANGED <<made, pinOf>>

(***************************************************************************)
(* _configured_dir_pin is not among the members that are copied: a mutant  *)
(* of TakeOver.                                                            *)
(***************************************************************************)
TakeOverForgetsPin(c, d) ==
    /\ serial' = [serial EXCEPT ![d] = serial[c], ![c] = SharedFallback]
    /\ owner' = Rebound(d, serial[c])
    /\ dirPin' = [dirPin EXCEPT ![d] = dirPin[c]]
    /\ refused' = IF c \in refused THEN refused \cup {d} ELSE refused \ {d}
    /\ UNCHANGED <<made, captured, pinOf>>

(***************************************************************************)
(* Both moves: d has taken over the pointer, c falls back, and the backend *)
(* is rebound to d.  The members of UnitSIT3088 are copied after that.     *)
(***************************************************************************)
TakeOver(c, d) ==
    /\ serial' = [serial EXCEPT ![d] = serial[c], ![c] = SharedFallback]
    /\ owner' = Rebound(d, serial[c])
    /\ dirPin' = [dirPin EXCEPT ![d] = dirPin[c]]
    /\ captured' = [captured EXCEPT ![d] = captured[c]]
    /\ refused' = IF c \in refused THEN refused \cup {d} ELSE refused \ {d}
    /\ UNCHANGED <<made, pinOf>>

MoveConstruct(c, d) ==
    /\ Movable(c, d)
    /\ d \notin alive
    /\ alive' = alive \cup {d}
    /\ TakeOver(c, d)
    /\ UNCHANGED deletes

(***************************************************************************)
(* The assignment of the unique_ptr releases what d held; the one that     *)
(* gives c the fallback finds nothing to release.                          *)
(***************************************************************************)
MoveAssign(c, d) ==
    /\ Movable(c, d)
    /\ d \in alive
    /\ deletes' = Release(serial[d])
    /\ TakeOver(c, d)
    /\ UNCHANGED alive

Next ==
    \/ \E c \in Objects :
          \/ Construct(c)
          \/ Destroy(c)
          \/ \E p \in Pins \cup {NoPin} : Config(c, p)
          \/ \E n \in Backends : BeginOk(c, n)
          \/ BeginRefused(c)
          \/ BeginFails(c)
    \/ \E c, d \in Objects : MoveConstruct(c, d) \/ MoveAssign(c, d)

Spec == Init /\ [][Next]_vars
-----------------------------------------------------------------------------
TypeOK ==
    /\ alive \subseteq Objects
    /\ serial \in [Objects -> [ptr : Backends \cup {Fallback, NullPtr}, owned : BOOLEAN]]
    /\ made \subseteq Backends
    /\ deletes \in [Backends \cup {Fallback} -> Nat]
    /\ owner \in [Backends -> Objects \cup {NoObject}]
    /\ dirPin \in [Objects -> Pins \cup {NoPin}]
    /\ captured \in [Objects -> Pins \cup {NoPin}]
    /\ pinOf \in [Backends -> Pins \cup {NoPin}]
    /\ refused \subseteq Objects

Holds(c, b) == c \in alive /\ serial[c].ptr = b

(***************************************************************************)
(* A component that lives can always be called: its pointer is never null, *)
(* and never one that was deleted.                                         *)
(***************************************************************************)
NeverDangling ==
    \A c \in alive : serial[c].ptr # NullPtr /\ deletes[serial[c].ptr] = 0

(***************************************************************************)
(* Every backend is deleted at most once, the shared fallback never, and   *)
(* one that is not deleted has a component that will delete it.            *)
(***************************************************************************)
DeletedOnce ==
    /\ deletes[Fallback] = 0
    /\ \A b \in made : \/ deletes[b] = 1
                       \/ deletes[b] = 0 /\ \E c \in alive : Holds(c, b) /\ serial[c].owned

(***************************************************************************)
(* The backend of a UnitSIT3088 points at the unit that holds it, however  *)
(* it got there: a write through any component raises that component's     *)
(* DIR, and the static_cast of the decorator finds a UnitSIT3088.          *)
(***************************************************************************)
OwnerFollows ==
    \A c \in alive, b \in made :
        Holds(c, b) => owner[b] = OwnerFor(c)

(***************************************************************************)
(* The pin captured for a backend travels with it: the unit that holds the *)
(* backend has that pin, or none after a begin() that failed, and never    *)
(* one that config() or another unit's begin() has set since.              *)
(***************************************************************************)
PinTravels ==
    \A c \in alive \cap Directed, b \in made :
        Holds(c, b) => captured[c] \in {pinOf[b], NoPin}

(***************************************************************************)
(* "Before begin(), and after a begin() that failed, that is a shared      *)
(* no-op backend" (MIGRATION.md, of iserial()).                            *)
(***************************************************************************)
RefusedIsSilent == \A c \in alive \cap refused : serial[c] = SharedFallback

(***************************************************************************)
(* The component implements the promise of BackendLifecycle.               *)
(***************************************************************************)
Holders(b) == {c \in alive : Holds(c, b)}

HolderOf ==
    [b \in Backends |->
        IF b \notin made THEN "unborn"
        ELSE IF deletes[b] = 1 /\ Holders(b) = {} THEN "freed"
        ELSE IF deletes[b] = 0 /\ \E c \in Objects : Holders(b) = {c}
             THEN CHOOSE c \in Objects : Holders(b) = {c}
        ELSE "broken"]

Lifecycle == INSTANCE BackendLifecycle WITH holder <- HolderOf

BackendPromise == Lifecycle!Spec
=============================================================================
