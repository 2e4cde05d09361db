----------------------------- MODULE BoardSetup -----------------------------
(***************************************************************************)
(* Setting up a UnitSIT3088 on a board: the helpers of                     *)
(* src/wiring/m5_unit_unified_rs485_wiring.hpp, the same steps on Arduino  *)
(* and on ESP-IDF native, look the pins up, set dir_pin, open the port and *)
(* register the unit, each of which may fail with the earlier ones done;   *)
(* UnitUnified then begins what is registered.  A failed setup may be      *)
(* tried again.  Below it runs the model of the unit itself.               *)
(***************************************************************************)
EXTENDS UnitSIT3088

CONSTANT Boards    \* The boards M5.getBoard() may report.

Helpers == {"tab5", "atomic"}

VARIABLES
    board,         \* M5.getBoard(), chosen once.
    registered,    \* UnitUnified has the unit, with the port it was added with.
    via,           \* The helper that registered it, or "own" where the
                   \* application has put a pin of its own in dir_pin since.
    setup,         \* How far the application's setup() has come.
    begun          \* History: the pins with which a begin() got past its guard.

boardVars == <<board, registered, via, setup, begun>>
allVars == <<vars, boardVars>>

(***************************************************************************)
(* No port is open yet.  dir_pin is unset, or the one the constructor of   *)
(* Tab5BuiltinRS485 has set.                                               *)
(***************************************************************************)
BoardInit ==
    /\ up = FALSE
    /\ tx = TxEmpty
    /\ dirPin \in {NoPin, Wired}
    /\ captured = NoPin
    /\ backend = "null"
    /\ level = [p \in Pins |-> "float"]
    /\ pc = "idle"
    /\ op = "none"
    /\ size = 0
    /\ pending = 0
    /\ lost = 0
    /\ reply = Answer("none", 0)
    /\ board \in Boards
    /\ registered = FALSE
    /\ via = "none"
    /\ setup = "none"
    /\ begun = {}

(***************************************************************************)
(* atomicBaseUartPins() and tab5BuiltinRS485Pins() know pins for the       *)
(* board.                                                                  *)
(***************************************************************************)
AtomicPins == board = "atom"
Tab5Pins == board = "tab5"

Supported(h) == IF h = "tab5" THEN Tab5Pins ELSE AtomicPins

(***************************************************************************)
(* dir_pin is set only where it is unset: a mutant of SetsDirPin.          *)
(***************************************************************************)
SetsDirPinIfUnset(h) ==
    dirPin' = IF h = "tab5" /\ dirPin = NoPin THEN Wired ELSE dirPin

(***************************************************************************)
(* GPIO 0 where there is no DIR pin: a mutant of SetsDirPin.               *)
(***************************************************************************)
SetsDirPinZero(h) == dirPin' = IF h = "tab5" THEN Wired ELSE 0

(***************************************************************************)
(* Only the helper of the Tab5 knows a DIR pin.                            *)
(***************************************************************************)
SetsDirPin(h) == dirPin' = IF h = "tab5" THEN Wired ELSE dirPin

NotReady == setup # "ready" /\ pc = "idle"

AddUnsupported(h) ==
    /\ NotReady
    /\ ~Supported(h)
    /\ setup' = "failed"
    /\ UNCHANGED <<vars, board, registered, via, begun>>

(***************************************************************************)
(* uartPortHandle(), or beginUartSerial() on Arduino, fails.               *)
(***************************************************************************)
AddWithoutPort(h) ==
    /\ NotReady
    /\ Supported(h)
    /\ SetsDirPin(h)
    /\ setup' = "failed"
    /\ UNCHANGED <<up, tx, captured, backend, level, callVars, lost, reply,
                   board, registered, via, begun>>

(***************************************************************************)
(* UnitUnified::add() refuses the unit, which it does in particular when   *)
(* it has it already.  The port stays open.                                *)
(***************************************************************************)
AddRefused(h) ==
    /\ NotReady
    /\ Supported(h)
    /\ SetsDirPin(h)
    /\ up' = TRUE
    /\ setup' = "failed"
    /\ UNCHANGED <<tx, captured, backend, level, callVars, lost, reply,
                   board, registered, via, begun>>

AddOk(h) ==
    /\ NotReady
    /\ Supported(h)
    /\ ~registered
    /\ SetsDirPin(h)
    /\ up' = TRUE
    /\ registered' = TRUE
    /\ via' = h
    /\ setup' = "added"
    /\ UNCHANGED <<tx, captured, backend, level, callVars, lost, reply,
                   board, begun>>

(***************************************************************************)
(* UnitUnified::begin() begins the unit.                                   *)
(***************************************************************************)
UnitsBegin ==
    /\ NotReady
    /\ registered
    /\ \/ BeginRefused /\ setup' = "failed"
       \/ BeginFails /\ ~up /\ setup' = "failed"
       \/ BeginOk /\ setup' = "ready"
    /\ begun' = begun \cup ({dirPin} \ {NoPin})
    /\ UNCHANGED <<board, registered, via>>

(***************************************************************************)
(* The application sets dir_pin to whatever it likes, whenever it likes;   *)
(* between a helper and begin() it replaces what the helper chose.         *)
(***************************************************************************)
Configures(p) ==
    /\ Config(p)
    /\ via' = IF registered /\ setup # "ready" THEN "own" ELSE via
    /\ UNCHANGED <<board, registered, setup, begun>>

Runs ==
    /\ \/ \E o \in Writes : WriteNull(o)
       \/ \E o \in Writes, n \in WriteSizes : StartWrite(o, n)
       \/ Progress
       \/ Load
       \/ Shift
       \/ registered /\ DriverToggle
    /\ UNCHANGED boardVars

BoardNext ==
    \/ \E h \in Helpers :
          AddUnsupported(h) \/ AddWithoutPort(h) \/ AddRefused(h) \/ AddOk(h)
    \/ UnitsBegin
    \/ \E p \in Pins \cup {NoPin} : Configures(p)
    \/ Runs

BoardSpec == BoardInit /\ [][BoardNext]_allVars
-----------------------------------------------------------------------------
BoardTypeOK ==
    /\ TypeOK
    /\ board \in Boards
    /\ registered \in BOOLEAN
    /\ via \in Helpers \cup {"none", "own"}
    /\ setup \in {"none", "added", "failed", "ready"}
    /\ begun \subseteq Pins

(***************************************************************************)
(* After a setup by addTab5BuiltinRS485UART() that succeeded, whatever     *)
(* came before it and whatever is configured once it runs, the transceiver *)
(* is the unit's: between the calls it receives, and a write that reports  *)
(* bytes written has put all of them on the bus.                           *)
(***************************************************************************)
SetUpIsHeard ==
    setup = "ready" /\ via = "tab5" /\ pc = "idle" =>
        /\ level[Wired] = "low"
        /\ reply.op \in Writes /\ reply.val > 0 => lost = 0

(***************************************************************************)
(* When the node holds the bus.  Until a begin() gets past its guard with  *)
(* the pin that DIR is wired to, DIR floats and the bus is held, however   *)
(* many setups have failed by then.  From that begin() on, whether or not  *)
(* it succeeded, and whatever later setups and begin()s do with this or    *)
(* another pin, it is held only while a write through that pin is sending. *)
(* Nothing is sent before a setup has succeeded, and on a board without    *)
(* pins no port is opened and no pin taken.                                *)
(***************************************************************************)
ReleasedOnceBegun ==
    /\ \A p \in Pins :
          HoldsBus(p) <=> p \notin begun \/ (p = captured /\ pc \in Raised)
    /\ setup # "ready" => backend = "null" /\ TxDone
    /\ board \notin {"tab5", "atom"} => ~up /\ begun = {}
=============================================================================
