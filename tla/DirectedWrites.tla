--------------------------- MODULE DirectedWrites ---------------------------
(***************************************************************************)
(* The writes of UnitSIT3088 units that are begun again, moved and         *)
(* destroyed between them: RS485Component, which says who has which        *)
(* backend and whom the backend points back at, together with the          *)
(* decorator (DirControlledSerial on Arduino, DirControlledIDFSerial on    *)
(* ESP-IDF native), which drives DIR through that pointer while the        *)
(* transmitter of UartTx is sending.                                       *)
(*                                                                         *)
(* All units have the same port, and its transceiver is wired to one GPIO. *)
(* A unit without a DIR pin has a port of its own; its writes are in       *)
(* IdfSerial and ArduinoSerial.                                            *)
(***************************************************************************)
EXTENDS RS485Component, UartTx

CONSTANTS
    Wired,       \* The GPIO that DE and /RE of the transceiver are wired to.
    WriteSizes   \* Length arguments of the writes.

ASSUME WritesAssumption ==
    /\ Wired \in Pins
    /\ WriteSizes \subseteq Nat \ {0}

VARIABLES
    level,       \* The level of each GPIO: "float" until it is configured.
    call,        \* The write in progress: [via, unit, size], or NoCall.
    pending,     \* Bytes the driver has not accepted yet.
    lost,        \* Bytes of the latest write that went out with DIR low.
    answer       \* The latest write that has returned, and what it returned.

callVars == <<call, pending, lost, answer>>
writeVars == <<tx, level, callVars>>
allVars == <<vars, writeVars>>

(***************************************************************************)
(* The local variable unit of the decorator's write(), the backend it is   *)
(* a method of, and its argument n.                                        *)
(***************************************************************************)
Call(b, c, n) == [via |-> b, unit |-> c, size |-> n]
NoCall == Call(Fallback, NoObject, 0)

DirectedInit ==
    /\ Init
    /\ tx = TxEmpty
    /\ level = [p \in Pins |-> "float"]
    /\ call = NoCall
    /\ pending = 0
    /\ lost = 0
    /\ answer = NoCall

Idle == call = NoCall
-----------------------------------------------------------------------------
(* Between the writes.                                                     *)

(***************************************************************************)
(* begin() of a UnitSIT3088 makes its pin an output and low, whether or    *)
(* not the second half then succeeds.                                      *)
(***************************************************************************)
Receives(c) ==
    level' = IF c \in Directed THEN [level EXCEPT ![dirPin[c]] = "low"] ELSE level

Begins(c) ==
    /\ \/ \E n \in Backends : BeginOk(c, n)
       \/ BeginFails(c)
    /\ Receives(c)

KeepsLevels ==
    /\ \/ \E c \in Objects :
             \/ Construct(c)
             \/ Destroy(c)
             \/ \E p \in Pins \cup {NoPin} : Config(c, p)
             \/ BeginRefused(c)
       \/ \E c, d \in Objects : MoveConstruct(c, d) \/ MoveAssign(c, d)
    /\ UNCHANGED level

(***************************************************************************)
(* The life of the components goes on between the writes of the one task   *)
(* that uses them.                                                         *)
(***************************************************************************)
Lives ==
    /\ Idle
    /\ KeepsLevels \/ \E c \in Objects : Begins(c)
    /\ lost' = 0
    /\ answer' = NoCall
    /\ UNCHANGED <<tx, call, pending>>
-----------------------------------------------------------------------------
(* The write of a decorator.                                               *)

(***************************************************************************)
(* set_transmit() of the unit c: drives the pin it has captured, if any.   *)
(***************************************************************************)
SetTransmit(c, v) ==
    level' = IF captured[c] = NoPin THEN level ELSE [level EXCEPT ![captured[c]] = v]

(***************************************************************************)
(* Before begin(), and in a unit that was moved from, every write is       *)
(* NullSerial's and answers 0.                                             *)
(***************************************************************************)
WriteNull(c) ==
    /\ Idle
    /\ c \in alive \cap Directed
    /\ serial[c].ptr = Fallback
    /\ lost' = 0
    /\ answer' = NoCall
    /\ UNCHANGED <<vars, tx, level, call, pending>>

(***************************************************************************)
(* The decorator asks the backend's owner, not the unit that was called,   *)
(* to raise DIR.                                                           *)
(***************************************************************************)
StartWrite(c, n) ==
    /\ Idle
    /\ c \in alive \cap Directed
    /\ serial[c].ptr \in Backends
    /\ LET b == serial[c].ptr
       IN  /\ call' = Call(b, owner[b], n)
           /\ SetTransmit(owner[b], "high")
    /\ pending' = n
    /\ lost' = 0
    /\ answer' = NoCall
    /\ UNCHANGED <<vars, tx>>

Push(k) ==
    /\ ~Idle
    /\ k <= pending
    /\ Accept(k)
    /\ pending' = pending - k
    /\ UNCHANGED <<vars, level, call, lost, answer>>

(***************************************************************************)
(* Everything is handed over, flush() has seen the last bit out, and the   *)
(* same unit lowers DIR.                                                   *)
(***************************************************************************)
WriteReturns ==
    /\ ~Idle
    /\ pending = 0
    /\ TxDone
    /\ SetTransmit(call.unit, "low")
    /\ call' = NoCall
    /\ answer' = call
    /\ UNCHANGED <<vars, tx, pending, lost>>

Load == LoadFifo /\ UNCHANGED <<vars, level, callVars>>

(***************************************************************************)
(* A byte goes out: to the bus unless DIR is low.                          *)
(***************************************************************************)
Shift ==
    /\ ShiftOut
    /\ lost' = IF level[Wired] = "low" THEN lost + 1 ELSE lost
    /\ UNCHANGED <<vars, level, call, pending, answer>>

DirectedNext ==
    \/ Lives
    \/ \E c \in Objects : WriteNull(c) \/ \E n \in WriteSizes : StartWrite(c, n)
    \/ \E k \in 1 .. pending : Push(k)
    \/ WriteReturns
    \/ Load
    \/ Shift

DirectedSpec == DirectedInit /\ [][DirectedNext]_allVars
-----------------------------------------------------------------------------
(***************************************************************************)
(* A write drives through a UnitSIT3088 that lives, and raises no pin but  *)
(* the one that the begin() which built its backend has set up, however    *)
(* often backend and units have been moved, configured and begun again     *)
(* since; between the writes no pin drives the bus and nothing is waiting  *)
(* to be sent.                                                             *)
(***************************************************************************)
DrivesItsPin ==
    /\ IF Idle THEN TxDone ELSE call.unit \in alive \cap Directed
    /\ \A p \in Pins : level[p] = "high" => ~Idle /\ p = pinOf[call.via]

(***************************************************************************)
(* A write through a backend that was begun with the wired pin is heard in *)
(* full, wherever the backend has been moved to, unless the latest begin() *)
(* of the unit that has it failed.                                         *)
(***************************************************************************)
MovedWriteIsHeard ==
    /\ answer.size > 0
    /\ pinOf[answer.via] = Wired
    /\ answer.unit \notin refused
    => lost = 0
=============================================================================
