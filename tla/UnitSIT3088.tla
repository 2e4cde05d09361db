---------------------------- MODULE UnitSIT3088 ----------------------------
(***************************************************************************)
(* The direction pin of UnitSIT3088 (src/unit/unit_SIT3088.cpp) on ESP-IDF *)
(* native: begin(), which sets the pin up, and the writes of its decorator *)
(* DirControlledIDFSerial, which raise DIR, hand the bytes to the driver,  *)
(* wait for the last one to be out and lower DIR.  The transmitter shifts  *)
(* bytes out between any two steps of the calling task, and a byte that    *)
(* goes out while DIR is low never reaches the bus.  DirectedWrites has    *)
(* what the writes share with DirControlledSerial, the one of Arduino.     *)
(***************************************************************************)
EXTENDS UartTx

CONSTANTS
    Pins,        \* GPIOs that dir_pin may name and that pass begin()'s guard.
    NoPin,       \* -1, dir_pin unset.
    Wired,       \* The GPIO that DE and /RE of the transceiver are wired to.
    WriteSizes   \* Length arguments of the writes.

ASSUME SITAssumption ==
    /\ NoPin \notin Pins
    /\ Wired \in Pins
    /\ WriteSizes \subseteq Nat \ {0}

VARIABLES
    up,          \* uart_is_driver_installed().
    dirPin,      \* _dir_pin, what config() set.
    captured,    \* _configured_dir_pin.
    backend,     \* "null" or "directed": what _serial points at.
    level,       \* The level of each GPIO: "float" until it is configured.
    pc,          \* Where the calling task is.
    op,          \* The call it is in.
    size,        \* The length argument of that call.
    pending,     \* Bytes the driver has not accepted yet.
    lost,        \* Bytes of the latest write that went out with DIR low.
    reply        \* The latest answer: [op, val].

unitVars == <<dirPin, captured, backend>>
callVars == <<pc, op, size, pending>>
vars == <<up, tx, unitVars, level, callVars, lost, reply>>

Writes == {"write", "write_waiting"}

Answer(o, v) == [op |-> o, val |-> v]

Init ==
    /\ up = TRUE
    /\ tx = TxEmpty
    /\ dirPin = NoPin
    /\ captured = NoPin
    /\ backend = "null"
    /\ level = [p \in Pins |-> "float"]
    /\ pc = "idle"
    /\ op = "none"
    /\ size = 0
    /\ pending = 0
    /\ lost = 0
    /\ reply = Answer("none", 0)
-----------------------------------------------------------------------------
Config(p) ==
    /\ pc = "idle"
    /\ dirPin' = p
    /\ reply' = Answer("config", 0)
    /\ UNCHANGED <<up, tx, captured, backend, level, callVars, lost>>

(***************************************************************************)
(* The pin of config() instead of the one begin() set up: a mutant of      *)
(* SetTransmit.                                                            *)
(***************************************************************************)
SetTransmitByConfig(enable) ==
    level' = IF dirPin = NoPin THEN level
             ELSE [level EXCEPT ![dirPin] = IF enable THEN "high" ELSE "low"]

(***************************************************************************)
(* set_transmit(): drives the captured pin, and nothing without one.       *)
(***************************************************************************)
SetTransmit(enable) ==
    level' = IF captured = NoPin THEN level
             ELSE [level EXCEPT ![captured] = IF enable THEN "high" ELSE "low"]

(***************************************************************************)
(* begin() is refused before it touches a pin.                             *)
(***************************************************************************)
BeginRefused ==
    /\ pc = "idle"
    /\ dirPin = NoPin
    /\ reply' = Answer("begin", 0)
    /\ UNCHANGED <<up, tx, unitVars, level, callVars, lost>>

(***************************************************************************)
(* configure_dir_pin(), the capture and set_transmit(false): the pin is an *)
(* output and low.                                                         *)
(***************************************************************************)
StartsReceiving == level' = [level EXCEPT ![dirPin] = "low"]

BeginOk ==
    /\ pc = "idle"
    /\ dirPin # NoPin
    /\ up
    /\ StartsReceiving
    /\ captured' = dirPin
    /\ backend' = "directed"
    /\ reply' = Answer("begin", 1)
    /\ UNCHANGED <<up, tx, dirPin, callVars, lost>>

(***************************************************************************)
(* The pin is let go as well, to float back to its pull-up: a mutant of    *)
(* BeginFails.                                                             *)
(***************************************************************************)
BeginFailsLetsGo ==
    /\ pc = "idle"
    /\ dirPin # NoPin
    /\ level' = [level EXCEPT ![dirPin] = "float"]
    /\ captured' = NoPin
    /\ reply' = Answer("begin", 0)
    /\ UNCHANGED <<up, tx, dirPin, backend, callVars, lost>>

(***************************************************************************)
(* RS485Component::begin() finds no usable adapter or no driver: the pin   *)
(* stays low, the capture is taken back, the backend there was stays.      *)
(***************************************************************************)
BeginFails ==
    /\ pc = "idle"
    /\ dirPin # NoPin
    /\ StartsReceiving
    /\ captured' = NoPin
    /\ reply' = Answer("begin", 0)
    /\ UNCHANGED <<up, tx, dirPin, backend, callVars, lost>>
-----------------------------------------------------------------------------
(***************************************************************************)
(* Through the shared fallback every write answers 0.                      *)
(***************************************************************************)
WriteNull(o) ==
    /\ pc = "idle"
    /\ backend = "null"
    /\ reply' = Answer(o, 0)
    /\ UNCHANGED <<up, tx, unitVars, level, callVars, lost>>

StartWrite(o, n) ==
    /\ pc = "idle"
    /\ backend = "directed"
    /\ pc' = "raise"
    /\ op' = o
    /\ size' = n
    /\ pending' = n
    /\ lost' = 0
    /\ UNCHANGED <<up, tx, unitVars, level, reply>>

(***************************************************************************)
(* The write goes ahead without raising DIR: a mutant of Raise.            *)
(***************************************************************************)
RaiseForgotten ==
    /\ pc = "raise"
    /\ pc' = "pushing"
    /\ UNCHANGED <<up, tx, unitVars, level, op, size, pending, lost, reply>>

Raise ==
    /\ pc = "raise"
    /\ SetTransmit(TRUE)
    /\ pc' = "pushing"
    /\ UNCHANGED <<up, tx, unitVars, op, size, pending, lost, reply>>

(***************************************************************************)
(* uart_write_bytes() in IDFSerial::write() hands k more bytes over.       *)
(***************************************************************************)
Push(k) ==
    /\ pc = "pushing"
    /\ up
    /\ k <= pending
    /\ Accept(k)
    /\ pending' = pending - k
    /\ UNCHANGED <<up, unitVars, level, pc, op, size, lost, reply>>

Pushed ==
    /\ pc = "pushing"
    /\ pending = 0 \/ ~up
    /\ pc' = "draining"
    /\ UNCHANGED <<up, tx, unitVars, level, op, size, pending, lost, reply>>

(***************************************************************************)
(* DIR is lowered without waiting for the last byte: a mutant of Drained.  *)
(***************************************************************************)
DrainedAtOnce ==
    /\ pc = "draining"
    /\ pc' = "lower"
    /\ UNCHANGED <<up, tx, unitVars, level, op, size, pending, lost, reply>>

(***************************************************************************)
(* IDFSerial::flush() returns when everything is out.                      *)
(***************************************************************************)
Drained ==
    /\ pc = "draining"
    /\ TxDone \/ ~up
    /\ pc' = "lower"
    /\ UNCHANGED <<up, tx, unitVars, level, op, size, pending, lost, reply>>

(***************************************************************************)
(* The driver's error code passed on as a length: a mutant of Written.     *)
(***************************************************************************)
WrittenRaw == IF up THEN size ELSE -1

Written == IF up THEN size ELSE 0

Finish ==
    /\ pc' = "idle"
    /\ op' = "none"
    /\ size' = 0
    /\ pending' = 0
    /\ reply' = Answer(op, Written)

(***************************************************************************)
(* DIR is lowered only after a write that succeeded: a mutant of Lower.    *)
(***************************************************************************)
LowerIfWritten ==
    /\ pc = "lower"
    /\ IF Written > 0 THEN SetTransmit(FALSE) ELSE UNCHANGED level
    /\ IF op = "write_waiting" /\ Written > 0
       THEN pc' = "flushing" /\ UNCHANGED <<op, size, pending, reply>>
       ELSE Finish
    /\ UNCHANGED <<up, tx, unitVars, lost>>

(***************************************************************************)
(* write() lowers DIR and returns; write_waiting() goes on to flush(true)  *)
(* if anything was written.                                                *)
(***************************************************************************)
Lower ==
    /\ pc = "lower"
    /\ SetTransmit(FALSE)
    /\ IF op = "write_waiting" /\ Written > 0
       THEN pc' = "flushing" /\ UNCHANGED <<op, size, pending, reply>>
       ELSE Finish
    /\ UNCHANGED <<up, tx, unitVars, lost>>

Flushed ==
    /\ pc = "flushing"
    /\ TxDone \/ ~up
    /\ Finish
    /\ UNCHANGED <<up, tx, unitVars, level, lost>>
-----------------------------------------------------------------------------
Load == LoadFifo /\ UNCHANGED <<up, unitVars, level, callVars, lost, reply>>

(***************************************************************************)
(* DIR is active high and pulled up: the transceiver drives the bus unless *)
(* its pin is held low, and so it does while the pin floats.               *)
(***************************************************************************)
HoldsBus(p) == level[p] # "low"

(***************************************************************************)
(* A byte goes out, to the bus if the transceiver drives it.               *)
(***************************************************************************)
Shift ==
    /\ ShiftOut
    /\ lost' = IF HoldsBus(Wired) THEN lost ELSE lost + 1
    /\ UNCHANGED <<up, unitVars, level, callVars, reply>>

(***************************************************************************)
(* The application takes the driver away or brings it back between calls.  *)
(***************************************************************************)
DriverToggle ==
    /\ pc = "idle"
    /\ TxDone
    /\ up' = ~up
    /\ reply' = Answer("driver", 0)
    /\ UNCHANGED <<tx, unitVars, level, callVars, lost>>

(***************************************************************************)
(* DirControlledIDFSerial::write(): raise, write, flush, lower; then the   *)
(* flush(true) of write_waiting().                                         *)
(***************************************************************************)
Progress ==
    \/ Raise
    \/ \E k \in 1 .. pending : Push(k)
    \/ Pushed
    \/ Drained
    \/ Lower
    \/ Flushed

Next ==
    \/ \E p \in Pins \cup {NoPin} : Config(p)
    \/ BeginRefused
    \/ BeginOk
    \/ BeginFails
    \/ \E o \in Writes : WriteNull(o)
    \/ \E o \in Writes, n \in WriteSizes : StartWrite(o, n)
    \/ Progress
    \/ Load
    \/ Shift
    \/ DriverToggle

Spec == Init /\ [][Next]_vars

(***************************************************************************)
(* The task is scheduled and the transmitter goes on sending.              *)
(***************************************************************************)
Fairness == WF_vars(Progress) /\ WF_vars(Load) /\ WF_vars(Shift)

FairSpec == Spec /\ Fairness
-----------------------------------------------------------------------------
Calls == {"none", "config", "begin", "driver"} \cup Writes

(***************************************************************************)
(* Between set_transmit(true) and set_transmit(false).                     *)
(***************************************************************************)
Raised == {"pushing", "draining", "lower"}

TypeOK ==
    /\ up \in BOOLEAN
    /\ tx \in TxType
    /\ dirPin \in Pins \cup {NoPin}
    /\ captured \in Pins \cup {NoPin}
    /\ backend \in {"null", "directed"}
    /\ level \in [Pins -> {"float", "low", "high"}]
    /\ pc \in {"idle", "raise", "pushing", "draining", "lower", "flushing"}
    /\ op \in Writes \cup {"none"}
    /\ size \in Nat
    /\ pending \in Nat
    /\ lost \in Nat
    /\ reply \in [op : Calls, val : Nat]

(***************************************************************************)
(* A pin is held high only while a write is between raising and lowering   *)
(* it, and only the pin begin() captured: whatever config() and begin()    *)
(* have done since, no pin is left high.  A pin that no begin() has taken  *)
(* is not held at all; BoardSetup is about these.                          *)
(***************************************************************************)
DrivesOnlyInWrite ==
    \A p \in Pins : level[p] = "high" => pc \in Raised /\ p = captured

(***************************************************************************)
(* Whatever is waiting to be sent goes out with the captured pin high: DIR *)
(* is up before the first byte reaches the driver and stays up until the   *)
(* last stop bit.                                                          *)
(***************************************************************************)
SendsWithDirHigh ==
    captured # NoPin /\ ~TxDone => level[captured] = "high"

(***************************************************************************)
(* A write that reports bytes written has put all of them on the bus, as   *)
(* long as the unit has the pin the transceiver is wired to.               *)
(***************************************************************************)
ClaimedWriteIsHeard ==
    reply.op \in Writes /\ reply.val > 0 /\ captured = Wired /\ pc = "idle"
        => lost = 0

(***************************************************************************)
(* "a value is always fully on the wire when it reports success"           *)
(* (RS485Component::writeValue), whatever begin() has answered since.      *)
(***************************************************************************)
WaitedWriteIsHeard ==
    reply.op = "write_waiting" /\ reply.val > 0 /\ pc = "idle" => lost = 0

(***************************************************************************)
(* The bus is always released again: a raised pin goes low.                *)
(***************************************************************************)
BusReleased == \A p \in Pins : level[p] = "high" ~> level[p] = "low"
=============================================================================
