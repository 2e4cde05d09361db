--------------------------- MODULE StreamAdapter ---------------------------
(***************************************************************************)
(* The StreamAdapter example as an application of ArduinoSerial            *)
(* (examples/UnitUnified/StreamAdapter/main/StreamAdapter.cpp): setup()    *)
(* begins the unit and sets the timeout of the adapter, then loop() prints *)
(* a report now and then and takes lines off the adapter.  Every call is a *)
(* whole call of ArduinoSerial, with the peer sending between its steps.   *)
(* The program is chosen once: the example, or any other application,      *)
(* which may call whatever it likes.                                       *)
(***************************************************************************)
EXTENDS ArduinoSerial

CONSTANT LineTimeout   \* LINE_TIMEOUT_MS.

ASSUME LineAssumption == LineTimeout \in Timeouts

VARIABLE app           \* Where the example is, or "other".

adapterVars == <<vars, app>>

AdapterInit == Init /\ app \in {"setup", "other"}

Goes(from, to) == app = from /\ app' = to
-----------------------------------------------------------------------------
(* setup(): the unit is begun with flushRX, or the program stops.          *)

Wires == Goes("setup", "wired") /\ Begin(Wrapped, TRUE)

FailStop == Goes("setup", "stopped") /\ UNCHANGED vars

(***************************************************************************)
(* failStop() does not return.                                             *)
(***************************************************************************)
Stopped == Goes("stopped", "stopped") /\ UNCHANGED vars

(***************************************************************************)
(* The timeout is set on the unit below: a mutant of SetsLineTimeout.      *)
(***************************************************************************)
SetsLineTimeoutBelow == Goes("wired", "loop") /\ SetTimeout(LineTimeout)

SetsLineTimeout == Goes("wired", "loop") /\ SetStreamTimeout(LineTimeout)
-----------------------------------------------------------------------------
(* loop().                                                                 *)

(***************************************************************************)
(* Every SEND_INTERVAL_MS, which may have passed or not: printf() on the   *)
(* adapter and sendReport(), whose writes follow one another.              *)
(***************************************************************************)
Reports ==
    /\ Goes("loop", "look")
    /\ Write("adapter") \/ UNCHANGED vars

Looks ==
    /\ app = "look"
    /\ Available("adapter")
    /\ app' = IF reply'.val # 0 THEN "line" ELSE "loop"

ReadsLine == Goes("line", "reading") /\ StreamReadLine

(***************************************************************************)
(* The line is shown.                                                      *)
(***************************************************************************)
GotLine == Goes("reading", "loop") /\ Return

(***************************************************************************)
(* The hardware, and the steps inside readStringUntil().                   *)
(***************************************************************************)
Beneath == (Collect \/ Tick \/ Arrive) /\ UNCHANGED app

Example ==
    \/ Wires \/ FailStop \/ Stopped \/ SetsLineTimeout
    \/ Reports \/ Looks \/ ReadsLine \/ GotLine
    \/ app # "other" /\ Beneath

AdapterNext == Example \/ (Goes("other", "other") /\ Next)

AdapterSpec == AdapterInit /\ [][AdapterNext]_adapterVars

(***************************************************************************)
(* The task runs whenever it can, inside a call, and the clock does not    *)
(* stand still.  Nothing is assumed of the peer or of the application.     *)
(***************************************************************************)
FairAdapterSpec ==
    /\ AdapterSpec
    /\ WF_adapterVars(AdapterNext /\ (Collect \/ Return))
    /\ WF_adapterVars(AdapterNext /\ Tick)
-----------------------------------------------------------------------------
AdapterTypeOK ==
    /\ TypeOK
    /\ app \in {"other", "setup", "stopped", "wired", "loop", "look", "line", "reading"}

(***************************************************************************)
(* loop() waits only in the middle of a line: what it shows is never the   *)
(* empty answer of a read that found nothing, and a line that is cut short *)
(* of its '\n' was followed by LINE_TIMEOUT_MS of silence.                 *)
(***************************************************************************)
LinesAreWhole ==
    [][app = "reading" /\ app' = "loop" =>
          /\ buf # << >>
          /\ buf[Len(buf)] \in Newlines \/ waited = LineTimeout]_adapterVars

PeerFallsSilent == <>[][arrived' = arrived]_arrived

(***************************************************************************)
(* Once the peer falls silent, every read comes back, a line that never    *)
(* ends included: the timeouts end them, of whichever object it is called  *)
(* on and wherever the unit has been moved.                                *)
(***************************************************************************)
ReadsReturn == PeerFallsSilent => (~Idle ~> Idle)
=============================================================================
