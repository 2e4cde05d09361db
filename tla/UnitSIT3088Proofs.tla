------------------------- MODULE UnitSIT3088Proofs -------------------------
(***************************************************************************)
(* The direction pin, for any set of pins, any sizes of ring and FIFO and  *)
(* any lengths of writes; then the setup of the unit on a board.           *)
(***************************************************************************)
EXTENDS BoardSetup, TLAPS

LEMMA AnswerType ==
    ASSUME NEW o \in Calls, NEW v \in Nat
    PROVE  /\ Answer(o, v) \in [op : Calls, val : Nat]
           /\ Answer(o, v).op = o /\ Answer(o, v).val = v
  BY DEF Answer

(***************************************************************************)
(* The steps of the transmitter keep ring and FIFO within their sizes.     *)
(***************************************************************************)
LEMMA TxTypes ==
    ASSUME tx \in TxType
    PROVE  /\ \A k \in Nat : Accept(k) => tx' \in TxType
           /\ LoadFifo => tx' \in TxType
           /\ ShiftOut => tx' \in TxType
  BY UartAssumption DEF TxType, Accept, TxRoom, TxFree, LoadFifo, ShiftOut

(***************************************************************************)
(* The transmitter takes no step when there is nothing to send.            *)
(***************************************************************************)
LEMMA TxEmptyIsStill == TxDone => ~LoadFifo /\ ~ShiftOut
  BY DEF TxDone, TxEmpty, LoadFifo, ShiftOut

(***************************************************************************)
(* Every step keeps every pin, level, counter and answer of its type.      *)
(***************************************************************************)
LEMMA UnitTypeStep == TypeOK /\ [Next]_vars => TypeOK'
<1> USE DEF Calls, Writes
<1> SUFFICES ASSUME TypeOK, [Next]_vars PROVE TypeOK'
  OBVIOUS
<1> USE DEF TypeOK, unitVars, callVars
<1>1. CASE UNCHANGED vars
  BY <1>1 DEF vars
<1>2. ASSUME NEW p \in Pins \cup {NoPin}, Config(p) PROVE TypeOK'
  BY <1>2, AnswerType DEF Config
<1>3. CASE BeginRefused
  BY <1>3, AnswerType DEF BeginRefused
<1>4. CASE BeginOk
  BY <1>4, AnswerType DEF BeginOk, StartsReceiving
<1>5. CASE BeginFails
  BY <1>5, AnswerType DEF BeginFails, StartsReceiving
<1>6. ASSUME NEW o \in Writes, WriteNull(o) PROVE TypeOK'
  BY <1>6, AnswerType DEF WriteNull
<1>7. ASSUME NEW o \in Writes, NEW n \in WriteSizes, StartWrite(o, n) PROVE TypeOK'
  BY <1>7, SITAssumption DEF StartWrite
<1>8. CASE Raise
  BY <1>8 DEF Raise, SetTransmit
<1>9. ASSUME NEW k \in 1 .. pending, Push(k) PROVE TypeOK'
  BY <1>9, TxTypes DEF Push
<1>10. CASE Pushed
  BY <1>10 DEF Pushed
<1>11. CASE Drained
  BY <1>11 DEF Drained
<1>12. ASSUME Finish PROVE reply' \in [op : Calls, val : Nat]
  BY <1>12, AnswerType DEF Finish, Written
<1>13. CASE Lower
  <2>1. level' \in [Pins -> {"float", "low", "high"}]
    BY <1>13 DEF Lower, SetTransmit
  <2>2. CASE Finish
    BY <1>12, <1>13, <2>1, <2>2 DEF Lower, Finish
  <2>3. CASE pc' = "flushing" /\ UNCHANGED <<op, size, pending, reply>>
    BY <1>13, <2>1, <2>3 DEF Lower
  <2> QED
    BY <1>13, <2>2, <2>3 DEF Lower
<1>14. CASE Flushed
  BY <1>12, <1>14 DEF Flushed, Finish
<1>15. CASE Load
  BY <1>15, TxTypes DEF Load
<1>16. CASE Shift
  BY <1>16, TxTypes DEF Shift
<1>17. CASE DriverToggle
  BY <1>17, AnswerType DEF DriverToggle
<1> QED
  BY <1>1, <1>2, <1>3, <1>4, <1>5, <1>6, <1>7, <1>8, <1>9, <1>10, <1>11, <1>13,
     <1>14, <1>15, <1>16, <1>17 DEF Next, Progress

(***************************************************************************)
(* Every pin, level, counter and answer is of its type.                    *)
(***************************************************************************)
THEOREM UnitTypeCorrect == Spec => []TypeOK
<1>1. Init => TypeOK
  BY AnswerType, UartAssumption
  DEF Init, TypeOK, TxEmpty, TxType, Calls, Writes
<1> QED
  BY <1>1, UnitTypeStep, PTL DEF Spec
-----------------------------------------------------------------------------
(***************************************************************************)
(* Bytes wait in the driver only while a write hands them over or drains.  *)
(***************************************************************************)
QuietInv ==
    /\ pc \notin {"pushing", "draining"} => TxDone
    /\ ~up => TxDone

(***************************************************************************)
(* The captured pin is high from raising it to lowering it, and no pin at  *)
(* any other time.                                                         *)
(***************************************************************************)
DirInv ==
    /\ pc \in Raised /\ captured # NoPin => level[captured] = "high"
    /\ DrivesOnlyInWrite

(***************************************************************************)
(* Nothing of the write under way is lost, and nothing of the latest write *)
(* that reported success.                                                  *)
(***************************************************************************)
LostInv ==
    captured = Wired =>
        /\ pc # "idle" => lost = 0
        /\ pc = "idle" /\ reply.op \in Writes /\ reply.val > 0 => lost = 0

SITInv == QuietInv /\ DirInv /\ LostInv

(***************************************************************************)
(* The invariant of the pin is inductive.                                  *)
(***************************************************************************)
LEMMA DirectionStep == TypeOK /\ SITInv /\ [Next]_vars => SITInv'
<1> USE DEF TxDone, TxEmpty, Calls, Writes
<1> SUFFICES ASSUME TypeOK, SITInv, [Next]_vars PROVE SITInv'
  OBVIOUS
<1> USE DEF TypeOK, unitVars, callVars, SITInv, QuietInv, DirInv, LostInv,
            DrivesOnlyInWrite, Raised
<1>1. CASE UNCHANGED vars
  BY <1>1 DEF vars
<1>2. ASSUME NEW p \in Pins \cup {NoPin}, Config(p) PROVE SITInv'
  BY <1>2, AnswerType DEF Config
<1>3. CASE BeginRefused
  BY <1>3, AnswerType DEF BeginRefused
<1>4. CASE BeginOk
  BY <1>4, AnswerType DEF BeginOk, StartsReceiving
<1>5. CASE BeginFails
  BY <1>5, AnswerType DEF BeginFails, StartsReceiving
<1>6. ASSUME NEW o \in Writes, WriteNull(o) PROVE SITInv'
  BY <1>6, AnswerType DEF WriteNull
<1>7. ASSUME NEW o \in Writes, NEW n \in WriteSizes, StartWrite(o, n) PROVE SITInv'
  BY <1>7 DEF StartWrite
<1>8. CASE Raise
  BY <1>8 DEF Raise, SetTransmit
<1>9. ASSUME NEW k \in 1 .. pending, Push(k) PROVE SITInv'
  BY <1>9 DEF Push
<1>10. CASE Pushed
  BY <1>10 DEF Pushed
<1>11. CASE Drained
  BY <1>11 DEF Drained
<1>12. CASE Lower
  <2>1. \A p \in Pins : level'[p] # "high"
    BY <1>12, SITAssumption DEF Lower, SetTransmit
  <2>2. /\ pc' \in {"idle", "flushing"}
        /\ UNCHANGED <<up, tx, captured, lost>> /\ pc = "lower"
    BY <1>12 DEF Lower, Finish
  <2> QED
    BY <2>1, <2>2
<1>13. CASE Flushed
  BY <1>13 DEF Flushed, Finish
<1>14. CASE Load
  BY <1>14 DEF Load, LoadFifo, TxType
<1>15. CASE Shift
  <2>1. pc \in {"pushing", "draining"} /\ ~TxDone /\ up
    BY <1>15 DEF Shift, ShiftOut, TxType
  <2>2. captured = Wired => lost' = lost
    BY <1>15, <2>1, SITAssumption DEF Shift, HoldsBus
  <2> QED
    BY <1>15, <2>1, <2>2 DEF Shift
<1>16. CASE DriverToggle
  BY <1>16, AnswerType DEF DriverToggle
<1> QED
  BY <1>1, <1>2, <1>3, <1>4, <1>5, <1>6, <1>7, <1>8, <1>9, <1>10, <1>11, <1>12,
     <1>13, <1>14, <1>15, <1>16 DEF Next, Progress

(***************************************************************************)
(* The direction pin is up for every byte that goes out, and only then.    *)
(***************************************************************************)
THEOREM DirectionHolds == Spec => []SITInv
<1>1. Init => SITInv
  BY DEF Init, SITInv, QuietInv, DirInv, LostInv, DrivesOnlyInWrite, Raised,
         TxDone, TxEmpty, Calls, Writes
<1> QED
  BY <1>1, DirectionStep, UnitTypeCorrect, PTL DEF Spec

(***************************************************************************)
(* What the invariant says of every state, whoever calls the unit.         *)
(***************************************************************************)
LEMMA DirectionSuffices ==
    ASSUME SITInv
    PROVE  DrivesOnlyInWrite /\ SendsWithDirHigh /\ ClaimedWriteIsHeard
<1>1. DrivesOnlyInWrite
  BY DEF SITInv, DirInv
<1>2. SendsWithDirHigh
  BY DEF SITInv, DirInv, QuietInv, SendsWithDirHigh, Raised
<1>3. ClaimedWriteIsHeard
  BY DEF SITInv, LostInv, ClaimedWriteIsHeard
<1> QED
  BY <1>1, <1>2, <1>3

(***************************************************************************)
(* No pin is held high outside a write, and then only the captured one.    *)
(***************************************************************************)
THEOREM DrivesOnlyInWriteHolds == Spec => []DrivesOnlyInWrite
<1>1. SITInv => DrivesOnlyInWrite
  BY DirectionSuffices
<1> QED
  BY <1>1, DirectionHolds, PTL

(***************************************************************************)
(* What waits to be sent goes out with the captured pin high.              *)
(***************************************************************************)
THEOREM SendsWithDirHighHolds == Spec => []SendsWithDirHigh
<1>1. SITInv => SendsWithDirHigh
  BY DirectionSuffices
<1> QED
  BY <1>1, DirectionHolds, PTL

(***************************************************************************)
(* A write that reports bytes written has put all of them on the bus, as   *)
(* long as the unit has the pin the transceiver is wired to.               *)
(***************************************************************************)
THEOREM ClaimedWriteIsHeardHolds == Spec => []ClaimedWriteIsHeard
<1>1. SITInv => ClaimedWriteIsHeard
  BY DirectionSuffices
<1> QED
  BY <1>1, DirectionHolds, PTL
-----------------------------------------------------------------------------
(***************************************************************************)
(* A step of the application on a board is one of the unit's, or one of a  *)
(* helper, which sets dir_pin and opens the port and does nothing else to  *)
(* the unit.                                                               *)
(***************************************************************************)
HelperSets ==
    /\ up' = TRUE \/ up' = up
    /\ dirPin' = Wired \/ dirPin' = dirPin
    /\ UNCHANGED <<tx, captured, backend, level, callVars, lost, reply>>

LEMMA BoardStep ==
    ASSUME [BoardNext]_allVars
    PROVE  HelperSets \/ [Next]_vars
<1>1. CASE UNCHANGED allVars
  BY <1>1 DEF allVars
<1>2. ASSUME NEW h \in Helpers, AddUnsupported(h) PROVE [Next]_vars
  BY <1>2 DEF AddUnsupported
<1>3. ASSUME NEW h \in Helpers, AddWithoutPort(h) PROVE HelperSets
  BY <1>3 DEF AddWithoutPort, SetsDirPin, HelperSets
<1>4. ASSUME NEW h \in Helpers, AddRefused(h) PROVE HelperSets
  BY <1>4 DEF AddRefused, SetsDirPin, HelperSets
<1>5. ASSUME NEW h \in Helpers, AddOk(h) PROVE HelperSets
  BY <1>5 DEF AddOk, SetsDirPin, HelperSets
<1>6. CASE UnitsBegin
  BY <1>6 DEF UnitsBegin, Next
<1>7. ASSUME NEW p \in Pins \cup {NoPin}, Configures(p) PROVE Next
  BY <1>7 DEF Configures, Next
<1>8. CASE Runs
  BY <1>8 DEF Runs, Next
<1> QED
  BY <1>1, <1>2, <1>3, <1>4, <1>5, <1>6, <1>7, <1>8 DEF BoardNext

(***************************************************************************)
(* The application on a board keeps every variable of its type, and the    *)
(* unit's invariant of the pin with them.                                  *)
(***************************************************************************)
THEOREM BoardTypeCorrect == BoardSpec => [](BoardTypeOK /\ SITInv)
<1>1. BoardInit => BoardTypeOK /\ SITInv
  <2> USE DEF BoardInit
  <2>1. BoardInit => TypeOK
    <3> SUFFICES ASSUME BoardInit PROVE TypeOK
      OBVIOUS
    <3>1. Answer("none", 0) \in [op : Calls, val : Nat]
      BY AnswerType DEF Calls
    <3>2. TxEmpty \in TxType
      BY UartAssumption DEF TxEmpty, TxType
    <3>3. dirPin \in Pins \cup {NoPin} /\ up \in BOOLEAN
      BY SITAssumption
    <3> QED
      BY <3>1, <3>2, <3>3 DEF TypeOK, Writes
  <2>2. BoardInit => SITInv
    BY DEF SITInv, QuietInv, DirInv, LostInv, DrivesOnlyInWrite, Raised, TxDone,
           TxEmpty
  <2> QED
    BY <2>1, <2>2 DEF BoardTypeOK
<1>2. BoardTypeOK /\ SITInv /\ [BoardNext]_allVars => (BoardTypeOK /\ SITInv)'
  <2> SUFFICES ASSUME BoardTypeOK, SITInv, [BoardNext]_allVars
               PROVE  (BoardTypeOK /\ SITInv)'
    OBVIOUS
  <2>1. TypeOK' /\ SITInv'
    <3>1. CASE [Next]_vars
      BY <3>1, UnitTypeStep, DirectionStep DEF BoardTypeOK
    <3>2. CASE HelperSets
      <4>1. TypeOK'
        BY <3>2, SITAssumption DEF HelperSets, BoardTypeOK, TypeOK, callVars
      <4>2. SITInv'
        BY <3>2 DEF HelperSets, SITInv, QuietInv, DirInv, LostInv,
                    DrivesOnlyInWrite, Raised, TxDone, callVars, BoardTypeOK,
                    TypeOK
      <4> QED
        BY <4>1, <4>2
    <3> QED
      BY <3>1, <3>2, BoardStep
  <2>2. /\ board' \in Boards /\ registered' \in BOOLEAN
        /\ via' \in Helpers \cup {"none", "own"}
        /\ setup' \in {"none", "added", "failed", "ready"}
        /\ begun' \subseteq Pins
    BY DEF BoardTypeOK, TypeOK, BoardNext, allVars, boardVars, AddUnsupported,
           AddWithoutPort, AddRefused, AddOk, UnitsBegin, Configures, Runs
  <2> QED
    BY <2>1, <2>2 DEF BoardTypeOK
<1> QED
  BY <1>1, <1>2, PTL DEF BoardSpec

(***************************************************************************)
(* Nothing runs before a setup succeeds.                                   *)
(***************************************************************************)
IdleInv ==
    setup # "ready" =>
        pc = "idle" /\ backend = "null" /\ TxDone /\ captured = NoPin

(***************************************************************************)
(* A board no helper knows is left alone.                                  *)
(***************************************************************************)
UnknownInv ==
    board \notin {"tab5", "atom"} =>
        /\ setup # "ready" /\ ~registered /\ ~up
        /\ begun = {}

(***************************************************************************)
(* The pin the helper of the Tab5 sets is the one begin() will find, and   *)
(* the one the unit keeps.                                                 *)
(***************************************************************************)
Tab5Inv ==
    via = "tab5" =>
        /\ setup # "ready" => dirPin = Wired
        /\ setup = "ready" => captured = Wired /\ level[Wired] # "float"

(***************************************************************************)
(* Only a helper that registers the unit notes itself.                     *)
(***************************************************************************)
ViaInv ==
    /\ ~registered => via = "none" /\ setup # "ready"
    /\ via = "tab5" => registered

(***************************************************************************)
(* A pin floats until a begin() has taken it, and never again; the unit    *)
(* has none that no begin() has taken.                                     *)
(***************************************************************************)
BegunInv ==
    /\ \A p \in Pins : level[p] = "float" <=> p \notin begun
    /\ captured # NoPin => captured \in begun

BoardInv == IdleInv /\ UnknownInv /\ Tab5Inv /\ ViaInv /\ BegunInv

(***************************************************************************)
(* On every board, and while the setups fail and are tried again, the pin  *)
(* keeps to the writes as it does under the unit alone: held high only in  *)
(* a write, high for every byte, and heard while the unit has the wired    *)
(* one.                                                                    *)
(***************************************************************************)
THEOREM DirectionOnBoard ==
    BoardSpec => [](DrivesOnlyInWrite /\ SendsWithDirHigh /\ ClaimedWriteIsHeard)
<1>1. BoardTypeOK /\ SITInv =>
          DrivesOnlyInWrite /\ SendsWithDirHigh /\ ClaimedWriteIsHeard
  BY DirectionSuffices
<1> QED
  BY <1>1, BoardTypeCorrect, PTL

(***************************************************************************)
(* However the setups before it have failed, the state a setup starts from *)
(* is one it can succeed from, and what it has set up stays.               *)
(***************************************************************************)
THEOREM BoardHolds == BoardSpec => []BoardInv
<1> USE DEF BoardInv, IdleInv, UnknownInv, Tab5Inv, ViaInv, BegunInv
<1>1. BoardInit => BoardInv
  BY DEF BoardInit, TxDone
<1>2. BoardTypeOK /\ BoardInv /\ [BoardNext]_allVars => BoardInv'
  <2> SUFFICES ASSUME BoardTypeOK, BoardInv, [BoardNext]_allVars PROVE BoardInv'
    OBVIOUS
  <2> USE DEF BoardTypeOK, TypeOK, vars, unitVars, callVars, boardVars, Helpers,
              NotReady, TxDone
  <2>1. CASE UNCHANGED allVars
    BY <2>1 DEF allVars
  <2>2. ASSUME NEW h \in Helpers, AddUnsupported(h) PROVE BoardInv'
    BY <2>2 DEF AddUnsupported
  <2>3. ASSUME NEW h \in Helpers, AddWithoutPort(h) PROVE BoardInv'
    BY <2>3 DEF AddWithoutPort, SetsDirPin, Supported, Tab5Pins, AtomicPins
  <2>4. ASSUME NEW h \in Helpers, AddRefused(h) PROVE BoardInv'
    BY <2>4 DEF AddRefused, SetsDirPin, Supported, Tab5Pins, AtomicPins
  <2>5. ASSUME NEW h \in Helpers, AddOk(h) PROVE BoardInv'
    BY <2>5 DEF AddOk, SetsDirPin, Supported, Tab5Pins, AtomicPins
  <2>6. CASE UnitsBegin
    <3>1. CASE BeginOk /\ setup' = "ready"
      BY <2>6, <3>1 DEF UnitsBegin, BeginOk, StartsReceiving
    <3>2. CASE BeginRefused /\ setup' = "failed"
      BY <2>6, <3>2 DEF UnitsBegin, BeginRefused
    <3>3. CASE BeginFails /\ setup' = "failed"
      BY <2>6, <3>3 DEF UnitsBegin, BeginFails, StartsReceiving
    <3> QED
      BY <2>6, <3>1, <3>2, <3>3 DEF UnitsBegin
  <2>7. ASSUME NEW p \in Pins \cup {NoPin}, Configures(p) PROVE BoardInv'
    BY <2>7 DEF Configures, Config
  <2>8. CASE Runs
    <3>1. UNCHANGED <<boardVars, dirPin, captured, backend>>
      BY <2>8 DEF Runs, WriteNull, StartWrite, Progress, Raise, Push, Pushed,
                  Drained, Lower, Flushed, Load, Shift, DriverToggle
    <3>2. level' = level \/ Raise \/ Lower
      BY <2>8 DEF Runs, WriteNull, StartWrite, Progress, Push, Pushed, Drained,
                  Flushed, Load, Shift, DriverToggle
    <3>3. CASE setup # "ready"
      <4>1. UNCHANGED <<tx, pc, level>>
        BY <2>8, <3>3, TxEmptyIsStill
        DEF Runs, WriteNull, StartWrite, Progress, Raise, Push, Pushed, Drained,
            Lower, Flushed, Load, Shift, DriverToggle
      <4>2. ~registered => up' = up
        BY <2>8, <3>3 DEF Runs, WriteNull, StartWrite, Progress, Raise, Push,
                          Pushed, Drained, Lower, Flushed, Load, Shift
      <4> QED
        BY <3>1, <3>3, <4>1, <4>2
    <3>4. CASE setup = "ready"
      <4>1. \A p \in Pins : level'[p] = "float" <=> level[p] = "float"
        BY <3>2, SITAssumption DEF Raise, Lower, SetTransmit
      <4> QED
        BY <3>1, <3>4, <4>1, SITAssumption
    <3> QED
      BY <3>3, <3>4
  <2> QED
    BY <2>1, <2>2, <2>3, <2>4, <2>5, <2>6, <2>7, <2>8 DEF BoardNext
<1> QED
  BY <1>1, <1>2, BoardTypeCorrect, PTL DEF BoardSpec

(***************************************************************************)
(* After a setup of the Tab5 the transceiver is the unit's: it receives    *)
(* between the calls, and what a write reports is on the bus.              *)
(***************************************************************************)
THEOREM SetUpIsHeardHolds == BoardSpec => []SetUpIsHeard
<1>1. BoardTypeOK /\ SITInv /\ BoardInv => SetUpIsHeard
  BY SITAssumption DEF BoardTypeOK, TypeOK, SITInv, DirInv, LostInv, DrivesOnlyInWrite,
     BoardInv, Tab5Inv, SetUpIsHeard, Raised
<1> QED
  BY <1>1, BoardTypeCorrect, BoardHolds, PTL

(***************************************************************************)
(* The node holds the bus until a begin() has taken the pin that DIR is    *)
(* wired to, and after that only while a write is sending; nothing is sent *)
(* before a setup has succeeded, and a board without pins is left alone.   *)
(***************************************************************************)
THEOREM ReleasedOnceBegunHolds == BoardSpec => []ReleasedOnceBegun
<1>1. BoardTypeOK /\ SITInv /\ BoardInv => ReleasedOnceBegun
  <2> SUFFICES ASSUME BoardTypeOK, SITInv, BoardInv PROVE ReleasedOnceBegun
    OBVIOUS
  <2>1. ASSUME NEW p \in Pins
        PROVE  HoldsBus(p) <=> p \notin begun \/ (p = captured /\ pc \in Raised)
    <3>1. level[p] \in {"float", "low", "high"}
      BY DEF BoardTypeOK, TypeOK
    <3>2. level[p] = "float" <=> p \notin begun
      BY DEF BoardInv, BegunInv
    <3>3. level[p] = "high" => p = captured /\ pc \in Raised
      BY DEF SITInv, DirInv, DrivesOnlyInWrite
    <3>4. p = captured /\ pc \in Raised => level[p] = "high"
      BY SITAssumption DEF SITInv, DirInv
    <3> QED
      BY <3>1, <3>2, <3>3, <3>4 DEF HoldsBus
  <2>2. setup # "ready" => backend = "null" /\ TxDone
    BY DEF BoardInv, IdleInv
  <2>3. board \notin {"tab5", "atom"} => ~up /\ begun = {}
    BY DEF BoardInv, UnknownInv
  <2> QED
    BY <2>1, <2>2, <2>3 DEF ReleasedOnceBegun
<1> QED
  BY <1>1, BoardTypeCorrect, BoardHolds, PTL
=============================================================================
