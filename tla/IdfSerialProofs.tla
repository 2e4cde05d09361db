-------------------------- MODULE IdfSerialProofs --------------------------
(***************************************************************************)
(* Type correctness of the ESP-IDF backend and its safety invariants, for  *)
(* every size of ring and FIFO, every tick rate and every set of lengths   *)
(* and timeouts.                                                           *)
(***************************************************************************)
EXTENDS IdfSerial, SequenceLemmas

(***************************************************************************)
(* What the calling task knows about the call it is in.                    *)
(***************************************************************************)
CallInv ==
    /\ pc = "idle" => buf = << >>
    /\ pc = "writing" => op \in Writes /\ want > 0 /\ buf = << >>
    /\ pc = "draining" => op \in Flushes \cup {"write_waiting"} /\ buf = << >>
    /\ pc = "flushRX" => buf = << >> /\ peeked = NoByte /\ reply.op = "begin"

(***************************************************************************)
(* Without a driver nothing is received or being sent.                     *)
(***************************************************************************)
DownInv == ~up => rx = << >> /\ TxDone

(***************************************************************************)
(* An offer of availableForWrite() made of a ring that has been seen stays *)
(* good until the write it was made for, and during it.                    *)
(***************************************************************************)
OfferInv ==
    /\ ringSeen => TxRing > 0
    /\ ringSeen /\ reply.op = "availableForWrite" =>
           /\ pc = "idle" => reply.val <= TxFree
           /\ pc = "writing" /\ want <= reply.val => pending <= TxFree

(***************************************************************************)
(* s holds no byte that had come in before number m + 1.                   *)
(***************************************************************************)
Fresh(s, m) == \A i \in 1 .. Len(s) : s[i] > m

(***************************************************************************)
(* Outside the drain of begin() no byte older than the mark is left; in it *)
(* the ring is clean as soon as a round has run, and one has run when the  *)
(* window is over.                                                         *)
(***************************************************************************)
FreshInv ==
    /\ mark <= arrived
    /\ pc # "flushRX" => Fresh(buf, mark) /\ Fresh(Held, mark) /\ Fresh(rx, mark)
    /\ pc = "flushRX" /\ WindowOver => Fresh(rx, mark)
    /\ Fresh(reply.bytes, mark)

IInv == CallInv /\ DownInv /\ OfferInv /\ FreshInv /\ WaitedIsOnTheWire
-----------------------------------------------------------------------------
(***************************************************************************)
(* An answer is of its type, with some bytes or with none.                 *)
(***************************************************************************)
LEMMA AnswerType ==
    ASSUME NEW o \in Events, NEW n \in Nat, NEW v \in Nat,
           NEW b \in Seq(1 .. MaxRx)
    PROVE  Answer(o, n, v, b) \in Replies
  BY DEF Answer, Replies

LEMMA EmptyAnswerType ==
    ASSUME NEW o \in Events, NEW n \in Nat, NEW v \in Nat
    PROVE  Answer(o, n, v, << >>) \in Replies
<1>1. << >> \in Seq(1 .. MaxRx)
  BY EmptyType
<1> QED
  BY <1>1, AnswerType

(***************************************************************************)
(* The byte held back is a sequence of at most one byte.                   *)
(***************************************************************************)
LEMMA HeldType ==
    ASSUME peeked \in 1 .. MaxRx \cup {NoByte}
    PROVE  /\ Held \in Seq(1 .. MaxRx)
           /\ Held = << >> <=> peeked = NoByte
           /\ Held = << >> => Len(Held) = 0
           /\ Held # << >> => Len(Held) = 1 /\ Held[1] = peeked
<1>1. CASE peeked = NoByte
  BY <1>1, EmptyType DEF Held
<1>2. CASE peeked # NoByte
  BY <1>2 DEF Held
<1> QED
  BY <1>1, <1>2

(***************************************************************************)
(* Accepting bytes within the room there is, loading the FIFO and shifting *)
(* a byte out keep the ring and the FIFO within their sizes.               *)
(***************************************************************************)
LEMMA TxTypes ==
    ASSUME tx \in TxType
    PROVE  /\ \A k \in Nat : Accept(k) => tx' \in TxType
           /\ LoadFifo => tx' \in TxType
           /\ ShiftOut => tx' \in TxType
  BY UartAssumption DEF TxType, Accept, TxRoom, TxFree, LoadFifo, ShiftOut

(***************************************************************************)
(* The wait of a read is a number of ticks below portMAX_DELAY.            *)
(***************************************************************************)
LEMMA WaitType ==
    ASSUME NEW o, NEW ms \in Timeouts
    PROVE  WaitOf(o, ms) \in Nat /\ WaitOf(o, ms) < MaxDelay
<1> DEFINE q == Product(ms, TickRate) \div 1000
<1>1. MaxDelay \in Nat /\ 2 <= MaxDelay /\ Word \in Nat /\ 0 < Word
  BY TickAssumption
<1>2. ms \in Nat /\ TickRate \in Nat
  BY <1>1, IdfAssumption DEF UInt32
<1>3. ASSUME NEW x \in Nat, NEW y \in Nat, 0 < y
      PROVE  (x % y) \div 1000 \in Nat
  BY <1>3
<1>4. q \in Nat
  <2>1. ms * TickRate \in Nat /\ Word * Word \in Nat /\ 0 < Word * Word
    BY <1>1, <1>2
  <2> QED
    BY <2>1, <1>3 DEF Product, Wide
<1>5. TicksFromMs(ms, TickRate) = IF q = 0 THEN SubTick(ms) ELSE Saturate(q)
  BY DEF TicksFromMs
<1> HIDE DEF q
<1>6. /\ TicksFromMs(ms, TickRate) \in Nat
      /\ TicksFromMs(ms, TickRate) < MaxDelay
  BY <1>1, <1>2, <1>4, <1>5 DEF SubTick, Saturate
<1> QED
  BY <1>1, <1>6 DEF WaitOf

-----------------------------------------------------------------------------
(***************************************************************************)
(* The steps of IdfSerial with every length a caller may pass, not only    *)
(* those that model checking is given: the invariants below are kept by    *)
(* all of them, so they hold for every application that makes the calls.   *)
(***************************************************************************)
AnyNext ==
    \/ Available \/ AvailableForWrite \/ Peek \/ ReadOne \/ ReadNothing
    \/ \E o \in Reads, n \in Nat, ms \in Timeouts : StartRead(o, n, ms)
    \/ WriteNothing
    \/ \E o \in Writes, n \in Nat : StartWrite(o, n)
    \/ \E o \in Flushes : StartFlush(o)
    \/ BeginFails
    \/ \E flushRX \in BOOLEAN : Begin(flushRX)
    \/ Progress
    \/ Environment

LEMMA NextIsAny == [Next]_vars => [AnyNext]_vars
<1>1. ReadSizes \subseteq Nat /\ WriteSizes \subseteq Nat
  BY IdfAssumption
<1> QED
  BY <1>1 DEF AnyNext, Next, Call

(***************************************************************************)
(* Every step leaves the backend, its driver and its caller of their       *)
(* types: in particular ring and FIFO never exceed their sizes.            *)
(***************************************************************************)
LEMMA TypeStep ==
    ASSUME TypeOK, [AnyNext]_vars
    PROVE  TypeOK'
<1> USE DEF NoByte, Reads, Writes, Flushes, Events
<1> USE DEF serialVars, callVars
<1>1. CASE UNCHANGED vars
  BY <1>1 DEF vars, TypeOK
<1>2. CASE Available
  <2>1. Buffered \in Nat
    BY HeldType DEF Buffered, TypeOK
  <2>2. reply' \in Replies
    BY <1>2, <2>1, EmptyAnswerType DEF Available
  <2> QED
    BY <1>2, <2>2 DEF Available, TypeOK
<1>3. CASE AvailableForWrite
  <2>1. Writable \in Nat
    BY UartAssumption DEF Writable, SeesRing, TxFree, TypeOK, TxType
  <2>2. reply' \in Replies
    BY <1>3, <2>1, EmptyAnswerType DEF AvailableForWrite
  <2>3. ringSeen' \in BOOLEAN
    BY <1>3 DEF AvailableForWrite
  <2> QED
    BY <1>3, <2>2, <2>3 DEF AvailableForWrite, TypeOK
<1>4. CASE Peek
  <2>1. rx' \in Seq(1 .. MaxRx) /\ peeked' \in 1 .. MaxRx \cup {NoByte}
    BY <1>4, HeadType DEF Peek, TypeOK
  <2> DEFINE b == IF peeked' = NoByte THEN << >> ELSE <<peeked'>>
  <2>2. b \in Seq(1 .. MaxRx)
    <3>1. CASE peeked' = NoByte
      BY <3>1, EmptyType
    <3>2. CASE peeked' # NoByte
      BY <3>2, <2>1
    <3> QED
      BY <3>1, <3>2
  <2>3. reply' \in Replies
    <3>1. reply' = Answer("peek", 1, 0, b)
      BY <1>4 DEF Peek
    <3> HIDE DEF b
    <3> QED
      BY <3>1, <2>2, AnswerType
  <2> QED
    BY <1>4, <2>1, <2>3 DEF Peek, TypeOK
<1>5. CASE ReadOne
  <2>1. Least(1, Len(rx)) \in 0 .. Len(rx) /\ rx \in Seq(1 .. MaxRx)
    BY DEF Least, TypeOK
  <2>2. Held \in Seq(1 .. MaxRx)
    BY HeldType DEF TypeOK
  <2> DEFINE k == Least(1, Len(rx))
             t == SubSeq(rx, 1, k)
             u == SubSeq(rx, k + 1, Len(rx))
  <2>3. t \in Seq(1 .. MaxRx) /\ u \in Seq(1 .. MaxRx)
    BY <2>1, TakeType
  <2>4. \/ rx' = rx /\ reply' = Answer("read", 1, 0, Held)
        \/ rx' = u /\ reply' = Answer("read", 1, 0, t)
    BY <1>5 DEF ReadOne
  <2> HIDE DEF t, u
  <2>5. rx' \in Seq(1 .. MaxRx) /\ reply' \in Replies
    BY <2>1, <2>2, <2>3, <2>4, AnswerType
  <2> QED
    BY <1>5, <2>5 DEF ReadOne, TypeOK
<1>6. CASE ReadNothing
  <2>1. reply' \in Replies
    BY <1>6, EmptyAnswerType, EmptyType DEF ReadNothing, TypeOK
  <2> QED
    BY <1>6, <2>1 DEF ReadNothing, TypeOK
<1>7. ASSUME NEW o \in Reads, NEW n \in Nat, NEW ms \in Timeouts,
             StartRead(o, n, ms)
      PROVE  TypeOK'
  <2>1. buf' \in Seq(1 .. MaxRx)
    BY <1>7, HeldType DEF StartRead, TypeOK
  <2>2. n \in Nat /\ ticks' \in Nat
    BY <1>7, WaitType, IdfAssumption DEF StartRead
  <2> QED
    BY <1>7, <2>1, <2>2 DEF StartRead, TypeOK
<1>8. CASE WriteNothing
  <2>1. reply' \in Replies
    BY <1>8, EmptyAnswerType, EmptyType DEF WriteNothing, TypeOK
  <2> QED
    BY <1>8, <2>1 DEF WriteNothing, TypeOK
<1>9. ASSUME NEW o \in Writes, NEW n \in Nat, StartWrite(o, n)
      PROVE  TypeOK'
  <2>1. n \in Nat
    BY IdfAssumption
  <2> QED
    BY <1>9, <2>1 DEF StartWrite, TypeOK
<1>10. ASSUME NEW o \in Flushes, StartFlush(o) PROVE TypeOK'
  BY <1>10 DEF StartFlush, TypeOK
<1>11. CASE BeginFails
  <2>1. reply' \in Replies
    BY <1>11, EmptyAnswerType, EmptyType DEF BeginFails, TypeOK
  <2> QED
    BY <1>11, <2>1 DEF BeginFails, TypeOK
<1>12. ASSUME NEW flushRX \in BOOLEAN, Begin(flushRX) PROVE TypeOK'
  <2>1. reply' \in Replies
    BY <1>12, EmptyAnswerType, EmptyType DEF Begin
  <2>2. elapsed' \in 0 .. Window /\ mark' \in 0 .. MaxRx
    BY <1>12, IdfAssumption DEF Begin, TypeOK
  <2>3. pc' \in {"idle", "flushRX"} /\ op' \in Reads \cup Writes \cup Flushes \cup {"none", "begin"}
    BY <1>12 DEF Begin, TypeOK
  <2> QED
    BY <1>12, <2>1, <2>2, <2>3 DEF Begin, TypeOK
<1>13. ASSUME NEW k \in 1 .. Len(rx), Collect(k) PROVE TypeOK'
  <2>1. rx \in Seq(1 .. MaxRx) /\ buf \in Seq(1 .. MaxRx) /\ k \in 0 .. Len(rx)
    BY DEF TypeOK
  <2>2. /\ SubSeq(rx, 1, k) \in Seq(1 .. MaxRx)
        /\ rx' \in Seq(1 .. MaxRx)
    BY <1>13, <2>1, TakeType DEF Collect
  <2>3. buf' \in Seq(1 .. MaxRx)
    BY <1>13, <2>1, <2>2, JoinType DEF Collect
  <2> QED
    BY <1>13, <2>2, <2>3 DEF Collect, TypeOK
<1>14. CASE ReadReturn
  <2>1. reply' \in Replies
    BY <1>14, AnswerType DEF ReadReturn, TypeOK
  <2> QED
    BY <1>14, <2>1, EmptyType DEF ReadReturn, TypeOK
<1>15. ASSUME NEW k \in 1 .. pending, Push(k) PROVE TypeOK'
  <2>1. k \in Nat /\ pending - k \in Nat
    BY DEF TypeOK
  <2>2. tx' \in TxType
    BY <1>15, <2>1, TxTypes DEF Push, TypeOK
  <2> QED
    BY <1>15, <2>1, <2>2 DEF Push, TypeOK
<1>16. CASE WriteReturn
  <2>1. op \in Events /\ want \in Nat /\ (IF up THEN want ELSE 0) \in Nat
    BY DEF TypeOK
  <2>2. reply' \in Replies /\ pc' \in {"idle", "draining"}
    BY <1>16, <2>1, EmptyAnswerType, EmptyType DEF WriteReturn, Finish, TypeOK
  <2>3. op' \in {op, "none"} /\ want' \in Nat /\ pending' \in Nat
    BY <1>16, <2>1 DEF WriteReturn, Finish, TypeOK
  <2> QED
    BY <1>16, <2>2, <2>3 DEF WriteReturn, TypeOK
<1>17. CASE DrainReturn
  <2>1. op \in Events /\ want \in Nat
    BY DEF TypeOK
  <2>2. reply' \in Replies
    BY <1>17, <2>1, EmptyAnswerType, EmptyType DEF DrainReturn, Finish, TypeOK
  <2>3. rx' \in Seq(1 .. MaxRx) /\ peeked' \in 1 .. MaxRx \cup {NoByte}
    BY <1>17, EmptyType DEF DrainReturn, TypeOK
  <2> QED
    BY <1>17, <2>2, <2>3 DEF DrainReturn, Finish, TypeOK
<1>18. CASE FlushRound
  <2>1. elapsed' \in 0 .. Window
    BY <1>18, IdfAssumption DEF FlushRound, Least, TypeOK
  <2> QED
    BY <1>18, <2>1, EmptyType DEF FlushRound, TypeOK
<1>19. CASE FlushDone
  BY <1>19, IdfAssumption DEF FlushDone, TypeOK
<1>20. CASE Arrive
  <2>1. arrived + 1 \in 1 .. MaxRx
    BY <1>20, IdfAssumption DEF Arrive, TypeOK
  <2>2. rx' \in Seq(1 .. MaxRx)
    BY <1>20, <2>1 DEF Arrive, TypeOK
  <2> QED
    BY <1>20, <2>1, <2>2 DEF Arrive, TypeOK
<1>21. CASE Tick
  BY <1>21 DEF Tick, TypeOK
<1>22. CASE Load
  <2>1. tx' \in TxType
    BY <1>22, TxTypes DEF Load, TypeOK
  <2> QED
    BY <1>22, <2>1 DEF Load, TypeOK
<1>23. CASE Shift
  <2>1. tx' \in TxType
    BY <1>23, TxTypes DEF Shift, TypeOK
  <2> QED
    BY <1>23, <2>1 DEF Shift, TypeOK
<1>24. CASE DriverDelete
  <2>1. reply' \in Replies
    BY <1>24, EmptyAnswerType, EmptyType DEF DriverDelete
  <2> QED
    BY <1>24, <2>1, EmptyType DEF DriverDelete, TypeOK
<1>25. CASE DriverInstall
  BY <1>25 DEF DriverInstall, TypeOK
<1> QED
  BY <1>1, <1>2, <1>3, <1>4, <1>5, <1>6, <1>7, <1>8, <1>9, <1>10, <1>11,
     <1>12, <1>13, <1>14, <1>15, <1>16, <1>17, <1>18, <1>19, <1>20, <1>21,
     <1>22, <1>23, <1>24, <1>25
  DEF AnyNext, Progress, Environment

LEMMA TypeInit ==
    ASSUME Init
    PROVE  TypeOK
<1> USE DEF NoByte, Reads, Writes, Flushes, Events
<1>1. reply \in Replies /\ tx \in TxType
  BY EmptyAnswerType, EmptyType, UartAssumption DEF Init, TxEmpty, TxType
<1>2. 0 \in 0 .. MaxRx /\ 0 \in 0 .. Window
  BY IdfAssumption
<1> QED
  BY <1>1, <1>2, EmptyType DEF Init, TypeOK

(***************************************************************************)
(* Every state of the backend, its driver and its caller is of its type.   *)
(***************************************************************************)
THEOREM TypeCorrect == Spec => []TypeOK
<1>1. Init => TypeOK
  BY TypeInit
<1>2. TypeOK /\ [Next]_vars => TypeOK'
  BY TypeStep, NextIsAny
<1> QED
  BY <1>1, <1>2, PTL DEF Spec
-----------------------------------------------------------------------------
(***************************************************************************)
(* What the task knows about its call, and that nothing moves without a    *)
(* driver, is kept by every step.                                          *)
(***************************************************************************)
LEMMA CallStep ==
    ASSUME TypeOK, CallInv, DownInv, [AnyNext]_vars
    PROVE  CallInv' /\ DownInv'
<1> USE DEF NoByte, Reads, Writes, Flushes, Events, serialVars, callVars
<1>1. CASE UNCHANGED vars
  BY <1>1 DEF vars, TypeOK, CallInv, DownInv, TxDone, TxEmpty
<1>2. CASE Available
  BY <1>2 DEF Available, TypeOK, CallInv, DownInv, TxDone, TxEmpty
<1>3. CASE AvailableForWrite
  BY <1>3 DEF AvailableForWrite, TypeOK, CallInv, DownInv, TxDone, TxEmpty
<1>4. CASE Peek
  BY <1>4, HeldType DEF Peek, TypeOK, CallInv, DownInv, TxDone, TxEmpty
<1>5. CASE ReadOne
  <2>1. rx = << >> => rx' = << >>
    <3>1. ASSUME rx = << >> PROVE SubSeq(rx, Least(1, Len(rx)) + 1, Len(rx)) = << >>
      BY <3>1 DEF Least
    <3> QED
      BY <1>5, <3>1 DEF ReadOne
  <2>2. pc' = pc /\ buf' = buf /\ op' = op /\ want' = want /\ tx' = tx /\ up' = up
    BY <1>5 DEF ReadOne
  <2> QED
    BY <1>5, <2>1, <2>2 DEF ReadOne, TypeOK, CallInv, DownInv, TxDone, TxEmpty
<1>6. CASE ReadNothing
  BY <1>6 DEF ReadNothing, TypeOK, CallInv, DownInv, TxDone, TxEmpty
<1>7. ASSUME NEW o \in Reads, NEW n \in Nat, NEW ms \in Timeouts, StartRead(o, n, ms)
      PROVE  CallInv' /\ DownInv'
  BY <1>7 DEF StartRead, TypeOK, CallInv, DownInv, TxDone, TxEmpty
<1>8. CASE WriteNothing
  BY <1>8 DEF WriteNothing, TypeOK, CallInv, DownInv, TxDone, TxEmpty
<1>9. ASSUME NEW o \in Writes, NEW n \in Nat, StartWrite(o, n)
      PROVE  CallInv' /\ DownInv'
  BY <1>9, IdfAssumption DEF StartWrite, TypeOK, CallInv, DownInv, TxDone, TxEmpty
<1>10. ASSUME NEW o \in Flushes, StartFlush(o)
       PROVE  CallInv' /\ DownInv'
  BY <1>10 DEF StartFlush, TypeOK, CallInv, DownInv, TxDone, TxEmpty
<1>11. CASE BeginFails
  BY <1>11 DEF BeginFails, TypeOK, CallInv, DownInv, TxDone, TxEmpty
<1>12. ASSUME NEW flushRX \in BOOLEAN, Begin(flushRX)
       PROVE  CallInv' /\ DownInv'
  <2>1. CASE flushRX
    BY <1>12, <2>1 DEF Begin, Answer, CallInv, DownInv
  <2>2. CASE ~flushRX
    BY <1>12, <2>2 DEF Begin, CallInv, DownInv
  <2> QED
    BY <2>1, <2>2
<1>13. ASSUME NEW k \in 1 .. Len(rx), Collect(k)
       PROVE  CallInv' /\ DownInv'
  BY <1>13 DEF Collect, TypeOK, CallInv, DownInv, TxDone, TxEmpty
<1>14. CASE ReadReturn
  BY <1>14, EmptyType DEF ReadReturn, TypeOK, CallInv, DownInv, TxDone, TxEmpty
<1>15. ASSUME NEW k \in 1 .. pending, Push(k)
       PROVE  CallInv' /\ DownInv'
  BY <1>15 DEF Push, TypeOK, CallInv, DownInv, TxDone, TxEmpty
<1>16. CASE WriteReturn
  BY <1>16 DEF WriteReturn, Finish, DrainsAfter, TypeOK, CallInv, DownInv, TxDone, TxEmpty
<1>17. CASE DrainReturn
  BY <1>17 DEF DrainReturn, Finish, TypeOK, CallInv, DownInv, TxDone, TxEmpty
<1>18. CASE FlushRound
  BY <1>18 DEF FlushRound, TypeOK, CallInv, DownInv, TxDone, TxEmpty
<1>19. CASE FlushDone
  BY <1>19 DEF FlushDone, TypeOK, CallInv, DownInv, TxDone, TxEmpty
<1>20. CASE Arrive
  BY <1>20 DEF Arrive, TypeOK, CallInv, DownInv, TxDone, TxEmpty
<1>21. CASE Tick
  BY <1>21 DEF Tick, TypeOK, CallInv, DownInv, TxDone, TxEmpty
<1>22. CASE Load
  BY <1>22 DEF Load, LoadFifo, TypeOK, CallInv, DownInv, TxDone, TxEmpty
<1>23. CASE Shift
  BY <1>23 DEF Shift, ShiftOut, TypeOK, CallInv, DownInv, TxDone, TxEmpty
<1>24. CASE DriverDelete
  BY <1>24 DEF DriverDelete, TypeOK, CallInv, DownInv, TxDone, TxEmpty
<1>25. CASE DriverInstall
  BY <1>25 DEF DriverInstall, TypeOK, CallInv, DownInv, TxDone, TxEmpty
<1> QED
  BY <1>1, <1>2, <1>3, <1>4, <1>5, <1>6, <1>7, <1>8, <1>9, <1>10,
     <1>11, <1>12, <1>13, <1>14, <1>15, <1>16, <1>17, <1>18, <1>19, <1>20,
     <1>21, <1>22, <1>23, <1>24, <1>25
  DEF AnyNext, Progress, Environment

(***************************************************************************)
(* A step keeps an offer of availableForWrite() good.                      *)
(***************************************************************************)
LEMMA OfferStep ==
    ASSUME TypeOK, CallInv, DownInv, OfferInv, [AnyNext]_vars
    PROVE  OfferInv'
<1> USE DEF NoByte, Reads, Writes, Flushes, Events, serialVars, callVars
<1>1. CASE UNCHANGED vars
  BY <1>1 DEF vars, TypeOK, TxType, OfferInv, CallInv, Answer, TxFree
<1>2. CASE Available
  BY <1>2 DEF Available, TypeOK, TxType, OfferInv, CallInv, Answer, TxFree
<1>3. CASE AvailableForWrite
  BY <1>3, UartAssumption DEF AvailableForWrite, Writable, SeesRing, DownInv, TxDone, TxEmpty, TypeOK, TxType, OfferInv, CallInv, Answer, TxFree
<1>4. CASE Peek
  BY <1>4 DEF Peek, TypeOK, TxType, OfferInv, CallInv, Answer, TxFree
<1>5. CASE ReadOne
  BY <1>5 DEF ReadOne, TypeOK, TxType, OfferInv, CallInv, Answer, TxFree
<1>6. CASE ReadNothing
  BY <1>6 DEF ReadNothing, TypeOK, TxType, OfferInv, CallInv, Answer, TxFree
<1>7. ASSUME NEW o \in Reads, NEW n \in Nat, NEW ms \in Timeouts, StartRead(o, n, ms)
      PROVE  OfferInv'
  BY <1>7 DEF StartRead, TypeOK, TxType, OfferInv, CallInv, Answer, TxFree
<1>8. CASE WriteNothing
  BY <1>8 DEF WriteNothing, TypeOK, TxType, OfferInv, CallInv, Answer, TxFree
<1>9. ASSUME NEW o \in Writes, NEW n \in Nat, StartWrite(o, n)
      PROVE  OfferInv'
  <2>1. n \in Nat /\ reply.val \in Nat /\ TxFree \in Int
    BY IdfAssumption, UartAssumption DEF TypeOK, Replies, TxFree, TxType
  <2> QED
    BY <1>9, <2>1 DEF StartWrite, OfferInv, TxFree
<1>10. ASSUME NEW o \in Flushes, StartFlush(o)
       PROVE  OfferInv'
  BY <1>10 DEF StartFlush, TypeOK, TxType, OfferInv, CallInv, Answer, TxFree
<1>11. CASE BeginFails
  BY <1>11 DEF BeginFails, TypeOK, TxType, OfferInv, CallInv, Answer, TxFree
<1>12. ASSUME NEW flushRX \in BOOLEAN, Begin(flushRX)
       PROVE  OfferInv'
  BY <1>12 DEF Begin, TypeOK, TxType, OfferInv, CallInv, Answer, TxFree
<1>13. ASSUME NEW k \in 1 .. Len(rx), Collect(k)
       PROVE  OfferInv'
  BY <1>13 DEF Collect, TypeOK, TxType, OfferInv, CallInv, Answer, TxFree
<1>14. CASE ReadReturn
  BY <1>14 DEF ReadReturn, TypeOK, TxType, OfferInv, CallInv, Answer, TxFree
<1>15. ASSUME NEW k \in 1 .. pending, Push(k)
       PROVE  OfferInv'
  <2>1. reply.val \in Nat /\ want \in Nat /\ pending \in Nat /\ k \in Nat
    BY DEF TypeOK, Replies
  <2>2. TxRing > 0 => TxFree' = TxFree - k /\ TxFree \in Int
    BY <1>15, UartAssumption DEF Push, Accept, TxFree, TypeOK, TxType
  <2> HIDE DEF TxFree
  <2> QED
    BY <1>15, <2>1, <2>2 DEF Push, OfferInv
<1>16. CASE WriteReturn
  BY <1>16 DEF WriteReturn, Finish, TypeOK, TxType, OfferInv, CallInv, Answer, TxFree
<1>17. CASE DrainReturn
  BY <1>17 DEF DrainReturn, Finish, TypeOK, TxType, OfferInv, CallInv, Answer, TxFree
<1>18. CASE FlushRound
  BY <1>18 DEF FlushRound, TypeOK, TxType, OfferInv, CallInv, Answer, TxFree
<1>19. CASE FlushDone
  BY <1>19 DEF FlushDone, TypeOK, TxType, OfferInv, CallInv, Answer, TxFree
<1>20. CASE Arrive
  BY <1>20 DEF Arrive, TypeOK, TxType, OfferInv, CallInv, Answer, TxFree
<1>21. CASE Tick
  BY <1>21 DEF Tick, TypeOK, TxType, OfferInv, CallInv, Answer, TxFree
<1>22. CASE Load
  <2>1. reply.val \in Nat /\ want \in Nat /\ pending \in Nat
    BY DEF TypeOK, Replies
  <2>2. TxFree' = TxFree + 1 /\ TxFree \in Int
    BY <1>22, UartAssumption DEF Load, LoadFifo, TxFree, TypeOK, TxType
  <2> QED
    BY <1>22, <2>1, <2>2 DEF Load, OfferInv
<1>23. CASE Shift
  BY <1>23 DEF Shift, ShiftOut, TypeOK, TxType, OfferInv, CallInv, Answer, TxFree
<1>24. CASE DriverDelete
  BY <1>24 DEF DriverDelete, TypeOK, TxType, OfferInv, CallInv, Answer, TxFree
<1>25. CASE DriverInstall
  BY <1>25 DEF DriverInstall, TypeOK, TxType, OfferInv, CallInv, Answer, TxFree
<1> QED
  BY <1>1, <1>2, <1>3, <1>4, <1>5, <1>6, <1>7, <1>8, <1>9, <1>10,
     <1>11, <1>12, <1>13, <1>14, <1>15, <1>16, <1>17, <1>18, <1>19, <1>20,
     <1>21, <1>22, <1>23, <1>24, <1>25
  DEF AnyNext, Progress, Environment

(***************************************************************************)
(* After a call that waited, nothing is left to send until the next call.  *)
(***************************************************************************)
LEMMA WaitedStep ==
    ASSUME TypeOK, CallInv, DownInv, WaitedIsOnTheWire, [AnyNext]_vars
    PROVE  WaitedIsOnTheWire'
<1> USE DEF NoByte, Reads, Writes, Flushes, Events, serialVars, callVars
<1>1. CASE UNCHANGED vars
  BY <1>1 DEF vars, CallInv, DownInv, WaitedIsOnTheWire, Answer, TxDone, TxEmpty
<1>2. CASE Available
  BY <1>2 DEF Available, CallInv, DownInv, WaitedIsOnTheWire, Answer, TxDone, TxEmpty
<1>3. CASE AvailableForWrite
  BY <1>3 DEF AvailableForWrite, CallInv, DownInv, WaitedIsOnTheWire, Answer, TxDone, TxEmpty
<1>4. CASE Peek
  BY <1>4 DEF Peek, CallInv, DownInv, WaitedIsOnTheWire, Answer, TxDone, TxEmpty
<1>5. CASE ReadOne
  BY <1>5 DEF ReadOne, CallInv, DownInv, WaitedIsOnTheWire, Answer, TxDone, TxEmpty
<1>6. CASE ReadNothing
  BY <1>6 DEF ReadNothing, CallInv, DownInv, WaitedIsOnTheWire, Answer, TxDone, TxEmpty
<1>7. ASSUME NEW o \in Reads, NEW n \in Nat, NEW ms \in Timeouts, StartRead(o, n, ms)
      PROVE  WaitedIsOnTheWire'
  BY <1>7 DEF StartRead, CallInv, DownInv, WaitedIsOnTheWire, Answer, TxDone, TxEmpty
<1>8. CASE WriteNothing
  BY <1>8 DEF WriteNothing, CallInv, DownInv, WaitedIsOnTheWire, Answer, TxDone, TxEmpty
<1>9. ASSUME NEW o \in Writes, NEW n \in Nat, StartWrite(o, n)
      PROVE  WaitedIsOnTheWire'
  BY <1>9 DEF StartWrite, CallInv, DownInv, WaitedIsOnTheWire, Answer, TxDone, TxEmpty
<1>10. ASSUME NEW o \in Flushes, StartFlush(o)
       PROVE  WaitedIsOnTheWire'
  BY <1>10 DEF StartFlush, CallInv, DownInv, WaitedIsOnTheWire, Answer, TxDone, TxEmpty
<1>11. CASE BeginFails
  BY <1>11 DEF BeginFails, CallInv, DownInv, WaitedIsOnTheWire, Answer, TxDone, TxEmpty
<1>12. ASSUME NEW flushRX \in BOOLEAN, Begin(flushRX)
       PROVE  WaitedIsOnTheWire'
  BY <1>12 DEF Begin, CallInv, DownInv, WaitedIsOnTheWire, Answer, TxDone, TxEmpty
<1>13. ASSUME NEW k \in 1 .. Len(rx), Collect(k)
       PROVE  WaitedIsOnTheWire'
  BY <1>13 DEF Collect, CallInv, DownInv, WaitedIsOnTheWire, Answer, TxDone, TxEmpty
<1>14. CASE ReadReturn
  BY <1>14 DEF ReadReturn, CallInv, DownInv, WaitedIsOnTheWire, Answer, TxDone, TxEmpty
<1>15. ASSUME NEW k \in 1 .. pending, Push(k)
       PROVE  WaitedIsOnTheWire'
  BY <1>15 DEF Push, CallInv, DownInv, WaitedIsOnTheWire, Answer, TxDone, TxEmpty
<1>16. CASE WriteReturn
  BY <1>16 DEF WriteReturn, Finish, DrainsAfter, TypeOK, CallInv, DownInv, WaitedIsOnTheWire, Answer, TxDone, TxEmpty
<1>17. CASE DrainReturn
  BY <1>17 DEF DrainReturn, Finish, CallInv, DownInv, WaitedIsOnTheWire, Answer, TxDone, TxEmpty
<1>18. CASE FlushRound
  BY <1>18 DEF FlushRound, CallInv, DownInv, WaitedIsOnTheWire, Answer, TxDone, TxEmpty
<1>19. CASE FlushDone
  BY <1>19 DEF FlushDone, CallInv, DownInv, WaitedIsOnTheWire, Answer, TxDone, TxEmpty
<1>20. CASE Arrive
  BY <1>20 DEF Arrive, CallInv, DownInv, WaitedIsOnTheWire, Answer, TxDone, TxEmpty
<1>21. CASE Tick
  BY <1>21 DEF Tick, CallInv, DownInv, WaitedIsOnTheWire, Answer, TxDone, TxEmpty
<1>22. CASE Load
  BY <1>22 DEF Load, LoadFifo, CallInv, DownInv, WaitedIsOnTheWire, Answer, TxDone, TxEmpty
<1>23. CASE Shift
  BY <1>23 DEF Shift, ShiftOut, CallInv, DownInv, WaitedIsOnTheWire, Answer, TxDone, TxEmpty
<1>24. CASE DriverDelete
  BY <1>24 DEF DriverDelete, CallInv, DownInv, WaitedIsOnTheWire, Answer, TxDone, TxEmpty
<1>25. CASE DriverInstall
  BY <1>25 DEF DriverInstall, CallInv, DownInv, WaitedIsOnTheWire, Answer, TxDone, TxEmpty
<1> QED
  BY <1>1, <1>2, <1>3, <1>4, <1>5, <1>6, <1>7, <1>8, <1>9, <1>10,
     <1>11, <1>12, <1>13, <1>14, <1>15, <1>16, <1>17, <1>18, <1>19, <1>20,
     <1>21, <1>22, <1>23, <1>24, <1>25
  DEF AnyNext, Progress, Environment

(***************************************************************************)
(* Taking from a sequence of fresh bytes, and joining two, leaves fresh    *)
(* bytes.                                                                  *)
(***************************************************************************)
LEMMA FreshEmpty == ASSUME NEW m PROVE Fresh(<< >>, m)
  BY DEF Fresh

LEMMA FreshTake ==
    ASSUME NEW s \in Seq(1 .. MaxRx), NEW m \in Nat, NEW k \in 0 .. Len(s), Fresh(s, m)
    PROVE  Fresh(SubSeq(s, 1, k), m) /\ Fresh(SubSeq(s, k + 1, Len(s)), m)
<1>1. \A i \in 1 .. Len(s) - k : i + k \in 1 .. Len(s)
  OBVIOUS
<1>2. Fresh(SubSeq(s, 1, k), m)
  BY TakeType DEF Fresh
<1>3. Fresh(SubSeq(s, k + 1, Len(s)), m)
  BY <1>1, TakeType DEF Fresh
<1> QED
  BY <1>2, <1>3

LEMMA FreshJoin ==
    ASSUME NEW s \in Seq(1 .. MaxRx), NEW t \in Seq(1 .. MaxRx), NEW m \in Nat,
           Fresh(s, m), Fresh(t, m)
    PROVE  Fresh(s \o t, m)
<1>1. SUFFICES ASSUME NEW i \in 1 .. Len(s \o t) PROVE (s \o t)[i] > m
  BY DEF Fresh
<1>2. CASE i <= Len(s)
  BY <1>2, JoinType DEF Fresh
<1>3. CASE i > Len(s)
  <2>1. i - Len(s) \in 1 .. Len(t) /\ i = (i - Len(s)) + Len(s)
    BY <1>3, JoinType
  <2> QED
    BY <2>1, JoinType DEF Fresh
<1> QED
  BY <1>2, <1>3

LEMMA FreshHead ==
    ASSUME NEW s \in Seq(1 .. MaxRx), NEW m \in Nat, s # << >>, Fresh(s, m)
    PROVE  /\ Fresh(<<Head(s)>>, m) /\ Fresh(Tail(s), m)
           /\ Head(s) \in 1 .. MaxRx
<1>1. Head(s) = s[1] /\ s[1] > m
  BY HeadType DEF Fresh
<1>2. Fresh(<<Head(s)>>, m)
  BY <1>1 DEF Fresh
<1>3. \A i \in 1 .. Len(Tail(s)) : Tail(s)[i] = s[i + 1] /\ i + 1 \in 1 .. Len(s)
  BY HeadType
<1> QED
  BY <1>2, <1>3, HeadType DEF Fresh

LEMMA FreshAppend ==
    ASSUME NEW s \in Seq(1 .. MaxRx), NEW m \in Nat, NEW e \in 1 .. MaxRx,
           Fresh(s, m), e > m
    PROVE  Fresh(Append(s, e), m)
  BY DEF Fresh

(***************************************************************************)
(* A step leaves no byte older than the mark where a read could find it.   *)
(***************************************************************************)
LEMMA FreshStep ==
    ASSUME TypeOK, CallInv, FreshInv, [AnyNext]_vars
    PROVE  FreshInv'
<1> USE DEF NoByte, Reads, Writes, Flushes, Events, serialVars, callVars
<1>1. CASE UNCHANGED vars
  BY <1>1 DEF vars, FreshInv, Held, Answer, CallInv, WindowOver
<1>2. CASE Available
  BY <1>2, FreshEmpty DEF Available, FreshInv, Held, Answer, CallInv, WindowOver
<1>3. CASE AvailableForWrite
  BY <1>3, FreshEmpty DEF AvailableForWrite, FreshInv, Held, Answer, CallInv, WindowOver
<1>4. CASE Peek
  <2>1. CASE peeked = NoByte /\ up /\ rx # << >>
    <3>1. rx \in Seq(1 .. MaxRx) /\ mark \in Nat /\ Fresh(rx, mark)
      BY <1>4 DEF Peek, FreshInv, TypeOK
    <3>2. Fresh(<<Head(rx)>>, mark) /\ Fresh(Tail(rx), mark) /\ Head(rx) # NoByte
      BY <2>1, <3>1, FreshHead
    <3>3. peeked' = Head(rx) /\ rx' = Tail(rx) /\ reply'.bytes = <<Head(rx)>>
      BY <1>4, <2>1, <3>2 DEF Peek, Held, Answer
    <3> QED
      BY <1>4, <3>2, <3>3 DEF Peek, FreshInv, Held
  <2>2. CASE ~(peeked = NoByte /\ up /\ rx # << >>)
    <3>1. peeked' = peeked /\ rx' = rx /\ reply'.bytes = Held
      BY <1>4, <2>2 DEF Peek, Held, Answer
    <3> QED
      BY <1>4, <3>1 DEF Peek, FreshInv, Held
  <2> QED
    BY <2>1, <2>2
<1>5. CASE ReadOne
  <2>1. rx \in Seq(1 .. MaxRx) /\ mark \in Nat /\ Fresh(rx, mark) /\ Fresh(Held, mark)
    BY <1>5 DEF ReadOne, FreshInv, TypeOK
  <2>2. CASE Held # << >>
    BY <1>5, <2>1, <2>2, FreshEmpty DEF ReadOne, FreshInv, Held, Answer
  <2>3. CASE Held = << >>
    <3> DEFINE k == Least(1, Len(rx))
    <3>1. k \in 0 .. Len(rx)
      BY <2>1 DEF Least
    <3>2. Fresh(SubSeq(rx, 1, k), mark) /\ Fresh(SubSeq(rx, k + 1, Len(rx)), mark)
      BY <2>1, <3>1, FreshTake
    <3>3. /\ reply' = Answer("read", 1, 0, SubSeq(rx, 1, k))
          /\ rx' = SubSeq(rx, k + 1, Len(rx))
          /\ peeked' = peeked
      BY <1>5, <2>3 DEF ReadOne
    <3>4. reply'.bytes = SubSeq(rx, 1, k)
      BY <3>3 DEF Answer
    <3> QED
      BY <1>5, <3>2, <3>3, <3>4 DEF ReadOne, FreshInv, Held
  <2> QED
    BY <2>2, <2>3
<1>6. CASE ReadNothing
  BY <1>6, FreshEmpty DEF ReadNothing, FreshInv, Held, Answer, CallInv, WindowOver
<1>7. ASSUME NEW o \in Reads, NEW n \in Nat, NEW ms \in Timeouts, StartRead(o, n, ms)
      PROVE  FreshInv'
  BY <1>7, FreshEmpty DEF StartRead, FreshInv, Held, Answer, CallInv, WindowOver
<1>8. CASE WriteNothing
  BY <1>8, FreshEmpty DEF WriteNothing, FreshInv, Held, Answer, CallInv, WindowOver
<1>9. ASSUME NEW o \in Writes, NEW n \in Nat, StartWrite(o, n)
      PROVE  FreshInv'
  BY <1>9 DEF StartWrite, FreshInv, Held, Answer, CallInv, WindowOver
<1>10. ASSUME NEW o \in Flushes, StartFlush(o)
       PROVE  FreshInv'
  BY <1>10 DEF StartFlush, FreshInv, Held, Answer, CallInv, WindowOver
<1>11. CASE BeginFails
  BY <1>11, FreshEmpty DEF BeginFails, FreshInv, Held, Answer, CallInv, WindowOver
<1>12. ASSUME NEW flushRX \in BOOLEAN, Begin(flushRX)
       PROVE  FreshInv'
  <2>1. /\ Fresh(reply'.bytes, mark') /\ arrived' = arrived /\ rx' = rx /\ buf' = buf
        /\ Held' = << >> /\ mark' <= arrived'
    BY <1>12, FreshEmpty DEF Begin, Answer, Held, FreshInv, TypeOK
  <2>2. CASE flushRX
    <3>1. pc' = "flushRX" /\ ~WindowOver'
      BY <1>12, <2>2, IdfAssumption DEF Begin, WindowOver
    <3> QED
      BY <2>1, <3>1 DEF FreshInv
  <2>3. CASE ~flushRX
    <3>1. pc' = "idle" /\ mark' = mark /\ pc = "idle"
      BY <1>12, <2>3 DEF Begin
    <3> QED
      BY <2>1, <3>1, FreshEmpty DEF FreshInv
  <2> QED
    BY <2>2, <2>3
<1>13. ASSUME NEW k \in 1 .. Len(rx), Collect(k)
       PROVE  FreshInv'
  <2>1. /\ rx \in Seq(1 .. MaxRx) /\ buf \in Seq(1 .. MaxRx) /\ mark \in Nat
        /\ Fresh(rx, mark) /\ Fresh(buf, mark) /\ k \in 0 .. Len(rx)
    BY <1>13 DEF Collect, FreshInv, TypeOK
  <2>2. /\ Fresh(SubSeq(rx, 1, k), mark) /\ SubSeq(rx, 1, k) \in Seq(1 .. MaxRx)
        /\ Fresh(SubSeq(rx, k + 1, Len(rx)), mark)
    BY <2>1, FreshTake, TakeType
  <2>3. Fresh(buf', mark) /\ Fresh(rx', mark)
    BY <1>13, <2>1, <2>2, FreshJoin DEF Collect
  <2> QED
    BY <1>13, <2>3 DEF Collect, FreshInv, Held
<1>14. CASE ReadReturn
  BY <1>14, FreshEmpty DEF ReadReturn, FreshInv, Held, Answer, CallInv, WindowOver
<1>15. ASSUME NEW k \in 1 .. pending, Push(k)
       PROVE  FreshInv'
  BY <1>15 DEF Push, FreshInv, Held, Answer, CallInv, WindowOver
<1>16. CASE WriteReturn
  BY <1>16, FreshEmpty DEF WriteReturn, Finish, FreshInv, Held, Answer, CallInv, WindowOver
<1>17. CASE DrainReturn
  BY <1>17, FreshEmpty DEF DrainReturn, Finish, FreshInv, Held, Answer, CallInv, WindowOver
<1>18. CASE FlushRound
  BY <1>18, FreshEmpty DEF FlushRound, FreshInv, Held, Answer, CallInv, WindowOver
<1>19. CASE FlushDone
  BY <1>19, FreshEmpty DEF FlushDone, FreshInv, Held, Answer, CallInv, WindowOver
<1>20. CASE Arrive
  <2>1. /\ rx \in Seq(1 .. MaxRx) /\ mark \in Nat
        /\ arrived + 1 \in 1 .. MaxRx /\ arrived + 1 > mark /\ mark <= arrived + 1
    BY <1>20, IdfAssumption DEF Arrive, FreshInv, TypeOK
  <2>2. Fresh(rx, mark) => Fresh(rx', mark)
    BY <1>20, <2>1, FreshAppend DEF Arrive
  <2> QED
    BY <1>20, <2>1, <2>2 DEF Arrive, FreshInv, Held, WindowOver
<1>21. CASE Tick
  BY <1>21 DEF Tick, FreshInv, Held, Answer, CallInv, WindowOver
<1>22. CASE Load
  BY <1>22 DEF Load, FreshInv, Held, Answer, CallInv, WindowOver
<1>23. CASE Shift
  BY <1>23 DEF Shift, FreshInv, Held, Answer, CallInv, WindowOver
<1>24. CASE DriverDelete
  BY <1>24, FreshEmpty DEF DriverDelete, FreshInv, Held, Answer, CallInv, WindowOver
<1>25. CASE DriverInstall
  BY <1>25 DEF DriverInstall, FreshInv, Held, Answer, CallInv, WindowOver
<1> QED
  BY <1>1, <1>2, <1>3, <1>4, <1>5, <1>6, <1>7, <1>8, <1>9, <1>10,
     <1>11, <1>12, <1>13, <1>14, <1>15, <1>16, <1>17, <1>18, <1>19, <1>20,
     <1>21, <1>22, <1>23, <1>24, <1>25
  DEF AnyNext, Progress, Environment

-----------------------------------------------------------------------------
(***************************************************************************)
(* Every step keeps all parts of the invariant.                            *)
(***************************************************************************)
LEMMA InvStep ==
    ASSUME TypeOK, IInv, [AnyNext]_vars
    PROVE  IInv'
  BY CallStep, OfferStep, FreshStep, WaitedStep DEF IInv

LEMMA InvInit ==
    ASSUME Init
    PROVE  IInv
  BY FreshEmpty, IdfAssumption
  DEF Init, IInv, CallInv, DownInv, OfferInv, FreshInv, WaitedIsOnTheWire, Held,
      TxDone, Answer, Flushes, NoByte

(***************************************************************************)
(* The invariant of the backend: what the task knows of its call, the      *)
(* driver that is not there, the offers made, the mark, the wire.          *)
(***************************************************************************)
THEOREM InvariantHolds == Spec => []IInv
<1>1. Init => IInv
  BY InvInit
<1>2. TypeOK /\ IInv /\ [Next]_vars => IInv'
  BY InvStep, NextIsAny
<1> QED
  BY <1>1, <1>2, TypeCorrect, PTL DEF Spec

(***************************************************************************)
(* What the invariant says of every state, whoever calls the backend.      *)
(***************************************************************************)
LEMMA InvSuffices ==
    ASSUME TypeOK, IInv
    PROVE  NothingStale /\ RingOfferIsWritable /\ WaitedIsOnTheWire
<1>1. ASSUME pc # "flushRX" PROVE Fresh(Unread, mark)
  <2>1. /\ buf \in Seq(1 .. MaxRx) /\ rx \in Seq(1 .. MaxRx) /\ Held \in Seq(1 .. MaxRx)
        /\ mark \in Nat
    BY HeldType DEF TypeOK
  <2>2. Fresh(buf, mark) /\ Fresh(Held, mark) /\ Fresh(rx, mark)
    BY <1>1 DEF IInv, FreshInv
  <2>3. Fresh(buf \o Held, mark) /\ buf \o Held \in Seq(1 .. MaxRx)
    BY <2>1, <2>2, FreshJoin, JoinType
  <2> QED
    BY <2>1, <2>2, <2>3, FreshJoin DEF Unread
<1>2. NothingStale
  BY <1>1 DEF NothingStale, IInv, FreshInv, Fresh
<1>3. RingOfferIsWritable
  BY UartAssumption DEF RingOfferIsWritable, IInv, OfferInv, TxRoom, TypeOK
<1>4. WaitedIsOnTheWire
  BY DEF IInv
<1> QED
  BY <1>2, <1>3, <1>4

(***************************************************************************)
(* No byte that had come in before a draining begin() is ever read after   *)
(* it, provided the task is not kept off the CPU for the whole window.     *)
(***************************************************************************)
THEOREM NothingStaleHolds == Spec => []NothingStale
<1>1. TypeOK /\ IInv => NothingStale
  BY InvSuffices
<1> QED
  BY <1>1, TypeCorrect, InvariantHolds, PTL

(***************************************************************************)
(* A write within an offer made of a ring that has been seen never waits,  *)
(* whatever the sizes of the ring and of the FIFO.                         *)
(***************************************************************************)
THEOREM RingOfferHolds == Spec => []RingOfferIsWritable
<1>1. TypeOK /\ IInv => RingOfferIsWritable
  BY InvSuffices
<1> QED
  BY <1>1, TypeCorrect, InvariantHolds, PTL

(***************************************************************************)
(* After a waiting write that wrote, and after a flush, everything is      *)
(* sent.                                                                   *)
(***************************************************************************)
THEOREM WaitedHolds == Spec => []WaitedIsOnTheWire
<1>1. TypeOK /\ IInv => WaitedIsOnTheWire
  BY InvSuffices
<1> QED
  BY <1>1, TypeCorrect, InvariantHolds, PTL
-----------------------------------------------------------------------------
(***************************************************************************)
(* The ESP-IDF backend implements the Stream contract of ByteStream: every *)
(* step of IdfSerial, seen through Unread and Got, is a step of ByteStream *)
(* or changes neither.                                                     *)
(***************************************************************************)

(***************************************************************************)
(* A read holds no byte back and has not copied more than it was asked     *)
(* for.                                                                    *)
(***************************************************************************)
ReadInv == pc = "reading" => peeked = NoByte /\ Len(buf) <= want

(***************************************************************************)
(* It was asked for one of the lengths a caller passes.                    *)
(***************************************************************************)
SizeInv == pc = "reading" => want \in ReadSizes
-----------------------------------------------------------------------------
(***************************************************************************)
(* A step keeps what the task knows about the read it is in.               *)
(***************************************************************************)
LEMMA ReadStep ==
    ASSUME TypeOK, ReadInv, [AnyNext]_vars
    PROVE  ReadInv'
<1> USE DEF ReadInv, serialVars, callVars
<1>1. CASE UNCHANGED vars
  BY <1>1 DEF vars
<1>2. ASSUME NEW o \in Reads, NEW n \in Nat, NEW ms \in Timeouts,
             StartRead(o, n, ms)
      PROVE  ReadInv'
  <2>1. n \in Nat /\ n > 0
    BY <1>2, IdfAssumption DEF StartRead
  <2>2. Len(Held) = 0 \/ Len(Held) = 1
    BY HeldType DEF TypeOK
  <2>3. buf' = Held /\ want' = n /\ peeked' = NoByte
    BY <1>2 DEF StartRead
  <2>4. Len(buf') <= want'
    <3> DEFINE m == Len(Held)
    <3>1. m = 0 \/ m = 1
      BY <2>2
    <3>2. Len(buf') = m
      BY <2>3
    <3> HIDE DEF m
    <3>3. m <= n
      BY <2>1, <3>1
    <3> QED
      BY <2>3, <3>2, <3>3
  <2> QED
    BY <2>3, <2>4
<1>3. ASSUME NEW k \in 1 .. Len(rx), Collect(k)
      PROVE  ReadInv'
  <2>1. /\ rx \in Seq(1 .. MaxRx) /\ buf \in Seq(1 .. MaxRx)
        /\ want \in Nat /\ k \in 0 .. Len(rx)
    BY DEF TypeOK
  <2>2. SubSeq(rx, 1, k) \in Seq(1 .. MaxRx) /\ Len(SubSeq(rx, 1, k)) = k
    BY <2>1, TakeType
  <2>3. Len(buf') = Len(buf) + k
    BY <1>3, <2>1, <2>2, JoinType DEF Collect
  <2> QED
    BY <1>3, <2>1, <2>3 DEF Collect
<1>4. CASE \/ Available \/ AvailableForWrite \/ Peek \/ ReadOne \/ ReadNothing
           \/ WriteNothing \/ BeginFails \/ DriverDelete \/ DriverInstall
  BY <1>4 DEF Available, AvailableForWrite, Peek, ReadOne, ReadNothing,
              WriteNothing, BeginFails, DriverDelete, DriverInstall
<1>5. CASE \/ \E o \in Writes, n \in Nat : StartWrite(o, n)
           \/ \E o \in Flushes : StartFlush(o)
           \/ \E flushRX \in BOOLEAN : Begin(flushRX)
  BY <1>5 DEF StartWrite, StartFlush, Begin
<1>6. CASE \/ ReadReturn \/ WriteReturn \/ DrainReturn \/ FlushRound \/ FlushDone
           \/ \E k \in 1 .. pending : Push(k)
  BY <1>6 DEF ReadReturn, WriteReturn, DrainReturn, Finish, FlushRound,
              FlushDone, Push
<1>7. CASE Arrive \/ Tick \/ Load \/ Shift
  BY <1>7 DEF Arrive, Tick, Load, Shift
<1> QED
  BY <1>1, <1>2, <1>3, <1>4, <1>5, <1>6, <1>7
  DEF AnyNext, Progress, Environment

LEMMA SizeStep ==
    ASSUME SizeInv, [Next]_vars
    PROVE  SizeInv'
<1> USE DEF SizeInv, serialVars, callVars
<1>1. CASE UNCHANGED vars
  BY <1>1 DEF vars
<1>2. CASE Call
  BY <1>2 DEF Call, Available, AvailableForWrite, Peek, ReadOne, ReadNothing,
              StartRead, WriteNothing, StartWrite, StartFlush, BeginFails, Begin
<1>3. CASE Progress
  BY <1>3 DEF Progress, Collect, ReadReturn, Push, WriteReturn, DrainReturn,
              Finish, FlushRound, FlushDone
<1>4. CASE Environment
  BY <1>4 DEF Environment, Arrive, Tick, Load, Shift, DriverDelete, DriverInstall
<1> QED
  BY <1>1, <1>2, <1>3, <1>4 DEF Next

(***************************************************************************)
(* The parts of the input are sequences of bytes.                          *)
(***************************************************************************)
LEMMA UnreadType ==
    ASSUME TypeOK
    PROVE  /\ buf \in Seq(1 .. MaxRx)
           /\ Held \in Seq(1 .. MaxRx)
           /\ rx \in Seq(1 .. MaxRx)
           /\ buf \o Held \in Seq(1 .. MaxRx)
           /\ Unread \in Seq(1 .. MaxRx)
<1>1. /\ buf \in Seq(1 .. MaxRx)
      /\ Held \in Seq(1 .. MaxRx)
      /\ rx \in Seq(1 .. MaxRx)
  BY HeldType DEF TypeOK
<1>2. buf \o Held \in Seq(1 .. MaxRx)
  BY <1>1, JoinType
<1> QED
  BY <1>1, <1>2, JoinType DEF Unread

(***************************************************************************)
(* Outside a read the input is the held byte and the ring.                 *)
(***************************************************************************)
LEMMA UnreadIdle ==
    ASSUME TypeOK, buf = << >>
    PROVE  Unread = Held \o rx
BY UnreadType, ConcatEmptySeq DEF Unread

(***************************************************************************)
(* With no byte held back the input is what a read has copied and the      *)
(* ring.                                                                   *)
(***************************************************************************)
LEMMA UnreadReading ==
    ASSUME TypeOK, peeked = NoByte
    PROVE  Unread = buf \o rx
BY UnreadType, ConcatEmptySeq DEF Unread, Held

(***************************************************************************)
(* How an answer of the backend is seen by ByteStream.                     *)
(***************************************************************************)
LEMMA GotOf ==
    ASSUME NEW o, NEW n, NEW v, NEW b, reply' = Answer(o, n, v, b)
    PROVE  /\ o = "read" => Got' = [op |-> "read", want |-> n, bytes |-> b]
           /\ o = "peek" => Got' = [op |-> "peek", want |-> n, bytes |-> b]
           /\ o \in {"begin", "flush_all", "driver"} => Got' = Stream!Discarded
           /\ o \in {"available", "availableForWrite", "begin_failed", "flush_tx"}
                    \cup Writes => Got' = Stream!Quiet
BY DEF Got, Answer, Stream!Discarded, Stream!Quiet, Writes

(***************************************************************************)
(* A step that leaves the parts of the input and the answer alone is not   *)
(* seen.                                                                   *)
(***************************************************************************)
LEMMA Unseen ==
    ASSUME UNCHANGED <<arrived, rx, peeked, buf, reply>>
    PROVE  UNCHANGED Stream!vars
BY DEF Stream!vars, Unread, Held, Got

(***************************************************************************)
(* An answer that is not of the read side, and leaves the input alone.     *)
(***************************************************************************)
LEMMA SeenAsOther ==
    ASSUME UNCHANGED <<arrived, rx, peeked, buf>>, Got' = Stream!Quiet
    PROVE  Stream!Other
BY DEF Stream!Other, Unread, Held
-----------------------------------------------------------------------------
(***************************************************************************)
(* The calls of the read side.                                             *)
(***************************************************************************)
LEMMA PeekSeen ==
    ASSUME TypeOK, CallInv, DownInv, Peek
    PROVE  Stream!Peek
<1> DEFINE b == IF peeked' = NoByte THEN << >> ELSE <<peeked'>>
<1>1. /\ Got' = [op |-> "peek", want |-> 1, bytes |-> b]
      /\ arrived' = arrived /\ buf' = << >> /\ buf = << >>
  <2>1. reply' = Answer("peek", 1, 0, b)
    BY DEF Peek
  <2> HIDE DEF b
  <2> QED
    BY <2>1, GotOf DEF Peek, CallInv, callVars
<1>2. Unread = Held \o rx
  BY <1>1, UnreadIdle
<1>3. CASE Held = << >> /\ up /\ rx # << >>
  <2>1. /\ Held' = <<Head(rx)>> /\ rx' = Tail(rx)
        /\ b = <<Head(rx)>>
    <3>1. peeked' = Head(rx) /\ rx' = Tail(rx) /\ Head(rx) \in 1 .. MaxRx
      BY <1>3, HeadType DEF Peek, TypeOK
    <3>2. peeked' # NoByte
      BY <3>1 DEF NoByte
    <3> QED
      BY <3>1, <3>2 DEF Held
  <2>2. Unread = rx
    BY <1>2, <1>3, UnreadType, ConcatEmptySeq
  <2>3. <<Head(rx)>> \o Tail(rx) = rx
    BY <1>3, UnreadType, JoinHead
  <2>4. Held' \in Seq(1 .. MaxRx)
    <3>1. Head(rx) \in 1 .. MaxRx
      BY <1>3, UnreadType, HeadType
    <3> QED
      BY <2>1, <3>1
  <2>5. (<< >> \o Held') = Held'
    BY <2>4, ConcatEmptySeq
  <2>6. Unread' = rx
    BY <1>1, <2>1, <2>3, <2>5 DEF Unread
  <2> QED
    BY <1>1, <1>3, <2>1, <2>2, <2>6 DEF Stream!Peek
<1>4. CASE ~(Held = << >> /\ up /\ rx # << >>)
  <2>1. peeked' = peeked /\ rx' = rx /\ Held' = Held
    BY <1>4 DEF Peek, Held
  <2>2. Unread' = Unread
    BY <1>1, <2>1 DEF Unread
  <2>3. b = IF Unread = << >> THEN << >> ELSE <<Head(Unread)>>
    <3>1. CASE Held = << >>
      <4>1. rx = << >> /\ b = << >>
        BY <1>4, <3>1, <2>1, HeldType DEF DownInv, TypeOK
      <4>2. Unread = << >>
        BY <1>2, <3>1, <4>1, EmptyType, ConcatEmptySeq
      <4> QED
        BY <4>1, <4>2
    <3>2. CASE Held # << >>
      <4>1. Len(Held) = 1 /\ Held[1] = peeked /\ peeked # NoByte
        BY <3>2, HeldType DEF TypeOK
      <4>2. Len(Unread) > 0 /\ Unread[1] = peeked
        <5>1. 1 \in 1 .. Len(Held) /\ Len(rx) \in Nat
          BY <4>1, UnreadType
        <5>2. /\ Len(Held \o rx) = Len(Held) + Len(rx)
              /\ \A i \in 1 .. Len(Held) : (Held \o rx)[i] = Held[i]
          BY UnreadType, JoinType
        <5> QED
          BY <1>2, <4>1, <5>1, <5>2
      <4>3. Unread # << >> /\ Head(Unread) = peeked
        BY <4>2, UnreadType, HeadType, EmptyType
      <4> QED
        BY <2>1, <4>1, <4>3
    <3> QED
      BY <3>1, <3>2
  <2> QED
    BY <1>1, <2>2, <2>3 DEF Stream!Peek
<1> QED
  BY <1>3, <1>4

LEMMA ReadOneSeen ==
    ASSUME TypeOK, CallInv, ReadOne
    PROVE  Stream!Next
<1>1. arrived' = arrived /\ buf = << >> /\ buf' = << >>
  BY DEF ReadOne, CallInv, callVars
<1>2. Unread = Held \o rx
  BY <1>1, UnreadIdle
<1>3. CASE Held # << >>
  <2>1. /\ reply' = Answer("read", 1, 0, Held) /\ rx' = rx
        /\ peeked' = NoByte /\ Len(Held) = 1
    BY <1>3, HeldType DEF ReadOne, TypeOK
  <2>2. Got' = [op |-> "read", want |-> 1, bytes |-> Held]
    BY <2>1, GotOf
  <2>3. /\ SubSeq(Unread, 1, 1) = Held
        /\ SubSeq(Unread, 1 + 1, Len(Unread)) = rx
    <3>1. /\ SubSeq(Unread, 1, Len(Held)) = Held
          /\ SubSeq(Unread, Len(Held) + 1, Len(Unread)) = rx
      BY <1>2, UnreadType, CutJoined
    <3> QED
      BY <2>1, <3>1
  <2>4. Unread' = rx
    BY <1>1, <2>1, UnreadType, EmptyType, ConcatEmptySeq DEF Unread, Held
  <2>5. 1 \in 0 .. Len(Unread)
    <3>1. Len(Unread) = Len(Held) + Len(rx) /\ Len(rx) \in Nat
      BY <1>2, UnreadType, JoinType
    <3> QED
      BY <2>1, <3>1
  <2>6. Stream!Read(1, 1)
    BY <1>1, <2>2, <2>3, <2>4 DEF Stream!Read
  <2> QED
    BY <2>5, <2>6 DEF Stream!Next
<1>4. CASE Held = << >>
  <2> DEFINE k == Least(1, Len(rx))
             t == SubSeq(rx, 1, k)
             u == SubSeq(rx, k + 1, Len(rx))
  <2>1. reply' = Answer("read", 1, 0, t) /\ rx' = u /\ peeked' = peeked
    BY <1>4 DEF ReadOne
  <2>2. Unread = rx
    BY <1>2, <1>4, UnreadType, ConcatEmptySeq
  <2>3. k \in 0 .. Len(rx) /\ k <= 1 /\ (k < 1 => k = Len(rx))
    BY UnreadType DEF Least
  <2>4. u \in Seq(1 .. MaxRx)
    BY <2>3, UnreadType, TakeType
  <2> HIDE DEF k
  <2>5. Got' = [op |-> "read", want |-> 1, bytes |-> t]
    <3> HIDE DEF t
    <3> QED
      BY <2>1, GotOf
  <2>6. Unread' = u
    <3> HIDE DEF u
    <3>1. Held' = << >>
      BY <1>4, <2>1 DEF Held
    <3> QED
      BY <1>1, <2>1, <2>4, <3>1, EmptyType, ConcatEmptySeq DEF Unread
  <2>7. Stream!Read(1, k)
    BY <1>1, <2>2, <2>3, <2>5, <2>6 DEF Stream!Read
  <2> QED
    BY <2>2, <2>3, <2>7 DEF Stream!Next
<1> QED
  BY <1>3, <1>4

LEMMA ReadNothingSeen ==
    ASSUME TypeOK, ReadNothing
    PROVE  Stream!Next
<1>1. /\ Got' = [op |-> "read", want |-> 0, bytes |-> << >>]
      /\ arrived' = arrived /\ Unread' = Unread
  BY GotOf DEF ReadNothing, serialVars, callVars, Unread, Held
<1>2. SubSeq(Unread, 1, 0) = << >> /\ SubSeq(Unread, 0 + 1, Len(Unread)) = Unread
  BY UnreadType, SubSeqEmpty, SubSeqFull
<1>3. 0 \in 0 .. Len(Unread)
  BY UnreadType
<1>4. Stream!Read(0, 0)
  BY <1>1, <1>2 DEF Stream!Read
<1> QED
  BY <1>3, <1>4 DEF Stream!Next

LEMMA ReadReturnSeen ==
    ASSUME TypeOK, ReadInv, DownInv, ReadReturn
    PROVE  /\ want \in Nat /\ Len(buf) \in 0 .. Len(Unread)
           /\ Stream!Read(want, Len(buf))
<1>1. /\ reply' = Answer("read", want, 0, buf)
      /\ arrived' = arrived /\ rx' = rx /\ buf' = << >> /\ peeked' = peeked
      /\ peeked = NoByte /\ Len(buf) <= want
      /\ Len(buf) = want \/ rx = << >>
  BY DEF ReadReturn, ReadInv, DownInv, serialVars
<1>2. Got' = [op |-> "read", want |-> want, bytes |-> buf]
  BY <1>1, GotOf
<1>3. Unread = buf \o rx
  BY <1>1, UnreadReading
<1>4. /\ SubSeq(Unread, 1, Len(buf)) = buf
      /\ SubSeq(Unread, Len(buf) + 1, Len(Unread)) = rx
  BY <1>3, UnreadType, CutJoined
<1>5. Unread' = rx
  BY <1>1, UnreadType, EmptyType, ConcatEmptySeq DEF Unread, Held
<1>6. /\ Len(Unread) = Len(buf) + Len(rx)
      /\ Len(buf) \in Nat /\ Len(rx) \in Nat /\ want \in Nat
  BY <1>3, UnreadType, JoinType DEF TypeOK
<1>7. Len(buf) < want => Len(buf) = Len(Unread)
  <2>1. rx = << >> => Len(rx) = 0
    BY EmptyType
  <2> QED
    BY <1>1, <1>6, <2>1
<1>8. Stream!Read(want, Len(buf))
  BY <1>1, <1>2, <1>4, <1>5, <1>7 DEF Stream!Read
<1> QED
  BY <1>6, <1>8

(***************************************************************************)
(* Starting a read and copying from the ring move bytes within the input.  *)
(***************************************************************************)
LEMMA StartReadUnseen ==
    ASSUME TypeOK, CallInv, NEW o, NEW n, NEW ms, StartRead(o, n, ms)
    PROVE  UNCHANGED Stream!vars
<1>1. /\ buf = << >> /\ buf' = Held /\ Held' = << >>
      /\ rx' = rx /\ arrived' = arrived /\ reply' = reply
  BY DEF StartRead, CallInv, Held
<1>2. (<< >> \o Held) \o rx = (Held \o << >>) \o rx
  BY UnreadType, ConcatEmptySeq
<1> QED
  BY <1>1, <1>2 DEF Stream!vars, Unread, Got

LEMMA CollectUnseen ==
    ASSUME TypeOK, ReadInv, NEW k \in 1 .. Len(rx), Collect(k)
    PROVE  UNCHANGED Stream!vars
<1> DEFINE t == SubSeq(rx, 1, k)
           u == SubSeq(rx, k + 1, Len(rx))
<1>1. /\ buf' = buf \o t /\ rx' = u
      /\ arrived' = arrived /\ reply' = reply
      /\ peeked' = peeked /\ peeked = NoByte
  BY DEF Collect, ReadInv, serialVars
<1>2. k \in 0 .. Len(rx)
  BY UnreadType
<1>3. t \in Seq(1 .. MaxRx) /\ u \in Seq(1 .. MaxRx) /\ t \o u = rx
  BY <1>2, UnreadType, TakeType, JoinCut
<1> HIDE DEF t, u
<1>4. buf \o t \in Seq(1 .. MaxRx) /\ (buf \o t) \o u = buf \o rx
  <2>1. buf \o t \in Seq(1 .. MaxRx)
    BY <1>3, UnreadType, JoinType
  <2>2. (buf \o t) \o u = buf \o (t \o u)
    <3>1. /\ t \in Seq(1 .. MaxRx) /\ u \in Seq(1 .. MaxRx)
          /\ buf \in Seq(1 .. MaxRx)
      BY <1>3, UnreadType
    <3> QED
      BY <3>1, ConcatAssociative
  <2> QED
    BY <1>3, <2>1, <2>2
<1>5. Unread = buf \o rx
  BY <1>1, UnreadReading
<1>6. Unread' = (buf \o t) \o u
  BY <1>1, <1>4, ConcatEmptySeq DEF Unread, Held
<1> QED
  BY <1>1, <1>4, <1>5, <1>6 DEF Stream!vars, Got

LEMMA ArriveSeen ==
    ASSUME TypeOK, Arrive
    PROVE  Stream!Arrive
<1>1. /\ arrived < MaxRx /\ arrived' = arrived + 1
      /\ rx' = Append(rx, arrived + 1)
      /\ buf' = buf /\ peeked' = peeked /\ reply' = reply
  BY DEF Arrive, serialVars, callVars
<1>2. arrived + 1 \in 1 .. MaxRx
  BY <1>1, IdfAssumption DEF TypeOK
<1>3. (buf \o Held) \o Append(rx, arrived + 1) = Append(Unread, arrived + 1)
  BY <1>2, UnreadType, JoinAppend DEF Unread
<1>4. Unread' = Append(Unread, arrived + 1)
  BY <1>1, <1>3 DEF Unread, Held
<1> QED
  BY <1>1, <1>4 DEF Stream!Arrive, Got
-----------------------------------------------------------------------------
(***************************************************************************)
(* The steps that discard input.                                           *)
(***************************************************************************)
LEMMA ClearSeen ==
    ASSUME TypeOK, buf = << >>, UNCHANGED <<arrived, buf>>,
           rx' = << >>, peeked' = NoByte, Got' = Stream!Discarded
    PROVE  Stream!Next
<1>1. Unread' = << >>
  BY EmptyType, ConcatEmptySeq DEF Unread, Held
<1>2. SubSeq(Unread, 1, 0) = << >>
  BY SubSeqEmpty
<1>3. 1 \in 1 .. Len(Unread) + 1 /\ 0 \in 0 .. Len(Unread)
  BY UnreadType
<1>4. Stream!Discard(1, 0)
  BY <1>1, <1>2 DEF Stream!Discard
<1> QED
  BY <1>3, <1>4 DEF Stream!Next

LEMMA FlushRoundSeen ==
    ASSUME TypeOK, CallInv, FlushRound
    PROVE  Stream!Next
<1>1. /\ buf = << >> /\ UNCHANGED <<arrived, buf>>
      /\ rx' = << >> /\ peeked' = NoByte /\ reply.op = "begin" /\ reply' = reply
  BY DEF FlushRound, CallInv, serialVars, callVars
<1>2. Got' = Stream!Discarded
  BY <1>1 DEF Got, Stream!Discarded
<1> QED
  BY <1>1, <1>2, ClearSeen

LEMMA DrainReturnSeen ==
    ASSUME TypeOK, CallInv, DrainReturn
    PROVE  Stream!Next
<1>1. /\ buf = << >> /\ UNCHANGED <<arrived, buf>>
      /\ reply' = Answer(op, want, want, << >>)
  BY DEF DrainReturn, Finish, CallInv
<1>2. CASE op = "flush_all"
  <2>1. rx' = << >> /\ peeked' = NoByte
    BY <1>2 DEF DrainReturn
  <2>2. Got' = Stream!Discarded
    BY <1>1, <1>2, GotOf
  <2> QED
    BY <1>1, <2>1, <2>2, ClearSeen
<1>3. CASE op # "flush_all"
  <2>1. rx' = rx /\ peeked' = peeked
    BY <1>3 DEF DrainReturn
  <2>2. op \in {"flush_tx", "write_waiting"}
    BY <1>3 DEF DrainReturn, CallInv, Flushes
  <2>3. Got' = Stream!Quiet
    BY <1>1, <2>2, GotOf DEF Writes
  <2> QED
    BY <1>1, <2>1, <2>3, SeenAsOther DEF Stream!Next
<1> QED
  BY <1>2, <1>3

LEMMA BeginSeen ==
    ASSUME TypeOK, CallInv, NEW flushRX \in BOOLEAN, Begin(flushRX)
    PROVE  Stream!Next
<1>1. /\ reply' = Answer("begin", 0, 1, << >>)
      /\ UNCHANGED <<arrived, rx, buf>> /\ peeked' = NoByte /\ buf = << >>
  BY DEF Begin, CallInv
<1>2. Got' = Stream!Discarded
  BY <1>1, GotOf
<1>3. Unread = Held \o rx
  BY <1>1, UnreadIdle
<1>4. SubSeq(Unread, Len(Held) + 1, Len(Unread)) = rx
  BY <1>3, UnreadType, CutJoined
<1>5. Unread' = rx
  BY <1>1, UnreadType, EmptyType, ConcatEmptySeq DEF Unread, Held
<1>6. /\ Len(Unread) = Len(Held) + Len(rx)
      /\ Len(Held) \in Nat /\ Len(rx) \in Nat
  BY <1>3, UnreadType, JoinType
<1>7. Len(Held) + 1 \in 1 .. Len(Unread) + 1 /\ Len(Unread) \in 0 .. Len(Unread)
  BY <1>6
<1>8. Stream!Discard(Len(Held) + 1, Len(Unread))
  BY <1>1, <1>2, <1>4, <1>5 DEF Stream!Discard
<1> QED
  BY <1>7, <1>8 DEF Stream!Next

LEMMA DriverDeleteSeen ==
    ASSUME TypeOK, CallInv, DriverDelete
    PROVE  Stream!Next
<1>1. /\ reply' = Answer("driver", 0, 0, << >>) /\ rx' = << >>
      /\ UNCHANGED <<arrived, peeked, buf>> /\ buf = << >>
  BY DEF DriverDelete, CallInv, serialVars, callVars
<1>2. Got' = Stream!Discarded
  BY <1>1, GotOf
<1>3. Unread = Held \o rx
  BY <1>1, UnreadIdle
<1>4. SubSeq(Unread, 1, Len(Held)) = Held
  BY <1>3, UnreadType, CutJoined
<1>5. Unread' = Held
  <2>1. Unread' = (<< >> \o Held) \o << >>
    BY <1>1 DEF Unread, Held
  <2> QED
    BY <2>1, UnreadType, ConcatEmptySeq
<1>6. /\ Len(Unread) = Len(Held) + Len(rx)
      /\ Len(Held) \in Nat /\ Len(rx) \in Nat
  BY <1>3, UnreadType, JoinType
<1>7. 1 \in 1 .. Len(Unread) + 1 /\ Len(Held) \in 0 .. Len(Unread)
  BY <1>6
<1>8. Stream!Discard(1, Len(Held))
  BY <1>1, <1>2, <1>4, <1>5 DEF Stream!Discard
<1> QED
  BY <1>7, <1>8 DEF Stream!Next
-----------------------------------------------------------------------------
(***************************************************************************)
(* Every step of the backend but the return of a read is a step of         *)
(* ByteStream or is not seen.                                              *)
(***************************************************************************)
LEMMA OtherSteps ==
    ASSUME TypeOK, CallInv, DownInv, ReadInv, [AnyNext]_vars
    PROVE  ReadReturn \/ [Stream!Next]_(Stream!vars)
<1>1. CASE UNCHANGED vars
  BY <1>1, Unseen DEF vars, callVars, serialVars
<1>2. CASE Available
  BY <1>2, GotOf, SeenAsOther DEF Available, callVars, serialVars, Stream!Next
<1>3. CASE AvailableForWrite
  BY <1>3, GotOf, SeenAsOther DEF AvailableForWrite, callVars, Stream!Next
<1>4. CASE Peek
  BY <1>4, PeekSeen DEF Stream!Next
<1>5. CASE ReadOne
  BY <1>5, ReadOneSeen
<1>6. CASE ReadNothing
  BY <1>6, ReadNothingSeen
<1>7. ASSUME NEW o \in Reads, NEW n \in Nat, NEW ms \in Timeouts,
             StartRead(o, n, ms)
      PROVE  UNCHANGED Stream!vars
  BY <1>7, StartReadUnseen
<1>8. CASE WriteNothing
  BY <1>8, GotOf, SeenAsOther DEF WriteNothing, Writes, callVars, serialVars, Stream!Next
<1>9. ASSUME NEW o \in Writes, NEW n \in Nat, StartWrite(o, n)
      PROVE  UNCHANGED Stream!vars
  BY <1>9, Unseen DEF StartWrite, serialVars
<1>10. ASSUME NEW o \in Flushes, StartFlush(o)
       PROVE  UNCHANGED Stream!vars
  BY <1>10, Unseen DEF StartFlush, serialVars
<1>11. CASE BeginFails
  BY <1>11, GotOf, SeenAsOther DEF BeginFails, callVars, serialVars, Stream!Next
<1>12. ASSUME NEW flushRX \in BOOLEAN, Begin(flushRX)
       PROVE  Stream!Next
  BY <1>12, BeginSeen
<1>13. ASSUME NEW k \in 1 .. Len(rx), Collect(k)
       PROVE  UNCHANGED Stream!vars
  BY <1>13, CollectUnseen
<1>14. CASE ReadReturn
  BY <1>14
<1>15. ASSUME NEW k \in 1 .. pending, Push(k)
       PROVE  UNCHANGED Stream!vars
  BY <1>15, Unseen DEF Push, serialVars
<1>16. CASE WriteReturn
  <2> DEFINE written == IF up THEN want ELSE 0
  <2>1. /\ UNCHANGED <<arrived, rx, peeked, buf>> /\ op \in Writes
        /\ reply' = reply \/ reply' = Answer(op, want, written, << >>)
    BY <1>16 DEF WriteReturn, Finish, CallInv, serialVars
  <2>2. CASE reply' = reply
    BY <2>1, <2>2, Unseen
  <2>3. CASE reply' = Answer(op, want, written, << >>)
    BY <2>1, <2>3, GotOf, SeenAsOther DEF Stream!Next
  <2> QED
    BY <2>1, <2>2, <2>3
<1>17. CASE DrainReturn
  BY <1>17, DrainReturnSeen
<1>18. CASE FlushRound
  BY <1>18, FlushRoundSeen
<1>19. CASE FlushDone
  BY <1>19, Unseen DEF FlushDone, serialVars
<1>20. CASE Arrive
  BY <1>20, ArriveSeen DEF Stream!Next
<1>21. CASE Tick \/ Load \/ Shift \/ DriverInstall
  BY <1>21, Unseen DEF Tick, Load, Shift, DriverInstall, callVars, serialVars
<1>22. CASE DriverDelete
  BY <1>22, DriverDeleteSeen
<1> QED
  BY <1>1, <1>2, <1>3, <1>4, <1>5, <1>6, <1>7, <1>8, <1>9, <1>10,
     <1>11, <1>12, <1>13, <1>14, <1>15, <1>16, <1>17, <1>18, <1>19, <1>20,
     <1>21, <1>22
  DEF AnyNext, Progress, Environment

(***************************************************************************)
(* Every step of the backend is a step of ByteStream or is not seen: with  *)
(* the lengths of the configuration, and with any length.                  *)
(***************************************************************************)
LEMMA StreamStep ==
    ASSUME TypeOK, CallInv, DownInv, ReadInv, SizeInv, [Next]_vars
    PROVE  [Stream!Next]_(Stream!vars)
<1>1. CASE ReadReturn
  <2>1. want \in ReadSizes
    BY <1>1 DEF SizeInv, ReadReturn
  <2> QED
    BY <1>1, <2>1, ReadReturnSeen DEF Stream!Next
<1> QED
  BY <1>1, OtherSteps, NextIsAny

(***************************************************************************)
(* The same contract for callers that may ask for any length.              *)
(***************************************************************************)
AnyStream ==
    INSTANCE ByteStream WITH ReadSizes <- Nat, input <- Unread, got <- Got

LEMMA AnyStreamStep ==
    ASSUME TypeOK, CallInv, DownInv, ReadInv, [AnyNext]_vars
    PROVE  [AnyStream!Next]_(AnyStream!vars)
<1>1. ReadSizes \cup {0, 1} \subseteq Nat \cup {0, 1}
  BY IdfAssumption
<1>2. ASSUME NEW n \in Nat, NEW k \in 0 .. Len(Unread), Stream!Read(n, k)
      PROVE  AnyStream!Next
  <2>1. AnyStream!Read(n, k)
    BY <1>2 DEF Stream!Read, AnyStream!Read
  <2> QED
    BY <2>1 DEF AnyStream!Next
<1>3. CASE ReadReturn
  BY <1>2, <1>3, ReadReturnSeen
<1>4. CASE Stream!Next
  <2>1. ASSUME NEW n \in ReadSizes \cup {0, 1}, NEW k \in 0 .. Len(Unread),
               Stream!Read(n, k)
        PROVE  AnyStream!Next
    BY <1>1, <1>2, <2>1
  <2>2. CASE Stream!Arrive \/ Stream!Peek \/ Stream!Other
    BY <2>2 DEF Stream!Arrive, Stream!Peek, Stream!Other, Stream!Quiet,
       AnyStream!Arrive, AnyStream!Peek, AnyStream!Other, AnyStream!Quiet,
       AnyStream!Next
  <2>3. ASSUME NEW i \in 1 .. Len(Unread) + 1, NEW j \in 0 .. Len(Unread),
               Stream!Discard(i, j)
        PROVE  AnyStream!Next
    <3>1. AnyStream!Discard(i, j)
      BY <2>3 DEF Stream!Discard, AnyStream!Discard, Stream!Discarded,
         AnyStream!Discarded
    <3> QED
      BY <3>1 DEF AnyStream!Next
  <2> QED
    BY <1>4, <2>1, <2>2, <2>3 DEF Stream!Next
<1>5. CASE UNCHANGED Stream!vars
  BY <1>5 DEF Stream!vars, AnyStream!vars
<1> QED
  BY <1>3, <1>4, <1>5, OtherSteps

(***************************************************************************)
(* The backend keeps the Stream contract, whatever the sizes of ring and   *)
(* FIFO, the lengths and timeouts of the calls and the number of bytes:    *)
(* peek(), the reads, begin(), flush() and the driver's own delete leave   *)
(* every byte handed out once, in order, or discarded by a call that may.  *)
(***************************************************************************)
THEOREM StreamContractHolds == Spec => StreamContract
<1>1. Init => Stream!Init
  <2> SUFFICES ASSUME Init PROVE Stream!Init
    OBVIOUS
  <2>1. Held = << >> /\ Unread = << >>
    BY EmptyType, ConcatEmptySeq DEF Init, Held, Unread
  <2> QED
    BY <2>1 DEF Init, Stream!Init, Got, Answer, Stream!Quiet
<1>2. Init => ReadInv /\ SizeInv
  BY DEF Init, ReadInv, SizeInv
<1>3. ReadInv /\ SizeInv /\ TypeOK /\ [Next]_vars => (ReadInv /\ SizeInv)'
  BY ReadStep, SizeStep, NextIsAny
<1>4. TypeOK /\ IInv /\ ReadInv /\ SizeInv /\ [Next]_vars
          => [Stream!Next]_(Stream!vars)
  BY StreamStep DEF IInv
<1> QED
  BY <1>1, <1>2, <1>3, <1>4, TypeCorrect, InvariantHolds, PTL
  DEF Spec, StreamContract, Stream!Spec
-----------------------------------------------------------------------------
(***************************************************************************)
(* What available() counted stays there to be read, by then perhaps in the *)
(* caller's buffer, until another call answers.                            *)
(***************************************************************************)
AvailInv ==
    reply.op = "available" => reply.val <= Len(buf) + Len(Held) + Len(rx)

LEMMA AvailStep ==
    ASSUME TypeOK, CallInv, AvailInv, [AnyNext]_vars
    PROVE  AvailInv'
<1> USE DEF AvailInv, Answer, Writes, Flushes, serialVars, callVars
<1>1. /\ Len(buf) \in Nat /\ Len(Held) \in Nat /\ Len(rx) \in Nat
      /\ reply.val \in Nat /\ want \in Nat
  BY UnreadType DEF TypeOK, Replies
<1>2. CASE UNCHANGED vars \/ FlushDone \/ Tick \/ Load \/ Shift \/ DriverInstall
  BY <1>2 DEF vars, FlushDone, Tick, Load, Shift, DriverInstall, Held
<1>3. CASE Available
  <2>1. /\ Len(buf') = 0 /\ Held' = Held /\ rx' = rx
        /\ reply'.val = Buffered
    BY <1>3, EmptyType DEF Available, CallInv, Held
  <2> QED
    BY <1>1, <2>1 DEF Buffered
<1>4. CASE \/ AvailableForWrite \/ Peek \/ ReadOne \/ ReadNothing \/ WriteNothing
           \/ BeginFails \/ ReadReturn \/ DriverDelete
           \/ \E flushRX \in BOOLEAN : Begin(flushRX)
  BY <1>4 DEF AvailableForWrite, Peek, ReadOne, ReadNothing, WriteNothing,
              BeginFails, ReadReturn, DriverDelete, Begin
<1>5. ASSUME NEW o \in Reads, NEW n \in Nat, NEW ms \in Timeouts, StartRead(o, n, ms)
      PROVE  AvailInv'
  <2>1. /\ Len(buf) = 0 /\ buf' = Held /\ Held' = << >> /\ rx' = rx /\ reply' = reply
    BY <1>5, EmptyType DEF StartRead, CallInv, Held
  <2>2. Len(buf') = Len(Held) /\ Len(Held') = 0
    BY <2>1, EmptyType
  <2> QED
    BY <1>1, <2>1, <2>2
<1>6. CASE \/ \E o \in Writes, n \in Nat : StartWrite(o, n)
           \/ \E o \in Flushes : StartFlush(o)
           \/ \E k \in 1 .. pending : Push(k)
  BY <1>6 DEF StartWrite, StartFlush, Push, Held
<1>7. ASSUME NEW k \in 1 .. Len(rx), Collect(k) PROVE AvailInv'
  <2>1. k \in 0 .. Len(rx) /\ k \in Nat
    BY <1>1
  <2>2. /\ Len(rx') = Len(rx) - k
        /\ SubSeq(rx, 1, k) \in Seq(1 .. MaxRx) /\ Len(SubSeq(rx, 1, k)) = k
    BY <1>7, <2>1, UnreadType, TakeType DEF Collect
  <2>3. Len(buf') = Len(buf) + k
    BY <1>7, <2>2, UnreadType, JoinType DEF Collect
  <2>4. Held' = Held /\ reply' = reply
    BY <1>7 DEF Collect, Held
  <2> QED
    BY <1>1, <2>1, <2>2, <2>3, <2>4
<1>8. CASE WriteReturn
  <2>1. op # "available" /\ (reply' = reply \/ reply'.op = op)
    BY <1>8 DEF WriteReturn, Finish, CallInv
  <2> QED
    BY <1>8, <2>1 DEF WriteReturn, Held
<1>9. CASE DrainReturn
  BY <1>9 DEF DrainReturn, Finish, CallInv
<1>10. CASE FlushRound
  BY <1>10 DEF FlushRound, CallInv
<1>11. CASE Arrive
  <2>1. arrived + 1 \in 1 .. MaxRx
    BY <1>11, IdfAssumption DEF Arrive, TypeOK
  <2>2. Len(rx') = Len(rx) + 1
    BY <1>11, <2>1, UnreadType DEF Arrive
  <2>3. buf' = buf /\ Held' = Held /\ reply' = reply
    BY <1>11 DEF Arrive, Held
  <2> QED
    BY <1>1, <2>2, <2>3
<1> QED
  BY <1>2, <1>3, <1>4, <1>5, <1>6, <1>7, <1>8, <1>9, <1>10, <1>11
  DEF AnyNext, Progress, Environment

(***************************************************************************)
(* Only the three reads answer as a read.                                  *)
(***************************************************************************)
LEMMA AnswersAsRead ==
    ASSUME CallInv, [AnyNext]_vars, reply'.op = "read", reply' # reply
    PROVE  ReadOne \/ ReadNothing \/ ReadReturn
<1> USE DEF Answer, Writes, Flushes, serialVars, callVars
<1>1. CASE UNCHANGED vars
  BY <1>1 DEF vars
<1>2. CASE Progress
  BY <1>2 DEF Progress, Collect, Push, WriteReturn, DrainReturn, Finish,
              FlushRound, FlushDone, CallInv
<1>3. CASE Environment
  BY <1>3 DEF Environment, Arrive, Tick, Load, Shift, DriverDelete, DriverInstall
<1>4. CASE AnyNext /\ ~Progress /\ ~Environment
  BY <1>4 DEF AnyNext, Available, AvailableForWrite, Peek, StartRead,
              WriteNothing, StartWrite, StartFlush, BeginFails, Begin
<1> QED
  BY <1>1, <1>2, <1>3, <1>4

(***************************************************************************)
(* The read after available() returns all it counted, or all it was asked  *)
(* for.                                                                    *)
(***************************************************************************)
LEMMA ReadableStep ==
    ASSUME TypeOK, CallInv, DownInv, ReadInv, AvailInv, [AnyNext]_vars,
           reply.op = "available", reply'.op = "read"
    PROVE  Len(reply'.bytes) >= Least(reply.val, reply'.want)
<1>1. /\ Len(buf) \in Nat /\ Len(Held) \in Nat /\ Len(rx) \in Nat
      /\ reply.val \in Nat /\ want \in Nat
      /\ reply.val <= Len(buf) + Len(Held) + Len(rx)
  BY UnreadType DEF TypeOK, Replies, AvailInv
<1>2. CASE ReadOne
  <2>1. Len(buf) = 0
    BY <1>2, EmptyType DEF ReadOne, CallInv
  <2>2. CASE Held # << >>
    <3>1. reply'.bytes = Held /\ reply'.want = 1
      BY <1>2, <2>2 DEF ReadOne, Answer
    <3>2. Len(Held) = 1
      BY <2>2, HeldType DEF TypeOK
    <3> QED
      BY <1>1, <3>1, <3>2 DEF Least
  <2>3. CASE Held = << >>
    <3> DEFINE k == Least(1, Len(rx))
    <3>1. reply'.bytes = SubSeq(rx, 1, k) /\ reply'.want = 1
      BY <1>2, <2>3 DEF ReadOne, Answer
    <3>2. k \in 0 .. Len(rx) /\ Len(Held) = 0
      BY <1>1, <2>3, EmptyType DEF Least
    <3>3. Len(reply'.bytes) = k
      BY <3>1, <3>2, UnreadType, TakeType
    <3> QED
      BY <1>1, <2>1, <3>1, <3>2, <3>3 DEF Least
  <2> QED
    BY <2>2, <2>3
<1>3. CASE ReadNothing
  <2>1. reply'.want = 0 /\ Len(reply'.bytes) = 0
    BY <1>3, EmptyType DEF ReadNothing, Answer
  <2> QED
    BY <1>1, <2>1 DEF Least
<1>4. CASE ReadReturn
  <2>1. /\ reply'.want = want /\ reply'.bytes = buf
        /\ Len(buf) = want \/ rx = << >>
        /\ Held = << >>
    BY <1>4 DEF ReadReturn, Answer, DownInv, ReadInv, Held
  <2>2. rx = << >> => Len(rx) = 0
    BY EmptyType
  <2>3. Len(Held) = 0
    BY <2>1, EmptyType
  <2> QED
    BY <1>1, <2>1, <2>2, <2>3 DEF Least
<1> QED
  BY <1>2, <1>3, <1>4, AnswersAsRead

(***************************************************************************)
(* What available() counts can be read at once, held back or in the ring,  *)
(* whatever comes in and whatever else is called in between.               *)
(***************************************************************************)
THEOREM AvailableHolds == Spec => AvailableIsReadable
<1>1. Init => ReadInv /\ AvailInv
  BY DEF Init, ReadInv, AvailInv, Answer
<1>2. TypeOK /\ IInv /\ ReadInv /\ AvailInv /\ [Next]_vars
          => (ReadInv /\ AvailInv)'
  BY ReadStep, AvailStep, NextIsAny DEF IInv
<1>3. TypeOK /\ IInv /\ ReadInv /\ AvailInv /\ [Next]_vars
          => [reply.op = "available" /\ reply'.op = "read" =>
                  Len(reply'.bytes) >= Least(reply.val, reply'.want)]_vars
  BY ReadableStep, NextIsAny DEF IInv
<1> QED
  BY <1>1, <1>2, <1>3, TypeCorrect, InvariantHolds, PTL
  DEF Spec, AvailableIsReadable
=============================================================================
