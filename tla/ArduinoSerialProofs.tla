------------------------ MODULE ArduinoSerialProofs ------------------------
(***************************************************************************)
(* The read side on Arduino, for every set of units, timeouts and lengths  *)
(* and however much comes in: types, the timeouts that reads wait with,    *)
(* the Stream contract, and what the StreamAdapter example makes of them.  *)
(***************************************************************************)
EXTENDS StreamAdapter, SequenceLemmas

(***************************************************************************)
(* The timeouts are what was last set, except that HSSerial has borrowed   *)
(* the one of the HardwareSerial and keeps it aside; what a read has       *)
(* waited and may still wait add up to what its caller asked for.          *)
(***************************************************************************)
TimeInv ==
    /\ ownTimeout = setting.own
    /\ IF call.kind = "readBytesFor"
       THEN call.previous = setting.hs
       ELSE hsTimeout = setting.hs
    /\ call.kind \in StreamKinds => call.asked = ownTimeout
    /\ ~Idle => waited + left = call.asked

(***************************************************************************)
(* Outside a read nothing is held back, a read has not taken more than it  *)
(* was asked for, and nothing at all when the unit has been moved away.    *)
(***************************************************************************)
ReadInv ==
    /\ Idle => buf = << >>
    /\ ~Idle /\ call.kind # "line" => call.want \in ReadSizes /\ Len(buf) <= call.want
    /\ Severed => buf = << >>
    /\ Len(buf) + Len(rx) <= arrived

ArduinoInv == TypeOK /\ TimeInv /\ ReadInv
-----------------------------------------------------------------------------
LEMMA AnswerType ==
    ASSUME NEW o \in Events, NEW n \in Nat, NEW v \in Nat, NEW b \in Seq(1 .. MaxRx)
    PROVE  Answer(o, n, v, b) \in Replies
  BY DEF Answer, Replies

LEMMA EmptyAnswerType ==
    ASSUME NEW o \in Events, NEW n \in Nat, NEW v \in Nat
    PROVE  Answer(o, n, v, << >>) \in Replies
<1>1. << >> \in Seq(1 .. MaxRx)
  BY EmptyType
<1> QED
  BY <1>1, AnswerType

(***************************************************************************)
(* A read in progress is a record of its kind, and no other call is.       *)
(***************************************************************************)
LEMMA CallCases ==
    ASSUME call \in Calls \cup {NoCall}
    PROVE  /\ ~Idle => /\ call \in Calls /\ call.kind \in Kinds
                       /\ call.want \in ReadSizes \cup {0} /\ call.want \in Nat
                       /\ call.previous \in Timeouts /\ call.asked \in Timeouts
           /\ Idle => call.kind = "none"
           /\ NoCall \notin Calls
<1>1. ReadSizes \cup {0} \subseteq Nat
  BY ArduinoAssumption
<1> QED
  BY <1>1 DEF Calls, NoCall, Idle, Kinds, StreamKinds

(***************************************************************************)
(* A step keeps every variable within its type.                            *)
(***************************************************************************)
LEMMA TypeStep ==
    ASSUME TypeOK, [Next]_vars
    PROVE  TypeOK'
<1> USE ArduinoAssumption DEF TypeOK, timeoutVars, inputVars, callVars
<1>1. CASE UNCHANGED vars
  BY <1>1 DEF vars
<1>2. /\ << >> \in Seq(1 .. MaxRx)
      /\ \A o \in Events, n \in Nat, v \in Nat, b \in Seq(1 .. MaxRx) :
            Answer(o, n, v, b) \in Replies
      /\ \A o \in Events, n \in Nat, v \in Nat : Answer(o, n, v, << >>) \in Replies
      /\ Len(rx) \in Nat /\ Len(buf) \in Nat /\ 0 \in Nat /\ 1 \in Nat
  BY EmptyType, AnswerType, EmptyAnswerType
<1>3. ASSUME NEW u \in Units,
             \/ \E flushRX \in BOOLEAN : Begin(u, flushRX)
             \/ FlushAll(u)
             \/ \E d \in Units : Move(u, d)
             \/ ReadNull(u)
      PROVE  TypeOK'
  <2>1. ASSUME NEW flushRX \in BOOLEAN, Begin(u, flushRX)
        PROVE  TypeOK'
    BY <1>2, <2>1 DEF Begin, Events
  <2>2. CASE FlushAll(u)
    BY <1>2, <2>2 DEF FlushAll, Events
  <2>3. CASE ReadNull(u)
    BY <1>2, <2>3 DEF ReadNull, Events
  <2>4. ASSUME NEW d \in Units, Move(u, d)
        PROVE  TypeOK'
    BY <1>2, <2>4 DEF Move, Events
  <2> QED
    BY <1>3, <2>1, <2>2, <2>3, <2>4
<1>4. ASSUME NEW kind \in Kinds, NEW n \in ReadSizes \cup {0}, NEW asked \in Timeouts,
             NEW wait \in Timeouts, StartCall(kind, n, asked, wait),
             hsTimeout' \in Timeouts
      PROVE  TypeOK'
  <2>1. call' \in Calls
    BY <1>4 DEF StartCall, Calls
  <2> QED
    BY <1>4, <2>1 DEF StartCall
<1>5. CASE \E u \in Units, n \in ReadSizes : ReadBytes(u, n)
  BY <1>4, <1>5 DEF ReadBytes, Kinds
<1>6. CASE \E u \in Units, n \in ReadSizes, t \in Timeouts : ReadBytesFor(u, n, t)
  BY <1>4, <1>6 DEF ReadBytesFor, Kinds
<1>7. CASE (\E n \in ReadSizes : StreamReadBytes(n)) \/ StreamReadLine
  <2>1. "stream" \in Kinds /\ "line" \in Kinds
    BY DEF Kinds, StreamKinds
  <2>2. setting.own \in Timeouts
    OBVIOUS
  <2> QED
    BY <1>4, <1>7, <2>1, <2>2 DEF StreamReadBytes, StreamReadLine
<1>8. CASE \E t \in Timeouts : SetTimeout(t) \/ SetStreamTimeout(t)
  BY <1>8 DEF SetTimeout, SetStreamTimeout
<1>9. CASE \E c \in Callers : Available(c) \/ Write(c) \/ FlushTx(c)
  BY <1>2, <1>9 DEF Available, NullCount, Write, FlushTx, Events
<1>10. ASSUME NEW c \in Callers, Peek(c)
       PROVE  TypeOK'
  <2>1. rx # << >> => First(1) \in Seq(1 .. MaxRx)
    BY HeadType, TakeType DEF First
  <2> QED
    BY <1>2, <1>10, <2>1 DEF Peek, Events
<1>11. ASSUME NEW c \in Callers, NEW n \in ReadSizes, Read(c, n)
       PROVE  TypeOK'
  <2> DEFINE k == IF n < Len(rx) THEN n ELSE Len(rx)
  <2>1. n \in Nat /\ k \in 0 .. Len(rx)
    BY <1>2
  <2>2. /\ First(k) \in Seq(1 .. MaxRx)
        /\ SubSeq(rx, k + 1, Len(rx)) \in Seq(1 .. MaxRx)
    BY <2>1, TakeType DEF First
  <2> HIDE DEF k
  <2>3. reply' = Answer("read", n, 0, First(k)) /\ rx' = SubSeq(rx, k + 1, Len(rx))
    BY <1>11 DEF Read, k
  <2>4. reply' \in Replies
    BY <1>2, <2>1, <2>2, <2>3 DEF Events
  <2>5. UNCHANGED <<serial, timeoutVars, arrived, callVars>>
    BY <1>11 DEF Read
  <2> QED
    BY <2>2, <2>3, <2>4, <2>5
<1>12. CASE Collect
  <2>1. rx # << >>
    BY <1>12 DEF Collect, Reachable
  <2>2. Append(buf, Head(rx)) \in Seq(1 .. MaxRx) /\ Tail(rx) \in Seq(1 .. MaxRx)
    BY <2>1, HeadType
  <2>3. left' \in Nat /\ waited' \in Nat
    BY <1>12 DEF Collect
  <2>4. buf' \in Seq(1 .. MaxRx) /\ rx' \in Seq(1 .. MaxRx)
    BY <1>12, <2>2 DEF Collect
  <2>5. UNCHANGED <<serial, timeoutVars, arrived, call, reply>>
    BY <1>12 DEF Collect
  <2> QED
    BY <2>3, <2>4, <2>5
<1>13. CASE Tick
  BY <1>13 DEF Tick
<1>14. CASE Return
  <2>1. /\ call \in Calls /\ call.want \in ReadSizes \cup {0} /\ call.want \in Nat
        /\ call.previous \in Timeouts
    <3>1. ~Idle
      BY <1>14 DEF Return
    <3> QED
      BY <3>1, CallCases
  <2>2. AskedFor \in Nat
    <3>1. Len(buf) \in Nat /\ Len(buf) + 1 \in Nat
      BY <1>2
    <3> QED
      BY <2>1, <3>1 DEF AskedFor
  <2> QED
    BY <1>2, <1>14, <2>1, <2>2 DEF Return, Restore, Events
<1>15. CASE Arrive
  <2>1. arrived + 1 \in 1 .. MaxRx
    BY <1>15 DEF Arrive
  <2> QED
    BY <1>15, <2>1 DEF Arrive
<1> QED
  BY <1>1, <1>3, <1>5, <1>6, <1>7, <1>8, <1>9, <1>10, <1>11, <1>12, <1>13, <1>14, <1>15
  DEF Next

(***************************************************************************)
(* A step borrows the timeout of the HardwareSerial and gives it back, and *)
(* takes from the time that is left what it adds to the time waited.       *)
(***************************************************************************)
LEMMA TimeStep ==
    ASSUME TypeOK, TimeInv, [Next]_vars
    PROVE  TimeInv'
<1> USE DEF TimeInv, timeoutVars, inputVars, callVars, StreamKinds
<1>1. CASE UNCHANGED vars
  BY <1>1 DEF vars, Idle
<1>2. /\ setting.own \in Nat /\ setting.hs \in Nat
      /\ left \in Nat /\ waited \in Nat
      /\ setting = [hs |-> setting.hs, own |-> setting.own]
  BY ArduinoAssumption DEF TypeOK
<1>3. Idle => call.kind = "none" /\ hsTimeout = setting.hs
  BY CallCases DEF TypeOK
<1>4. ASSUME NEW u \in Units,
             \/ \E flushRX \in BOOLEAN : Begin(u, flushRX)
             \/ FlushAll(u)
             \/ \E d \in Units : Move(u, d)
             \/ ReadNull(u)
      PROVE  TimeInv'
  BY <1>4 DEF Begin, FlushAll, Move, ReadNull, Idle
<1>5. CASE \E c \in Callers :
              \/ Available(c) \/ Write(c) \/ FlushTx(c) \/ Peek(c)
              \/ \E n \in ReadSizes : Read(c, n)
  BY <1>5 DEF Available, Write, FlushTx, Peek, Read, Idle
<1>6. CASE \E t \in Timeouts : SetTimeout(t) \/ SetStreamTimeout(t)
  BY <1>2, <1>3, <1>6 DEF SetTimeout, SetStreamTimeout, Idle
<1>7. ASSUME NEW u \in Units, NEW n \in ReadSizes, ReadBytes(u, n)
      PROVE  TimeInv'
  BY <1>2, <1>3, <1>7 DEF ReadBytes, StartCall, Idle
<1>8. ASSUME NEW u \in Units, NEW n \in ReadSizes, NEW t \in Timeouts,
             ReadBytesFor(u, n, t)
      PROVE  TimeInv'
  <2>1. t \in Nat
    BY ArduinoAssumption
  <2> QED
    BY <1>2, <1>3, <1>8, <2>1 DEF ReadBytesFor, StartCall, Idle
<1>9. CASE (\E n \in ReadSizes : StreamReadBytes(n)) \/ StreamReadLine
  BY <1>2, <1>3, <1>9 DEF StreamReadBytes, StreamReadLine, StartCall, Idle
<1>10. CASE Collect
  BY <1>2, <1>10 DEF Collect, Idle
<1>11. CASE Tick
  BY <1>2, <1>11 DEF Tick, Idle
<1>12. CASE Return
  BY <1>12 DEF Return, Restore, NoCall, Idle
<1>13. CASE Arrive
  BY <1>13 DEF Arrive, Idle
<1> QED
  BY <1>1, <1>4, <1>5, <1>6, <1>7, <1>8, <1>9, <1>10, <1>11, <1>12, <1>13 DEF Next

(***************************************************************************)
(* A step takes no more than what was asked for, and out of what has come  *)
(* in.                                                                     *)
(***************************************************************************)
LEMMA ReadStep ==
    ASSUME TypeOK, ReadInv, [Next]_vars
    PROVE  ReadInv'
<1> USE DEF ReadInv, timeoutVars, inputVars, callVars
<1>1. CASE UNCHANGED vars
  BY <1>1 DEF vars, Idle, Severed, Backend
<1>2. /\ rx \in Seq(1 .. MaxRx) /\ buf \in Seq(1 .. MaxRx)
      /\ Len(rx) \in Nat /\ Len(buf) \in Nat /\ arrived \in Nat
      /\ Len(<< >>) = 0
      /\ Idle => call.kind = "none" /\ ~Severed
  BY ArduinoAssumption, CallCases DEF TypeOK, Severed, StreamKinds
<1>3. ASSUME NEW u \in Units,
             \/ \E flushRX \in BOOLEAN : Begin(u, flushRX)
             \/ FlushAll(u)
      PROVE  ReadInv'
  BY <1>2, <1>3 DEF Begin, FlushAll, Idle, Severed, StreamKinds
<1>4. ASSUME NEW u \in Units, (\E d \in Units : Move(u, d)) \/ ReadNull(u)
      PROVE  ReadInv'
  BY <1>2, <1>4 DEF Move, ReadNull, Idle, Severed, StreamKinds
<1>5. CASE \E c \in Callers : Available(c) \/ Write(c) \/ FlushTx(c) \/ Peek(c)
  BY <1>5 DEF Available, Write, FlushTx, Peek, Idle, Severed, Backend
<1>6. ASSUME NEW c \in Callers, NEW n \in ReadSizes, Read(c, n)
      PROVE  ReadInv'
  <2> DEFINE k == IF n < Len(rx) THEN n ELSE Len(rx)
  <2>1. n \in Nat /\ k \in 0 .. Len(rx)
    BY <1>2, ArduinoAssumption
  <2>2. rx' = SubSeq(rx, k + 1, Len(rx))
    BY <1>6 DEF Read
  <2> HIDE DEF k
  <2>3. Len(SubSeq(rx, k + 1, Len(rx))) = Len(rx) - k
    BY <1>2, <2>1, TakeType
  <2>4. Len(rx') \in Nat /\ Len(rx') <= Len(rx)
    BY <1>2, <2>1, <2>2, <2>3
  <2>5. Idle /\ UNCHANGED <<serial, arrived, call, buf>>
    BY <1>6 DEF Read
  <2> QED
    BY <1>2, <2>4, <2>5 DEF Idle, Severed, StreamKinds
<1>7. ASSUME NEW kind \in Kinds, NEW n, NEW asked, NEW wait,
             kind # "line" => n \in ReadSizes, StartCall(kind, n, asked, wait)
      PROVE  ReadInv'
  <2>1. buf = << >> /\ buf' = << >> /\ UNCHANGED <<rx, arrived>>
    BY <1>7 DEF StartCall
  <2>2. call'.kind = kind /\ call'.want = n
    BY <1>7 DEF StartCall
  <2>3. kind # "line" => n \in Nat
    BY <1>7, ArduinoAssumption
  <2> QED
    BY <1>2, <1>7, <2>1, <2>2, <2>3 DEF Severed
<1>8. CASE \E u \in Units, n \in ReadSizes : ReadBytes(u, n)
  BY <1>7, <1>8 DEF ReadBytes, Kinds
<1>9. CASE \E u \in Units, n \in ReadSizes, t \in Timeouts : ReadBytesFor(u, n, t)
  BY <1>7, <1>9 DEF ReadBytesFor, Kinds
<1>10. CASE (\E n \in ReadSizes : StreamReadBytes(n)) \/ StreamReadLine
  <2>1. "stream" \in Kinds /\ "line" \in Kinds
    BY DEF Kinds, StreamKinds
  <2> QED
    BY <1>7, <1>10, <2>1 DEF StreamReadBytes, StreamReadLine
<1>11. CASE \E t \in Timeouts : SetTimeout(t) \/ SetStreamTimeout(t)
  BY <1>11 DEF SetTimeout, SetStreamTimeout, Idle, Severed, Backend
<1>12. CASE Collect
  <2>1. rx # << >> /\ ~Severed /\ ~Idle
    BY <1>12 DEF Collect, Reachable
  <2>2. Len(buf') = Len(buf) + 1
    BY <1>2, <1>12, <2>1, HeadType DEF Collect
  <2>3. Len(rx') = Len(rx) - 1
    BY <1>2, <1>12, <2>1, HeadType DEF Collect
  <2>4. call.kind # "line" => call.want \in Nat /\ Len(buf) + 1 <= call.want
    <3>1. call.kind # "line" => call.want \in Nat /\ Len(buf) <= call.want
      BY <2>1, ArduinoAssumption
    <3>2. call.kind # "line" => Len(buf) # call.want
      BY <1>12 DEF Collect, Complete
    <3> QED
      BY <1>2, <3>1, <3>2
  <2>5. UNCHANGED <<serial, arrived, call>>
    BY <1>12 DEF Collect
  <2> QED
    BY <1>2, <2>1, <2>2, <2>3, <2>4, <2>5 DEF Idle, Severed, Backend
<1>13. CASE Tick
  BY <1>13 DEF Tick, Idle, Severed, Backend
<1>14. CASE Return
  BY <1>2, <1>14 DEF Return, NoCall, Idle, Severed, StreamKinds
<1>15. CASE Arrive
  <2>1. Len(rx') = Len(rx) + 1 /\ arrived' = arrived + 1
    BY <1>2, <1>15 DEF Arrive
  <2> QED
    BY <1>2, <1>15, <2>1 DEF Arrive, Idle, Severed, Backend
<1> QED
  BY <1>1, <1>3, <1>4, <1>5, <1>6, <1>8, <1>9, <1>10, <1>11, <1>12, <1>13, <1>14, <1>15
  DEF Next

(***************************************************************************)
(* Every state of the read side has its type.                              *)
(***************************************************************************)
THEOREM ArduinoTypeCorrect == Spec => []TypeOK
<1>1. Init => TypeOK
  <2> SUFFICES ASSUME Init PROVE TypeOK
    OBVIOUS
  <2>1. reply \in Replies
    BY EmptyAnswerType DEF Init, Events
  <2> QED
    BY <2>1, EmptyType, ArduinoAssumption DEF Init, TypeOK
<1>2. TypeOK /\ [Next]_vars => TypeOK'
  BY TypeStep
<1> QED
  BY <1>1, <1>2, PTL DEF Spec

(***************************************************************************)
(* The timeouts are where the code believes them to be, and a read has     *)
(* taken what it may.                                                      *)
(***************************************************************************)
THEOREM ArduinoInvHolds == Spec => []ArduinoInv
<1>1. Init => TimeInv
  BY DEF Init, TimeInv, Idle, NoCall, StreamKinds
<1>2. Init => ReadInv
  <2> SUFFICES ASSUME Init PROVE ReadInv
    OBVIOUS
  <2>1. Len(buf) + Len(rx) <= arrived
    BY EmptyType DEF Init
  <2> QED
    BY <2>1 DEF Init, ReadInv, Idle
<1>3. TypeOK /\ TimeInv /\ [Next]_vars => TimeInv'
  BY TimeStep
<1>4. TypeOK /\ ReadInv /\ [Next]_vars => ReadInv'
  BY ReadStep
<1>5. TypeOK /\ TimeInv /\ ReadInv => ArduinoInv
  BY DEF ArduinoInv
<1> QED
  BY <1>1, <1>2, <1>3, <1>4, <1>5, ArduinoTypeCorrect, PTL DEF Spec

(***************************************************************************)
(* What ends a read: the other kinds of step leave the call alone or start *)
(* one.                                                                    *)
(***************************************************************************)
LEMMA OnlyReturnEnds ==
    ASSUME TypeOK, ~Idle, call' = NoCall, [Next]_vars
    PROVE  Return
<1>1. call' # call
  BY DEF Idle
<1>2. Next
  BY <1>1 DEF vars, callVars
<1>3. ASSUME NEW u \in Units,
             \/ \E flushRX \in BOOLEAN : Begin(u, flushRX)
             \/ FlushAll(u)
             \/ \E d \in Units : Move(u, d)
             \/ ReadNull(u)
             \/ \E n \in ReadSizes : ReadBytes(u, n)
             \/ \E n \in ReadSizes, t \in Timeouts : ReadBytesFor(u, n, t)
      PROVE  FALSE
  BY <1>3 DEF Begin, FlushAll, Move, ReadNull, ReadBytes, ReadBytesFor, StartCall
<1>4. ~ \E t \in Timeouts : SetTimeout(t) \/ SetStreamTimeout(t)
  BY DEF SetTimeout, SetStreamTimeout
<1>5. ~ \E c \in Callers :
            \/ Available(c) \/ Write(c) \/ FlushTx(c) \/ Peek(c)
            \/ \E n \in ReadSizes : Read(c, n)
  BY DEF Available, Write, FlushTx, Peek, Read
<1>6. ~ \E n \in ReadSizes : StreamReadBytes(n)
  BY DEF StreamReadBytes, StartCall
<1>7. ~StreamReadLine
  BY DEF StreamReadLine, StartCall
<1>8. ~Collect /\ ~Tick /\ ~Arrive
  BY <1>1 DEF Collect, Tick, Arrive, callVars
<1> QED
  BY <1>2, <1>3, <1>4, <1>5, <1>6, <1>7, <1>8 DEF Next

(***************************************************************************)
(* A read that comes back incomplete has used up what it was given, and    *)
(* nothing that it can reach is left.                                      *)
(***************************************************************************)
LEMMA ShortWaited ==
    ASSUME ArduinoInv, Return, ~Complete
    PROVE  waited = call.asked /\ Reachable = << >>
<1>1. left = 0 /\ Reachable = << >> /\ ~Idle
  BY DEF Return
<1>2. waited \in Nat /\ waited + left = call.asked
  BY <1>1 DEF ArduinoInv, TypeOK, TimeInv
<1> QED
  BY <1>1, <1>2

(***************************************************************************)
(* Reads that come up short have waited as long as they were asked to,     *)
(* whatever the timeouts and whichever objects they are set on.            *)
(***************************************************************************)
THEOREM WaitsAsAskedHolds == Spec => WaitsAsAsked
<1>1. ArduinoInv /\ [Next]_vars
      => [~Idle /\ call' = NoCall /\ ~Complete => waited = call.asked]_vars
  BY OnlyReturnEnds, ShortWaited DEF ArduinoInv
<1> QED
  BY <1>1, ArduinoInvHolds, PTL DEF Spec, WaitsAsAsked
-----------------------------------------------------------------------------
(***************************************************************************)
(* The Stream contract, first with an input of what a read has taken so    *)
(* far and what the HardwareSerial holds, whatever it is called through.   *)
(***************************************************************************)
Input == buf \o rx

Held == INSTANCE ByteStream WITH
    input <- Input, got <- Got, ReadSizes <- ReadSizes \cup 0 .. MaxRx + 1

LEMMA InputType ==
    ASSUME TypeOK
    PROVE  /\ buf \in Seq(1 .. MaxRx) /\ rx \in Seq(1 .. MaxRx)
           /\ Input \in Seq(1 .. MaxRx)
           /\ Len(Input) = Len(buf) + Len(rx)
           /\ Len(buf) \in Nat /\ Len(rx) \in Nat
<1>1. buf \in Seq(1 .. MaxRx) /\ rx \in Seq(1 .. MaxRx)
  BY DEF TypeOK
<1> QED
  BY <1>1, JoinType DEF Input

LEMMA InputIdle ==
    ASSUME TypeOK, ReadInv, Idle
    PROVE  buf = << >> /\ Input = rx
BY InputType, ConcatEmptySeq DEF Input, ReadInv

(***************************************************************************)
(* How an answer is seen by ByteStream.                                    *)
(***************************************************************************)
LEMMA GotOf ==
    ASSUME NEW o, NEW n, NEW v, NEW b, reply' = Answer(o, n, v, b)
    PROVE  /\ o = "read" => Got' = [op |-> "read", want |-> n, bytes |-> b]
           /\ o = "peek" => Got' = [op |-> "peek", want |-> n, bytes |-> b]
           /\ o \in {"begin", "flush"} => Got' = Held!Discarded
           /\ o \in {"move", "available", "write", "flush_tx", "nothing"}
                    => Got' = Held!Quiet
BY DEF Got, Answer, Held!Discarded, Held!Quiet

LEMMA Unseen ==
    ASSUME UNCHANGED <<arrived, rx, buf, reply>>
    PROVE  UNCHANGED Held!vars
BY DEF Held!vars, Got, Input

LEMMA SeenAsOther ==
    ASSUME UNCHANGED <<arrived, rx, buf>>, Got' = Held!Quiet
    PROVE  Held!Next
BY DEF Held!Next, Held!Other, Input

LEMMA ClearSeen ==
    ASSUME TypeOK, ReadInv, Idle, UNCHANGED <<arrived, buf>>,
           rx' = << >>, Got' = Held!Discarded
    PROVE  Held!Next
<1>1. buf' \o rx' = << >>
  BY InputIdle, ConcatEmptySeq, EmptyType
<1>2. SubSeq(Input, 1, 0) = << >>
  BY SubSeqEmpty
<1>3. 1 \in 1 .. Len(Input) + 1 /\ 0 \in 0 .. Len(Input)
  BY InputType
<1>4. Held!Discard(1, 0)
  BY <1>1, <1>2 DEF Held!Discard, Input
<1> QED
  BY <1>3, <1>4 DEF Held!Next, Input

LEMMA BeginSeen ==
    ASSUME TypeOK, ReadInv, NEW u \in Units, NEW flushRX \in BOOLEAN, Begin(u, flushRX)
    PROVE  Held!Next
<1>1. Idle /\ UNCHANGED <<arrived, buf>> /\ reply' = Answer("begin", 0, 1, << >>)
  BY DEF Begin, callVars
<1>2. Got' = Held!Discarded
  BY <1>1, GotOf
<1>3. CASE rx' = << >>
  BY <1>1, <1>2, <1>3, ClearSeen
<1>4. CASE rx' = rx
  <2>1. SubSeq(Input, 1, Len(Input)) = Input
    BY InputType, SubSeqFull
  <2>2. Held!Discard(1, Len(Input))
    BY <1>1, <1>2, <1>4, <2>1 DEF Held!Discard, Input
  <2>3. 1 \in 1 .. Len(Input) + 1 /\ Len(Input) \in 0 .. Len(Input)
    BY InputType
  <2> QED
    BY <2>2, <2>3 DEF Held!Next, Input
<1> QED
  BY <1>3, <1>4 DEF Begin

LEMMA PeekSeen ==
    ASSUME TypeOK, ReadInv, NEW c \in Callers, Peek(c)
    PROVE  Held!Next
<1> DEFINE b == IF rx = << >> THEN << >> ELSE First(1)
<1>1. Idle /\ UNCHANGED <<arrived, rx, buf>> /\ reply' = Answer("peek", 1, 0, b)
  BY DEF Peek, inputVars, callVars
<1>2. b = IF Input = << >> THEN << >> ELSE <<Head(Input)>>
  <2>1. rx # << >> => First(1) = <<Head(rx)>>
    <3> SUFFICES ASSUME rx # << >> PROVE First(1) = <<Head(rx)>>
      OBVIOUS
    <3>1. Head(rx) \in 1 .. MaxRx /\ Head(rx) = rx[1] /\ 1 \in 0 .. Len(rx)
      <4>1. rx \in Seq(1 .. MaxRx) /\ Len(rx) \in Nat
        BY InputType
      <4>2. Head(rx) \in 1 .. MaxRx /\ Head(rx) = rx[1] /\ Len(rx) > 0
        BY <4>1, HeadType
      <4> QED
        BY <4>1, <4>2
    <3>2. /\ First(1) \in Seq(1 .. MaxRx) /\ Len(First(1)) = 1
          /\ \A i \in 1 .. 1 : First(1)[i] = rx[i]
      BY <3>1, InputType, TakeType DEF First
    <3> QED
      BY <3>1, <3>2, SeqEqual
  <2> QED
    BY <1>1, <2>1, InputIdle
<1> HIDE DEF b
<1>3. Got' = [op |-> "peek", want |-> 1, bytes |-> b]
  BY <1>1, GotOf
<1>4. Held!Peek
  BY <1>1, <1>2, <1>3 DEF Held!Peek, Input
<1> QED
  BY <1>4 DEF Held!Next

(***************************************************************************)
(* A read that hands out the k oldest bytes of the input.                  *)
(***************************************************************************)
LEMMA ReadSeen ==
    ASSUME TypeOK, NEW n \in ReadSizes \cup 0 .. MaxRx + 1, NEW k \in 0 .. Len(Input),
           k <= n, k < n => k = Len(Input), arrived' = arrived,
           reply' = Answer("read", n, 0, SubSeq(Input, 1, k)),
           buf' \o rx' = SubSeq(Input, k + 1, Len(Input))
    PROVE  Held!Next
<1> DEFINE b == SubSeq(Input, 1, k)
<1>1. Got' = [op |-> "read", want |-> n, bytes |-> b]
  <2>1. reply' = Answer("read", n, 0, b)
    OBVIOUS
  <2> HIDE DEF b
  <2> QED
    BY <2>1, GotOf
<1>2. Held!Read(n, k)
  BY <1>1 DEF Held!Read, Input
<1> QED
  BY <1>2 DEF Held!Next, Input

LEMMA ReadNowSeen ==
    ASSUME TypeOK, ReadInv, NEW c \in Callers, NEW n \in ReadSizes, Read(c, n)
    PROVE  Held!Next
<1> DEFINE k == IF n < Len(rx) THEN n ELSE Len(rx)
<1>1. /\ Idle /\ UNCHANGED <<arrived, buf>>
      /\ reply' = Answer("read", n, 0, SubSeq(rx, 1, k))
      /\ rx' = SubSeq(rx, k + 1, Len(rx))
  BY DEF Read, First, callVars
<1>2. n \in Nat /\ k \in 0 .. Len(rx) /\ k <= n /\ (k < n => k = Len(rx))
  BY InputType, ArduinoAssumption
<1> HIDE DEF k
<1>3. buf = << >> /\ Input = rx /\ rx' \in Seq(1 .. MaxRx)
  BY <1>1, <1>2, InputIdle, InputType, TakeType
<1>4. buf' \o rx' = rx'
  BY <1>1, <1>3, ConcatEmptySeq
<1> QED
  BY <1>1, <1>2, <1>3, <1>4, ReadSeen

(***************************************************************************)
(* What a waiting read hands out is what it has taken; through the         *)
(* fallback that is nothing.                                               *)
(***************************************************************************)
LEMMA ReturnSeen ==
    ASSUME ArduinoInv, Return
    PROVE  Held!Next
<1> USE DEF ArduinoInv
<1>1. ~Idle /\ UNCHANGED <<arrived, rx>> /\ buf' = << >>
  BY DEF Return, inputVars
<1>2. buf' \o rx' = rx
  BY <1>1, InputType, ConcatEmptySeq
<1>3. CASE Severed
  <2>1. reply' = Answer("nothing", 0, 0, << >>) /\ buf = << >>
    BY <1>3 DEF Return, ReadInv
  <2> QED
    BY <1>1, <2>1, GotOf, SeenAsOther
<1>4. CASE ~Severed
  <2>1. reply' = Answer("read", AskedFor, 0, buf)
    BY <1>4 DEF Return
  <2>2. Complete \/ rx = << >>
    BY <1>4 DEF Return, Reachable
  <2>3. SubSeq(Input, 1, Len(buf)) = buf /\ SubSeq(Input, Len(buf) + 1, Len(Input)) = rx
    BY InputType, CutJoined DEF Input
  <2>4. Len(buf) \in 0 .. Len(Input) /\ Len(Input) <= MaxRx /\ MaxRx \in Nat
    BY InputType, ArduinoAssumption DEF ReadInv, TypeOK
  <2>5. rx = << >> => Len(buf) = Len(Input)
    BY InputType
  <2>6. /\ AskedFor \in ReadSizes \cup 0 .. MaxRx + 1 /\ Len(buf) <= AskedFor
        /\ Len(buf) < AskedFor => Len(buf) = Len(Input)
    <3>1. CASE call.kind # "line"
      <4>1. AskedFor = call.want /\ call.want \in ReadSizes /\ Len(buf) <= call.want
        <5>1. AskedFor = call.want
          BY <3>1 DEF AskedFor
        <5>2. call.want \in ReadSizes /\ Len(buf) <= call.want
          BY <1>1, <3>1 DEF ReadInv
        <5> QED
          BY <5>1, <5>2
      <4>2. Len(buf) < call.want => rx = << >>
        BY <2>2, <3>1, <4>1, InputType, ArduinoAssumption DEF Complete
      <4> QED
        BY <2>5, <4>1, <4>2
    <3>2. CASE call.kind = "line" /\ Complete
      <4>1. AskedFor = Len(buf)
        BY <3>2 DEF AskedFor
      <4> QED
        BY <2>4, <4>1, InputType
    <3>3. CASE call.kind = "line" /\ ~Complete
      <4>1. AskedFor = Len(buf) + 1
        BY <3>3 DEF AskedFor
      <4> QED
        BY <2>2, <2>4, <2>5, <3>3, <4>1, InputType
    <3> QED
      BY <3>1, <3>2, <3>3
  <2> QED
    BY <1>1, <1>2, <2>1, <2>3, <2>4, <2>6, ReadSeen
<1> QED
  BY <1>3, <1>4

(***************************************************************************)
(* Taking a byte moves it within the input.                                *)
(***************************************************************************)
LEMMA CollectUnseen ==
    ASSUME TypeOK, Collect
    PROVE  UNCHANGED Held!vars
<1> DEFINE h == <<Head(rx)>>
<1>1. /\ rx # << >> /\ buf' = Append(buf, Head(rx)) /\ rx' = Tail(rx)
      /\ arrived' = arrived /\ reply' = reply
  BY DEF Collect, Reachable
<1>2. /\ buf \in Seq(1 .. MaxRx) /\ h \in Seq(1 .. MaxRx) /\ Tail(rx) \in Seq(1 .. MaxRx)
      /\ h \o Tail(rx) = rx
  <2>1. Head(rx) \in 1 .. MaxRx /\ Tail(rx) \in Seq(1 .. MaxRx)
    BY <1>1, InputType, HeadType
  <2>2. h \o Tail(rx) = rx
    BY <1>1, InputType, JoinHead
  <2> QED
    BY <2>1, <2>2, InputType
<1>3. buf' = buf \o h
  <2>1. Head(rx) \in 1 .. MaxRx
    BY <1>1, InputType, HeadType
  <2> QED
    BY <1>1, <2>1, InputType, AppendIsConcat
<1> HIDE DEF h
<1>4. (buf \o h) \o Tail(rx) = buf \o (h \o Tail(rx))
  BY <1>2, ConcatAssociative
<1>5. buf' \o rx' = buf \o rx
  BY <1>1, <1>2, <1>3, <1>4
<1> QED
  BY <1>1, <1>5 DEF Held!vars, Got, Input

LEMMA ArriveSeen ==
    ASSUME TypeOK, Arrive
    PROVE  Held!Next
<1>1. /\ arrived < MaxRx /\ arrived' = arrived + 1 /\ rx' = Append(rx, arrived + 1)
      /\ buf' = buf /\ reply' = reply
  BY DEF Arrive, callVars
<1>2. arrived + 1 \in 1 .. MaxRx
  BY <1>1, ArduinoAssumption DEF TypeOK
<1>3. buf' \o rx' = Append(buf \o rx, arrived + 1)
  BY <1>1, <1>2, InputType, JoinAppend
<1> QED
  BY <1>1, <1>3 DEF Held!Next, Held!Arrive, Got, Input

(***************************************************************************)
(* Every step of the read side is a step of ByteStream or is not seen.     *)
(***************************************************************************)
LEMMA StreamStep ==
    ASSUME ArduinoInv, [Next]_vars
    PROVE  [Held!Next]_(Held!vars)
<1> USE DEF ArduinoInv
<1>1. CASE UNCHANGED vars
  BY <1>1, Unseen DEF vars, inputVars, callVars
<1>2. ASSUME NEW u \in Units, NEW flushRX \in BOOLEAN, Begin(u, flushRX)
      PROVE  Held!Next
  BY <1>2, BeginSeen
<1>3. ASSUME NEW u \in Units, FlushAll(u)
      PROVE  Held!Next
  <2>1. /\ Idle /\ UNCHANGED <<arrived, buf>> /\ rx' = << >>
        /\ reply' = Answer("flush", 0, 0, << >>)
    BY <1>3 DEF FlushAll, callVars
  <2> QED
    BY <2>1, GotOf, ClearSeen
<1>4. ASSUME NEW u \in Units, (\E d \in Units : Move(u, d)) \/ ReadNull(u)
      PROVE  Held!Next
  BY <1>4, GotOf, SeenAsOther DEF Move, ReadNull, inputVars, callVars
<1>5. ASSUME NEW c \in Callers, Available(c)
      PROVE  Held!Next
  BY <1>5, GotOf, SeenAsOther DEF Available, inputVars, callVars
<1>6. ASSUME NEW c \in Callers, Write(c)
      PROVE  Held!Next
  BY <1>6, GotOf, SeenAsOther DEF Write, inputVars, callVars
<1>7. ASSUME NEW c \in Callers, FlushTx(c)
      PROVE  Held!Next
  BY <1>7, GotOf, SeenAsOther DEF FlushTx, inputVars, callVars
<1>8. ASSUME NEW c \in Callers, Peek(c)
      PROVE  Held!Next
  BY <1>8, PeekSeen
<1>9. ASSUME NEW c \in Callers, NEW n \in ReadSizes, Read(c, n)
      PROVE  Held!Next
  BY <1>9, ReadNowSeen
<1>10. CASE \E t \in Timeouts : SetTimeout(t) \/ SetStreamTimeout(t)
  BY <1>10, Unseen DEF SetTimeout, SetStreamTimeout, inputVars, callVars
<1>11. ASSUME NEW k, NEW n, NEW t, NEW w, StartCall(k, n, t, w)
       PROVE  UNCHANGED Held!vars
  BY <1>11, Unseen DEF StartCall, inputVars
<1>12. CASE \E u \in Units, n \in ReadSizes :
               ReadBytes(u, n) \/ \E t \in Timeouts : ReadBytesFor(u, n, t)
  BY <1>11, <1>12 DEF ReadBytes, ReadBytesFor
<1>13. CASE (\E n \in ReadSizes : StreamReadBytes(n)) \/ StreamReadLine
  BY <1>11, <1>13 DEF StreamReadBytes, StreamReadLine
<1>14. CASE Collect
  BY <1>14, CollectUnseen
<1>15. CASE Tick
  BY <1>15, Unseen DEF Tick, inputVars
<1>16. CASE Return
  BY <1>16, ReturnSeen
<1>17. CASE Arrive
  BY <1>17, ArriveSeen
<1> QED
  BY <1>1, <1>2, <1>3, <1>4, <1>5, <1>6, <1>7, <1>8, <1>9, <1>10, <1>12, <1>13,
     <1>14, <1>15, <1>16, <1>17
  DEF Next

(***************************************************************************)
(* A call through an adapter whose unit has fallen back has taken nothing, *)
(* so the two inputs are one.                                              *)
(***************************************************************************)
LEMMA UnreadIsInput ==
    ASSUME TypeOK, ReadInv
    PROVE  Unread = Input
<1>1. CASE Severed
  <2>1. buf = << >>
    BY <1>1 DEF ReadInv
  <2>2. Input = rx
    BY <2>1, InputType, ConcatEmptySeq DEF Input
  <2> QED
    BY <1>1, <2>2 DEF Severed, Backend, Unread
<1>2. CASE ~Severed
  BY <1>2 DEF Severed, Backend, Unread, Input
<1> QED
  BY <1>1, <1>2

LEMMA StreamStepOfHeld ==
    ASSUME Unread = Input, Unread' = Input', [Held!Next]_(Held!vars)
    PROVE  [Stream!Next]_(Stream!vars)
<1>1. CASE UNCHANGED Held!vars
  BY <1>1 DEF Held!vars, Stream!vars
<1>2. CASE Held!Arrive
  BY <1>2 DEF Held!Arrive, Stream!Next, Stream!Arrive
<1>3. CASE Held!Peek
  BY <1>3 DEF Held!Peek, Stream!Next, Stream!Peek
<1>4. ASSUME NEW n \in (ReadSizes \cup 0 .. MaxRx + 1) \cup {0, 1},
             NEW k \in 0 .. Len(Input), Held!Read(n, k)
      PROVE  Stream!Next
  BY <1>4 DEF Held!Read, Stream!Next, Stream!Read
<1>5. ASSUME NEW i \in 1 .. Len(Input) + 1, NEW j \in 0 .. Len(Input),
             Held!Discard(i, j)
      PROVE  Stream!Next
  BY <1>5 DEF Held!Discard, Held!Discarded, Stream!Next, Stream!Discard,
              Stream!Discarded
<1>6. CASE Held!Other
  BY <1>6 DEF Held!Other, Held!Quiet, Stream!Next, Stream!Other, Stream!Quiet
<1> QED
  BY <1>1, <1>2, <1>3, <1>4, <1>5, <1>6 DEF Held!Next

(***************************************************************************)
(* The units and the adapter together keep the Stream contract, whatever   *)
(* the lengths and timeouts of the calls, the bytes that end a line and    *)
(* the moves of the backend between them; an adapter whose unit has fallen *)
(* back takes no byte.                                                     *)
(***************************************************************************)
THEOREM ArduinoStreamContractHolds == Spec => StreamContract
<1>1. Init => Stream!Init
  <2> SUFFICES ASSUME Init PROVE Stream!Init
    OBVIOUS
  <2>1. Unread = << >>
    BY EmptyType, ConcatEmptySeq DEF Init, Unread
  <2> QED
    BY <2>1 DEF Init, Stream!Init, Got, Answer, Stream!Quiet
<1>2. ArduinoInv => Unread = Input
  BY UnreadIsInput DEF ArduinoInv
<1>3. ArduinoInv /\ Unread = Input /\ (Unread = Input)' /\ [Next]_vars
      => [Stream!Next]_(Stream!vars)
  BY StreamStep, StreamStepOfHeld
<1> QED
  BY <1>1, <1>2, <1>3, ArduinoInvHolds, PTL DEF Spec, StreamContract, Stream!Spec
-----------------------------------------------------------------------------
(***************************************************************************)
(* The example: where it is in setup() and loop() says what the unit and   *)
(* the adapter are doing.                                                  *)
(***************************************************************************)
AppInv ==
    /\ app \in {"other", "setup", "stopped", "wired", "loop", "look", "line", "reading"}
    /\ app \in {"setup", "stopped", "wired", "loop", "look", "line"} => Idle
    /\ app \in {"wired", "loop", "look", "line", "reading"} => serial[Wrapped] = "hs"
    /\ app \in {"loop", "look", "line", "reading"} => setting.own = LineTimeout
    /\ app = "line" => rx # << >>
    /\ app = "reading" => call.kind = "line" /\ (buf # << >> \/ rx # << >>)

LEMMA AdapterStep ==
    ASSUME [AdapterNext]_adapterVars
    PROVE  [Next]_vars
<1>1. CASE UNCHANGED adapterVars
  BY <1>1 DEF adapterVars
<1>2. CASE Wires
  BY <1>2, ArduinoAssumption DEF Wires, Next
<1>3. CASE SetsLineTimeout
  BY <1>3, LineAssumption DEF SetsLineTimeout, Next
<1>4. CASE Reports \/ Looks
  BY <1>4 DEF Reports, Looks, Callers, Next
<1>5. CASE FailStop \/ Stopped \/ ReadsLine \/ GotLine \/ Beneath
  BY <1>5 DEF FailStop, Stopped, ReadsLine, GotLine, Beneath, Next
<1> QED
  BY <1>1, <1>2, <1>3, <1>4, <1>5 DEF AdapterNext, Example

(***************************************************************************)
(* Whatever the example does is within what any application may do.        *)
(***************************************************************************)
THEOREM AdapterKeepsSpec == AdapterSpec => Spec
<1>1. AdapterInit => Init
  BY DEF AdapterInit
<1>2. [AdapterNext]_adapterVars => [Next]_vars
  BY AdapterStep
<1> QED
  BY <1>1, <1>2, PTL DEF AdapterSpec, Spec

LEMMA AppStep ==
    ASSUME ArduinoInv, AppInv, [AdapterNext]_adapterVars
    PROVE  AppInv'
<1> USE DEF AppInv, Goes
<1>1. CASE UNCHANGED adapterVars
  BY <1>1 DEF adapterVars, vars, timeoutVars, inputVars, callVars, Idle
<1>2. CASE Wires
  <2>1. serial'[Wrapped] = "hs" /\ Idle /\ call' = call
    BY <1>2, ArduinoAssumption DEF Wires, Begin, callVars, ArduinoInv, TypeOK
  <2> QED
    BY <1>2, <2>1 DEF Wires, Idle
<1>3. CASE FailStop \/ Stopped
  BY <1>3 DEF FailStop, Stopped, vars, callVars, Idle
<1>4. CASE SetsLineTimeout
  <2>1. setting'.own = LineTimeout
    BY <1>4 DEF SetsLineTimeout, SetStreamTimeout, ArduinoInv, TypeOK
  <2> QED
    BY <1>4, <2>1 DEF SetsLineTimeout, SetStreamTimeout, callVars, Idle
<1>5. CASE Reports
  BY <1>5 DEF Reports, Write, vars, timeoutVars, callVars, Idle
<1>6. CASE Looks
  <2>1. reply'.val = Len(rx)
    BY <1>6 DEF Looks, Available, Backend, Answer
  <2>2. reply'.val # 0 => rx # << >>
    BY <2>1, EmptyType
  <2> QED
    BY <1>6, <2>2 DEF Looks, Available, timeoutVars, inputVars, callVars, Idle
<1>7. CASE ReadsLine
  BY <1>7 DEF ReadsLine, StreamReadLine, StartCall, inputVars
<1>8. CASE GotLine
  BY <1>8 DEF GotLine, Return, Idle
<1>9. CASE Beneath /\ app = "reading"
  <2>1. CASE Collect
    <3>1. buf' # << >>
      BY <2>1 DEF Collect, ArduinoInv, TypeOK
    <3> QED
      BY <1>9, <2>1, <3>1 DEF Beneath, Collect, timeoutVars
  <2>2. CASE Tick
    BY <1>9, <2>2 DEF Beneath, Tick, timeoutVars, inputVars
  <2>3. CASE Arrive
    <3>1. rx' # << >>
      BY <2>3 DEF Arrive, ArduinoInv, TypeOK
    <3> QED
      BY <1>9, <2>3, <3>1 DEF Beneath, Arrive, timeoutVars, callVars
  <2> QED
    BY <1>9, <2>1, <2>2, <2>3 DEF Beneath
<1>10. CASE Beneath /\ app \notin {"reading", "other"}
  <2>1. Arrive
    BY <1>10 DEF Beneath, Collect, Tick
  <2>2. rx' # << >>
    BY <2>1 DEF Arrive, ArduinoInv, TypeOK
  <2> QED
    BY <1>10, <2>1, <2>2 DEF Beneath, Arrive, timeoutVars, callVars, Idle
<1>11. CASE app = "other" /\ app' = "other"
  BY <1>11
<1> QED
  BY <1>1, <1>2, <1>3, <1>4, <1>5, <1>6, <1>7, <1>8, <1>9, <1>10, <1>11
  DEF AdapterNext, Example

(***************************************************************************)
(* AppInv holds along the example and beside any other application.        *)
(***************************************************************************)
THEOREM AppInvHolds == AdapterSpec => [](ArduinoInv /\ AppInv)
<1>1. AdapterInit => AppInv
  BY DEF AdapterInit, Init, AppInv, Idle
<1>2. ArduinoInv /\ AppInv /\ [AdapterNext]_adapterVars => AppInv'
  BY AppStep
<1> QED
  BY <1>1, <1>2, ArduinoInvHolds, AdapterKeepsSpec, PTL DEF AdapterSpec

(***************************************************************************)
(* Every state under the example or another application has its type.      *)
(***************************************************************************)
THEOREM AdapterTypeCorrect == AdapterSpec => []AdapterTypeOK
<1>1. ArduinoInv /\ AppInv => AdapterTypeOK
  BY DEF ArduinoInv, AppInv, AdapterTypeOK
<1> QED
  BY <1>1, AppInvHolds, PTL

(***************************************************************************)
(* The example waits only in the middle of a line: the timeout it set on   *)
(* the adapter is the one that cuts a line, and it never shows nothing,    *)
(* whatever comes in and whenever.                                         *)
(***************************************************************************)
THEOREM LinesAreWholeHolds == AdapterSpec => LinesAreWhole
<1> DEFINE Whole ==
        app = "reading" /\ app' = "loop" =>
            /\ buf # << >>
            /\ buf[Len(buf)] \in Newlines \/ waited = LineTimeout
<1>1. ASSUME ArduinoInv, AppInv, [AdapterNext]_adapterVars, app = "reading", app' = "loop"
      PROVE  Whole
  <2>1. GotLine
    BY <1>1 DEF AdapterNext, Example, adapterVars, Goes, Wires, FailStop, Stopped,
                SetsLineTimeout, Reports, Looks, ReadsLine, Beneath
  <2>2. Return /\ call.kind = "line" /\ (buf # << >> \/ rx # << >>)
        /\ serial[Wrapped] = "hs" /\ setting.own = LineTimeout
    BY <1>1, <2>1 DEF GotLine, AppInv
  <2>3. CASE Complete
    BY <2>2, <2>3 DEF Complete
  <2>4. CASE ~Complete
    <3>1. waited = call.asked /\ Reachable = << >>
      BY <1>1, <2>2, <2>4, ShortWaited
    <3>2. Reachable = rx
      BY <2>2 DEF Reachable, Severed, Backend
    <3>3. call.asked = LineTimeout
      BY <1>1, <2>2 DEF ArduinoInv, TimeInv, StreamKinds
    <3> QED
      BY <2>2, <3>1, <3>2, <3>3
  <2> QED
    BY <2>3, <2>4
<1>2. ArduinoInv /\ AppInv /\ [AdapterNext]_adapterVars => [Whole]_adapterVars
  BY <1>1
<1> QED
  BY <1>2, AppInvHolds, PTL DEF AdapterSpec, LinesAreWhole
=============================================================================
