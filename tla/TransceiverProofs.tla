------------------------- MODULE TransceiverProofs -------------------------
(***************************************************************************)
(* The Transceiver example, for any number and length of messages, any     *)
(* sizes of ring and FIFO and any timing: what it reports as sent is out,  *)
(* and what it shows is what had come in.                                  *)
(***************************************************************************)
EXTENDS Transceiver, IdfSerialProofs

(***************************************************************************)
(* Which call of the backend the application can be in.                    *)
(***************************************************************************)
PlaceInv ==
    /\ up
    /\ peeked = NoByte
    /\ pc = "flushRX" => app = "loop"
    /\ pc = "reading" => app = "got"
    /\ pc = "writing" => app \in {"chunk", "first", "second"}
    /\ pc = "draining" => app \in {"flush", "first", "second"}

(***************************************************************************)
(* A write_waiting() of n bytes after which the driver has been given sum: *)
(* what it has still to take, and what it will answer.                     *)
(***************************************************************************)
WaitingWrite(n, sum) ==
    /\ pc = "writing" => op = "write_waiting" /\ want = n /\ pushed + pending = sum
    /\ pc = "draining" => op = "write_waiting" /\ want = n /\ pushed = sum
    /\ pc = "idle" => reply.op = "write_waiting" /\ reply.val = n /\ pushed = sum

(***************************************************************************)
(* The write() of a chunk.                                                 *)
(***************************************************************************)
ChunkWrite ==
    /\ pc = "writing" => /\ op = "write"
                         /\ want <= MsgLen - total
                         /\ pushed + pending = total + want
    /\ pc = "idle" => /\ reply.val <= MsgLen - total
                      /\ pushed = total + reply.val

Flushing ==
    /\ pc = "draining" => op = "flush_tx"
    /\ pc = "idle" => reply.op = "flush_tx"

(***************************************************************************)
(* What the driver was given is what the application counts, in its own    *)
(* terms at every point of the send.                                       *)
(***************************************************************************)
CountInv ==
    /\ app \in {"send", "offer"} => pushed = total
    /\ app = "chunk" => ChunkWrite
    /\ app = "flush" => Flushing /\ sent = pushed /\ (sent = MsgLen \/ late)
    /\ app = "first" => WaitingWrite(Sample0.a, Sample0.a)
    /\ app = "second" => /\ sent = Sample0.a
                         /\ WaitingWrite(Sample0.b, Sample0.a + Sample0.b)
    /\ app = "sent" => sent = pushed
    /\ app \in {"send", "offer", "chunk", "flush"} => step < Messages
    /\ app \in {"first", "second"} => step >= Messages

(***************************************************************************)
(* Outside a send, and in one that has given the driver nothing yet, there *)
(* is nothing on its way.                                                  *)
(***************************************************************************)
OutInv ==
    \/ app \in {"first", "second", "flush"}
    \/ app \in {"send", "offer", "chunk"} /\ pushed > 0
    \/ TxDone

SendInv == CountInv /\ OutInv /\ ShortOnlyWhenLate
-----------------------------------------------------------------------------
(***************************************************************************)
(* s is what came in last up to number n: its bytes are consecutive, and   *)
(* the last one is n.                                                      *)
(***************************************************************************)
EndsAt(s, n) == \A i \in 1 .. Len(s) : s[i] = n - Len(s) + i

(***************************************************************************)
(* What the chunk being read has got so far.                               *)
(***************************************************************************)
Chunk ==
    IF app # "got" THEN << >> ELSE IF pc = "reading" THEN buf ELSE reply.bytes

(***************************************************************************)
(* The bytes shown, those of the chunk and those of the ring follow each   *)
(* other, up to the latest one that came in.                               *)
(***************************************************************************)
RunInv ==
    /\ EndsAt(rx, arrived)
    /\ EndsAt(Chunk, arrived - Len(rx))
    /\ EndsAt(shown, arrived - Len(rx) - Len(Chunk))
    /\ Fresh(shown, mark)

(***************************************************************************)
(* Whatever of the batch is not shown yet is there to be read.             *)
(***************************************************************************)
BatchInv ==
    /\ app \notin {"read", "got", "show"} => shown = << >>
    /\ app = "read" => Len(shown) <= batch /\ batch <= Len(shown) + Len(rx)
    /\ app = "got" /\ pc = "reading" =>
           want = batch - Len(shown) /\ want > 0 /\ want <= Len(buf) + Len(rx)
    /\ app = "got" /\ pc = "idle" =>
           /\ reply.bytes # << >>
           /\ Len(shown) + Len(reply.bytes) = batch
    /\ app = "show" => Len(shown) = batch

AppInv == PlaceInv /\ SendInv /\ RunInv /\ BatchInv
-----------------------------------------------------------------------------
(***************************************************************************)
(* Every step of the application is one of the backend, called with some   *)
(* length, or leaves the backend alone.                                    *)
(***************************************************************************)
LEMMA AppIsAny ==
    ASSUME AppTypeOK, [AppNext]_allVars
    PROVE  [AnyNext]_vars
<1> USE DEF AppTypeOK, TypeOK, Reads, Writes, Flushes
<1>1. CASE UNCHANGED allVars
  BY <1>1 DEF allVars
<1>2. CASE Setup
  BY <1>2 DEF Setup, AnyNext
<1>3. CASE AskOffer \/ Look \/ Count
  BY <1>3 DEF AskOffer, Look, Count, AnyNext
<1>4. CASE WriteChunk
  <2>1. reply.val \in Nat /\ MsgLen \in Nat /\ total \in 0 .. MsgLen
    BY AppAssumption DEF Replies
  <2>2. Least(reply.val, MsgLen - total) \in Nat
    BY <2>1 DEF Least
  <2> QED
    BY <1>4, <2>2 DEF WriteChunk, AnyNext
<1>5. CASE FirstStarts \/ SecondStarts
  <2>1. Sample0.a \in Nat /\ Sample0.b \in Nat
    BY DEF Sample0
  <2> QED
    BY <1>5, <2>1 DEF FirstStarts, SecondStarts, AnyNext
<1>6. CASE SendEnds
  BY <1>6 DEF SendEnds, AnyNext
<1>7. CASE ReadChunk
  <2>1. batch - Len(shown) \in Nat
    <3>1. Len(shown) \in Nat /\ batch \in Nat
      BY IdfAssumption
    <3>2. Len(shown) < batch
      BY <1>7 DEF ReadChunk
    <3> QED
      BY <3>1, <3>2
  <2> QED
    BY <1>7, <2>1, AppAssumption DEF ReadChunk, AnyNext
<1>8. CASE \/ SendStarts \/ NoOffer \/ ChunkWritten \/ SendFlushed \/ ValuesSent
           \/ NextStep \/ GotChunk \/ Show \/ Deadline \/ SetupFails \/ Stopped
  BY <1>8 DEF SendStarts, NoOffer, ChunkWritten, SendFlushed, ValuesSent,
              NextStep, GotChunk, Show, Deadline, SetupFails, Stopped, allVars
<1>9. CASE Below
  BY <1>9 DEF Below, AnyNext, Progress, Environment
<1> QED
  BY <1>1, <1>2, <1>3, <1>4, <1>5, <1>6, <1>7, <1>8, <1>9 DEF AppNext, App

(***************************************************************************)
(* The driver stays, and the call that runs below is the one the           *)
(* application has made.                                                   *)
(***************************************************************************)
LEMMA PlaceStep ==
    ASSUME PlaceInv, CountInv, [AppNext]_allVars
    PROVE  PlaceInv'
<1> USE DEF PlaceInv, appVars, sendVars, receiveVars, serialVars, callVars
<1>1. CASE UNCHANGED allVars
  BY <1>1 DEF allVars, vars
<1>2. CASE Setup
  BY <1>2 DEF Setup, Begin
<1>3. CASE AskOffer \/ Look \/ Count
  BY <1>3 DEF AskOffer, Look, Count, AvailableForWrite, Available
<1>4. CASE WriteChunk \/ FirstStarts \/ SecondStarts
  BY <1>4 DEF WriteChunk, FirstStarts, SecondStarts, StartWrite
<1>5. CASE SendEnds
  BY <1>5 DEF SendEnds, StartFlush, vars
<1>6. CASE ReadChunk
  BY <1>6 DEF ReadChunk, StartRead
<1>7. CASE \/ SendStarts \/ NoOffer \/ ChunkWritten \/ SendFlushed \/ ValuesSent
           \/ NextStep \/ GotChunk \/ Show \/ Deadline \/ SetupFails \/ Stopped
  BY <1>7 DEF SendStarts, NoOffer, ChunkWritten, SendFlushed, ValuesSent,
              NextStep, GotChunk, Show, Deadline, SetupFails, Stopped, allVars, vars
<1>8. CASE Below /\ UNCHANGED <<app, sendVars, receiveVars>>
  <2>1. CASE \/ \E k \in 1 .. pending : Push(k)
             \/ \E k \in 1 .. Len(rx) : Collect(k)
             \/ Arrive \/ Tick \/ Load \/ Shift \/ FlushRound
    BY <1>8, <2>1 DEF Push, Collect, Arrive, Tick, Load, Shift, FlushRound
  <2>2. CASE ReadReturn \/ FlushDone
    BY <1>8, <2>2 DEF ReadReturn, FlushDone
  <2>3. CASE WriteReturn
    <3>1. pc' = "idle" \/ (pc' = "draining" /\ op = "write_waiting")
      BY <2>3 DEF WriteReturn, Finish, DrainsAfter
    <3>2. app = "chunk" => op = "write"
      BY <2>3 DEF WriteReturn, CountInv, ChunkWrite
    <3> QED
      BY <1>8, <2>3, <3>1, <3>2 DEF WriteReturn
  <2>4. CASE DrainReturn
    BY <1>8, <2>4 DEF DrainReturn, Finish
  <2> QED
    BY <1>8, <2>1, <2>2, <2>3, <2>4 DEF Below
<1> QED
  BY <1>1, <1>2, <1>3, <1>4, <1>5, <1>6, <1>7, <1>8 DEF AppNext, App

(***************************************************************************)
(* The types of what the application counts.                               *)
(***************************************************************************)
LEMMA CountTypes ==
    ASSUME AppTypeOK
    PROVE  /\ total \in Nat /\ MsgLen \in Nat /\ total <= MsgLen /\ MsgLen > 0
           /\ pushed \in Nat /\ sent \in Nat /\ step \in Nat /\ Messages \in Nat
           /\ pending \in Nat /\ want \in Nat /\ reply.val \in Nat
           /\ Sample0.a = 2 /\ Sample0.b = 4
<1>1. /\ Messages \in Nat /\ MsgLen \in Nat /\ MsgLen > 0
      /\ Sample0.a = 2 /\ Sample0.b = 4
  BY AppAssumption DEF Sample0
<1>2. pending \in Nat /\ want \in Nat /\ reply.val \in Nat
  BY DEF AppTypeOK, TypeOK, Replies
<1>3. total \in 0 .. MsgLen /\ step \in 0 .. Messages + 1 /\ pushed \in Nat /\ sent \in Nat
  BY DEF AppTypeOK
<1> QED
  BY <1>1, <1>2, <1>3

(***************************************************************************)
(* The application and the driver agree on how many bytes it was given.    *)
(***************************************************************************)
LEMMA CountStep ==
    ASSUME AppTypeOK, PlaceInv, CountInv, [AppNext]_allVars
    PROVE  CountInv'
<1> USE CountTypes DEF appVars, sendVars, receiveVars, serialVars, callVars
<1>1. CASE UNCHANGED allVars
  BY <1>1 DEF allVars, vars, CountInv, ChunkWrite, Flushing, WaitingWrite
<1>2. CASE \/ Setup \/ SetupFails \/ Stopped \/ NextStep \/ Look \/ Count \/ ReadChunk
           \/ GotChunk \/ Show
  <2>1. app' \in {"loop", "stopped", "receive", "count", "read", "got", "show"}
    BY <1>2 DEF Setup, SetupFails, Stopped, allVars, NextStep, Look, Count,
                ReadChunk, GotChunk, Show
  <2> QED
    BY <2>1 DEF CountInv
<1>3. CASE SendStarts
  BY <1>3 DEF SendStarts, CountInv
<1>4. CASE AskOffer \/ NoOffer
  BY <1>4 DEF AskOffer, NoOffer, CountInv
<1>5. CASE WriteChunk
  <2>1. /\ Least(reply.val, MsgLen - total) <= MsgLen - total
        /\ Least(reply.val, MsgLen - total) \in Nat
    BY DEF Least
  <2>2. /\ pc' = "writing" /\ op' = "write"
        /\ want' = Least(reply.val, MsgLen - total) /\ pending' = want'
        /\ app' = "chunk" /\ UNCHANGED <<total, pushed, step>>
        /\ pushed = total /\ step < Messages
    BY <1>5 DEF WriteChunk, StartWrite, CountInv
  <2> QED
    BY <2>1, <2>2 DEF CountInv, ChunkWrite
<1>6. CASE ChunkWritten
  BY <1>6 DEF ChunkWritten, CountInv, ChunkWrite
<1>7. CASE SendEnds
  <2>1. /\ pushed = total /\ step < Messages /\ (total = MsgLen \/ late)
        /\ sent' = total /\ UNCHANGED <<step, total, late, pushed>>
    BY <1>7 DEF SendEnds, CountInv
  <2>2. \/ app' = "flush" /\ pc' = "draining" /\ op' = "flush_tx"
        \/ app' = "sent"
    <3>1. CASE total > 0
      BY <1>7, <3>1 DEF SendEnds, StartFlush
    <3>2. CASE ~(total > 0)
      BY <1>7, <3>2 DEF SendEnds
    <3> QED
      BY <3>1, <3>2
  <2>3. sent' = pushed' /\ step' < Messages /\ (sent' = MsgLen \/ late')
    BY <2>1
  <2> QED
    BY <2>2, <2>3 DEF CountInv, Flushing
<1>8. CASE SendFlushed
  BY <1>8 DEF SendFlushed, CountInv
<1>9. CASE FirstStarts
  BY <1>9 DEF FirstStarts, StartWrite, CountInv, WaitingWrite
<1>10. CASE SecondStarts
  <2>1. pc = "idle" /\ reply.val = Sample0.a /\ pushed = Sample0.a /\ step >= Messages
    BY <1>10 DEF SecondStarts, StartWrite, CountInv, WaitingWrite
  <2> QED
    BY <1>10, <2>1 DEF SecondStarts, StartWrite, CountInv, WaitingWrite, Took
<1>11. CASE ValuesSent
  BY <1>11 DEF ValuesSent, CountInv, WaitingWrite, Took
<1>12. CASE Deadline
  BY <1>12 DEF Deadline, vars, CountInv, ChunkWrite, Flushing, WaitingWrite
<1>13. CASE Below /\ UNCHANGED <<app, sendVars, receiveVars>>
  <2>1. ASSUME NEW k \in 1 .. pending, Push(k), pushed' = pushed + k PROVE CountInv'
    <3>1. k \in Nat
      OBVIOUS
    <3>2. /\ pc = "writing" /\ pending' = pending - k
          /\ UNCHANGED <<pc, op, want, reply>>
      BY <2>1 DEF Push
    <3>3. app \in {"chunk", "first", "second"}
      BY <3>2 DEF PlaceInv
    <3> QED
      BY <1>13, <2>1, <3>1, <3>2, <3>3 DEF CountInv, ChunkWrite, WaitingWrite
  <2>2. CASE /\ \/ \E k \in 1 .. Len(rx) : Collect(k)
                \/ Arrive \/ Tick \/ Load \/ Shift \/ FlushRound
             /\ UNCHANGED pushed
    <3>1. UNCHANGED <<pc, op, want, pending, reply>>
      BY <2>2 DEF Collect, Arrive, Tick, Load, Shift, FlushRound
    <3> QED
      BY <1>13, <2>2, <3>1 DEF CountInv, ChunkWrite, Flushing, WaitingWrite
  <2>3. CASE (ReadReturn \/ FlushDone) /\ UNCHANGED pushed
    <3>1. app \in {"got", "loop"}
      BY <2>3 DEF ReadReturn, FlushDone, PlaceInv
    <3> QED
      BY <1>13, <3>1 DEF CountInv
  <2>4. CASE WriteReturn /\ UNCHANGED pushed
    <3>1. app \in {"chunk", "first", "second"} /\ pc = "writing" /\ pending = 0 /\ up
      BY <2>4 DEF WriteReturn, PlaceInv
    <3>2. CASE app = "chunk"
      <4>1. op = "write" /\ want <= MsgLen - total /\ pushed = total + want
        BY <3>1, <3>2 DEF CountInv, ChunkWrite
      <4>2. pc' = "idle" /\ reply' = Answer("write", want, want, << >>)
        BY <2>4, <3>1, <4>1 DEF WriteReturn, Finish, DrainsAfter
      <4>3. reply'.val = want
        BY <4>2 DEF Answer
      <4> QED
        BY <1>13, <2>4, <3>2, <4>1, <4>2, <4>3 DEF CountInv, ChunkWrite
    <3>3. CASE app \in {"first", "second"}
      <4>1. op = "write_waiting" /\ want > 0
        BY <3>1, <3>3 DEF CountInv, WaitingWrite
      <4>2. pc' = "draining" /\ UNCHANGED <<op, want, pending, reply>>
        BY <2>4, <3>1, <4>1 DEF WriteReturn, DrainsAfter
      <4> QED
        BY <1>13, <2>4, <3>1, <3>3, <4>1, <4>2 DEF CountInv, WaitingWrite
    <3> QED
      BY <3>1, <3>2, <3>3
  <2>5. CASE DrainReturn /\ UNCHANGED pushed
    <3>1. app \in {"flush", "first", "second"} /\ pc = "draining"
      BY <2>5 DEF DrainReturn, PlaceInv
    <3>2. /\ pc' = "idle" /\ reply' = Answer(op, want, want, << >>)
      BY <2>5 DEF DrainReturn, Finish
    <3>3. reply'.op = op /\ reply'.val = want
      BY <3>2 DEF Answer
    <3> QED
      BY <1>13, <2>5, <3>1, <3>2, <3>3 DEF CountInv, Flushing, WaitingWrite
  <2> QED
    BY <1>13, <2>1, <2>2, <2>3, <2>4, <2>5 DEF Below
<1> QED
  BY <1>1, <1>2, <1>3, <1>4, <1>5, <1>6, <1>7, <1>8, <1>9, <1>10, <1>11, <1>12,
     <1>13 DEF AppNext, App

(***************************************************************************)
(* Where nothing is on its way, nothing is on its way after the step.      *)
(***************************************************************************)
LEMMA OutStep ==
    ASSUME AppTypeOK, IInv, PlaceInv, CountInv, OutInv, [AppNext]_allVars
    PROVE  OutInv'
<1> USE CountTypes DEF OutInv, TxDone, appVars, sendVars, receiveVars, serialVars, callVars
<1>1. CASE UNCHANGED allVars
  BY <1>1 DEF allVars, vars
<1>2. CASE Setup
  BY <1>2 DEF Setup, Begin
<1>3. CASE \/ SendStarts \/ NoOffer \/ NextStep \/ GotChunk \/ Show \/ Deadline
           \/ SetupFails \/ Stopped
  BY <1>3 DEF SendStarts, NoOffer, NextStep, GotChunk, Show, Deadline, SetupFails,
              Stopped, allVars, vars
<1>4. CASE AskOffer \/ Look \/ Count
  BY <1>4 DEF AskOffer, Look, Count, AvailableForWrite, Available
<1>5. CASE WriteChunk \/ FirstStarts \/ SecondStarts
  BY <1>5 DEF WriteChunk, FirstStarts, SecondStarts, StartWrite
<1>6. CASE ChunkWritten
  BY <1>6 DEF ChunkWritten, vars
<1>7. CASE SendEnds
  <2>1. CASE total > 0
    BY <1>7, <2>1 DEF SendEnds
  <2>2. CASE ~(total > 0)
    BY <1>7, <2>2 DEF SendEnds, CountInv, vars
  <2> QED
    BY <2>1, <2>2
<1>8. CASE SendFlushed
  <2>1. pc = "idle" /\ reply.op = "flush_tx" /\ tx' = tx
    BY <1>8 DEF SendFlushed, CountInv, Flushing, vars
  <2> QED
    BY <2>1 DEF IInv, WaitedIsOnTheWire, Flushes
<1>9. CASE ValuesSent
  <2>1. pc = "idle" /\ reply.op = "write_waiting" /\ tx' = tx
    BY <1>9 DEF ValuesSent, CountInv, WaitingWrite, vars
  <2> QED
    BY <2>1 DEF IInv, WaitedIsOnTheWire
<1>10. CASE ReadChunk
  BY <1>10 DEF ReadChunk, StartRead
<1>11. CASE Below /\ UNCHANGED <<app, sendVars, receiveVars>>
  <2>1. ASSUME NEW k \in 1 .. pending, Push(k), pushed' = pushed + k PROVE OutInv'
    <3>1. app \in {"chunk", "first", "second"} /\ pushed' > 0
      BY <2>1 DEF Push, PlaceInv
    <3> QED
      BY <1>11, <3>1
  <2>2. CASE /\ \/ \E k \in 1 .. Len(rx) : Collect(k)
                \/ Arrive \/ Tick \/ FlushRound \/ ReadReturn \/ FlushDone
                \/ WriteReturn \/ DrainReturn
             /\ UNCHANGED pushed
    <3>1. UNCHANGED tx
      BY <2>2 DEF Collect, Arrive, Tick, FlushRound, ReadReturn, FlushDone,
                  WriteReturn, DrainReturn
    <3> QED
      BY <1>11, <2>2, <3>1
  <2>3. CASE (Load \/ Shift) /\ UNCHANGED pushed
    <3>1. tx # TxEmpty
      BY <2>3 DEF Load, LoadFifo, Shift, ShiftOut, TxEmpty
    <3> QED
      BY <1>11, <2>3, <3>1
  <2> QED
    BY <1>11, <2>1, <2>2, <2>3 DEF Below
<1> QED
  BY <1>1, <1>2, <1>3, <1>4, <1>5, <1>6, <1>7, <1>8, <1>9, <1>10, <1>11
  DEF AppNext, App

(***************************************************************************)
(* The send that ended short is one that was late.                         *)
(***************************************************************************)
LEMMA ShortStep ==
    ASSUME AppTypeOK, PlaceInv, CountInv, ShortOnlyWhenLate, [AppNext]_allVars
    PROVE  ShortOnlyWhenLate'
<1> USE CountTypes DEF ShortOnlyWhenLate, Planned, appVars, sendVars, receiveVars
<1>1. CASE UNCHANGED <<app, sendVars>>
  BY <1>1
<1>2. CASE SendEnds
  BY <1>2 DEF SendEnds, CountInv
<1>3. CASE SendFlushed
  BY <1>3 DEF SendFlushed, CountInv
<1>4. CASE ValuesSent
  <2>1. sent' = Sample0.a + Sample0.b /\ step >= Messages
    BY <1>4 DEF ValuesSent, CountInv, WaitingWrite, Took
  <2> QED
    BY <1>4, <2>1 DEF ValuesSent
<1>5. CASE app' # "sent"
  BY <1>5
<1>6. \/ UNCHANGED <<app, sendVars>> \/ SendEnds \/ SendFlushed \/ ValuesSent
      \/ app' # "sent"
  BY DEF AppNext, App, allVars, SetupFails, Stopped,
         Setup, SendStarts, AskOffer, NoOffer, WriteChunk,
     ChunkWritten, FirstStarts, SecondStarts, NextStep, Look, Count, ReadChunk,
     GotChunk, Show, Deadline
<1> QED
  BY <1>1, <1>2, <1>3, <1>4, <1>5, <1>6
-----------------------------------------------------------------------------
(***************************************************************************)
(* Cutting and joining sequences of consecutive bytes.                     *)
(***************************************************************************)
LEMMA EndsEmpty == ASSUME NEW n PROVE EndsAt(<< >>, n)
  BY DEF EndsAt

LEMMA EndsAppend ==
    ASSUME NEW s \in Seq(1 .. MaxRx), NEW n \in Nat, n + 1 \in 1 .. MaxRx, EndsAt(s, n)
    PROVE  EndsAt(Append(s, n + 1), n + 1)
<1> DEFINE t == Append(s, n + 1)
<1>1. /\ Len(t) = Len(s) + 1 /\ Len(s) \in Nat
      /\ t[Len(s) + 1] = n + 1
      /\ \A i \in 1 .. Len(s) : t[i] = s[i]
  OBVIOUS
<1> HIDE DEF t
<1>2. ASSUME NEW i \in 1 .. Len(t) PROVE t[i] = n + 1 - Len(t) + i
  <2>1. CASE i \in 1 .. Len(s)
    BY <1>1, <2>1 DEF EndsAt
  <2>2. CASE i = Len(s) + 1
    BY <1>1, <2>2
  <2> QED
    BY <1>1, <2>1, <2>2
<1>3. EndsAt(t, n + 1)
  BY <1>2 DEF EndsAt
<1> QED
  BY <1>3 DEF t

LEMMA EndsTake ==
    ASSUME NEW s \in Seq(1 .. MaxRx), NEW k \in 0 .. Len(s), NEW n \in Int, EndsAt(s, n)
    PROVE  /\ EndsAt(SubSeq(s, 1, k), n - (Len(s) - k))
           /\ EndsAt(SubSeq(s, k + 1, Len(s)), n)
<1> DEFINE a == SubSeq(s, 1, k)
           b == SubSeq(s, k + 1, Len(s))
<1>1. /\ Len(a) = k /\ Len(b) = Len(s) - k
      /\ \A i \in 1 .. k : a[i] = s[i]
      /\ \A i \in 1 .. Len(s) - k : b[i] = s[i + k]
  BY TakeType
<1> HIDE DEF a, b
<1>2. Len(s) \in Nat /\ k \in Nat /\ k <= Len(s)
  OBVIOUS
<1>3. ASSUME NEW i \in 1 .. Len(a) PROVE a[i] = n - (Len(s) - k) - Len(a) + i
  <2>1. i \in 1 .. Len(s)
    BY <1>1, <1>2
  <2> QED
    BY <1>1, <1>2, <2>1 DEF EndsAt
<1>4. ASSUME NEW i \in 1 .. Len(b) PROVE b[i] = n - Len(b) + i
  <2>1. i + k \in 1 .. Len(s)
    BY <1>1, <1>2
  <2> QED
    BY <1>1, <1>2, <2>1 DEF EndsAt
<1>5. EndsAt(a, n - (Len(s) - k)) /\ EndsAt(b, n)
  BY <1>3, <1>4 DEF EndsAt
<1> QED
  BY <1>5 DEF a, b

LEMMA EndsJoin ==
    ASSUME NEW s \in Seq(1 .. MaxRx), NEW t \in Seq(1 .. MaxRx), NEW n \in Int,
           EndsAt(t, n), EndsAt(s, n - Len(t))
    PROVE  EndsAt(s \o t, n)
<1> DEFINE st == s \o t
<1>1. /\ Len(st) = Len(s) + Len(t) /\ Len(s) \in Nat /\ Len(t) \in Nat
      /\ \A i \in 1 .. Len(s) : st[i] = s[i]
      /\ \A i \in 1 .. Len(t) : st[i + Len(s)] = t[i]
  BY JoinType
<1> HIDE DEF st
<1>2. ASSUME NEW i \in 1 .. Len(st) PROVE st[i] = n - Len(st) + i
  <2>1. CASE i \in 1 .. Len(s)
    BY <1>1, <2>1 DEF EndsAt
  <2>2. CASE i \notin 1 .. Len(s)
    <3>1. i - Len(s) \in 1 .. Len(t) /\ i = (i - Len(s)) + Len(s)
      BY <1>1, <2>2
    <3>2. st[i] = t[i - Len(s)]
      BY <1>1, <3>1
    <3>3. t[i - Len(s)] = n - Len(t) + (i - Len(s))
      BY <3>1 DEF EndsAt
    <3> QED
      BY <1>1, <3>2, <3>3
  <2> QED
    BY <2>1, <2>2
<1>3. EndsAt(st, n)
  BY <1>2 DEF EndsAt
<1> QED
  BY <1>3 DEF st

(***************************************************************************)
(* No more bytes are in the ring than have come in.                        *)
(***************************************************************************)
LEMMA EndsFits ==
    ASSUME NEW s \in Seq(1 .. MaxRx), NEW n \in 0 .. MaxRx, EndsAt(s, n)
    PROVE  Len(s) \in 0 .. MaxRx
<1>1. MaxRx \in Nat /\ Len(s) \in Nat
  BY IdfAssumption
<1>2. CASE Len(s) = 0
  BY <1>1, <1>2
<1>3. CASE Len(s) > 0
  <2>1. 1 \in 1 .. Len(s)
    BY <1>1, <1>3
  <2>2. s[1] = n - Len(s) + 1
    BY <2>1 DEF EndsAt
  <2>3. s[1] \in 1 .. MaxRx
    BY <2>1, ElementOfSeq
  <2> QED
    BY <1>1, <2>2, <2>3
<1> QED
  BY <1>1, <1>2, <1>3
-----------------------------------------------------------------------------
LEMMA RunTypes ==
    ASSUME AppTypeOK
    PROVE  /\ rx \in Seq(1 .. MaxRx) /\ buf \in Seq(1 .. MaxRx)
           /\ reply.bytes \in Seq(1 .. MaxRx)
           /\ Chunk \in Seq(1 .. MaxRx) /\ shown \in Seq(1 .. MaxRx)
           /\ Len(rx) \in Nat /\ Len(Chunk) \in Nat /\ Len(shown) \in Nat
           /\ Len(buf) \in Nat /\ Len(reply.bytes) \in Nat
           /\ arrived \in Nat /\ mark \in Nat /\ batch \in Nat /\ want \in Nat
<1>1. /\ rx \in Seq(1 .. MaxRx) /\ buf \in Seq(1 .. MaxRx)
      /\ reply.bytes \in Seq(1 .. MaxRx) /\ shown \in Seq(1 .. MaxRx)
      /\ arrived \in Nat /\ mark \in Nat /\ batch \in Nat /\ want \in Nat
  BY IdfAssumption DEF AppTypeOK, TypeOK, Replies
<1>2. Chunk \in Seq(1 .. MaxRx)
  BY <1>1, EmptyType DEF Chunk
<1> QED
  BY <1>1, <1>2

LEMMA RunKept ==
    ASSUME RunInv, UNCHANGED <<rx, arrived, mark, shown>>, Chunk' = Chunk
    PROVE  RunInv'
  BY DEF RunInv

(***************************************************************************)
(* The bytes received stay in one run as they are copied, shown and        *)
(* forgotten.                                                              *)
(***************************************************************************)
LEMMA RunStep ==
    ASSUME AppTypeOK, IInv, PlaceInv, CountInv, RunInv, BatchInv, [AppNext]_allVars
    PROVE  RunInv'
<1> USE RunTypes DEF appVars, sendVars, receiveVars, serialVars, callVars
<1>1. CASE UNCHANGED allVars
  BY <1>1, RunKept DEF allVars, vars, Chunk
<1>2. CASE Setup
  <2>1. /\ shown = << >> /\ shown' = << >> /\ Chunk' = << >> /\ Chunk = << >>
        /\ UNCHANGED <<rx, arrived>>
    BY <1>2 DEF Setup, Begin, BatchInv, Chunk
  <2> QED
    BY <2>1, FreshEmpty, EndsEmpty DEF RunInv
<1>3. CASE \/ SendStarts \/ NoOffer \/ ChunkWritten \/ SendFlushed \/ ValuesSent
           \/ NextStep \/ Deadline \/ SetupFails \/ Stopped
  BY <1>3, RunKept DEF SendStarts, NoOffer, ChunkWritten, SendFlushed, ValuesSent,
                       NextStep, Deadline, SetupFails, Stopped, Chunk, allVars, vars
<1>4. CASE AskOffer \/ Look
  BY <1>4, RunKept DEF AskOffer, Look, AvailableForWrite, Available, Chunk
<1>5. CASE WriteChunk \/ FirstStarts \/ SecondStarts
  BY <1>5, RunKept DEF WriteChunk, FirstStarts, SecondStarts, StartWrite, Chunk
<1>6. CASE SendEnds
  BY <1>6, RunKept DEF SendEnds, StartFlush, Chunk, vars
<1>7. CASE Count
  <2>1. /\ shown' = << >> /\ Chunk' = << >> /\ Chunk = << >>
        /\ UNCHANGED <<rx, arrived>>
    BY <1>7 DEF Count, Available, Chunk
  <2> QED
    BY <2>1, FreshEmpty, EndsEmpty DEF RunInv
<1>8. CASE ReadChunk
  <2>1. Chunk' = << >> /\ Chunk = << >>
    BY <1>8 DEF ReadChunk, StartRead, Chunk, Held, PlaceInv
  <2> QED
    BY <1>8, <2>1, RunKept DEF ReadChunk, StartRead
<1>9. CASE GotChunk
  <2>1. /\ Chunk = reply.bytes /\ Chunk' = << >>
        /\ shown' = shown \o reply.bytes
        /\ UNCHANGED <<rx, arrived, mark>>
    BY <1>9 DEF GotChunk, Chunk, vars
  <2>2. EndsAt(shown', arrived - Len(rx))
    BY <2>1, EndsJoin DEF RunInv
  <2>3. Fresh(shown', mark)
    BY <2>1, FreshJoin DEF RunInv, IInv, FreshInv
  <2>4. EndsAt(Chunk', arrived' - Len(rx')) /\ Len(Chunk') = 0
    BY <2>1, EndsEmpty, EmptyType
  <2>5. arrived' - Len(rx') - Len(Chunk') = arrived - Len(rx)
    BY <2>1, <2>4
  <2> QED
    BY <2>1, <2>2, <2>3, <2>4, <2>5 DEF RunInv
<1>10. CASE Show
  <2>1. /\ Chunk = << >> /\ Chunk' = << >> /\ shown' = << >>
        /\ UNCHANGED <<rx, arrived>>
    BY <1>10 DEF Show, Chunk, vars
  <2> QED
    BY <2>1, FreshEmpty, EndsEmpty DEF RunInv
<1>11. CASE Below /\ UNCHANGED <<app, sendVars, receiveVars>>
  <2>1. CASE \/ \E k \in 1 .. pending : Push(k)
             \/ Tick \/ Load \/ Shift
    BY <1>11, <2>1, RunKept DEF Push, Tick, Load, Shift, Chunk
  <2>2. CASE ReadReturn
    <3>1. reply'.bytes = buf /\ pc = "reading" /\ pc' = "idle" /\ app = "got"
      BY <2>2 DEF ReadReturn, Answer, PlaceInv
    <3>2. Chunk' = Chunk
      BY <1>11, <3>1 DEF Chunk
    <3> QED
      BY <1>11, <2>2, <3>2, RunKept DEF ReadReturn
  <2>3. CASE WriteReturn \/ FlushDone
    <3>1. app # "got"
      BY <2>3 DEF WriteReturn, FlushDone, PlaceInv
    <3> QED
      BY <1>11, <2>3, <3>1, RunKept DEF WriteReturn, FlushDone, Chunk
  <2>4. CASE DrainReturn
    <3>1. app \in {"flush", "first", "second"} /\ pc = "draining"
      BY <2>4 DEF DrainReturn, PlaceInv
    <3>2. op # "flush_all"
      BY <3>1 DEF CountInv, Flushing, WaitingWrite
    <3> QED
      BY <1>11, <2>4, <3>1, <3>2, RunKept DEF DrainReturn, Chunk
  <2>5. CASE FlushRound
    <3>1. app = "loop" /\ rx' = << >> /\ shown = << >>
      BY <2>5 DEF FlushRound, PlaceInv, BatchInv
    <3>2. Chunk' = << >> /\ shown' = << >>
      BY <1>11, <3>1 DEF Chunk
    <3> QED
      BY <3>1, <3>2, FreshEmpty, EndsEmpty DEF RunInv
  <2>6. CASE Arrive
    <3>1. /\ arrived + 1 \in 1 .. MaxRx /\ arrived' = arrived + 1
          /\ rx' = Append(rx, arrived + 1) /\ UNCHANGED <<buf, reply, pc, mark>>
      BY <2>6, IdfAssumption DEF Arrive, AppTypeOK, TypeOK
    <3>2. Chunk' = Chunk /\ shown' = shown
      BY <1>11, <3>1 DEF Chunk
    <3>3. EndsAt(rx', arrived')
      BY <3>1, EndsAppend DEF RunInv
    <3>4. arrived' - Len(rx') = arrived - Len(rx)
      BY <3>1
    <3> QED
      BY <3>1, <3>2, <3>3, <3>4 DEF RunInv
  <2>7. ASSUME NEW k \in 1 .. Len(rx), Collect(k) PROVE RunInv'
    <3> DEFINE t == SubSeq(rx, 1, k)
               u == SubSeq(rx, k + 1, Len(rx))
    <3>1. k \in 0 .. Len(rx) /\ k \in Nat
      OBVIOUS
    <3>2. /\ app = "got" /\ Chunk = buf /\ buf' = buf \o t /\ rx' = u
          /\ UNCHANGED <<arrived, mark, pc>> /\ pc = "reading"
      BY <2>7 DEF Collect, PlaceInv, Chunk
    <3>3. /\ t \in Seq(1 .. MaxRx) /\ Len(t) = k /\ Len(u) = Len(rx) - k
      BY <3>1, TakeType
    <3>4. EndsAt(t, arrived - (Len(rx) - k)) /\ EndsAt(u, arrived)
      BY <3>1, EndsTake DEF RunInv
    <3> HIDE DEF t, u
    <3>5. Chunk' = buf \o t /\ shown' = shown
      BY <1>11, <3>2 DEF Chunk
    <3>6. Len(buf \o t) = Len(buf) + k
      BY <3>3, JoinType
    <3>7. EndsAt(buf, arrived - (Len(rx) - k) - Len(t))
      <4>1. arrived - (Len(rx) - k) - Len(t) = arrived - Len(rx)
        BY <3>1, <3>3
      <4> QED
        BY <3>2, <4>1 DEF RunInv
    <3>8. EndsAt(Chunk', arrived' - Len(rx'))
      <4>1. arrived - (Len(rx) - k) \in Int
        BY <3>1
      <4>2. EndsAt(buf \o t, arrived - (Len(rx) - k))
        BY <3>3, <3>4, <3>7, <4>1, EndsJoin
      <4> QED
        BY <3>2, <3>3, <3>5, <4>2
    <3>9. arrived' - Len(rx') - Len(Chunk') = arrived - Len(rx) - Len(Chunk)
      BY <3>1, <3>2, <3>3, <3>5, <3>6
    <3> QED
      BY <3>2, <3>4, <3>5, <3>8, <3>9 DEF RunInv
  <2> QED
    BY <1>11, <2>1, <2>2, <2>3, <2>4, <2>5, <2>6, <2>7 DEF Below
<1> QED
  BY <1>1, <1>2, <1>3, <1>4, <1>5, <1>6, <1>7, <1>8, <1>9, <1>10, <1>11
  DEF AppNext, App

(***************************************************************************)
(* What of the batch is not shown stays there to be read.                  *)
(***************************************************************************)
LEMMA BatchStep ==
    ASSUME AppTypeOK, PlaceInv, ReadInv, CallInv, BatchInv, [AppNext]_allVars
    PROVE  BatchInv'
<1> USE RunTypes DEF appVars, sendVars, receiveVars, serialVars, callVars
<1>1. CASE UNCHANGED allVars
  BY <1>1 DEF allVars, vars, BatchInv
<1>2. CASE \/ Setup \/ SetupFails \/ Stopped \/ SendStarts \/ AskOffer \/ NoOffer
           \/ WriteChunk \/ ChunkWritten \/ SendEnds \/ SendFlushed \/ FirstStarts
           \/ SecondStarts \/ ValuesSent \/ NextStep \/ Look \/ Deadline
  <2>1. /\ app \notin {"read", "got", "show"} /\ app' \notin {"read", "got", "show"}
        /\ shown' = shown
    BY <1>2 DEF Setup, SetupFails, Stopped, allVars, SendStarts, AskOffer, NoOffer,
                WriteChunk, ChunkWritten, SendEnds, SendFlushed, FirstStarts,
                SecondStarts, ValuesSent, NextStep, Look, Deadline
  <2> QED
    BY <2>1 DEF BatchInv
<1>3. CASE Count
  <2>1. Len(Held) = 0
    BY EmptyType DEF Held, PlaceInv
  <2>2. /\ app' = "read" /\ shown' = << >> /\ Len(shown') = 0
        /\ batch' = Len(rx) /\ rx' = rx
    BY <1>3, <2>1, EmptyType DEF Count, Available, Buffered, PlaceInv
  <2> QED
    BY <2>2 DEF BatchInv
<1>4. CASE ReadChunk
  <2>1. Held = << >> /\ Len(Held) = 0
    BY EmptyType DEF Held, PlaceInv
  <2>2. /\ app = "read" /\ app' = "got" /\ pc' = "reading" /\ Len(buf') = 0
        /\ want' = batch - Len(shown) /\ UNCHANGED <<rx, batch, shown>>
    BY <1>4, <2>1 DEF ReadChunk, StartRead
  <2>3. want' > 0
    BY <1>4, <2>2 DEF ReadChunk
  <2>4. want' <= Len(buf') + Len(rx')
    BY <2>2 DEF BatchInv
  <2> QED
    BY <2>2, <2>3, <2>4 DEF BatchInv
<1>5. CASE GotChunk
  <2>1. /\ reply.bytes # << >> /\ Len(shown) + Len(reply.bytes) = batch
        /\ shown' = shown \o reply.bytes /\ batch' = batch
    BY <1>5 DEF GotChunk, BatchInv
  <2>2. Len(shown') = batch'
    BY <2>1, JoinType
  <2>3. app' = "show"
    BY <1>5, <2>1, <2>2 DEF GotChunk
  <2> QED
    BY <2>2, <2>3 DEF BatchInv
<1>6. CASE Show
  BY <1>6 DEF Show, BatchInv
<1>7. CASE Below /\ UNCHANGED <<app, sendVars, receiveVars>>
  <2>1. CASE \/ \E k \in 1 .. pending : Push(k)
             \/ Tick \/ Load \/ Shift
    BY <1>7, <2>1 DEF Push, Tick, Load, Shift, BatchInv
  <2>2. CASE ReadReturn
    <3>1. /\ reply'.bytes = buf /\ pc = "reading" /\ pc' = "idle" /\ app = "got"
          /\ Len(buf) = want \/ rx = << >>
      BY <2>2 DEF ReadReturn, Answer, PlaceInv
    <3>2. Len(buf) <= want /\ want = batch - Len(shown) /\ want <= Len(buf) + Len(rx)
      BY <3>1 DEF BatchInv, ReadInv
    <3>3. want > 0
      BY <3>1 DEF BatchInv
    <3>4. Len(buf) = want
      BY <3>1, <3>2, EmptyType
    <3>5. buf # << >>
      BY <3>3, <3>4, EmptyType
    <3> QED
      BY <1>7, <3>1, <3>2, <3>4, <3>5 DEF BatchInv
  <2>3. CASE WriteReturn \/ DrainReturn \/ FlushDone \/ FlushRound
    <3>1. app \notin {"read", "got", "show"}
      BY <2>3 DEF WriteReturn, DrainReturn, FlushDone, FlushRound, PlaceInv
    <3> QED
      BY <1>7, <3>1 DEF BatchInv
  <2>4. CASE Arrive
    <3>1. arrived + 1 \in 1 .. MaxRx
      BY <2>4, IdfAssumption DEF Arrive, AppTypeOK, TypeOK
    <3>2. Len(rx') = Len(rx) + 1 /\ UNCHANGED <<pc, buf, want, reply>>
      BY <2>4, <3>1 DEF Arrive
    <3> QED
      BY <1>7, <3>2 DEF BatchInv
  <2>5. ASSUME NEW k \in 1 .. Len(rx), Collect(k) PROVE BatchInv'
    <3>1. k \in 0 .. Len(rx) /\ k \in Nat
      OBVIOUS
    <3>2. /\ Len(rx') = Len(rx) - k
          /\ SubSeq(rx, 1, k) \in Seq(1 .. MaxRx) /\ Len(SubSeq(rx, 1, k)) = k
      BY <2>5, <3>1, TakeType DEF Collect
    <3>3. Len(buf') = Len(buf) + k
      BY <2>5, <3>2, JoinType DEF Collect
    <3>4. app = "got" /\ pc = "reading" /\ UNCHANGED <<pc, want, reply>>
      BY <2>5 DEF Collect, PlaceInv
    <3> QED
      BY <1>7, <3>1, <3>2, <3>3, <3>4 DEF BatchInv
  <2> QED
    BY <1>7, <2>1, <2>2, <2>3, <2>4, <2>5 DEF Below
<1> QED
  BY <1>1, <1>2, <1>3, <1>4, <1>5, <1>6, <1>7 DEF AppNext, App

-----------------------------------------------------------------------------
(***************************************************************************)
(* A step leaves what the application keeps of its types: it counts no     *)
(* more than the message, and asks for no more than has come in.           *)
(***************************************************************************)
LEMMA AppTypeStep ==
    ASSUME AppTypeOK, PlaceInv, CountInv, RunInv, [AppNext]_allVars
    PROVE  AppTypeOK'
<1> USE DEF appVars, sendVars, receiveVars
<1>1. TypeOK'
  BY AppIsAny, TypeStep DEF AppTypeOK
<1>2. app' \in {"setup", "loop", "send", "offer", "chunk", "flush", "first",
                "second", "sent", "receive", "count", "read", "got", "show",
                "stopped"}
  BY DEF AppTypeOK, AppNext, allVars, App, SetupFails, Stopped,
         Setup, SendStarts, AskOffer, NoOffer,
     WriteChunk, ChunkWritten, SendEnds, SendFlushed, FirstStarts, SecondStarts,
     ValuesSent, NextStep, Look, Count, ReadChunk, GotChunk, Show, Deadline
<1>3. step' \in 0 .. Messages + 1
  <2>1. CASE step' = step
    BY <2>1 DEF AppTypeOK
  <2>2. CASE NextStep
    <3>1. step + 1 \in Nat /\ Messages + 2 \in Nat /\ Messages + 2 > 0
      BY CountTypes
    <3>2. (step + 1) % (Messages + 2) \in 0 .. Messages + 1
      BY <3>1, CountTypes
    <3> QED
      BY <2>2, <3>2 DEF NextStep
  <2>3. step' = step \/ NextStep
    BY DEF AppNext, allVars, App, SetupFails, Stopped,
           Setup, SendStarts, AskOffer, NoOffer,
       WriteChunk, ChunkWritten, SendEnds, SendFlushed, FirstStarts, SecondStarts,
       ValuesSent, Look, Count, ReadChunk, GotChunk, Show, Deadline
  <2> QED
    BY <2>1, <2>2, <2>3
<1>4. total' \in 0 .. MsgLen
  <2>1. CASE total' = total
    BY <2>1 DEF AppTypeOK
  <2>2. CASE SendStarts
    BY <2>2, CountTypes DEF SendStarts
  <2>3. CASE ChunkWritten
    <3>1. total' = total + reply.val /\ reply.val <= MsgLen - total
      BY <2>3 DEF ChunkWritten, CountInv, ChunkWrite
    <3> QED
      BY <3>1, CountTypes
  <2>4. total' = total \/ SendStarts \/ ChunkWritten
    BY DEF AppNext, allVars, App, SetupFails, Stopped,
           Setup, AskOffer, NoOffer, WriteChunk, SendEnds,
       SendFlushed, FirstStarts, SecondStarts, ValuesSent, NextStep, Look, Count,
       ReadChunk, GotChunk, Show, Deadline
  <2> QED
    BY <2>1, <2>2, <2>3, <2>4
<1>5. late' \in BOOLEAN
  BY DEF AppTypeOK, AppNext, allVars, App, SetupFails, Stopped,
         Setup, SendStarts, AskOffer, NoOffer,
     WriteChunk, ChunkWritten, SendEnds, SendFlushed, FirstStarts, SecondStarts,
     ValuesSent, NextStep, Look, Count, ReadChunk, GotChunk, Show, Deadline
<1>6. sent' \in Nat
  <2>1. CASE sent' = sent \/ sent' = total \/ sent' \in {0, 2} \/ sent' \in {sent, sent + 4}
    BY <2>1, CountTypes
  <2>2. CASE SecondStarts \/ ValuesSent
    BY <2>2, CountTypes DEF SecondStarts, ValuesSent, Took
  <2>3. sent' = sent \/ sent' = total \/ SecondStarts \/ ValuesSent
    BY DEF AppNext, allVars, App, SetupFails, Stopped,
           Setup, SendStarts, AskOffer, NoOffer, WriteChunk,
       ChunkWritten, SendEnds, SendFlushed, FirstStarts, NextStep, Look, Count,
       ReadChunk, GotChunk, Show, Deadline
  <2> QED
    BY <2>1, <2>2, <2>3
<1>7. batch' \in 0 .. MaxRx
  <2>1. CASE batch' = batch
    BY <2>1 DEF AppTypeOK
  <2>2. CASE Count
    <3>1. Len(Held) = 0
      BY EmptyType DEF Held, PlaceInv
    <3>2. batch' = Len(rx)
      BY <2>2, <3>1, RunTypes DEF Count, Buffered, PlaceInv
    <3>3. Len(rx) \in 0 .. MaxRx
      BY RunTypes, EndsFits DEF RunInv, AppTypeOK, TypeOK
    <3> QED
      BY <3>2, <3>3
  <2>3. batch' = batch \/ Count
    BY DEF AppNext, allVars, App, SetupFails, Stopped,
           Setup, SendStarts, AskOffer, NoOffer,
       WriteChunk, ChunkWritten, SendEnds, SendFlushed, FirstStarts, SecondStarts,
       ValuesSent, NextStep, Look, ReadChunk, GotChunk, Show, Deadline
  <2> QED
    BY <2>1, <2>2, <2>3
<1>8. shown' \in Seq(1 .. MaxRx)
  <2>1. CASE shown' = shown \/ shown' = << >>
    BY <2>1, RunTypes, EmptyType
  <2>2. CASE GotChunk
    <3>1. shown' = shown \o reply.bytes
      BY <2>2 DEF GotChunk
    <3> QED
      BY <3>1, RunTypes, JoinType
  <2>3. shown' = shown \/ shown' = << >> \/ GotChunk
    BY DEF AppNext, allVars, App, SetupFails, Stopped,
           Setup, SendStarts, AskOffer, NoOffer,
       WriteChunk, ChunkWritten, SendEnds, SendFlushed, FirstStarts, SecondStarts,
       ValuesSent, NextStep, Look, Count, ReadChunk, Show, Deadline
  <2> QED
    BY <2>1, <2>2, <2>3
<1>9. pushed' \in Nat
  <2>1. CASE pushed' = pushed \/ pushed' = 0
    BY <2>1, CountTypes
  <2>2. CASE \E k \in 1 .. pending : pushed' = pushed + k
    BY <2>2, CountTypes
  <2>3. \/ pushed' = pushed \/ pushed' = 0
        \/ \E k \in 1 .. pending : pushed' = pushed + k
    BY DEF AppNext, allVars, App, SetupFails, Stopped,
           Setup, SendStarts, AskOffer, NoOffer,
       WriteChunk, ChunkWritten, SendEnds, SendFlushed, FirstStarts, SecondStarts,
       ValuesSent, NextStep, Look, Count, ReadChunk, GotChunk, Show, Deadline, Below
  <2> QED
    BY <2>1, <2>2, <2>3
<1> QED
  BY <1>1, <1>2, <1>3, <1>4, <1>5, <1>6, <1>7, <1>8, <1>9 DEF AppTypeOK

(***************************************************************************)
(* The application keeps its types, the invariants of the backend under    *)
(* it, which hold for every length it passes, and its own.                 *)
(***************************************************************************)
THEOREM TransceiverHolds == AppSpec => [](AppTypeOK /\ IInv /\ ReadInv /\ AppInv)
<1>1. AppInit => AppTypeOK /\ IInv /\ ReadInv /\ AppInv
  <2> SUFFICES ASSUME AppInit PROVE AppTypeOK /\ IInv /\ ReadInv /\ AppInv
    OBVIOUS
  <2>1. Init
    BY DEF AppInit
  <2>2. TypeOK /\ IInv
    BY <2>1, TypeInit, InvInit
  <2>3. ReadInv
    BY <2>1 DEF Init, ReadInv
  <2>4. AppTypeOK
    <3>1. 0 \in 0 .. Messages + 1 /\ 0 \in 0 .. MsgLen /\ 0 \in 0 .. MaxRx
      BY AppAssumption, IdfAssumption
    <3>2. << >> \in Seq(1 .. MaxRx)
      BY EmptyType
    <3> QED
      BY <2>2, <3>1, <3>2 DEF AppInit, AppTypeOK
  <2>5. PlaceInv
    BY <2>1 DEF AppInit, Init, PlaceInv
  <2>6. SendInv
    BY <2>1 DEF AppInit, Init, SendInv, CountInv, OutInv, TxDone, ShortOnlyWhenLate
  <2>7. RunInv
    <3>1. rx = << >> /\ Chunk = << >> /\ shown = << >>
      BY <2>1 DEF AppInit, Init, Chunk
    <3> QED
      BY <3>1, EndsEmpty, FreshEmpty DEF RunInv
  <2>8. BatchInv
    BY DEF AppInit, BatchInv
  <2> QED
    BY <2>2, <2>3, <2>4, <2>5, <2>6, <2>7, <2>8 DEF AppInv
<1>2. AppTypeOK /\ IInv /\ ReadInv /\ AppInv /\ [AppNext]_allVars
          => (AppTypeOK /\ IInv /\ ReadInv /\ AppInv)'
  <2> SUFFICES ASSUME AppTypeOK, IInv, ReadInv, AppInv, [AppNext]_allVars
               PROVE  (AppTypeOK /\ IInv /\ ReadInv /\ AppInv)'
    OBVIOUS
  <2>1. PlaceInv /\ CountInv /\ OutInv /\ ShortOnlyWhenLate /\ RunInv /\ BatchInv
    BY DEF AppInv, SendInv
  <2>2. IInv' /\ ReadInv'
    BY AppIsAny, InvStep, ReadStep DEF AppTypeOK
  <2>3. AppTypeOK'
    BY <2>1, AppTypeStep
  <2>4. PlaceInv' /\ CountInv' /\ OutInv' /\ ShortOnlyWhenLate'
    BY <2>1, PlaceStep, CountStep, OutStep, ShortStep
  <2>5. RunInv' /\ BatchInv'
    BY <2>1, RunStep, BatchStep DEF IInv
  <2> QED
    BY <2>2, <2>3, <2>4, <2>5 DEF AppInv, SendInv
<1> QED
  BY <1>1, <1>2, PTL DEF AppSpec

(***************************************************************************)
(* Every variable of the application and of the backend is of its type.    *)
(***************************************************************************)
THEOREM AppTypeCorrect == AppSpec => []AppTypeOK
  BY TransceiverHolds, PTL

(***************************************************************************)
(* Under the example the backend keeps what it promises to its callers:    *)
(* nothing is read that its begin() flushed, a chunk within an offer does  *)
(* not wait, and a waited write and a flush leave nothing in the driver.   *)
(***************************************************************************)
THEOREM BackendUnderApp ==
    AppSpec => [](NothingStale /\ RingOfferIsWritable /\ WaitedIsOnTheWire)
<1>1. AppTypeOK /\ IInv => NothingStale /\ RingOfferIsWritable /\ WaitedIsOnTheWire
  BY InvSuffices DEF AppTypeOK
<1> QED
  BY <1>1, TransceiverHolds, PTL

(***************************************************************************)
(* The backend keeps the Stream contract under the example, which asks for *)
(* as many bytes as available() has counted.                               *)
(***************************************************************************)
THEOREM StreamUnderApp == AppSpec => AnyStream!Spec
<1>1. AppInit => AnyStream!Init
  <2> SUFFICES ASSUME AppInit PROVE AnyStream!Init
    OBVIOUS
  <2>1. Init
    BY DEF AppInit
  <2>2. Held = << >> /\ Unread = << >>
    BY <2>1, EmptyType, ConcatEmptySeq DEF Init, Held, Unread
  <2> QED
    BY <2>1, <2>2 DEF Init, AnyStream!Init, Got, Answer, AnyStream!Quiet
<1>2. AppTypeOK /\ IInv /\ ReadInv /\ [AppNext]_allVars
          => [AnyStream!Next]_(AnyStream!vars)
  BY AppIsAny, AnyStreamStep DEF AppTypeOK, IInv
<1> QED
  BY <1>1, <1>2, TransceiverHolds, PTL DEF AppSpec, AnyStream!Spec

(***************************************************************************)
(* What loop() reports as sent is what the driver was given, and it is     *)
(* out.                                                                    *)
(***************************************************************************)
THEOREM SentIsOutHolds == AppSpec => []SentIsOut
<1>1. AppInv => SentIsOut
  BY DEF AppInv, SendInv, CountInv, OutInv, SentIsOut
<1> QED
  BY <1>1, TransceiverHolds, PTL

(***************************************************************************)
(* Less than the message is sent only by a send that ran out of time.      *)
(***************************************************************************)
THEOREM ShortOnlyWhenLateHolds == AppSpec => []ShortOnlyWhenLate
<1>1. AppInv => ShortOnlyWhenLate
  BY DEF AppInv, SendInv
<1> QED
  BY <1>1, TransceiverHolds, PTL

(***************************************************************************)
(* What is shown is all that available() counted, without a gap, and       *)
(* nothing of what begin() flushed.                                        *)
(***************************************************************************)
THEOREM BatchIsWholeHolds == AppSpec => []BatchIsWhole
<1>1. ASSUME AppTypeOK, AppInv PROVE BatchIsWhole
  <2> SUFFICES ASSUME app = "show"
               PROVE  /\ Len(shown) = batch
                      /\ \A i \in 1 .. Len(shown) :
                             shown[i] > mark /\ shown[i] = shown[1] + i - 1
    BY DEF BatchIsWhole
  <2>1. Len(shown) = batch /\ Len(shown) \in Nat
    BY <1>1, RunTypes DEF AppInv, BatchInv
  <2> DEFINE n == arrived - Len(rx) - Len(Chunk)
  <2>2. EndsAt(shown, n) /\ Fresh(shown, mark) /\ n \in Int
    BY <1>1, RunTypes DEF AppInv, RunInv
  <2> HIDE DEF n
  <2>3. ASSUME NEW i \in 1 .. Len(shown)
        PROVE  shown[i] > mark /\ shown[i] = shown[1] + i - 1
    <3>1. 1 \in 1 .. Len(shown)
      BY <2>1
    <3>2. shown[i] = n - Len(shown) + i /\ shown[1] = n - Len(shown) + 1
      BY <2>2, <3>1 DEF EndsAt
    <3> QED
      BY <2>1, <2>2, <3>2 DEF Fresh
  <2> QED
    BY <2>1, <2>3
<1> QED
  BY <1>1, TransceiverHolds, PTL
=============================================================================
