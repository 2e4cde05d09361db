-------------------------- MODULE ValueLinkProofs --------------------------
(***************************************************************************)
(* That the two ends of a line stay in step until something is lost, and   *)
(* which way they slip from then on, for every script of values, every     *)
(* pair of peers and every number of bytes.                                *)
(***************************************************************************)
EXTENDS ValueLink, SequenceLemmas

(***************************************************************************)
(* A value as it goes over the line, and what the reader has yet to take:  *)
(* the bytes that have arrived and those on their way.                     *)
(***************************************************************************)
Wire(v) == Ordered(writer, Script[v], Memory(v, writer.host))

Ready == [i \in 1 .. Len(input) |-> content[input[i]]]

Flow == Ready \o line

(***************************************************************************)
(* Where the values that are not accepted begin in Flow: each where the    *)
(* one before it ends, the next one at its front.                          *)
(***************************************************************************)
Laid(at) ==
    /\ at[Len(accepted) + 1] = 0
    /\ \A v \in Len(accepted) + 1 .. written : at[v + 1] = at[v] + Script[v].size
    /\ \A v, w \in Len(accepted) + 1 .. written + 1 :
           v < w => at[v] + Script[v].size <= at[w]
    /\ Len(Flow) <= at[written + 1]

(***************************************************************************)
(* Nothing was lost: Flow holds these values and nothing else.             *)
(***************************************************************************)
Intact(at) ==
    /\ Len(Flow) = at[written + 1]
    /\ \A v \in Len(accepted) + 1 .. written : \A j \in 1 .. Script[v].size :
           Flow[at[v] + j] = Wire(v)[j]

Offsets == [1 .. Len(Script) + 1 -> Int]

(***************************************************************************)
(* A byte stands where its value would be or before that, and once         *)
(* something is lost there are fewer of them than the values have.         *)
(***************************************************************************)
Ahead(at) ==
    /\ torn => Len(Flow) < at[written + 1]
    /\ \A v \in Len(accepted) + 1 .. written : \A i \in 1 .. Len(Flow) :
           i > at[v] => Flow[i][1] >= v

FlowInv == \E at \in Offsets : Laid(at) /\ (~torn => Intact(at)) /\ Ahead(at)

-----------------------------------------------------------------------------
LEMMA ScriptType ==
    ASSUME NEW v \in 1 .. Len(Script)
    PROVE  /\ Script[v] \in [size : Nat \ {0}, scalar : BOOLEAN]
           /\ Script[v].size \in Nat /\ Script[v].size > 0
           /\ Script[v].scalar \in BOOLEAN
<1>1. Script[v] \in [size : Nat \ {0}, scalar : BOOLEAN]
  BY ScriptAssumption, ElementOfSeq
<1> QED  BY <1>1

LEMMA ReverseType ==
    ASSUME NEW S, NEW s \in Seq(S)
    PROVE  /\ Reverse(s) \in Seq(S)
           /\ Len(Reverse(s)) = Len(s)
           /\ \A i \in 1 .. Len(s) : Reverse(s)[i] = s[Len(s) + 1 - i]
  BY DEF Reverse

LEMMA MemoryType ==
    ASSUME NEW v \in 1 .. Len(Script), NEW host \in BOOLEAN
    PROVE  /\ Memory(v, host) \in Seq(Bytes)
           /\ Len(Memory(v, host)) = Script[v].size
           /\ \A i \in 1 .. Script[v].size :
                  Memory(v, host)[i] =
                      <<v, IF host THEN i ELSE Script[v].size + 1 - i>>
<1> DEFINE n == Script[v].size
           m == [i \in 1 .. n |-> <<v, IF host THEN i ELSE n + 1 - i>>]
<1>1. n \in Nat  BY ScriptType
<1>2. ASSUME NEW i \in 1 .. n
      PROVE  <<v, IF host THEN i ELSE n + 1 - i>> \in Bytes
  <2>1. (IF host THEN i ELSE n + 1 - i) \in Nat  BY <1>1
  <2> QED  BY <2>1 DEF Bytes
<1>3. Memory(v, host) = m  BY DEF Memory
<1> HIDE DEF n
<1>4. m \in Seq(Bytes)  BY <1>1, <1>2
<1>5. Len(m) = n  BY <1>1
<1> QED  BY <1>3, <1>4, <1>5 DEF n

LEMMA OrderedType ==
    ASSUME NEW peer \in Peers, NEW type, NEW S, NEW s \in Seq(S)
    PROVE  /\ Ordered(peer, type, s) \in Seq(S)
           /\ Len(Ordered(peer, type, s)) = Len(s)
  BY ReverseType DEF Ordered, Swapped

(***************************************************************************)
(* The bytes of a value are its own, in whichever order they go out.       *)
(***************************************************************************)
LEMMA WireValue ==
    ASSUME NEW v \in 1 .. Len(Script), writer \in Peers,
           NEW j \in 1 .. Script[v].size
    PROVE  Wire(v)[j][1] = v
<1> DEFINE m == Memory(v, writer.host)
           n == Script[v].size
<1>1. n \in Nat  BY ScriptType
<1>2. m \in Seq(Bytes) /\ Len(m) = n /\ \A i \in 1 .. n : m[i][1] = v
  BY MemoryType DEF Peers
<1>3. Wire(v) = m \/ Wire(v) = Reverse(m)  BY DEF Wire, Ordered, Swapped
<1> HIDE DEF m, n
<1>4. j \in 1 .. n /\ n + 1 - j \in 1 .. n  BY <1>1 DEF n
<1>5. Reverse(m)[j] = m[n + 1 - j]  BY <1>2, <1>4, ReverseType
<1> QED  BY <1>2, <1>3, <1>4, <1>5

(***************************************************************************)
(* The other host keeps a value the other way round.                       *)
(***************************************************************************)
LEMMA OtherHost ==
    ASSUME NEW v \in 1 .. Len(Script), NEW host \in BOOLEAN
    PROVE  Reverse(Memory(v, host)) = Memory(v, ~host)
<1> DEFINE a == Reverse(Memory(v, host))
           b == Memory(v, ~host)
           n == Script[v].size
<1>1. n \in Nat  BY ScriptType
<1>2. /\ Memory(v, host) \in Seq(Bytes)
      /\ Len(Memory(v, host)) = n
      /\ \A i \in 1 .. n : Memory(v, host)[i] = <<v, IF host THEN i ELSE n + 1 - i>>
  BY MemoryType
<1>3. /\ b \in Seq(Bytes)
      /\ Len(b) = n
      /\ \A i \in 1 .. n : b[i] = <<v, IF ~host THEN i ELSE n + 1 - i>>
  BY MemoryType
<1>4. /\ a \in Seq(Bytes)
      /\ Len(a) = n
      /\ \A i \in 1 .. n : a[i] = Memory(v, host)[n + 1 - i]
  BY <1>2, ReverseType
<1> HIDE DEF a, b, n
<1>5. ASSUME NEW i \in 1 .. n  PROVE a[i] = b[i]
  <2>1. n + 1 - i \in 1 .. n  BY <1>1
  <2>2. a[i] = <<v, IF host THEN n + 1 - i ELSE n + 1 - (n + 1 - i)>>
    BY <1>2, <1>4, <2>1
  <2>3. n + 1 - (n + 1 - i) = i  BY <1>1
  <2>4. b[i] = <<v, IF ~host THEN i ELSE n + 1 - i>>  BY <1>3
  <2> QED  BY <2>2, <2>3, <2>4
<1> QED  BY <1>3, <1>4, <1>5, SeqEqual DEF a, b

(***************************************************************************)
(* A scalar goes out in the order that the argument names, whatever the    *)
(* host, and the same argument brings it back from that order.             *)
(***************************************************************************)
LEMMA ScalarOrder ==
    ASSUME NEW peer \in Peers, NEW v \in 1 .. Len(Script), Script[v].scalar
    PROVE  /\ Ordered(peer, Script[v], Memory(v, peer.host)) = Memory(v, peer.le)
           /\ Ordered(peer, Script[v], Memory(v, peer.le)) = Memory(v, peer.host)
<1>1. peer.host \in BOOLEAN /\ peer.le \in BOOLEAN  BY DEF Peers
<1>2. CASE peer.le = peer.host
  BY <1>2 DEF Ordered
<1>3. CASE peer.le # peer.host
  <2>1. peer.le = ~peer.host /\ peer.host = ~peer.le  BY <1>1, <1>3, Zenon
  <2>2. /\ Reverse(Memory(v, peer.host)) = Memory(v, ~peer.host)
        /\ Reverse(Memory(v, peer.le)) = Memory(v, ~peer.le)
    BY <1>1, OtherHost
  <2>3. \A s : Ordered(peer, Script[v], s) = Reverse(s)
    BY <1>3 DEF Ordered, Swapped
  <2> QED  BY <2>1, <2>2, <2>3, Zenon
<1> QED  BY <1>2, <1>3

(***************************************************************************)
(* A value comes back from the line as the reader's host keeps it, if the  *)
(* two ends mean the same by it: byteswap_if_needed() at both ends.        *)
(***************************************************************************)
THEOREM RoundTrip ==
    ASSUME NEW v \in 1 .. Len(Script), writer \in Peers, reader \in Peers, Agreed(v)
    PROVE  Ordered(reader, Script[v], Wire(v)) = Memory(v, reader.host)
<1>1. Script[v].scalar \in BOOLEAN  BY ScriptType
<1>2. CASE Script[v].scalar
  <2>1. writer.le = reader.le  BY <1>2 DEF Agreed
  <2>2. Wire(v) = Memory(v, writer.le)  BY <1>2, ScalarOrder DEF Wire
  <2>3. Ordered(reader, Script[v], Memory(v, reader.le)) = Memory(v, reader.host)
    BY <1>2, ScalarOrder
  <2> QED  BY <2>1, <2>2, <2>3
<1>3. CASE ~Script[v].scalar
  <2>1. writer.host = reader.host  BY <1>3 DEF Agreed
  <2>2. Wire(v) = Memory(v, writer.host)  BY <1>3 DEF Wire, Ordered, Swapped
  <2>3. Ordered(reader, Script[v], Wire(v)) = Wire(v)
    BY <1>3 DEF Ordered, Swapped
  <2> QED  BY <2>1, <2>2, <2>3
<1> QED  BY <1>1, <1>2, <1>3

-----------------------------------------------------------------------------
(***************************************************************************)
(* The bytes that some positions of a sequence name, and others after them.*)
(***************************************************************************)
LEMMA PickedType ==
    ASSUME NEW m \in Nat, NEW at \in Seq(1 .. m),
           NEW bytes \in Seq(Bytes), Len(bytes) = m, NEW rest \in Seq(Bytes)
    PROVE  LET flow == [i \in 1 .. Len(at) |-> bytes[at[i]]] \o rest
           IN  /\ flow \in Seq(Bytes)
               /\ Len(flow) = Len(at) + Len(rest)
               /\ \A i \in 1 .. Len(at) : flow[i] = bytes[at[i]]
               /\ \A i \in 1 .. Len(rest) : flow[i + Len(at)] = rest[i]
<1> DEFINE r == [i \in 1 .. Len(at) |-> bytes[at[i]]]
<1>1. ASSUME NEW i \in 1 .. Len(at)  PROVE bytes[at[i]] \in Bytes
  <2>1. at[i] \in 1 .. Len(bytes)  BY ElementOfSeq
  <2> QED  BY <2>1, ElementOfSeq
<1>2. /\ r \in Seq(Bytes) /\ Len(r) = Len(at)
      /\ \A i \in 1 .. Len(at) : r[i] = bytes[at[i]]
  BY <1>1
<1> HIDE DEF r
<1>3. /\ r \o rest \in Seq(Bytes)
      /\ Len(r \o rest) = Len(r) + Len(rest)
      /\ \A i \in 1 .. Len(r) : (r \o rest)[i] = r[i]
      /\ \A i \in 1 .. Len(rest) : (r \o rest)[i + Len(r)] = rest[i]
  <2>1. r \in Seq(Bytes) /\ rest \in Seq(Bytes)  BY <1>2
  <2> QED  BY <2>1, JoinType
<1>4. /\ r \o rest \in Seq(Bytes)
      /\ Len(r \o rest) = Len(at) + Len(rest)
      /\ \A i \in 1 .. Len(at) : (r \o rest)[i] = bytes[at[i]]
      /\ \A i \in 1 .. Len(rest) : (r \o rest)[i + Len(at)] = rest[i]
  BY <1>2, <1>3
<1> QED  BY <1>4 DEF r

(***************************************************************************)
(* What the reader has yet to take is a sequence of bytes, the arrived     *)
(* ones first; and so it is after a step.                                  *)
(***************************************************************************)
LEMMA FlowType ==
    ASSUME LinkTypeOK
    PROVE  /\ Flow \in Seq(Bytes)
           /\ Len(Flow) = Len(input) + Len(line)
           /\ \A i \in 1 .. Len(input) : Flow[i] = content[input[i]]
           /\ \A i \in 1 .. Len(line) : Flow[i + Len(input)] = line[i]
<1>1. /\ input \in Seq(1 .. arrived) /\ arrived \in Nat
      /\ content \in Seq(Bytes) /\ Len(content) = arrived
      /\ line \in Seq(Bytes)
  BY ScriptAssumption DEF LinkTypeOK
<1> QED  BY <1>1, PickedType DEF Flow, Ready

LEMMA NextFlowType ==
    ASSUME LinkTypeOK'
    PROVE  /\ Flow' \in Seq(Bytes)
           /\ Len(Flow') = Len(input') + Len(line')
           /\ \A i \in 1 .. Len(input') : Flow'[i] = content'[input'[i]]
           /\ \A i \in 1 .. Len(line') : Flow'[i + Len(input')] = line'[i]
<1>1. /\ input' \in Seq(1 .. arrived') /\ arrived' \in Nat
      /\ content' \in Seq(Bytes) /\ Len(content') = arrived'
      /\ line' \in Seq(Bytes)
  BY ScriptAssumption DEF LinkTypeOK
<1>2. Flow' = [i \in 1 .. Len(input') |-> content'[input'[i]]] \o line'
  BY DEF Flow, Ready
<1> QED  BY <1>1, <1>2, PickedType

(***************************************************************************)
(* What a read asks for is a value of the script.                          *)
(***************************************************************************)
LEMMA AwaitedType ==
    ASSUME LinkTypeOK, Len(accepted) < Len(Script)
    PROVE  /\ Len(accepted) \in Nat
           /\ Len(accepted) + 1 \in 1 .. Len(Script)
           /\ Awaited.size \in Nat /\ Awaited.size > 0
<1>1. Len(accepted) \in Nat /\ Len(Script) \in Nat
  BY ScriptAssumption DEF LinkTypeOK
<1>2. Len(accepted) + 1 \in 1 .. Len(Script)  BY <1>1
<1> QED  BY <1>1, <1>2, ScriptType DEF Awaited

(***************************************************************************)
(* A byte that has come in belongs to a value that was written and is not  *)
(* accepted yet.                                                           *)
(***************************************************************************)
LEMMA WrittenFirst ==
    ASSUME LinkTypeOK, FlowInv, Len(input) > 0
    PROVE  Len(accepted) < written
<1>1. PICK at \in Offsets : Laid(at)  BY DEF FlowInv
<1>2. Len(Flow) = Len(input) + Len(line) /\ Len(input) \in Nat /\ Len(line) \in Nat
  BY FlowType DEF LinkTypeOK
<1>3. at[Len(accepted) + 1] = 0 /\ at[written + 1] > 0
  <2>1. written + 1 \in 1 .. Len(Script) + 1  BY ScriptAssumption DEF LinkTypeOK
  <2>2. at[written + 1] \in Int  BY <2>1 DEF Offsets
  <2> QED  BY <1>1, <1>2, <2>2 DEF Laid
<1>4. Len(accepted) # written  BY <1>3
<1> QED  BY <1>4, ScriptAssumption DEF LinkTypeOK

LEMMA TypeInit == LinkInit => LinkTypeOK
<1> SUFFICES ASSUME LinkInit  PROVE LinkTypeOK
  OBVIOUS
<1>1. arrived = 0 /\ input = << >>  BY DEF LinkInit, Init
<1>2. << >> \in Seq(1 .. arrived)  BY EmptyType
<1>3. /\ << >> \in Seq(Bytes)
      /\ << >> \in Seq(Seq(Bytes)) /\ Len(<< >>) = 0
  BY EmptyType
<1>4. MaxRx \in Nat /\ Len(Script) \in Nat  BY ScriptAssumption
<1>5. /\ arrived = 0 /\ arrived \in 0 .. MaxRx
      /\ written = 0 /\ written \in 0 .. Len(Script)
  <2>1. arrived = 0 /\ written = 0  BY <1>1 DEF LinkInit
  <2> QED  BY <2>1, <1>4
<1>6. /\ content = << >> /\ line = << >> /\ reads = 0 /\ accepted = << >>
      /\ writer \in Peers /\ reader \in Peers /\ torn = FALSE
  BY Zenon DEF LinkInit
<1>7. Len(content) = arrived /\ Len(accepted) <= written
  <2>1. Len(content) = 0 /\ Len(accepted) = 0  BY <1>6
  <2> QED  BY <2>1, <1>5
<1>8. torn \in BOOLEAN  BY <1>6
<1> QED  BY <1>1, <1>2, <1>3, <1>5, <1>6, <1>7, <1>8, Zenon DEF LinkTypeOK

(***************************************************************************)
(* Type correctness: one step per action.                                  *)
(***************************************************************************)
LEMMA WriteType ==
    ASSUME LinkTypeOK, WriteValue
    PROVE  LinkTypeOK' /\ written + 1 \in 1 .. Len(Script)
                       /\ Wire(written + 1) \in Seq(Bytes)
                       /\ Len(Wire(written + 1)) = Script[written + 1].size
                       /\ line' = line \o Wire(written + 1)
<1>1. /\ written' = written + 1 /\ written + 1 \in 1 .. Len(Script)
      /\ UNCHANGED <<arrived, input, writer, reader, content, reads, accepted, torn>>
  BY ScriptAssumption DEF WriteValue, vars, LinkTypeOK
<1>2. writer \in Peers /\ writer.host \in BOOLEAN  BY DEF LinkTypeOK, Peers
<1>3. /\ Memory(written + 1, writer.host) \in Seq(Bytes)
      /\ Len(Memory(written + 1, writer.host)) = Script[written + 1].size
  BY <1>1, <1>2, MemoryType
<1>4. /\ Wire(written + 1) \in Seq(Bytes)
      /\ Len(Wire(written + 1)) = Script[written + 1].size
  BY <1>2, <1>3, OrderedType DEF Wire
<1>5. line' = line \o Wire(written + 1)  BY <1>1 DEF WriteValue, Wire
<1>6. line' \in Seq(Bytes)
  <2> DEFINE w == Wire(written + 1)
  <2>1. line \in Seq(Bytes) /\ w \in Seq(Bytes) /\ line' = line \o w
    BY <1>4, <1>5 DEF LinkTypeOK
  <2> HIDE DEF w
  <2> QED  BY <2>1, JoinType
<1>7. Len(accepted') <= written'
  BY <1>1, ScriptAssumption DEF LinkTypeOK
<1>8. LinkTypeOK'  BY <1>1, <1>6, <1>7 DEF LinkTypeOK
<1> QED  BY <1>1, <1>4, <1>5, <1>8

LEMMA ReceiveType ==
    ASSUME LinkTypeOK, Receive
    PROVE  LinkTypeOK'
<1>1. /\ arrived < MaxRx /\ arrived' = arrived + 1
      /\ input' = Append(input, arrived + 1)
      /\ content' = Append(content, Head(line)) /\ line' = Tail(line)
      /\ UNCHANGED <<writer, reader, written, reads, accepted, torn>>
  BY DEF Receive, Arrive
<1>2. Head(line) \in Bytes /\ Tail(line) \in Seq(Bytes)
  <2>1. line \in Seq(Bytes) /\ line # << >>  BY DEF LinkTypeOK, Receive
  <2> QED  BY <2>1, HeadType
<1>3. arrived' \in 0 .. MaxRx  BY <1>1, ScriptAssumption DEF LinkTypeOK
<1>4. input' \in Seq(1 .. arrived')
  <2>1. input \in Seq(1 .. arrived) /\ arrived \in Nat
    BY ScriptAssumption DEF LinkTypeOK
  <2>2. 1 .. arrived \subseteq 1 .. arrived + 1  BY <2>1
  <2>3. input \in Seq(1 .. arrived + 1)  BY <2>1, <2>2
  <2>4. arrived + 1 \in 1 .. arrived + 1  BY <2>1
  <2> QED  BY <1>1, <2>3, <2>4
<1>5. content' \in Seq(Bytes) /\ Len(content') = arrived'
  <2>1. content \in Seq(Bytes) /\ Len(content) = arrived  BY DEF LinkTypeOK
  <2> QED  BY <1>1, <1>2, <2>1
<1> QED  BY <1>1, <1>2, <1>3, <1>4, <1>5 DEF LinkTypeOK

LEMMA OverrunType ==
    ASSUME LinkTypeOK, Overrun
    PROVE  LinkTypeOK'
<1>1. Tail(line) \in Seq(Bytes)
  <2>1. line \in Seq(Bytes) /\ line # << >>  BY DEF LinkTypeOK, Overrun
  <2> QED  BY <2>1, HeadType
<1> QED  BY <1>1 DEF Overrun, vars, LinkTypeOK

LEMMA ShortType ==
    ASSUME LinkTypeOK, NEW k \in 0 .. Len(input), ReadValueShort(k)
    PROVE  LinkTypeOK'
<1>1. input' \in Seq(1 .. arrived)
  <2>1. input \in Seq(1 .. arrived)  BY DEF LinkTypeOK
  <2>2. input' = SubSeq(input, k + 1, Len(input))  BY DEF ReadValueShort, Read
  <2> QED  BY <2>1, <2>2, TakeType
<1>2. reads' \in Nat  BY DEF ReadValueShort, LinkTypeOK
<1>3. torn' \in BOOLEAN  BY DEF ReadValueShort, LinkTypeOK
<1>4. UNCHANGED <<arrived, writer, reader, written, line, content, accepted>>
  BY DEF ReadValueShort, Read
<1> QED  BY <1>1, <1>2, <1>3, <1>4 DEF LinkTypeOK

LEMMA ReadType ==
    ASSUME LinkTypeOK, FlowInv, ReadValue
    PROVE  LinkTypeOK'
<1> DEFINE n == Awaited.size
           b == [i \in 1 .. n |-> content[input[i]]]
           w == Ordered(reader, Awaited, b)
<1>1. n \in Nat /\ n > 0 /\ n <= Len(input)  BY AwaitedType DEF ReadValue
<1>2. /\ input \in Seq(1 .. arrived) /\ Len(input) \in Nat /\ arrived \in Nat
      /\ content \in Seq(Bytes) /\ Len(content) = arrived /\ reader \in Peers
  BY ScriptAssumption DEF LinkTypeOK
<1>3. input' \in Seq(1 .. arrived)
  <2>1. input' = SubSeq(input, n + 1, Len(input))  BY DEF ReadValue, Read
  <2>2. n \in 0 .. Len(input)  BY <1>1, <1>2
  <2> HIDE DEF n
  <2> QED  BY <1>2, <2>1, <2>2, TakeType
<1>4. w \in Seq(Bytes)
  <2> HIDE DEF n
  <2>1. ASSUME NEW i \in 1 .. n  PROVE content[input[i]] \in Bytes
    <3>1. i \in 1 .. Len(input)  BY <1>1, <1>2
    <3>2. input[i] \in 1 .. Len(content)  BY <1>2, <3>1, ElementOfSeq
    <3> QED  BY <1>2, <3>2, ElementOfSeq
  <2>2. b \in Seq(Bytes)  BY <1>1, <2>1
  <2> QED  BY <1>2, <2>2, OrderedType
<1>5. accepted' = Append(accepted, w)  BY DEF ReadValue
<1>6. /\ accepted \in Seq(Seq(Bytes)) /\ Len(accepted) \in Nat
      /\ written \in Nat /\ Len(accepted) < written
  <2>1. Len(input) > 0  BY <1>1, <1>2
  <2> QED  BY <2>1, WrittenFirst, ScriptAssumption DEF LinkTypeOK
<1>7. reads' \in Nat  BY DEF ReadValue, LinkTypeOK
<1> HIDE DEF n, b, w
<1>8. accepted' \in Seq(Seq(Bytes)) /\ Len(accepted') <= written
  BY <1>4, <1>5, <1>6
<1>9. UNCHANGED <<arrived, writer, reader, written, line, content, torn>>
  BY DEF ReadValue, Read
<1> QED  BY <1>3, <1>7, <1>8, <1>9 DEF LinkTypeOK

-----------------------------------------------------------------------------
(***************************************************************************)
(* What each action does to the bytes yet to be taken.                     *)
(***************************************************************************)
LEMMA FlowGrows ==
    ASSUME LinkTypeOK, WriteValue
    PROVE  LET w == Wire(written + 1)
           IN  /\ Len(Flow') = Len(Flow) + Len(w)
               /\ \A i \in 1 .. Len(Flow) : Flow'[i] = Flow[i]
               /\ \A j \in 1 .. Len(w) : Flow'[Len(Flow) + j] = w[j]
<1> DEFINE w == Wire(written + 1)
           m == Len(input)
<1>1. /\ w \in Seq(Bytes) /\ line' = line \o w /\ LinkTypeOK'
      /\ line \in Seq(Bytes) /\ m \in Nat
  BY WriteType DEF LinkTypeOK
<1>2. UNCHANGED <<input, content>>  BY DEF WriteValue, vars
<1> HIDE DEF w
<1>3. /\ Len(line') = Len(line) + Len(w) /\ Len(line) \in Nat /\ Len(w) \in Nat
      /\ \A i \in 1 .. Len(line) : line'[i] = line[i]
      /\ \A j \in 1 .. Len(w) : line'[j + Len(line)] = w[j]
  <2>1. line \in Seq(Bytes) /\ w \in Seq(Bytes) /\ line' = line \o w  BY <1>1
  <2> QED  BY <2>1, JoinType
<1>4. /\ Len(Flow) = m + Len(line)
      /\ \A i \in 1 .. m : Flow[i] = content[input[i]]
      /\ \A i \in 1 .. Len(line) : Flow[i + m] = line[i]
  BY FlowType
<1>5. /\ Len(Flow') = m + Len(line')
      /\ \A i \in 1 .. m : Flow'[i] = content[input[i]]
      /\ \A i \in 1 .. Len(line') : Flow'[i + m] = line'[i]
  BY <1>1, <1>2, NextFlowType
<1> HIDE DEF m
<1>6. Len(Flow') = Len(Flow) + Len(w)  BY <1>1, <1>3, <1>4, <1>5
<1>7. ASSUME NEW i \in 1 .. Len(Flow)  PROVE Flow'[i] = Flow[i]
  <2>1. CASE i <= m  BY <1>1, <1>4, <1>5, <2>1
  <2>2. CASE i > m
    <3> DEFINE j == i - m
    <3>1. j \in 1 .. Len(line) /\ j \in 1 .. Len(line') /\ i = j + m
      BY <1>1, <1>3, <1>4, <2>2
    <3> HIDE DEF j
    <3> QED  BY <1>3, <1>4, <1>5, <3>1
  <2> QED  BY <1>1, <2>1, <2>2
<1>8. ASSUME NEW j \in 1 .. Len(w)  PROVE Flow'[Len(Flow) + j] = w[j]
  <2> DEFINE i == j + Len(line)
  <2>1. i \in 1 .. Len(line') /\ Len(Flow) + j = i + m  BY <1>1, <1>3, <1>4
  <2>2. line'[i] = w[j]  BY <1>3
  <2> HIDE DEF i
  <2> QED  BY <1>5, <2>1, <2>2
<1> QED  BY <1>6, <1>7, <1>8 DEF w

LEMMA FlowKept ==
    ASSUME LinkTypeOK, Receive
    PROVE  /\ Len(Flow') = Len(Flow)
           /\ \A i \in 1 .. Len(Flow) : Flow'[i] = Flow[i]
<1> DEFINE m == Len(input)
<1>1. /\ line \in Seq(Bytes) /\ line # << >> /\ m \in Nat /\ LinkTypeOK'
      /\ input \in Seq(1 .. arrived) /\ arrived \in Nat
      /\ content \in Seq(Bytes) /\ Len(content) = arrived
  BY ReceiveType, ScriptAssumption DEF LinkTypeOK, Receive
<1>2. /\ line' = Tail(line) /\ content' = Append(content, Head(line))
      /\ input' = Append(input, arrived + 1)
  BY DEF Receive, Arrive
<1>3. /\ Head(line) \in Bytes /\ Head(line) = line[1] /\ Len(line) > 0 /\ Len(line) \in Nat
      /\ Len(line') = Len(line) - 1
      /\ \A i \in 1 .. Len(line) - 1 : line'[i] = line[i + 1]
  <2>1. line \in Seq(Bytes) /\ line # << >>  BY <1>1
  <2> QED  BY <1>2, <2>1, HeadType
<1>4. /\ Len(input') = m + 1
      /\ \A i \in 1 .. m : input'[i] = input[i]
      /\ input'[m + 1] = arrived + 1
  BY <1>1, <1>2
<1>5. /\ \A i \in 1 .. arrived : content'[i] = content[i]
      /\ content'[arrived + 1] = line[1]
  BY <1>1, <1>2, <1>3
<1>6. /\ Len(Flow) = m + Len(line)
      /\ \A i \in 1 .. m : Flow[i] = content[input[i]]
      /\ \A i \in 1 .. Len(line) : Flow[i + m] = line[i]
  BY FlowType
<1>7. /\ Len(Flow') = (m + 1) + Len(line')
      /\ \A i \in 1 .. m + 1 : Flow'[i] = content'[input'[i]]
      /\ \A i \in 1 .. Len(line') : Flow'[i + (m + 1)] = line'[i]
  BY <1>1, <1>4, NextFlowType
<1>8. \A i \in 1 .. m : input[i] \in 1 .. arrived  BY <1>1, ElementOfSeq
<1> HIDE DEF m
<1>9. Len(Flow') = Len(Flow)  BY <1>1, <1>3, <1>6, <1>7
<1>10. ASSUME NEW i \in 1 .. Len(Flow)  PROVE Flow'[i] = Flow[i]
  <2>1. CASE i <= m
    <3>1. i \in 1 .. m /\ i \in 1 .. m + 1  BY <1>1, <2>1
    <3> QED  BY <1>4, <1>5, <1>6, <1>7, <1>8, <3>1
  <2>2. CASE i = m + 1
    <3>1. Flow'[i] = line[1]  BY <1>1, <1>4, <1>5, <1>7, <2>2
    <3>2. 1 \in 1 .. Len(line) /\ i = 1 + m  BY <1>1, <1>3, <2>2
    <3> QED  BY <1>6, <3>1, <3>2
  <2>3. CASE i > m + 1
    <3> DEFINE j == i - (m + 1)
    <3>1. /\ j \in 1 .. Len(line') /\ j + 1 \in 1 .. Len(line)
          /\ i = j + (m + 1) /\ i = (j + 1) + m /\ j \in 1 .. Len(line) - 1
      BY <1>1, <1>3, <1>6, <2>3
    <3> HIDE DEF j
    <3>2. Flow'[i] = line'[j]  BY <1>7, <3>1
    <3>3. Flow[i] = line[j + 1]  BY <1>6, <3>1
    <3> QED  BY <1>3, <3>1, <3>2, <3>3
  <2> QED  BY <1>1, <1>6, <2>1, <2>2, <2>3
<1> QED  BY <1>9, <1>10

LEMMA FlowTaken ==
    ASSUME LinkTypeOK, LinkTypeOK', NEW n, NEW k \in 0 .. Len(input), Read(n, k),
           UNCHANGED <<content, line>>
    PROVE  /\ Len(Flow') = Len(Flow) - k
           /\ \A i \in 1 .. Len(Flow) - k : Flow'[i] = Flow[i + k]
<1> DEFINE m == Len(input)
<1>1. /\ input \in Seq(1 .. arrived) /\ line \in Seq(Bytes)
      /\ m \in Nat /\ Len(line) \in Nat /\ k \in 0 .. m
  BY DEF LinkTypeOK
<1>2. /\ Len(input') = m - k
      /\ \A i \in 1 .. m - k : input'[i] = input[i + k]
  <2>1. input' = SubSeq(input, k + 1, Len(input))  BY DEF Read
  <2> QED  BY <1>1, <2>1, TakeType
<1>3. /\ Len(Flow) = m + Len(line)
      /\ \A i \in 1 .. m : Flow[i] = content[input[i]]
      /\ \A i \in 1 .. Len(line) : Flow[i + m] = line[i]
  BY FlowType
<1>4. /\ Len(Flow') = (m - k) + Len(line)
      /\ \A i \in 1 .. m - k : Flow'[i] = content[input'[i]]
      /\ \A i \in 1 .. Len(line) : Flow'[i + (m - k)] = line[i]
  BY <1>2, NextFlowType
<1> HIDE DEF m
<1>5. Len(Flow') = Len(Flow) - k  BY <1>1, <1>3, <1>4
<1>6. ASSUME NEW i \in 1 .. Len(Flow) - k  PROVE Flow'[i] = Flow[i + k]
  <2>1. CASE i <= m - k
    <3>1. i \in 1 .. m - k /\ i + k \in 1 .. m  BY <1>1, <2>1
    <3> QED  BY <1>2, <1>3, <1>4, <3>1
  <2>2. CASE i > m - k
    <3> DEFINE j == i - (m - k)
    <3>1. j \in 1 .. Len(line) /\ i = j + (m - k) /\ i + k = j + m
      BY <1>1, <1>3, <2>2
    <3> HIDE DEF j
    <3> QED  BY <1>3, <1>4, <3>1
  <2> QED  BY <1>1, <2>1, <2>2
<1> QED  BY <1>5, <1>6

-----------------------------------------------------------------------------
(***************************************************************************)
(* The offsets stay right: one step per action.                            *)
(***************************************************************************)
LEMMA OffsetType ==
    ASSUME LinkTypeOK, NEW at \in Offsets,
           NEW v \in Len(accepted) + 1 .. written + 1
    PROVE  v \in 1 .. Len(Script) + 1 /\ at[v] \in Int
<1>1. /\ Len(accepted) \in Nat /\ written \in 0 .. Len(Script) /\ Len(Script) \in Nat
  BY ScriptAssumption DEF LinkTypeOK
<1>2. v \in 1 .. Len(Script) + 1  BY <1>1
<1> QED  BY <1>2 DEF Offsets

LEMMA FlowInit == LinkInit => FlowInv
<1> SUFFICES ASSUME LinkInit  PROVE FlowInv
  OBVIOUS
<1> DEFINE at == [v \in 1 .. Len(Script) + 1 |-> 0]
<1>1. /\ written = 0 /\ accepted = << >> /\ Len(accepted) = 0
      /\ input = << >> /\ line = << >>
  BY DEF LinkInit, Init
<1>2. Len(Flow) = 0
  BY <1>1, TypeInit, FlowType
<1>3. at \in Offsets  BY DEF Offsets
<1>4. at[1] = 0  BY ScriptAssumption
<1> HIDE DEF at
<1>5. Laid(at) /\ Intact(at)  BY <1>1, <1>2, <1>4 DEF Laid, Intact
<1>6. Ahead(at)  BY <1>1, <1>2 DEF Ahead, LinkInit
<1> QED  BY <1>3, <1>5, <1>6 DEF FlowInv

LEMMA FlowWritten ==
    ASSUME LinkTypeOK, FlowInv, WriteValue
    PROVE  FlowInv'
<1>1. PICK at \in Offsets : Laid(at) /\ (~torn => Intact(at)) /\ Ahead(at)
  BY DEF FlowInv
<1>a. PICK a : a = Len(accepted) + 1  OBVIOUS
<1>w. PICK w : w = written + 1  OBVIOUS
<1>n. PICK n : n = Script[w].size  OBVIOUS
<1>t. PICK to : to = [at EXCEPT ![w + 1] = at[w] + n]  OBVIOUS
<1>2. /\ w \in 1 .. Len(Script) /\ Len(Wire(w)) = n /\ Wire(w) \in Seq(Bytes)
      /\ n \in Nat /\ n > 0
  BY WriteType, ScriptType, <1>w, <1>n
<1>3. /\ a \in Nat /\ a > 0 /\ a <= w /\ w \in Nat /\ written \in Nat
      /\ Len(Script) \in Nat
  BY <1>a, <1>w, ScriptAssumption DEF LinkTypeOK
<1>4. written' = w /\ UNCHANGED <<accepted, torn, writer>>
  BY <1>w DEF WriteValue
<1>5. \A v \in a .. w : v \in 1 .. Len(Script) + 1 /\ at[v] \in Int
  BY OffsetType, <1>a, <1>w
<1>6. at[w] \in Int /\ w + 1 \in 1 .. Len(Script) + 1  BY <1>2, <1>3, <1>5
<1>7. /\ to \in Offsets
      /\ to[w + 1] = at[w] + n
      /\ \A v \in a .. w : to[v] = at[v]
  BY <1>1, <1>2, <1>3, <1>5, <1>6, <1>t DEF Offsets
<1>8. /\ Len(Flow') = Len(Flow) + n
      /\ \A i \in 1 .. Len(Flow) : Flow'[i] = Flow[i]
      /\ \A j \in 1 .. n : Flow'[Len(Flow) + j] = Wire(w)[j]
  BY <1>2, <1>w, FlowGrows
<1>9. Len(Flow) \in Nat  BY FlowType
<1>10. /\ at[a] = 0
       /\ \A v \in a .. written : at[v + 1] = at[v] + Script[v].size
       /\ \A u, v \in a .. w : u < v => at[u] + Script[u].size <= at[v]
       /\ Len(Flow) <= at[w]
  BY <1>1, <1>a, <1>w DEF Laid
<1>11. \A v \in a .. w : Wire(v)' = Wire(v)
  BY <1>4 DEF Wire
<1>12. \A v \in a .. w : Script[v].size \in Nat
  BY <1>2, <1>3, ScriptType
<1>13. Laid(to)'
  <2>1. to[a] = 0  BY <1>3, <1>7, <1>10
  <2>2. ASSUME NEW v \in a .. w  PROVE to[v + 1] = to[v] + Script[v].size
    <3>1. CASE v = w  BY <1>3, <1>7, <1>n, <3>1
    <3>2. CASE v # w
      <4>1. v \in a .. written /\ v + 1 \in a .. w
        BY <1>3, <1>w, <3>2
      <4> QED  BY <1>7, <1>10, <4>1
    <3> QED  BY <3>1, <3>2
  <2>3. ASSUME NEW u \in a .. w + 1, NEW v \in a .. w + 1, u < v
        PROVE  to[u] + Script[u].size <= to[v]
    <3>1. u \in a .. w  BY <1>3, <2>3
    <3>2. CASE v = w + 1
      <4>1. CASE u = w
        <5>1. to[u] = at[w] /\ to[v] = at[w] + Script[u].size
          BY <1>3, <1>7, <1>n, <3>1, <3>2, <4>1
        <5>2. Script[u].size \in Nat  BY <1>12, <3>1
        <5> QED  BY <1>6, <5>1, <5>2
      <4>2. CASE u # w
        <5>1. w \in a .. w /\ u < w  BY <1>3, <3>1, <4>2
        <5>2. at[u] + Script[u].size <= at[w]  BY <1>10, <3>1, <5>1
        <5>3. at[u] \in Int /\ Script[u].size \in Nat  BY <1>5, <1>12, <3>1
        <5> QED  BY <1>2, <1>6, <1>7, <3>1, <3>2, <5>2, <5>3
      <4> QED  BY <4>1, <4>2
    <3>3. CASE v # w + 1
      <4>1. v \in a .. w  BY <1>3, <3>3
      <4> QED  BY <1>7, <1>10, <2>3, <3>1, <4>1
    <3> QED  BY <3>2, <3>3
  <2>4. Len(Flow') <= to[w + 1]
    BY <1>2, <1>6, <1>7, <1>8, <1>9, <1>10
  <2>5. Len(accepted') + 1 = a /\ written' = w /\ written' + 1 = w + 1
    BY <1>4, <1>a
  <2> QED  BY <2>1, <2>2, <2>3, <2>4, <2>5 DEF Laid
<1>14. ASSUME ~torn'  PROVE Intact(to)'
  <2>1. /\ Len(Flow) = at[w]
        /\ \A v \in a .. written : \A j \in 1 .. Script[v].size :
               Flow[at[v] + j] = Wire(v)[j]
    BY <1>1, <1>4, <1>14, <1>a, <1>w DEF Intact
  <2>2. Len(Flow') = to[w + 1]  BY <1>7, <1>8, <2>1
  <2>3. ASSUME NEW v \in a .. w, NEW j \in 1 .. Script[v].size
        PROVE  Flow'[to[v] + j] = Wire(v)[j]
    <3>1. CASE v = w
      <4>1. j \in 1 .. n  BY <3>1, <1>n
      <4>2. to[v] = Len(Flow)  BY <1>7, <2>1, <3>1
      <4> QED  BY <1>8, <3>1, <4>1, <4>2
    <3>2. CASE v # w
      <4>1. v \in a .. written /\ w \in a .. w /\ v < w  BY <1>3, <1>w, <3>2
      <4>2. at[v] + Script[v].size <= at[w] /\ at[v] >= 0
        <5>1. at[v] + Script[v].size <= at[w]  BY <1>10, <4>1
        <5>2. CASE v = a  BY <1>10, <5>1, <5>2
        <5>3. CASE v # a
          <6>1. a \in a .. w /\ a < v  BY <1>3, <5>3
          <6>2. at[a] + Script[a].size <= at[v]  BY <1>10, <6>1
          <6> QED  BY <1>5, <1>10, <1>12, <5>1, <6>1, <6>2
        <5> QED  BY <5>2, <5>3
      <4>3. at[v] + j \in 1 .. Len(Flow)
        BY <1>5, <1>9, <1>12, <2>1, <4>2
      <4>4. Flow[at[v] + j] = Wire(v)[j]  BY <2>1, <4>1
      <4> QED  BY <1>7, <1>8, <4>3, <4>4
    <3> QED  BY <3>1, <3>2
  <2>4. Len(accepted') + 1 = a /\ written' = w /\ written' + 1 = w + 1
    BY <1>4, <1>a
  <2> QED  BY <1>11, <2>2, <2>3, <2>4 DEF Intact
<1>15. Ahead(to)'
  <2>1. /\ torn => Len(Flow) < at[w]
        /\ \A v \in a .. written : \A i \in 1 .. Len(Flow) :
               i > at[v] => Flow[i][1] >= v
    BY <1>1, <1>a, <1>w DEF Ahead
  <2>2. torn' => Len(Flow') < to[w + 1]
    BY <1>2, <1>4, <1>6, <1>7, <1>8, <1>9, <2>1
  <2>3. ASSUME NEW v \in a .. w, NEW i \in 1 .. Len(Flow'), i > to[v]
        PROVE  Flow'[i][1] >= v
    <3>1. v \in Nat /\ v <= w /\ to[v] = at[v]  BY <1>3, <1>7
    <3>2. CASE i <= Len(Flow)
      <4>1. i \in 1 .. Len(Flow)  BY <1>9, <3>2
      <4>2. v # w
        <5>1. at[w] \in Int /\ Len(Flow) <= at[w]  BY <1>6, <1>10
        <5> QED  BY <1>9, <2>3, <3>1, <4>1, <5>1
      <4>3. v \in a .. written  BY <1>3, <1>w, <3>1, <4>2
      <4> QED  BY <1>8, <2>1, <2>3, <3>1, <4>1, <4>3
    <3>3. CASE i > Len(Flow)
      <4>j. PICK j : j = i - Len(Flow)  OBVIOUS
      <4>1. j \in 1 .. n /\ i = Len(Flow) + j  BY <1>2, <1>8, <1>9, <3>3, <4>j
      <4>2. Flow'[i] = Wire(w)[j]  BY <1>8, <4>1
      <4>3. Wire(w)[j][1] = w
        BY <1>2, <1>n, <4>1, WireValue DEF LinkTypeOK
      <4> QED  BY <1>3, <3>1, <4>2, <4>3
    <3> QED  BY <1>9, <3>2, <3>3
  <2>4. Len(accepted') + 1 = a /\ written' = w /\ written' + 1 = w + 1
    BY <1>4, <1>a
  <2> QED  BY <2>2, <2>3, <2>4 DEF Ahead
<1> QED  BY <1>7, <1>13, <1>14, <1>15 DEF FlowInv

(***************************************************************************)
(* Bytes that come in, or are lost, do not move the offsets.               *)
(***************************************************************************)
LEMMA FlowStays ==
    ASSUME LinkTypeOK, FlowInv, UNCHANGED <<written, accepted, writer>>,
           Len(Flow') \in Nat, Len(Flow') <= Len(Flow),
           ~torn' => /\ ~torn
                     /\ Len(Flow') = Len(Flow)
                     /\ \A i \in 1 .. Len(Flow) : Flow'[i] = Flow[i],
           torn' => torn \/ Len(Flow') < Len(Flow),
           \A i \in 1 .. Len(Flow') : \E j \in i .. Len(Flow) : Flow'[i] = Flow[j]
    PROVE  FlowInv'
<1>1. PICK at \in Offsets : Laid(at) /\ (~torn => Intact(at)) /\ Ahead(at)
  BY DEF FlowInv
<1>a. PICK a : a = Len(accepted) + 1  OBVIOUS
<1>w. PICK w : w = written + 1  OBVIOUS
<1>2. /\ a \in Nat /\ a > 0 /\ w \in Nat /\ written \in Nat /\ Len(Flow) \in Nat
  BY <1>a, <1>w, ScriptAssumption, FlowType DEF LinkTypeOK
<1>3. \A v \in a .. w : at[v] \in Int
  BY <1>a, <1>w, OffsetType
<1>4. a <= w  BY <1>a, <1>w, ScriptAssumption DEF LinkTypeOK
<1>5. /\ at[a] = 0
      /\ \A v \in a .. written : at[v + 1] = at[v] + Script[v].size
      /\ \A u, v \in a .. w : u < v => at[u] + Script[u].size <= at[v]
      /\ Len(Flow) <= at[w]
  BY <1>1, <1>a, <1>w DEF Laid
<1>6. Len(Flow') <= at[w]
  <2>1. at[w] \in Int  BY <1>2, <1>3, <1>4
  <2> QED  BY <1>2, <1>5, <2>1
<1>7. Len(accepted') + 1 = a /\ written' + 1 = w /\ written' = written
  BY <1>a, <1>w
<1>8. Laid(at)'  BY <1>5, <1>6, <1>7 DEF Laid
<1>9. ASSUME ~torn'  PROVE Intact(at)'
  <2>1. /\ Len(Flow) = at[w]
        /\ \A v \in a .. written : \A j \in 1 .. Script[v].size :
               Flow[at[v] + j] = Wire(v)[j]
    BY <1>1, <1>9, <1>a, <1>w DEF Intact
  <2>2. Len(Flow') = at[w]  BY <1>9, <2>1
  <2>3. ASSUME NEW v \in a .. written, NEW j \in 1 .. Script[v].size
        PROVE  Flow'[at[v] + j] = Wire(v)[j]
    <3>1. at[v] + j \in 1 .. Len(Flow)
      <4>1. v \in a .. w /\ v < w /\ w \in a .. w /\ v \in 1 .. Len(Script)
        BY <1>2, <1>4, <1>w, <1>a, ScriptAssumption DEF LinkTypeOK
      <4>2. Script[v].size \in Nat  BY <4>1, ScriptType
      <4>3. at[v] + Script[v].size <= at[w]  BY <1>5, <4>1
      <4>4. at[v] >= 0
        <5>1. CASE v = a  BY <1>5, <5>1
        <5>2. CASE v # a
          <6>1. a \in a .. w /\ a < v /\ a \in 1 .. Len(Script)
            BY <1>2, <1>4, <4>1, <5>2
          <6>2. at[a] + Script[a].size <= at[v] /\ Script[a].size \in Nat
            BY <1>5, <4>1, <6>1, ScriptType
          <6> QED  BY <1>3, <1>5, <4>1, <6>2
        <5> QED  BY <5>1, <5>2
      <4>5. at[v] \in Int  BY <1>3, <4>1
      <4> QED  BY <2>1, <4>2, <4>3, <4>4, <4>5
    <3>2. Flow[at[v] + j] = Wire(v)[j]  BY <2>1
    <3> QED  BY <1>9, <3>1, <3>2
  <2>4. \A v \in a .. written : Wire(v)' = Wire(v)  BY DEF Wire
  <2> QED  BY <1>7, <2>2, <2>3, <2>4 DEF Intact
<1>10. Ahead(at)'
  <2>1. /\ torn => Len(Flow) < at[w]
        /\ \A v \in a .. written : \A i \in 1 .. Len(Flow) :
               i > at[v] => Flow[i][1] >= v
    BY <1>1, <1>a, <1>w DEF Ahead
  <2>2. torn' => Len(Flow') < at[w]
    <3>1. at[w] \in Int  BY <1>2, <1>3, <1>4
    <3> QED  BY <1>2, <1>5, <2>1, <3>1
  <2>3. ASSUME NEW v \in a .. written, NEW i \in 1 .. Len(Flow'), i > at[v]
        PROVE  Flow'[i][1] >= v
    <3>1. PICK j \in i .. Len(Flow) : Flow'[i] = Flow[j]  OBVIOUS
    <3>2. v \in a .. w  BY <1>2, <1>w
    <3>3. at[v] \in Int  BY <1>3, <3>2
    <3>4. j \in 1 .. Len(Flow) /\ j > at[v]  BY <1>2, <2>3, <3>3
    <3> QED  BY <2>1, <3>1, <3>4
  <2> QED  BY <1>7, <2>2, <2>3 DEF Ahead
<1> QED  BY <1>1, <1>8, <1>9, <1>10 DEF FlowInv

LEMMA FlowReceived ==
    ASSUME LinkTypeOK, FlowInv, Receive
    PROVE  FlowInv'
<1>1. UNCHANGED <<written, accepted, writer, torn>>  BY DEF Receive
<1>2. Len(Flow) \in Nat  BY FlowType
<1>3. ASSUME NEW i \in 1 .. Len(Flow')
      PROVE  \E j \in i .. Len(Flow) : Flow'[i] = Flow[j]
  <2>1. Len(Flow') = Len(Flow) /\ Flow'[i] = Flow[i]  BY FlowKept
  <2>2. i \in i .. Len(Flow)  BY <1>2, <2>1
  <2> QED  BY <2>1, <2>2
<1>4. Len(Flow') = Len(Flow) /\ \A i \in 1 .. Len(Flow) : Flow'[i] = Flow[i]
  BY FlowKept
<1>5. /\ Len(Flow') \in Nat /\ Len(Flow') <= Len(Flow)
      /\ \A i \in 1 .. Len(Flow) : \E j \in i .. Len(Flow) : Flow'[i] = Flow[j]
  <2>n. PICK n : n = Len(Flow)  OBVIOUS
  <2>1. n \in Nat /\ Len(Flow') = n  BY <1>2, <1>4, <2>n
  <2>2. Len(Flow') \in Nat /\ Len(Flow') <= Len(Flow)  BY <2>1, <2>n
  <2>3. \A i \in 1 .. Len(Flow') : \E j \in i .. Len(Flow) : Flow'[i] = Flow[j]
    BY <1>3
  <2> QED  BY <2>1, <2>2, <2>3, <2>n
<1> QED  BY <1>1, <1>4, <1>5, FlowStays

LEMMA FlowOverrun ==
    ASSUME LinkTypeOK, FlowInv, Overrun
    PROVE  FlowInv'
<1>1. UNCHANGED <<written, accepted, writer, input, content>> /\ torn'
  BY DEF Overrun, vars
<1>m. PICK m : m = Len(input)  OBVIOUS
<1>2. /\ m \in Nat /\ line \in Seq(Bytes) /\ line # << >> /\ LinkTypeOK'
  BY <1>m, OverrunType DEF LinkTypeOK, Overrun
<1>3. /\ Len(line') = Len(line) - 1 /\ Len(line) \in Nat /\ Len(line) > 0
      /\ \A i \in 1 .. Len(line) - 1 : line'[i] = line[i + 1]
  BY <1>2, HeadType DEF Overrun
<1>4. /\ Len(Flow) = m + Len(line)
      /\ \A i \in 1 .. m : Flow[i] = content[input[i]]
      /\ \A i \in 1 .. Len(line) : Flow[i + m] = line[i]
  BY <1>m, FlowType
<1>5. /\ Len(Flow') = m + Len(line')
      /\ \A i \in 1 .. m : Flow'[i] = content[input[i]]
      /\ \A i \in 1 .. Len(line') : Flow'[i + m] = line'[i]
  BY <1>1, <1>2, <1>m, NextFlowType
<1>6. /\ Len(Flow') \in Nat /\ Len(Flow') <= Len(Flow) /\ Len(Flow') < Len(Flow)
  BY <1>2, <1>3, <1>4, <1>5
<1>7. ASSUME NEW i \in 1 .. Len(Flow')
      PROVE  \E j \in i .. Len(Flow) : Flow'[i] = Flow[j]
  <2>1. CASE i <= m
    <3>1. i \in 1 .. m /\ i \in i .. Len(Flow)  BY <1>2, <1>3, <1>4, <2>1
    <3> QED  BY <1>4, <1>5, <3>1
  <2>2. CASE i > m
    <3>k. PICK k : k = i - m  OBVIOUS
    <3>1. /\ k \in 1 .. Len(line') /\ k \in 1 .. Len(line) - 1
          /\ k + 1 \in 1 .. Len(line) /\ i = k + m
      BY <1>2, <1>3, <1>5, <2>2, <3>k
    <3>2. Flow'[i] = line[k + 1]  BY <1>3, <1>5, <3>1
    <3>3. Flow[(k + 1) + m] = line[k + 1]  BY <1>4, <3>1
    <3>4. (k + 1) + m \in i .. Len(Flow)  BY <1>2, <1>3, <1>4, <3>1
    <3> QED  BY <3>2, <3>3, <3>4
  <2> QED  BY <1>2, <2>1, <2>2
<1> QED  BY <1>1, <1>6, <1>7, FlowStays

LEMMA FlowShort ==
    ASSUME LinkTypeOK, FlowInv, NEW k \in 0 .. Len(input), ReadValueShort(k)
    PROVE  FlowInv'
<1>1. UNCHANGED <<written, accepted, writer, content, line>>
  BY DEF ReadValueShort
<1>2. /\ Len(Flow') = Len(Flow) - k
      /\ \A i \in 1 .. Len(Flow) - k : Flow'[i] = Flow[i + k]
  <2>1. Read(Awaited.size, k)  BY DEF ReadValueShort
  <2> QED  BY <1>1, <2>1, ShortType, FlowTaken
<1>3. Len(Flow) \in Nat /\ k \in Nat /\ Len(Flow) >= k
  <2>1. Len(input) \in Nat /\ Len(line) \in Nat  BY DEF LinkTypeOK
  <2> QED  BY <2>1, FlowType
<1>4. torn' <=> (torn \/ k > 0)  BY DEF ReadValueShort
<1>5. ASSUME ~torn'
      PROVE  /\ ~torn
             /\ Len(Flow') = Len(Flow)
             /\ \A i \in 1 .. Len(Flow) : Flow'[i] = Flow[i]
  <2>1. ~torn /\ k = 0  BY <1>3, <1>4, <1>5
  <2>2. Len(Flow) - k = Len(Flow) /\ \A i \in 1 .. Len(Flow) : i + k = i
    BY <1>3, <2>1
  <2> QED  BY <1>2, <2>1, <2>2
<1>6. Len(Flow') \in Nat /\ Len(Flow') <= Len(Flow)  BY <1>2, <1>3
<1>7. torn' => torn \/ Len(Flow') < Len(Flow)  BY <1>2, <1>3, <1>4
<1>8. ASSUME NEW i \in 1 .. Len(Flow')
      PROVE  \E j \in i .. Len(Flow) : Flow'[i] = Flow[j]
  <2>1. i \in 1 .. Len(Flow) - k /\ i + k \in i .. Len(Flow)  BY <1>2, <1>3
  <2> QED  BY <1>2, <2>1
<1> QED  BY <1>1, <1>5, <1>6, <1>7, <1>8, FlowStays

(***************************************************************************)
(* A value that is accepted was the first of them: the others move up.     *)
(***************************************************************************)
LEMMA FlowRead ==
    ASSUME LinkTypeOK, FlowInv, ReadValue
    PROVE  FlowInv'
<1>1. PICK at \in Offsets : Laid(at) /\ (~torn => Intact(at)) /\ Ahead(at)
  BY DEF FlowInv
<1>a. PICK a : a = Len(accepted) + 1  OBVIOUS
<1>w. PICK w : w = written + 1  OBVIOUS
<1>n. PICK n : n = Script[a].size  OBVIOUS
<1>t. PICK to : to = [v \in 1 .. Len(Script) + 1 |-> at[v] - n]  OBVIOUS
<1>2. /\ Len(input) \in Nat /\ n \in Nat /\ n > 0 /\ n \in 0 .. Len(input)
      /\ Read(n, n) /\ UNCHANGED <<written, torn, writer, content, line>>
  <2>1. Awaited.size = n  BY <1>a, <1>n DEF Awaited
  <2>2. Len(input) \in Nat  BY DEF LinkTypeOK
  <2> QED  BY <2>1, <2>2, AwaitedType DEF ReadValue
<1>3. Len(accepted') = a /\ Len(accepted) < written
  <2>1. Len(accepted) < written  BY <1>2, WrittenFirst
  <2>2. accepted \in Seq(Seq(Bytes))  BY DEF LinkTypeOK
  <2> QED  BY <1>a, <2>1, <2>2 DEF ReadValue
<1>4. /\ a \in Nat /\ a > 0 /\ w \in Nat /\ written \in Nat /\ a < w
      /\ written \in 0 .. Len(Script) /\ Len(Script) \in Nat
  BY <1>a, <1>w, <1>3, ScriptAssumption DEF LinkTypeOK
<1>5. /\ Len(Flow') = Len(Flow) - n /\ Len(Flow) \in Nat
      /\ \A i \in 1 .. Len(Flow) - n : Flow'[i] = Flow[i + n]
  <2>1. LinkTypeOK' /\ UNCHANGED <<content, line>>  BY <1>2, ReadType
  <2>2. n \in 0 .. Len(input) /\ Read(n, n)  BY <1>2
  <2>3. Len(Flow) \in Nat  BY FlowType
  <2> QED  BY <2>1, <2>2, <2>3, FlowTaken
<1>6. \A v \in a .. w : v \in 1 .. Len(Script) + 1 /\ at[v] \in Int
  BY <1>a, <1>w, OffsetType
<1>7. \A v \in a .. written : Script[v].size \in Nat
  BY <1>4, ScriptType
<1>8. /\ at[a] = 0
      /\ \A v \in a .. written : at[v + 1] = at[v] + Script[v].size
      /\ \A u, v \in a .. w : u < v => at[u] + Script[u].size <= at[v]
      /\ Len(Flow) <= at[w]
  BY <1>1, <1>a, <1>w DEF Laid
<1>9. to \in Offsets /\ \A v \in a .. w : to[v] = at[v] - n
  <2>1. \A v \in 1 .. Len(Script) + 1 : at[v] \in Int  BY <1>1 DEF Offsets
  <2> QED  BY <1>2, <1>6, <1>t, <2>1 DEF Offsets
<1>10. /\ Len(accepted') + 1 = a + 1 /\ written' + 1 = w /\ written' = written
  BY <1>2, <1>3, <1>w
<1>11. Laid(to)'
  <2>1. to[a + 1] = 0
    <3>1. a \in a .. written /\ a + 1 \in a .. w  BY <1>4, <1>w
    <3> QED  BY <1>2, <1>8, <1>9, <1>n, <3>1
  <2>2. ASSUME NEW v \in a + 1 .. written  PROVE to[v + 1] = to[v] + Script[v].size
    <3>1. v \in a .. written /\ v \in a .. w /\ v + 1 \in a .. w  BY <1>4, <1>w
    <3> QED  BY <1>2, <1>6, <1>7, <1>8, <1>9, <3>1
  <2>3. ASSUME NEW u \in a + 1 .. w, NEW v \in a + 1 .. w, u < v
        PROVE  to[u] + Script[u].size <= to[v]
    <3>1. u \in a .. w /\ v \in a .. w /\ u \in a .. written
      BY <1>4, <1>w, <2>3
    <3>2. at[u] + Script[u].size <= at[v] /\ Script[u].size \in Nat
          /\ at[u] \in Int /\ at[v] \in Int
      BY <1>6, <1>7, <1>8, <2>3, <3>1
    <3>3. to[u] = at[u] - n /\ to[v] = at[v] - n  BY <1>9, <3>1
    <3> QED  BY <1>2, <3>2, <3>3
  <2>4. Len(Flow') <= to[w]
    <3>1. w \in a .. w  BY <1>4
    <3> QED  BY <1>2, <1>5, <1>6, <1>8, <1>9, <3>1
  <2> QED  BY <1>10, <2>1, <2>2, <2>3, <2>4 DEF Laid
<1>12. ASSUME ~torn'  PROVE Intact(to)'
  <2>1. /\ Len(Flow) = at[w]
        /\ \A v \in a .. written : \A j \in 1 .. Script[v].size :
               Flow[at[v] + j] = Wire(v)[j]
    BY <1>1, <1>2, <1>12, <1>a, <1>w DEF Intact
  <2>2. Len(Flow') = to[w]
    <3>1. w \in a .. w  BY <1>4
    <3> QED  BY <1>5, <1>9, <2>1, <3>1
  <2>3. ASSUME NEW v \in a + 1 .. written, NEW j \in 1 .. Script[v].size
        PROVE  Flow'[to[v] + j] = Wire(v)[j]
    <3>1. /\ v \in a .. written /\ v \in a .. w /\ w \in a .. w /\ v < w
          /\ a \in a .. w /\ a < v
      BY <1>4, <1>w
    <3>2. /\ at[a] + Script[a].size <= at[v] /\ at[v] + Script[v].size <= at[w]
          /\ at[v] \in Int /\ Script[v].size \in Nat
      BY <1>6, <1>7, <1>8, <3>1
    <3>3. to[v] = at[v] - n /\ at[v] >= n  BY <1>2, <1>8, <1>9, <1>n, <3>1, <3>2
    <3>4. (to[v] + j) + n = at[v] + j  BY <1>2, <3>2, <3>3
    <3>5. to[v] + j \in 1 .. Len(Flow) - n
      <4>1. at[v] + Script[v].size <= Len(Flow) /\ Len(Flow) \in Nat
        BY <1>5, <2>1, <3>2
      <4>2. at[v] \in Int /\ Script[v].size \in Nat  BY <3>2
      <4>3. to[v] + j = at[v] - n + j  BY <3>3
      <4>4. at[v] - n + j \in 1 .. Len(Flow) - n
        BY <1>2, <3>3, <4>1, <4>2
      <4> QED  BY <4>3, <4>4
    <3>6. Flow'[to[v] + j] = Flow[at[v] + j]  BY <1>5, <3>4, <3>5
    <3> QED  BY <2>1, <3>1, <3>6
  <2>4. \A v \in a .. written : Wire(v)' = Wire(v)  BY <1>2 DEF Wire
  <2>5. \A v \in a + 1 .. written : v \in a .. written  BY <1>4
  <2> QED  BY <1>10, <2>2, <2>3, <2>4, <2>5 DEF Intact
<1>13. Ahead(to)'
  <2>1. /\ torn => Len(Flow) < at[w]
        /\ \A v \in a .. written : \A i \in 1 .. Len(Flow) :
               i > at[v] => Flow[i][1] >= v
    BY <1>1, <1>a, <1>w DEF Ahead
  <2>2. torn' => Len(Flow') < to[w]
    <3>1. w \in a .. w  BY <1>4
    <3> QED  BY <1>2, <1>5, <1>6, <1>9, <2>1, <3>1
  <2>3. ASSUME NEW v \in a + 1 .. written, NEW i \in 1 .. Len(Flow'), i > to[v]
        PROVE  Flow'[i][1] >= v
    <3>1. v \in a .. written /\ v \in a .. w  BY <1>4, <1>w
    <3>2. /\ i \in 1 .. Len(Flow) - n /\ i + n \in 1 .. Len(Flow)
      BY <1>2, <1>5
    <3>3. i + n > at[v]  BY <1>2, <1>6, <1>9, <2>3, <3>1, <3>2
    <3>4. Flow'[i] = Flow[i + n]  BY <1>5, <3>2
    <3> QED  BY <2>1, <3>1, <3>2, <3>3, <3>4
  <2> QED  BY <1>10, <2>2, <2>3 DEF Ahead
<1> QED  BY <1>9, <1>11, <1>12, <1>13 DEF FlowInv

(***************************************************************************)
(* As long as nothing is lost, the first bytes are those of the value that *)
(* is read next.                                                           *)
(***************************************************************************)
LEMMA FrontIsNext ==
    ASSUME LinkTypeOK, FlowInv, ReadValue, ~torn
    PROVE  [i \in 1 .. Awaited.size |-> content[input[i]]] = Wire(Len(accepted) + 1)
<1>1. PICK at \in Offsets : Laid(at) /\ Intact(at)  BY DEF FlowInv
<1>a. PICK a : a = Len(accepted) + 1  OBVIOUS
<1>n. PICK n : n = Awaited.size  OBVIOUS
<1>b. PICK b : b = [i \in 1 .. n |-> content[input[i]]]  OBVIOUS
<1>2. /\ n \in Nat /\ n > 0 /\ n <= Len(input) /\ Len(input) \in Nat
      /\ a \in 1 .. Len(Script) /\ n = Script[a].size
  <2>1. Len(input) \in Nat  BY DEF LinkTypeOK
  <2> QED  BY <1>a, <1>n, <2>1, AwaitedType DEF ReadValue, Awaited
<1>3. a \in a .. written /\ at[a] = 0
  <2>1. Len(accepted) < written  BY <1>2, WrittenFirst
  <2> QED  BY <1>1, <1>2, <1>a, <2>1, ScriptAssumption DEF LinkTypeOK, Laid
<1>4. \A j \in 1 .. n : Flow[at[a] + j] = Wire(a)[j]
  BY <1>1, <1>2, <1>3, <1>a DEF Intact
<1>5. Wire(a) \in Seq(Bytes) /\ Len(Wire(a)) = n
  <2>1. writer \in Peers /\ writer.host \in BOOLEAN  BY DEF LinkTypeOK, Peers
  <2>2. /\ Memory(a, writer.host) \in Seq(Bytes)
        /\ Len(Memory(a, writer.host)) = n
    BY <1>2, <2>1, MemoryType
  <2> QED  BY <2>1, <2>2, OrderedType DEF Wire
<1>6. ASSUME NEW j \in 1 .. n  PROVE b[j] = Wire(a)[j]
  <2>1. j \in 1 .. Len(input) /\ at[a] + j = j  BY <1>2, <1>3
  <2>2. Flow[j] = content[input[j]]  BY <2>1, FlowType
  <2> QED  BY <1>4, <1>b, <2>1, <2>2
<1>7. b \in Seq(Bytes) /\ Len(b) = n
  <2>1. ASSUME NEW j \in 1 .. n  PROVE content[input[j]] \in Bytes
    <3>1. j \in 1 .. Len(Wire(a))  BY <1>5
    <3>2. Wire(a)[j] \in Bytes  BY <1>5, <3>1, ElementOfSeq
    <3> QED  BY <1>6, <1>b, <3>2
  <2> QED  BY <1>2, <1>b, <2>1
<1>8. b = Wire(a)  BY <1>5, <1>6, <1>7, SeqEqual
<1> QED  BY <1>8, <1>a, <1>b, <1>n

(***************************************************************************)
(* Whatever was lost, the first bytes are of the value that is read next   *)
(* or of later ones.                                                       *)
(***************************************************************************)
LEMMA FrontIsForward ==
    ASSUME LinkTypeOK, FlowInv, ReadValue
    PROVE  LET b == [i \in 1 .. Awaited.size |-> content[input[i]]]
           IN  /\ b \in Seq(Bytes)
               /\ \A i \in 1 .. Len(b) : b[i][1] >= Len(accepted) + 1
<1>1. PICK at \in Offsets : Laid(at) /\ Ahead(at)  BY DEF FlowInv
<1>a. PICK a : a = Len(accepted) + 1  OBVIOUS
<1>n. PICK n : n = Awaited.size  OBVIOUS
<1>b. PICK b : b = [i \in 1 .. n |-> content[input[i]]]  OBVIOUS
<1>2. n \in Nat /\ n <= Len(input) /\ Len(input) \in Nat /\ Len(line) \in Nat
  <2>1. Len(input) \in Nat /\ Len(line) \in Nat  BY DEF LinkTypeOK
  <2> QED  BY <1>n, <2>1, AwaitedType DEF ReadValue
<1>3. a \in a .. written /\ at[a] = 0
  <2>1. n > 0  BY <1>n, AwaitedType DEF ReadValue
  <2>2. Len(accepted) < written  BY <1>2, <2>1, WrittenFirst
  <2> QED  BY <1>1, <1>a, <2>2, ScriptAssumption DEF LinkTypeOK, Laid
<1>4. \A i \in 1 .. Len(Flow) : i > at[a] => Flow[i][1] >= a
  BY <1>1, <1>3, <1>a DEF Ahead
<1>5. ASSUME NEW j \in 1 .. n  PROVE b[j] \in Bytes /\ b[j][1] >= a
  <2>1. j \in 1 .. Len(input) /\ j > at[a]  BY <1>2, <1>3
  <2>2. /\ Flow[j] = content[input[j]] /\ Flow \in Seq(Bytes)
        /\ Len(Flow) = Len(input) + Len(line)
    BY <2>1, FlowType
  <2>3. j \in 1 .. Len(Flow)  BY <1>2, <2>1, <2>2
  <2>4. Flow[j] \in Bytes  BY <2>2, <2>3, ElementOfSeq
  <2> QED  BY <1>4, <1>b, <2>1, <2>2, <2>3, <2>4
<1>6. b \in Seq(Bytes) /\ Len(b) = n  BY <1>2, <1>5, <1>b
<1> QED  BY <1>5, <1>6, <1>a, <1>b, <1>n

-----------------------------------------------------------------------------
(***************************************************************************)
(* The inductive invariant.                                                *)
(***************************************************************************)
LinkInv == LinkTypeOK /\ FlowInv

LEMMA LinkStep == LinkInv /\ [LinkNext]_allVars => LinkInv'
<1> SUFFICES ASSUME LinkTypeOK, FlowInv, [LinkNext]_allVars  PROVE LinkTypeOK' /\ FlowInv'
  BY DEF LinkInv
<1>1. CASE WriteValue  BY <1>1, WriteType, FlowWritten
<1>2. CASE Receive  BY <1>2, ReceiveType, FlowReceived
<1>3. CASE Overrun  BY <1>3, OverrunType, FlowOverrun
<1>4. CASE ReadValue  BY <1>4, ReadType, FlowRead
<1>5. ASSUME NEW k \in 0 .. Len(input), ReadValueShort(k)
      PROVE  LinkTypeOK' /\ FlowInv'
  BY <1>5, ShortType, FlowShort
<1>6. CASE UNCHANGED allVars
  <2>1. LinkTypeOK'  BY <1>6 DEF allVars, vars, linkVars, LinkTypeOK
  <2>2. Flow' = Flow  BY <1>6 DEF allVars, vars, linkVars, Flow, Ready
  <2>3. Len(Flow) \in Nat  BY FlowType
  <2>4. UNCHANGED <<written, accepted, writer, torn>>
    BY <1>6 DEF allVars, linkVars
  <2>5. ASSUME NEW i \in 1 .. Len(Flow')
        PROVE  \E j \in i .. Len(Flow) : Flow'[i] = Flow[j]
    <3>1. i \in i .. Len(Flow)  BY <2>2, <2>3
    <3> QED  BY <2>2, <3>1
  <2> QED  BY <2>1, <2>2, <2>3, <2>4, <2>5, FlowStays
<1> QED  BY <1>1, <1>2, <1>3, <1>4, <1>5, <1>6 DEF LinkNext

(***************************************************************************)
(* What is on the way from writeValue() to readValue() is, until something *)
(* is lost, the values that were written and not accepted, end to end.     *)
(***************************************************************************)
THEOREM LinkHolds == LinkSpec => []LinkInv
<1>1. LinkInit => LinkInv  BY TypeInit, FlowInit DEF LinkInv
<1> QED  BY <1>1, LinkStep, PTL DEF LinkSpec

(***************************************************************************)
(* Type correctness of readValue() and writeValue() over a line, and that  *)
(* no more values are accepted than were written.                          *)
(***************************************************************************)
THEOREM LinkTypeCorrect == LinkSpec => []LinkTypeOK
<1>1. LinkInv => LinkTypeOK  BY DEF LinkInv
<1> QED  BY <1>1, LinkHolds, PTL

(***************************************************************************)
(* readValue() gives the values in their order and as they were written,   *)
(* for every script of types, every pair of byte orders and every way the  *)
(* bytes come in, until a byte is lost or a read gives up half-way.        *)
(***************************************************************************)
THEOREM InStepHolds == LinkSpec => []InStep
<1>1. LinkInit => InStep
  <2>1. LinkInit => Len(accepted) = 0  BY DEF LinkInit
  <2> QED  BY <2>1 DEF InStep
<1>2. LinkInv /\ InStep /\ [LinkNext]_allVars => InStep'
  <2> SUFFICES ASSUME LinkTypeOK, FlowInv, InStep, [LinkNext]_allVars, ~torn'
               PROVE  \A v \in 1 .. Len(accepted') :
                          Agreed(v)' => accepted'[v] = Memory(v, reader'.host)
    BY DEF LinkInv, InStep
  <2>1. ASSUME ~torn, UNCHANGED <<writer, reader, accepted>>
        PROVE  \A v \in 1 .. Len(accepted') :
                   Agreed(v)' => accepted'[v] = Memory(v, reader'.host)
    BY <2>1 DEF InStep, Agreed
  <2>2. CASE WriteValue  BY <2>1, <2>2 DEF WriteValue
  <2>3. CASE Receive  BY <2>1, <2>3 DEF Receive
  <2>4. CASE Overrun  BY <2>4 DEF Overrun
  <2>5. ASSUME NEW k \in 0 .. Len(input), ReadValueShort(k)
        PROVE  \A v \in 1 .. Len(accepted') :
                   Agreed(v)' => accepted'[v] = Memory(v, reader'.host)
    BY <2>1, <2>5 DEF ReadValueShort
  <2>6. CASE ReadValue
    <3>a. PICK a : a = Len(accepted) + 1  OBVIOUS
    <3>x. PICK x : x = Ordered(reader, Script[a], Wire(a))  OBVIOUS
    <3>1. ~torn /\ UNCHANGED <<writer, reader>>  BY <2>6 DEF ReadValue
    <3>2. accepted \in Seq(Seq(Bytes)) /\ Len(accepted) \in Nat
      BY DEF LinkTypeOK
    <3>3. a \in 1 .. Len(Script)  BY <2>6, <3>a, AwaitedType DEF ReadValue
    <3>4. accepted' = Append(accepted, x)
      <4>1. [i \in 1 .. Awaited.size |-> content[input[i]]] = Wire(a)
        BY <2>6, <3>1, <3>a, FrontIsNext
      <4>2. Awaited = Script[a]  BY <3>a DEF Awaited
      <4> QED  BY <2>6, <3>x, <4>1, <4>2 DEF ReadValue
    <3>5. /\ Len(accepted') = a /\ accepted'[a] = x
          /\ \A v \in 1 .. Len(accepted) : accepted'[v] = accepted[v]
      BY <3>2, <3>4, <3>a
    <3>6. ASSUME NEW v \in 1 .. a, Agreed(v)'
          PROVE  accepted'[v] = Memory(v, reader.host)
      <4>1. Agreed(v)  BY <3>1, <3>6 DEF Agreed
      <4>2. CASE v = a
        <5>1. writer \in Peers /\ reader \in Peers  BY DEF LinkTypeOK
        <5> QED  BY <3>3, <3>5, <3>x, <4>1, <4>2, <5>1, RoundTrip
      <4>3. CASE v # a
        <5>1. v \in 1 .. Len(accepted)  BY <3>2, <3>a, <4>3
        <5> QED  BY <3>1, <3>5, <4>1, <5>1 DEF InStep
      <4> QED  BY <4>2, <4>3
    <3> QED  BY <3>1, <3>5, <3>6
  <2>7. CASE UNCHANGED allVars  BY <2>1, <2>7 DEF allVars, linkVars
  <2> QED  BY <2>2, <2>3, <2>4, <2>5, <2>6, <2>7 DEF LinkNext
<1> QED  BY <1>1, <1>2, LinkHolds, PTL DEF LinkSpec

(***************************************************************************)
(* After a lost byte, or a read that gave up half-way, the reader slips    *)
(* forward only: no value it accepts holds a byte of an earlier one, and   *)
(* at least one of the values written does not come out.                   *)
(***************************************************************************)
THEOREM SlipsForwardHolds == LinkSpec => []SlipsForward
<1> DEFINE Forward == \A v \in 1 .. Len(accepted) : \A i \in 1 .. Len(accepted[v]) :
                          accepted[v][i][1] >= v
<1>1. LinkInit => Forward
  <2>1. LinkInit => Len(accepted) = 0  BY DEF LinkInit
  <2> QED  BY <2>1
<1>2. LinkInv /\ Forward /\ [LinkNext]_allVars => Forward'
  <2> SUFFICES ASSUME LinkTypeOK, FlowInv, Forward, [LinkNext]_allVars
               PROVE  Forward'
    BY DEF LinkInv
  <2>1. CASE UNCHANGED accepted  BY <2>1
  <2>2. CASE ReadValue
    <3>a. PICK a : a = Len(accepted) + 1  OBVIOUS
    <3>b. PICK b : b = [i \in 1 .. Awaited.size |-> content[input[i]]]  OBVIOUS
    <3>x. PICK x : x = Ordered(reader, Awaited, b)  OBVIOUS
    <3>1. accepted' = Append(accepted, x)  BY <2>2, <3>b, <3>x DEF ReadValue
    <3>2. accepted \in Seq(Seq(Bytes)) /\ Len(accepted) \in Nat
      BY DEF LinkTypeOK
    <3>3. /\ Len(accepted') = a /\ accepted'[a] = x
          /\ \A v \in 1 .. Len(accepted) : accepted'[v] = accepted[v]
      BY <3>1, <3>2, <3>a
    <3>4. b \in Seq(Bytes) /\ \A i \in 1 .. Len(b) : b[i][1] >= a
      BY <2>2, <3>a, <3>b, FrontIsForward
    <3>5. \A i \in 1 .. Len(x) : x[i][1] >= a
      <4>1. x = b \/ x = Reverse(b)  BY <3>x DEF Ordered, Swapped
      <4>2. /\ Len(Reverse(b)) = Len(b) /\ Len(b) \in Nat
            /\ \A i \in 1 .. Len(b) : Reverse(b)[i] = b[Len(b) + 1 - i]
        BY <3>4, ReverseType
      <4>3. \A i \in 1 .. Len(b) : Len(b) + 1 - i \in 1 .. Len(b)  BY <4>2
      <4> QED  BY <3>4, <4>1, <4>2, <4>3
    <3>6. ASSUME NEW v \in 1 .. Len(accepted')
          PROVE  \A i \in 1 .. Len(accepted'[v]) : accepted'[v][i][1] >= v
      <4>1. CASE v = a  BY <3>3, <3>5, <4>1
      <4>2. CASE v # a
        <5>1. v \in 1 .. Len(accepted)  BY <3>2, <3>3, <3>a, <4>2
        <5> QED  BY <3>3, <5>1
      <4> QED  BY <4>1, <4>2
    <3> QED  BY <3>6
  <2>3. ReadValue \/ UNCHANGED accepted
    BY DEF LinkNext, WriteValue, Receive, Overrun, ReadValueShort, allVars, linkVars
  <2> QED  BY <2>1, <2>2, <2>3
<1>3. LinkInv => (torn => Len(accepted) < written)
  <2> SUFFICES ASSUME LinkTypeOK, FlowInv, torn  PROVE Len(accepted) < written
    BY DEF LinkInv
  <2>1. PICK at \in Offsets : Laid(at) /\ Ahead(at)  BY DEF FlowInv
  <2>2. at[Len(accepted) + 1] = 0 /\ Len(Flow) < at[written + 1]
    BY <2>1 DEF Laid, Ahead
  <2>3. Len(Flow) \in Nat  BY FlowType
  <2>4. Len(accepted) # written  BY <2>2, <2>3
  <2> QED  BY <2>4, ScriptAssumption DEF LinkTypeOK
<1>4. Forward /\ (torn => Len(accepted) < written) => SlipsForward
  BY DEF SlipsForward
<1> HIDE DEF Forward
<1> QED  BY <1>1, <1>2, <1>3, <1>4, LinkHolds, PTL DEF LinkSpec
=============================================================================
