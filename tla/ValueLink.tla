----------------------------- MODULE ValueLink -----------------------------
(***************************************************************************)
(* readValue() and writeValue() of RS485Component                          *)
(* (src/unit/rs485_component.hpp) at the two ends of a line.  The peers    *)
(* agree on the types of the values, one after the other, and nothing on   *)
(* the line says where a value begins.  The input of the reader is the     *)
(* ByteStream that its backend promises; its timeout may end any read      *)
(* early, and a full RX ring loses bytes.                                  *)
(***************************************************************************)
EXTENDS ByteStream, SequencesExt

CONSTANTS
    Script,    \* The types of the values, as [size, scalar], in their order.
    MaxReads   \* Calls of readValue(), a bound for model checking.

ASSUME ScriptAssumption ==
    /\ MaxRx \in Nat
    /\ MaxReads \in Nat
    /\ Script \in Seq([size : Nat \ {0}, scalar : BOOLEAN])

(***************************************************************************)
(* A peer is a host, little-endian or not, and the LittleEndian argument   *)
(* it gives to the templates.                                              *)
(***************************************************************************)
Peers == [host : BOOLEAN, le : BOOLEAN]

VARIABLES
    writer,    \* The peers, chosen once.
    reader,
    written,   \* How many values have been written.
    line,      \* The bytes on their way.
    content,   \* What each arrived byte was; a byte is <<value, significance>>.
    reads,     \* How often readValue() has returned.
    accepted,  \* What it gave where it reported success.
    torn       \* History: bytes were lost, or a read gave up half-way.

linkVars == <<writer, reader, written, line, content, reads, accepted, torn>>
allVars == <<vars, linkVars>>

LinkInit ==
    /\ Init
    /\ writer \in Peers
    /\ reader \in Peers
    /\ written = 0
    /\ line = << >>
    /\ content = << >>
    /\ reads = 0
    /\ accepted = << >>
    /\ torn = FALSE

(***************************************************************************)
(* A value in the memory of a host.                                        *)
(***************************************************************************)
Memory(v, host) ==
    LET n == Script[v].size
    IN  [i \in 1 .. n |-> <<v, IF host THEN i ELSE n + 1 - i>>]

(***************************************************************************)
(* The tag dispatch left out, so that aggregates are reversed as well: a   *)
(* mutant of Swapped.                                                      *)
(***************************************************************************)
SwappedAlways(type, bytes) == Reverse(bytes)

(***************************************************************************)
(* byteswap_if_needed(): integers, enums and floating-point values are     *)
(* reversed, aggregates stay as they are.                                  *)
(***************************************************************************)
Swapped(type, bytes) == IF type.scalar THEN Reverse(bytes) ELSE bytes

(***************************************************************************)
(* The argument by itself decides, as if every host were big-endian: a     *)
(* mutant of Ordered.                                                      *)
(***************************************************************************)
OrderedByArgument(peer, type, bytes) ==
    IF peer.le THEN Swapped(type, bytes) ELSE bytes

(***************************************************************************)
(* LittleEndian != m5::endian::little.                                     *)
(***************************************************************************)
Ordered(peer, type, bytes) ==
    IF peer.le # peer.host THEN Swapped(type, bytes) ELSE bytes

(***************************************************************************)
(* writeValue() that write_waiting() answers with sizeof(T).               *)
(***************************************************************************)
WriteValue ==
    /\ written < Len(Script)
    /\ written' = written + 1
    /\ line' = line \o Ordered(writer, Script[written'], Memory(written', writer.host))
    /\ UNCHANGED <<vars, writer, reader, content, reads, accepted, torn>>

(***************************************************************************)
(* A byte comes in, or finds the RX ring full.                             *)
(***************************************************************************)
Receive ==
    /\ line # << >>
    /\ Arrive
    /\ content' = Append(content, Head(line))
    /\ line' = Tail(line)
    /\ UNCHANGED <<writer, reader, written, reads, accepted, torn>>

Overrun ==
    /\ line # << >>
    /\ line' = Tail(line)
    /\ torn' = TRUE
    /\ UNCHANGED <<vars, writer, reader, written, content, reads, accepted>>

(***************************************************************************)
(* The type that readValue() is called for.                                *)
(***************************************************************************)
Awaited == Script[Len(accepted) + 1]

(***************************************************************************)
(* The number of bytes is not checked, so that a read that timed out is    *)
(* accepted with what it got: a mutant of ReadValueShort.                  *)
(***************************************************************************)
ReadValueShortAccepted(k) ==
    /\ Len(accepted) < Len(Script)
    /\ k < Awaited.size
    /\ Read(Awaited.size, k)
    /\ accepted' = Append(accepted, [i \in 1 .. k |-> content[input[i]]])
    /\ reads' = reads + 1
    /\ UNCHANGED <<writer, reader, written, line, content, torn>>

(***************************************************************************)
(* readValue() gets k bytes and no more in time.  It reports failure and   *)
(* T{}; the k bytes are gone.                                              *)
(***************************************************************************)
ReadValueShort(k) ==
    /\ Len(accepted) < Len(Script)
    /\ k < Awaited.size
    /\ Read(Awaited.size, k)
    /\ reads' = reads + 1
    /\ torn' = (torn \/ k > 0)
    /\ UNCHANGED <<writer, reader, written, line, content, accepted>>

(***************************************************************************)
(* readValue() gets all the bytes of its value.                            *)
(***************************************************************************)
ReadValue ==
    /\ Len(accepted) < Len(Script)
    /\ Awaited.size <= Len(input)
    /\ Read(Awaited.size, Awaited.size)
    /\ accepted' = Append(accepted,
           Ordered(reader, Awaited, [i \in 1 .. Awaited.size |-> content[input[i]]]))
    /\ reads' = reads + 1
    /\ UNCHANGED <<writer, reader, written, line, content, torn>>

LinkNext ==
    \/ WriteValue
    \/ Receive
    \/ Overrun
    \/ /\ reads < MaxReads
       /\ ReadValue \/ \E k \in 0 .. Len(input) : ReadValueShort(k)

LinkSpec == LinkInit /\ [][LinkNext]_allVars
-----------------------------------------------------------------------------
Bytes == (1 .. Len(Script)) \X Nat

LinkTypeOK ==
    /\ arrived \in 0 .. MaxRx
    /\ input \in Seq(1 .. arrived)
    /\ writer \in Peers
    /\ reader \in Peers
    /\ written \in 0 .. Len(Script)
    /\ line \in Seq(Bytes)
    /\ content \in Seq(Bytes) /\ Len(content) = arrived
    /\ reads \in Nat
    /\ accepted \in Seq(Seq(Bytes)) /\ Len(accepted) <= written
    /\ torn \in BOOLEAN

(***************************************************************************)
(* Whether the two ends mean the same bytes by a value: a scalar needs the *)
(* same LittleEndian argument, an aggregate hosts of the same order.       *)
(***************************************************************************)
Agreed(v) ==
    IF Script[v].scalar THEN writer.le = reader.le ELSE writer.host = reader.host

(***************************************************************************)
(* The values come out in their order and as they were written, whatever   *)
(* the byte orders of the hosts, as long as no byte was lost and no read   *)
(* gave up half-way.  A read that timed out with nothing may be repeated.  *)
(***************************************************************************)
InStep ==
    ~torn => \A v \in 1 .. Len(accepted) :
                 Agreed(v) => accepted[v] = Memory(v, reader.host)

(***************************************************************************)
(* What a lost byte, or a read that gave up half-way, does to the framing, *)
(* which nothing on the line restores: the reader only ever slips forward. *)
(* What it accepts as the v-th value may be made of later values, in part  *)
(* or as a whole, and never holds a byte of an earlier one; and from then  *)
(* on at least one of the values written does not come out, so a peer that *)
(* counts them finds out.                                                  *)
(***************************************************************************)
SlipsForward ==
    /\ \A v \in 1 .. Len(accepted) : \A i \in 1 .. Len(accepted[v]) :
           accepted[v][i][1] >= v
    /\ torn => Len(accepted) < written
=============================================================================
