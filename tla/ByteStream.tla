----------------------------- MODULE ByteStream -----------------------------
(***************************************************************************)
(* What the read side of the Serial API promises (the Arduino Stream       *)
(* contract that rs485_idf_serial.hpp says it reproduces): the bytes that  *)
(* arrive are handed out once each, in the order they came; peek() shows   *)
(* the next one and removes nothing; a read comes up short only when       *)
(* nothing is left to read; bytes disappear unread only by a call that     *)
(* discards input.                                                         *)
(*                                                                         *)
(* A byte is named by its number of arrival.                               *)
(***************************************************************************)
EXTENDS Integers, Sequences

CONSTANTS
    ReadSizes, \* Lengths a caller may ask for, besides a single byte and none.
    MaxRx      \* Bytes the peer sends, a bound for model checking.

VARIABLES
    arrived,   \* How many bytes have come in.
    input,     \* The bytes not yet handed out, oldest first.
    got        \* [op, want, bytes]: the latest answer of the read side.

vars == <<arrived, input, got>>

Quiet == [op |-> "quiet", want |-> 0, bytes |-> << >>]
Discarded == [op |-> "discard", want |-> 0, bytes |-> << >>]

Init ==
    /\ arrived = 0
    /\ input = << >>
    /\ got = Quiet

Arrive ==
    /\ arrived < MaxRx
    /\ arrived' = arrived + 1
    /\ input' = Append(input, arrived + 1)
    /\ UNCHANGED got

Peek ==
    /\ got' = [op |-> "peek", want |-> 1,
               bytes |-> IF input = << >> THEN << >> ELSE <<Head(input)>>]
    /\ UNCHANGED <<arrived, input>>

(***************************************************************************)
(* A read of up to n bytes hands out the oldest k; k < n only if that is   *)
(* everything there is.                                                    *)
(***************************************************************************)
Read(n, k) ==
    /\ k <= n
    /\ k < n => k = Len(input)
    /\ got' = [op |-> "read", want |-> n, bytes |-> SubSeq(input, 1, k)]
    /\ input' = SubSeq(input, k + 1, Len(input))
    /\ UNCHANGED arrived

(***************************************************************************)
(* A call or an event that discards input keeps one stretch of it, often   *)
(* an empty one, in its order.                                             *)
(***************************************************************************)
Discard(i, j) ==
    /\ got' = Discarded
    /\ input' = SubSeq(input, i, j)
    /\ UNCHANGED arrived

(***************************************************************************)
(* Every other call.                                                       *)
(***************************************************************************)
Other ==
    /\ got' = Quiet
    /\ UNCHANGED <<arrived, input>>

Next ==
    \/ Arrive
    \/ Peek
    \/ \E n \in ReadSizes \cup {0, 1}, k \in 0 .. Len(input) : Read(n, k)
    \/ \E i \in 1 .. Len(input) + 1, j \in 0 .. Len(input) : Discard(i, j)
    \/ Other

Spec == Init /\ [][Next]_vars
=============================================================================
