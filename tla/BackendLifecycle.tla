-------------------------- MODULE BackendLifecycle --------------------------
(***************************************************************************)
(* What RS485Component promises about the serial backends it is given      *)
(* (install_serial, the move members, SerialDeleter): a backend has one    *)
(* holder at a time, passes from holder to holder, is freed when its       *)
(* holder is given another one or dies, and is never seen again.           *)
(***************************************************************************)
CONSTANTS
    Objects,    \* Places a component may live in.
    Backends    \* Backends that make_serial() may build.

VARIABLE
    holder      \* holder[b]: the component that has b, "unborn" or "freed".

Init == holder = [b \in Backends |-> "unborn"]

(***************************************************************************)
(* What c held is freed, and the fate of every other backend is f's.       *)
(***************************************************************************)
FreeOf(c, b) == IF holder[b] = c THEN "freed" ELSE holder[b]

(* A backend that was just built is installed in c. *)
Install(c, n) ==
    /\ holder[n] = "unborn"
    /\ holder' = [b \in Backends |-> IF b = n THEN c ELSE FreeOf(c, b)]

(* d takes over what c held, and loses what it held itself. *)
Hand(c, d) ==
    /\ c # d
    /\ holder' = [b \in Backends |-> IF holder[b] = c THEN d ELSE FreeOf(d, b)]

(* c dies, and what it held with it. *)
Drop(c) == holder' = [b \in Backends |-> FreeOf(c, b)]

Next ==
    \/ \E c \in Objects, n \in Backends : Install(c, n)
    \/ \E c, d \in Objects : Hand(c, d)
    \/ \E c \in Objects : Drop(c)

Spec == Init /\ [][Next]_holder
=============================================================================
