---------------------------- MODULE MCValueLink ----------------------------
(***************************************************************************)
(* Values for the run of ValueLink: a scalar of two bytes, an aggregate of *)
(* two and another scalar, so that a read that is out of step finds enough *)
(* bytes, and one more read than there are values.                         *)
(***************************************************************************)
EXTENDS ValueLink

MCScript == <<[size |-> 2, scalar |-> TRUE], [size |-> 2, scalar |-> FALSE],
              [size |-> 3, scalar |-> TRUE]>>
MCMaxRx == 7
=============================================================================
