------------------------------- MODULE MCDeal -------------------------------
(***************************************************************************)
(* Instances of Deal for TLC.  Transactions are interchangeable, and so    *)
(* are the kinds that only a person settles.                               *)
(***************************************************************************)
EXTENDS Deal, TLC

Symmetry == Permutations(Txns) \cup Permutations(Reviewed)

=============================================================================
