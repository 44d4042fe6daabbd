------------------------------- MODULE MCPlans -------------------------------
(***************************************************************************)
(* Instances of Plans for TLC.  Transactions and creators are              *)
(* interchangeable; so are plans, but their permutations cost more than    *)
(* they save.                                                              *)
(***************************************************************************)
EXTENDS Plans, TLC

Symmetry == Permutations(Txns) \cup Permutations(Kols)

=============================================================================
