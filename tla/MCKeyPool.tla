------------------------------ MODULE MCKeyPool ------------------------------
(***************************************************************************)
(* Instances of KeyPool for TLC.  Transactions and references are          *)
(* interchangeable.                                                        *)
(***************************************************************************)
EXTENDS KeyPool, TLC

Symmetry == Permutations(Txns) \cup Permutations(KeyTxns) \cup Permutations(KeyRefs)

=============================================================================
