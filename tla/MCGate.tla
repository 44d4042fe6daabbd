------------------------------- MODULE MCGate -------------------------------
(***************************************************************************)
(* Instances of Gate for TLC.  No definition tells one request or one      *)
(* action from another, so both sets are symmetric.                        *)
(***************************************************************************)
EXTENDS Gate, TLC

Symmetry == Permutations(Requests) \cup Permutations(Actions)

=============================================================================
