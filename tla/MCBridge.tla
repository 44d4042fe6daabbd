------------------------------- MODULE MCBridge -------------------------------
\* A small instance of Bridge.  The first launch's guest is honest or returns
\* another launch's receipt; the second's changes files besides the artifact, a
\* control file among them or not.
EXTENDS Bridge

CONSTANTS p1, p2, t1, t2, d1, d2

SomeVersions == {[task |-> t1, role |-> "generator", draft |-> 1],
                 [task |-> t1, role |-> "evaluator", draft |-> 2],
                 [task |-> t2, role |-> "evaluator", draft |-> 1]}
SomeBase == {d1}

Honest(p, d) == [artifact |-> d, changed |-> {},
                 receipt |-> [launch |-> p, digest |-> d, terminal |-> TRUE]]
SomeOuts ==
  [p \in {p1, p2} |->
     IF p = p1 THEN {Honest(p1, d1), Honest(p2, d1)}
     ELSE {[Honest(p2, d2) EXCEPT !.changed = {"source"}],
           [Honest(p2, d2) EXCEPT !.changed = {"source", "control"}]}]
===============================================================================
