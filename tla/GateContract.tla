---------------------------- MODULE GateContract ----------------------------
(***************************************************************************)
(* What the gate promises, without requests, tickets, clocks or rows: an   *)
(* outbound action is proposed, a person approves it, it begins, and it    *)
(* takes effect at most once.  It may be closed at any time before it      *)
(* took effect.  The outside world hears of it only while it is under way. *)
(***************************************************************************)
CONSTANT Actions

VARIABLES
  stage,  \* how far each action has come
  told    \* the actions the outside world has heard of

Stages == {"none", "proposed", "approved", "acting", "acted", "closed"}

Init ==
  /\ stage = [a \in Actions |-> "none"]
  /\ told = {}

Move(a, from, to) ==
  /\ stage[a] \in from
  /\ stage' = [stage EXCEPT ![a] = to]
  /\ UNCHANGED told

Propose(a) == Move(a, {"none"}, "proposed")
Approve(a) == Move(a, {"proposed"}, "approved")
Begin(a) == Move(a, {"approved"}, "acting")
Act(a) == Move(a, {"acting"}, "acted")
Close(a) == Move(a, {"proposed", "approved", "acting"}, "closed")

Tell(a) ==
  /\ stage[a] = "acting"
  /\ told' = told \cup {a}
  /\ UNCHANGED stage

Next ==
  \E a \in Actions :
    Propose(a) \/ Approve(a) \/ Begin(a) \/ Act(a) \/ Close(a) \/ Tell(a)

Spec == Init /\ [][Next]_<<stage, told>>

=============================================================================
