-------------------------------- MODULE Plans --------------------------------
(***************************************************************************)
(* The plans of one project and the stage they open: buildMatchPlans and   *)
(* approvePlan of src/src/lib/match, advanceStage of src/src/lib/domain.   *)
(*                                                                         *)
(* Requests run at READ COMMITTED.  A statement works on the rows visible  *)
(* when it starts; it waits for a row another transaction has written, and *)
(* evaluates its WHERE again on the row it then finds.  A row written is   *)
(* locked until its transaction ends.  The approval route runs approvePlan *)
(* and advanceStage in one transaction; its writes become visible when it  *)
(* commits, and are kept in the transaction's locals until then.           *)
(*                                                                         *)
(* Left out: what is in a plan, and the candidates but for whether any is  *)
(* left to build from.                                                     *)
(***************************************************************************)
EXTENDS FiniteSets, Naturals

CONSTANTS
  Plans,      \* the MatchPlan rows that may ever exist
  Txns,       \* approvals and builds, each used once
  Kols,       \* the creators the project may make a deal with
  RoundSize,  \* how many plans a build creates (three in the code)
  NoPlan, NoTxn

ASSUME PlansAssumption ==
  /\ IsFiniteSet(Plans)
  /\ RoundSize \in Nat \ {0}
  /\ NoPlan \notin Plans
  /\ NoTxn \notin Txns

VARIABLES
  plan,   \* the MatchPlan table
  stage,  \* Project.cur and Project.maxReached
  goal,   \* Project.goal is set
  deals,  \* the deals of the project, by creator
  txn     \* the local state of every transaction

vars == <<plan, stage, goal, deals, txn>>

\* STAGES: brief, match, reach, delivery, insight.
Brief == 1
Match == 2
Reach == 3
Delivery == 4
Insight == 5
Stages == Brief..Insight

\* round: the build that created the row; by: the approval it records.
Plan ==
  [status : {"absent", "draft", "approved", "superseded"},
   round : Txns \cup {NoTxn}, by : Txns \cup {NoTxn}]
DealStatus == {"none", "open", "settled"}

Points == {"ready", "approve", "others", "guard", "commit", "build", "round", "over"}
\* own: the plan to approve; visible: the drafts its next statement sees;
\* holds: the rows it has written; cur and max: the project as it read it;
\* opens: whether the guard let it advance.
Txn ==
  [pc : Points, own : Plans \cup {NoPlan}, visible : SUBSET Plans,
   holds : SUBSET Plans, cur : Stages, max : Stages, goal : BOOLEAN, opens : BOOLEAN]

TypeOK ==
  /\ plan \in [Plans -> Plan]
  /\ \A p \in Plans :
       /\ plan[p].status = "absent" <=> plan[p].round = NoTxn
       /\ plan[p].status = "approved" <=> plan[p].by # NoTxn
  /\ stage \in [cur : Stages, max : Stages]
  /\ goal \in BOOLEAN
  /\ deals \in [Kols -> DealStatus]
  /\ txn \in [Txns -> Txn]

Fresh ==
  [pc |-> "ready", own |-> NoPlan, visible |-> {}, holds |-> {},
   cur |-> Brief, max |-> Brief, goal |-> FALSE, opens |-> FALSE]

Init ==
  /\ plan = [p \in Plans |-> [status |-> "absent", round |-> NoTxn, by |-> NoTxn]]
  /\ stage = [cur |-> Brief, max |-> Brief]
  /\ goal = FALSE
  /\ deals = [k \in Kols |-> "none"]
  /\ txn = [t \in Txns |-> Fresh]

-----------------------------------------------------------------------------
\* Helpers

In(status) == {p \in Plans : plan[p].status = status}
At(t, point) == txn[t].pc = point
End(t) == txn' = [txn EXCEPT ![t] = [Fresh EXCEPT !.pc = "over"]]
\* No other transaction has written any of these rows.
Free(t, rows) == \A s \in Txns \ {t} : txn[s].holds \cap rows = {}

\* Mutant: delivery opens without a deal.
OpensFreely(cur, g) ==
  CASE cur = Brief -> g
    [] cur \in {Match, Reach} -> TRUE
    [] cur = Delivery -> \A k \in Kols : deals[k] # "open"
    [] OTHER -> FALSE

\* transitionGuard with the next stage of canAdvance.  The plan just approved
\* is visible to its own transaction, so there always is an approved plan.
Opens(cur, g) ==
  CASE cur = Brief -> g
    [] cur = Match -> TRUE
    [] cur = Reach -> \E k \in Kols : deals[k] # "none"
    [] cur = Delivery -> \A k \in Kols : deals[k] # "open"
    [] OTHER -> FALSE

Raised(max, to) == IF to > max THEN to ELSE max

-----------------------------------------------------------------------------
\* approvePlan

\* Only a draft is approved; an approved plan answers already, without another
\* advance, and a superseded one 409.
ApproveRead(t, p) ==
  /\ At(t, "ready")
  /\ plan[p].status # "absent"
  /\ IF plan[p].status = "draft"
     THEN txn' = [txn EXCEPT ![t] = [@ EXCEPT !.pc = "approve", !.own = p]]
     ELSE End(t)
  /\ UNCHANGED <<plan, stage, goal, deals>>

\* The unconditional update of the plan; then the update of the other drafts
\* starts, on the rows visible now.
ApproveWrite(t) ==
  LET p == txn[t].own IN
  /\ At(t, "approve")
  /\ Free(t, {p})
  /\ txn' = [txn EXCEPT ![t] =
               [@ EXCEPT !.pc = "others", !.holds = {p}, !.visible = In("draft") \ {p}]]
  /\ UNCHANGED <<plan, stage, goal, deals>>

\* Mutant: rows another transaction has written are passed over.
ApproveOthersSkipLocked(t) ==
  /\ At(t, "others")
  /\ txn' = [txn EXCEPT ![t] =
               [@ EXCEPT !.pc = "guard",
                         !.holds = txn[t].holds \cup
                           {p \in txn[t].visible \cap In("draft") : Free(t, {p})},
                         !.cur = stage.cur, !.max = stage.max, !.goal = goal]]
  /\ UNCHANGED <<plan, stage, goal, deals>>

\* The other drafts, once they are free, are written if they are drafts still;
\* advanceStage then reads the project.
ApproveOthers(t) ==
  /\ At(t, "others")
  /\ Free(t, txn[t].visible)
  /\ txn' = [txn EXCEPT ![t] =
               [@ EXCEPT !.pc = "guard",
                         !.holds = txn[t].holds \cup (txn[t].visible \cap In("draft")),
                         !.cur = stage.cur, !.max = stage.max, !.goal = goal]]
  /\ UNCHANGED <<plan, stage, goal, deals>>

\* advanceStage reads the deals and asks canAdvance.
ApproveGuard(t) ==
  /\ At(t, "guard")
  /\ txn' = [txn EXCEPT ![t] =
               [@ EXCEPT !.pc = "commit",
                         !.opens = /\ txn[t].cur <= txn[t].max
                                   /\ Opens(txn[t].cur, txn[t].goal)]]
  /\ UNCHANGED <<plan, stage, goal, deals>>

\* The project is written from what was read; a refused advance leaves the
\* approval as it is.
ApproveCommit(t) ==
  LET to == txn[t].cur + 1 IN
  /\ At(t, "commit")
  /\ plan' = [p \in Plans |->
                IF p = txn[t].own THEN [plan[p] EXCEPT !.status = "approved", !.by = t]
                ELSE IF p \in txn[t].holds THEN [plan[p] EXCEPT !.status = "superseded"]
                ELSE plan[p]]
  /\ IF txn[t].opens
     THEN stage' = [cur |-> to, max |-> Raised(txn[t].max, to)]
     ELSE UNCHANGED stage
  /\ End(t)
  /\ UNCHANGED <<goal, deals>>

\* A deadlock victim, a timeout or a crash: the transaction leaves nothing.
Abort(t) ==
  /\ txn[t].pc \notin {"ready", "over"}
  /\ End(t)
  /\ UNCHANGED <<plan, stage, goal, deals>>

-----------------------------------------------------------------------------
\* buildMatchPlans: at any stage, from the refresh route; at match, from the
\* nightly routine; on a first visit to a project that has no plan

\* The candidates are read; without any, nothing is built.
BuildRead(t) ==
  /\ At(t, "ready")
  /\ \/ txn' = [txn EXCEPT ![t].pc = "build"]
     \/ End(t)
  /\ UNCHANGED <<plan, stage, goal, deals>>

\* The update of the old drafts starts, on the rows visible now.
BuildStart(t) ==
  /\ At(t, "build")
  /\ txn' = [txn EXCEPT ![t] = [@ EXCEPT !.pc = "round", !.visible = In("draft")]]
  /\ UNCHANGED <<plan, stage, goal, deals>>

Replace(t, old, new) ==
  plan' = [p \in Plans |->
             IF p \in new THEN [status |-> "draft", round |-> t, by |-> NoTxn]
             ELSE IF p \in old THEN [plan[p] EXCEPT !.status = "superseded"]
             ELSE plan[p]]

\* Mutant: the rows are superseded by their ids, as they were read.
BuildCommitById(t, new) ==
  /\ At(t, "round")
  /\ Free(t, txn[t].visible)
  /\ new \subseteq In("absent") /\ Cardinality(new) = RoundSize
  /\ Replace(t, txn[t].visible, new)
  /\ End(t)
  /\ UNCHANGED <<stage, goal, deals>>

\* The old drafts, once they are free, are superseded if they are drafts still,
\* and a new round is created.
BuildCommit(t, new) ==
  /\ At(t, "round")
  /\ Free(t, txn[t].visible)
  /\ new \subseteq In("absent") /\ Cardinality(new) = RoundSize
  /\ Replace(t, txn[t].visible \cap In("draft"), new)
  /\ End(t)
  /\ UNCHANGED <<stage, goal, deals>>

-----------------------------------------------------------------------------
\* What the stage is guarded by

SetGoal ==
  /\ ~goal
  /\ goal' = TRUE
  /\ UNCHANGED <<plan, stage, deals, txn>>

\* A committed quote opens a deal; it ends completed or defaulted.
OpenDeal(k) ==
  /\ deals[k] = "none"
  /\ deals' = [deals EXCEPT ![k] = "open"]
  /\ UNCHANGED <<plan, stage, goal, txn>>

SettleDeal(k) ==
  /\ deals[k] = "open"
  /\ deals' = [deals EXCEPT ![k] = "settled"]
  /\ UNCHANGED <<plan, stage, goal, txn>>

Step(t) ==
  \/ \E p \in Plans : ApproveRead(t, p)
  \/ ApproveWrite(t) \/ ApproveOthers(t) \/ ApproveGuard(t) \/ ApproveCommit(t)
  \/ BuildRead(t) \/ BuildStart(t)
  \/ \E new \in SUBSET Plans : BuildCommit(t, new)
  \/ Abort(t)

Next ==
  \/ \E t \in Txns : Step(t)
  \/ SetGoal
  \/ \E k \in Kols : OpenDeal(k) \/ SettleDeal(k)

Spec == Init /\ [][Next]_vars

-----------------------------------------------------------------------------
\* Properties

\* An approved plan stays approved: no rebuild and no other approval, however
\* their statements interleave with the one that approved it, supersedes it
\* (the status condition of the two bulk updates).
ApprovedStays ==
  [][\A p \in Plans : plan[p].status = "approved" => plan'[p].status = "approved"]_vars

\* The choice within a round is closed by the first approval: where one plan of
\* a round is approved none of the others is still a draft (the single-choice
\* update of approvePlan, in the transaction of the approval).
RoundIsClosed ==
  \A p, q \in Plans :
    plan[p].status = "approved" /\ plan[q].status = "draft"
      => plan[p].round # plan[q].round

\* A stage stands on what opened it: with match the goal is set, with reach
\* there is an approved plan, with delivery a deal, although the guard looked
\* at them before the stage was written; and cur is never past maxReached.
StageIsBacked ==
  /\ stage.cur <= stage.max
  /\ stage.cur >= Match => goal
  /\ stage.cur >= Reach => In("approved") # {}
  /\ stage.cur >= Delivery => \E k \in Kols : deals[k] # "none"

\* Two claims the code does not keep (see the README, "Disagreements").
\* approve-plan.ts: approving again does not rewrite who approved and does not
\* advance again.
ApprovedOnce ==
  [][\A p \in Plans : plan[p].status = "approved" => plan'[p].by = plan[p].by]_vars

\* approve-plan.ts: an approval opens reach; for a project already there, or
\* past it, the advance is refused.
ReachIsTheLimit == [][stage.cur >= Reach => stage'.cur = stage.cur]_vars

=============================================================================
