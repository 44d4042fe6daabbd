----------------------------- MODULE PlansProofs -----------------------------
(***************************************************************************)
(* Proofs about Plans, for every number of plans, transactions and         *)
(* creators and every size of a round.                                     *)
(***************************************************************************)
EXTENDS Plans, TLAPS

Writing == {"others", "guard", "commit"}

-----------------------------------------------------------------------------
\* The inductive invariant: what a transaction may rely on.

\* A transaction has rows written only between its first write and its commit.
LocksWhileWriting(t) == txn[t].pc \notin Writing => txn[t].holds = {}

\* The rows an approval is going to supersede are drafts until it commits.
HeldAreDrafts(t) ==
  \A p \in txn[t].holds : p # txn[t].own => plan[p].status = "draft"

\* The plan an approval works on exists, and is its to write.
OwnIsHeld(t) ==
  /\ txn[t].pc \in Writing \cup {"approve"} =>
       txn[t].own \in Plans /\ plan[txn[t].own].status # "absent"
  /\ txn[t].pc \in Writing => txn[t].own \in txn[t].holds

\* The drafts an approval has to close are among those its statement sees, and
\* then among those it has written.
SeesItsRound(t) ==
  \A q \in Plans :
    plan[q].status = "draft" /\ q # txn[t].own /\ txn[t].pc \in Writing
      /\ plan[q].round = plan[txn[t].own].round
    => q \in (IF txn[t].pc = "others" THEN txn[t].visible ELSE txn[t].holds)

\* What stands behind a stage; it never goes away again.
Backed(cur) ==
  /\ cur >= Match => goal
  /\ cur >= Reach => In("approved") # {}
  /\ cur >= Delivery => \E k \in Kols : deals[k] # "none"

\* The project an approval has read was backed, and still is.
ReadIsBacked(t) ==
  txn[t].pc \in {"guard", "commit"} =>
    /\ txn[t].cur <= txn[t].max
    /\ txn[t].goal => goal
    /\ Backed(txn[t].cur)
    /\ txn[t].pc = "commit" /\ txn[t].opens =>
         /\ txn[t].cur < Insight
         /\ txn[t].cur = Brief => goal
         /\ txn[t].cur = Reach => \E k \in Kols : deals[k] # "none"

TxnOK(t) ==
  /\ LocksWhileWriting(t) /\ HeldAreDrafts(t) /\ OwnIsHeld(t)
  /\ SeesItsRound(t) /\ ReadIsBacked(t)

\* A row is written by one transaction at a time.
LocksExclude ==
  \A s, t \in Txns : s # t => txn[s].holds \cap txn[t].holds = {}

\* A build that created a round is over: no round grows.
RoundsAreComplete ==
  \A p \in Plans : plan[p].round # NoTxn => txn[plan[p].round].pc = "over"

IInv ==
  /\ TypeOK /\ LocksExclude /\ RoundsAreComplete
  /\ \A t \in Txns : TxnOK(t)
  /\ RoundIsClosed /\ StageIsBacked

-----------------------------------------------------------------------------
\* Steps that change the locals of one transaction only

\* Such a step keeps the invariant if the locals it leaves are sound, and it
\* has taken no row of another transaction.
LEMMA LocalStep ==
  ASSUME IInv, NEW t \in Txns, NEW r \in Txn,
         txn' = [txn EXCEPT ![t] = r],
         UNCHANGED <<plan, stage, goal, deals>>,
         TxnOK(t)', Free(t, r.holds), txn[t].pc # "over"
  PROVE  IInv'
<1>1. txn' \in [Txns -> Txn] /\ txn'[t] = r /\ \A s \in Txns \ {t} : txn'[s] = txn[s]
  BY DEF IInv, TypeOK
<1>2. TypeOK'
  BY <1>1 DEF IInv, TypeOK
<1>3. LocksExclude'
  BY <1>1 DEF IInv, LocksExclude, Free
<1>4. RoundsAreComplete'
  BY <1>1, PlansAssumption DEF IInv, TypeOK, RoundsAreComplete, Plan
<1>5. ASSUME NEW s \in Txns PROVE TxnOK(s)'
  <2>1. CASE s = t
    BY <2>1
  <2>2. CASE s # t
    BY <1>1, <2>2 DEF IInv, TxnOK, LocksWhileWriting, HeldAreDrafts, OwnIsHeld,
                      SeesItsRound, ReadIsBacked, Backed, In
  <2> QED
    BY <2>1, <2>2
<1>6. RoundIsClosed' /\ StageIsBacked'
  BY DEF IInv, RoundIsClosed, StageIsBacked, In
<1> QED
  BY <1>2, <1>3, <1>4, <1>5, <1>6 DEF IInv

LEMMA FreshIsTxn == Fresh \in Txn /\ [Fresh EXCEPT !.pc = "over"] \in Txn
<1>1. Fresh \in Txn
  BY DEF Fresh, Txn, Points, Stages, Brief, Insight
<1> QED
  BY <1>1 DEF Txn, Points

\* Ending, with or without effect, leaves sound locals.
LEMMA OverIsSound ==
  ASSUME NEW t \in Txns, txn \in [Txns -> Txn], End(t)
  PROVE  /\ [Fresh EXCEPT !.pc = "over"] \in Txn
         /\ txn' \in [Txns -> Txn]
         /\ txn'[t].pc = "over" /\ txn'[t].holds = {}
         /\ \A s \in Txns \ {t} : txn'[s] = txn[s]
         /\ TxnOK(t)'
<1>1. [Fresh EXCEPT !.pc = "over"] \in Txn
  BY FreshIsTxn
<1>2. txn'[t] = [Fresh EXCEPT !.pc = "over"]
  BY DEF End
<1>3. txn'[t].pc = "over" /\ txn'[t].holds = {}
  BY <1>2 DEF Fresh
<1>4. TxnOK(t)'
  BY <1>3 DEF TxnOK, LocksWhileWriting, HeldAreDrafts, OwnIsHeld, SeesItsRound,
              ReadIsBacked, Writing
<1>5. txn' \in [Txns -> Txn] /\ \A s \in Txns \ {t} : txn'[s] = txn[s]
  BY <1>1 DEF End
<1> QED
  BY <1>1, <1>3, <1>4, <1>5

LEMMA EndKeeps ==
  ASSUME IInv, NEW t \in Txns, End(t), txn[t].pc # "over",
         UNCHANGED <<plan, stage, goal, deals>>
  PROVE  IInv'
<1>1. [Fresh EXCEPT !.pc = "over"] \in Txn /\ TxnOK(t)'
  BY OverIsSound DEF IInv, TypeOK
<1>2. Free(t, [Fresh EXCEPT !.pc = "over"].holds)
  BY DEF Free, Fresh
<1> QED
  BY <1>1, <1>2, LocalStep DEF End

-----------------------------------------------------------------------------
\* The invariant holds

THEOREM InitIsSound == Init => IInv
<1> SUFFICES ASSUME Init PROVE IInv
  OBVIOUS
<1>1. txn \in [Txns -> Txn]
  BY FreshIsTxn DEF Init
<1>2. TypeOK
  <2>1. /\ plan \in [Plans -> Plan]
        /\ \A p \in Plans :
             /\ plan[p].status = "absent" <=> plan[p].round = NoTxn
             /\ plan[p].status = "approved" <=> plan[p].by # NoTxn
    BY DEF Init, Plan
  <2>2. stage \in [cur : Stages, max : Stages]
    BY DEF Init, Stages, Brief, Insight
  <2>3. goal \in BOOLEAN /\ deals \in [Kols -> DealStatus]
    BY DEF Init, DealStatus
  <2> QED
    BY <1>1, <2>1, <2>2, <2>3 DEF TypeOK
<1>3. \A t \in Txns : TxnOK(t) /\ txn[t].holds = {}
  BY DEF Init, Fresh, TxnOK, LocksWhileWriting, HeldAreDrafts, OwnIsHeld,
         SeesItsRound, ReadIsBacked, Writing
<1>4. LocksExclude /\ RoundsAreComplete /\ RoundIsClosed
  BY <1>3 DEF Init, LocksExclude, RoundsAreComplete, RoundIsClosed
<1>5. StageIsBacked
  BY DEF Init, StageIsBacked, Brief, Match, Reach, Delivery
<1> QED
  BY <1>2, <1>3, <1>4, <1>5 DEF IInv

\* The steps of an approval before its commit.
LEMMA ApproveReadKeeps ==
  ASSUME IInv, NEW t \in Txns, NEW p \in Plans, ApproveRead(t, p)
  PROVE  IInv'
<1>1. CASE plan[p].status # "draft"
  BY <1>1, EndKeeps DEF ApproveRead, At
<1>2. CASE plan[p].status = "draft"
  <2> DEFINE r == [txn[t] EXCEPT !.pc = "approve", !.own = p]
  <2>1. r \in Txn /\ txn' = [txn EXCEPT ![t] = r] /\ txn[t].holds = {}
    <3>1. txn[t] \in Txn /\ "approve" \in Points
      BY DEF IInv, TypeOK, Points
    <3>2. txn[t].pc = "ready" /\ txn' = [txn EXCEPT ![t] = r]
      BY <1>2 DEF ApproveRead, At
    <3>3. txn[t].holds = {}
      BY <3>2 DEF IInv, TxnOK, LocksWhileWriting, Writing
    <3> QED
      BY <3>1, <3>2, <3>3 DEF Txn
  <2>2. txn'[t] = r
    BY <2>1 DEF IInv, TypeOK
  <2>3. r.pc = "approve" /\ r.own = p /\ r.holds = {}
    BY <2>1 DEF IInv, TypeOK, Txn
  <2>4. TxnOK(t)'
    BY <1>2, <2>2, <2>3
       DEF TxnOK, LocksWhileWriting, HeldAreDrafts, OwnIsHeld, SeesItsRound,
           ReadIsBacked, Writing, ApproveRead
  <2>5. Free(t, r.holds)
    BY <2>3 DEF Free
  <2> QED
    BY <2>1, <2>4, <2>5, LocalStep DEF ApproveRead, At
<1> QED
  BY <1>1, <1>2

LEMMA ApproveWriteKeeps ==
  ASSUME IInv, NEW t \in Txns, ApproveWrite(t)
  PROVE  IInv'
<1> DEFINE p == txn[t].own
           r == [txn[t] EXCEPT !.pc = "others", !.holds = {p}, !.visible = In("draft") \ {p}]
<1>1. p \in Plans /\ plan[p].status # "absent"
  BY DEF ApproveWrite, At, IInv, TxnOK, OwnIsHeld, Writing
<1>2. r \in Txn /\ txn' = [txn EXCEPT ![t] = r]
  <2>1. txn[t] \in Txn /\ {p} \in SUBSET Plans /\ In("draft") \ {p} \in SUBSET Plans
    BY <1>1 DEF IInv, TypeOK, In
  <2>2. r \in Txn
    BY <2>1 DEF Txn, Points
  <2> QED
    BY <2>2 DEF ApproveWrite
<1>3. txn'[t] = r
  BY <1>2 DEF IInv, TypeOK
<1>4. /\ r.pc = "others" /\ r.own = p /\ r.holds = {p}
      /\ r.visible = In("draft") \ {p}
  BY <1>2 DEF IInv, TypeOK, Txn
<1>5. SeesItsRound(t)'
  BY <1>3, <1>4 DEF SeesItsRound, In, ApproveWrite
<1>6. TxnOK(t)'
  BY <1>1, <1>3, <1>4, <1>5
     DEF TxnOK, LocksWhileWriting, HeldAreDrafts, OwnIsHeld, ReadIsBacked, Writing,
         ApproveWrite
<1>7. Free(t, r.holds)
  BY <1>4 DEF ApproveWrite
<1> QED
  BY <1>2, <1>6, <1>7, LocalStep DEF ApproveWrite, At

LEMMA ApproveOthersKeeps ==
  ASSUME IInv, NEW t \in Txns, ApproveOthers(t)
  PROVE  IInv'
<1> DEFINE more == txn[t].visible \cap In("draft")
           r == [txn[t] EXCEPT !.pc = "guard", !.holds = txn[t].holds \cup more,
                               !.cur = stage.cur, !.max = stage.max, !.goal = goal]
<1>1. /\ txn[t].own \in Plans /\ txn[t].own \in txn[t].holds
      /\ plan[txn[t].own].status # "absent"
  BY DEF ApproveOthers, At, IInv, TxnOK, OwnIsHeld, Writing
<1>2. r \in Txn /\ txn' = [txn EXCEPT ![t] = r]
  <2>1. /\ txn[t] \in Txn /\ more \in SUBSET Plans
        /\ stage.cur \in Stages /\ stage.max \in Stages /\ goal \in BOOLEAN
    BY DEF IInv, TypeOK, In
  <2>2. txn[t].holds \cup more \in SUBSET Plans
    BY <2>1 DEF Txn
  <2>3. \A h \in SUBSET Plans, c \in Stages, m \in Stages, g \in BOOLEAN :
          [txn[t] EXCEPT !.pc = "guard", !.holds = h, !.cur = c, !.max = m, !.goal = g] \in Txn
    BY <2>1 DEF Txn, Points
  <2>4. r \in Txn
    BY <2>1, <2>2, <2>3
  <2> QED
    BY <2>4 DEF ApproveOthers
<1>3. txn'[t] = r
  BY <1>2 DEF IInv, TypeOK
<1>4. /\ r.pc = "guard" /\ r.own = txn[t].own /\ r.holds = txn[t].holds \cup more
      /\ r.cur = stage.cur /\ r.max = stage.max /\ r.goal = goal
  BY <1>2 DEF IInv, TypeOK, Txn
<1>5. SeesItsRound(t)'
  BY <1>3, <1>4 DEF SeesItsRound, In, ApproveOthers, At, IInv, TxnOK, Writing
<1>6. HeldAreDrafts(t)'
  BY <1>3, <1>4 DEF HeldAreDrafts, In, ApproveOthers, IInv, TxnOK
<1>7. ReadIsBacked(t)'
  BY <1>3, <1>4 DEF ReadIsBacked, Backed, In, ApproveOthers, IInv, StageIsBacked
<1>8. TxnOK(t)'
  BY <1>1, <1>3, <1>4, <1>5, <1>6, <1>7
     DEF TxnOK, LocksWhileWriting, OwnIsHeld, Writing, ApproveOthers
<1>9. Free(t, r.holds)
  BY <1>4 DEF Free, ApproveOthers, IInv, LocksExclude
<1> QED
  BY <1>2, <1>8, <1>9, LocalStep DEF ApproveOthers, At

\* The guard opens no stage but the next one, and only on what it stands on.
LEMMA GuardIsSound ==
  ASSUME TypeOK, NEW cur \in Stages, NEW g \in BOOLEAN, Opens(cur, g)
  PROVE  /\ cur < Insight
         /\ cur = Brief => g
         /\ cur = Reach => \E k \in Kols : deals[k] # "none"
  BY DEF Opens, Stages, Brief, Match, Reach, Delivery, Insight

LEMMA ApproveGuardKeeps ==
  ASSUME IInv, NEW t \in Txns, ApproveGuard(t)
  PROVE  IInv'
<1> DEFINE o == txn[t].cur <= txn[t].max /\ Opens(txn[t].cur, txn[t].goal)
           r == [txn[t] EXCEPT !.pc = "commit", !.opens = o]
<1>1. txn[t] \in Txn /\ o \in BOOLEAN
  BY DEF IInv, TypeOK, Opens, Txn, Stages, Brief, Match, Reach, Delivery, Insight
<1>2. r \in Txn /\ txn' = [txn EXCEPT ![t] = r]
  BY <1>1 DEF ApproveGuard, At, Txn, Points
<1>3. txn'[t] = r
  BY <1>2 DEF IInv, TypeOK
<1>4. /\ r.pc = "commit" /\ r.own = txn[t].own /\ r.holds = txn[t].holds
      /\ r.cur = txn[t].cur /\ r.max = txn[t].max /\ r.goal = txn[t].goal
      /\ r.opens = o
  BY <1>1 DEF Txn
<1>5. o => /\ txn[t].cur < Insight
           /\ txn[t].cur = Brief => txn[t].goal
           /\ txn[t].cur = Reach => \E k \in Kols : deals[k] # "none"
  BY <1>1, GuardIsSound DEF IInv, Txn
<1>6. ReadIsBacked(t)'
  BY <1>3, <1>4, <1>5 DEF ReadIsBacked, Backed, In, ApproveGuard, At, IInv, TxnOK
<1>7. SeesItsRound(t)' /\ HeldAreDrafts(t)' /\ OwnIsHeld(t)' /\ LocksWhileWriting(t)'
  BY <1>3, <1>4 DEF SeesItsRound, HeldAreDrafts, OwnIsHeld, LocksWhileWriting, Writing,
                    ApproveGuard, At, IInv, TxnOK
<1>8. Free(t, r.holds)
  BY <1>4 DEF Free, IInv, LocksExclude
<1> QED
  BY <1>2, <1>6, <1>7, <1>8, LocalStep DEF ApproveGuard, At, TxnOK

\* The steps of a build before its commit.
LEMMA BuildReadKeeps ==
  ASSUME IInv, NEW t \in Txns, BuildRead(t)
  PROVE  IInv'
<1>1. CASE End(t)
  BY <1>1, EndKeeps DEF BuildRead, At
<1>2. CASE txn' = [txn EXCEPT ![t].pc = "build"]
  <2> DEFINE r == [txn[t] EXCEPT !.pc = "build"]
  <2>1. r \in Txn /\ txn' = [txn EXCEPT ![t] = r] /\ txn[t].holds = {}
    <3>1. txn[t] \in Txn /\ "build" \in Points
      BY DEF IInv, TypeOK, Points
    <3>2. txn[t].pc = "ready" /\ txn \in [Txns -> Txn]
      BY DEF BuildRead, At, IInv, TypeOK
    <3>3. txn[t].holds = {}
      BY <3>2 DEF IInv, TxnOK, LocksWhileWriting, Writing
    <3> QED
      BY <1>2, <3>1, <3>2, <3>3 DEF Txn
  <2>2. txn'[t] = r /\ r.pc = "build" /\ r.holds = {}
    BY <2>1 DEF IInv, TypeOK, Txn
  <2>3. TxnOK(t)' /\ Free(t, r.holds)
    BY <2>2 DEF TxnOK, LocksWhileWriting, HeldAreDrafts, OwnIsHeld, SeesItsRound,
                ReadIsBacked, Writing, Free
  <2> QED
    BY <2>1, <2>3, LocalStep DEF BuildRead, At
<1> QED
  BY <1>1, <1>2 DEF BuildRead

LEMMA BuildStartKeeps ==
  ASSUME IInv, NEW t \in Txns, BuildStart(t)
  PROVE  IInv'
<1> DEFINE r == [txn[t] EXCEPT !.pc = "round", !.visible = In("draft")]
<1>1. r \in Txn /\ txn' = [txn EXCEPT ![t] = r] /\ txn[t].holds = {}
  <2>1. txn[t] \in Txn /\ "round" \in Points /\ In("draft") \subseteq Plans
    BY DEF IInv, TypeOK, Points, In
  <2>2. txn[t].pc = "build" /\ txn' = [txn EXCEPT ![t] = r]
    BY DEF BuildStart, At
  <2>3. txn[t].holds = {}
    BY <2>2 DEF IInv, TxnOK, LocksWhileWriting, Writing
  <2> QED
    BY <2>1, <2>2, <2>3 DEF Txn
<1>2. txn'[t] = r /\ r.pc = "round" /\ r.holds = {}
  BY <1>1 DEF IInv, TypeOK, Txn
<1>3. TxnOK(t)' /\ Free(t, r.holds)
  BY <1>2 DEF TxnOK, LocksWhileWriting, HeldAreDrafts, OwnIsHeld, SeesItsRound,
              ReadIsBacked, Writing, Free
<1> QED
  BY <1>1, <1>3, LocalStep DEF BuildStart, At

-----------------------------------------------------------------------------
\* The commits

\* A deal, a goal and an approval, once there, stay: so do the backings.
LEMMA BackedStays ==
  ASSUME TypeOK, NEW cur \in Stages, Backed(cur),
         goal => goal', In("approved") \subseteq In("approved")',
         \A k \in Kols : deals[k] # "none" => deals'[k] # "none"
  PROVE  Backed(cur)'
  BY DEF Backed

\* The commit of an approval: its plan is approved, the rows it has written are
\* superseded, and of those none was approved.
LEMMA CommitOfApproval ==
  ASSUME IInv, NEW t \in Txns, ApproveCommit(t)
  PROVE  /\ plan' \in [Plans -> Plan]
         /\ txn[t].own \in Plans
         /\ \A p \in Plans :
              /\ plan'[p].round = plan[p].round
              /\ p = txn[t].own => plan'[p].status = "approved" /\ plan'[p].by = t
              /\ p # txn[t].own => plan'[p].by = plan[p].by
              /\ p # txn[t].own /\ p \in txn[t].holds =>
                   plan[p].status = "draft" /\ plan'[p].status = "superseded"
              /\ p # txn[t].own /\ p \notin txn[t].holds => plan'[p] = plan[p]
<1>1. /\ txn[t].own \in Plans
      /\ \A p \in txn[t].holds : p # txn[t].own => plan[p].status = "draft"
  BY DEF IInv, TxnOK, OwnIsHeld, HeldAreDrafts, ApproveCommit, At, Writing
<1>2. \A p \in Plans : plan[p] \in Plan
  BY DEF IInv, TypeOK
<1>3. \A p \in Plans :
        plan'[p] = IF p = txn[t].own
                   THEN [plan[p] EXCEPT !.status = "approved", !.by = t]
                   ELSE IF p \in txn[t].holds
                   THEN [plan[p] EXCEPT !.status = "superseded"]
                   ELSE plan[p]
  BY DEF ApproveCommit
<1>4. ASSUME NEW p \in Plans
      PROVE  /\ plan'[p] \in Plan
             /\ plan'[p].round = plan[p].round
             /\ p = txn[t].own => plan'[p].status = "approved" /\ plan'[p].by = t
             /\ p # txn[t].own => plan'[p].by = plan[p].by
             /\ p # txn[t].own /\ p \in txn[t].holds =>
                  plan[p].status = "draft" /\ plan'[p].status = "superseded"
             /\ p # txn[t].own /\ p \notin txn[t].holds => plan'[p] = plan[p]
  <2>1. CASE p = txn[t].own
    <3>1. plan'[p] = [plan[p] EXCEPT !.status = "approved", !.by = t]
      BY <1>3, <2>1
    <3>2. plan[p] \in Plan
      BY <1>2
    <3>3. /\ plan'[p] \in Plan /\ plan'[p].round = plan[p].round
          /\ plan'[p].status = "approved" /\ plan'[p].by = t
      BY <3>1, <3>2 DEF Plan
    <3> QED
      BY <2>1, <3>3
  <2>2. CASE p # txn[t].own /\ p \in txn[t].holds
    <3>1. plan'[p] = [plan[p] EXCEPT !.status = "superseded"] /\ plan[p].status = "draft"
      BY <1>1, <1>2, <1>3, <2>2
    <3>2. plan[p] \in Plan
      BY <1>2
    <3>3. /\ plan'[p] \in Plan /\ plan'[p].round = plan[p].round
          /\ plan'[p].status = "superseded" /\ plan'[p].by = plan[p].by
      BY <3>1, <3>2 DEF Plan
    <3> QED
      BY <2>2, <3>1, <3>3
  <2>3. CASE p # txn[t].own /\ p \notin txn[t].holds
    BY <1>2, <1>3, <2>3 DEF Plan
  <2> QED
    BY <2>1, <2>2, <2>3
<1>5. plan' \in [Plans -> Plan]
  BY <1>4 DEF ApproveCommit
<1> QED
  BY <1>1, <1>4, <1>5

LEMMA ApproveCommitKeeps ==
  ASSUME IInv, NEW t \in Txns, ApproveCommit(t)
  PROVE  IInv'
<1> DEFINE own == txn[t].own
           to == txn[t].cur + 1
<1>1. /\ txn' \in [Txns -> Txn] /\ txn'[t].pc = "over" /\ txn'[t].holds = {}
      /\ \A s \in Txns \ {t} : txn'[s] = txn[s]
      /\ TxnOK(t)'
  BY OverIsSound DEF ApproveCommit, IInv, TypeOK
<1>2. goal' = goal /\ deals' = deals
  BY DEF ApproveCommit
<1>3. /\ own \in Plans /\ own \in txn[t].holds /\ txn[t].pc = "commit"
      /\ plan[own].status # "absent"
  BY DEF IInv, TxnOK, OwnIsHeld, ApproveCommit, At, Writing
<1>4. In("approved") \subseteq In("approved")' /\ In("approved")' # {}
  BY <1>3, CommitOfApproval DEF In
<1>5. /\ txn[t].cur \in Stages /\ txn[t].max \in Stages /\ txn[t].cur <= txn[t].max
      /\ Backed(txn[t].cur)
      /\ txn[t].opens => /\ txn[t].cur < Insight
                         /\ txn[t].cur = Brief => goal
                         /\ txn[t].cur = Reach => \E k \in Kols : deals[k] # "none"
  BY <1>3 DEF IInv, TxnOK, ReadIsBacked, TypeOK, Txn
<1>6. StageIsBacked' /\ stage' \in [cur : Stages, max : Stages]
  <2>1. CASE txn[t].opens
    <3>1. /\ to \in Stages /\ Raised(txn[t].max, to) \in Stages
          /\ to <= Raised(txn[t].max, to)
      BY <1>5, <2>1 DEF Raised, Stages, Brief, Insight
    <3>2. stage' = [cur |-> to, max |-> Raised(txn[t].max, to)]
      BY <2>1 DEF ApproveCommit
    <3>3. stage' \in [cur : Stages, max : Stages] /\ stage'.cur = to /\ stage'.cur <= stage'.max
      BY <3>1, <3>2
    <3>4. to >= Match => goal
      BY <1>5, <2>1 DEF Backed, Stages, Brief, Match, Insight
    <3>5. to >= Delivery => \E k \in Kols : deals[k] # "none"
      BY <1>5, <2>1 DEF Backed, Stages, Brief, Reach, Delivery, Insight
    <3> QED
      BY <1>2, <1>4, <3>3, <3>4, <3>5 DEF StageIsBacked
  <2>2. CASE ~txn[t].opens
    <3>1. stage' = stage
      BY <2>2 DEF ApproveCommit
    <3> QED
      BY <1>2, <1>4, <3>1 DEF IInv, StageIsBacked, TypeOK
  <2> QED
    BY <2>1, <2>2
<1>7. TypeOK'
  <2>1. \A p \in Plans : /\ plan'[p].status = "absent" <=> plan'[p].round = NoTxn
                         /\ plan'[p].status = "approved" <=> plan'[p].by # NoTxn
    BY <1>3, CommitOfApproval, PlansAssumption DEF IInv, TypeOK
  <2> QED
    BY <1>1, <1>2, <1>6, <2>1, CommitOfApproval DEF IInv, TypeOK
<1>8. LocksExclude'
  BY <1>1 DEF IInv, LocksExclude
<1>9. RoundsAreComplete'
  BY <1>1, <1>3, CommitOfApproval, PlansAssumption DEF IInv, TypeOK, Plan, RoundsAreComplete
<1>10. RoundIsClosed'
  BY <1>3, CommitOfApproval DEF IInv, RoundIsClosed, TxnOK, SeesItsRound, Writing
<1>11. ASSUME NEW s \in Txns, s # t PROVE TxnOK(s)'
  <2>1. txn'[s] = txn[s] /\ TxnOK(s) /\ txn[s] \in Txn
    BY <1>1, <1>11 DEF IInv, TypeOK
  <2>2. txn[s].holds \cap txn[t].holds = {}
    BY <1>11 DEF IInv, LocksExclude
  <2>3. HeldAreDrafts(s)'
    <3>1. ASSUME NEW p \in txn[s].holds, p # txn[s].own PROVE plan'[p].status = "draft"
      <4>1. p \in Plans /\ p \notin txn[t].holds /\ plan[p].status = "draft"
        BY <2>1, <2>2, <3>1 DEF TxnOK, HeldAreDrafts, Txn
      <4> QED
        BY <1>3, <4>1, CommitOfApproval
    <3> QED
      BY <2>1, <3>1 DEF HeldAreDrafts
  <2>4. OwnIsHeld(s)' /\ LocksWhileWriting(s)'
    BY <1>3, <2>1, CommitOfApproval DEF TxnOK, OwnIsHeld, LocksWhileWriting
  <2>5. SeesItsRound(s)'
    <3>1. \A q \in Plans : plan'[q].status = "draft" => plan[q].status = "draft"
      BY CommitOfApproval
    <3>2. \A q \in Plans : plan'[q].round = plan[q].round
      BY CommitOfApproval
    <3> QED
      BY <2>1, <3>1, <3>2 DEF TxnOK, OwnIsHeld, SeesItsRound
  <2>6. ReadIsBacked(s)'
    <3>1. Backed(txn[s].cur) => Backed(txn[s].cur)'
      BY <1>2, <1>4, <2>1 DEF Backed
    <3> QED
      BY <1>2, <2>1, <3>1 DEF TxnOK, ReadIsBacked, Backed
  <2> QED
    BY <2>3, <2>4, <2>5, <2>6 DEF TxnOK
<1> QED
  BY <1>1, <1>6, <1>7, <1>8, <1>9, <1>10, <1>11 DEF IInv

\* The commit of a build: a round of rows that were absent, and of the rows it
\* supersedes none was approved and none was written by an approval under way.
LEMMA BuildCommitKeeps ==
  ASSUME IInv, NEW t \in Txns, NEW new \in SUBSET Plans, BuildCommit(t, new)
  PROVE  IInv'
<1> DEFINE old == txn[t].visible \cap In("draft")
<1>1. /\ txn' \in [Txns -> Txn] /\ txn'[t].pc = "over" /\ txn'[t].holds = {}
      /\ \A s \in Txns \ {t} : txn'[s] = txn[s]
      /\ TxnOK(t)'
  BY OverIsSound DEF BuildCommit, IInv, TypeOK
<1>2. goal' = goal /\ deals' = deals /\ stage' = stage
  BY DEF BuildCommit
<1>3. /\ txn[t].pc = "round" /\ new \subseteq In("absent")
      /\ \A s \in Txns \ {t} : txn[s].holds \cap txn[t].visible = {}
  BY DEF BuildCommit, At, Free
<1>4. \A p \in Plans :
        plan'[p] = IF p \in new THEN [status |-> "draft", round |-> t, by |-> NoTxn]
                   ELSE IF p \in old THEN [plan[p] EXCEPT !.status = "superseded"]
                   ELSE plan[p]
  BY DEF BuildCommit, Replace
<1>5. ASSUME NEW p \in Plans
      PROVE  /\ plan[p] \in Plan /\ plan'[p] \in Plan
             /\ p \in new =>
                  /\ plan[p].status = "absent"
                  /\ plan'[p].status = "draft" /\ plan'[p].round = t
                  /\ plan'[p].by = NoTxn
             /\ p \notin new /\ p \in old =>
                  /\ plan[p].status = "draft" /\ plan'[p].status = "superseded"
                  /\ plan'[p].round = plan[p].round /\ plan'[p].by = plan[p].by
             /\ p \notin new /\ p \notin old => plan'[p] = plan[p]
  <2>1. plan[p] \in Plan
    BY DEF IInv, TypeOK
  <2>2. CASE p \in new
    <3>1. plan'[p] = [status |-> "draft", round |-> t, by |-> NoTxn]
      BY <1>4, <2>2
    <3>2. plan'[p] \in Plan
      BY <3>1 DEF Plan
    <3>3. plan[p].status = "absent"
      BY <1>3, <2>2 DEF In
    <3> QED
      BY <2>1, <2>2, <3>1, <3>2, <3>3 DEF In
  <2>3. CASE p \notin new /\ p \in old
    BY <1>4, <2>1, <2>3 DEF Plan, In
  <2>4. CASE p \notin new /\ p \notin old
    BY <1>4, <2>1, <2>4
  <2> QED
    BY <2>2, <2>3, <2>4
<1>6. plan' \in [Plans -> Plan]
  BY <1>5 DEF BuildCommit, Replace
<1>7. TypeOK'
  <2>1. \A p \in Plans :
          /\ plan'[p].status = "absent" <=> plan'[p].round = NoTxn
          /\ plan'[p].status = "approved" <=> plan'[p].by # NoTxn
    BY <1>5, PlansAssumption DEF IInv, TypeOK
  <2> QED
    BY <1>1, <1>2, <1>6, <2>1 DEF IInv, TypeOK
<1>8. LocksExclude'
  BY <1>1 DEF IInv, LocksExclude
<1>9. RoundsAreComplete'
  <2>1. ASSUME NEW p \in Plans, plan'[p].round # NoTxn
        PROVE  txn'[plan'[p].round].pc = "over"
    <3>1. CASE p \in new
      BY <1>1, <1>5, <3>1
    <3>2. CASE p \notin new
      <4>1. plan'[p].round = plan[p].round
        BY <1>5, <3>2
      <4>2. plan[p].round \in Txns /\ txn[plan[p].round].pc = "over"
        BY <1>5, <2>1, <4>1 DEF IInv, RoundsAreComplete, Plan
      <4> QED
        BY <1>1, <4>1, <4>2
    <3> QED
      BY <3>1, <3>2
  <2> QED
    BY <2>1 DEF RoundsAreComplete
\* No row has the round of a build that is not over yet.
<1>10. \A p \in Plans : plan[p].round # t
  BY <1>3, PlansAssumption DEF IInv, RoundsAreComplete
<1>11. \A p \in Plans : plan'[p].status = "approved" <=> plan[p].status = "approved"
  BY <1>5
<1>12. RoundIsClosed'
  <2>1. ASSUME NEW p \in Plans, NEW q \in Plans,
               plan'[p].status = "approved", plan'[q].status = "draft"
        PROVE  plan'[p].round # plan'[q].round
    <3>1. plan[p].status = "approved" /\ plan'[p].round = plan[p].round
      BY <1>5, <2>1
    <3>2. CASE q \in new
      BY <1>5, <1>10, <3>1, <3>2
    <3>3. CASE q \notin new
      BY <1>5, <2>1, <3>1, <3>3 DEF IInv, RoundIsClosed
    <3> QED
      BY <3>2, <3>3
  <2> QED
    BY <2>1 DEF RoundIsClosed
<1>13. StageIsBacked'
  <2>1. In("approved")' = In("approved")
    BY <1>11 DEF In
  <2> QED
    BY <1>2, <2>1 DEF IInv, StageIsBacked
<1>14. ASSUME NEW s \in Txns, s # t PROVE TxnOK(s)'
  <2>1. /\ txn'[s] = txn[s] /\ TxnOK(s) /\ txn[s] \in Txn
        /\ txn[s].holds \cap txn[t].visible = {}
    BY <1>1, <1>3, <1>14 DEF IInv, TypeOK
  <2>2. HeldAreDrafts(s)'
    <3>1. ASSUME NEW p \in txn[s].holds, p # txn[s].own PROVE plan'[p].status = "draft"
      <4>1. p \in Plans /\ p \notin old /\ plan[p].status = "draft"
        BY <2>1, <3>1 DEF TxnOK, HeldAreDrafts, Txn
      <4> QED
        BY <1>5, <4>1
    <3> QED
      BY <2>1, <3>1 DEF HeldAreDrafts
  <2>3. OwnIsHeld(s)' /\ LocksWhileWriting(s)'
    <3>1. \A p \in Plans : plan[p].status # "absent" => plan'[p].status # "absent"
      BY <1>5
    <3> QED
      BY <2>1, <3>1 DEF TxnOK, OwnIsHeld, LocksWhileWriting
  <2>4. SeesItsRound(s)'
    <3>1. ASSUME NEW q \in Plans, txn[s].pc \in Writing,
                 plan'[q].status = "draft", plan'[q].round = plan'[txn[s].own].round
          PROVE  plan[q].status = "draft" /\ plan[q].round = plan[txn[s].own].round
      <4>1. txn[s].own \in Plans /\ plan[txn[s].own].status # "absent"
        BY <2>1, <3>1 DEF TxnOK, OwnIsHeld
      <4>2. plan'[txn[s].own].round = plan[txn[s].own].round /\ plan[txn[s].own].round # t
        BY <1>5, <1>10, <4>1
      <4>3. q \notin new
        BY <1>5, <3>1, <4>2
      <4> QED
        BY <1>5, <3>1, <4>2, <4>3
    <3> QED
      BY <2>1, <3>1 DEF TxnOK, SeesItsRound
  <2>5. ReadIsBacked(s)'
    <3>1. In("approved")' = In("approved")
      BY <1>11 DEF In
    <3>2. Backed(txn[s].cur) => Backed(txn[s].cur)'
      BY <1>2, <2>1, <3>1 DEF Backed
    <3> QED
      BY <1>2, <2>1, <3>2 DEF TxnOK, ReadIsBacked
  <2> QED
    BY <2>2, <2>3, <2>4, <2>5 DEF TxnOK
<1> QED
  BY <1>1, <1>7, <1>8, <1>9, <1>12, <1>13, <1>14 DEF IInv

-----------------------------------------------------------------------------
\* The project and its deals

LEMMA ProjectKeeps ==
  ASSUME IInv, SetGoal \/ \E k \in Kols : OpenDeal(k) \/ SettleDeal(k)
  PROVE  IInv'
<1>1. plan' = plan /\ stage' = stage /\ txn' = txn
  BY DEF SetGoal, OpenDeal, SettleDeal
<1>2. /\ goal' \in BOOLEAN /\ (goal => goal')
      /\ deals' \in [Kols -> DealStatus]
      /\ \A k \in Kols : deals[k] # "none" => deals'[k] # "none"
  BY DEF SetGoal, OpenDeal, SettleDeal, IInv, TypeOK, DealStatus
<1>3. TypeOK'
  BY <1>1, <1>2 DEF IInv, TypeOK
<1>4. LocksExclude' /\ RoundsAreComplete' /\ RoundIsClosed'
  BY <1>1 DEF IInv, LocksExclude, RoundsAreComplete, RoundIsClosed
<1>5. StageIsBacked'
  BY <1>1, <1>2 DEF IInv, StageIsBacked, In
<1>6. ASSUME NEW t \in Txns PROVE TxnOK(t)'
  <2>1. TxnOK(t)
    BY DEF IInv
  <2>2. ReadIsBacked(t)'
    BY <1>1, <1>2, <2>1 DEF TxnOK, ReadIsBacked, Backed, In
  <2> QED
    BY <1>1, <2>1, <2>2
       DEF TxnOK, LocksWhileWriting, HeldAreDrafts, OwnIsHeld, SeesItsRound
<1> QED
  BY <1>3, <1>4, <1>5, <1>6 DEF IInv

LEMMA StepIsSound == IInv /\ [Next]_vars => IInv'
<1> SUFFICES ASSUME IInv, [Next]_vars PROVE IInv'
  OBVIOUS
<1>1. ASSUME NEW t \in Txns, NEW p \in Plans, ApproveRead(t, p) PROVE IInv'
  BY <1>1, ApproveReadKeeps
<1>2. ASSUME NEW t \in Txns, ApproveWrite(t) PROVE IInv'
  BY <1>2, ApproveWriteKeeps
<1>3. ASSUME NEW t \in Txns, ApproveOthers(t) PROVE IInv'
  BY <1>3, ApproveOthersKeeps
<1>4. ASSUME NEW t \in Txns, ApproveGuard(t) PROVE IInv'
  BY <1>4, ApproveGuardKeeps
<1>5. ASSUME NEW t \in Txns, ApproveCommit(t) PROVE IInv'
  BY <1>5, ApproveCommitKeeps
<1>6. ASSUME NEW t \in Txns, BuildRead(t) PROVE IInv'
  BY <1>6, BuildReadKeeps
<1>7. ASSUME NEW t \in Txns, BuildStart(t) PROVE IInv'
  BY <1>7, BuildStartKeeps
<1>8. ASSUME NEW t \in Txns, NEW new \in SUBSET Plans, BuildCommit(t, new) PROVE IInv'
  BY <1>8, BuildCommitKeeps
<1>9. ASSUME NEW t \in Txns, Abort(t) PROVE IInv'
  BY <1>9, EndKeeps DEF Abort
<1>10. CASE SetGoal \/ \E k \in Kols : OpenDeal(k) \/ SettleDeal(k)
  BY <1>10, ProjectKeeps
<1>11. CASE UNCHANGED vars
  BY <1>11 DEF vars, IInv, TypeOK, LocksExclude, RoundsAreComplete, TxnOK, LocksWhileWriting,
               HeldAreDrafts, OwnIsHeld, SeesItsRound, ReadIsBacked, Backed, RoundIsClosed,
               StageIsBacked, In
<1> QED
  BY <1>1, <1>2, <1>3, <1>4, <1>5, <1>6, <1>7, <1>8, <1>9, <1>10, <1>11 DEF Next, Step

-----------------------------------------------------------------------------
\* The theorems

\* The inductive invariant holds in every reachable state of Plans.
THEOREM PlansInvariant == Spec => []IInv
BY InitIsSound, StepIsSound, PTL DEF Spec

\* Every variable has its type; a plan records an approval exactly when it is
\* approved (the rows of MatchPlan and Project).
THEOREM PlansTypeCorrect == Spec => []TypeOK
<1>1. IInv => TypeOK
  BY DEF IInv
<1> QED
  BY <1>1, PlansInvariant, PTL

\* However builds and approvals interleave, the first approval within a round
\* leaves no draft of it (approvePlan).
THEOREM FirstApprovalCloses == Spec => []RoundIsClosed
<1>1. IInv => RoundIsClosed
  BY DEF IInv
<1> QED
  BY <1>1, PlansInvariant, PTL

\* A stage is never ahead of what the guard requires, although it is written
\* from values read earlier (advanceStage).
THEOREM StagesAreBacked == Spec => []StageIsBacked
<1>1. IInv => StageIsBacked
  BY DEF IInv
<1> QED
  BY <1>1, PlansInvariant, PTL

\* No step takes an approval away (the bulk updates of buildMatchPlans and
\* approvePlan touch drafts only).
THEOREM ApprovalsStand == Spec => ApprovedStays
<1>1. IInv /\ [Next]_vars =>
        [\A p \in Plans : plan[p].status = "approved" => plan'[p].status = "approved"]_vars
  <2> SUFFICES ASSUME IInv, Next, NEW p \in Plans, plan[p].status = "approved"
               PROVE  plan'[p].status = "approved"
    BY DEF vars
  <2>1. ASSUME NEW t \in Txns, ApproveCommit(t) PROVE plan'[p].status = "approved"
    BY <2>1, CommitOfApproval
  <2>2. ASSUME NEW t \in Txns, NEW new \in SUBSET Plans, BuildCommit(t, new)
        PROVE  plan'[p].status = "approved"
    BY <2>2 DEF BuildCommit, Replace, In, IInv, TypeOK
  <2>3. CASE plan' = plan
    BY <2>3
  <2> QED
    BY <2>1, <2>2, <2>3
       DEF Next, Step, ApproveRead, ApproveWrite, ApproveOthers, ApproveGuard, BuildRead,
           BuildStart, Abort, SetGoal, OpenDeal, SettleDeal
<1> QED
  BY <1>1, PlansInvariant, PTL DEF Spec, ApprovedStays

=============================================================================
