----------------------------- MODULE DealProofs -----------------------------
(***************************************************************************)
(* Proofs about Deal, for every number of transactions and every set of    *)
(* conditions a person settles, and about KeyPool, which extends it, for   *)
(* every pool of references and every quantity.                            *)
(***************************************************************************)
EXTENDS KeyPool, TLAPS, FiniteSetTheorems

\* What a transaction may rely on between its read and its commit.
TxnShape ==
  \A t \in Txns :
    /\ txn[t].pc \in {"refs", "verify", "paying", "released"} => deal.status # "none"
    /\ txn[t].pc = "quote" /\ txn[t].seen # "none" => deal.status # "none"
    /\ txn[t].pc = "released" /\ txn[t].seen = "completed" => deal.status = "completed"

IInv == TypeOK /\ TxnShape /\ QuotesHaveADeal /\ CompletedIffPaid

-----------------------------------------------------------------------------
\* Pure rules

\* advanceDealTo takes a deal on the mainline to a stage at or past where it
\* stood, never off the mainline, and completes only what is completed.
LEMMA RegisteredForward ==
  ASSUME NEW s \in Mainline, NEW kinds \in SUBSET Refs
  PROVE  /\ Registered(s, kinds) \in Mainline
         /\ Order(Registered(s, kinds)) >= Order(s)
         /\ Registered(s, kinds) = "completed" <=> s = "completed"
  BY DEF Registered, Reached, Order, Mainline, Running

\* A commit_quote keeps every row somebody has settled, and leaves none absent.
LEMMA HealedKeeps ==
  ASSUME TypeOK, NEW hasKey \in BOOLEAN
  PROVE  /\ Healed(hasKey) \in [Kinds -> Condition]
         /\ \A k \in Kinds :
              /\ Healed(hasKey)[k].status # "absent"
              /\ cond[k].settled => Healed(hasKey)[k] = cond[k]
              /\ Healed(hasKey)[k].settled = cond[k].settled
<1>1. \A k \in Kinds : /\ Planned(k, hasKey) \in Condition
                       /\ Planned(k, hasKey).status # "absent"
                       /\ Planned(k, hasKey).settled = FALSE
  BY DEF Planned, Condition
<1> QED
  BY <1>1 DEF Healed, TypeOK, Decided, Condition

LEMMA ReplannedKeeps ==
  ASSUME TypeOK, NEW hasKey \in BOOLEAN
  PROVE  /\ Replanned(hasKey) \in [Kinds -> Condition]
         /\ \A k \in Kinds :
              /\ Replanned(hasKey)[k].status # "absent"
              /\ cond[k].settled => Replanned(hasKey)[k] = cond[k]
              /\ Replanned(hasKey)[k].settled = cond[k].settled
<1> DEFINE H == Healed(hasKey)
<1>1. /\ Planned("key", hasKey) \in Condition
      /\ Planned("key", hasKey).status # "absent"
      /\ Planned("key", hasKey).settled = FALSE
  BY DEF Planned, Condition
<1>2. /\ H \in [Kinds -> Condition]
      /\ \A k \in Kinds : /\ H[k].status # "absent"
                          /\ cond[k].settled => H[k] = cond[k]
                          /\ H[k].settled = cond[k].settled
  BY HealedKeeps
<1>3. "key" \in Kinds
  BY DEF Kinds
<1> HIDE DEF H
<1>4. Replanned(hasKey) =
        [H EXCEPT !["key"] = IF Untouched(H["key"]) THEN Planned("key", hasKey) ELSE H["key"]]
  BY DEF Replanned, H
<1> QED
  BY <1>1, <1>2, <1>3, <1>4 DEF Untouched, TypeOK, Condition

LEMMA SettleKeeps ==
  ASSUME TypeOK, NEW kinds \in SUBSET Kinds, NEW s \in Decided, Settle(kinds, s)
  PROVE  /\ cond' \in [Kinds -> Condition]
         /\ \A k \in Kinds :
              /\ cond'[k].settled => cond'[k].status \in Decided
              /\ cond[k].settled => cond'[k].settled
              /\ cond'[k].required = cond[k].required
              /\ cond[k].status # "absent" => cond'[k].status # "absent"
<1>1. \A k \in Kinds : cond[k] \in Condition
  BY DEF TypeOK
<1>2. \A k \in kinds : LET c == [cond[k] EXCEPT !.status = s, !.settled = TRUE] IN
        /\ c \in Condition /\ c.settled = TRUE /\ c.status = s
        /\ c.required = cond[k].required
  BY <1>1 DEF Condition, Decided
<1>3. s # "absent"
  BY DEF Decided
<1> QED
  BY <1>1, <1>2, <1>3 DEF Settle, TypeOK

-----------------------------------------------------------------------------
\* Each way in which a step moves a transaction is well typed.

LEMMA EndTyped ==
  ASSUME TypeOK, NEW t \in Txns, End(t)
  PROVE  /\ txn' \in [Txns -> Txn]
         /\ txn'[t].pc = "over"
         /\ \A u \in Txns : u # t => txn'[u] = txn[u]
  BY DEF TypeOK, End, Fresh, Txn, Points, Terms, Statuses

LEMMA GoOnTyped ==
  ASSUME TypeOK, NEW t \in Txns, NEW p \in Points, GoOn(t, p)
  PROVE  /\ txn' \in [Txns -> Txn]
         /\ txn'[t].pc = p
         /\ txn'[t].seen = deal.status
         /\ \A u \in Txns : u # t => txn'[u] = txn[u]
<1>1. txn[t] \in Txn /\ deal.status \in Statuses
  BY DEF TypeOK, Deal
<1>2. LET r == [txn[t] EXCEPT !.pc = p, !.seen = deal.status] IN
        r \in Txn /\ r.pc = p /\ r.seen = deal.status
  BY <1>1 DEF Txn
<1> QED
  BY <1>2 DEF GoOn, TypeOK

\* A step that writes no table.
LEMMA ReadOnlyStep ==
  ASSUME IInv, NEW t \in Txns, UNCHANGED <<deal, cond, quotes, payouts>>,
         txn' \in [Txns -> Txn], \A u \in Txns : u # t => txn'[u] = txn[u],
         \/ txn'[t].pc \in {"over", "offered"}
         \/ /\ txn'[t].pc \in {"refs", "verify", "paying", "released"}
            /\ deal.status # "none"
            /\ txn'[t].pc = "released" => txn'[t].seen = deal.status
         \/ txn'[t].pc = "quote" /\ txn'[t].seen = deal.status
  PROVE  IInv'
<1>1. TypeOK'
  BY DEF IInv, TypeOK
<1>2. TxnShape'
  BY DEF IInv, TxnShape
<1> QED
  BY <1>1, <1>2 DEF IInv, QuotesHaveADeal, CompletedIffPaid

\* A commit: the transaction is over, and what it wrote keeps the tables right.
LEMMA CommitStep ==
  ASSUME IInv, NEW t \in Txns, End(t), deal' \in Deal, cond' \in [Kinds -> Condition],
         \A k \in Kinds : cond'[k].settled => cond'[k].status \in Decided,
         quotes' \subseteq Txns, payouts' \subseteq Payout,
         deal.status # "none" => deal'.status # "none",
         deal.status = "completed" => deal'.status = "completed",
         QuotesHaveADeal', CompletedIffPaid'
  PROVE  IInv'
<1>1. /\ txn' \in [Txns -> Txn]
      /\ \A u \in Txns : txn'[u].pc # "over" => txn'[u] = txn[u]
  BY EndTyped DEF IInv
<1>2. TypeOK'
  BY <1>1 DEF TypeOK
<1>3. TxnShape'
  BY <1>1 DEF IInv, TxnShape
<1> QED
  BY <1>2, <1>3 DEF IInv

-----------------------------------------------------------------------------
\* The inductive invariant, action by action

LEMMA QuoteCommitStep ==
  ASSUME IInv, NEW t \in Txns, NEW hasKey \in BOOLEAN, QuoteCommit(t, hasKey)
  PROVE  IInv'
<1>1. End(t) /\ payouts' = payouts /\ deal \in Deal /\ TypeOK /\ At(t, "quote")
  BY DEF QuoteCommit, IInv, TypeOK
<1>2. CASE UNCHANGED <<deal, cond, quotes>>
  BY <1>1, <1>2, EndTyped, ReadOnlyStep
<1>3. CASE /\ txn[t].seen = "none" /\ deal.status = "none"
           /\ deal' = [deal EXCEPT !.status = "negotiating", !.terms = t]
           /\ cond' = Healed(hasKey) /\ quotes' = quotes \cup {t}
  <2>1. deal' \in Deal /\ deal'.status = "negotiating" /\ deal'.terms = t
    BY <1>1, <1>3 DEF Deal, Statuses, Mainline, Running, Terms
  <2>2. QuotesHaveADeal' /\ CompletedIffPaid'
    BY <1>1, <1>3, <2>1, HealedKeeps DEF QuotesHaveADeal, CompletedIffPaid, IInv
  <2> QED
    BY <1>1, <1>3, <2>1, <2>2, HealedKeeps, CommitStep DEF TypeOK
<1>4. CASE /\ txn[t].seen = "negotiating" /\ deal' = [deal EXCEPT !.terms = t]
           /\ cond' = Replanned(hasKey) /\ quotes' = quotes \cup {t}
  <2>1. deal' \in Deal /\ deal'.status = deal.status /\ deal'.terms = t
    BY <1>1, <1>4 DEF Deal, Terms
  <2>2. deal.status # "none"
    BY <1>1, <1>4 DEF IInv, TxnShape, At
  <2>3. QuotesHaveADeal' /\ CompletedIffPaid'
    BY <1>1, <1>4, <2>1, <2>2, ReplannedKeeps DEF QuotesHaveADeal, CompletedIffPaid, IInv
  <2> QED
    BY <1>1, <1>4, <2>1, <2>3, ReplannedKeeps, CommitStep DEF TypeOK
<1>5. CASE /\ txn[t].seen \notin {"none", "negotiating"} /\ deal' = deal
           /\ cond' = Healed(hasKey) /\ quotes' = quotes \cup {t}
  <2>1. deal.status # "none"
    BY <1>1, <1>5 DEF IInv, TxnShape, At
  <2>2. QuotesHaveADeal' /\ CompletedIffPaid'
    BY <1>1, <1>5, <2>1, HealedKeeps DEF QuotesHaveADeal, CompletedIffPaid, IInv
  <2> QED
    BY <1>1, <1>5, <2>2, HealedKeeps, CommitStep DEF TypeOK
<1> QED
  BY <1>2, <1>3, <1>4, <1>5 DEF QuoteCommit

LEMMA RegisterCommitStep ==
  ASSUME IInv, NEW t \in Txns, NEW kinds \in SUBSET Refs, RegisterCommit(t, kinds)
  PROVE  IInv'
<1>1. /\ End(t) /\ UNCHANGED <<quotes, payouts>> /\ deal \in Deal /\ TypeOK
      /\ deal.status # "none"
  BY DEF RegisterCommit, IInv, TypeOK, TxnShape, At
<1>2. CASE UNCHANGED <<deal, cond>>
  BY <1>1, <1>2, EndTyped, ReadOnlyStep
<1>3. ASSUME NEW s \in Statuses,
             deal' = [deal EXCEPT !.refs = @ \cup kinds, !.status = s],
             Settle(kinds, "met"), s # "none", s = "completed" <=> deal.status = "completed"
      PROVE  IInv'
  <2>1. deal' \in Deal /\ deal'.status = s /\ deal'.terms = deal.terms
    BY <1>1, <1>3 DEF Deal, Refs
  <2>2. kinds \in SUBSET Kinds /\ "met" \in Decided
    BY DEF Kinds, Decided
  <2>3. /\ cond' \in [Kinds -> Condition]
        /\ \A k \in Kinds : /\ cond'[k].settled => cond'[k].status \in Decided
                            /\ cond[k].status # "absent" => cond'[k].status # "absent"
    BY <1>1, <1>3, <2>2, SettleKeeps
  <2>4. QuotesHaveADeal' /\ CompletedIffPaid'
    BY <1>1, <1>3, <2>1, <2>3 DEF QuotesHaveADeal, CompletedIffPaid, IInv
  <2> QED
    BY <1>1, <1>3, <2>1, <2>3, <2>4, CommitStep DEF TypeOK
<1>4. CASE /\ deal.status \in Mainline
           /\ deal' = [deal EXCEPT !.refs = @ \cup kinds, !.status = Registered(@, kinds)]
           /\ Settle(kinds, "met")
  <2>1. Registered(deal.status, kinds) \in Mainline
    BY <1>4, RegisteredForward
  <2>2. Registered(deal.status, kinds) = "completed" <=> deal.status = "completed"
    BY <1>4, RegisteredForward
  <2>3. Registered(deal.status, kinds) \in Statuses /\ Registered(deal.status, kinds) # "none"
    BY <2>1 DEF Statuses, Mainline, Running
  <2> QED
    BY <1>3, <1>4, <2>2, <2>3
<1>5. CASE deal' = [deal EXCEPT !.refs = @ \cup kinds] /\ Settle(kinds, "met")
  <2>1. deal' = [deal EXCEPT !.refs = @ \cup kinds, !.status = deal.status]
    BY <1>1, <1>5 DEF Deal
  <2>2. deal.status \in Statuses
    BY <1>1 DEF Deal
  <2> QED
    BY <1>1, <1>3, <1>5, <2>1, <2>2
<1> QED
  BY <1>2, <1>4, <1>5 DEF RegisterCommit

LEMMA VerifyCommitStep ==
  ASSUME IInv, NEW t \in Txns, NEW k \in Kinds, NEW s \in Decided, VerifyCommit(t, k, s)
  PROVE  IInv'
<1>1. /\ End(t) /\ UNCHANGED <<deal, quotes, payouts>> /\ TypeOK /\ Settle({k}, s)
  BY DEF VerifyCommit, IInv
<1>2. /\ cond' \in [Kinds -> Condition]
      /\ \A j \in Kinds : /\ cond'[j].settled => cond'[j].status \in Decided
                          /\ cond[j].status # "absent" => cond'[j].status # "absent"
  <2>1. {k} \in SUBSET Kinds
    OBVIOUS
  <2> QED
    BY <1>1, <2>1, SettleKeeps
<1>3. QuotesHaveADeal' /\ CompletedIffPaid'
  BY <1>1, <1>2 DEF QuotesHaveADeal, CompletedIffPaid, IInv
<1> QED
  BY <1>1, <1>2, <1>3, CommitStep DEF TypeOK

LEMMA PayoutCommitStep ==
  ASSUME IInv, NEW t \in Txns, PayoutCommit(t)
  PROVE  IInv'
<1> DEFINE p == [by |-> t, disclosed |-> txn[t].disclosed, paid |-> txn[t].due]
<1>1. /\ End(t) /\ UNCHANGED <<cond, quotes>> /\ deal \in Deal /\ TypeOK
      /\ deal.status # "none" /\ txn[t].pc = "released"
  BY DEF PayoutCommit, IInv, TypeOK, TxnShape, At
<1>2. p \in Payout
  BY <1>1 DEF TypeOK, Txn, Payout
<1>3. payouts' = payouts \cup {p} /\ payouts' \subseteq Payout
  BY <1>1, <1>2 DEF PayoutCommit, TypeOK
<1>4. deal' \in Deal /\ deal'.status = "completed" /\ deal'.terms = deal.terms
  <2>1. CASE Reached(txn[t].seen, "completed")
    <3>1. txn[t].seen = "completed"
      BY <2>1 DEF Reached, Order, Mainline, Running
    <3> QED
      BY <1>1, <2>1, <3>1 DEF PayoutCommit, IInv, TxnShape
  <2>2. CASE ~Reached(txn[t].seen, "completed")
    <3>1. deal' = [deal EXCEPT !.status = "completed"]
      BY <2>2 DEF PayoutCommit
    <3> QED
      BY <1>1, <3>1 DEF Deal, Statuses, Mainline
  <2> QED
    BY <2>1, <2>2
<1>5. QuotesHaveADeal' /\ CompletedIffPaid'
  BY <1>1, <1>3, <1>4 DEF QuotesHaveADeal, CompletedIffPaid, IInv
<1> QED
  BY <1>1, <1>3, <1>4, <1>5, CommitStep DEF TypeOK

\* The reads: none of them writes a table.
LEMMA ReadStep ==
  ASSUME IInv, NEW t \in Txns,
         \/ QuoteRead(t) \/ RegisterRead(t) \/ VerifyRead(t)
         \/ PayoutPropose(t) \/ PayoutRun(t) \/ PayoutRelease(t)
  PROVE  IInv'
<1>1. UNCHANGED <<deal, cond, quotes, payouts>> /\ TypeOK
  BY DEF QuoteRead, RegisterRead, VerifyRead, PayoutPropose, PayoutRun, PayoutRelease, IInv
<1>2. CASE End(t)
  BY <1>1, <1>2, EndTyped, ReadOnlyStep
<1>3. CASE GoOn(t, "quote")
  BY <1>1, <1>3, GoOnTyped, ReadOnlyStep DEF Points
<1>4. ASSUME NEW p \in {"refs", "verify", "released"}, GoOn(t, p), deal.status # "none"
      PROVE  IInv'
  BY <1>1, <1>4, GoOnTyped, ReadOnlyStep DEF Points
<1>5. CASE PayoutPropose(t) \/ (PayoutRun(t) /\ Ready)
  <2>1. /\ deal.status # "none" /\ txn[t] \in Txn /\ deal.terms \in Terms
    BY <1>1, <1>5 DEF PayoutPropose, Ready, TypeOK, Deal
  <2>2. \E r \in Txn : txn' = [txn EXCEPT ![t] = r] /\ r.pc \in {"offered", "paying"}
    <3>1. [txn[t] EXCEPT !.pc = "offered", !.disclosed = deal.terms] \in Txn
      BY <2>1 DEF Txn, Points
    <3>2. [txn[t] EXCEPT !.pc = "paying", !.due = deal.terms] \in Txn
      BY <2>1 DEF Txn, Points
    <3>3. /\ [txn[t] EXCEPT !.pc = "offered", !.disclosed = deal.terms].pc = "offered"
          /\ [txn[t] EXCEPT !.pc = "paying", !.due = deal.terms].pc = "paying"
      BY <2>1 DEF Txn
    <3> QED
      BY <1>5, <3>1, <3>2, <3>3 DEF PayoutPropose, PayoutRun
  <2> QED
    BY <1>1, <2>1, <2>2, ReadOnlyStep DEF TypeOK
<1> QED
  BY <1>2, <1>3, <1>4, <1>5
     DEF QuoteRead, RegisterRead, VerifyRead, PayoutRun, PayoutRelease, Mainline, Running

\* An operator's own changes keep the books too.
LEMMA OperatorStep ==
  ASSUME IInv, Dispute \/ Default \/ \E s \in Running : Resume(s)
  PROVE  IInv'
<1>1. /\ UNCHANGED <<cond, quotes, payouts, txn>> /\ deal \in Deal
      /\ deal.status \notin {"none", "completed"}
      /\ \E s \in Statuses \ {"none", "completed"} : deal' = [deal EXCEPT !.status = s]
  BY DEF Dispute, Default, Resume, Running, Statuses, Mainline, IInv, TypeOK
<1>2. /\ deal' \in Deal /\ deal'.status \notin {"none", "completed"}
      /\ deal'.terms = deal.terms
  BY <1>1 DEF Deal
<1>3. TypeOK'
  BY <1>1, <1>2 DEF IInv, TypeOK
<1>4. TxnShape' /\ QuotesHaveADeal' /\ CompletedIffPaid'
  BY <1>1, <1>2 DEF IInv, TxnShape, QuotesHaveADeal, CompletedIffPaid
<1> QED
  BY <1>3, <1>4 DEF IInv

LEMMA IInvInduction == IInv /\ [Next]_vars => IInv'
<1> SUFFICES ASSUME IInv, [Next]_vars PROVE IInv'
  OBVIOUS
<1>1. CASE UNCHANGED vars
  BY <1>1 DEF vars, IInv, TypeOK, TxnShape, QuotesHaveADeal, CompletedIffPaid
<1>2. ASSUME NEW t \in Txns, Step(t)
      PROVE  IInv'
  BY <1>2, QuoteCommitStep, RegisterCommitStep, VerifyCommitStep, PayoutCommitStep,
     ReadStep DEF Step
<1>3. CASE Dispute \/ Default \/ \E s \in Running : Resume(s)
  BY <1>3, OperatorStep
<1> QED
  BY <1>1, <1>2, <1>3 DEF Next

\* The inductive invariant holds in every reachable state.
THEOREM DealInvariant == Spec => []IInv
<1>1. Init => IInv
  BY DealAssumption
     DEF Init, IInv, TypeOK, TxnShape, QuotesHaveADeal, CompletedIffPaid, NoRow, Fresh,
         Deal, Condition, Txn, Statuses, Mainline, Running, Terms, Points, Decided
<1> QED
  BY <1>1, IInvInduction, PTL DEF Spec

\* The rows of a deal and the locals of its transactions are well typed.
THEOREM DealTypeCorrect == Spec => []TypeOK
<1>1. IInv => TypeOK
  BY DEF IInv
<1> QED
  BY <1>1, DealInvariant, PTL

\* A committed quote always has its deal and all of its conditions.
THEOREM QuotesAreBacked == Spec => []QuotesHaveADeal
<1>1. IInv => QuotesHaveADeal
  BY DEF IInv
<1> QED
  BY <1>1, DealInvariant, PTL

\* Completed and paid are one and the same, in every state.
THEOREM CompletionIsPayment == Spec => []CompletedIffPaid
<1>1. IInv => CompletedIffPaid
  BY DEF IInv
<1> QED
  BY <1>1, DealInvariant, PTL

-----------------------------------------------------------------------------
\* Steps

\* No order of registrations and payouts takes a deal back along the mainline.
THEOREM NeverBackwards == Spec => OnlyForward
<1> DEFINE Forward == deal.status \in Mainline /\ deal'.status \in Mainline
                        => Order(deal'.status) >= Order(deal.status)
<1>1. IInv /\ [Next]_vars => Forward
  <2> SUFFICES ASSUME IInv, [Next]_vars, deal.status \in Mainline,
                      deal'.status \in Mainline
               PROVE  Order(deal'.status) >= Order(deal.status)
    OBVIOUS
  <2> USE DEF Mainline, Running
  <2>0. deal \in Deal
    BY DEF IInv, TypeOK
  <2>1. CASE deal'.status = deal.status
    BY <2>1 DEF Order
  <2>2. CASE deal'.status = "completed"
    BY <2>2 DEF Order
  <2>3. ASSUME NEW t \in Txns, NEW hasKey \in BOOLEAN, QuoteCommit(t, hasKey)
        PROVE  deal'.status = deal.status
    BY <2>0, <2>3 DEF QuoteCommit, Deal
  <2>4. ASSUME NEW t \in Txns, NEW kinds \in SUBSET Refs, RegisterCommit(t, kinds)
        PROVE  deal'.status \in {deal.status, Registered(deal.status, kinds)}
    BY <2>0, <2>4 DEF RegisterCommit, Deal
  <2>5. ASSUME NEW t \in Txns, PayoutCommit(t)
        PROVE  deal'.status \in {deal.status, "completed"}
    BY <2>0, <2>5 DEF PayoutCommit, Deal
  <2>6. ASSUME Dispute \/ Default \/ \E s \in Running : Resume(s)
        PROVE  FALSE
    BY <2>0, <2>6 DEF Dispute, Default, Resume, Deal
  <2>7. ASSUME NEW t \in Txns,
               \/ QuoteRead(t) \/ RegisterRead(t) \/ VerifyRead(t)
               \/ PayoutPropose(t) \/ PayoutRun(t) \/ PayoutRelease(t)
               \/ \E k \in Kinds, s \in Decided : VerifyCommit(t, k, s)
        PROVE  deal' = deal
    BY <2>7 DEF QuoteRead, RegisterRead, VerifyRead, PayoutPropose, PayoutRun,
                PayoutRelease, VerifyCommit
  <2>8. CASE UNCHANGED vars
    BY <2>1, <2>8 DEF vars
  <2>9. ASSUME NEW t \in Txns, Step(t)
        PROVE  Order(deal'.status) >= Order(deal.status)
    <3>1. \A kinds \in SUBSET Refs :
            Order(Registered(deal.status, kinds)) >= Order(deal.status)
      BY RegisteredForward
    <3>2. \/ deal'.status \in {deal.status, "completed"}
          \/ \E kinds \in SUBSET Refs : deal'.status = Registered(deal.status, kinds)
      BY <2>3, <2>4, <2>5, <2>7, <2>9 DEF Step
    <3> QED
      BY <2>1, <2>2, <3>1, <3>2
  <2> QED
    BY <2>6, <2>8, <2>9 DEF Next
<1>2. IInv /\ [Next]_vars =>
        [deal.status \in Mainline /\ deal'.status \in Mainline
           => Order(deal'.status) >= Order(deal.status)]_vars
  BY <1>1
<1> QED
  BY <1>2, DealInvariant, PTL DEF Spec, OnlyForward

\* A decision of a person is never undone by a later quote.
THEOREM DecisionsStand == Spec => PersonWins
<1> DEFINE Stands(k) == cond[k].settled =>
             /\ cond'[k].settled /\ cond'[k].status \in Decided
             /\ cond'[k].required = cond[k].required
<1>1. IInv /\ [Next]_vars => \A k \in Kinds : Stands(k)
  <2> SUFFICES ASSUME IInv, [Next]_vars, NEW k \in Kinds PROVE Stands(k)
    OBVIOUS
  <2>0. TypeOK
    BY DEF IInv
  <2>1. CASE cond'[k] = cond[k]
    BY <2>0, <2>1 DEF TypeOK
  <2>2. ASSUME NEW t \in Txns, NEW hasKey \in BOOLEAN, QuoteCommit(t, hasKey)
        PROVE  Stands(k)
    <3>1. cond' \in {cond, Healed(hasKey), Replanned(hasKey)}
      BY <2>2 DEF QuoteCommit
    <3> QED
      BY <2>0, <2>1, <3>1, HealedKeeps, ReplannedKeeps
  <2>3. ASSUME NEW kinds \in SUBSET Kinds, NEW s \in Decided, Settle(kinds, s)
        PROVE  Stands(k)
    BY <2>0, <2>3, SettleKeeps
  <2>4. ASSUME NEW t \in Txns, NEW kinds \in SUBSET Refs, RegisterCommit(t, kinds)
        PROVE  Stands(k)
    <3>1. kinds \in SUBSET Kinds /\ "met" \in Decided
      BY DEF Kinds, Decided
    <3>2. cond' = cond \/ Settle(kinds, "met")
      BY <2>4 DEF RegisterCommit
    <3> QED
      BY <2>1, <2>3, <3>1, <3>2
  <2>5. ASSUME NEW t \in Txns, NEW j \in Kinds, NEW s \in Decided, VerifyCommit(t, j, s)
        PROVE  Stands(k)
    <3>1. {j} \in SUBSET Kinds /\ Settle({j}, s)
      BY <2>5 DEF VerifyCommit
    <3> QED
      BY <2>3, <3>1
  <2>6. ASSUME \/ \E t \in Txns :
                   \/ QuoteRead(t) \/ RegisterRead(t) \/ VerifyRead(t)
                   \/ PayoutPropose(t) \/ PayoutRun(t) \/ PayoutRelease(t)
                   \/ PayoutCommit(t)
               \/ Dispute \/ Default \/ (\E s \in Running : Resume(s))
               \/ UNCHANGED vars
        PROVE  Stands(k)
    <3>1. cond' = cond
      BY <2>6 DEF QuoteRead, RegisterRead, VerifyRead, PayoutPropose, PayoutRun,
                  PayoutRelease, PayoutCommit, Dispute, Default, Resume, vars
    <3> QED
      BY <2>1, <3>1
  <2> QED
    BY <2>2, <2>4, <2>5, <2>6 DEF Next, Step
<1>2. IInv /\ [Next]_vars =>
        [\A k \in Kinds : cond[k].settled =>
            /\ cond'[k].settled /\ cond'[k].status \in Decided
            /\ cond'[k].required = cond[k].required]_vars
  BY <1>1
<1> QED
  BY <1>2, DealInvariant, PTL DEF Spec, PersonWins

-----------------------------------------------------------------------------
\* The key pool.

\* The keys a transaction has handed out.
GoneTo(t) == {d \in gone : d.to = t}

\* A transaction has handed out nothing before its commit, and all or nothing
\* after it.
HandedOnce ==
  \A t \in KeyTxns :
    /\ ktxn[t].pc # "over" => GoneTo(t) = {}
    /\ Cardinality(GoneTo(t)) \in {0, Quantity}

\* What is gone was registered, is gone once, and has settled the condition.
GoneIsRegistered == \A d \in gone : d.key \in keys
GoneOnce == \A d, e \in gone : d.key = e.key => d = e
Marked == gone # {} => cond["key"].settled

PoolInv == KeyTypeOK /\ HandedOnce /\ GoneIsRegistered /\ GoneOnce /\ Marked
KInv == IInv /\ PoolInv

-----------------------------------------------------------------------------
\* Counting

LEMMA KeyIsFinite == IsFiniteSet(Key)
<1> DEFINE f == [p \in KeyRefs \X KeyTxns |-> [ref |-> p[1], by |-> p[2]]]
<1>1. IsFiniteSet(KeyRefs \X KeyTxns)
  BY FS_Product, KeyPoolAssumption
<1>2. f \in [KeyRefs \X KeyTxns -> Key]
  BY DEF Key
<1>3. \A k \in Key : f[<<k.ref, k.by>>] = k
  BY DEF Key
<1>4. \A k \in Key : <<k.ref, k.by>> \in KeyRefs \X KeyTxns
  BY DEF Key
<1>5. f \in Surjection(KeyRefs \X KeyTxns, Key)
  BY <1>2, <1>3, <1>4 DEF Surjection
<1> QED
  BY <1>1, <1>5, FS_Surjection

\* A transaction hands out as many keys as it has picked.
LEMMA AsManyAsPicked ==
  ASSUME NEW rows \in SUBSET Key, NEW t \in KeyTxns
  PROVE  Cardinality([key : rows, to : {t}]) = Cardinality(rows)
<1> DEFINE T == [key : rows, to : {t}]
           f == [k \in rows |-> [key |-> k, to |-> t]]
<1>1. IsFiniteSet(rows)
  BY KeyIsFinite, FS_Subset
<1>2. f \in [rows -> T]
  OBVIOUS
<1>3. \A d \in T : d.key \in rows /\ f[d.key] = d
  OBVIOUS
<1>4. \A j, k \in rows : f[j] = f[k] => j = k
  <2> SUFFICES ASSUME NEW j \in rows, NEW k \in rows, f[j] = f[k] PROVE j = k
    OBVIOUS
  <2>1. f[j].key = j /\ f[k].key = k
    OBVIOUS
  <2> QED
    BY <2>1
<1>5. f \in Bijection(rows, T)
  BY <1>2, <1>3, <1>4 DEF Bijection, Injection, Surjection, IsInjective
<1>6. ExistsBijection(rows, T)
  BY <1>5 DEF ExistsBijection
<1> QED
  BY <1>1, <1>6, FS_Bijection

-----------------------------------------------------------------------------
\* The steps of the pool

LEMMA EndKeyTyped ==
  ASSUME KeyTypeOK, NEW t \in KeyTxns, EndKey(t)
  PROVE  /\ ktxn' \in [KeyTxns -> KeyTxn]
         /\ ktxn'[t].pc = "over"
         /\ \A u \in KeyTxns : u # t => ktxn'[u] = ktxn[u]
  BY DEF KeyTypeOK, EndKey, KeyTxn

\* The deal's own invariant is about rows a pool step leaves alone.
LEMMA PoolStepKeepsDeal ==
  ASSUME IInv, UNCHANGED vars
  PROVE  IInv'
  BY DEF vars, IInv, TypeOK, TxnShape, QuotesHaveADeal, CompletedIffPaid

LEMMA KeysReadStep ==
  ASSUME KInv, NEW t \in KeyTxns, KeysRead(t)
  PROVE  KInv'
<1>1. UNCHANGED <<keys, gone>> /\ UNCHANGED vars /\ ktxn[t].pc = "ready" /\ KeyTypeOK
  BY DEF KeysRead, KInv, PoolInv
<1>2. /\ ktxn' \in [KeyTxns -> KeyTxn]
      /\ ktxn'[t].pc \in {"over", "register"}
      /\ \A u \in KeyTxns : u # t => ktxn'[u] = ktxn[u]
  <2>1. CASE EndKey(t)
    BY <1>1, <2>1, EndKeyTyped
  <2>2. CASE ktxn' = [ktxn EXCEPT ![t] =
                        [@ EXCEPT !.pc = "register", !.known = {k.ref : k \in keys}]]
    <3>1. {k.ref : k \in keys} \in SUBSET KeyRefs
      BY <1>1 DEF KeyTypeOK, Key
    <3>2. LET r == [ktxn[t] EXCEPT !.pc = "register", !.known = {k.ref : k \in keys}]
          IN  r \in KeyTxn /\ r.pc = "register"
      BY <1>1, <3>1 DEF KeyTypeOK, KeyTxn
    <3> QED
      BY <1>1, <2>2, <3>2 DEF KeyTypeOK
  <2> QED
    BY <2>1, <2>2 DEF KeysRead
<1>3. KeyTypeOK'
  BY <1>1, <1>2 DEF KeyTypeOK
<1>4. HandedOnce'
  BY <1>1, <1>2 DEF KInv, PoolInv, HandedOnce, GoneTo
<1>5. GoneIsRegistered' /\ GoneOnce' /\ Marked'
  BY <1>1 DEF KInv, PoolInv, GoneIsRegistered, GoneOnce, Marked, vars
<1>6. IInv'
  BY <1>1, PoolStepKeepsDeal DEF KInv
<1> QED
  BY <1>3, <1>4, <1>5, <1>6 DEF KInv, PoolInv

LEMMA KeysCommitStep ==
  ASSUME KInv, NEW t \in KeyTxns, NEW refs \in SUBSET KeyRefs, KeysCommit(t, refs)
  PROVE  KInv'
<1>1. /\ UNCHANGED gone /\ UNCHANGED vars /\ KeyTypeOK /\ EndKey(t)
      /\ ktxn[t].pc = "register" /\ keys \subseteq keys' /\ keys' \subseteq Key
  BY DEF KeysCommit, KInv, PoolInv, KeyTypeOK, Key
<1>2. /\ ktxn' \in [KeyTxns -> KeyTxn]
      /\ ktxn'[t].pc = "over"
      /\ \A u \in KeyTxns : u # t => ktxn'[u] = ktxn[u]
  BY <1>1, EndKeyTyped
<1>3. KeyTypeOK'
  BY <1>1, <1>2 DEF KeyTypeOK
<1>4. HandedOnce'
  BY <1>1, <1>2 DEF KInv, PoolInv, HandedOnce, GoneTo
<1>5. GoneIsRegistered' /\ GoneOnce' /\ Marked'
  BY <1>1 DEF KInv, PoolInv, GoneIsRegistered, GoneOnce, Marked, vars
<1>6. IInv'
  BY <1>1, PoolStepKeepsDeal DEF KInv
<1> QED
  BY <1>3, <1>4, <1>5, <1>6 DEF KInv, PoolInv

LEMMA DistributeRunStep ==
  ASSUME KInv, NEW t \in KeyTxns, NEW rows \in SUBSET Reserved, DistributeRun(t, rows)
  PROVE  KInv'
<1>1. UNCHANGED <<keys, gone>> /\ UNCHANGED vars /\ ktxn[t].pc = "ready" /\ KeyTypeOK
  BY DEF DistributeRun, KInv, PoolInv
<1>2. /\ ktxn' \in [KeyTxns -> KeyTxn]
      /\ ktxn'[t].pc = "handed" =>
           ktxn'[t].picked \subseteq keys /\ Cardinality(ktxn'[t].picked) = Quantity
      /\ \A u \in KeyTxns : u # t => ktxn'[u] = ktxn[u]
  <2>1. CASE EndKey(t)
    BY <1>1, <2>1, EndKeyTyped
  <2>2. CASE /\ Cardinality(rows) = Quantity
             /\ ktxn' = [ktxn EXCEPT ![t] = [@ EXCEPT !.pc = "handed", !.picked = rows]]
    <3>1. rows \subseteq keys /\ rows \in SUBSET Key
      BY <1>1 DEF Reserved, KeyTypeOK
    <3>2. LET r == [ktxn[t] EXCEPT !.pc = "handed", !.picked = rows]
          IN  r \in KeyTxn /\ r.picked = rows
      BY <1>1, <3>1 DEF KeyTypeOK, KeyTxn
    <3> QED
      BY <1>1, <2>2, <3>1, <3>2 DEF KeyTypeOK
  <2> QED
    BY <2>1, <2>2 DEF DistributeRun
<1>3. KeyTypeOK'
  BY <1>1, <1>2 DEF KeyTypeOK
<1>4. HandedOnce'
  BY <1>1, <1>2 DEF KInv, PoolInv, HandedOnce, GoneTo
<1>5. GoneIsRegistered' /\ GoneOnce' /\ Marked'
  BY <1>1 DEF KInv, PoolInv, GoneIsRegistered, GoneOnce, Marked, vars
<1>6. IInv'
  BY <1>1, PoolStepKeepsDeal DEF KInv
<1> QED
  BY <1>3, <1>4, <1>5, <1>6 DEF KInv, PoolInv

\* The conditional update is what keeps two distributions apart: it flips the
\* rows only while none of them is gone.
LEMMA DistributeCommitStep ==
  ASSUME KInv, NEW t \in KeyTxns, DistributeCommit(t)
  PROVE  KInv'
<1> DEFINE rows == ktxn[t].picked
           out == [key : rows, to : {t}]
<1>1. /\ UNCHANGED keys /\ KeyTypeOK /\ EndKey(t) /\ ktxn[t].pc = "handed"
      /\ rows \subseteq keys /\ Cardinality(rows) = Quantity /\ rows \in SUBSET Key
  BY DEF DistributeCommit, KInv, PoolInv, KeyTypeOK, KeyTxn
<1>2. /\ ktxn' \in [KeyTxns -> KeyTxn]
      /\ ktxn'[t].pc = "over"
      /\ \A u \in KeyTxns : u # t => ktxn'[u] = ktxn[u]
  BY <1>1, EndKeyTyped
<1>3. GoneTo(t) = {}
  BY <1>1 DEF KInv, PoolInv, HandedOnce
<1>4. CASE UNCHANGED <<gone, vars>>
  <2>1. KeyTypeOK'
    BY <1>1, <1>2, <1>4 DEF KeyTypeOK
  <2>2. HandedOnce'
    BY <1>1, <1>2, <1>4 DEF KInv, PoolInv, HandedOnce, GoneTo
  <2>3. GoneIsRegistered' /\ GoneOnce' /\ Marked'
    BY <1>1, <1>4 DEF KInv, PoolInv, GoneIsRegistered, GoneOnce, Marked, vars
  <2> QED
    BY <1>4, <2>1, <2>2, <2>3, PoolStepKeepsDeal DEF KInv, PoolInv
<1>5. CASE rows \subseteq Reserved /\ gone' = gone \cup out /\ KeyConditionMet
  <2>1. out \subseteq Distribution
    BY <1>1 DEF Distribution
  <2>2. KeyTypeOK'
    BY <1>1, <1>2, <1>5, <2>1 DEF KeyTypeOK
  <2>3. \A u \in KeyTxns : GoneTo(u)' = IF u = t THEN out ELSE GoneTo(u)
    BY <1>3, <1>5 DEF GoneTo
  <2>4. Cardinality(out) = Quantity
    BY <1>1, AsManyAsPicked
  <2>5. HandedOnce'
    BY <1>2, <2>3, <2>4 DEF KInv, PoolInv, HandedOnce
  <2>6. GoneIsRegistered'
    BY <1>1, <1>5 DEF KInv, PoolInv, GoneIsRegistered
  <2>7. GoneOnce'
    <3>1. \A d \in gone, e \in out : d.key # e.key
      BY <1>5 DEF Reserved
    <3>2. \A d, e \in out : d.key = e.key => d = e
      OBVIOUS
    <3> QED
      BY <1>5, <3>1, <3>2 DEF KInv, PoolInv, GoneOnce
  <2>8. /\ cond' \in [Kinds -> Condition]
        /\ \A k \in Kinds : /\ cond'[k].settled => cond'[k].status \in Decided
                            /\ cond[k].status # "absent" => cond'[k].status # "absent"
        /\ cond'["key"].settled
    <3>1. {"key"} \in SUBSET Kinds /\ "met" \in Decided /\ TypeOK /\ Settle({"key"}, "met")
      BY <1>5 DEF Kinds, Decided, KInv, IInv, KeyConditionMet
    <3>2. cond["key"] \in Condition
      BY <3>1 DEF TypeOK
    <3>3. cond'["key"].settled
      BY <3>1, <3>2 DEF Settle, Condition
    <3> QED
      BY <3>1, <3>3, SettleKeeps
  <2>9. IInv'
    BY <1>5, <2>8
       DEF KeyConditionMet, KInv, IInv, TypeOK, TxnShape, QuotesHaveADeal, CompletedIffPaid
  <2> QED
    BY <2>2, <2>5, <2>6, <2>7, <2>8, <2>9 DEF KInv, PoolInv, Marked
<1> QED
  BY <1>4, <1>5 DEF DistributeCommit, Flip

-----------------------------------------------------------------------------
\* The steps of the deal: a key condition that is settled stays settled.

LEMMA SettledStays ==
  ASSUME IInv, [Next]_vars, cond["key"].settled
  PROVE  cond'["key"].settled
<1>0. TypeOK /\ "key" \in Kinds
  BY DEF IInv, Kinds
<1>1. ASSUME NEW t \in Txns, NEW hasKey \in BOOLEAN, QuoteCommit(t, hasKey)
      PROVE  cond'["key"].settled
  <2>1. cond' \in {cond, Healed(hasKey), Replanned(hasKey)}
    BY <1>1 DEF QuoteCommit
  <2> QED
    BY <1>0, <2>1, HealedKeeps, ReplannedKeeps
<1>2. ASSUME NEW kinds \in SUBSET Kinds, NEW s \in Decided, Settle(kinds, s)
      PROVE  cond'["key"].settled
  BY <1>0, <1>2, SettleKeeps
<1>3. ASSUME NEW t \in Txns, NEW kinds \in SUBSET Refs, RegisterCommit(t, kinds)
      PROVE  cond'["key"].settled
  <2>1. kinds \in SUBSET Kinds /\ "met" \in Decided
    BY DEF Kinds, Decided
  <2>2. cond' = cond \/ Settle(kinds, "met")
    BY <1>3 DEF RegisterCommit
  <2> QED
    BY <1>2, <2>1, <2>2
<1>4. ASSUME NEW t \in Txns, NEW k \in Kinds, NEW s \in Decided, VerifyCommit(t, k, s)
      PROVE  cond'["key"].settled
  <2>1. {k} \in SUBSET Kinds /\ Settle({k}, s)
    BY <1>4 DEF VerifyCommit
  <2> QED
    BY <1>2, <2>1
<1>5. ASSUME \/ \E t \in Txns :
                 \/ QuoteRead(t) \/ RegisterRead(t) \/ VerifyRead(t)
                 \/ PayoutPropose(t) \/ PayoutRun(t) \/ PayoutRelease(t)
                 \/ PayoutCommit(t)
             \/ Dispute \/ Default \/ (\E s \in Running : Resume(s))
             \/ UNCHANGED vars
      PROVE  cond'["key"].settled
  BY <1>5 DEF QuoteRead, RegisterRead, VerifyRead, PayoutPropose, PayoutRun,
              PayoutRelease, PayoutCommit, Dispute, Default, Resume, vars
<1> QED
  BY <1>1, <1>3, <1>4, <1>5 DEF Next, Step

LEMMA KInvInduction == KInv /\ [KeyNext]_<<vars, keyVars>> => KInv'
<1> SUFFICES ASSUME KInv, [KeyNext]_<<vars, keyVars>> PROVE KInv'
  OBVIOUS
<1>1. CASE [Next]_vars /\ UNCHANGED keyVars
  <2>1. IInv'
    BY <1>1, IInvInduction DEF KInv
  <2>2. KeyTypeOK' /\ HandedOnce' /\ GoneIsRegistered' /\ GoneOnce'
    BY <1>1 DEF keyVars, KInv, PoolInv, KeyTypeOK, HandedOnce, GoneTo, GoneIsRegistered, GoneOnce
  <2>3. Marked'
    BY <1>1, SettledStays DEF keyVars, KInv, PoolInv, Marked
  <2> QED
    BY <2>1, <2>2, <2>3 DEF KInv, PoolInv
<1>2. ASSUME NEW t \in KeyTxns, KeyStep(t)
      PROVE  KInv'
  BY <1>2, KeysReadStep, KeysCommitStep, DistributeRunStep, DistributeCommitStep DEF KeyStep
<1> QED
  BY <1>1, <1>2 DEF KeyNext

\* The inductive invariant of the pool and the deal together.
THEOREM PoolInvariant == KeySpec => []KInv
<1>1. Init => IInv
  BY DealAssumption
     DEF Init, IInv, TypeOK, TxnShape, QuotesHaveADeal, CompletedIffPaid, NoRow, Fresh,
         Deal, Condition, Txn, Statuses, Mainline, Running, Terms, Points, Decided
<1>2. KeyInit => PoolInv
  <2> SUFFICES ASSUME KeyInit PROVE PoolInv
    OBVIOUS
  <2>1. KeyTypeOK
    BY DEF KeyInit, KeyTypeOK, KeyTxn
  <2>2. HandedOnce
    BY FS_EmptySet DEF KeyInit, HandedOnce, GoneTo
  <2> QED
    BY <2>1, <2>2 DEF KeyInit, PoolInv, GoneIsRegistered, GoneOnce, Marked
<1>3. Init /\ KeyInit => KInv
  BY <1>1, <1>2 DEF KInv
<1> QED
  BY <1>3, KInvInduction, PTL DEF KeySpec

\* The rows of the pool and the locals of its transactions are well typed: a
\* distribution holds exactly the number of keys it was approved for.
THEOREM PoolTypeCorrect == KeySpec => []KeyTypeOK
<1>1. KInv => KeyTypeOK
  BY DEF KInv, PoolInv
<1> QED
  BY <1>1, PoolInvariant, PTL

\* A key goes out once, and a distribution hands out all or nothing, whatever
\* the quantity and however many distributions overlap.
THEOREM KeysAreHandedOnce == KeySpec => []KeysGoOnce
<1>1. KInv => KeysGoOnce
  BY DEF KInv, PoolInv, KeysGoOnce, GoneOnce, HandedOnce, GoneTo
<1> QED
  BY <1>1, PoolInvariant, PTL

\* Once a key is gone the key condition of the deal is decided and stays so.
THEOREM KeysMarkTheDeal == KeySpec => []KeysLeaveATrace
<1>1. KInv => KeysLeaveATrace
  BY DEF KInv, PoolInv, IInv, TypeOK, Kinds, KeysLeaveATrace, GoneIsRegistered, Marked
<1> QED
  BY <1>1, PoolInvariant, PTL

=============================================================================
