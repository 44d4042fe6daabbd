-------------------------------- MODULE Deal --------------------------------
(***************************************************************************)
(* The life of one deal: src/src/lib/delivery, the pure rules it applies   *)
(* from src/src/lib/domain, and the two outbound tools that write it,      *)
(* commit_quote and payout.                                                *)
(*                                                                         *)
(* Every statement of this code is keyed by the deal, so one deal stands   *)
(* for all.  Its transactions are concurrent and run at READ COMMITTED: a  *)
(* transaction first reads, and its writes, made later, fall on rows that  *)
(* may have changed since.  A transaction is therefore a read step and a   *)
(* commit step.  An update locks its row until the commit, so what a       *)
(* transaction reads after such an update is part of its commit step.      *)
(*                                                                         *)
(* A transaction identifier stands for one HTTP request or one approved    *)
(* action; module Gate shows that an approved action runs at most once, so *)
(* the tools' lookups of an earlier run of the same action find nothing.   *)
(* Left out of commit_quote: the outreach thread and the budget figure of  *)
(* the approved plan, which it writes too and no code of this module reads.*)
(***************************************************************************)
EXTENDS Naturals

CONSTANTS
  Txns,      \* transactions, each used once
  Reviewed,  \* the kinds only a person settles: content and ad_disclosure
  NoQuote    \* the terms of a deal that does not exist

ASSUME DealAssumption ==
  /\ NoQuote \notin Txns
  /\ Reviewed \cap {"key", "contract", "escrow"} = {}

VARIABLES
  deal,     \* the Deal row; the quote in its terms stands for amount and currency
  cond,     \* its Deliverable rows
  quotes,   \* committed quotes, each named by the transaction that committed it
  payouts,  \* released payouts
  txn       \* the local state of every transaction

vars == <<deal, cond, quotes, payouts, txn>>

Terms == Txns \cup {NoQuote}
Refs == {"contract", "escrow"}
Kinds == Refs \cup {"key"} \cup Reviewed

\* DEAL_FLOW_ORDER, numbered.
Order(s) ==
  CASE s = "negotiating" -> 1
    [] s = "signed" -> 2
    [] s = "escrowed" -> 3
    [] s = "delivering" -> 4
    [] s = "completed" -> 5
    [] OTHER -> 0
Running == {"negotiating", "signed", "escrowed", "delivering"}
Mainline == Running \cup {"completed"}
Statuses == Mainline \cup {"none", "blocked", "defaulted"}

Deal == [status : Statuses, terms : Terms, refs : SUBSET Refs]
\* settled: verifiedBy is set, a person or a registration decided the row.
Condition ==
  [status : {"absent", "pending", "met", "missing", "na"},
   required : BOOLEAN, settled : BOOLEAN]
Decided == {"met", "missing", "na"}
Payout == [by : Txns, disclosed : Terms, paid : Terms]

Points ==
  {"ready", "quote", "refs", "verify", "offered", "paying", "released", "over"}
\* seen: the status the transaction read; disclosed: the terms on the harm
\* card of its action; due: the terms it is going to pay.
Txn == [pc : Points, seen : Statuses, disclosed : Terms, due : Terms]

TypeOK ==
  /\ deal \in Deal
  /\ cond \in [Kinds -> Condition]
  /\ \A k \in Kinds : cond[k].settled => cond[k].status \in Decided
  /\ quotes \subseteq Txns
  /\ payouts \subseteq Payout
  /\ txn \in [Txns -> Txn]

Fresh == [pc |-> "ready", seen |-> "none", disclosed |-> NoQuote, due |-> NoQuote]
NoRow == [status |-> "absent", required |-> TRUE, settled |-> FALSE]

Init ==
  /\ deal = [status |-> "none", terms |-> NoQuote, refs |-> {}]
  /\ cond = [k \in Kinds |-> NoRow]
  /\ quotes = {}
  /\ payouts = {}
  /\ txn = [t \in Txns |-> Fresh]

-----------------------------------------------------------------------------
\* Pure rules

\* hasReachedDealStage: blocked and defaulted have reached nothing.
Reached(s, target) == s \in Mainline /\ Order(s) >= Order(target)

\* planDeliverables: the row a quote asks for; keys only if it mentions them.
Planned(k, hasKey) ==
  IF k = "key" /\ ~hasKey
  THEN [status |-> "na", required |-> FALSE, settled |-> FALSE]
  ELSE [status |-> "pending", required |-> TRUE, settled |-> FALSE]

\* checkDeliveryRow: no required row short of met, none absent, deal not stopped.
Ready ==
  /\ deal.status \notin {"none", "blocked", "defaulted"}
  /\ \A k \in Kinds :
       cond[k].status # "absent" /\ (cond[k].required => cond[k].status = "met")

At(t, point) == txn[t].pc = point
End(t) == txn' = [txn EXCEPT ![t] = [Fresh EXCEPT !.pc = "over"]]
\* A transaction goes on to its writes with the deal status it has read.
GoOn(t, point) ==
  txn' = [txn EXCEPT ![t] = [@ EXCEPT !.pc = point, !.seen = deal.status]]

-----------------------------------------------------------------------------
\* commit_quote: run by the gate, with ensureDealForQuote in its transaction

QuoteRead(t) ==
  /\ At(t, "ready")
  /\ GoOn(t, "quote")
  /\ UNCHANGED <<deal, cond, quotes, payouts>>

\* Absent rows are inserted, present ones kept (createMany, skipDuplicates).
Healed(hasKey) ==
  [k \in Kinds |->
     IF cond[k].status = "absent" THEN Planned(k, hasKey) ELSE cond[k]]
\* A refresh of the terms also re-plans the key row nobody has settled yet.
Untouched(c) == c.status \in {"pending", "na"} /\ ~c.settled

\* Mutant: the refresh re-plans the key row whoever has settled it.
ReplannedOverPerson(hasKey) ==
  [Healed(hasKey) EXCEPT !["key"] = [Planned("key", hasKey) EXCEPT !.settled = cond["key"].settled]]

Replanned(hasKey) ==
  [Healed(hasKey) EXCEPT !["key"] =
     IF Untouched(@) THEN Planned("key", hasKey) ELSE @]

\* Mutant: the deal is written outside the transaction that the unique index
\* rolls back.
QuoteCommitOutside(t, hasKey) ==
  /\ At(t, "quote")
  /\ deal' = [deal EXCEPT !.terms = t, !.status = IF @ = "none" THEN "negotiating" ELSE @]
  /\ cond' = Healed(hasKey)
  /\ quotes' = IF txn[t].seen = "none" /\ deal.status # "none"
               THEN quotes ELSE quotes \cup {t}
  /\ End(t)
  /\ UNCHANGED payouts

\* Two first quotes race to the unique index on (projectId, kolId): the loser
\* rolls back.  Terms are refreshed if the deal was negotiating when read.
QuoteCommit(t, hasKey) ==
  /\ At(t, "quote")
  /\ \/ /\ txn[t].seen = "none" /\ deal.status # "none"
        /\ UNCHANGED <<deal, cond, quotes>>
     \/ /\ txn[t].seen = "none" /\ deal.status = "none"
        /\ deal' = [deal EXCEPT !.status = "negotiating", !.terms = t]
        /\ cond' = Healed(hasKey)
        /\ quotes' = quotes \cup {t}
     \/ /\ txn[t].seen = "negotiating"
        /\ deal' = [deal EXCEPT !.terms = t]
        /\ cond' = Replanned(hasKey)
        /\ quotes' = quotes \cup {t}
     \/ /\ txn[t].seen \notin {"none", "negotiating"}
        /\ cond' = Healed(hasKey)
        /\ quotes' = quotes \cup {t}
        /\ UNCHANGED deal
  /\ End(t)
  /\ UNCHANGED payouts

-----------------------------------------------------------------------------
\* registerDealRefs and verifyDeliverable

RegisterRead(t) ==
  /\ At(t, "ready")
  /\ IF deal.status \in {"none", "defaulted"} THEN End(t) ELSE GoOn(t, "refs")
  /\ UNCHANGED <<deal, cond, quotes, payouts>>

Settle(kinds, status) ==
  cond' = [k \in Kinds |->
             IF k \in kinds THEN [cond[k] EXCEPT !.status = status, !.settled = TRUE]
             ELSE cond[k]]
\* Where a registration takes the deal, from the status it stands at.
Registered(from, kinds) ==
  LET target == IF "escrow" \in kinds THEN "escrowed" ELSE "signed" IN
  IF Reached(from, target) THEN from ELSE target

\* Mutant: the advance starts from the status read before the row was locked.
RegisterCommitStale(t, kinds) ==
  /\ At(t, "refs")
  /\ deal' = [deal EXCEPT !.refs = @ \cup kinds, !.status = Registered(txn[t].seen, kinds)]
  /\ Settle(kinds, "met")
  /\ End(t)
  /\ UNCHANGED <<quotes, payouts>>

\* The references are written first, which locks the row; advanceDealTo then
\* reads its status again.  A deal stopped in between makes it throw, and the
\* transaction rolls back.  A deal that was blocked when read is not advanced.
RegisterCommit(t, kinds) ==
  /\ At(t, "refs")
  /\ \/ /\ txn[t].seen # "blocked" /\ deal.status \notin Mainline
        /\ UNCHANGED <<deal, cond>>
     \/ /\ txn[t].seen # "blocked" /\ deal.status \in Mainline
        /\ deal' = [deal EXCEPT !.refs = @ \cup kinds, !.status = Registered(@, kinds)]
        /\ Settle(kinds, "met")
     \/ /\ txn[t].seen = "blocked"
        /\ deal' = [deal EXCEPT !.refs = @ \cup kinds]
        /\ Settle(kinds, "met")
  /\ End(t)
  /\ UNCHANGED <<quotes, payouts>>

VerifyRead(t) ==
  /\ At(t, "ready")
  /\ IF deal.status \in {"none", "defaulted"} THEN End(t) ELSE GoOn(t, "verify")
  /\ UNCHANGED <<deal, cond, quotes, payouts>>

VerifyCommit(t, k, status) ==
  /\ At(t, "verify")
  /\ Settle({k}, status)
  /\ End(t)
  /\ UNCHANGED <<deal, quotes, payouts>>

-----------------------------------------------------------------------------
\* payout

\* buildHarm: a payout is proposed only for a ready deal; the card discloses
\* the amount of the terms as they are.  An unready one leaves no trace.
PayoutPropose(t) ==
  /\ At(t, "ready")
  /\ Ready
  /\ txn' = [txn EXCEPT ![t] = [@ EXCEPT !.pc = "offered", !.disclosed = deal.terms]]
  /\ UNCHANGED <<deal, cond, quotes, payouts>>

\* run: the conditions are checked again, the amount comes from the terms as
\* they are now.
PayoutRun(t) ==
  /\ At(t, "offered")
  /\ IF Ready
     THEN txn' = [txn EXCEPT ![t] = [@ EXCEPT !.pc = "paying", !.due = deal.terms]]
     ELSE End(t)
  /\ UNCHANGED <<deal, cond, quotes, payouts>>

\* Mutant: the advance runs on a connection of its own.
PayoutReleaseApart(t) ==
  /\ At(t, "paying")
  /\ GoOn(t, "released")
  /\ deal' = [deal EXCEPT !.status = "completed"]
  /\ UNCHANGED <<cond, quotes, payouts>>

\* The escrow partner is called and advanceDealTo reads the status: off the
\* mainline it throws, and the payout rolls back.
PayoutRelease(t) ==
  /\ At(t, "paying")
  /\ IF deal.status \in Mainline THEN GoOn(t, "released") ELSE End(t)
  /\ UNCHANGED <<deal, cond, quotes, payouts>>

PayoutCommit(t) ==
  /\ At(t, "released")
  /\ payouts' = payouts \cup
       {[by |-> t, disclosed |-> txn[t].disclosed, paid |-> txn[t].due]}
  /\ IF Reached(txn[t].seen, "completed")
     THEN UNCHANGED deal
     ELSE deal' = [deal EXCEPT !.status = "completed"]
  /\ End(t)
  /\ UNCHANGED <<cond, quotes>>

-----------------------------------------------------------------------------
\* The branches of the state machine no code under src/ takes: an operator
\* stops a deal, or takes it up again, in the database.

Dispute ==
  /\ deal.status \in Running
  /\ deal' = [deal EXCEPT !.status = "blocked"]
  /\ UNCHANGED <<cond, quotes, payouts, txn>>

Resume(s) ==
  /\ deal.status = "blocked"
  /\ deal' = [deal EXCEPT !.status = s]
  /\ UNCHANGED <<cond, quotes, payouts, txn>>

Default ==
  /\ deal.status \in Running \cup {"blocked"}
  /\ deal' = [deal EXCEPT !.status = "defaulted"]
  /\ UNCHANGED <<cond, quotes, payouts, txn>>

Step(t) ==
  \/ QuoteRead(t) \/ RegisterRead(t) \/ VerifyRead(t)
  \/ PayoutPropose(t) \/ PayoutRun(t) \/ PayoutRelease(t) \/ PayoutCommit(t)
  \/ \E hasKey \in BOOLEAN : QuoteCommit(t, hasKey)
  \/ \E kinds \in SUBSET Refs : kinds # {} /\ RegisterCommit(t, kinds)
  \/ \E k \in Kinds, s \in Decided : VerifyCommit(t, k, s)

Next ==
  \/ \E t \in Txns : Step(t)
  \/ Dispute \/ Default \/ \E s \in Running : Resume(s)

Spec == Init /\ [][Next]_vars

-----------------------------------------------------------------------------
\* Properties

\* A deal on the mainline never goes back: two registrations, or a
\* registration and a payout, in any order of their reads and writes, never
\* take it to an earlier stage (the row lock in registerDealRefs, and the
\* idempotence of advanceDealTo).
OnlyForward ==
  [][deal.status \in Mainline /\ deal'.status \in Mainline
       => Order(deal'.status) >= Order(deal.status)]_vars

\* What a person or a registration decided about a condition is never undone
\* by a later quote: it stays settled, as required as it was, and is not put
\* back to its initial status (ensureDealForQuote).
PersonWins ==
  [][\A k \in Kinds : cond[k].settled =>
       /\ cond'[k].settled /\ cond'[k].status \in Decided
       /\ cond'[k].required = cond[k].required]_vars

\* Where there is a committed quote there is a deal with all its conditions,
\* and what the deal says was agreed was committed: a rolled-back quote leaves
\* nothing (the precondition of the guard of the delivery stage).
QuotesHaveADeal ==
  /\ quotes # {} <=> deal.status # "none"
  /\ quotes # {} => deal.terms \in quotes /\ \A k \in Kinds : cond[k].status # "absent"

\* Completed means paid, and paid means completed: there is no payout on a deal
\* that can still move, and no way to complete a deal but to pay it.
CompletedIffPaid == deal.status = "completed" <=> payouts # {}

\* deal-advance.ts: after the payout a completed deal sees no further movement
\* of money.
PaidOnce == \A p, q \in payouts : p = q

\* Two claims the code does not keep (see the README, "Disagreements").
\* architecture.md: what was confirmed is what is executed.
PaysWhatWasDisclosed == \A p \in payouts : p.paid = p.disclosed

\* ensure-deal.ts: the terms of a deal past negotiating do not change.
SignedTermsFixed ==
  [][deal.status \in Mainline \ {"negotiating"} => deal'.terms = deal.terms]_vars

=============================================================================
