------------------------------- MODULE KeyPool -------------------------------
(***************************************************************************)
(* The pool of game keys of a deal: registerKeyPool of                     *)
(* src/src/lib/delivery/register.ts and the outbound tool distribute_keys, *)
(* together with the deal of module Deal, whose status both read and whose *)
(* key condition a distribution settles.                                   *)
(***************************************************************************)
EXTENDS Deal, FiniteSets

CONSTANTS
  KeyTxns,   \* the transactions on the pool, each used once
  KeyRefs,   \* references to keys (the keys themselves are never stored)
  Quantity   \* how many keys a distribution asks for

ASSUME KeyPoolAssumption ==
  /\ IsFiniteSet(KeyTxns) /\ IsFiniteSet(KeyRefs)
  /\ Quantity \in Nat \ {0}

VARIABLES
  keys,  \* the GameKey rows of the deal
  gone,  \* the rows flipped to distributed, and by which transaction
  ktxn   \* the local state of every transaction on the pool

keyVars == <<keys, gone, ktxn>>

\* A row is named by its reference and the transaction that registered it.
Key == [ref : KeyRefs, by : KeyTxns]
Distribution == [key : Key, to : KeyTxns]
KeyTxn ==
  [pc : {"ready", "register", "handed", "over"},
   known : SUBSET KeyRefs, picked : SUBSET Key]

KeyTypeOK ==
  /\ keys \subseteq Key
  /\ gone \subseteq Distribution
  /\ ktxn \in [KeyTxns -> KeyTxn]
  /\ \A t \in KeyTxns : ktxn[t].pc = "handed" =>
       ktxn[t].picked \subseteq keys /\ Cardinality(ktxn[t].picked) = Quantity

KeyInit ==
  /\ keys = {}
  /\ gone = {}
  /\ ktxn = [t \in KeyTxns |-> [pc |-> "ready", known |-> {}, picked |-> {}]]

Reserved == {k \in keys : \A d \in gone : d.key # k}

EndKey(t) ==
  ktxn' = [ktxn EXCEPT ![t] = [pc |-> "over", known |-> {}, picked |-> {}]]

-----------------------------------------------------------------------------
\* registerKeyPool: reads the references already there, then inserts the rest.
\* No index makes a reference unique within its deal.

KeysRead(t) ==
  /\ ktxn[t].pc = "ready"
  /\ IF deal.status \in {"none", "defaulted"}
     THEN EndKey(t)
     ELSE ktxn' = [ktxn EXCEPT ![t] =
                     [@ EXCEPT !.pc = "register", !.known = {k.ref : k \in keys}]]
  /\ UNCHANGED <<keys, gone, vars>>

KeysCommit(t, refs) ==
  /\ ktxn[t].pc = "register"
  /\ keys' = keys \cup [ref : refs \ ktxn[t].known, by : {t}]
  /\ EndKey(t)
  /\ UNCHANGED <<gone, vars>>

-----------------------------------------------------------------------------
\* distribute_keys, run by the gate

\* Mutant: short of stock, what is there is handed out.
DistributeRunShort(t, rows) ==
  /\ ktxn[t].pc = "ready"
  /\ deal.status \notin {"none", "blocked", "defaulted"}
  /\ rows \subseteq Reserved /\ rows # {} /\ Cardinality(rows) <= Quantity
  /\ ktxn' = [ktxn EXCEPT ![t] = [@ EXCEPT !.pc = "handed", !.picked = rows]]
  /\ UNCHANGED <<keys, gone, vars>>

\* resolveKeys takes the oldest reserved rows.  The order of creation is left
\* out: the model allows any choice of Quantity rows, the oldest among them.
DistributeRun(t, rows) ==
  /\ ktxn[t].pc = "ready"
  /\ IF deal.status \in {"none", "blocked", "defaulted"} \/ Cardinality(Reserved) < Quantity
     THEN rows = {} /\ EndKey(t)
     ELSE /\ rows \subseteq Reserved /\ Cardinality(rows) = Quantity
          /\ ktxn' = [ktxn EXCEPT ![t] = [@ EXCEPT !.pc = "handed", !.picked = rows]]
  /\ UNCHANGED <<keys, gone, vars>>

Flip(t, rows) == gone' = gone \cup [key : rows, to : {t}]
KeyConditionMet == Settle({"key"}, "met") /\ UNCHANGED <<deal, quotes, payouts, txn>>

\* Mutant: the flip does not require the rows to be reserved.
DistributeCommitBlind(t) ==
  /\ ktxn[t].pc = "handed"
  /\ Flip(t, ktxn[t].picked)
  /\ KeyConditionMet
  /\ EndKey(t)
  /\ UNCHANGED keys

\* The conditional updateMany flips the rows still reserved; if any of them is
\* gone the count differs and the transaction rolls back.
DistributeCommit(t) ==
  /\ ktxn[t].pc = "handed"
  /\ IF ktxn[t].picked \subseteq Reserved
     THEN Flip(t, ktxn[t].picked) /\ KeyConditionMet
     ELSE UNCHANGED <<gone, vars>>
  /\ EndKey(t)
  /\ UNCHANGED keys

KeyStep(t) ==
  \/ KeysRead(t) \/ DistributeCommit(t)
  \/ \E refs \in SUBSET KeyRefs : refs # {} /\ KeysCommit(t, refs)
  \/ \E rows \in SUBSET Reserved : DistributeRun(t, rows)

KeyNext ==
  \/ Next /\ UNCHANGED keyVars
  \/ \E t \in KeyTxns : KeyStep(t)

KeySpec == Init /\ KeyInit /\ [][KeyNext]_<<vars, keyVars>>

-----------------------------------------------------------------------------
\* Properties

\* A key goes out once, and an action hands out all it was approved for or
\* nothing: two distributions that picked overlapping rows never both commit.
KeysGoOnce ==
  /\ \A d, e \in gone : d.key = e.key => d = e
  /\ \A t \in KeyTxns : Cardinality({d \in gone : d.to = t}) \in {0, Quantity}

\* Keys leave a mark on the deal: once a key is gone, the key condition of the
\* deal is decided and no quote committed later takes it back to pending.
KeysLeaveATrace ==
  gone # {} =>
    /\ {d.key : d \in gone} \subseteq keys
    /\ cond["key"].settled /\ cond["key"].status \in Decided

\* A claim the code does not keep (see the README, "Disagreements").
\* register.ts: a reference registered again within its deal is skipped.
OneRowPerRef == \A k, l \in keys : k.ref = l.ref => k = l

=============================================================================
