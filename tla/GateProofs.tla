----------------------------- MODULE GateProofs -----------------------------
(***************************************************************************)
(* Proofs about Gate, for every set of actions and requests and every      *)
(* choice of the two time limits.                                          *)
(***************************************************************************)
EXTENDS Gate, TLAPS

Spent == {"executing", "executed", "failed"}
Unsigned == {"absent", "pending", "rejected"}

\* The ticket columns follow the status.
RowShape ==
  \A a \in Actions :
    /\ row[a].ticketUsed <=> row[a].status \in Spent
    /\ row[a].status \in {"confirmed"} \cup Spent =>
         Entry("sign", a, row[a].ticket) \in log

\* What a request may rely on between two of its steps.
RequestShape ==
  \A r \in Requests :
    /\ req[r].pc = "lapse" => req[r].seen \in {"pending", "confirmed"}
    /\ req[r].pc \in {"claim", "run", "sent", "fail"} =>
         /\ req[r].payload = "disclosed"
         /\ row[req[r].act].status \notin Unsigned
         /\ row[req[r].act].ticket \in held
    /\ req[r].pc \in {"run", "sent"} => row[req[r].act].status = "executing"
    /\ req[r].pc = "fail" => row[req[r].act].status \in {"executing", "executed"}

\* One holder per action, and what has started is the holder's own doing.
Exclusive ==
  /\ \A r, s \in Requests : \A a \in Actions :
       Holds(r, a) /\ Holds(s, a) => r = s
  /\ \A e \in Started : \A r \in Requests :
       Holds(r, e.action) => e = EffectOf(r)
  /\ \A e, f \in Started : e.action = f.action => e = f

\* An effect belongs to an action whose ticket is spent.
EffectShape ==
  /\ \A e \in Started :
       /\ e.payload = "disclosed"
       /\ row[e.action].status \in Spent
       /\ row[e.action].ticket \in held
  /\ \A e \in applied : row[e.action].status # "executing"

\* The log tells the status and the status tells the log.
LogShape ==
  /\ \A d \in log :
       /\ d.kind = "sign" =>
            d.by = row[d.ref].ticket /\ row[d.ref].status \notin Unsigned
       /\ d.kind = "block" => row[d.ref].status = "rejected"
  /\ \A d, e \in log :
       d.kind = "block" /\ e.kind = "block" /\ d.ref = e.ref => d = e
  /\ \A a \in Actions : row[a].status = "rejected" => Logged("block", a)

IInv ==
  /\ TypeOK
  /\ RowShape
  /\ RequestShape
  /\ Exclusive
  /\ EffectShape
  /\ LogShape
  /\ BooksMatch

-----------------------------------------------------------------------------
\* Typing

\* Each of the two ways in which a step moves a request is well typed.
LEMMA EndTyped ==
  ASSUME TypeOK, NEW r \in Requests, End(r)
  PROVE  /\ req' \in [Requests -> Request]
         /\ req'[r].pc = "over"
         /\ \A s \in Requests : s # r => req'[s] = req[s]
  BY DEF TypeOK, End, Fresh, Request, Points, Status, Payloads

LEMMA GoOnTyped ==
  ASSUME TypeOK, NEW r \in Requests, NEW a \in Actions, NEW d \in Nat,
         NEW p \in Points, GoOn(r, p, a, d)
  PROVE  /\ req' \in [Requests -> Request]
         /\ req'[r].pc = p
         /\ req'[r].act = a
         /\ req'[r].seen = row[a].status
         /\ req'[r].payload = row[a].payload
         /\ \A s \in Requests : s # r => req'[s] = req[s]
  BY DEF TypeOK, GoOn, Request, Row

LEMMA PointTyped ==
  ASSUME TypeOK, NEW r \in Requests, NEW p \in Points,
         req' = [req EXCEPT ![r].pc = p]
  PROVE  /\ req' \in [Requests -> Request]
         /\ req'[r].pc = p
         /\ req'[r].act = req[r].act
         /\ req'[r].payload = req[r].payload
         /\ req'[r].seen = req[r].seen
         /\ \A s \in Requests : s # r => req'[s] = req[s]
  BY DEF TypeOK, Request

LEMMA RowTyped ==
  ASSUME TypeOK, NEW a \in Actions, NEW p \in Row, row' = [row EXCEPT ![a] = p]
  PROVE  /\ row' \in [Actions -> Row]
         /\ row'[a] = p
         /\ \A b \in Actions : b # a => row'[b] = row[b]
  BY DEF TypeOK

LEMMA StatusTyped ==
  ASSUME TypeOK, NEW a \in Actions, NEW s \in Status, SetStatus(a, s)
  PROVE  /\ row' \in [Actions -> Row]
         /\ row'[a].status = s
         /\ row'[a].ticket = row[a].ticket
         /\ row'[a].ticketUsed = row[a].ticketUsed
         /\ row'[a].payload = row[a].payload
         /\ \A b \in Actions : b # a => row'[b] = row[b]
  BY DEF TypeOK, SetStatus, Row

\* Every step of the protocol keeps the tables and the requests well typed.
LEMMA TypeInduction == TypeOK /\ [Next]_vars => TypeOK'
<1> SUFFICES ASSUME TypeOK, [Next]_vars PROVE TypeOK'
  OBVIOUS
<1> USE GateAssumption DEF Points, At, tables
<1>1. ASSUME NEW r \in Requests, NEW a \in Actions, Propose(r, a)
      PROVE  TypeOK'
  <2> DEFINE p == [NoRow EXCEPT !.status = "pending", !.expiresAt = Deadline(ConfirmTTL)]
  <2>0. Deadline(ConfirmTTL) \in Nat
    BY DEF Deadline, TypeOK
  <2>1. p \in Row
    BY <2>0 DEF NoRow, Row, Tickets, Status, Payloads
  <2>2. row' \in [Actions -> Row]
    BY <1>1, <2>1, RowTyped DEF Propose
  <2>3. log' \subseteq LogEntry
    BY <1>1 DEF Propose, TypeOK, LogEntry, LogKinds, Entry
  <2>4. /\ req' \in [Requests -> Request]
        /\ req'[r].pc = "over" \/ req'[r].act \in Actions
        /\ \A s \in Requests : s # r => req'[s] = req[s]
    <3>1. CASE End(r)
      BY <3>1, EndTyped
    <3>2. CASE GoOn(r, "gateLog", a, 0)
      BY <3>2, GoOnTyped
    <3> QED
      BY <1>1, <3>1, <3>2 DEF Propose
  <2> QED
    BY <1>1, <2>2, <2>3, <2>4 DEF Propose, TypeOK
<1>2. ASSUME NEW r \in Requests, NEW a \in Actions, NEW t,
             ReadDetail(r, a) \/ ConfirmRead(r, a) \/ RejectRead(r, a)
               \/ ExecuteRead(r, a, t)
      PROVE  TypeOK'
  <2>1. /\ req' \in [Requests -> Request]
        /\ req'[r].pc = "over" \/ req'[r].act \in Actions
        /\ \A s \in Requests : s # r => req'[s] = req[s]
    <3>1. Deadline(TicketTTL) \in Nat
      BY DEF Deadline, TypeOK
    <3>2. CASE End(r)
      BY <3>2, EndTyped
    <3>3. ASSUME NEW p \in Points, NEW d \in Nat, GoOn(r, p, a, d)
          PROVE  /\ req' \in [Requests -> Request]
                 /\ req'[r].act \in Actions
                 /\ \A s \in Requests : s # r => req'[s] = req[s]
      BY <3>3, GoOnTyped
    <3>4. \/ End(r)
          \/ \E p \in Points, d \in Nat : GoOn(r, p, a, d)
      BY <1>2, <3>1 DEF ReadDetail, ConfirmRead, RejectRead, ExecuteRead
    <3> QED
      BY <3>2, <3>3, <3>4
  <2> QED
    BY <1>2, <2>1 DEF ReadDetail, ConfirmRead, RejectRead, ExecuteRead, TypeOK
<1>3. ASSUME NEW r \in Requests, LogProposal(r)
      PROVE  TypeOK'
  BY <1>3, EndTyped DEF LogProposal, TypeOK, LogEntry, LogKinds, Entry
<1>4. ASSUME NEW r \in Requests, LazyExpire(r)
      PROVE  TypeOK'
  BY <1>4, EndTyped, StatusTyped DEF LazyExpire, TypeOK, Status
<1>5. ASSUME NEW r \in Requests, ConfirmCommit(r)
      PROVE  TypeOK'
  <2> DEFINE a == req[r].act
             p == [row[a] EXCEPT !.status = "confirmed", !.ticket = r,
                                 !.ticketExpiresAt = req[r].until]
  <2>1. a \in Actions
    BY <1>5 DEF ConfirmCommit, TypeOK
  <2>2. p \in Row
    <3>1. row[a] \in Row /\ req[r].until \in Nat
      BY <2>1 DEF TypeOK, Request
    <3> QED
      BY <3>1 DEF Row, Status, Tickets
  <2>3. CASE row[a].status = "pending"
    <3>1. row' \in [Actions -> Row]
      BY <1>5, <2>1, <2>2, <2>3, RowTyped DEF ConfirmCommit, Sign
    <3>2. log' \subseteq LogEntry
      BY <1>5, <2>1, <2>3 DEF ConfirmCommit, Sign, TypeOK, LogEntry, LogKinds, Entry
    <3> QED
      BY <1>5, <2>3, <3>1, <3>2, EndTyped DEF ConfirmCommit, Sign, TypeOK
  <2>4. CASE row[a].status # "pending"
    BY <1>5, <2>4, EndTyped DEF ConfirmCommit, TypeOK
  <2> QED
    BY <2>3, <2>4
<1>6. ASSUME NEW r \in Requests, RejectCommit(r)
      PROVE  TypeOK'
  BY <1>6, EndTyped, StatusTyped
     DEF RejectCommit, TypeOK, LogEntry, LogKinds, Entry, Status
<1>7. ASSUME NEW r \in Requests, Claim(r)
      PROVE  TypeOK'
  <2> DEFINE a == req[r].act
             p == [row[a] EXCEPT !.status = "executing", !.ticketUsed = TRUE]
  <2>1. a \in Actions
    BY <1>7 DEF Claim, TypeOK
  <2>2. p \in Row
    BY <2>1 DEF TypeOK, Row, Status
  <2>3. CASE Claimable(row[a])
    BY <1>7, <2>1, <2>2, <2>3, RowTyped, PointTyped DEF Claim, TypeOK
  <2>4. CASE ~Claimable(row[a])
    BY <1>7, <2>4, EndTyped DEF Claim, TypeOK
  <2> QED
    BY <2>3, <2>4
<1>8. ASSUME NEW r \in Requests, Deliver(r)
      PROVE  TypeOK'
  <2>1. EffectOf(r) \in Effect
    BY <1>8 DEF Deliver, EffectOf, Effect, TypeOK, Request
  <2>2. /\ req' \in [Requests -> Request]
        /\ req'[r].act = req[r].act
        /\ \A s \in Requests : s # r => req'[s] = req[s]
    BY <1>8, PointTyped DEF Deliver
  <2> QED
    BY <1>8, <2>1, <2>2 DEF Deliver, TypeOK
<1>9. ASSUME NEW r \in Requests, ToolFails(r)
      PROVE  TypeOK'
  <2>1. /\ req' \in [Requests -> Request]
        /\ req'[r].act = req[r].act
        /\ \A s \in Requests : s # r => req'[s] = req[s]
    BY <1>9, PointTyped DEF ToolFails
  <2> QED
    BY <1>9, <2>1 DEF ToolFails, TypeOK
<1>10. ASSUME NEW r \in Requests, Finalize(r)
       PROVE  TypeOK'
  <2>1. req[r].act \in Actions
    BY <1>10 DEF Finalize, TypeOK
  <2>2. EffectOf(r) \in Effect
    BY <2>1 DEF EffectOf, Effect, TypeOK, Request
  <2>3. log' \subseteq LogEntry
    BY <1>10, <2>1 DEF Finalize, TypeOK, LogEntry, LogKinds, Entry
  <2>4. row' \in [Actions -> Row]
    BY <1>10, <2>1, StatusTyped DEF Finalize, Status
  <2> QED
    BY <1>10, <2>1, <2>2, <2>3, <2>4, EndTyped, PointTyped DEF Finalize, TypeOK
<1>11. ASSUME NEW r \in Requests, RecordFailure(r)
       PROVE  TypeOK'
  BY <1>11, EndTyped, StatusTyped
     DEF RecordFailure, TypeOK, LogEntry, LogKinds, Entry, Status
<1>12. ASSUME NEW r \in Requests, Crash(r)
       PROVE  TypeOK'
  BY <1>12 DEF Crash, Holding, Fresh, TypeOK, Request, Status, Payloads
<1>13. ASSUME NEW a \in Actions, AlterPayload(a)
       PROVE  TypeOK'
  <2>1. [row[a] EXCEPT !.payload = "altered"] \in Row
    BY DEF TypeOK, Row, Payloads
  <2> QED
    BY <1>13, <2>1, RowTyped DEF AlterPayload, TypeOK
<1>14. CASE Tick
  BY <1>14 DEF Tick, TypeOK
<1>15. CASE UNCHANGED vars
  BY <1>15 DEF vars, TypeOK
<1> QED
  BY <1>1, <1>2, <1>3, <1>4, <1>5, <1>6, <1>7, <1>8, <1>9, <1>10, <1>11, <1>12,
     <1>13, <1>14, <1>15 DEF Next, Arrive, Proceed

\* Every reachable state is well typed: the columns of the PendingAction table
\* and the locals of every request hold what gate.ts can put there.
THEOREM TypeCorrect == Spec => []TypeOK
<1>1. Init => TypeOK
  BY GateAssumption
     DEF Init, TypeOK, NoRow, Fresh, Row, Request, Status, Payloads, Points, Tickets
<1> QED
  BY <1>1, TypeInduction, PTL DEF Spec

-----------------------------------------------------------------------------
\* The inductive invariant

\* A step that writes no table and leaves its request without a claim.
LEMMA QuietStep ==
  ASSUME IInv, TypeOK', NEW r \in Requests, UNCHANGED <<held, tables>>,
         \A s \in Requests : s # r => req'[s] = req[s],
         req'[r].pc \notin {"run", "sent", "fail"},
         req'[r].pc = "lapse" => req'[r].seen \in {"pending", "confirmed"},
         req'[r].pc = "claim" =>
           /\ req'[r].payload = "disclosed"
           /\ row[req'[r].act].status \notin Unsigned
           /\ row[req'[r].act].ticket \in held
  PROVE  IInv'
<1>1. RowShape' /\ LogShape' /\ BooksMatch' /\ EffectShape'
  BY DEF IInv, tables, RowShape, LogShape, Logged, BooksMatch, EffectShape,
         Started, Entry
<1>2. RequestShape'
  BY DEF IInv, tables, RequestShape
<1>3. ASSUME NEW s \in Requests, NEW a \in Actions, Holds(s, a)'
      PROVE  s # r /\ Holds(s, a) /\ EffectOf(s)' = EffectOf(s)
  BY <1>3 DEF Holds, Holding, EffectOf
<1>4. Exclusive'
  <2>1. Started' = Started /\ Started \subseteq Effect
    BY DEF Started, tables, IInv, TypeOK
  <2>2. \A e \in Started : e.action \in Actions
    BY <2>1 DEF Effect
  <2> QED
    BY <1>3, <2>1, <2>2 DEF Exclusive, IInv
<1> QED
  BY <1>1, <1>2, <1>4 DEF IInv

\* Reads, refusals and the failure of the tool's transaction.
LEMMA ReadStep ==
  ASSUME IInv, TypeOK', NEW r \in Requests, NEW a \in Actions,
         NEW t \in held \cup {NoTicket},
         ReadDetail(r, a) \/ ConfirmRead(r, a) \/ RejectRead(r, a)
           \/ ExecuteRead(r, a, t)
  PROVE  IInv'
<1>1. UNCHANGED <<held, tables>>
  BY DEF ReadDetail, ConfirmRead, RejectRead, ExecuteRead, tables
<1>2. CASE End(r)
  BY <1>1, <1>2, EndTyped, QuietStep DEF IInv
<1>3. ASSUME NEW d \in Nat, GoOn(r, "sign", a, d) \/ GoOn(r, "reject", a, d)
      PROVE  IInv'
  BY <1>1, <1>3, GoOnTyped, QuietStep DEF IInv, Points
<1>4. CASE GoOn(r, "lapse", a, 0) /\ row[a].status \in {"pending", "confirmed"}
  BY <1>1, <1>4, GoOnTyped, QuietStep DEF IInv, Points
<1>5. CASE /\ GoOn(r, "claim", a, 0)
           /\ row[a].status = "confirmed" /\ row[a].payload = "disclosed"
           /\ row[a].ticket \in held
  BY <1>1, <1>5, GoOnTyped, QuietStep DEF IInv, Points, Unsigned
<1>6. Deadline(TicketTTL) \in Nat
  BY GateAssumption DEF Deadline, IInv, TypeOK
<1> QED
  BY <1>2, <1>3, <1>4, <1>5, <1>6
     DEF ReadDetail, ConfirmRead, RejectRead, ExecuteRead, ConfirmWindowPassed,
         TicketWindowPassed, PayloadIntact

\* A request that has ended, and all the others as they were.
LEMMA AfterEnd ==
  ASSUME TypeOK, NEW r \in Requests, End(r)
  PROVE  /\ \A s \in Requests : \A a \in Actions :
              Holds(s, a)' => s # r /\ Holds(s, a) /\ EffectOf(s)' = EffectOf(s)
         /\ \A s \in Requests : req'[s].pc # "over" => s # r /\ req'[s] = req[s]
<1>1. /\ req'[r].pc = "over"
      /\ \A s \in Requests : s # r => req'[s] = req[s]
  BY EndTyped
<1> QED
  BY <1>1 DEF Holds, Holding, EffectOf

\* createPendingAction and its log line: an action is born with no history.
LEMMA ProposeStep ==
  ASSUME IInv, TypeOK', NEW r \in Requests, NEW a \in Actions, Propose(r, a)
  PROVE  IInv'
<1> DEFINE p == [NoRow EXCEPT !.status = "pending", !.expiresAt = Deadline(ConfirmTTL)]
<1>1. /\ row[a].status = "absent"
      /\ row'[a].status = "pending" /\ ~row'[a].ticketUsed
      /\ \A b \in Actions : b # a => row'[b] = row[b]
  <2>1. row' = [row EXCEPT ![a] = p]
    BY DEF Propose
  <2>2. p.status = "pending" /\ p.ticketUsed = FALSE
    BY DEF NoRow
  <2> QED
    BY <2>1, <2>2 DEF Propose, IInv, TypeOK
<1>2. /\ req'[r].pc \in {"over", "gateLog"}
      /\ \A s \in Requests : s # r => req'[s] = req[s]
  <2>1. CASE End(r)
    BY <2>1, EndTyped DEF IInv
  <2>2. CASE GoOn(r, "gateLog", a, 0)
    BY <2>2, GoOnTyped DEF IInv, Points
  <2> QED
    BY <2>1, <2>2 DEF Propose
<1>3. /\ log \subseteq log'
      /\ \A d \in log' : d \in log \/ d = Entry("gate", a, r)
      /\ UNCHANGED <<held, delivered, applied>>
  BY DEF Propose
<1>4. ASSUME NEW s \in Requests, NEW b \in Actions, Holds(s, b)'
      PROVE  Holds(s, b) /\ EffectOf(s)' = EffectOf(s)
  BY <1>2, <1>4 DEF Holds, Holding, EffectOf
<1>5. Started \subseteq Effect /\ Started' = Started
  BY <1>3 DEF Started, IInv, TypeOK
<1>6. RowShape'
  BY <1>1, <1>3 DEF RowShape, IInv, Spent
<1>7. RequestShape'
  <2>1. \A s \in Requests : req'[s].pc \notin {"over", "gateLog"} => req'[s] = req[s]
    BY <1>2
  <2> QED
    BY <1>1, <1>3, <2>1 DEF RequestShape, IInv, Unsigned, TypeOK
<1>8. Exclusive'
  BY <1>4, <1>5 DEF Exclusive, IInv, Effect
<1>9. EffectShape'
  BY <1>1, <1>3, <1>5 DEF EffectShape, IInv, Effect, Spent, Started
<1>10. LogShape'
  BY <1>1, <1>3 DEF LogShape, IInv, Entry, Unsigned, Logged, TypeOK, LogEntry
<1>11. BooksMatch'
  BY <1>1, <1>3 DEF BooksMatch, IInv, Entry, Logged
<1> QED
  BY <1>6, <1>7, <1>8, <1>9, <1>10, <1>11 DEF IInv

LEMMA LogProposalStep ==
  ASSUME IInv, TypeOK', NEW r \in Requests, LogProposal(r)
  PROVE  IInv'
<1>1. /\ UNCHANGED <<row, held, delivered, applied>>
      /\ log' = log \cup {Entry("gate", req[r].act, r)}
      /\ End(r)
  BY DEF LogProposal
<1>2. RowShape' /\ LogShape' /\ BooksMatch'
  BY <1>1 DEF IInv, RowShape, LogShape, BooksMatch, Entry, Logged
<1>3. RequestShape'
  BY <1>1, AfterEnd DEF IInv, RequestShape
<1>4. Exclusive' /\ EffectShape'
  <2>1. Started' = Started /\ \A e \in Started : e.action \in Actions
    BY <1>1 DEF Started, IInv, TypeOK, Effect
  <2> QED
    BY <1>1, <2>1, AfterEnd DEF IInv, Exclusive, EffectShape
<1> QED
  BY <1>2, <1>3, <1>4 DEF IInv

\* The conditional flip cannot reach an action whose ticket was spent.
LEMMA LazyExpireStep ==
  ASSUME IInv, TypeOK', NEW r \in Requests, LazyExpire(r)
  PROVE  IInv'
<1> DEFINE a == req[r].act
<1>1. /\ UNCHANGED <<log, held, delivered, applied>>
      /\ End(r)
      /\ a \in Actions
      /\ req[r].seen \in {"pending", "confirmed"}
  BY DEF LazyExpire, At, IInv, TypeOK, RequestShape
<1>2. CASE row[a].status # req[r].seen
  BY <1>1, <1>2, EndTyped, QuietStep DEF LazyExpire, IInv, tables
<1>3. CASE row[a].status = req[r].seen
  <2>1. /\ row'[a].status = "expired"
        /\ row'[a].ticket = row[a].ticket
        /\ row'[a].ticketUsed = row[a].ticketUsed
        /\ \A b \in Actions : b # a => row'[b] = row[b]
    BY <1>1, <1>3, StatusTyped DEF LazyExpire, IInv, Status
  <2>2. row[a].status \in {"pending", "confirmed"}
    BY <1>1, <1>3
  <2>3. Started' = Started /\ \A e \in Started : e.action \in Actions
    BY <1>1 DEF Started, IInv, TypeOK, Effect
  <2>4. RowShape'
    BY <1>1, <2>1, <2>2 DEF IInv, RowShape, Spent
  <2>5. RequestShape'
    <3>1. \A s \in Requests : req'[s].pc # "over" => req'[s] = req[s]
      BY <1>1, AfterEnd DEF IInv
    <3> QED
      BY <1>1, <2>1, <2>2, <3>1 DEF IInv, RequestShape, Unsigned, TypeOK
  <2>6. Exclusive'
    BY <1>1, <2>3, AfterEnd DEF IInv, Exclusive
  <2>7. EffectShape'
    BY <1>1, <2>1, <2>2, <2>3 DEF IInv, EffectShape, Spent, Started
  <2>8. LogShape'
    BY <1>1, <2>1, <2>2 DEF IInv, LogShape, Unsigned, Logged, TypeOK, LogEntry
  <2>9. BooksMatch'
    BY <1>1, <2>1, <2>2 DEF IInv, BooksMatch, Entry, Logged
  <2> QED
    BY <2>4, <2>5, <2>6, <2>7, <2>8, <2>9 DEF IInv
<1> QED
  BY <1>2, <1>3

\* Only a pending action is signed, so a ticket never replaces another.
LEMMA ConfirmCommitStep ==
  ASSUME IInv, TypeOK', NEW r \in Requests, ConfirmCommit(r)
  PROVE  IInv'
<1> DEFINE a == req[r].act
<1>1. UNCHANGED <<delivered, applied>> /\ End(r) /\ a \in Actions
  BY DEF ConfirmCommit, At, IInv, TypeOK
<1>2. CASE row[a].status # "pending"
  BY <1>1, <1>2, EndTyped, QuietStep DEF ConfirmCommit, IInv, tables
<1>3. CASE row[a].status = "pending"
  <2>1. Sign(r, a)
    BY <1>3 DEF ConfirmCommit
  <2>2. /\ row'[a].status = "confirmed"
        /\ row'[a].ticket = r
        /\ row'[a].ticketUsed = row[a].ticketUsed
        /\ \A b \in Actions : b # a => row'[b] = row[b]
    BY <1>1, <2>1 DEF Sign, IInv, TypeOK, Row
  <2>3. log' = log \cup {Entry("sign", a, r)} /\ held \subseteq held'
    BY <2>1 DEF Sign
  <2>4. Started' = Started /\ \A e \in Started : e.action \in Actions
    BY <1>1 DEF Started, IInv, TypeOK, Effect
  <2>5. RowShape'
    BY <1>3, <2>2, <2>3 DEF IInv, RowShape, Spent
  <2>6. RequestShape'
    <3>1. \A s \in Requests : req'[s].pc # "over" => req'[s] = req[s]
      BY <1>1, AfterEnd DEF IInv
    <3> QED
      BY <1>3, <2>2, <2>3, <3>1 DEF IInv, RequestShape, Unsigned, TypeOK
  <2>7. Exclusive'
    BY <1>1, <2>4, AfterEnd DEF IInv, Exclusive
  <2>8. EffectShape'
    BY <1>1, <1>3, <2>2, <2>3, <2>4 DEF IInv, EffectShape, Spent, Started
  <2>9. LogShape'
    BY <1>3, <2>2, <2>3 DEF IInv, LogShape, Unsigned, Logged, Entry, TypeOK, LogEntry
  <2>10. BooksMatch'
    BY <1>1, <2>2, <2>3 DEF IInv, BooksMatch, Entry, Logged
  <2> QED
    BY <2>5, <2>6, <2>7, <2>8, <2>9, <2>10 DEF IInv
<1> QED
  BY <1>2, <1>3

LEMMA RejectCommitStep ==
  ASSUME IInv, TypeOK', NEW r \in Requests, RejectCommit(r)
  PROVE  IInv'
<1> DEFINE a == req[r].act
<1>1. UNCHANGED <<held, delivered, applied>> /\ End(r) /\ a \in Actions
  BY DEF RejectCommit, At, IInv, TypeOK
<1>2. CASE row[a].status # "pending"
  BY <1>1, <1>2, EndTyped, QuietStep DEF RejectCommit, IInv, tables
<1>3. CASE row[a].status = "pending"
  <2>1. /\ row'[a].status = "rejected"
        /\ row'[a].ticket = row[a].ticket
        /\ row'[a].ticketUsed = row[a].ticketUsed
        /\ \A b \in Actions : b # a => row'[b] = row[b]
    BY <1>1, <1>3, StatusTyped DEF RejectCommit, IInv, Status
  <2>2. log' = log \cup {Entry("block", a, r)}
    BY <1>3 DEF RejectCommit
  <2>3. Started' = Started /\ \A e \in Started : e.action \in Actions
    BY <1>1 DEF Started, IInv, TypeOK, Effect
  <2>4. RowShape'
    BY <1>3, <2>1, <2>2 DEF IInv, RowShape, Spent
  <2>5. RequestShape'
    <3>1. \A s \in Requests : req'[s].pc # "over" => req'[s] = req[s]
      BY <1>1, AfterEnd DEF IInv
    <3> QED
      BY <1>1, <1>3, <2>1, <3>1 DEF IInv, RequestShape, Unsigned, TypeOK
  <2>6. Exclusive'
    BY <1>1, <2>3, AfterEnd DEF IInv, Exclusive
  <2>7. EffectShape'
    BY <1>1, <1>3, <2>1, <2>3 DEF IInv, EffectShape, Spent, Started
  <2>8. LogShape'
    <3>1. /\ Entry("block", a, r) \in log' /\ log \subseteq log'
          /\ \A d \in log' : d \in log \/ d = Entry("block", a, r)
      BY <2>2
    <3>2. \A d \in log : d.ref = a => d.kind \notin {"sign", "block"}
      BY <1>3 DEF IInv, LogShape, Unsigned
    <3>3. \A d \in log : d.ref \in Actions
      BY DEF IInv, TypeOK, LogEntry
    <3>4. \A d, e \in log' :
            d.kind = "block" /\ e.kind = "block" /\ d.ref = e.ref => d = e
      BY <3>1, <3>2 DEF IInv, LogShape, Entry
    <3>5. \A d \in log' :
            /\ d.kind = "sign" =>
                 d.by = row'[d.ref].ticket /\ row'[d.ref].status \notin Unsigned
            /\ d.kind = "block" => row'[d.ref].status = "rejected"
      BY <2>1, <3>1, <3>2, <3>3 DEF IInv, LogShape, Entry
    <3>6. \A b \in Actions : row'[b].status = "rejected" => Logged("block", b)'
      BY <2>1, <3>1 DEF IInv, LogShape, Entry, Logged
    <3> QED
      BY <3>4, <3>5, <3>6 DEF LogShape
  <2>9. BooksMatch'
    BY <1>1, <2>1, <2>2 DEF IInv, BooksMatch, Entry, Logged
  <2> QED
    BY <2>4, <2>5, <2>6, <2>7, <2>8, <2>9 DEF IInv
<1> QED
  BY <1>2, <1>3

\* A claim finds the action unclaimed, so its winner is the only holder.
LEMMA ClaimStep ==
  ASSUME IInv, TypeOK', NEW r \in Requests, Claim(r)
  PROVE  IInv'
<1> DEFINE a == req[r].act
<1>1. UNCHANGED <<log, held, delivered, applied>> /\ a \in Actions /\ req[r].pc = "claim"
  BY DEF Claim, At, IInv, TypeOK
<1>2. CASE ~Claimable(row[a])
  BY <1>1, <1>2, EndTyped, QuietStep DEF Claim, IInv, tables
<1>3. CASE Claimable(row[a])
  <2>1. /\ row'[a].status = "executing"
        /\ row'[a].ticket = row[a].ticket
        /\ row'[a].ticketUsed
        /\ \A b \in Actions : b # a => row'[b] = row[b]
    <3>1. row' = [row EXCEPT ![a] =
                    [row[a] EXCEPT !.status = "executing", !.ticketUsed = TRUE]]
      BY <1>3 DEF Claim
    <3>2. row \in [Actions -> Row] /\ row[a] \in Row
      BY <1>1 DEF IInv, TypeOK
    <3> QED
      BY <1>1, <3>1, <3>2 DEF Row
  <2>2. row[a].status = "confirmed"
    BY <1>3 DEF Claimable
  <2>3. /\ req'[r].pc = "run" /\ req'[r].act = a /\ req'[r].payload = req[r].payload
        /\ \A s \in Requests : s # r => req'[s] = req[s]
    <3>1. req' = [req EXCEPT ![r].pc = "run"]
      BY <1>3 DEF Claim
    <3> QED
      BY <3>1, PointTyped DEF IInv, Points
  <2>4. Started' = Started /\ \A e \in Started : e.action \in Actions
    BY <1>1 DEF Started, IInv, TypeOK, Effect
  <2>5. RowShape'
    BY <1>1, <2>1, <2>2 DEF IInv, RowShape, Spent
  <2>6. RequestShape'
    <3>1. \A s \in Requests :
            s # r /\ req'[s].pc \in {"run", "sent", "fail"} => req[s].act # a
      BY <2>2, <2>3 DEF IInv, RequestShape
    <3> QED
      BY <1>1, <2>1, <2>2, <2>3, <3>1 DEF IInv, RequestShape, Unsigned, TypeOK
  <2>7. \A s \in Requests : \A b \in Actions :
          Holds(s, b)' => \/ s = r /\ b = a
                          \/ s # r /\ b # a /\ Holds(s, b) /\ EffectOf(s)' = EffectOf(s)
    BY <2>2, <2>3 DEF Holds, Holding, EffectOf, IInv, RequestShape
  <2>8. \A e \in Started : e.action # a
    BY <2>2, <2>4 DEF IInv, EffectShape, Spent
  <2>9. Exclusive'
    BY <2>4, <2>7, <2>8 DEF IInv, Exclusive
  <2>10. EffectShape'
    BY <1>1, <2>1, <2>4, <2>8 DEF IInv, EffectShape, Started
  <2>11. LogShape'
    BY <1>1, <2>1, <2>2 DEF IInv, LogShape, Unsigned, Logged, TypeOK, LogEntry
  <2>12. BooksMatch'
    BY <1>1, <2>1 DEF IInv, BooksMatch, Entry, Logged
  <2> QED
    BY <2>5, <2>6, <2>9, <2>10, <2>11, <2>12 DEF IInv
<1> QED
  BY <1>2, <1>3

\* The external call is made by the holder, the first and only one to act.
LEMMA DeliverStep ==
  ASSUME IInv, TypeOK', NEW r \in Requests, Deliver(r)
  PROVE  IInv'
<1> DEFINE a == req[r].act
<1>1. /\ UNCHANGED <<row, log, held, applied>> /\ a \in Actions
      /\ req[r].pc = "run" /\ Holds(r, a)
      /\ row[a].status = "executing"
  BY DEF Deliver, At, IInv, TypeOK, RequestShape, Holds, Holding
<1>2. /\ req'[r].pc = "sent" /\ req'[r].act = a /\ req'[r].payload = req[r].payload
      /\ \A s \in Requests : s # r => req'[s] = req[s]
  <2>1. req' = [req EXCEPT ![r].pc = "sent"]
    BY DEF Deliver
  <2> QED
    BY <2>1, PointTyped DEF IInv, Points
<1>3. Started' = Started \cup {EffectOf(r)} /\ \A e \in Started : e.action \in Actions
  BY <1>1 DEF Deliver, Started, IInv, TypeOK, Effect
<1>4. \A s \in Requests : \A b \in Actions :
        Holds(s, b)' => Holds(s, b) /\ EffectOf(s)' = EffectOf(s)
  BY <1>1, <1>2 DEF Holds, Holding, EffectOf
<1>5. EffectOf(r).action = a
  BY DEF EffectOf
<1>6. RowShape' /\ LogShape' /\ BooksMatch'
  BY <1>1 DEF IInv, RowShape, LogShape, BooksMatch, Logged
<1>7. RequestShape'
  BY <1>1, <1>2 DEF IInv, RequestShape
<1>8. Exclusive'
  <2>1. \A e \in Started : e.action = a => e = EffectOf(r)
    BY <1>1 DEF IInv, Exclusive
  <2>2. \A s \in Requests : Holds(s, a) => s = r
    BY <1>1 DEF IInv, Exclusive
  <2>3. \A e, f \in Started' : e.action = f.action => e = f
    BY <1>3, <1>5, <2>1 DEF IInv, Exclusive
  <2>4. \A e \in Started' : \A s \in Requests : Holds(s, e.action)' => e = EffectOf(s)'
    BY <1>1, <1>3, <1>4, <1>5, <2>2 DEF IInv, Exclusive
  <2>5. \A s, q \in Requests : \A b \in Actions : Holds(s, b)' /\ Holds(q, b)' => s = q
    BY <1>4 DEF IInv, Exclusive
  <2> QED
    BY <2>3, <2>4, <2>5 DEF Exclusive
<1>9. EffectShape'
  <2>1. EffectOf(r).payload = "disclosed" /\ row[a].ticket \in held
    BY <1>1 DEF EffectOf, IInv, RequestShape
  <2> QED
    BY <1>1, <1>3, <1>5, <2>1 DEF IInv, EffectShape, Spent
<1> QED
  BY <1>6, <1>7, <1>8, <1>9 DEF IInv

LEMMA ToolFailsStep ==
  ASSUME IInv, TypeOK', NEW r \in Requests, ToolFails(r)
  PROVE  IInv'
<1>1. UNCHANGED <<row, log, held, delivered, applied>> /\ req[r].pc \in {"run", "sent"}
  BY DEF ToolFails, tables
<1>2. /\ req'[r].pc = "fail" /\ req'[r].act = req[r].act
      /\ req'[r].payload = req[r].payload
      /\ \A s \in Requests : s # r => req'[s] = req[s]
  <2>1. req' = [req EXCEPT ![r].pc = "fail"]
    BY DEF ToolFails
  <2> QED
    BY <2>1, PointTyped DEF IInv, Points
<1>3. \A s \in Requests : \A b \in Actions :
        Holds(s, b)' => Holds(s, b) /\ EffectOf(s)' = EffectOf(s)
  BY <1>1, <1>2 DEF Holds, Holding, EffectOf
<1>4. Started' = Started /\ \A e \in Started : e.action \in Actions
  BY <1>1 DEF Started, IInv, TypeOK, Effect
<1>5. RowShape' /\ LogShape' /\ BooksMatch' /\ EffectShape'
  BY <1>1, <1>4 DEF IInv, RowShape, LogShape, BooksMatch, Logged, EffectShape
<1>6. RequestShape'
  BY <1>1, <1>2 DEF IInv, RequestShape
<1>7. Exclusive'
  BY <1>3, <1>4 DEF IInv, Exclusive
<1> QED
  BY <1>5, <1>6, <1>7 DEF IInv

\* Transaction (2): the effect, its irrev row and the status, all at once.
LEMMA FinalizeStep ==
  ASSUME IInv, TypeOK', NEW r \in Requests, Finalize(r)
  PROVE  IInv'
<1> DEFINE a == req[r].act
<1>1. /\ UNCHANGED <<held, delivered>> /\ a \in Actions
      /\ req[r].pc \in {"run", "sent"} /\ Holds(r, a)
      /\ row[a].status = "executing"
  BY DEF Finalize, IInv, TypeOK, RequestShape, Holds, Holding
<1>2. /\ row'[a].status = "executed"
      /\ row'[a].ticket = row[a].ticket
      /\ row'[a].ticketUsed = row[a].ticketUsed
      /\ \A b \in Actions : b # a => row'[b] = row[b]
  BY <1>1, StatusTyped DEF Finalize, IInv, Status
<1>3. /\ \/ req'[r].pc = "over"
         \/ /\ req'[r].pc = "fail" /\ req'[r].act = a
            /\ req'[r].payload = req[r].payload
      /\ \A s \in Requests : s # r => req'[s] = req[s]
  <2>1. CASE End(r)
    BY <2>1, EndTyped DEF IInv
  <2>2. CASE req' = [req EXCEPT ![r].pc = "fail"]
    BY <2>2, PointTyped DEF IInv, Points
  <2> QED
    BY <2>1, <2>2 DEF Finalize
<1>4. /\ log' = log \cup {Entry("irrev", a, r)}
      /\ applied' = applied \cup {EffectOf(r)}
      /\ Started' = Started \cup {EffectOf(r)}
  BY DEF Finalize, Started
<1>5. \A e \in Started : e.action \in Actions
  BY DEF Started, IInv, TypeOK, Effect
<1>6. EffectOf(r).action = a /\ EffectOf(r).by = r
  BY DEF EffectOf
<1>7. \A s \in Requests : \A b \in Actions :
        Holds(s, b)' => Holds(s, b) /\ EffectOf(s)' = EffectOf(s)
  BY <1>1, <1>3 DEF Holds, Holding, EffectOf
<1>8. \A s \in Requests : Holds(s, a) => s = r
  BY <1>1 DEF IInv, Exclusive
<1>9. RowShape'
  BY <1>1, <1>2, <1>4 DEF IInv, RowShape, Spent
<1>10. RequestShape'
  <2>1. \A s \in Requests :
          s # r /\ req'[s].pc \in {"run", "sent", "fail"} => req[s].act # a
    BY <1>3, <1>8 DEF Holds, Holding
  <2> QED
    BY <1>1, <1>2, <1>3, <2>1 DEF IInv, RequestShape, Unsigned, TypeOK
<1>11. Exclusive'
  <2>1. \A e \in Started : e.action = a => e = EffectOf(r)
    BY <1>1 DEF IInv, Exclusive
  <2>2. \A e, f \in Started' : e.action = f.action => e = f
    BY <1>4, <1>6, <2>1 DEF IInv, Exclusive
  <2>3. \A e \in Started' : \A s \in Requests : Holds(s, e.action)' => e = EffectOf(s)'
    BY <1>1, <1>4, <1>5, <1>6, <1>7, <1>8 DEF IInv, Exclusive
  <2>4. \A s, q \in Requests : \A b \in Actions : Holds(s, b)' /\ Holds(q, b)' => s = q
    BY <1>7 DEF IInv, Exclusive
  <2> QED
    BY <2>2, <2>3, <2>4 DEF Exclusive
<1>12. EffectShape'
  <2>1. EffectOf(r).payload = "disclosed" /\ row[a].ticket \in held
    BY <1>1 DEF EffectOf, IInv, RequestShape
  <2>2. applied \subseteq Started
    BY DEF Started
  <2> QED
    BY <1>1, <1>2, <1>4, <1>5, <1>6, <2>1, <2>2 DEF IInv, EffectShape, Spent
<1>13. LogShape'
  BY <1>1, <1>2, <1>4 DEF IInv, LogShape, Unsigned, Logged, Entry, TypeOK, LogEntry
<1>14. BooksMatch'
  <2>1. \A b \in Actions, s \in Requests :
          Entry("irrev", b, s) \in log' <=>
            Entry("irrev", b, s) \in log \/ (b = a /\ s = r)
    BY <1>4 DEF Entry
  <2>2. \A b \in Actions, s \in Requests :
          (\E e \in applied' : e.action = b /\ e.by = s) <=>
            (\E e \in applied : e.action = b /\ e.by = s) \/ (b = a /\ s = r)
    BY <1>4, <1>6
  <2>3. \E d \in log' : d.kind = "irrev" /\ d.ref = a
    <3>1. /\ Entry("irrev", a, r).kind = "irrev"
          /\ Entry("irrev", a, r).ref = a
          /\ Entry("irrev", a, r) \in log'
      BY <1>4 DEF Entry
    <3> QED
      BY <3>1
  <2>4. \A b \in Actions : Logged("irrev", b) => Logged("irrev", b)'
    BY <1>4 DEF Logged
  <2>5. \A b \in Actions : Logged("auto", b) => Logged("auto", b)'
    BY <1>4 DEF Logged
  <2>6. \A b \in Actions : row'[b].status = "executed" => Logged("irrev", b)'
    BY <1>2, <2>3, <2>4 DEF IInv, BooksMatch, Logged
  <2>7. \A b \in Actions : row'[b].status = "failed" => Logged("auto", b)'
    BY <1>2, <2>5 DEF IInv, BooksMatch
  <2>8. \A b \in Actions, s \in Requests :
          Entry("irrev", b, s) \in log' <=> \E e \in applied' : e.action = b /\ e.by = s
    BY <2>1, <2>2 DEF IInv, BooksMatch
  <2> QED
    BY <2>6, <2>7, <2>8 DEF BooksMatch
<1> QED
  BY <1>9, <1>10, <1>11, <1>12, <1>13, <1>14 DEF IInv

\* Transaction (3) touches no effect, only the verdict on it.
LEMMA RecordFailureStep ==
  ASSUME IInv, TypeOK', NEW r \in Requests, RecordFailure(r)
  PROVE  IInv'
<1> DEFINE a == req[r].act
<1>1. /\ UNCHANGED <<held, delivered, applied>> /\ a \in Actions /\ End(r)
      /\ req[r].pc = "fail" /\ Holds(r, a)
      /\ row[a].status \in {"executing", "executed"}
  BY DEF RecordFailure, At, IInv, TypeOK, RequestShape, Holds, Holding
<1>2. /\ row'[a].status = "failed"
      /\ row'[a].ticket = row[a].ticket
      /\ row'[a].ticketUsed = row[a].ticketUsed
      /\ \A b \in Actions : b # a => row'[b] = row[b]
  BY <1>1, StatusTyped DEF RecordFailure, IInv, Status
<1>3. log' = log \cup {Entry("auto", a, r)}
  BY DEF RecordFailure
<1>4. Started' = Started /\ \A e \in Started : e.action \in Actions
  BY <1>1 DEF Started, IInv, TypeOK, Effect
<1>5. \A s \in Requests : Holds(s, a) => s = r
  BY <1>1 DEF IInv, Exclusive
<1>6. RowShape'
  BY <1>1, <1>2, <1>3 DEF IInv, RowShape, Spent
<1>7. RequestShape'
  <2>1. \A s \in Requests : req'[s].pc # "over" => s # r /\ req'[s] = req[s]
    BY <1>1, AfterEnd DEF IInv
  <2>2. \A s \in Requests :
          s # r /\ req[s].pc \in {"run", "sent", "fail"} => req[s].act # a
    BY <1>5 DEF Holds, Holding
  <2> QED
    BY <1>1, <1>2, <2>1, <2>2 DEF IInv, RequestShape, Unsigned, TypeOK
<1>8. Exclusive'
  BY <1>1, <1>4, AfterEnd DEF IInv, Exclusive
<1>9. EffectShape'
  BY <1>1, <1>2, <1>4 DEF IInv, EffectShape, Spent, Started
<1>10. LogShape'
  BY <1>1, <1>2, <1>3 DEF IInv, LogShape, Unsigned, Logged, Entry, TypeOK, LogEntry
<1>11. BooksMatch'
  BY <1>1, <1>2, <1>3 DEF IInv, BooksMatch, Entry, Logged
<1> QED
  BY <1>6, <1>7, <1>8, <1>9, <1>10, <1>11 DEF IInv

\* A dead request holds nothing: its claim is nobody's.
LEMMA CrashStep ==
  ASSUME IInv, TypeOK', NEW r \in Requests, Crash(r)
  PROVE  IInv'
<1>1. /\ UNCHANGED <<held, tables>>
      /\ req'[r].pc \in {"crashed", "orphaned"}
      /\ \A s \in Requests : s # r => req'[s] = req[s]
  BY DEF Crash, Fresh, IInv, TypeOK
<1> QED
  BY <1>1, QuietStep

\* The payload column matters only until it has been checked.
LEMMA AlterPayloadStep ==
  ASSUME IInv, TypeOK', NEW a \in Actions, AlterPayload(a)
  PROVE  IInv'
<1>1. /\ UNCHANGED <<log, req, held, delivered, applied>>
      /\ \A b \in Actions :
           /\ row'[b].status = row[b].status
           /\ row'[b].ticket = row[b].ticket
           /\ row'[b].ticketUsed = row[b].ticketUsed
  BY DEF AlterPayload, IInv, TypeOK, Row
<1>2. Started' = Started /\ \A e \in Started : e.action \in Actions
  BY <1>1 DEF Started, IInv, TypeOK, Effect
<1>3. RowShape' /\ LogShape' /\ BooksMatch' /\ EffectShape'
  BY <1>1, <1>2
     DEF IInv, RowShape, LogShape, BooksMatch, Logged, EffectShape, TypeOK, LogEntry, Effect
<1>4. RequestShape'
  BY <1>1 DEF IInv, RequestShape, TypeOK
<1>5. Exclusive'
  BY <1>1, <1>2 DEF IInv, Exclusive, Holds, Holding, EffectOf
<1> QED
  BY <1>3, <1>4, <1>5 DEF IInv

LEMMA IdleStep ==
  ASSUME IInv, TypeOK', UNCHANGED <<req, held, tables>>
  PROVE  IInv'
<1>1. RowShape' /\ LogShape' /\ BooksMatch' /\ EffectShape' /\ RequestShape'
  BY DEF IInv, tables, RowShape, LogShape, BooksMatch, Logged, EffectShape,
         Started, RequestShape
<1>2. Exclusive'
  BY DEF IInv, tables, Exclusive, Started, Holds, Holding, EffectOf
<1> QED
  BY <1>1, <1>2 DEF IInv

\* The ticket protocol keeps the inductive invariant.
LEMMA IInvInduction == IInv /\ [Next]_vars => IInv'
<1> SUFFICES ASSUME IInv, [Next]_vars PROVE IInv'
  OBVIOUS
<1>1. TypeOK'
  BY TypeInduction DEF IInv
<1>2. CASE Tick \/ UNCHANGED vars
  BY <1>1, <1>2, IdleStep DEF Tick, vars, tables
<1>3. ASSUME NEW a \in Actions, AlterPayload(a)
      PROVE  IInv'
  BY <1>1, <1>3, AlterPayloadStep
<1>4. ASSUME NEW r \in Requests, Arrive(r)
      PROVE  IInv'
  <2>1. PICK a \in Actions :
          \/ Propose(r, a) \/ ReadDetail(r, a) \/ ConfirmRead(r, a) \/ RejectRead(r, a)
          \/ \E t \in held \cup {NoTicket} : ExecuteRead(r, a, t)
    BY <1>4 DEF Arrive
  <2> QED
    BY <1>1, <2>1, ProposeStep, ReadStep
<1>5. ASSUME NEW r \in Requests, Proceed(r)
      PROVE  IInv'
  BY <1>1, <1>5, LogProposalStep, LazyExpireStep, ConfirmCommitStep, RejectCommitStep,
     ClaimStep, DeliverStep, ToolFailsStep, FinalizeStep, RecordFailureStep DEF Proceed
<1>6. ASSUME NEW r \in Requests, Crash(r)
      PROVE  IInv'
  BY <1>1, <1>6, CrashStep
<1> QED
  BY <1>2, <1>3, <1>4, <1>5, <1>6 DEF Next

\* The inductive invariant holds in every reachable state.
THEOREM Invariant == Spec => []IInv
<1>1. Init => IInv
  <2> SUFFICES ASSUME Init PROVE IInv
    OBVIOUS
  <2>1. TypeOK
    BY GateAssumption
       DEF Init, TypeOK, NoRow, Fresh, Row, Request, Status, Payloads, Points, Tickets
  <2>2. /\ log = {} /\ Started = {} /\ applied = {}
        /\ \A a \in Actions : row[a].status = "absent" /\ row[a].ticketUsed = FALSE
        /\ \A r \in Requests : req[r].pc = "ready"
    BY DEF Init, NoRow, Fresh, Started
  <2>3. RowShape
    BY <2>2 DEF RowShape, Spent
  <2>4. RequestShape
    BY <2>2 DEF RequestShape
  <2>5. Exclusive
    BY <2>2 DEF Exclusive, Holds, Holding
  <2>6. EffectShape /\ LogShape /\ BooksMatch
    BY <2>2 DEF EffectShape, LogShape, BooksMatch
  <2> QED
    BY <2>1, <2>3, <2>4, <2>5, <2>6 DEF IInv
<1> QED
  BY <1>1, IInvInduction, PTL DEF Spec

-----------------------------------------------------------------------------
\* The safety properties

\* A late reader knows that a window has passed: the deadline it compared with
\* the clock is still that of the status it saw, or that status is over for good.
LapseShape ==
  \A r \in Requests : req[r].pc = "lapse" =>
    /\ req[r].seen = "pending" =>
         /\ row[req[r].act].status # "absent"
         /\ row[req[r].act].expiresAt < now
    /\ req[r].seen = "confirmed" =>
         /\ row[req[r].act].status \notin {"absent", "pending"}
         /\ row[req[r].act].ticketExpiresAt < now

\* What a step may do to the deadlines of a row and to the statuses before them.
DeadlinesKept(a) ==
  /\ row[a].status # "absent" =>
       row'[a].status # "absent" /\ row'[a].expiresAt = row[a].expiresAt
  /\ row[a].status \notin {"absent", "pending"} =>
       /\ row'[a].status \notin {"absent", "pending"}
       /\ row'[a].ticketExpiresAt = row[a].ticketExpiresAt

LEMMA DeadlinesStay ==
  ASSUME IInv, [Next]_vars, NEW a \in Actions
  PROVE  DeadlinesKept(a)
<1>0. row \in [Actions -> Row] /\ row[a] \in Row
  BY DEF IInv, TypeOK
<1>1. CASE row'[a] = row[a]
  BY <1>1 DEF DeadlinesKept
<1>2. ASSUME NEW r \in Requests, NEW b \in Actions, Propose(r, b)
      PROVE  DeadlinesKept(a)
  BY <1>0, <1>2 DEF Propose, DeadlinesKept
<1>3. ASSUME NEW s \in Status \ {"absent", "pending"}, NEW b \in Actions, SetStatus(b, s)
      PROVE  DeadlinesKept(a)
  BY <1>0, <1>3 DEF SetStatus, DeadlinesKept, Row
<1>4. ASSUME NEW r \in Requests,
             \/ LazyExpire(r) \/ RejectCommit(r) \/ Finalize(r) \/ RecordFailure(r)
      PROVE  DeadlinesKept(a)
  <2>1. req[r].act \in Actions
    BY <1>4 DEF LazyExpire, RejectCommit, Finalize, RecordFailure, At, IInv, TypeOK
  <2>2. \/ row' = row
        \/ \E s \in Status \ {"absent", "pending"} : SetStatus(req[r].act, s)
    BY <1>4 DEF LazyExpire, RejectCommit, Finalize, RecordFailure, Status
  <2> QED
    BY <1>1, <1>3, <2>1, <2>2
<1>5. ASSUME NEW r \in Requests, ConfirmCommit(r)
      PROVE  DeadlinesKept(a)
  <2>1. CASE row[req[r].act].status = "pending" /\ req[r].act = a
    <3>1. row'[a] = [row[a] EXCEPT !.status = "confirmed", !.ticket = r,
                                   !.ticketExpiresAt = req[r].until]
      BY <1>0, <1>5, <2>1 DEF ConfirmCommit, Sign
    <3>2. row'[a].status = "confirmed" /\ row'[a].expiresAt = row[a].expiresAt
      BY <1>0, <3>1 DEF Row
    <3> QED
      BY <2>1, <3>2 DEF DeadlinesKept
  <2>2. CASE row[req[r].act].status # "pending" \/ req[r].act # a
    <3>1. row'[a] = row[a]
      BY <1>0, <1>5, <2>2 DEF ConfirmCommit, Sign
    <3> QED
      BY <1>1, <3>1
  <2> QED
    BY <2>1, <2>2
<1>6. ASSUME NEW r \in Requests, Claim(r)
      PROVE  DeadlinesKept(a)
  <2>1. CASE Claimable(row[req[r].act]) /\ req[r].act = a
    <3>1. row'[a] = [row[a] EXCEPT !.status = "executing", !.ticketUsed = TRUE]
      BY <1>0, <1>6, <2>1 DEF Claim
    <3>2. /\ row'[a].status = "executing" /\ row'[a].expiresAt = row[a].expiresAt
          /\ row'[a].ticketExpiresAt = row[a].ticketExpiresAt
      BY <1>0, <3>1 DEF Row
    <3> QED
      BY <3>2 DEF DeadlinesKept
  <2>2. CASE ~Claimable(row[req[r].act]) \/ req[r].act # a
    <3>1. row'[a] = row[a]
      BY <1>0, <1>6, <2>2 DEF Claim
    <3> QED
      BY <1>1, <3>1
  <2> QED
    BY <2>1, <2>2
<1>7. ASSUME NEW b \in Actions, AlterPayload(b)
      PROVE  DeadlinesKept(a)
  BY <1>0, <1>7 DEF AlterPayload, DeadlinesKept, Row
<1>8. ASSUME NEW r \in Requests,
             \/ LogProposal(r) \/ Deliver(r) \/ ToolFails(r) \/ Crash(r)
             \/ \E b \in Actions :
                  \/ ReadDetail(r, b) \/ ConfirmRead(r, b) \/ RejectRead(r, b)
                  \/ \E t \in held \cup {NoTicket} : ExecuteRead(r, b, t)
      PROVE  row' = row
  BY <1>8 DEF ReadDetail, ConfirmRead, RejectRead, ExecuteRead, LogProposal, Deliver,
              ToolFails, Crash, tables
<1>9. CASE Tick \/ UNCHANGED vars
  BY <1>1, <1>9 DEF Tick, tables, vars
<1> QED
  BY <1>1, <1>2, <1>4, <1>5, <1>6, <1>7, <1>8, <1>9 DEF Next, Arrive, Proceed

\* A request that goes to its expiry write saw a window that has passed.
LEMMA LapseBegins ==
  ASSUME IInv, [Next]_vars, NEW r \in Requests, req'[r].pc = "lapse"
  PROVE  \/ req[r].pc = "lapse" /\ req'[r] = req[r]
         \/ /\ row' = row /\ now' = now
            /\ req'[r].act \in Actions
            /\ req'[r].seen = row[req'[r].act].status
            /\ ConfirmWindowPassed(row[req'[r].act])
                 \/ TicketWindowPassed(row[req'[r].act])
<1> DEFINE Begins(q) ==
      \/ req[q].pc = "lapse" /\ req'[q] = req[q]
      \/ /\ row' = row /\ now' = now
         /\ req'[q].act \in Actions
         /\ req'[q].seen = row[req'[q].act].status
         /\ ConfirmWindowPassed(row[req'[q].act])
              \/ TicketWindowPassed(row[req'[q].act])
<1> USE DEF IInv, TypeOK
<1>1. CASE req'[r] = req[r]
  BY <1>1
<1>2. ASSUME NEW s \in Requests, s # r, Arrive(s) \/ Proceed(s) \/ Crash(s)
      PROVE  req'[r] = req[r]
  BY <1>2 DEF Arrive, Proceed, Propose, ReadDetail, ConfirmRead, RejectRead, ExecuteRead,
              LogProposal, LazyExpire, ConfirmCommit, RejectCommit, Claim, Deliver,
              ToolFails, Finalize, RecordFailure, Crash, End, GoOn
<1>3. CASE Tick \/ (\E a \in Actions : AlterPayload(a)) \/ UNCHANGED vars
  BY <1>1, <1>3 DEF Tick, AlterPayload, vars
<1>4. CASE Proceed(r) \/ Crash(r)
  BY <1>4 DEF Proceed, LogProposal, LazyExpire, ConfirmCommit, RejectCommit, Claim,
              Deliver, ToolFails, Finalize, RecordFailure, Crash, End, Fresh, Request
<1>5. ASSUME NEW a \in Actions, Propose(r, a)
      PROVE  Begins(r)
  BY <1>5, EndTyped, GoOnTyped DEF Propose, Points
<1>6. ASSUME NEW a \in Actions, NEW t,
             \/ ReadDetail(r, a) \/ ConfirmRead(r, a) \/ RejectRead(r, a)
             \/ ExecuteRead(r, a, t)
      PROVE  Begins(r)
  <2>1. row' = row /\ now' = now
    BY <1>6 DEF ReadDetail, ConfirmRead, RejectRead, ExecuteRead, tables
  <2>2. ASSUME NEW p \in {"sign", "reject", "claim"}, NEW d \in Nat, GoOn(r, p, a, d)
        PROVE  FALSE
    BY <2>2, GoOnTyped DEF Points
  <2>3. ~End(r)
    BY EndTyped
  <2>4. Deadline(TicketTTL) \in Nat
    BY GateAssumption DEF Deadline
  <2>5. /\ GoOn(r, "lapse", a, 0)
        /\ ConfirmWindowPassed(row[a]) \/ TicketWindowPassed(row[a])
    BY <1>6, <2>2, <2>3, <2>4 DEF ReadDetail, ConfirmRead, RejectRead, ExecuteRead
  <2>6. req'[r].act = a /\ req'[r].seen = row[a].status
    BY <2>5, GoOnTyped DEF Points
  <2> QED
    BY <2>1, <2>5, <2>6
<1> QED
  BY <1>1, <1>2, <1>3, <1>4, <1>5, <1>6 DEF Next, Arrive

LEMMA LapseInduction ==
  ASSUME IInv, LapseShape, [Next]_vars
  PROVE  LapseShape'
<1> SUFFICES ASSUME NEW r \in Requests, req'[r].pc = "lapse"
             PROVE  /\ req'[r].seen = "pending" =>
                         /\ row'[req'[r].act].status # "absent"
                         /\ row'[req'[r].act].expiresAt < now'
                    /\ req'[r].seen = "confirmed" =>
                         /\ row'[req'[r].act].status \notin {"absent", "pending"}
                         /\ row'[req'[r].act].ticketExpiresAt < now'
  BY DEF LapseShape
<1>1. CASE req[r].pc = "lapse" /\ req'[r] = req[r]
  <2> DEFINE a == req[r].act
  <2>1. a \in Actions /\ row[a] \in Row /\ now \in Nat
    BY <1>1 DEF IInv, TypeOK
  <2>2. now' \in Nat /\ now' >= now
    <3>1. CASE Tick
      BY <2>1, <3>1 DEF Tick
    <3>2. CASE now' = now
      BY <2>1, <3>2
    <3>3. ASSUME NEW q \in Requests, Proceed(q) \/ Crash(q)
          PROVE  now' = now
      BY <3>3 DEF Proceed, LogProposal, LazyExpire, ConfirmCommit, RejectCommit, Claim,
                  Deliver, ToolFails, Finalize, RecordFailure, Crash
    <3>4. ASSUME NEW q \in Requests, Arrive(q)
          PROVE  now' = now
      BY <3>4 DEF Arrive, Propose, ReadDetail, ConfirmRead, RejectRead, ExecuteRead
    <3>5. ASSUME NEW b \in Actions, AlterPayload(b)
          PROVE  now' = now
      BY <3>5 DEF AlterPayload
    <3>6. CASE UNCHANGED vars
      BY <3>2, <3>6 DEF vars
    <3> QED
      BY <3>1, <3>2, <3>3, <3>4, <3>5, <3>6 DEF Next
  <2>3. DeadlinesKept(a)
    BY <2>1, DeadlinesStay
  <2>4. row[a].expiresAt \in Nat /\ row[a].ticketExpiresAt \in Nat
    BY <2>1 DEF Row
  <2> QED
    BY <1>1, <2>1, <2>2, <2>3, <2>4 DEF LapseShape, DeadlinesKept
<1>2. CASE /\ row' = row /\ now' = now
           /\ req'[r].act \in Actions
           /\ req'[r].seen = row[req'[r].act].status
           /\ ConfirmWindowPassed(row[req'[r].act]) \/ TicketWindowPassed(row[req'[r].act])
  BY <1>2 DEF ConfirmWindowPassed, TicketWindowPassed
<1> QED
  BY <1>1, <1>2, LapseBegins

LEMMA OneAnswerHolds == IInv => OneAnswer
<1> SUFFICES ASSUME IInv PROVE OneAnswer
  OBVIOUS
<1>1. ASSUME NEW d \in log, NEW e \in log, d.ref = e.ref,
             d.kind \in {"sign", "block"}, e.kind \in {"sign", "block"}
      PROVE  d = e
  <2>1. d \in LogEntry /\ e \in LogEntry
    BY DEF IInv, TypeOK
  <2>2. CASE d.kind = "block" /\ e.kind = "block"
    <3>1. \A x, y \in log :
            x.kind = "block" /\ y.kind = "block" /\ x.ref = y.ref => x = y
      BY DEF IInv, LogShape
    <3> QED
      BY <1>1, <2>2, <3>1
  <2>3. CASE d.kind = "sign" /\ e.kind = "sign"
    <3>1. d.by = e.by /\ d.kind = e.kind
      BY <1>1, <2>3 DEF IInv, LogShape
    <3> QED
      BY <1>1, <2>1, <3>1 DEF LogEntry
  <2>4. CASE d.kind # e.kind
    <3>1. \A x \in log : /\ x.kind = "sign" => row[x.ref].status # "rejected"
                         /\ x.kind = "block" => row[x.ref].status = "rejected"
      BY DEF IInv, LogShape, Unsigned
    <3>2. \/ d.kind = "sign" /\ e.kind = "block"
          \/ d.kind = "block" /\ e.kind = "sign"
      BY <1>1, <2>4
    <3> QED
      BY <1>1, <3>1, <3>2
  <2> QED
    BY <1>1, <2>2, <2>3, <2>4
<1>2. ASSUME NEW a \in Actions PROVE row[a].status = "rejected" <=> Logged("block", a)
  <2>1. row[a].status = "rejected" => Logged("block", a)
    BY DEF IInv, LogShape
  <2>2. \A d \in log : d.kind = "block" => row[d.ref].status = "rejected"
    BY DEF IInv, LogShape
  <2> QED
    BY <2>1, <2>2 DEF Logged
<1>3. ASSUME NEW a \in Actions PROVE \A d, e \in Decisions(a) : d = e
  <2> SUFFICES ASSUME NEW d \in Decisions(a), NEW e \in Decisions(a) PROVE d = e
    OBVIOUS
  <2>1. d \in log /\ d.kind \in {"sign", "block"} /\ d.ref = a
    BY DEF Decisions
  <2>2. e \in log /\ e.kind \in {"sign", "block"} /\ e.ref = a
    BY DEF Decisions
  <2> QED
    BY <1>1, <2>1, <2>2
<1> QED
  BY <1>2, <1>3 DEF OneAnswer

\* An answered action has left pending, which is where both answers are taken.
LEMMA AnsweredIsLeft ==
  ASSUME IInv, NEW a \in Actions, Decisions(a) # {}
  PROVE  row[a].status \notin {"absent", "pending"}
  BY DEF IInv, LogShape, Unsigned, Decisions

LEMMA AnswersComeFromPending ==
  ASSUME IInv, [Next]_vars, NEW a \in Actions, row[a].status # "pending"
  PROVE  Decisions(a)' = Decisions(a)
<1> DEFINE Silent == \A d \in log' \ log : d.kind \in {"sign", "block"} => d.ref # a
<1>1. CASE Silent /\ log \subseteq log'
  BY <1>1 DEF Decisions
<1>2. log \subseteq log' /\ Silent
  <2>1. ASSUME NEW r \in Requests,
               \/ LogProposal(r) \/ Finalize(r) \/ RecordFailure(r)
               \/ \E b \in Actions : Propose(r, b)
        PROVE  log \subseteq log' /\ Silent
    BY <2>1 DEF LogProposal, Finalize, RecordFailure, Propose, Entry
  <2>2. ASSUME NEW r \in Requests, ConfirmCommit(r) \/ RejectCommit(r)
        PROVE  log \subseteq log' /\ Silent
    BY <2>2 DEF ConfirmCommit, RejectCommit, Sign, Entry
  <2>3. ASSUME NEW r \in Requests,
               \/ LazyExpire(r) \/ Claim(r) \/ Deliver(r) \/ ToolFails(r) \/ Crash(r)
               \/ \E b \in Actions :
                    \/ ReadDetail(r, b) \/ ConfirmRead(r, b) \/ RejectRead(r, b)
                    \/ \E t \in held \cup {NoTicket} : ExecuteRead(r, b, t)
        PROVE  log' = log
    BY <2>3 DEF LazyExpire, Claim, Deliver, ToolFails, Crash, ReadDetail, ConfirmRead,
                RejectRead, ExecuteRead, tables
  <2>4. CASE Tick \/ (\E b \in Actions : AlterPayload(b)) \/ UNCHANGED vars
    BY <2>4 DEF Tick, AlterPayload, tables, vars
  <2> QED
    BY <2>1, <2>2, <2>3, <2>4 DEF Next, Arrive, Proceed
<1> QED
  BY <1>1, <1>2

\* A rejected or expired row is never written, and a row expires only when the
\* window of its own status has passed.
LEMMA ClosedIsStill ==
  ASSUME IInv, [Next]_vars, NEW a \in Actions, row[a].status \in {"rejected", "expired"}
  PROVE  row'[a] = row[a]
<1> USE DEF IInv, TypeOK
<1>1. ASSUME NEW r \in Requests, NEW b \in Actions, Propose(r, b)
      PROVE  row'[a] = row[a]
  BY <1>1 DEF Propose
<1>2. ASSUME NEW r \in Requests,
             LazyExpire(r) \/ ConfirmCommit(r) \/ RejectCommit(r) \/ Claim(r)
      PROVE  row'[a] = row[a]
  BY <1>2 DEF LazyExpire, ConfirmCommit, RejectCommit, Claim, Claimable, Sign, SetStatus,
              At, RequestShape
<1>3. ASSUME NEW r \in Requests, Finalize(r) \/ RecordFailure(r)
      PROVE  row'[a] = row[a]
  BY <1>3 DEF Finalize, RecordFailure, SetStatus, At, RequestShape
<1>4. ASSUME NEW b \in Actions, AlterPayload(b)
      PROVE  row'[a] = row[a]
  BY <1>4 DEF AlterPayload
<1>5. ASSUME NEW r \in Requests,
             \/ LogProposal(r) \/ Deliver(r) \/ ToolFails(r) \/ Crash(r)
             \/ \E b \in Actions :
                  \/ ReadDetail(r, b) \/ ConfirmRead(r, b) \/ RejectRead(r, b)
                  \/ \E t \in held \cup {NoTicket} : ExecuteRead(r, b, t)
      PROVE  row' = row
  BY <1>5 DEF LogProposal, Deliver, ToolFails, Crash, ReadDetail, ConfirmRead,
              RejectRead, ExecuteRead, tables
<1>6. CASE Tick \/ UNCHANGED vars
  BY <1>6 DEF Tick, tables, vars
<1> QED
  BY <1>1, <1>2, <1>3, <1>4, <1>5, <1>6 DEF Next, Arrive, Proceed

LEMMA ExpiresLate ==
  ASSUME IInv, LapseShape, [Next]_vars, NEW a \in Actions,
         row'[a].status = "expired", row[a].status # "expired"
  PROVE  ConfirmWindowPassed(row[a]) \/ TicketWindowPassed(row[a])
<1> DEFINE Late == ConfirmWindowPassed(row[a]) \/ TicketWindowPassed(row[a])
<1> USE DEF IInv, TypeOK
<1>1. ASSUME NEW r \in Requests, LazyExpire(r)
      PROVE  Late
  <2>1. /\ a = req[r].act /\ req[r].pc = "lapse"
        /\ row[a].status = req[r].seen
        /\ req[r].seen \in {"pending", "confirmed"}
    BY <1>1 DEF LazyExpire, SetStatus, At, RequestShape
  <2> QED
    BY <2>1 DEF LapseShape, ConfirmWindowPassed, TicketWindowPassed
<1>2. ASSUME NEW r \in Requests, NEW b \in Actions, Propose(r, b)
      PROVE  Late
  BY <1>2 DEF Propose, NoRow, Row
<1>3. ASSUME NEW r \in Requests, ConfirmCommit(r) \/ Claim(r)
      PROVE  Late
  <2>1. row[a] \in Row
    OBVIOUS
  <2>2. CASE ConfirmCommit(r) /\ row'[a] # row[a]
    <3>1. row'[a] = [row[a] EXCEPT !.status = "confirmed", !.ticket = r,
                                   !.ticketExpiresAt = req[r].until]
      BY <2>2 DEF ConfirmCommit, Sign
    <3> QED
      BY <2>1, <3>1 DEF Row
  <2>3. CASE Claim(r) /\ row'[a] # row[a]
    <3>1. row'[a] = [row[a] EXCEPT !.status = "executing", !.ticketUsed = TRUE]
      BY <2>3 DEF Claim
    <3> QED
      BY <2>1, <3>1 DEF Row
  <2> QED
    BY <1>3, <2>2, <2>3
<1>4. ASSUME NEW r \in Requests, RejectCommit(r) \/ Finalize(r) \/ RecordFailure(r)
      PROVE  Late
  <2>1. /\ req[r].act \in Actions
        /\ \/ row' = row \/ SetStatus(req[r].act, "rejected")
           \/ SetStatus(req[r].act, "executed") \/ SetStatus(req[r].act, "failed")
    BY <1>4 DEF RejectCommit, Finalize, RecordFailure, At
  <2> QED
    BY <2>1, StatusTyped DEF Status
<1>5. ASSUME NEW b \in Actions, AlterPayload(b)
      PROVE  Late
  BY <1>5 DEF AlterPayload, Row
<1>6. ASSUME NEW r \in Requests,
             \/ LogProposal(r) \/ Deliver(r) \/ ToolFails(r) \/ Crash(r)
             \/ \E b \in Actions :
                  \/ ReadDetail(r, b) \/ ConfirmRead(r, b) \/ RejectRead(r, b)
                  \/ \E t \in held \cup {NoTicket} : ExecuteRead(r, b, t)
      PROVE  row' = row
  BY <1>6 DEF LogProposal, Deliver, ToolFails, Crash, ReadDetail, ConfirmRead,
              RejectRead, ExecuteRead, tables
<1>7. CASE Tick \/ UNCHANGED vars
  BY <1>7 DEF Tick, tables, vars
<1> QED
  BY <1>1, <1>2, <1>3, <1>4, <1>5, <1>6, <1>7 DEF Next, Arrive, Proceed

\* One person's one answer per proposal, kept for good; nothing moves a rejected
\* or expired action; and no expiry that is late, or decided on a row since
\* confirmed, closes an action whose own window is still open.
THEOREM DecisionIsUnique == Spec => DecidedOnce
<1>1. Init => LapseShape
  BY DEF Init, Fresh, LapseShape
<1>2. IInv /\ LapseShape /\ [Next]_vars => LapseShape'
  BY LapseInduction
<1>3. IInv /\ LapseShape /\ [Next]_vars => \A a \in Actions : StaysDecided(a)
  <2> SUFFICES ASSUME IInv, LapseShape, [Next]_vars, NEW a \in Actions
               PROVE  StaysDecided(a)
    OBVIOUS
  <2>1. ASSUME row[a].status \in {"rejected", "expired"}
        PROVE  row'[a] = row[a] /\ Decisions(a)' = Decisions(a)
    BY <2>1, ClosedIsStill, AnswersComeFromPending
  <2>2. ASSUME Decisions(a) # {} PROVE Decisions(a)' = Decisions(a)
    BY <2>2, AnsweredIsLeft, AnswersComeFromPending
  <2>3. ASSUME row'[a].status = "expired", row[a].status # "expired"
        PROVE  ConfirmWindowPassed(row[a]) \/ TicketWindowPassed(row[a])
    BY <2>3, ExpiresLate
  <2> QED
    BY <2>1, <2>2, <2>3 DEF StaysDecided
<1>4. IInv /\ LapseShape /\ [Next]_vars => [\A a \in Actions : StaysDecided(a)]_vars
  BY <1>3
<1> QED
  BY <1>1, <1>2, <1>4, OneAnswerHolds, Invariant, PTL DEF Spec, DecidedOnce

\* No two requests, replays of a ticket included, run the tool for one action.
THEOREM OneExecution == Spec => []ActsAtMostOnce
<1>1. IInv => ActsAtMostOnce
  BY DEF IInv, Exclusive, ActsAtMostOnce
<1> QED
  BY <1>1, Invariant, PTL

\* Nothing leaves the system without a signature on exactly that payload.
THEOREM NothingUnapproved == Spec => []ActsOnlyAsApproved
<1>1. IInv => ActsOnlyAsApproved
  <2>1. IInv => \A e \in Started : e.action \in Actions
    BY DEF IInv, TypeOK, Started, Effect
  <2> QED
    BY <2>1 DEF IInv, EffectShape, RowShape, Spent, ActsOnlyAsApproved
<1> QED
  BY <1>1, Invariant, PTL

\* The audit trail and the business data agree in every reachable state.
THEOREM BooksAgree == Spec => []BooksMatch
<1>1. IInv => BooksMatch
  BY DEF IInv
<1> QED
  BY <1>1, Invariant, PTL

\* A spent ticket is never usable again, whatever fails or dies after it.
THEOREM SpentForGood == Spec => TicketStaysSpent
<1> DEFINE Stays(a) ==
      row[a].ticketUsed =>
        /\ row'[a].ticketUsed
        /\ row'[a].ticket = row[a].ticket
        /\ row'[a].status \in Spent
<1>1. IInv /\ [Next]_vars => \A a \in Actions : Stays(a)
  <2> SUFFICES ASSUME IInv, [Next]_vars, NEW a \in Actions PROVE Stays(a)
    OBVIOUS
  <2>1. row[a].ticketUsed <=> row[a].status \in Spent
    BY DEF IInv, RowShape
  <2>2. CASE row'[a] = row[a]
    BY <2>1, <2>2
  <2>3. CASE ~row[a].ticketUsed
    BY <2>3
  <2>4. ASSUME NEW r \in Requests, Finalize(r) \/ RecordFailure(r), req[r].act = a
        PROVE  Stays(a)
    <3>1. SetStatus(a, "executed") \/ SetStatus(a, "failed")
      BY <2>4 DEF Finalize, RecordFailure
    <3> QED
      BY <3>1, StatusTyped DEF IInv, Spent, Status
  <2>5. ASSUME NEW r \in Requests, Claim(r), row'[a] # row[a]
        PROVE  ~row[a].ticketUsed
    BY <2>1, <2>5 DEF Claim, Claimable, Spent, IInv, TypeOK
  <2>6. ASSUME AlterPayload(a)
        PROVE  ~row[a].ticketUsed
    BY <2>1, <2>6 DEF AlterPayload, Spent
  <2>7. ASSUME NEW r \in Requests, NEW b \in Actions, Propose(r, b), row'[a] # row[a]
        PROVE  ~row[a].ticketUsed
    BY <2>1, <2>7 DEF Propose, Spent, IInv, TypeOK
  <2>8. ASSUME NEW r \in Requests, LazyExpire(r) \/ ConfirmCommit(r) \/ RejectCommit(r),
               row'[a] # row[a]
        PROVE  ~row[a].ticketUsed
    <3>1. row[a].status \in {"pending", "confirmed"}
      BY <2>8 DEF LazyExpire, ConfirmCommit, RejectCommit, Sign, SetStatus, At,
                  IInv, TypeOK, RequestShape
    <3> QED
      BY <2>1, <3>1 DEF Spent
  <2>9. ASSUME NEW r \in Requests, Finalize(r) \/ RecordFailure(r), req[r].act # a
        PROVE  row'[a] = row[a]
    BY <2>9 DEF Finalize, RecordFailure, SetStatus, IInv, TypeOK
  <2>10. ASSUME NEW b \in Actions, AlterPayload(b), b # a
         PROVE  row'[a] = row[a]
    BY <2>10 DEF AlterPayload, IInv, TypeOK
  <2>11. ASSUME NEW r \in Requests, NEW b \in Actions, NEW t,
                \/ ReadDetail(r, b) \/ ConfirmRead(r, b) \/ RejectRead(r, b)
                \/ ExecuteRead(r, b, t) \/ LogProposal(r) \/ Deliver(r)
                \/ ToolFails(r) \/ Crash(r) \/ Tick \/ UNCHANGED vars
         PROVE  row' = row
    BY <2>11 DEF ReadDetail, ConfirmRead, RejectRead, ExecuteRead, LogProposal, Deliver,
                 ToolFails, Crash, Tick, tables, vars
  <2> QED
    <3>1. CASE Tick \/ UNCHANGED vars
      BY <2>2, <3>1 DEF Tick, tables, vars
    <3>2. CASE \E b \in Actions : AlterPayload(b)
      BY <2>2, <2>3, <2>6, <2>10, <3>2
    <3>3. CASE \E r \in Requests : Arrive(r) \/ Proceed(r) \/ Crash(r)
      BY <2>2, <2>3, <2>4, <2>5, <2>7, <2>8, <2>9, <2>11, <3>3 DEF Arrive, Proceed
    <3> QED
      BY <3>1, <3>2, <3>3 DEF Next
<1>2. IInv /\ [Next]_vars =>
        [\A a \in Actions : row[a].ticketUsed =>
            /\ row'[a].ticketUsed
            /\ row'[a].ticket = row[a].ticket
            /\ row'[a].status \in {"executing", "executed", "failed"}]_vars
  BY <1>1 DEF Spent
<1> QED
  BY <1>2, Invariant, PTL DEF Spec, TicketStaysSpent

-----------------------------------------------------------------------------
\* Refinement

Acted(a) == \E e \in applied : e.action = a

\* A step that leaves an action's status and effect alone leaves its stage.
LEMMA StageKept ==
  ASSUME NEW a \in Actions, row'[a].status = row[a].status,
         Acted(a)' <=> Acted(a)
  PROVE  StageOf(a)' = StageOf(a)
  BY DEF StageOf, Acted

LEMMA StageBefore ==
  ASSUME NEW a \in Actions
  PROVE  /\ Acted(a) => StageOf(a) = "acted"
         /\ ~Acted(a) =>
              /\ row[a].status = "absent" => StageOf(a) = "none"
              /\ row[a].status = "pending" => StageOf(a) = "proposed"
              /\ row[a].status = "confirmed" => StageOf(a) = "approved"
              /\ row[a].status = "executing" => StageOf(a) = "acting"
  BY DEF StageOf, Acted

LEMMA StageAfter ==
  ASSUME NEW a \in Actions
  PROVE  /\ Acted(a)' => StageOf(a)' = "acted"
         /\ ~Acted(a)' =>
              /\ row'[a].status = "pending" => StageOf(a)' = "proposed"
              /\ row'[a].status = "confirmed" => StageOf(a)' = "approved"
              /\ row'[a].status = "executing" => StageOf(a)' = "acting"
              /\ row'[a].status \in {"rejected", "expired", "failed"} =>
                   StageOf(a)' = "closed"
  BY DEF StageOf, Acted

\* One action moves and the others stay: a move of the contract.
LEMMA MoveMaps ==
  ASSUME NEW a \in Actions, NEW from, NEW to, delivered' = delivered,
         StageOf(a) \in from, StageOf(a)' = to,
         \A b \in Actions : b # a => StageOf(b)' = StageOf(b)
  PROVE  Contract!Move(a, from, to)
<1>1. Stage[a] \in from /\ Told' = Told
  BY DEF Stage, Told
<1>2. Stage' = [Stage EXCEPT ![a] = to]
  BY DEF Stage
<1> QED
  BY <1>1, <1>2 DEF Contract!Move

\* A step after which every action's status, effect and message are as before
\* is invisible to the contract.
LEMMA StutterMaps ==
  ASSUME UNCHANGED <<delivered, applied>>,
         \A a \in Actions : row'[a].status = row[a].status
  PROVE  UNCHANGED <<Stage, Told>>
<1>1. \A a \in Actions : StageOf(a)' = StageOf(a)
  BY StageKept DEF Acted
<1> QED
  BY <1>1 DEF Stage, Told

\* An action whose effect is not committed, at its status, moves as SetStatus
\* says; all the others are where they were.
LEMMA StatusMaps ==
  ASSUME IInv, NEW a \in Actions, NEW from, NEW to,
         UNCHANGED <<delivered, applied>>, StageOf(a) \in from, StageOf(a)' = to,
         \A b \in Actions : b # a => row'[b] = row[b]
  PROVE  Contract!Move(a, from, to)
<1>1. \A b \in Actions : b # a => StageOf(b)' = StageOf(b)
  BY StageKept DEF Acted
<1> QED
  BY <1>1, MoveMaps

LEMMA NotActed ==
  ASSUME IInv, NEW a \in Actions, row[a].status \notin {"executed", "failed"}
  PROVE  ~Acted(a)
<1>1. \A e \in applied : e \in Started
  BY DEF Started
<1> QED
  BY <1>1 DEF IInv, EffectShape, Spent, Acted

\* Each step of the ticket protocol is a step of the contract, or invisible.
LEMMA StepMaps == IInv /\ [Next]_vars => [Contract!Next]_<<Stage, Told>>
<1> SUFFICES ASSUME IInv, [Next]_vars
             PROVE  Contract!Next \/ UNCHANGED <<Stage, Told>>
  OBVIOUS
<1> USE DEF At
<1>1. ASSUME NEW r \in Requests, NEW a \in Actions, Propose(r, a)
      PROVE  Contract!Propose(a)
  <2>1. /\ row[a].status = "absent" /\ row'[a].status = "pending"
        /\ \A b \in Actions : b # a => row'[b] = row[b]
        /\ UNCHANGED <<delivered, applied>>
    BY <1>1 DEF Propose, NoRow, IInv, TypeOK
  <2>2. StageOf(a) = "none" /\ StageOf(a)' = "proposed"
    BY <2>1, NotActed, StageBefore, StageAfter DEF Acted
  <2> QED
    BY <2>1, <2>2, StatusMaps DEF Contract!Propose
<1>2. ASSUME NEW r \in Requests, ConfirmCommit(r), row' # row
      PROVE  Contract!Approve(req[r].act)
  <2> DEFINE a == req[r].act
  <2>1. a \in Actions /\ row[a].status = "pending" /\ Sign(r, a)
    BY <1>2 DEF ConfirmCommit, IInv, TypeOK
  <2>2. /\ row'[a].status = "confirmed"
        /\ \A b \in Actions : b # a => row'[b] = row[b]
        /\ UNCHANGED <<delivered, applied>>
    BY <1>2, <2>1 DEF ConfirmCommit, Sign, IInv, TypeOK, Row
  <2>3. PICK c \in Actions : c = a
    BY <2>1
  <2>4. StageOf(c) = "proposed" /\ StageOf(c)' = "approved"
    BY <2>1, <2>2, <2>3, NotActed, StageBefore, StageAfter DEF Acted
  <2>5. Contract!Approve(c)
    BY <2>2, <2>3, <2>4, StatusMaps DEF Contract!Approve
  <2> QED
    BY <2>3, <2>5
<1>3. ASSUME NEW r \in Requests, LazyExpire(r) \/ RejectCommit(r), row' # row
      PROVE  Contract!Close(req[r].act)
  <2> DEFINE a == req[r].act
  <2>1. /\ a \in Actions /\ row[a].status \in {"pending", "confirmed"}
        /\ SetStatus(a, "expired") \/ SetStatus(a, "rejected")
        /\ UNCHANGED <<delivered, applied>>
    BY <1>3 DEF LazyExpire, RejectCommit, IInv, TypeOK, RequestShape
  <2>2. /\ row'[a].status \in {"rejected", "expired"}
        /\ \A b \in Actions : b # a => row'[b] = row[b]
    BY <2>1, StatusTyped DEF IInv, Status
  <2>3. PICK c \in Actions : c = a
    BY <2>1
  <2>4. StageOf(c) \in {"proposed", "approved"} /\ StageOf(c)' = "closed"
    BY <2>1, <2>2, <2>3, NotActed, StageBefore, StageAfter DEF Acted
  <2>5. Contract!Close(c)
    BY <2>1, <2>2, <2>3, <2>4, StatusMaps DEF Contract!Close
  <2> QED
    BY <2>3, <2>5
<1>4. ASSUME NEW r \in Requests, Claim(r), row' # row
      PROVE  Contract!Begin(req[r].act)
  <2> DEFINE a == req[r].act
  <2>1. a \in Actions /\ row[a].status = "confirmed"
    BY <1>4 DEF Claim, Claimable, IInv, TypeOK
  <2>2. /\ row'[a].status = "executing"
        /\ \A b \in Actions : b # a => row'[b] = row[b]
        /\ UNCHANGED <<delivered, applied>>
    <3>1. row' = [row EXCEPT ![a] =
                    [row[a] EXCEPT !.status = "executing", !.ticketUsed = TRUE]]
      BY <1>4 DEF Claim
    <3>2. row \in [Actions -> Row] /\ row[a] \in Row
      BY <2>1 DEF IInv, TypeOK
    <3> QED
      BY <1>4, <2>1, <3>1, <3>2 DEF Claim, Row
  <2>3. PICK c \in Actions : c = a
    BY <2>1
  <2>4. StageOf(c) = "approved" /\ StageOf(c)' = "acting"
    BY <2>1, <2>2, <2>3, NotActed, StageBefore, StageAfter DEF Acted
  <2>5. Contract!Begin(c)
    BY <2>2, <2>3, <2>4, StatusMaps DEF Contract!Begin
  <2> QED
    BY <2>3, <2>5
<1>5. ASSUME NEW r \in Requests, Deliver(r)
      PROVE  Contract!Tell(req[r].act)
  <2> DEFINE a == req[r].act
  <2>1. /\ a \in Actions /\ row[a].status = "executing"
        /\ UNCHANGED <<row, applied>>
        /\ delivered' = delivered \cup {EffectOf(r)}
    BY <1>5 DEF Deliver, IInv, TypeOK, RequestShape
  <2>2. Stage[a] = "acting"
    <3>1. PICK c \in Actions : c = a
      BY <2>1
    <3>2. StageOf(c) = "acting"
      BY <2>1, <3>1, NotActed, StageBefore
    <3> QED
      BY <3>1, <3>2 DEF Stage
  <2>3. Stage' = Stage
    <3>1. \A b \in Actions : StageOf(b)' = StageOf(b)
      BY <2>1, StageKept DEF Acted
    <3> QED
      BY <3>1 DEF Stage
  <2>4. Told' = Told \cup {a}
    <3>1. EffectOf(r).action = a
      BY DEF EffectOf
    <3> QED
      BY <2>1, <3>1 DEF Told
  <2> QED
    BY <2>2, <2>3, <2>4 DEF Contract!Tell
<1>6. ASSUME NEW r \in Requests, Finalize(r)
      PROVE  Contract!Act(req[r].act)
  <2> DEFINE a == req[r].act
  <2>1. /\ a \in Actions /\ row[a].status = "executing"
        /\ SetStatus(a, "executed") /\ delivered' = delivered
        /\ applied' = applied \cup {EffectOf(r)}
    BY <1>6 DEF Finalize, IInv, TypeOK, RequestShape
  <2>2. \A b \in Actions : b # a => row'[b] = row[b]
    BY <2>1, StatusTyped DEF IInv, Status
  <2>3. EffectOf(r).action = a
    BY DEF EffectOf
  <2>4. PICK c \in Actions : c = a
    BY <2>1
  <2>5. Acted(c)' /\ \A b \in Actions : b # c => (Acted(b)' <=> Acted(b))
    BY <2>1, <2>3, <2>4 DEF Acted
  <2>6. StageOf(c) = "acting" /\ StageOf(c)' = "acted"
    BY <2>1, <2>4, <2>5, NotActed, StageBefore, StageAfter
  <2>7. \A b \in Actions : b # c => StageOf(b)' = StageOf(b)
    BY <2>2, <2>4, <2>5, StageKept
  <2>8. Contract!Act(c)
    BY <2>1, <2>6, <2>7, MoveMaps DEF Contract!Act
  <2> QED
    BY <2>4, <2>8
<1>7. ASSUME NEW r \in Requests, RecordFailure(r)
      PROVE  Contract!Close(req[r].act) \/ UNCHANGED <<Stage, Told>>
  <2> DEFINE a == req[r].act
  <2>1. /\ a \in Actions /\ row[a].status \in {"executing", "executed"}
        /\ SetStatus(a, "failed") /\ UNCHANGED <<delivered, applied>>
    BY <1>7 DEF RecordFailure, IInv, TypeOK, RequestShape
  <2>2. /\ row'[a].status = "failed"
        /\ \A b \in Actions : b # a => row'[b] = row[b]
    BY <2>1, StatusTyped DEF IInv, Status
  <2>3. PICK c \in Actions : c = a
    BY <2>1
  <2>4. CASE Acted(c)
    <3>1. Acted(c)' /\ StageOf(c)' = StageOf(c)
      BY <2>1, <2>4, StageBefore, StageAfter DEF Acted
    <3>2. \A b \in Actions : StageOf(b)' = StageOf(b)
      BY <2>1, <2>2, <2>3, <3>1, StageKept DEF Acted
    <3> QED
      BY <2>1, <3>2 DEF Stage, Told
  <2>5. CASE ~Acted(c)
    <3>1. row[c].status = "executing"
      <4>1. row[c].status = "executed" => Logged("irrev", c)
        BY DEF IInv, BooksMatch
      <4>2. Logged("irrev", c) => Acted(c)
        <5> SUFFICES ASSUME Logged("irrev", c) PROVE Acted(c)
          OBVIOUS
        <5>1. PICK d \in log : d.kind = "irrev" /\ d.ref = c
          BY DEF Logged
        <5>2. d = Entry("irrev", c, d.by) /\ d.by \in Requests
          BY <5>1 DEF IInv, TypeOK, LogEntry, Entry
        <5> QED
          BY <5>2 DEF IInv, BooksMatch, Acted
      <4> QED
        BY <2>1, <2>3, <2>5, <4>1, <4>2
    <3>2. StageOf(c) = "acting" /\ StageOf(c)' = "closed"
      BY <2>1, <2>2, <2>3, <2>5, <3>1, StageBefore, StageAfter DEF Acted
    <3>3. Contract!Close(c)
      BY <2>1, <2>2, <2>3, <3>2, StatusMaps DEF Contract!Close
    <3> QED
      BY <2>3, <3>3
  <2> QED
    BY <2>4, <2>5
<1>8. ASSUME \/ \E r \in Requests : \E a \in Actions : \E t :
                  \/ ReadDetail(r, a) \/ ConfirmRead(r, a) \/ RejectRead(r, a)
                  \/ ExecuteRead(r, a, t)
             \/ \E r \in Requests :
                  \/ LogProposal(r) \/ ToolFails(r) \/ Crash(r)
                  \/ /\ LazyExpire(r) \/ ConfirmCommit(r) \/ RejectCommit(r) \/ Claim(r)
                     /\ row' = row
             \/ Tick \/ UNCHANGED vars
      PROVE  UNCHANGED <<Stage, Told>>
  <2>1. row' = row /\ UNCHANGED <<delivered, applied>>
    BY <1>8 DEF ReadDetail, ConfirmRead, RejectRead, ExecuteRead, LogProposal, ToolFails,
                Crash, LazyExpire, ConfirmCommit, RejectCommit, Claim, Tick, tables, vars
  <2> QED
    BY <2>1, StutterMaps
<1>9. ASSUME NEW a \in Actions, AlterPayload(a)
      PROVE  UNCHANGED <<Stage, Told>>
  <2>1. \A b \in Actions : row'[b].status = row[b].status
    BY <1>9 DEF AlterPayload, IInv, TypeOK, Row
  <2> QED
    BY <1>9, <2>1, StutterMaps DEF AlterPayload
<1>10. ASSUME NEW r \in Requests, Arrive(r)
       PROVE  Contract!Next \/ UNCHANGED <<Stage, Told>>
  BY <1>1, <1>8, <1>10 DEF Arrive, Contract!Next
<1>11. ASSUME NEW r \in Requests, Proceed(r)
       PROVE  Contract!Next \/ UNCHANGED <<Stage, Told>>
  <2>1. CASE req[r].act \in Actions
    BY <1>2, <1>3, <1>4, <1>5, <1>6, <1>7, <1>8, <1>11, <2>1 DEF Proceed, Contract!Next
  <2>2. req[r].act \in Actions
    BY <1>11 DEF Proceed, LogProposal, LazyExpire, ConfirmCommit, RejectCommit, Claim,
                 Deliver, ToolFails, Finalize, RecordFailure, IInv, TypeOK
  <2> QED
    BY <2>1, <2>2
<1> QED
  BY <1>8, <1>9, <1>10, <1>11 DEF Next

\* The two-step ticket of gate.ts, with every race, failure and crash the
\* module allows, implements the contract of GateContract.
THEOREM Refinement == Spec => ImplementsContract
<1>1. Init => Contract!Init
  <2> SUFFICES ASSUME Init PROVE Contract!Init
    OBVIOUS
  <2>1. \A a \in Actions : StageOf(a) = "none"
    BY DEF Init, NoRow, StageOf
  <2> QED
    BY <2>1 DEF Init, Contract!Init, Stage, Told
<1> QED
  BY <1>1, StepMaps, Invariant, PTL DEF Spec, ImplementsContract, Contract!Spec

=============================================================================
