-------------------------------- MODULE Gate --------------------------------
(***************************************************************************)
(* The human gate in front of every outbound tool: the two-step ticket of  *)
(* src/src/lib/agent/gate/gate.ts and the interception point in            *)
(* src/src/lib/agent/execute.ts.                                           *)
(*                                                                         *)
(* An outbound tool call is parked as a PendingAction row.  A person       *)
(* confirms it (a one-time ticket is minted) and the ticket is spent to    *)
(* run the tool.  HTTP requests are concurrent; each one reads the row,    *)
(* decides, and writes in later transactions.  Postgres runs them at READ  *)
(* COMMITTED: a conditional updateMany evaluates its WHERE on the newest   *)
(* committed row, an unconditional update overwrites it.  So the steps of  *)
(* a request are its read (with the checks made on the row it read) and    *)
(* each of its committed transactions.                                     *)
(*                                                                         *)
(* A request identifier stands for one HTTP request (or one tool call of   *)
(* the agent loop) and is used once; a ticket is named by the request that *)
(* minted it, which is what 256 random bits amount to.                     *)
(***************************************************************************)
EXTENDS Naturals

CONSTANTS
  Actions,     \* the ids PendingAction rows may get
  Requests,    \* the requests that may ever arrive
  NoTicket,    \* no ticket: an absent, malformed or invented one
  NoAction,    \* the action of a request that has not started
  ConfirmTTL,  \* CONFIRM_TTL_MS in ticks
  TicketTTL,   \* TICKET_TTL_MS in ticks
  MaxNow       \* bound of the clock, for TLC only

ASSUME GateAssumption ==
  /\ ConfirmTTL \in Nat
  /\ TicketTTL \in Nat
  /\ MaxNow \in Nat
  /\ NoTicket \notin Requests
  /\ NoAction \notin Actions

VARIABLES
  now,        \* wall clock of the application servers
  row,        \* the PendingAction table
  log,        \* the OperationLog rows this code writes
  req,        \* the local state of every request
  held,       \* tickets that reached a client in a confirm response
  delivered,  \* calls the outside world received (mail, key drop, escrow)
  applied     \* business writes that were committed with an execution

vars == <<now, row, log, req, held, delivered, applied>>
tables == <<row, log, delivered, applied>>

Tickets == Requests \cup {NoTicket}
Status ==
  {"absent", "pending", "confirmed", "executing",
   "executed", "failed", "rejected", "expired"}
Payloads == {"disclosed", "altered"}
Row ==
  [status : Status, expiresAt : Nat, payload : Payloads, ticket : Tickets,
   ticketExpiresAt : Nat, ticketUsed : BOOLEAN]

\* "gate" is the row written at interception, "sign" the gate row of a
\* confirmation; "irrev", "auto" and "block" are the kinds of the source.
LogKinds == {"gate", "sign", "irrev", "auto", "block"}
LogEntry == [kind : LogKinds, ref : Actions, by : Requests]
Effect == [action : Actions, by : Requests, payload : Payloads]

\* Where a request is: waiting to start, before its conditional write, inside
\* the tool (before or after the external call), about to record a failure.
Points ==
  {"ready", "gateLog", "sign", "reject", "lapse", "claim",
   "run", "sent", "fail", "over", "crashed", "orphaned"}
Request ==
  [pc : Points, act : Actions \cup {NoAction}, seen : Status,
   payload : Payloads, until : Nat]

NoRow ==
  [status |-> "absent", expiresAt |-> 0, payload |-> "disclosed",
   ticket |-> NoTicket, ticketExpiresAt |-> 0, ticketUsed |-> FALSE]
Fresh ==
  [pc |-> "ready", act |-> NoAction, seen |-> "absent",
   payload |-> "disclosed", until |-> 0]

TypeOK ==
  /\ now \in Nat
  /\ row \in [Actions -> Row]
  /\ log \subseteq LogEntry
  /\ req \in [Requests -> Request]
  /\ \A r \in Requests :
       req[r].pc \notin {"ready", "over", "crashed"} => req[r].act \in Actions
  /\ held \subseteq Requests
  /\ delivered \subseteq Effect
  /\ applied \subseteq Effect

Init ==
  /\ now = 0
  /\ row = [a \in Actions |-> NoRow]
  /\ log = {}
  /\ req = [r \in Requests |-> Fresh]
  /\ held = {}
  /\ delivered = {}
  /\ applied = {}

-----------------------------------------------------------------------------
\* Helpers

Entry(k, a, r) == [kind |-> k, ref |-> a, by |-> r]
EffectOf(r) ==
  [action |-> req[r].act, by |-> r, payload |-> req[r].payload]

\* The request answers its caller, or dies: its locals are gone.
End(r) == req' = [req EXCEPT ![r] = [Fresh EXCEPT !.pc = "over"]]

\* The request goes on to its write, remembering what it needs of the row.
GoOn(r, point, a, deadline) ==
  req' = [req EXCEPT ![r] =
            [pc |-> point, act |-> a, seen |-> row[a].status,
             payload |-> row[a].payload, until |-> deadline]]

At(r, point) == req[r].pc = point
\* The request has claimed its action and has not closed it.
Holding(r) == req[r].pc \in {"run", "sent", "fail"}
SetStatus(a, s) == row' = [row EXCEPT ![a] = [@ EXCEPT !.status = s]]

\* Mutant: a deadline in the past.
DeadlineBehind(ttl) == now - ttl

Deadline(ttl) == now + ttl

ConfirmWindowPassed(p) == p.status = "pending" /\ p.expiresAt < now
TicketWindowPassed(p) == p.status = "confirmed" /\ p.ticketExpiresAt < now

\* payloadHashOf recomputed over inputJson and compared with payloadHash.
PayloadIntact(p) == p.payload = "disclosed"

-----------------------------------------------------------------------------
\* Interception

\* createPendingAction: a model's outbound call is parked, never run.  Inside
\* a route's tenant scope the row and its log line commit together; in the
\* agent loop they are two statements, with a window between them.
Propose(r, a) ==
  /\ At(r, "ready")
  /\ row[a].status = "absent"
  /\ row' = [row EXCEPT ![a] =
               [NoRow EXCEPT !.status = "pending", !.expiresAt = Deadline(ConfirmTTL)]]
  /\ \/ log' = log \cup {Entry("gate", a, r)} /\ End(r)
     \/ GoOn(r, "gateLog", a, 0) /\ UNCHANGED log
  /\ UNCHANGED <<now, held, delivered, applied>>

LogProposal(r) ==
  /\ At(r, "gateLog")
  /\ log' = log \cup {Entry("gate", req[r].act, r)}
  /\ End(r)
  /\ UNCHANGED <<now, row, held, delivered, applied>>

-----------------------------------------------------------------------------
\* Lazy expiry

\* getPendingActionDetail: reading a row is what makes it expire.
ReadDetail(r, a) ==
  /\ At(r, "ready")
  /\ IF ConfirmWindowPassed(row[a]) \/ TicketWindowPassed(row[a])
     THEN GoOn(r, "lapse", a, 0)
     ELSE End(r)
  /\ UNCHANGED <<now, held, tables>>

\* Mutant: the flip no longer requires the status it was decided on.
LazyExpireBlind(r) ==
  /\ At(r, "lapse")
  /\ SetStatus(req[r].act, "expired")
  /\ End(r)
  /\ UNCHANGED <<now, log, held, delivered, applied>>

\* lazyExpire: flips only a row still in the status that was read.
LazyExpire(r) ==
  /\ At(r, "lapse")
  /\ IF row[req[r].act].status = req[r].seen
     THEN SetStatus(req[r].act, "expired")
     ELSE UNCHANGED row
  /\ End(r)
  /\ UNCHANGED <<now, log, held, delivered, applied>>

-----------------------------------------------------------------------------
\* Confirm: mint the ticket

ConfirmRead(r, a) ==
  /\ At(r, "ready")
  /\ \/ row[a].status # "pending" /\ End(r)
     \/ ConfirmWindowPassed(row[a]) /\ GoOn(r, "lapse", a, 0)
     \/ /\ row[a].status = "pending"
        /\ ~ConfirmWindowPassed(row[a])
        /\ IF PayloadIntact(row[a])
           THEN GoOn(r, "sign", a, Deadline(TicketTTL))
           ELSE End(r)
  /\ UNCHANGED <<now, held, tables>>

\* What a won confirmation writes; its response may still be lost on the way.
Sign(r, a) ==
  /\ row' = [row EXCEPT ![a] =
               [@ EXCEPT !.status = "confirmed", !.ticket = r,
                         !.ticketExpiresAt = req[r].until]]
  /\ log' = log \cup {Entry("sign", a, r)}
  /\ held' \in {held, held \cup {r}}

\* Mutant: the UPDATE lost its status = 'pending' condition.
ConfirmCommitBlind(r) ==
  /\ At(r, "sign")
  /\ Sign(r, req[r].act)
  /\ End(r)
  /\ UNCHANGED <<now, delivered, applied>>

\* Atomic conditional UPDATE #1: the loser of a race gets 409 and no ticket.
ConfirmCommit(r) ==
  /\ At(r, "sign")
  /\ IF row[req[r].act].status = "pending"
     THEN Sign(r, req[r].act)
     ELSE UNCHANGED <<row, log, held>>
  /\ End(r)
  /\ UNCHANGED <<now, delivered, applied>>

-----------------------------------------------------------------------------
\* Reject

\* rejectPendingAction does not look at expiresAt: a proposal past its window
\* that nobody has read since can still be rejected.
RejectRead(r, a) ==
  /\ At(r, "ready")
  /\ IF row[a].status = "pending" THEN GoOn(r, "reject", a, 0) ELSE End(r)
  /\ UNCHANGED <<now, held, tables>>

RejectCommit(r) ==
  LET a == req[r].act IN
  /\ At(r, "reject")
  /\ IF row[a].status = "pending"
     THEN /\ SetStatus(a, "rejected")
          /\ log' = log \cup {Entry("block", a, r)}
     ELSE UNCHANGED <<row, log>>
  /\ End(r)
  /\ UNCHANGED <<now, held, delivered, applied>>

-----------------------------------------------------------------------------
\* Execute: spend the ticket, run the tool, close the books

\* Mutant: the payload is no longer checked against what was disclosed.
ExecuteReadUnchecked(r, a, t) ==
  /\ At(r, "ready")
  /\ \/ (row[a].status # "confirmed" \/ t = NoTicket \/ t # row[a].ticket) /\ End(r)
     \/ /\ row[a].status = "confirmed" /\ t # NoTicket /\ t = row[a].ticket
        /\ IF TicketWindowPassed(row[a])
           THEN GoOn(r, "lapse", a, 0)
           ELSE GoOn(r, "claim", a, 0)
  /\ UNCHANGED <<now, held, tables>>

\* The route refuses a missing ticket, the service every status but confirmed
\* and every ticket but the row's own.
ExecuteRead(r, a, t) ==
  /\ At(r, "ready")
  /\ \/ (row[a].status # "confirmed" \/ t = NoTicket \/ t # row[a].ticket) /\ End(r)
     \/ /\ row[a].status = "confirmed" /\ t # NoTicket /\ t = row[a].ticket
        /\ \/ TicketWindowPassed(row[a]) /\ GoOn(r, "lapse", a, 0)
           \/ /\ ~TicketWindowPassed(row[a])
              /\ IF PayloadIntact(row[a])
                 THEN GoOn(r, "claim", a, 0)
                 ELSE End(r)
  /\ UNCHANGED <<now, held, tables>>

Claimable(p) ==
  p.status = "confirmed" /\ ~p.ticketUsed /\ p.ticketExpiresAt > now

\* Mutant: the claim is an unconditional update.
ClaimBlind(r) ==
  /\ At(r, "claim")
  /\ row' = [row EXCEPT ![req[r].act] =
               [@ EXCEPT !.status = "executing", !.ticketUsed = TRUE]]
  /\ req' = [req EXCEPT ![r].pc = "run"]
  /\ UNCHANGED <<now, log, held, delivered, applied>>

\* (1) Atomic conditional UPDATE #2, committed on its own before the tool runs.
Claim(r) ==
  LET a == req[r].act IN
  /\ At(r, "claim")
  /\ IF Claimable(row[a])
     THEN /\ row' = [row EXCEPT ![a] =
                       [@ EXCEPT !.status = "executing", !.ticketUsed = TRUE]]
          /\ req' = [req EXCEPT ![r].pc = "run"]
     ELSE UNCHANGED row /\ End(r)
  /\ UNCHANGED <<now, log, held, delivered, applied>>

\* The tool reaches the outside world from inside transaction (2).
Deliver(r) ==
  /\ At(r, "run")
  /\ delivered' = delivered \cup {EffectOf(r)}
  /\ req' = [req EXCEPT ![r].pc = "sent"]
  /\ UNCHANGED <<now, row, log, held, applied>>

\* Mutant: one scope around the whole request, so that the rollback of (2)
\* takes the claim of (1) with it.
ToolFailsInOneScope(r) ==
  /\ req[r].pc \in {"run", "sent"}
  /\ row' = [row EXCEPT ![req[r].act] =
               [@ EXCEPT !.status = "confirmed", !.ticketUsed = FALSE]]
  /\ End(r)
  /\ UNCHANGED <<now, log, held, delivered, applied>>

\* The tool throws or the 90 s transaction times out: (2) rolls back.
ToolFails(r) ==
  /\ req[r].pc \in {"run", "sent"}
  /\ req' = [req EXCEPT ![r].pc = "fail"]
  /\ UNCHANGED <<now, held, tables>>

\* Mutant: the irrev row is not written in the transaction of the effect.
FinalizeUnlogged(r) ==
  /\ req[r].pc \in {"run", "sent"}
  /\ SetStatus(req[r].act, "executed")
  /\ applied' = applied \cup {EffectOf(r)}
  /\ End(r)
  /\ UNCHANGED <<now, log, held, delivered>>

\* (2) commits: status, irrev row and the tool's business writes, together.
\* The commit may succeed and its acknowledgement be lost; the request then
\* runs the failure branch on a transaction that did take effect.
Finalize(r) ==
  LET a == req[r].act IN
  /\ req[r].pc \in {"run", "sent"}
  /\ SetStatus(a, "executed")
  /\ log' = log \cup {Entry("irrev", a, r)}
  /\ applied' = applied \cup {EffectOf(r)}
  /\ \/ End(r)
     \/ req' = [req EXCEPT ![r].pc = "fail"]
  /\ UNCHANGED <<now, held, delivered>>

\* Mutant: the failure of (2) is rethrown without closing the row.
RecordFailureSkipped(r) ==
  /\ At(r, "fail")
  /\ End(r)
  /\ UNCHANGED <<now, held, tables>>

\* (3) The failure is recorded in a transaction of its own, unconditionally.
RecordFailure(r) ==
  LET a == req[r].act IN
  /\ At(r, "fail")
  /\ SetStatus(a, "failed")
  /\ log' = log \cup {Entry("auto", a, r)}
  /\ End(r)
  /\ UNCHANGED <<now, held, delivered, applied>>

-----------------------------------------------------------------------------
\* The environment

\* The process dies, or loses the database, between two of its steps.  Dying
\* with a claim leaves an orphan: nothing under src/ looks for such rows.
Crash(r) ==
  /\ req[r].pc \notin {"ready", "over", "crashed", "orphaned"}
  /\ req' = [req EXCEPT ![r] =
               IF Holding(r)
               THEN [Fresh EXCEPT !.pc = "orphaned", !.act = req[r].act]
               ELSE [Fresh EXCEPT !.pc = "crashed"]]
  /\ UNCHANGED <<now, held, tables>>

\* inputJson changes in the database after the person read the harm card: no
\* code under src/ does it, the hash check is there in case something does.
AlterPayload(a) ==
  /\ row[a].status \in {"pending", "confirmed"}
  /\ row[a].payload = "disclosed"
  /\ row' = [row EXCEPT ![a] = [@ EXCEPT !.payload = "altered"]]
  /\ UNCHANGED <<now, log, req, held, delivered, applied>>

Tick ==
  /\ now < MaxNow
  /\ now' = now + 1
  /\ UNCHANGED <<req, held, tables>>

\* What a request that has arrived goes on to do.
Proceed(r) ==
  \/ LogProposal(r) \/ LazyExpire(r) \/ ConfirmCommit(r) \/ RejectCommit(r)
  \/ Claim(r) \/ Deliver(r) \/ ToolFails(r) \/ Finalize(r) \/ RecordFailure(r)

\* What a client or the agent loop may ask for.
Arrive(r) ==
  \E a \in Actions :
    \/ Propose(r, a) \/ ReadDetail(r, a) \/ ConfirmRead(r, a) \/ RejectRead(r, a)
    \/ \E t \in held \cup {NoTicket} : ExecuteRead(r, a, t)

Next ==
  \/ \E r \in Requests : Arrive(r) \/ Proceed(r) \/ Crash(r)
  \/ \E a \in Actions : AlterPayload(a)
  \/ Tick

Spec == Init /\ [][Next]_vars

\* A server runs every request it has accepted to its end, unless it dies;
\* nobody owes the system a request, a decision or the passing of time.
FairSpec == Spec /\ \A r \in Requests : WF_vars(Proceed(r))

-----------------------------------------------------------------------------
\* Properties

Started == delivered \cup applied
Logged(k, a) == \E d \in log : d.kind = k /\ d.ref = a
Holds(r, a) == req[r].act = a /\ Holding(r)

\* The answers recorded for an action: a signature or a refusal.
Decisions(a) == {d \in log : d.kind \in {"sign", "block"} /\ d.ref = a}

OneAnswer ==
  \A a \in Actions :
    /\ \A d, e \in Decisions(a) : d = e
    /\ row[a].status = "rejected" <=> Logged("block", a)

StaysDecided(a) ==
  /\ row[a].status \in {"rejected", "expired"} =>
       row'[a] = row[a] /\ Decisions(a)' = Decisions(a)
  /\ Decisions(a) # {} => Decisions(a)' = Decisions(a)
  /\ row'[a].status = "expired" /\ row[a].status # "expired" =>
       ConfirmWindowPassed(row[a]) \/ TicketWindowPassed(row[a])

\* A proposal is decided once: however confirm, reject, expiry and their
\* retries interleave, at most one answer of a person is recorded and it is
\* never replaced; a rejected or expired action never moves again and gets no
\* answer after that; and an action expires only out of pending or confirmed,
\* when the window of that very status has passed (the conditional updates of
\* gate.ts).
DecidedOnce == []OneAnswer /\ [][\A a \in Actions : StaysDecided(a)]_vars

\* One approved action acts at most once: no two requests, replays of a ticket
\* included, ever run the tool for the same PendingAction.
ActsAtMostOnce ==
  /\ \A e, f \in Started : e.action = f.action => e = f
  /\ \A r, s \in Requests : \A a \in Actions :
       Holds(r, a) /\ Holds(s, a) => r = s

\* Nothing leaves the system without a person: whatever was delivered or
\* written was signed, carried out exactly what the harm card disclosed, and
\* was run with a ticket that a confirm response handed out.
ActsOnlyAsApproved ==
  \A e \in Started :
    /\ e.payload = "disclosed"
    /\ row[e.action].ticket \in held
    /\ Entry("sign", e.action, row[e.action].ticket) \in log
    /\ row[e.action].status \in {"executing", "executed", "failed"}

\* The audit trail and the business data agree in every state: an irrev row
\* exists exactly for the effects that were committed, an executed action has
\* one and a failed action has its auto row (transactions (2) and (3)).
BooksMatch ==
  /\ \A a \in Actions : \A r \in Requests :
       Entry("irrev", a, r) \in log
         <=> \E e \in applied : e.action = a /\ e.by = r
  /\ \A a \in Actions :
       /\ row[a].status = "executed" => Logged("irrev", a)
       /\ row[a].status = "failed" => Logged("auto", a)

\* A spent ticket stays spent: no rollback, crash or late write brings an
\* action back to a status from which it could run again.
TicketStaysSpent ==
  [][\A a \in Actions : row[a].ticketUsed =>
       /\ row'[a].ticketUsed
       /\ row'[a].ticket = row[a].ticket
       /\ row'[a].status \in {"executing", "executed", "failed"}]_vars

\* An action does not hang in executing: unless the server that claimed it
\* dies, it ends executed or failed.  (If that server does die the row stays
\* executing for good: no code takes such rows up again.)
ClaimResolves ==
  \A a \in Actions :
    row[a].status = "executing" ~>
      \/ row[a].status \in {"executed", "failed"}
      \/ \E r \in Requests : req[r].pc = "orphaned" /\ req[r].act = a

\* The refinement mapping.  An action has acted once its business writes are
\* committed, whatever its status says afterwards.
StageOf(a) ==
  IF \E e \in applied : e.action = a THEN "acted"
  ELSE CASE row[a].status = "absent" -> "none"
         [] row[a].status = "pending" -> "proposed"
         [] row[a].status = "confirmed" -> "approved"
         [] row[a].status = "executing" -> "acting"
         [] OTHER -> "closed"

Stage == [a \in Actions |-> StageOf(a)]
Told == {e.action : e \in delivered}

Contract == INSTANCE GateContract WITH stage <- Stage, told <- Told

\* The ticket protocol implements the contract of GateContract.
ImplementsContract == Contract!Spec

\* A claim the code does not keep (see the README, "Disagreements"), of the comment over
\* executePendingAction: a failed action has no irrev row.  A lost commit
\* acknowledgement breaks it.
FailedLeavesNoIrrev ==
  \A a \in Actions : row[a].status = "failed" => ~Logged("irrev", a)

=============================================================================
