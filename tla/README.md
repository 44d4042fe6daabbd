# KOLMatrix and its development harness in TLA+

The repository holds two programs.

* **KOLMatrix** (the TypeScript application under `src/src`) runs influencer
  campaigns for game studios: language-model agents propose, people decide, and
  what leaves the system (mail, game keys, money, share links) passes a human
  gate. It is a Next.js server over Postgres (Prisma, isolation READ COMMITTED);
  its correctness is mostly a matter of concurrent requests, each of which reads
  rows, decides, and writes later.
* **The development harness** (Python and shell under
  `src/framework/templates/claude`) hands pieces of work to tools: it resolves
  who may do what from a registry, sends tasks to runners over the A2A protocol,
  or runs a vendor's agent in a virtual machine with a credential it never sees,
  and takes back only what a receipt certifies. Its correctness is a matter of
  processes that crash, files that change between two reads, threads, timeouts
  and answers that get lost.

The two share nothing at run time; the modules are in two families.

In the parts on KOLMatrix, paths are relative to `src/src/lib` unless they start
otherwise; in those on the harness, to `src/framework/templates/claude/dispatch`.

## Inventory: KOLMatrix

| Component | State | Operations | What is hard | What makes it correct |
|---|---|---|---|---|
| Human gate (`agent/gate/gate.ts`, `agent/execute.ts`, `src/src/app/api/actions`) | `PendingAction`, `OperationLog` | intercept, detail (with lazy expiry), confirm, reject, execute | three transactions per execution with an external call inside; replays, races, crashes, lost acknowledgements | one decision, at most one execution, nothing unapproved, the audit trail agrees with the effects |
| Deals (`delivery/`, `domain/deal-advance.ts`, `domain/deliverable-plan.ts`, `domain/delivery-check.ts`) | `Deal`, `Deliverable` | ensure deal for quote, register references, verify a condition, advance | stale reads, row locks, unique indexes, disputes | the mainline only goes forward, decisions of people stand |
| `commit_quote` (`agent/tools/commit-quote.ts`) | `Quote`, the plan's budget | commit a quote, open or refresh a deal, refill the budget | races between quotes, terms of a deal already signed | quote and deal together or not at all |
| `payout` (`agent/tools/payout.ts`) | `Payout` | propose, re-check, release, complete the deal | several approved actions on one deal, terms that change | completed means paid, once, as disclosed |
| Key pool (`delivery/register.ts`, `agent/tools/distribute-keys.ts`) | `GameKey` | register, distribute | overlapping picks, duplicate references | a key leaves once, all or nothing |
| Other outbound tools (`send-outreach.ts`, `create-share-link.ts`) | thread, message, link | send, share | send inside a transaction that may roll back, retry after a timeout | at most one mail per action |
| Reach CRM (`reach/`, `domain/crm-infer.ts`) | `OutreachThread.status` | recompute from facts, manual override | concurrent recomputations | status follows the facts, an override stands |
| Inbound signals (`signals/`, `src/src/app/api/signals/inbound`) | `Signal` | ingest a webhook | replay, reordering, nested scopes | a replay changes nothing and succeeds |
| Match (`match/`) | `MatchCandidate`, `MatchPlan` | refresh candidates, verdict, build a round of plans, approve | builds and approvals racing, nightly upserts | an approved plan stays approved and closes its round, a verdict is never reset |
| Project stage (`domain/env-*.ts`, `projects/`) | `Project.cur`, `maxReached`, goal | advance behind a guard, set goal | stage read before the guard, written after | a stage only behind its guard |
| Tenant scope (`db/`) | async-local transaction | `withTenant` | nesting joins the outer transaction | one scope commits together |
| Scheduler (`jobs/`) | set of running names | `runExclusive` | a round that never ends | one round at a time |
| Auth, rate limits (`auth/`, `http/rate-limit.ts`) | users, buckets | register, log in, limit | unique e-mail, sweep of buckets | a block lasts its time |
| Agent loop, hand-off (`agent/`) | conversation | turns, tool calls | a model that calls anything | outbound calls are parked |
| Knowledge, creator sync, insight, scoring, adapters, UI | derived or imported rows | uploads, imports, reports | external services | no component modelled here depends on their order |

How they interact: the agent loop's outbound calls become `PendingAction` rows
(gate); the gate runs the tools in a transaction and hands it to them
(`ctx.db`); `commit_quote` opens deals; `distribute_keys` and `payout` read
and advance them; routes of the delivery pages register references and verify
conditions; signals and sends recompute the status of a thread; an approved
plan lets the project advance to the reach stage. All of it meets in the
database: there are no queues between the components and no locks but row locks.

## Inventory: the harness

| Component | State | Operations | What is hard | What makes it correct |
|---|---|---|---|---|
| A2A runner (`transports/a2a-runner.py`) | task records and event logs on disk, `runner.pid`, slots of the executor, process groups | `SendMessage`, `CancelTask`, `GetTask`, `SubscribeToTask`, shutdown, restart | one lock for threads and none between processes; a cancellation overtakes a launch; a terminal sequence is several writes; crash and recovery | a process starts once and does not outlive its task, a record is closed once, a stream tells everything |
| A2A client (`transports/a2a-client.py`) | staged artifact, run metadata, advisory stream record | run, send, get, subscribe | files edited between replay and use, lost answers, the deadline against the completion, two clients of one task | what is sent is what was signed, the metadata says what the job did |
| Tool catalog (`tool-catalog.py`, `dispatch_common.py`) | none | candidates, offers, targets, resolve, attest | many files that must agree | a generator and its evaluator come from different model families |
| VM bridge provider (`transports/vm-bridge-provider.py`) | launch directory, lock, guest job, firewall, staging worktree, run metadata | launch | one VM, two launches; crashes leave the guest and its egress; edits of every input; failures on the way out | one owner, a result bound to what was attested, nothing left behind |
| Credential broker (same file) | lease, request count, connection slots, sockets, upstream connections | accept, serve, revoke, close | threads that hold a connection while the lease is revoked | nothing outlives the lease, the budget holds |
| Guest worker and session bridge (`transports/vm-bridge-worker.py`, `session-bridge.py`, `session_bridge_kimi.py`) | process group, session updates, artifact, result pipe, receipt | run, copy out | a vendor process that may do anything; evidence that comes in pieces; hashing before the writers are dead | a receipt proves one completed child and certifies what is copied out |
| Return route (`validate-active-return-route.py`, `validate-external-bridge-receipt.py`, `accept-generator-handoff.sh`) | what the coordinator accepted | validate, accept | the envelope, the route and the worktree may have changed since the launch, and change while the result is accepted | what was certified is accepted, as far as it is not rewritten after its validation (Disagreements) |
| Codex session driver, local dispatch, console gates, agents and documents | | | | see Not modelled |

How they interact: the console signs a plan that the catalog resolves; the A2A
client replays that resolution and talks to a runner; or the coordinator starts
a launch of the provider, which opens a broker, starts the worker in the VM,
which starts the bridge, and the receipt travels the same way back to the return
route. All of it meets in files.

The hazards both programs give, each at its line, are in `PROJECT.json`. It lists
forty, those a property covers or the code exposes most; the smaller ones of parts that
are only planned are under Plan.

## The modules: KOLMatrix

### Gate, GateContract, MCGate, GateProofs

`Gate` is the two-step ticket. `row` is the `PendingAction` table, `log` the
`OperationLog` lines of this code, `req` the locals of each request in flight.
`delivered`, `applied` and `held` are what the world can see: calls made by a tool, business
writes committed with an execution, tickets that reached a client.

A request is modelled as its read, with the checks on the row it read, followed
by each of its transactions as one step. A conditional `updateMany` re-evaluates
its condition on the newest committed row, so its test is part of the step that
writes; an unconditional `update` has none. `Propose` has two forms because
inside a route the row and its log line share a transaction and in the agent loop
they do not. An execution is `ExecuteRead`, `Claim` (committed alone),
`Deliver` (the external call), then `Finalize` or `ToolFails` and
`RecordFailure`. `Finalize` may lose the acknowledgement of its commit; then the
failure branch follows a transaction that took effect. `Crash` may strike before
any step. `AlterPayload` is the corruption the payload hash is there to catch.

`GateContract` is what the gate promises, with no requests, tickets or clock: an
action is proposed, approved, under way, and acts at most once; the outside world
hears of it only while it is under way. `Gate` refines it under the mapping
`StageOf`: an action has acted as soon as its writes are committed, even if the row says
`failed` afterwards.

### Deal, MCDeal, DealProofs

`Deal` is one deal: `deal` (status, terms, references), `cond` (its
`Deliverable` rows), `quotes`, `payouts`, `txn` (locals). Every statement of this
code is keyed by the deal, so one stands for all. A transaction is a read step and a
commit step; where the code first updates the deal row, the row lock makes
what it reads afterwards part of the commit (`RegisterCommit`). Amount and
currency are represented by the quote they come from. `blocked` and `defaulted`
have their transitions in `dealAdvance` and no caller; an operator takes them in
the database (`Dispute`, `Resume`, `Default`).

### KeyPool, MCKeyPool

`KeyPool` extends `Deal` with the rows of the key pool. It composes the two: a
distribution reads the deal's status and settles its key condition in the same
transaction that flips the keys. Its proofs are in `DealProofs`, for its invariant is that of `Deal` and more.

### Plans, MCPlans, PlansProofs

`Plans` is one project's plans and its stage: `plan` (the `MatchPlan` table),
`stage` (`cur` and `maxReached`), `goal`, `deals` (what the guard of the later
stages looks at), `txn` (locals). It composes `approvePlan` with `advanceStage`,
which the approval route runs in one transaction, with the builds that replace the drafts.

This code depends on how READ COMMITTED treats one statement, so the module
works at that level. A bulk update sees the rows committed when it starts
(`visible`), waits for a row another transaction has written (`Free`, `holds`),
and evaluates `status = 'draft'` again on the row it then finds; an update by id
waits and then writes. What a transaction has written is its own until it commits: the
step that commits applies it to `plan`. A transaction that waits in a cycle, times out or
dies leaves nothing (`Abort`). The stage is written from what was read two steps
before (`ApproveOthers` reads it, `ApproveGuard` asks the guard,
`ApproveCommit` writes), and an approval advances to whatever comes next.

The supersede and the inserts of a build are one step, its commit: between them
the transaction holds its rows, and whoever needs one of them waits, which is what
waiting for `BuildCommit` is. Builds start at any stage because the refresh
route does not look at it. Plan content and the candidates are left out, except
that there may be no candidate to build from.

## The modules: the harness

### Runner, RunnerContract, MCRunner, RunnerProofs

`Runner` is `a2a-runner.py` whole. On disk: `rec` (the task records), `events`,
`pidfile`. In memory: `slot` (executor), `sender`, `cancel`, the streams; in the
operating system: `group`, the process group of each task. The lock of the store
excludes the threads of one process only. So an operation of the store computes
its writes at once and leaves them in `pending`; `StoreWrite` does one at a
time, `StoreFree` is what a thread of the same runner waits for, and a crash or
another process can come in between. `BootStart`, `BootRead`, `BootWrite` and
`BootOwn` are the start of a process: it reconciles the records it finds, then
looks at the pid file. A cancellation may come as soon as there is a record, before there is a
slot, and every wait of the code with a timeout may end without what it waited for, so a cancellation or the
shutdown may pass a launch by; `group[t].missed` is the history of that.

`RunnerContract` is what that comes to for a caller: a task is taken up once,
started at most once, closed once, and there is a result only if the process ran.
`Runner` refines it. The interesting part of the mapping is a torn sequence: a
task is closed for the contract when its record is, even if the terminal event
is still to be written.

### Catalog, Dispatch, MCDispatch, DispatchProofs

`Catalog` is functions of the files the catalog reads, a record `w`: targets from
a legacy registry or from integrations, the candidates of a role, offers,
`Resolve` of the bindings a plan asks for, `AgentCard`. It keeps all the
conditions; formats of fields are the flag `sound` of each declaration, and a
digest is the value it is a digest of.

`Dispatch` composes it with the client. The coordinator signs a plan
(`Sign`), clients replay it, look up their target, check the remote card
and send; the job lives in a runner abstracted to what `RunnerContract` promises.
The files may be edited before every read, a request may be lost before
or after it took effect, and a client may die anywhere. Two clients share a task
id, so they also share the staged artifact and `meta`.

### Broker, MCBroker, BrokerProofs

`Broker` is one lease: the accept loop, a thread per connection and the owner.
Every action ends where the code takes or releases a lock; in between a thread acts on
what it read. `Revoke` takes its snapshots of sockets and upstream connections,
then closes them one by one (`CloseSocket`, `CloseUpstream`), and a thread that
had not yet registered is the one it could miss (`RegisterLate`,
`RegisterUpstream`). `conn[c].call` is the connection to the model
endpoint, which in `http.client` opens lazily.

### Guest, MCGuest, GuestProofs

`Guest` is a job inside the VM: `worker` (supervisor), `bridge`, the vendor's
`procs` in and outside the bridge's group, its `calls` and the `updates` the
bridge has seen of them, `tree` (who wrote the artifact last), `pipe`, `receipt`,
`out`. The vendor may do anything: make calls that fail, repeat or
swarm, fork, write the artifact at any moment, die, or end its turn early. What
the bridge concludes is `OneChild`, from updates that tell a piece of a call each.

### Bridge, MCBridge, BridgeProofs

`Bridge` is a launch of the provider and the acceptance of its result. `launch`
is the locals of each provider process (`pc`, the envelope it snapshotted,
what it attested, what came out), `lock`, `job`, `egress`, `tree` and `meta` are the
lock file, the guest's unit, the VM's firewall, the staging worktree and the run
metadata. `file` and `route` are what others may edit, besides the tree; whether the bundle
is the pinned one and the VM the configured one is open each time it is asked (`BundleTrusted`, `VMReady`). A guest is `Outs[p]`: any
tree and any receipt, since a provider must not depend on an honest one; `Guest`
says what an honest one returns and `Broker` what the lease does meanwhile. The two
stay apart because they meet only in "the lease is open" and "the unit is over".
A crash kills the provider, its lock and its broker; the unit in the VM goes on.

The acceptance is the script's own order. `Validate` runs the validators, which hash
artifact and envelope. `Reload` reads the envelope again and compares role, task, batch and ref; the rest of it, `draft`, is not compared. `RunL1` runs
the commands in the staging worktree and takes the diff as they left it, without the artifact; whatever they do
to the artifact is `Rewrite`. `Apply` copies the artifact as it then stands and commits. `Abandon` is every
way not to get there. `rewritten` is history: whose artifact was changed in between.

## The runs

| Run | Shows |
|---|---|
| `gate` | one answer per proposal, and answers and expiries stand; tickets, effects and audit trail stay consistent: two actions, five requests |
| `gate_live` | `Gate` implements `GateContract`; an executing action resolves |
| `deal` | forward only, decisions stand, quotes and deals agree, completed means paid: four transactions |
| `deal_paid_twice` | violation: a completed deal is paid again |
| `plans` | approvals stand and close their round, stages are backed: four approvals and builds, two rounds |
| `keys` | a key leaves once, all or nothing, and leaves its mark on the deal |
| `runner` | a process starts once, an orderly exit leaves no task open and no process but one whose launch was passed by, `Runner` implements `RunnerContract`, every task ends: two lives of the runner, a crash between any two writes |
| `runner_stream` | a stream that ends as done told every event, and a stream of a finished task ends |
| `dispatch` | sent as signed, an independent verdict, true metadata: two clients, one edit at any moment |
| `broker` | a closed lease left nothing, the budget and the slots hold, closing ends: three connections on two slots and two requests |
| `guest` | a receipt proves one completed child and certifies what is copied out; the worker ends |
| `bridge` | the VM has one owner, a result is bound to its attestation, success leaves nothing, what is accepted was certified (unless rewritten while it was accepted), launches end |

`PROJECT.json` names the properties of each run and, for each, a mutant: a
definition changed the way a plausible bug would, under which the property fails.

### Bounds

KOLMatrix:

* `Requests`, `Txns`, `KeyTxns`: a request or transaction is used once, so these
  bound how many ever arrive. Five requests let two actions be proposed and a
  third party race on one of them with confirm, execute and reject; four let one
  action meet every pair of late or duplicate calls in the liveness run. Two
  transactions race to every write of `Deal`; four allow a quote, a registration
  and two others on top of what they left. `deal_paid_twice` needs a quote, the
  registrations or verifications that make the deal ready and two payouts; there
  `Reviewed` is empty, which shortens the way to a ready deal and changes no rule.
* `MaxNow` bounds the clock. What matters is whether a deadline has passed, so
  time limits of 0 to 2 ticks and up to three ticks of the clock give every order of
  deadline and step. `gate_live` has the longer ticket: an action then runs after
  its confirmation window has passed, while a late expiry decided on it is still in flight.
* `KeyRefs`, `Quantity`: three references and quantity two make two distributions
  overlap without being equal.
* `Plans`, `RoundSize`: four rows in rounds of two give two rounds; two plans are a
  choice (the code builds three, and nothing depends on the third but the
  number of drafts one update supersedes). Four transactions allow two
  approvals racing with each other and a build, on drafts of an earlier build. Two
  creators let one deal be settled while another is open.

The harness:

* `Runner`: one task, because tasks share nothing but the store's lock; a send
  may be repeated, and there is one cancellation of each origin. `MaxBoots = 2` lets one crash or
  shutdown be followed by a recovery and a repeated send. `runner_stream` has one life of the
  runner and one subscriber, who may come at any time.
* `Runner`'s constant `Doubles` says what is assumed: when it is `FALSE` nobody starts a second runner on a
  state directory in use. It is `FALSE` in both runs, because when it is `TRUE` the code keeps neither the
  contract nor `LeavesNothing` (Disagreements); `RunsOnce` it keeps all the same.
* `Dispatch`: two clients race for one task, `MaxEdits = 1` places one edit between any two reads. The worlds are one
  for each thing an edit can break: endpoint, executable, model family, verified
  adapter, registry format.
* `Broker`: three connections on two slots, so that one must wait, and a budget
  of two, so that it runs out with several connections reserving at once. There
  is one right request and one for each check that refuses. `Limits` are the
  smallest with something below and above them.
* `Guest`: two calls are what it takes to confuse two children, or a failed call and its
  repetition; both channels, with and without the artifact in the commissioned tree.
* `Bridge`: two launches of one task race for the VM, the worktree and the record;
  an honest guest, one with another launch's receipt, one whose artifact changed
  after its receipt, and two that change what their role may not. One edit anywhere, in the middle of an
  acceptance too; what the L1 commands do is not counted among the edits.

`CHECK_DEADLOCK FALSE` is set everywhere because requests, clients, connections, launches and
the lives of a runner are finite: when all have ended nothing is left to happen.

Requests, transactions, actions and references are interchangeable in every
definition, so the safety runs use them as symmetry sets (`MCPlans` only transactions and
creators: permuting the plans costs more than it saves; `MCDispatch` its clients).
Runs with a liveness property have no symmetry.

### Fairness

* `Gate`: weak fairness of `Proceed(r)` for every request: a server runs a request it
  has accepted to its end unless it dies. Nothing is assumed of people (nobody
  must confirm), of the clock, or of crashes. The 90 s limit on the execution's
  transaction is what makes a tool return or fail in the code.
* `Runner`: a live runner's threads run, and a sandboxed process ends (its time
  limit kills it). A stream gets strong fairness: it wakes up at every heartbeat
  and competes for the store's lock with threads that each take it a bounded number of times. Nobody has to
  start, stop or cancel.
* `Broker`: the owner, the accept loop and a serving thread do what they have to do,
  the latter because its sockets have timeouts. An open connection may last
  for ever: its client has a request ready each time, and the lease must close all the same.
* `Guest`: the supervisor runs. Nothing is asked of the bridge or the vendor:
  the supervisor's own deadline must be enough.
* `Bridge`: a started provider runs, and `RuntimeMaxSec` ends the guest's unit. The
  wait for the lock has a bound, so a launch may give up instead of waiting.

`Dispatch` has safety properties only: the client's `follow` ends at its deadline,
a clock the model does not have.

## What is proved

TLAPS checks the theorems for every value of the constants. Each rests on the
named assumption of its module and nothing else. None of the properties is
inductive alone; what follows is why the invariants are.

`GateProofs` (`GateAssumption`: `NoTicket` and `NoAction` are not
members of the sets they extend, time limits are naturals). `IInv` ties each request's point to the row it works on: a
request past its claim holds an action whose ticket is spent and whose status is
`executing`, or it is closing one it has already finished; every effect belongs
to the request that claimed; log lines of a decision determine the status the row may have. That a decision
stands is a property of steps, proved action by action from it. From it follow
`DecisionIsUnique`, `OneExecution`, `NothingUnapproved`, `BooksAgree`,
`SpentForGood`, and `Refinement` (each step maps to a step of `GateContract` or a
stutter).

`DealProofs` (`DealAssumption`). `IInv` adds to typing what a
transaction remembers against what is true now: a transaction that saw a deal
has one to write to, a released payout saw the mainline, quotes and deal go
together. From it follow `QuotesAreBacked`, `CompletionIsPayment`,
`NeverBackwards`, `DecisionsStand`.

On the composition with `KeyPool` (`KeyPoolAssumption` besides: finitely many references and
transactions, a quantity of at least one), `KInv` is that invariant, the types of the pool, and that a transaction has handed out nothing before its
commit and all or nothing after it (`HandedOnce`), that what is gone was registered and is gone
once, and that a key gone has the key condition decided (`Marked`).
From it follow `PoolTypeCorrect`, `KeysAreHandedOnce` and `KeysMarkTheDeal`, for every quantity.

`PlansProofs` (`PlansAssumption`: finitely many rows, a round of at least
one). `IInv` is about locks and snapshots. No two transactions hold a row
(`LocksExclude`); a row held is still a draft to everyone else (`HeldAreDrafts`);
an approval holds the plan it approves (`OwnIsHeld`) and, from its bulk update on,
knows or holds every draft of that plan's round (`SeesItsRound`), which needs that rounds are
created whole (`RoundsAreComplete`); and what the guard was asked about is still
true when the stage is written, since goals, approvals and deals do not go away
(`ReadIsBacked`). From it follow `PlansTypeCorrect`, `ApprovalsStand`,
`FirstApprovalCloses` and `StagesAreBacked`.

`BrokerProofs` (`BrokerAssumption`: finitely many connections, at least one slot). `IInv` counts:
the slots taken are the connections between their acceptance and their end, no more than there are, and
requests sent upstream together with those between reservation and sending are within the
count, which stays within the budget. Each step moves one connection and changes a count by what that connection
adds or takes away (`Moved`, a lemma on cardinalities), so each action owes one balance
(`Accounts`). `Shape` ties the phases together: accepting means the lease is up, the
accept loop is through before the threads are waited for, and the lease is closed when no
thread is left. From it follow `BudgetIsKept` and `NothingIsLeft`.

`BridgeProofs` (`BridgeAssumption`: what a guest returns is a tree and a receipt; which,
is arbitrary). `IInv` says for each launch what it holds at its
program counter (`Local`: one envelope of its own task from the snapshot on, the
attestation of it, a certified output once the receipt is checked), that the lock
is held by exactly the launch inside (`LockOK`), that a running launch is the only
one let out and who else may be (`EgressOK`), that a record is of
a launch that is done and no longer changes what it attested (`MetaOK`), and that an acceptance under way
is of such a record, with the envelope it was validated for, and with the certified artifact as long as nobody
has rewritten it (`ReturningOK`, then `AcceptedOK`). Two lemmas (`LaunchMoves`, `LaunchStep`) reduce each
step of a launch to local obligations: it takes its turn with the lock, lets out only itself, runs only its own
job, stages its tree before it is done, and keeps its record.
From it follow `TheVMIsHeld`, `TheRecordIsBound`, `AReturnIsClean` and
`AnAcceptanceIsCertified`.

`GuestProofs` (`GuestAssumption`: what a call may be told to do). `IInv` follows the evidence. No call
of the vendor escapes the bridge (`AllTold`), so a bridge that goes on does so from a session
with one child (`Evidence`), writes one result and never comes back (`OneResult`); the supervisor
reads when nobody is left in the group who could start anything (`Reaped`), so that the tree it
has compared with the result stays what it was, and the receipt carries that result
(`Certifies`, `Copied`). From it follow `AReceiptIsProof` and `AReceiptStands`.

`RunnerProofs` (`RunnerAssumption`: finitely many tasks and streams, receipts end in the states
the schema lists). The store operation under way is a sequence of writes of any shape,
so the invariants say what its writes have in common. `Once`, for any `Doubles`: a task
that has left `SUBMITTED` never goes back, since the write that does go there is the first of its
operation and on no record (`Opening`); a thread that is about to launch has its task's next record
written or in hand (`Launchable`), and a task launched is past that. From it `ProcessesStartOnce`. The
other two theorems assume `~Doubles`. `SInv` adds who may write (`Quiet`, `Single`: the
runner's threads while it lives, a starting process otherwise), that a thread which reads a receipt has
had its process (`SlotsSound`), and that the writes left bring one task to one view that it has
or that the contract lets it take (`Brings`): so a write is a step of `RunnerContract` or
invisible (`WriteMaps`), whatever is lost in a crash. `Streams` adds that a record
is marked complete right after the event that ends its stream and is written no more.
From them follow `RunnerKeepsItsContract` and `StreamsTellEverything`.

`ShutdownLeavesNothing` assumes `~Doubles` only: cancellations may come at any moment. `LInv` follows one slot through everything that may
happen to it at once. A thread that has waited for its cleanup is past its launch and its group is gone, unless somebody passed it by
(`SlotRight`); what is closed, or is just being closed, under its thread has been cleaned up after or passed by (`Cleaned`). So a round of the
shutdown leaves every task it listed without a thread, cleaned up or passed by, and a task it did not list was closed or never this runner's
(`Rounded`); a group that runs is attended to by its runner or was passed by (`Grouped`). Who passes by is
`Missed`: a canceller that found no slot where there is one now, one whose wait for the process has run out, a shutdown that reaps before the process
is registered. Lemmas on each (`MissedGroup`, `ReapedGroup`) say what that leaves of the rest; a cancellation itself never starts
anything (`CancelStartsNothing`).

`DispatchProofs` (`DispatchAssumption`, and `WorldAssumption`: what candidates are ordered by is
numbers). `IInv` follows a client from its order to its metadata. A plan that was signed came out of the catalog
(`Genuine`), a client replays one plan at most, and the descriptor it goes on with is
the snapshot of the signed target (`Planned`); an answer says of a closed job what the job is and stays
(`Truthful`, since closed jobs do not change); the file a client fills is its own, since it created it
(`Stages`, `Apart`), and is kept once whole. From it follow `SignedIsSent`, `MetadataIsTrue`
and the action property `OverIsOver`. `VerdictIsIndependent` needs lemmas about the catalog besides: candidates are
numbered (`CandidateNumbers`), so that the first of a set is one (`FirstIsOne`), and what `Resolve` returns
binds each role to one target, the evaluator's of another family than the generator's (`ResolvesToOne`).

Only model-checked: every liveness property (`ClaimResolves`, `TaskEnds`,
`StreamEnds`, `LeaseCloses`, `WorkerEnds`, `LaunchEnds`: fairness and `ENABLED`
are beyond the prover) and the violation run. Every other property of the runs is a theorem.

## Disagreements

Claims of a comment, a document or the code's own texts that the code does not
keep. Each was met while modelling. Where a name is given, the module of that
component defines the claim and TLC finds it violated; one of them is kept as a run.

KOLMatrix:

* `PaidOnce` (`Deal`, run `deal_paid_twice`). A completed deal is paid again:
  `resolveAndAssertReady` and the delivery check accept a completed deal, an
  earlier payout is looked up by the same action only, and `Payout` has no unique
  index on the deal. `domain/deal-advance.ts:16`: "completed 是终态：出边为空（放款完成后不再有资金动作）".
* `PaysWhatWasDisclosed` (`Deal`). The payload of a payout is the deal's id; the amount is read when it
  runs (`agent/tools/payout.ts:169`), and a later quote may have refreshed the terms.
  `src/docs/dev/architecture.md:1247` says of the payload hash "「确认 A 执行 B」结构性不可能".
* `SignedTermsFixed` (`Deal`). `delivery/ensure-deal.ts:131` updates terms on a status read before;
  a registration may sign the deal in between. Lines 63-64: "已推进的 Deal 条款不动".
* `FailedLeavesNoIrrev` (`Gate`). The failure branch writes `failed` unconditionally
  (`agent/gate/gate.ts:435`). When the acknowledgement of the second transaction is lost, a
  failed action has an irrev row and its writes. Line 313: "失败 → failed、无 irrev 行".
* `ApprovedOnce` (`Plans`). Two approvals that both read a draft both write; the second overwrites
  who approved (`match/approve-plan.ts:76`). Line 61: "重复批准不改写 approvedBy/At".
* `ReachIsTheLimit` (`Plans`). An approval at reach advances to whatever comes next
  (`match/approve-plan.ts:93`). Line 91: "advance 被拒（已在 reach / 越过 match 等）不回滚批准".
* `OneRowPerRef` (`KeyPool`). Two registrations of one reference both find it missing; there is no
  unique index (`delivery/register.ts:309`). Line 280: "同一 Deal 下重复引用跳过不重复建".

The harness:

* `TerminalIsWhole` (`Runner`). `finalize` writes the record, then its events, file by file; a
  crash in between leaves a closed task without its terminal event, and no recovery
  looks at closed tasks. `transports/a2a-runner.py:380`: "Persist one complete terminal sequence while holding the store lock."
* `LostMeansLost` (`Runner`, `Doubles = TRUE`). A second process on the same state directory fails the
  active tasks of the live one (lines 1105-1112) before it finds out that it is not
  the owner (1121-1127). The error it writes says "runner restarted after losing the execution process; retry with the same task id";
  no process was lost, and a retry with the same task id is answered with the
  failed record (`deduplicated`).
* `LeavesNoProcess` (`Runner`). A cancellation that finds a record and no slot yet (`transports/a2a-runner.py:684-695`,
  831-835) closes the record and leaves the launch under way to run; so does one, or a shutdown, whose wait for the process
  ends before the process is registered (697-698, 730: there is no process to terminate yet). The shutdown then takes the task
  for closed and the runner exits. Line 725: "A timed-out cancellation waiter must not let the runner exit with its process group alive."
  `LeavesNothing` says what is left of it: nothing else survives.
* `ForThisEnvelope` (`Dispatch`). A terminal record is compared on task, batch, role and deliverable
  (`transports/a2a-client.py:684-701`), not on the ref the task was
  commissioned at, and a stream record is taken as advice. (It takes orders for two refs of one task to see it; `dispatch` has one.) Line 685: "Reject a remote terminal response that is not for this exact envelope."
* A client that dies between staging and metadata makes every later `get` of the
  task end at the staged file (721-748), where `transports/a2a.md:19` has `get` as the recovery.
* `BrokerLease.revoke` closes the upstream connections it finds; an `HTTPSConnection`
  that was registered before and opens afterwards (it opens lazily) is sent all the same, and a
  blocked reader is not woken by `close()`. `transports/vm-bridge-provider.py:765`:
  "Stop accepting and close all in-flight credential-bearing channels." `Broker` has this behaviour;
  what saves `NothingOutlivesTheLease` is that the server's close joins its threads, without a
  timeout, so that leaving takes as long as the slowest upstream.
* For the file channel, `session-bridge.py` only asks that the artifact is a file.
  When the commissioned tree already has it, a child that wrote nothing
  passes. For the terminal-message channel the worker creates the artifact exclusively, so that such a
  tree always fails, where `transports/vm-bridge-provider.py:2579` means it to be overwritten.
* "The dedicated VM profile has no child workload before this command"
  (`transports/vm-bridge-provider.py:1247`): a provider that died leaves its unit running for up to
  180 s, with its egress, until the next launch resets the firewall.
* `PreservesTheValidated` (`Bridge`). `accept-generator-handoff.sh` validates the receipt, with the artifact's digest, at line 162, runs the L1
  commands in the same worktree (538-539), makes the source diff anew after them but without the artifact (518, 540), and copies
  the artifact as it then stands (569), without hashing it again. Line 559: "Preserve the exact validated handoff alongside the accepted source diff."
  The envelope is likewise read again after the validation (334) and compared with the record by task, batch, ref and path only.
  `AcceptedIsReturned` says what is left of it: what nobody rewrites in between is the certified artifact.
* `run-meta` says `RETURNED` before the cleanup is proven (line 3090). A launch whose cleanup then
  fails exits with an error and leaves the record; a retry of the task is refused because it exists. A
  crash between creating and filling the record has the same effect with a torn file.

## Not modelled

* KOLMatrix: formatting, wording, pages, tenants (every query of the modelled code is
  scoped to one tenant, and one tenant stands for all), rate limits on the routes,
  language-model behaviour, scoring arithmetic, imports. The external partners are mocks in
  the code; the models keep the call, since it is made inside a transaction that may roll back.
  Left out of `commit_quote`: the outreach thread it opens and the plan's budget. Reach CRM, signals,
  scheduler and limits are planned (below).
* The codex session driver: no published protocol reaches it.
* Local dispatch (`dispatch-run.sh`, `process-timeout.py`, planner proposals): shell around one
  child at a time; its termination of a process group is the one `Runner` has.
* Console gates: that a consumed intent becomes the signed plan is `Dispatch`'s
  `Sign`; signatures and formats are left out. Agents, policies, documents: prompts and prose.
* Of the return route: the local, A2A and host-native branches and the format of a handoff.
* Cryptography: a digest is its content, a nonce is the launch it belongs to.
* Times: deadlines may strike at any step, so their sizes are left out. That an
  attestation's 390 s can be shorter than a launch within its bounds, or that a
  timeout of 180 s leaves no margin of the 60 s the provider wants, is arithmetic
  a reader can check and no interleaving changes.

## Plan

1. Done: `Gate` and `Runner` with contract and proofs; `Deal`, `KeyPool`, `Plans`, `Broker`,
   `Bridge` and `Guest` with proofs; `Catalog` and `Dispatch`, over `RunnerContract`, with proofs.
2. `LostMeansLost` and `LeavesNothing` under a weaker assumption than `~Doubles`: what of
   them is left when a second runner starts beside the first.
3. `Reach`: signals, messages, recomputation, override, `send_outreach`, the replayed
   webhook inside a nested scope. The status as a function of the facts once a thread is quiet.
4. `Limits`: fixed windows with the sweep (`http/rate-limit.ts:19` drops the buckets of longer
   windows), the login block, the unique e-mail (`auth/register.ts:117`), `runExclusive`
   (`jobs/scheduler.ts:171`: a round that never ends blocks its job).
5. More of the plans and the tools: the plan's budget, written whole from a read
   (`agent/tools/commit-quote.ts:112`); a draft superseded between an approval's read and
   write (`match/approve-plan.ts:56`); a drafts' round built at a stage that has passed
   (`match/build-plans.ts:228`); what a tool sees of the action it runs for
   (`agent/execute.ts:17`); keys picked again at execution and handed over before the flip
   (`agent/tools/distribute-keys.ts:162`, `:165`); a condition marked missing during a payout.
6. An abstract specification of `Deal` (a mainline, conditions, one payout) with `Deal`
   shown to implement it where it does.
