------------------------------- MODULE Dispatch -------------------------------
(***************************************************************************)
(* Dispatching a task to a remote runner: the coordinator signs a plan     *)
(* that the catalog resolves to targets, and runs of the A2A client        *)
(* (framework/templates/claude/dispatch/transports/a2a-client.py) take a   *)
(* task to the target's runner, follow it and leave the result and its     *)
(* metadata in the local dispatch state.                                   *)
(*                                                                         *)
(* The files the catalog reads may be edited between any two reads.  A     *)
(* request may be lost before or after it took effect, a client may die    *)
(* anywhere, and a task id may be used again.  The runners are what module *)
(* RunnerContract promises, one job per endpoint and task id.              *)
(***************************************************************************)
EXTENDS Catalog, Sequences

CONSTANTS
  Worlds,     \* the contents the catalog's files may have, by name
  Bindings,   \* the role bindings that may be signed
  Hosts,      \* what the runner behind each endpoint was started with
  Clients,    \* runs of the client
  Orders,     \* what a client may be asked: a command, a registry, a target, an envelope
  Closings,   \* how a runner may close a job by itself
  MaxEdits    \* bound: edits of the files and of the plan

Envelopes == {o.envelope : o \in Orders}
Jobs == (DOMAIN Hosts) \X {e.task : e \in Envelopes}

\* What the catalog and the runners answer, and what the files say unchecked.
ResolveOf == [w \in DOMAIN Worlds |-> [b \in Bindings |-> Resolve(Worlds[w], b)]]
TargetOf == [w \in DOMAIN Worlds |-> [id \in {o.target : o \in Orders} |-> Target(Worlds[w], id)]]
CardOf == [e \in DOMAIN Hosts |-> AgentCard(Hosts[e])]

ASSUME DispatchAssumption ==
  /\ IsFiniteSet(Clients) /\ MaxEdits \in Nat
  /\ \A o \in Orders : o.command \in {"run", "send", "get", "subscribe"} /\ o.envelope.role \in ROLES
  /\ \A c \in Closings : c.state \in {"COMPLETED", "FAILED", "CANCELED", "REJECTED"}

\* What candidates are ordered by is numbers.
ASSUME WorldAssumption ==
  \A w \in DOMAIN Worlds :
    /\ \A i \in Worlds[w].integrations : i.id \in Int /\ i.prio \in Int
    /\ \A t \in Worlds[w].targets : t.id \in Int /\ t.prio \subseteq Int
    /\ \A a \in Worlds[w].agents : a.id \in Int /\ a.prio \in Int

VARIABLES
  world,   \* the files the catalog reads
  plan,    \* the signed plan in progress.json, if there is one
  edits,   \* how often these have changed
  task,    \* the record of every job
  ran,     \* whether its process was started
  owner,   \* the envelope every job was created with
  client,  \* the runs of the client
  staged,  \* the files of results in the dispatch state
  meta     \* the run metadata of every task

files == <<world, plan, edits>>
remote == <<task, ran, owner>>
local == <<staged, meta>>
vars == <<world, plan, edits, task, ran, owner, client, staged, meta>>

Remote == INSTANCE RunnerContract WITH Tasks <- Jobs

FINAL == Remote!FINAL

Pc == {"idle", "replay", "verify", "load", "preflight", "card", "send", "get", "follow",
       "cancel", "cancelget", "bind", "stage", "fill", "meta", "metafill",
       "ended"}
NoClient == [pc |-> "idle", order |-> {}, signed |-> {}, desc |-> {}, reply |-> {}, rec |-> {}]

\* A result is kept under its task and the file name its role prescribes.
FileOf(e) == <<e.task, IF e.role = "planner" THEN "proposal" ELSE e.batch>>
NoFile == [st |-> "none", job |-> {}]
NoMeta == [st |-> "none", outcome |-> "none", job |-> {}, envelope |-> {}]

TypeOK ==
  /\ world \in DOMAIN Worlds /\ edits \in 0..MaxEdits
  /\ \A p \in plan : p.bindings \in Bindings
  /\ \A j \in Jobs : task[j].state \in FINAL \cup Remote!ACTIVE \cup {"none"} /\ ran[j] \in 0..1
  /\ \A j \in Jobs : task[j].state = "none" <=> owner[j] = {}
  /\ \A c \in Clients :
       /\ client[c].pc \in Pc
       /\ client[c].pc \in {"card", "send", "get", "follow", "cancel", "cancelget"} => client[c].desc # {}
       /\ client[c].pc \in {"bind", "stage", "fill", "meta", "metafill"} => client[c].rec # {}
  /\ \A f \in DOMAIN staged : staged[f].st \in {"none", "torn", "whole"}
  /\ \A t \in DOMAIN meta :
       /\ meta[t].st \in {"none", "torn", "whole"}
       /\ meta[t].outcome \in {"none", "RETURNED", "TIMEOUT", "CANCELED", "FAILED"}

Init ==
  /\ world \in DOMAIN Worlds /\ edits = 0
  /\ plan \in {{}} \cup UNION {{{[bindings |-> b, resolution |-> r]} : r \in ResolveOf[world][b]} : b \in Bindings}
  /\ Remote!Init /\ owner = [j \in Jobs |-> {}]
  /\ client = [c \in Clients |-> NoClient]
  /\ staged = [f \in {FileOf(e) : e \in Envelopes} |-> NoFile]
  /\ meta = [t \in {e.task : e \in Envelopes} |-> NoMeta]

-----------------------------------------------------------------------------
\* The operator and the coordinator

EditFiles ==
  /\ edits < MaxEdits
  /\ \E w \in DOMAIN Worlds \ {world} : world' = w
  /\ edits' = edits + 1
  /\ UNCHANGED <<plan, remote, client, local>>

\* A mode intent is consumed: its bindings are resolved and kept with the result.
Sign ==
  /\ edits < MaxEdits
  /\ \E b \in Bindings : \E r \in ResolveOf[world][b] :
       plan' = {[bindings |-> b, resolution |-> r]} /\ plan' # plan
  /\ edits' = edits + 1
  /\ UNCHANGED <<world, remote, client, local>>

Unsign ==
  /\ edits < MaxEdits /\ plan # {}
  /\ plan' = {}
  /\ edits' = edits + 1
  /\ UNCHANGED <<world, remote, client, local>>

-----------------------------------------------------------------------------
\* The client: which target

Order(c) == The(client[c].order)
Envelope(c) == Order(c).envelope
Desc(c) == The(client[c].desc)

\* A client that is done, refuses or dies is gone with all it knew.
Go(c, pc) ==
  client' = [client EXCEPT ![c] = IF pc = "ended" THEN [NoClient EXCEPT !.pc = "ended"]
                                  ELSE [@ EXCEPT !.pc = pc]]
Still == UNCHANGED <<files, remote, local>>

\* project_registry_path: the only registry is the file in the project's root.
ProjectRegistry(o) == o.registry = "project"

\* A remote runner returns no sources: network_command_role.
Begin(c) ==
  /\ client[c].pc = "idle"
  /\ \E o \in Orders :
       IF ~ProjectRegistry(o) \/ o.envelope.role = "generator" THEN Go(c, "ended")
       ELSE client' = [client EXCEPT ![c].order = {o}, ![c].pc = IF plan # {} THEN "replay" ELSE "load"]
  /\ Still

\* active_mode_expected_provenance: the plan is resolved again and must come out
\* as it was signed, for every role.
Replay(c) ==
  /\ client[c].pc = "replay"
  /\ LET role == Envelope(c).role
         good == {p \in plan :
                    /\ p.resolution \in ResolveOf[world][p.bindings]
                    /\ \E d \in p.resolution[role] : d.target = Order(c).target /\ d.invocation = "a2a"}
     IN  IF good = {} THEN Go(c, "ended")
         ELSE client' = [client EXCEPT ![c].pc = "verify", ![c].signed = good]
  /\ Still

\* descriptor_from_canonical_target, and the commission of the envelope's role.
Snapshot(d) ==
  {[id |-> d.target, endpoint |-> e, family |-> d.family, tool |-> d.tool, roles |-> d.roles,
    integration |-> d.integration, runner |-> d.route.runner, contract |-> d.route.contract] :
     e \in d.route.endpoint}

Take(c, desc, pc) ==
  IF desc = {} THEN Go(c, "ended") ELSE client' = [client EXCEPT ![c].desc = desc, ![c].pc = pc]

SignedTarget(c) == UNION {p.resolution[Envelope(c).role] : p \in client[c].signed}

\* Mutant: the target is looked up, but not compared with the signed one.
VerifyUncompared(c) ==
  /\ client[c].pc = "verify"
  /\ LET found == {d \in TargetOf[world][Order(c).target] : Envelope(c).role \in d.roles}
     IN  Take(c, UNION {Snapshot(d) : d \in found}, "card")
  /\ Still

\* verify_expected_execution_provenance: the target as it is now must be the
\* signed one in all that can change the execution, and is used from then on.
Verify(c) ==
  /\ client[c].pc = "verify"
  /\ LET found == {d \in TargetOf[world][Order(c).target] :
                     Envelope(c).role \in d.roles /\ d \in SignedTarget(c)}
     IN  Take(c, UNION {Snapshot(d) : d \in found}, "card")
  /\ Still

\* load_descriptor: without a plan the registry is read as it is...
RawDescriptor(w, id) ==
  IF ~w.sound THEN {}
  ELSE IF w.version = "tool-integrations/1"
  THEN UNION {{[id |-> id, endpoint |-> t.endpoint, family |-> i.family, tool |-> i.tool,
                roles |-> {id[3]}, integration |-> i.id, runner |-> {t.runner}, contract |-> {}] :
                 i \in {j \in w.integrations : j.id = t.integration /\ j.cli # {}}} :
                 t \in {u \in w.targets : u.sound /\ AuthOk(u.auth) /\ id = <<"a2a", u.id, id[Len(id)]>>}}
  ELSE UNION {{[id |-> id, endpoint |-> e, family |-> a.family, tool |-> LegacyTool(w, a),
                roles |-> a.roles, integration |-> a.id, runner |-> {}, contract |-> {}] : e \in a.endpoint} :
                 a \in {b \in w.agents : id = <<"agent", b.id>> /\ b.transport = "a2a" /\ \A x \in b.auth : AuthOk(x)}}

Load(c) ==
  /\ client[c].pc = "load"
  /\ LET found == RawDescriptor(Worlds[world], Order(c).target)
     IN  Take(c, found, IF Worlds[world].version = "tool-integrations/1" THEN "preflight" ELSE "card")
  /\ Still

\* ...and then the catalog is asked whether there is such a target.
Preflight(c) ==
  /\ client[c].pc = "preflight"
  /\ Go(c, IF TargetOf[world][Order(c).target] = {} THEN "ended" ELSE "card")
  /\ Still

-----------------------------------------------------------------------------
\* The client: the remote runner

Job(c) == <<Desc(c).endpoint, Envelope(c).task>>

\* validate_remote_card: the runner that answers is the one that was meant.
\* Descriptors of the legacy registry name no runner and skip it.
CardFits(d, role) ==
  \A r \in d.runner :
    \E card \in CardOf[d.endpoint] :
      /\ card.runner = r /\ card.family = d.family /\ card.tool = d.tool
      /\ card.integration = d.integration /\ role \in card.roles

NextAfterCard == [run |-> "send", send |-> "send", get |-> "get", subscribe |-> "follow"]

Card(c) ==
  /\ client[c].pc = "card"
  /\ LET d == Desc(c)
         ok == d.endpoint \in DOMAIN Hosts /\ Envelope(c).role \in d.roles /\ CardFits(d, Envelope(c).role)
     IN  Go(c, IF ok THEN NextAfterCard[Order(c).command] ELSE "ended")
  /\ Still

\* SendMessage.  The runner keeps the envelope of the first message of a task id
\* and answers a second one with the task there is.
Deliver(c) ==
  LET j == Job(c)
  IN  IF task[j].state = "none"
      THEN Remote!Accept(j) /\ owner' = [owner EXCEPT ![j] = {Envelope(c)}]
      ELSE UNCHANGED remote

Send(c) ==
  /\ client[c].pc = "send"
  /\ \/ Deliver(c) /\ Go(c, IF Order(c).command = "send" THEN "ended" ELSE "follow")
     \/ Deliver(c) /\ Go(c, "ended")
  /\ UNCHANGED <<files, local>>

\* A request that does not get through, or whose answer does not come back.
RequestFails(c) ==
  /\ client[c].pc \in {"replay", "verify", "preflight", "card", "send", "get", "cancel"}
  /\ Go(c, "ended")
  /\ Still

\* What GetTask answers: the record, with the envelope it was created with.
Answer(j, reason) ==
  {[job |-> j, envelope |-> e, state |-> task[j].state, reason |-> reason,
    artifact |-> task[j].artifact] : e \in owner[j]}

\* A record made up from what this client knows of its own envelope.
LocalRecord(c, state, reason, artifact) ==
  [job |-> Job(c), envelope |-> Envelope(c), state |-> state, reason |-> reason, artifact |-> artifact]

Bind(c, rec) == client' = [client EXCEPT ![c].pc = "bind", ![c].rec = rec]

Get(c) ==
  /\ client[c].pc = "get"
  /\ LET j == Job(c)
     IN  IF owner[j] = {} THEN Go(c, "ended")
         ELSE IF task[j].state \in FINAL THEN Bind(c, Answer(j, task[j].reason)) ELSE Go(c, "ended")
  /\ Still

\* wait_for_terminal: a stream that is over is followed by GetTask, and if that
\* does not answer, the state and the artifact the stream has told are taken; or
\* polling finds the task closed.  A stream may also be one the client rejects.
Follow(c) ==
  /\ client[c].pc = "follow"
  /\ LET j == Job(c)
     IN  \/ task[j].state \in FINAL /\ Bind(c, Answer(j, task[j].reason))
         \/ task[j].state \in FINAL /\ Bind(c, {LocalRecord(c, task[j].state, "none", task[j].artifact)})
         \/ Go(c, "ended")
  /\ Still

\* The absolute deadline of the run: no retry outlasts it.
Deadline(c) ==
  /\ client[c].pc = "follow"
  /\ Go(c, "cancel")
  /\ Still

\* CancelTask: a job that is closed answers as what it is; one that is not is
\* closed, unless the runner's bounded wait ends first.
Cancel(c) ==
  LET j == Job(c)
      reply(repeated) == [state |-> task'[j].state,
                          reason |-> IF repeated THEN task[j].reason ELSE "client_deadline"]
  IN  /\ client[c].pc = "cancel" /\ owner[j] # {}
      /\ \/ /\ task[j].state \in Remote!ACTIVE
            /\ Remote!Close(j, "CANCELED", "cancel_task", FALSE) \/ UNCHANGED <<task, ran>>
            /\ client' = [client EXCEPT ![c].pc = "cancelget", ![c].reply = {reply(FALSE)}]
         \/ /\ task[j].state \in FINAL
            /\ UNCHANGED <<task, ran>>
            /\ \E repeated \in BOOLEAN :
                 client' = [client EXCEPT ![c].pc = "cancelget", ![c].reply = {reply(repeated)}]
         \/ /\ task[j].state \in Remote!ACTIVE
            /\ Remote!Close(j, "CANCELED", "cancel_task", FALSE)
            /\ Go(c, "ended")
      /\ UNCHANGED <<files, owner, local>>

\* cancel_at_deadline: the record after the cancellation, with the reason the
\* client gives it, or one made up when only the cancellation was answered.
CancelGet(c) ==
  /\ client[c].pc = "cancelget"
  /\ LET reply == The(client[c].reply)
         j == Job(c)
     IN  IF reply.state = "CANCELED"
         THEN \/ Bind(c, Answer(j, reply.reason))
              \/ Bind(c, {LocalRecord(c, "CANCELED", reply.reason, FALSE)})
         ELSE Bind(c, Answer(j, task[j].reason)) \/ Go(c, "ended")
  /\ Still

-----------------------------------------------------------------------------
\* The client: the local evidence

Rec(c) == The(client[c].rec)

\* validate_terminal_binding: task, batch, role and the deliverable they imply.
BindRecord(c) ==
  /\ client[c].pc = "bind"
  /\ LET r == Rec(c)
         bound == /\ r.state \in FINAL /\ r.envelope.task = Envelope(c).task
                  /\ r.envelope.batch = Envelope(c).batch /\ r.envelope.role = Envelope(c).role
     IN  Go(c, IF ~bound THEN "ended" ELSE IF r.artifact THEN "stage" ELSE "meta")
  /\ Still

\* write_artifact_local: a file that is there, whoever left it, is kept.
Stage(c) ==
  /\ client[c].pc = "stage"
  /\ IF staged[FileOf(Envelope(c))].st # "none"
     THEN Go(c, "ended") /\ UNCHANGED staged
     ELSE /\ staged' = [staged EXCEPT ![FileOf(Envelope(c))] = [st |-> "torn", job |-> {Rec(c).job}]]
          /\ Go(c, "fill")
  /\ UNCHANGED <<files, remote, meta>>

Fill(c) ==
  /\ client[c].pc = "fill"
  /\ \/ staged' = [staged EXCEPT ![FileOf(Envelope(c))].st = "whole"] /\ Go(c, "meta")
     \/ staged' = [staged EXCEPT ![FileOf(Envelope(c))] = NoFile] /\ Go(c, "ended")
  /\ UNCHANGED <<files, remote, meta>>

\* Mutant: an artifact makes a result.
OutcomeOfArtifact(r) ==
  IF r.artifact THEN "RETURNED"
  ELSE IF r.state = "CANCELED" THEN IF r.reason \in {"deadline", "client_deadline"} THEN "TIMEOUT" ELSE "CANCELED"
  ELSE "FAILED"

\* synth_run_meta: a failed task stays failed, whatever came with it.
Outcome(r) ==
  CASE r.state = "COMPLETED" /\ r.artifact -> "RETURNED"
    [] r.state = "CANCELED" /\ r.reason \in {"deadline", "client_deadline"} -> "TIMEOUT"
    [] r.state = "CANCELED" /\ r.reason \notin {"deadline", "client_deadline"} -> "CANCELED"
    [] OTHER -> "FAILED"

\* The metadata is opened, which empties it, and written.
OpenMeta(c) ==
  /\ client[c].pc = "meta"
  /\ meta' = [meta EXCEPT ![Envelope(c).task] = [NoMeta EXCEPT !.st = "torn"]]
  /\ Go(c, "metafill")
  /\ UNCHANGED <<files, remote, staged>>

WriteMeta(c) ==
  /\ client[c].pc = "metafill"
  /\ meta' = [meta EXCEPT ![Envelope(c).task] =
       [st |-> "whole", outcome |-> Outcome(Rec(c)), job |-> {Rec(c).job}, envelope |-> {Envelope(c)}]]
  /\ Go(c, "ended")
  /\ UNCHANGED <<files, remote, staged>>

ClientCrash(c) ==
  /\ client[c].pc \notin {"idle", "ended"}
  /\ Go(c, "ended")
  /\ Still

-----------------------------------------------------------------------------
\* The runners

RunnerStep(j) ==
  /\ \/ Remote!Work(j)
     \/ Remote!StartProcess(j)
     \/ \E s \in Closings : Remote!Close(j, s.state, s.reason, s.artifact)
  /\ UNCHANGED <<files, owner, client, local>>

Step(c) ==
  \/ Replay(c) \/ Verify(c) \/ Load(c) \/ Preflight(c) \/ Card(c) \/ Send(c)
  \/ Get(c) \/ Follow(c) \/ Deadline(c) \/ Cancel(c) \/ CancelGet(c)
  \/ RequestFails(c)
  \/ BindRecord(c) \/ Stage(c) \/ Fill(c) \/ OpenMeta(c) \/ WriteMeta(c)

Next ==
  \/ EditFiles \/ Sign \/ Unsign
  \/ \E c \in Clients : Begin(c) \/ Step(c) \/ ClientCrash(c)
  \/ \E j \in Jobs : RunnerStep(j)

Spec == Init /\ [][Next]_vars

-----------------------------------------------------------------------------
\* Properties

\* Whatever is edited between the signature, its replay and the request: what a
\* planned run sends goes to the target that was signed, with its endpoint,
\* family, tool and adapter as they were signed.
SentAsSigned ==
  \A c \in Clients :
    client[c].signed # {} /\ client[c].desc # {} =>
      client[c].desc = UNION {Snapshot(d) : d \in SignedTarget(c)}

\* The target a planned verdict is asked of is of another model family than the
\* generator the plan was signed with, whatever was edited since.  That it is the
\* target that was signed is SentAsSigned.
IndependentVerdict ==
  \A c \in Clients : \A p \in client[c].signed : \A d \in client[c].desc :
    Envelope(c).role = "evaluator" => \A g \in p.resolution.generator : d.family # g.family

\* A result that is recorded as returned was completed by the job it names and
\* lies whole in the dispatch state; one that is recorded as stopped was stopped.
MetaIsTrue ==
  \A t \in DOMAIN meta : \A j \in meta[t].job : \A e \in meta[t].envelope :
    CASE meta[t].outcome = "RETURNED" ->
           /\ task[j].state = "COMPLETED" /\ task[j].artifact
           /\ staged[FileOf(e)] = [st |-> "whole", job |-> {j}]
      [] meta[t].outcome \in {"TIMEOUT", "CANCELED"} -> task[j].state = "CANCELED"
      [] OTHER -> task[j].state \in FINAL

\* A claim the code does not keep (see the README, "Disagreements"): "Reject a
\* remote terminal response that is not for this exact envelope."
ForThisEnvelope ==
  \A t \in DOMAIN meta : \A j \in meta[t].job :
    meta[t].outcome = "RETURNED" => owner[j] = meta[t].envelope

=============================================================================
