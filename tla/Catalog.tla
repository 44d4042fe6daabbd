------------------------------- MODULE Catalog -------------------------------
(***************************************************************************)
(* The tool catalog of the development harness (framework/templates/       *)
(* claude/dispatch/tool-catalog.py): from a registry, the CLI adapters,    *)
(* the bridge manifests and the observation of a bridge provider it makes  *)
(* the targets a role can be dispatched to, and chooses among them.  The   *)
(* catalog is one process per question and keeps no state: everything here *)
(* is a function of the world w it reads, a record                         *)
(*   [version, sound, integrations, targets, agents, adapters, bridges,    *)
(*    provider].                                                           *)
(* The format rules of a file (fields, types, lengths, characters,         *)
(* duplicate keys) are its flag sound; what may be absent is a set of at   *)
(* most one element.  Ids are numbers, for they are compared.              *)
(***************************************************************************)
EXTENDS Integers, FiniteSets

ROLES == {"planner", "generator", "evaluator"}
NON_GENERATOR_ROLES == {"planner", "evaluator"}
PUBLISHED_BRIDGE_PROTOCOL_KINDS == {"acp-native-agent/v1"}
STRICT_EXTERNAL_BRIDGE_PROVIDER_KINDS == {"vm-v1", "ephemeral-uid-v1"}
EXTERNAL_BRIDGE_PROVIDER_MAX_TTL_SECONDS == 300
VM_V1_MAX_TASK_SECONDS == 180
DEFAULT_TIMEOUT_S == 3600
INVOCATIONS == {"local-cli", "subagent", "a2a"}

\* load_json and the checks of fields, texts, ids, numbers and sandboxes: whether
\* a file, or one declaration in it, has the form it must have.
Sound(declaration) == declaration.sound

\* The one element of an optional value that is there, and that or a default.
The(o) == CHOOSE x \in o : TRUE
OrElse(o, default) == IF o = {} THEN default ELSE The(o)

\* effective_timeout: the deadline of the envelope within the cap of the target.
EffectiveTimeout(deadline, cap) ==
  LET c == OrElse(cap, DEFAULT_TIMEOUT_S)
      d == OrElse(deadline, c)
  IN  IF d < c THEN d ELSE c

\* a2a_auth_config: no credential, or one from a variable of the dedicated
\* namespace; another variable of the host is no credential.
AuthOk(auth) ==
  \/ auth = [type |-> "none", env |-> {}]
  \/ auth.type = "bearer" /\ auth.env = {"dedicated"}

-----------------------------------------------------------------------------
\* Adapters and bridges

\* load_adapter.  A tool is compared only when both sides name one.
AdapterFits(w, name, tool, family) ==
  /\ name \in DOMAIN w.adapters
  /\ LET a == w.adapters[name]
     IN  /\ Sound(a) /\ a.verified
         /\ a.family = family
         /\ tool = {} \/ a.tool = {} \/ tool = a.tool

\* What of an adapter can change an execution: all but its documentation.
AdapterContract(w, name) == [w.adapters[name] EXCEPT !.label = ""]

BridgeLoads(w, id) ==
  /\ id \in DOMAIN w.bridges
  /\ LET b == w.bridges[id]
     IN  /\ Sound(b) /\ b.verified /\ b.id = id
         /\ b.protocol.kind \in PUBLISHED_BRIDGE_PROTOCOL_KINDS
         /\ b.personas # {} /\ b.personas \subseteq ROLES

\* The command of a bridge is the one its verified adapter declares for the
\* protocol, and runs the adapter's own executable.
BridgeCommandFits(w, name, bridge) ==
  LET a == w.adapters[name]
      p == w.bridges[bridge].protocol
  IN  /\ a.verified
      /\ DOMAIN a.commands \subseteq PUBLISHED_BRIDGE_PROTOCOL_KINDS
      /\ p.kind \in DOMAIN a.commands
      /\ a.commands[p.kind] = p.command
      /\ p.command.exe = a.exe
      /\ p.kind = "acp-native-agent/v1" => p.command.sub = "acp"

\* What of a bridge's manifest can change an execution: all but its notes.
BridgeContract(w, bridge) == [w.bridges[bridge] EXCEPT !.label = ""]

\* The bundle lies where the operator installs it, nobody else may write to it,
\* and a mirror in the project has the same bytes.
Installed(p) == p.installed

\* A route is a published protocol, whose command runs the route's own tool.
RouteOk(r) ==
  /\ r.protocol.kind \in PUBLISHED_BRIDGE_PROTOCOL_KINDS
  /\ r.protocol.command.exe = r.tool

\* external_same_session_bridge_provider: an observation of the installed bundle
\* and of its answer, whose times are relative to now.  Anything else than a
\* fresh and complete attestation is no provider.
ProviderAttests(p) ==
  /\ Installed(p) /\ Sound(p) /\ p.kind = "vm-v1"
  /\ p.issued <= 30 /\ p.expires > 0 /\ p.expires > p.issued
  /\ p.expires - p.issued <= EXTERNAL_BRIDGE_PROVIDER_MAX_TTL_SECONDS
  /\ p.routes # {} /\ \A r \in p.routes : RouteOk(r)

Provider(w) == {p \in w.provider : ProviderAttests(p)}

Supports(p, tool, protocol) == \E r \in p.routes : r.tool = tool /\ r.protocol = protocol

\* A provider's route never outlives its attestation.
BridgeTimeout(cap, p) ==
  IF p.kind = "vm-v1" /\ cap > VM_V1_MAX_TASK_SECONDS THEN VM_V1_MAX_TASK_SECONDS ELSE cap

-----------------------------------------------------------------------------
\* Candidates

\* What a candidate has besides its identity, as far as its transport has it.
NoRoute == [adapter |-> {}, sandbox |-> {}, timeout |-> {}, endpoint |-> {}, auth |-> {},
            runner |-> {}, persona |-> {}, bridge |-> {}, provider |-> {}, contract |-> {}]

Candidate(id, integration, roles, tool, invocation, family, prio, label, route) ==
  [target |-> id, integration |-> integration, roles |-> roles, tool |-> tool,
   invocation |-> invocation, family |-> family, prio |-> prio, label |-> label,
   route |-> route, selectable |-> TRUE]

\* target_semantics with the contracts behind it: what the digest is taken of.
Semantics(c) == [c EXCEPT !.label = "", !.selectable = TRUE]

LocalCandidate(w, i, l, r) ==
  Candidate(<<"local-cli", i.id, r>>, i.id, {r}, i.tool, "local-cli", i.family, i.prio, i.label,
    [NoRoute EXCEPT !.adapter = {l.adapter}, !.sandbox = {l.sandbox},
                    !.timeout = {EffectiveTimeout({}, l.timeout)},
                    !.contract = {AdapterContract(w, l.adapter)}])

LocalCandidates(w, i) == {LocalCandidate(w, i, l, r) : l \in i.cli, r \in ROLES}

BridgeCandidate(w, i, p, b, l, r) ==
  Candidate(<<"subagent", i.id, r>>, i.id, {r}, i.tool, "subagent", i.family, i.prio, i.label,
    [NoRoute EXCEPT !.adapter = {l.adapter}, !.sandbox = {l.sandbox},
                    !.timeout = {BridgeTimeout(EffectiveTimeout({}, l.timeout), p)},
                    !.contract = {AdapterContract(w, l.adapter)},
                    !.bridge = {BridgeContract(w, b)}, !.persona = {r},
                    !.provider = {[id |-> p.id, kind |-> p.kind, contract |-> p.contract]}])

BridgeCandidates(w, i) ==
  UNION {{BridgeCandidate(w, i, p, b, l, r) : l \in i.cli, r \in w.bridges[b].personas} :
    p \in {q \in Provider(w) : \E b \in i.bridge : Supports(q, i.tool, w.bridges[b].protocol)},
    b \in i.bridge}

RemoteCandidate(w, t, i, l, r) ==
  Candidate(<<"a2a", t.id, r>>, i.id, {r}, i.tool, "a2a", i.family, OrElse(t.prio, i.prio), i.label,
    [NoRoute EXCEPT !.endpoint = {t.endpoint}, !.auth = {t.auth}, !.runner = {t.runner},
                    !.timeout = {EffectiveTimeout({}, l.timeout)},
                    !.contract = {AdapterContract(w, l.adapter)}])

RemoteCandidates(w, t) ==
  UNION {{RemoteCandidate(w, t, i, l, r) : l \in i.cli, r \in NON_GENERATOR_ROLES} :
    i \in {j \in w.integrations : j.id = t.integration}}

\* Every declaration is validated, whether or not a candidate comes of it.  A
\* native subagent is no bridge: it is the coordinator's own and not offered.
IntegrationOk(w, i) ==
  /\ Sound(i)
  /\ \A l \in i.cli : AdapterFits(w, l.adapter, {i.tool}, i.family)
  /\ \A b \in i.bridge :
       /\ BridgeLoads(w, b)
       /\ i.cli # {} /\ \A l \in i.cli : BridgeCommandFits(w, l.adapter, b)

TargetOk(w, t) ==
  Sound(t) /\ AuthOk(t.auth) /\ \E i \in w.integrations : i.id = t.integration /\ i.cli # {}

IntegrationsOk(w) ==
  /\ w.integrations # {}
  /\ \A i \in w.integrations : IntegrationOk(w, i) /\ \A j \in w.integrations : i.id = j.id => i = j
  /\ \A t \in w.targets : TargetOk(w, t) /\ \A u \in w.targets : t.id = u.id => t = u

IntegrationCandidates(w) ==
  (UNION {LocalCandidates(w, i) \cup BridgeCandidates(w, i) : i \in w.integrations})
    \cup (UNION {RemoteCandidates(w, t) : t \in w.targets})

\* qualified_local_generator: an unqualified one serves its other roles only.
KeptRoles(a) ==
  IF a.transport = "local-cli" /\ ~a.returns THEN a.roles \ {"generator"} ELSE a.roles

AgentOk(w, a) ==
  /\ Sound(a) /\ a.roles # {} /\ a.roles \subseteq ROLES
  /\ ~(a.transport = "a2a" /\ "generator" \in a.roles)
  /\ a.auth # {} => a.transport = "a2a" /\ \A x \in a.auth : AuthOk(x)
  /\ a.transport = "subagent" /\ "planner" \in a.roles =>
       a.roles = {"planner"} /\ a.persona = "planner-proposal"
  /\ a.transport = "local-cli" /\ KeptRoles(a) # {} =>
       \E n \in a.adapter : AdapterFits(w, n, a.tool, a.family)

LegacyTool(w, a) ==
  IF a.tool # {} THEN OrElse(a.tool, "")
  ELSE IF a.transport = "local-cli" THEN OrElse(w.adapters[OrElse(a.adapter, "")].tool, OrElse(a.adapter, ""))
  ELSE IF a.transport = "subagent" THEN "claude-code" ELSE a.family

LegacyCandidate(w, a) ==
  LET local == a.transport = "local-cli"
      tool  == LegacyTool(w, a)
      c == Candidate(<<"agent", a.id>>, a.id, KeptRoles(a), tool, a.transport, a.family, a.prio,
             IF local THEN w.adapters[OrElse(a.adapter, "")].label ELSE tool,
             [NoRoute EXCEPT !.timeout = {EffectiveTimeout({}, a.timeout)},
                !.adapter = a.adapter, !.sandbox = a.sandbox, !.auth = a.auth,
                !.contract = IF local THEN {AdapterContract(w, n) : n \in a.adapter} ELSE {},
                !.endpoint = a.endpoint,
                !.persona = IF a.transport = "subagent" THEN {a.persona} ELSE {},
                !.bridge = IF a.transport = "subagent" THEN {"host-native"} ELSE {}])
  IN  [c EXCEPT !.selectable = a.transport # "subagent"]

AgentsOk(w) ==
  /\ w.agents # {}
  /\ \A a \in w.agents : AgentOk(w, a) /\ \A b \in w.agents : a.id = b.id => a = b

\* One invalid declaration is the end of the whole catalog.
CatalogOk(w) ==
  /\ Sound(w)
  /\ \/ w.version = "tool-integrations/1" /\ IntegrationsOk(w)
     \/ w.version = "dispatch/1" /\ AgentsOk(w)

Candidates(w) ==
  CASE ~CatalogOk(w) -> {}
    [] w.version = "tool-integrations/1" -> IntegrationCandidates(w)
    [] w.version = "dispatch/1" -> {LegacyCandidate(w, a) : a \in {b \in w.agents : KeptRoles(b) # {}}}

-----------------------------------------------------------------------------
\* The three questions: what there is, which target it is, which roles go where

\* build_catalog: one entry per role, tool and invocation, if their labels agree.
LabelsAgree(pool) ==
  \A c, d \in pool : c.tool = d.tool /\ c.invocation = d.invocation /\ c.roles \cap d.roles # {}
                       => c.label = d.label

Offer(pool, r, c) ==
  [role |-> r, tool |-> c.tool, invocation |-> c.invocation,
   families |-> {d.family : d \in {e \in pool : r \in e.roles /\ e.tool = c.tool /\ e.invocation = c.invocation}}]

Offers(w) ==
  LET pool == {c \in Candidates(w) : c.selectable}
  IN  IF ~LabelsAgree(pool) THEN {}
      ELSE {Offer(pool, x[1], x[2]) : x \in {y \in ROLES \X pool : y[1] \in y[2].roles}}

\* resolve_target: several candidates of one id must mean the same.
Target(w, id) ==
  LET found == {Semantics(c) : c \in {d \in Candidates(w) : d.target = id}}
  IN  IF Cardinality(found) = 1 THEN found ELSE {}

\* load_bindings: only the planner may go without one.
BindingsOk(bindings) ==
  /\ Cardinality(bindings.planner) <= 1
  /\ \A b \in bindings.planner \cup {bindings.generator, bindings.evaluator} :
       b.invocation \in INVOCATIONS

\* candidates_for: the pool of a binding, in the order of priority and id.
Pool(w, role, binding) ==
  {c \in Candidates(w) : /\ c.selectable /\ role \in c.roles
                         /\ c.tool = binding.tool /\ c.invocation = binding.invocation}

Before(c, d) == c.prio < d.prio \/ (c.prio = d.prio /\ c.target[2] < d.target[2])
First(pool) == {c \in pool : \A d \in pool \ {c} : Before(c, d)}

\* Mutant: any evaluator will do.
AnyEvaluator(w, g, binding) == Pool(w, "evaluator", binding)

Independent(w, g, binding) == {e \in Pool(w, "evaluator", binding) : e.family # g.family}

\* resolve: the first generator that has an evaluator of another model family,
\* with the first such evaluator.
Resolve(w, bindings) ==
  LET planners == UNION {Pool(w, "planner", b) : b \in bindings.planner}
      paired   == {g \in Pool(w, "generator", bindings.generator) :
                     Independent(w, g, bindings.evaluator) # {}}
  IN  IF ~BindingsOk(bindings) \/ (bindings.planner # {} /\ planners = {}) THEN {}
      ELSE {[planner   |-> {Semantics(p) : p \in First(planners)},
             generator |-> {Semantics(g)},
             evaluator |-> {Semantics(e) : e \in First(Independent(w, g, bindings.evaluator))}] :
              g \in First(paired)}

-----------------------------------------------------------------------------
\* a2a-runner.py: what a runner executes and says of itself

\* load_execution_descriptor: what the registry says of an integration, as the
\* runner reads it for itself.  The runners of legacy agents are left out.
Described(w, id) ==
  UNION {{[integration |-> i.id, tool |-> i.tool, family |-> i.family, adapter |-> {l.adapter},
           sandbox |-> {l.sandbox}, timeout |-> {EffectiveTimeout({}, l.timeout)}] : l \in i.cli} :
           i \in {j \in w.integrations : w.version = "tool-integrations/1" /\ j.id = id}}

\* validate_integration_preflight: the runner starts only if the catalog says
\* the same for every role it may be sent.
Served(w, id) ==
  {s \in Described(w, id) :
     \A r \in NON_GENERATOR_ROLES :
       \E t \in Target(w, <<"local-cli", id, r>>) :
         /\ r \in t.roles /\ t.tool = s.tool /\ t.family = s.family
         /\ t.route.adapter = s.adapter /\ t.route.sandbox = s.sandbox
         /\ t.route.timeout = s.timeout}

AgentCard(host) ==
  {[runner |-> host.runner, family |-> s.family, tool |-> s.tool, integration |-> s.integration,
    roles |-> NON_GENERATOR_ROLES] : s \in Served(host.world, host.integration)}

=============================================================================
