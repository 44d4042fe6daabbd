------------------------------ MODULE MCDispatch ------------------------------
(***************************************************************************)
(* Instances of Dispatch for TLC: a registry with two tools, and what may  *)
(* become of it when it is edited.                                         *)
(***************************************************************************)
EXTENDS Dispatch, TLC

Acp == [exe |-> "kimi", sub |-> "acp"]
AcpProtocol == [kind |-> "acp-native-agent/v1", command |-> Acp, delivery |-> "stdin", format |-> "json"]

Adapter(tool, family, commands) ==
  [sound |-> TRUE, verified |-> TRUE, tool |-> {tool}, family |-> family, exe |-> tool,
   commands |-> commands, label |-> tool]
Bridge == [sound |-> TRUE, verified |-> TRUE, id |-> "bridge", protocol |-> AcpProtocol,
           personas |-> {"generator"}, label |-> "kimi acp"]
MCProvider == [id |-> "harness-vm-v1", kind |-> "vm-v1", contract |-> "c", installed |-> TRUE,
             sound |-> TRUE, issued |-> 0, expires |-> 300,
             routes |-> {[tool |-> "kimi", protocol |-> AcpProtocol]}]

Integration(id, tool, family, prio, bridge) ==
  [id |-> id, tool |-> tool, family |-> family, prio |-> prio, label |-> tool, sound |-> TRUE,
   cli |-> {[adapter |-> tool, sandbox |-> "home", timeout |-> {600}]}, bridge |-> bridge]
Bearer == [type |-> "bearer", env |-> {"dedicated"}]
At(endpoint) == [id |-> 1, integration |-> 2, endpoint |-> endpoint, auth |-> Bearer,
                 runner |-> "r", prio |-> {}, sound |-> TRUE]

\* Tool kimi runs by a bridge, tool codex on two remote targets: the preferred
\* one is of the generator's family.
World == [version |-> "tool-integrations/1", sound |-> TRUE,
          integrations |-> {Integration(1, "kimi", "moonshot", 1, {"bridge"}),
                            Integration(2, "codex", "openai", 1, {}),
                            [Integration(3, "codex", "moonshot", 0, {}) EXCEPT !.cli =
                              {[adapter |-> "codexm", sandbox |-> "home", timeout |-> {}]}]},
          targets |-> {At("e1"), [At("e2") EXCEPT !.id = 0, !.integration = 3]}, agents |-> {},
          adapters |-> [kimi |-> Adapter("kimi", "moonshot", [x \in PUBLISHED_BRIDGE_PROTOCOL_KINDS |-> Acp]),
                        codex |-> Adapter("codex", "openai", [x \in {} |-> Acp]),
                        codexm |-> Adapter("codex", "moonshot", [x \in {} |-> Acp])],
          bridges |-> [bridge |-> Bridge], provider |-> {MCProvider}]

\* The target moves to another endpoint.
Moved == [World EXCEPT !.targets = {At("e2")}]
\* The adapter of its tool is changed in a way that changes what it executes.
Rewired == [World EXCEPT !.adapters.codex.exe = "codex2"]
\* Both tools run the same family: there is nobody to judge independently.
Merged == [World EXCEPT
  !.integrations = {Integration(1, "kimi", "moonshot", 1, {"bridge"}),
                    Integration(2, "codex", "moonshot", 1, {})},
  !.targets = {At("e1")}, !.adapters.codex.family = "moonshot"]
\* An adapter that is not verified is the end of the catalog.
Unverified == [World EXCEPT !.adapters.kimi.verified = FALSE]
\* The legacy registry.
Agent(id, transport, tool, family) ==
  [id |-> id, roles |-> {"generator", "evaluator"}, transport |-> transport, tool |-> {tool},
   family |-> family, adapter |-> {"kimi"}, sandbox |-> {"home"}, prio |-> 1, timeout |-> {},
   endpoint |-> {}, auth |-> {}, returns |-> TRUE, persona |-> "none", sound |-> TRUE]
Legacy == [World EXCEPT !.version = "dispatch/1",
  !.agents = {Agent(1, "local-cli", "kimi", "moonshot"),
              [Agent(2, "a2a", "codex", "openai") EXCEPT !.roles = {"evaluator"}, !.adapter = {},
                 !.sandbox = {}, !.endpoint = {"e1"}, !.auth = {[type |-> "none", env |-> {}]}]}]

MCWorlds == [world |-> World, moved |-> Moved, merged |-> Merged, rewired |-> Rewired,
             unverified |-> Unverified, legacy |-> Legacy]
Symmetry == Permutations(Clients)

ByBridge == [tool |-> "kimi", invocation |-> "subagent"]
ByCli == [tool |-> "kimi", invocation |-> "local-cli"]
Remotely == [tool |-> "codex", invocation |-> "a2a"]
MCBindings == {[planner |-> {Remotely}, generator |-> ByBridge, evaluator |-> Remotely],
               [planner |-> {}, generator |-> ByCli, evaluator |-> Remotely]}

MCHosts == [e1 |-> [world |-> World, runner |-> "r", integration |-> 2],
            e2 |-> [world |-> World, runner |-> "r", integration |-> 2]]

Verdict(batch, ref) == [task |-> "t", batch |-> batch, role |-> "evaluator", ref |-> ref]
Ask(command, target, envelope) ==
  [command |-> command, registry |-> "project", target |-> target, envelope |-> envelope]
Evaluator == <<"a2a", 1, "evaluator">>

MCOrders == {Ask("run", Evaluator, Verdict("b", "1")), Ask("get", Evaluator, Verdict("b", "1")),
             Ask("run", <<"agent", 2>>, Verdict("b", "1")),
             [Ask("run", Evaluator, Verdict("b", "1")) EXCEPT !.registry = "other"]}

MCClosings == {[state |-> "COMPLETED", reason |-> "process_exit", artifact |-> TRUE],
               [state |-> "FAILED", reason |-> "process_exit", artifact |-> TRUE],
               [state |-> "CANCELED", reason |-> "deadline", artifact |-> FALSE]}

=============================================================================
