-------------------------------- MODULE Guest ---------------------------------
(***************************************************************************)
(* One job inside the VM: the root supervisor (vm-bridge-worker.py), the   *)
(* session bridge it starts in a process group of its own                  *)
(* (session-bridge.py), the ACP driver that bridge runs                    *)
(* (session_bridge_kimi.py) and the vendor's process, which has the root   *)
(* session and the native agents in it.  The bridge proves from the        *)
(* session's updates that one child did the work, hashes the artifact and  *)
(* sends its result down a pipe; the supervisor reaps the group, reads the *)
(* pipe, hashes the artifact again and leaves a receipt; a second unit     *)
(* copies the tree and the receipt out.                                    *)
(*                                                                         *)
(* The vendor's process is in the bridge's group, may start helpers there  *)
(* or outside it, and writes to the tree while it lives.  The artifact is  *)
(* known by who wrote it last; two writers never write the same bytes.     *)
(***************************************************************************)
EXTENDS Naturals, FiniteSets

CONSTANTS
  Calls,     \* tool calls of the vendor's session
  Inputs,    \* what a call may be given
  Channels,  \* the deliverable channels of the targets
  Bases      \* whether the commissioned tree already has the artifact

ASSUME GuestAssumption ==
  /\ IsFiniteSet(Calls)
  /\ Inputs \subseteq [nonce : BOOLEAN, type : BOOLEAN]
  /\ Channels \subseteq {"file", "terminal-message"} /\ Bases \subseteq BOOLEAN

VARIABLES
  channel,  \* deliverable_channel of the target
  worker,   \* the supervisor: where it is and how the bridge ended for it
  bridge,   \* the session bridge: where it is and whether its run is good
  procs,    \* the processes of the vendor that are alive
  calls,    \* the tool calls of the session, as the vendor makes them
  updates,  \* the session updates the bridge has received
  tree,     \* who wrote the artifact
  pipe,     \* the results written to the supervisor's pipe
  receipt,  \* receipt/bridge-result.json
  out       \* what the copy-out unit streamed

vars == <<channel, worker, bridge, procs, calls, updates, tree, pipe, receipt, out>>
session == <<calls, updates>>

WorkerPc == {"start", "prepared", "spawned", "waiting", "reaping", "reading", "checking",
             "creating", "filling", "done", "failed"}
BridgePc == {"none", "boot", "driver", "home", "initialize", "new", "mode", "prompt", "sink",
             "closing", "hash", "result", "gone"}
Proc == {"vendor", "helper", "stray"}
Artifact == {"none", "base", "child", "vendor", "helper", "stray", "relay"}
Call == [tool : {"none", "Agent", "AgentSwarm", "other"}, input : [nonce : BOOLEAN, type : BOOLEAN],
         status : {"running", "completed", "failed"}]
Update == [call : Calls, fact : {"call", "input", "status"}]
NoCall == [tool |-> "none", input |-> [nonce |-> FALSE, type |-> FALSE], status |-> "running"]

Receipt == [whole : BOOLEAN, digest : Artifact]
NoReceipt == {}

Group == (IF bridge.pc \in {"none", "gone"} THEN {} ELSE {"bridge"}) \cup (procs \ {"stray"})
Ended == worker.pc \in {"done", "failed"}

\* The supervisor succeeds only with a receipt that is whole.
TypeOK ==
  /\ worker.pc = "done" => \E r \in receipt : r.whole
  /\ channel \in Channels
  /\ worker \in [pc : WorkerPc, exit : {"none", "ok", "bad"}, over : BOOLEAN]
  /\ bridge \in [pc : BridgePc, good : BOOLEAN, digest : Artifact]
  /\ procs \subseteq Proc
  /\ calls \in [Calls -> Call]
  /\ updates \subseteq Update
  /\ tree \in Artifact /\ pipe \subseteq Artifact
  /\ receipt \subseteq Receipt
  /\ out \subseteq [artifact : Artifact, receipt : Receipt]

Init ==
  /\ channel \in Channels
  /\ worker = [pc |-> "start", exit |-> "none", over |-> FALSE]
  /\ bridge = [pc |-> "none", good |-> TRUE, digest |-> "none"]
  /\ procs = {}
  /\ calls = [c \in Calls |-> NoCall]
  /\ updates = {}
  /\ \E b \in Bases : tree = IF b THEN "base" ELSE "none"
  /\ pipe = {} /\ receipt = NoReceipt /\ out = {}

-----------------------------------------------------------------------------
\* The vendor's process: calls, their updates, writes, helpers, exit.

Up == "vendor" \in procs
Talking == Up /\ bridge.pc = "prompt"

\* What a call other than an Agent is given plays no role.
CallTool(c, tool, i) ==
  /\ Talking /\ calls[c].tool = "none"
  /\ IF tool = "Agent" THEN i \in Inputs ELSE i = NoCall.input
  /\ calls' = [calls EXCEPT ![c] = [tool |-> tool, input |-> i, status |-> "running"]]
  /\ updates' = updates \cup {[call |-> c, fact |-> "call"]}
  /\ UNCHANGED <<channel, worker, bridge, procs, tree, pipe, receipt, out>>

\* The input and the end of a call are told in updates of their own.
TellInput(c) ==
  /\ Talking /\ calls[c].tool = "Agent"
  /\ updates' = updates \cup {[call |-> c, fact |-> "input"]}
  /\ UNCHANGED <<channel, worker, bridge, procs, calls, tree, pipe, receipt, out>>

EndCall(c, status) ==
  /\ Talking /\ calls[c].tool # "none" /\ calls[c].status = "running"
  /\ calls' = [calls EXCEPT ![c].status = status]
  /\ updates' = updates \cup {[call |-> c, fact |-> "status"]}
  /\ UNCHANGED <<channel, worker, bridge, procs, tree, pipe, receipt, out>>

ChildWrites ==
  /\ Up /\ channel = "file"
  /\ \E c \in Calls : calls[c].tool = "Agent" /\ calls[c].status = "running"
  /\ tree' = "child"
  /\ UNCHANGED <<channel, worker, bridge, procs, session, pipe, receipt, out>>

Writes(p) ==
  /\ p \in procs /\ tree' = p
  /\ UNCHANGED <<channel, worker, bridge, procs, session, pipe, receipt, out>>

Forks(p) ==
  /\ Up /\ p # "vendor"
  /\ procs' = procs \cup {p}
  /\ UNCHANGED <<channel, worker, bridge, session, tree, pipe, receipt, out>>

Exits(p) ==
  /\ p \in procs
  /\ procs' = procs \ {p}
  /\ UNCHANGED <<channel, worker, bridge, session, tree, pipe, receipt, out>>

-----------------------------------------------------------------------------
\* The session bridge and its ACP driver.

BridgeGoes(pc) == bridge' = [bridge EXCEPT !.pc = pc]
Live == bridge.pc \notin {"none", "gone"}

\* The persona, the native type, the channel, the nonce and the attestation
\* are checked; a terminal message's path is checked before the session starts.
CheckLaunch ==
  /\ bridge.pc = "boot"
  /\ BridgeGoes("driver")
  /\ UNCHANGED <<channel, worker, procs, session, tree, pipe, receipt, out>>

\* The vendor gets an environment and an empty private home of this launch, and
\* nothing of the host's.
PrivateHome ==
  /\ bridge.pc = "driver"
  /\ BridgeGoes("home")
  /\ UNCHANGED <<channel, worker, procs, session, tree, pipe, receipt, out>>

LaunchVendor ==
  /\ bridge.pc = "home"
  /\ BridgeGoes("initialize") /\ procs' = procs \cup {"vendor"}
  /\ UNCHANGED <<channel, worker, session, tree, pipe, receipt, out>>

Answered ==
  /\ Up /\ bridge.pc \in {"initialize", "new", "mode"}
  /\ BridgeGoes(CASE bridge.pc = "initialize" -> "new"
                  [] bridge.pc = "new" -> "mode"
                  [] bridge.pc = "mode" -> "prompt")
  /\ UNCHANGED <<channel, worker, procs, session, tree, pipe, receipt, out>>

\* What the updates say: which calls are Agents, their inputs, which completed.
Told(c, fact) == [call |-> c, fact |-> fact] \in updates
Agents == {c \in Calls : Told(c, "call") /\ calls[c].tool = "Agent"}
Swarms == {c \in Calls : Told(c, "call") /\ calls[c].tool = "AgentSwarm"}
Completed(c) == Told(c, "status") /\ calls[c].status = "completed"

\* Mutant: any call that completed will do.
OneChildAnyEnd ==
  /\ Swarms = {} /\ Cardinality(Agents) = 1
  /\ \A c \in Agents : Told(c, "input") /\ calls[c].input.nonce /\ calls[c].input.type
  /\ \E c \in Calls : Completed(c)

OneChild ==
  /\ Swarms = {} /\ Cardinality(Agents) = 1
  /\ \A c \in Agents :
       Told(c, "input") /\ calls[c].input.nonce /\ calls[c].input.type /\ Completed(c)

\* The prompt's response ends the turn; what it proves is read from the updates
\* that came before it.
PromptAnswered ==
  /\ Talking
  /\ bridge' = [bridge EXCEPT
       !.pc = IF OneChild /\ channel = "terminal-message" THEN "sink" ELSE "closing",
       !.good = OneChild]
  /\ UNCHANGED <<channel, worker, procs, session, tree, pipe, receipt, out>>

\* The driver writes the relayed message itself, to a new file, if there is any.
Materialize ==
  /\ bridge.pc = "sink"
  /\ \/ tree = "none" /\ tree' = "relay" /\ BridgeGoes("closing")
     \/ tree' = tree /\ bridge' = [bridge EXCEPT !.pc = "closing", !.good = FALSE]
  /\ UNCHANGED <<channel, worker, procs, session, pipe, receipt, out>>

\* An error response, a reverse request, a malformed or oversized message, the
\* deadline, the end of the vendor's output, or a failure to start it.
BridgeFails ==
  /\ bridge.pc \in {"boot", "driver", "home", "initialize", "new", "mode", "prompt"}
  /\ bridge' = [bridge EXCEPT !.pc = "closing", !.good = FALSE]
  /\ UNCHANGED <<channel, worker, procs, session, tree, pipe, receipt, out>>

\* The driver closes the vendor's input, waits two seconds, leaves the vendor
\* to the supervisor and removes the vendor's private state, or fails to.
CloseSession ==
  /\ bridge.pc = "closing"
  /\ \/ bridge.good /\ BridgeGoes("hash")
     \/ bridge' = [bridge EXCEPT !.pc = "gone", !.good = FALSE]
  /\ UNCHANGED <<channel, worker, procs, session, tree, pipe, receipt, out>>

HashArtifact ==
  /\ bridge.pc = "hash"
  /\ \/ tree # "none" /\ bridge' = [bridge EXCEPT !.pc = "result", !.digest = tree]
     \/ tree = "none" /\ bridge' = [bridge EXCEPT !.pc = "gone", !.good = FALSE]
  /\ UNCHANGED <<channel, worker, procs, session, tree, pipe, receipt, out>>

WriteResult ==
  /\ bridge.pc = "result"
  /\ pipe' = pipe \cup {bridge.digest}
  /\ BridgeGoes("gone")
  /\ UNCHANGED <<channel, worker, procs, session, tree, receipt, out>>

-----------------------------------------------------------------------------
\* The supervisor.

WorkerGoes(pc) == worker' = [worker EXCEPT !.pc = pc]

\* The layout, the envelope's role and the target are checked, and the vendor's
\* environment and state directories are made, which must not be there yet.
Prepare ==
  /\ worker.pc = "start"
  /\ \/ WorkerGoes("prepared") \/ WorkerGoes("failed")
  /\ UNCHANGED <<channel, bridge, procs, session, tree, pipe, receipt, out>>

\* The pipe is made and the bridge started in a session of its own.
Spawn ==
  /\ worker.pc = "prepared"
  /\ \/ WorkerGoes("spawned") /\ BridgeGoes("boot")
     \/ WorkerGoes("failed") /\ bridge' = bridge
  /\ UNCHANGED <<channel, procs, session, tree, pipe, receipt, out>>

OwnGroup ==
  /\ worker.pc = "spawned"
  /\ WorkerGoes("waiting")
  /\ UNCHANGED <<channel, bridge, procs, session, tree, pipe, receipt, out>>

BridgeOver ==
  /\ worker.pc = "waiting" /\ bridge.pc = "gone"
  /\ worker' = [worker EXCEPT !.pc = "reaping", !.exit = IF bridge.good THEN "ok" ELSE "bad"]
  /\ UNCHANGED <<channel, bridge, procs, session, tree, pipe, receipt, out>>

\* Mutant: the wait for the bridge has no deadline.
WaitUnbounded ==
  /\ worker.pc = "waiting" /\ bridge.pc = "gone"
  /\ worker' = [worker EXCEPT !.pc = "reaping", !.exit = "bad"]
  /\ UNCHANGED <<channel, bridge, procs, session, tree, pipe, receipt, out>>

TimeOut ==
  /\ worker.pc = "waiting"
  /\ worker' = [worker EXCEPT !.pc = "reaping", !.exit = "bad"]
  /\ UNCHANGED <<channel, bridge, procs, session, tree, pipe, receipt, out>>

\* Mutant: only the leaders are killed, not the group.
ReapLeader ==
  /\ worker.pc = "reaping"
  /\ bridge' = [bridge EXCEPT !.pc = "gone"] /\ procs' = procs \ {"vendor"}
  /\ WorkerGoes(IF worker.exit = "ok" THEN "reading" ELSE "failed")
  /\ UNCHANGED <<channel, session, tree, pipe, receipt, out>>

\* The whole group is terminated, then killed, and seen to be gone.
Reap ==
  /\ worker.pc = "reaping"
  /\ bridge' = [bridge EXCEPT !.pc = "gone"] /\ procs' = procs \cap {"stray"}
  /\ WorkerGoes(IF worker.exit = "ok" THEN "reading" ELSE "failed")
  /\ UNCHANGED <<channel, session, tree, pipe, receipt, out>>

ReadPipe ==
  /\ worker.pc = "reading"
  /\ WorkerGoes(IF pipe = {} THEN "failed" ELSE "checking")
  /\ UNCHANGED <<channel, bridge, procs, session, tree, pipe, receipt, out>>

\* The result must be of this launch, and its digest that of the artifact now.
CheckResult ==
  /\ worker.pc = "checking"
  /\ \/ tree \in pipe /\ WorkerGoes("creating")
     \/ WorkerGoes("failed")
  /\ UNCHANGED <<channel, bridge, procs, session, tree, pipe, receipt, out>>

CreateReceipt ==
  /\ worker.pc = "creating" /\ receipt = NoReceipt
  /\ receipt' = {[whole |-> FALSE, digest |-> d] : d \in pipe}
  /\ WorkerGoes("filling")
  /\ UNCHANGED <<channel, bridge, procs, session, tree, pipe, out>>

FillReceipt ==
  /\ worker.pc = "filling"
  /\ receipt' = {[r EXCEPT !.whole = TRUE] : r \in receipt}
  /\ WorkerGoes("done")
  /\ UNCHANGED <<channel, bridge, procs, session, tree, pipe, out>>

\* SIGTERM: once the handlers are in place the group is reaped first.
Cancel ==
  /\ worker.pc \in {"spawned", "waiting", "reaping", "reading", "checking", "creating", "filling"}
  /\ WorkerGoes("failed")
  /\ IF worker.pc = "spawned" THEN UNCHANGED <<bridge, procs>>
     ELSE bridge' = [bridge EXCEPT !.pc = "gone"] /\ procs' = procs \cap {"stray"}
  /\ UNCHANGED <<channel, session, tree, pipe, receipt, out>>

-----------------------------------------------------------------------------
\* The unit: it ends with the supervisor, or at RuntimeMaxSec, or when the
\* provider kills it, and takes every process of its cgroup with it.

EndUnit ==
  /\ ~worker.over
  /\ worker' = [worker EXCEPT !.over = TRUE, !.pc = IF Ended THEN @ ELSE "failed"]
  /\ bridge' = [bridge EXCEPT !.pc = "gone"] /\ procs' = {}
  /\ UNCHANGED <<channel, session, tree, pipe, receipt, out>>

\* The provider asks for the copy-out once the worker's unit has succeeded; the
\* copy-out refuses a tree without the artifact.
Copyout ==
  /\ worker.over /\ worker.pc = "done" /\ out = {} /\ tree # "none"
  /\ out' = {[artifact |-> tree, receipt |-> r] : r \in receipt}
  /\ UNCHANGED <<channel, worker, bridge, procs, session, tree, pipe, receipt>>

-----------------------------------------------------------------------------
VendorStep ==
  \/ \E c \in Calls, tool \in {"Agent", "AgentSwarm", "other"},
        i \in Inputs \cup {NoCall.input} : CallTool(c, tool, i)
  \/ \E c \in Calls : TellInput(c)
  \/ \E c \in Calls, s \in {"completed", "failed"} : EndCall(c, s)
  \/ ChildWrites
  \/ \E p \in Proc : Writes(p) \/ Forks(p) \/ Exits(p)
BridgeStep ==
  \/ CheckLaunch \/ PrivateHome \/ LaunchVendor \/ Answered \/ PromptAnswered \/ Materialize \/ BridgeFails
  \/ CloseSession \/ HashArtifact \/ WriteResult
WorkerStep ==
  \/ Prepare \/ Spawn \/ OwnGroup \/ BridgeOver \/ TimeOut \/ Reap \/ ReadPipe \/ CheckResult
  \/ CreateReceipt \/ FillReceipt

Next == VendorStep \/ BridgeStep \/ WorkerStep \/ Cancel \/ EndUnit \/ Copyout

Spec == Init /\ [][Next]_vars

\* The supervisor runs; nothing is asked of the bridge or of the vendor.
FairSpec == Spec /\ WF_vars(WorkerStep)

-----------------------------------------------------------------------------
\* A receipt that is there proves its session: exactly one native agent, given
\* the launch's nonce and the persona's type, that completed, and no swarm,
\* among all the calls the vendor made before it ended the turn
\* (run_acp_native_agent reads it off updates that tell a piece each).
ReceiptProvesOneChild ==
  receipt # {} =>
    /\ \A c \in Calls : calls[c].tool # "AgentSwarm"
    /\ \E c \in Calls :
         /\ calls[c] = [tool |-> "Agent", input |-> [nonce |-> TRUE, type |-> TRUE],
                        status |-> "completed"]
         /\ \A d \in Calls \ {c} : calls[d].tool # "Agent"

\* From the moment a receipt exists nothing of the bridge's group is alive, and
\* the artifact is the one the receipt certifies and the one that is copied
\* out, unless a process left the group (reap_group says the cgroup contains
\* it; the provider compares the digests again).
ReceiptIsFinal ==
  receipt # {} =>
    /\ Group = {}
    /\ tree = "stray" \/ \A r \in receipt : r.digest = tree
    /\ \A o \in out : o.artifact = "stray" \/ o.artifact = o.receipt.digest

\* The supervisor ends, whatever the bridge and the vendor do: its wait has a
\* deadline and it kills what is left of the group.
WorkerEnds == <>Ended

=============================================================================
