----------------------------- MODULE GuestProofs -----------------------------
(***************************************************************************)
(* Proofs about Guest, for any number of tool calls and whatever the       *)
(* vendor's processes do.                                                  *)
(***************************************************************************)
EXTENDS Guest, FiniteSetTheorems, TLAPS

\* The session had exactly one native agent, which completed, and no swarm.
Proven ==
  /\ \A c \in Calls : calls[c].tool # "AgentSwarm"
  /\ \E c \in Calls :
       /\ calls[c] = [tool |-> "Agent", input |-> [nonce |-> TRUE, type |-> TRUE],
                      status |-> "completed"]
       /\ \A d \in Calls \ {c} : calls[d].tool # "Agent"

\* No call escapes the bridge: its update is there as soon as it is.
AllTold == \A c \in Calls : calls[c].tool # "none" => Told(c, "call")

\* The bridge goes on only from a session it has proven.
Evidence ==
  \/ bridge.pc \in {"sink", "hash", "result"}
  \/ bridge.pc = "closing" /\ bridge.good
  \/ pipe # {}
  => Proven

\* One result is written, and the bridge is gone then, not to come back.
OneResult ==
  /\ pipe # {} => pipe = {bridge.digest} /\ bridge.pc = "gone"
  /\ worker.pc \in {"start", "prepared"} => bridge.pc = "none" /\ pipe = {}

\* Nobody who could start anything in the group is left.
Alone == bridge.pc = "gone" /\ procs \subseteq {"stray"}
Reaped ==
  worker.pc \in {"reading", "checking", "creating", "filling", "done"} \/ receipt # {} => Alone

\* The receipt carries the result, and the tree is what the result says from
\* the moment the supervisor has compared them.
Certifies ==
  /\ worker.pc \in {"checking", "creating"} => pipe # {}
  /\ worker.pc = "filling" => receipt # {}
  /\ receipt # {} => pipe # {}
  /\ \A r \in receipt : r.digest \in pipe
  /\ worker.pc = "creating" \/ receipt # {} => tree = "stray" \/ tree \in pipe

Copied == \A o \in out : o.artifact = "stray" \/ o.artifact = o.receipt.digest

IInv == TypeOK /\ AllTold /\ Evidence /\ OneResult /\ Reaped /\ Certifies /\ Copied

-----------------------------------------------------------------------------
\* The steps of the vendor's processes.

\* While the session lasts nothing is proven and nothing has been written.
LEMMA InSession ==
  ASSUME IInv, bridge.pc = "prompt"
  PROVE  pipe = {} /\ receipt = {} /\ worker.pc \notin {"creating", "filling"}
  BY DEF IInv, OneResult, Certifies, NoReceipt

LEMMA CallToolStep ==
  ASSUME IInv, NEW c \in Calls, NEW tool \in {"Agent", "AgentSwarm", "other"},
         NEW i \in Inputs \cup {NoCall.input}, CallTool(c, tool, i)
  PROVE  IInv'
<1>1. i \in [nonce : BOOLEAN, type : BOOLEAN]
  <2>1. NoCall.input \in [nonce : BOOLEAN, type : BOOLEAN]
    BY DEF NoCall
  <2>2. Inputs \subseteq [nonce : BOOLEAN, type : BOOLEAN]
    BY GuestAssumption
  <2> QED
    BY <2>1, <2>2
<1>2. bridge.pc = "prompt"
  BY DEF CallTool, Talking
<1>3. TypeOK'
  BY <1>1 DEF IInv, TypeOK, CallTool, Call, Update
<1>4. AllTold'
  BY DEF IInv, AllTold, CallTool, Told, TypeOK
<1>5. Evidence' /\ OneResult' /\ Reaped' /\ Certifies' /\ Copied'
  BY <1>2, InSession DEF IInv, Evidence, OneResult, Reaped, Alone, Certifies, Copied, CallTool
<1> QED
  BY <1>3, <1>4, <1>5 DEF IInv

LEMMA TellInputStep ==
  ASSUME IInv, NEW c \in Calls, TellInput(c) PROVE IInv'
<1>1. bridge.pc = "prompt"
  BY DEF TellInput, Talking
<1>2. TypeOK'
  BY DEF IInv, TypeOK, TellInput, Update
<1>3. AllTold'
  BY DEF IInv, AllTold, TellInput, Told
<1>4. Evidence' /\ OneResult' /\ Reaped' /\ Certifies' /\ Copied'
  BY <1>1, InSession DEF IInv, Evidence, OneResult, Reaped, Alone, Certifies, Copied, TellInput
<1> QED
  BY <1>2, <1>3, <1>4 DEF IInv

LEMMA EndCallStep ==
  ASSUME IInv, NEW c \in Calls, NEW s \in {"completed", "failed"}, EndCall(c, s) PROVE IInv'
<1>1. bridge.pc = "prompt"
  BY DEF EndCall, Talking
<1>2. TypeOK'
  BY DEF IInv, TypeOK, EndCall, Call, Update
<1>3. AllTold'
  BY DEF IInv, AllTold, EndCall, Told, TypeOK, Call
<1>4. Evidence' /\ OneResult' /\ Reaped' /\ Certifies' /\ Copied'
  BY <1>1, InSession DEF IInv, Evidence, OneResult, Reaped, Alone, Certifies, Copied, EndCall
<1> QED
  BY <1>2, <1>3, <1>4 DEF IInv

\* Who writes once the result is compared has left the group.
LEMMA WritesStep ==
  ASSUME IInv, ChildWrites \/ (\E p \in Proc : Writes(p)) PROVE IInv'
<1>1. /\ tree' \in {"child"} \cup Proc /\ (Alone => tree' = "stray")
      /\ UNCHANGED <<channel, worker, bridge, procs, session, pipe, receipt, out>>
  BY DEF ChildWrites, Writes, Up, Alone
<1>2. TypeOK'
  BY <1>1 DEF IInv, TypeOK, session, Artifact, Proc
<1>3. AllTold' /\ Evidence' /\ OneResult' /\ Reaped'
  BY <1>1 DEF IInv, AllTold, Told, Evidence, Proven, OneResult, Reaped, Alone, session
<1>4. worker.pc = "creating" \/ receipt # {} => Alone
  BY DEF IInv, Reaped
<1>5. Certifies' /\ Copied'
  BY <1>1, <1>4 DEF IInv, Certifies, Copied
<1> QED
  BY <1>2, <1>3, <1>5 DEF IInv

\* Only the vendor's own process starts others.
LEMMA ProcessStep ==
  ASSUME IInv, NEW p \in Proc, Forks(p) \/ Exits(p) PROVE IInv'
<1>1. /\ procs' \subseteq Proc /\ (Alone => procs' \subseteq procs)
      /\ UNCHANGED <<channel, worker, bridge, session, tree, pipe, receipt, out>>
  BY DEF IInv, TypeOK, Forks, Exits, Up, Alone
<1>2. TypeOK'
  BY <1>1 DEF IInv, TypeOK, session
<1>3. AllTold' /\ Evidence' /\ OneResult'
  BY <1>1 DEF IInv, AllTold, Told, Evidence, Proven, OneResult, session
<1>4. Reaped'
  BY <1>1 DEF IInv, Reaped, Alone
<1>5. Certifies' /\ Copied'
  BY <1>1 DEF IInv, Certifies, Copied
<1> QED
  BY <1>2, <1>3, <1>4, <1>5 DEF IInv

-----------------------------------------------------------------------------
\* The steps of the session bridge.

\* The bridge moves on while it lives and leaves no result behind.
LEMMA BridgeMoves ==
  ASSUME IInv, bridge.pc \notin {"none", "gone"},
         bridge' \in [pc : BridgePc, good : BOOLEAN, digest : Artifact],
         procs' \subseteq Proc, tree' \in Artifact,
         bridge'.pc \in {"sink", "hash", "result"} \/ (bridge'.pc = "closing" /\ bridge'.good) => Proven,
         UNCHANGED <<channel, worker, session, pipe, receipt, out>>
  PROVE  IInv'
<1>1. /\ pipe = {} /\ receipt = {} /\ worker.pc \notin {"start", "prepared"}
      /\ worker.pc \notin {"reading", "checking", "creating", "filling", "done"}
  BY DEF IInv, OneResult, Reaped, Alone, Certifies
<1>2. TypeOK'
  BY DEF IInv, TypeOK, session
<1>3. AllTold' /\ (Proven => Proven')
  BY DEF IInv, AllTold, Told, Proven, session
<1>4. Evidence'
  BY <1>1, <1>3 DEF Evidence
<1>5. OneResult' /\ Reaped' /\ Certifies' /\ Copied'
  BY <1>1 DEF IInv, OneResult, Reaped, Certifies, Copied
<1> QED
  BY <1>2, <1>3, <1>4, <1>5 DEF IInv

\* One child, as the updates tell it, is one child.
LEMMA TheUpdatesProve ==
  ASSUME IInv, OneChild PROVE Proven
<1>1. IsFiniteSet(Agents)
  BY GuestAssumption, FS_Subset DEF Agents
<1>2. PICK c : Agents = {c}
  BY <1>1, FS_Singleton DEF OneChild
<1>3. c \in Calls /\ calls[c] \in Call /\ calls[c].tool = "Agent"
  BY <1>2 DEF Agents, IInv, TypeOK
<1>4. calls[c].input.nonce /\ calls[c].input.type /\ calls[c].status = "completed"
  BY <1>2 DEF OneChild, Completed
<1>5. calls[c].input = [nonce |-> TRUE, type |-> TRUE]
  BY <1>3, <1>4 DEF Call
<1>6. calls[c] = [tool |-> "Agent", input |-> [nonce |-> TRUE, type |-> TRUE], status |-> "completed"]
  BY <1>3, <1>4, <1>5 DEF Call
<1>7. \A d \in Calls \ {c} : calls[d].tool # "Agent"
  BY <1>2 DEF Agents, IInv, AllTold
<1>8. \A d \in Calls : calls[d].tool # "AgentSwarm"
  BY DEF OneChild, Swarms, IInv, AllTold
<1> QED
  BY <1>3, <1>6, <1>7, <1>8 DEF Proven

LEMMA BridgeSteps ==
  ASSUME IInv, BridgeStep PROVE IInv'
<1>1. /\ bridge \in [pc : BridgePc, good : BOOLEAN, digest : Artifact]
      /\ procs \subseteq Proc /\ tree \in Artifact
  BY DEF IInv, TypeOK
<1>2. CASE CheckLaunch \/ PrivateHome \/ LaunchVendor \/ Answered \/ BridgeFails
  <2>1. /\ bridge.pc \notin {"none", "gone"}
        /\ bridge' \in [pc : BridgePc, good : BOOLEAN, digest : Artifact]
        /\ bridge'.pc \in {"driver", "home", "initialize", "new", "mode", "prompt", "closing"}
        /\ bridge'.pc = "closing" => ~bridge'.good
        /\ procs' \subseteq Proc /\ tree' = tree
        /\ UNCHANGED <<channel, worker, session, pipe, receipt, out>>
    BY <1>1, <1>2 DEF CheckLaunch, PrivateHome, LaunchVendor, Answered, BridgeFails, BridgeGoes,
                      BridgePc, Proc
  <2> QED
    BY <1>1, <2>1, BridgeMoves
<1>3. CASE PromptAnswered
  <2>1. /\ bridge.pc = "prompt" /\ bridge'.pc \in {"sink", "closing"}
        /\ bridge' \in [pc : BridgePc, good : BOOLEAN, digest : Artifact]
        /\ bridge'.pc = "sink" => OneChild
        /\ bridge'.good => OneChild
    <3> DEFINE pc == IF OneChild /\ channel = "terminal-message" THEN "sink" ELSE "closing"
               good == OneChild
    <3>1. pc \in {"sink", "closing"} /\ (pc = "sink" => OneChild) /\ (good <=> OneChild)
      OBVIOUS
    <3>2. good \in BOOLEAN
      BY DEF OneChild
    <3>3. bridge' = [bridge EXCEPT !.pc = pc, !.good = good] /\ bridge.pc = "prompt"
      BY <1>3 DEF PromptAnswered, Talking
    <3> HIDE DEF pc, good
    <3> QED
      BY <1>1, <3>1, <3>2, <3>3 DEF BridgePc
  <2> QED
    BY <1>1, <1>3, <2>1, TheUpdatesProve, BridgeMoves DEF PromptAnswered
<1>4. CASE Materialize \/ CloseSession \/ HashArtifact
  <2>1. /\ bridge.pc \in {"sink", "closing", "hash"}
        /\ bridge' \in [pc : BridgePc, good : BOOLEAN, digest : Artifact]
        /\ tree' \in Artifact /\ procs' = procs
        /\ bridge'.pc \in {"hash", "result"} \/ (bridge'.pc = "closing" /\ bridge'.good) =>
             bridge.pc \in {"sink", "hash"} \/ (bridge.pc = "closing" /\ bridge.good)
        /\ bridge'.pc # "sink"
        /\ UNCHANGED <<channel, worker, session, pipe, receipt, out>>
    BY <1>1, <1>4 DEF Materialize, CloseSession, HashArtifact, BridgeGoes, BridgePc, Artifact
  <2>2. bridge.pc \in {"sink", "hash"} \/ (bridge.pc = "closing" /\ bridge.good) => Proven
    BY DEF IInv, Evidence
  <2> QED
    BY <1>1, <2>1, <2>2, BridgeMoves
<1>5. CASE WriteResult
  <2>1. /\ pipe = {} /\ receipt = {} /\ worker.pc \notin {"start", "prepared"}
        /\ worker.pc \notin {"reading", "checking", "creating", "filling", "done"}
        /\ Proven
    BY <1>5 DEF IInv, Evidence, OneResult, Reaped, Alone, Certifies, WriteResult
  <2>2. /\ bridge' \in [pc : BridgePc, good : BOOLEAN, digest : Artifact]
        /\ bridge'.pc = "gone" /\ bridge'.digest = bridge.digest /\ pipe' = {bridge.digest}
    BY <1>1, <1>5, <2>1 DEF WriteResult, BridgeGoes, BridgePc
  <2>3. TypeOK'
    BY <1>1, <1>5, <2>2 DEF IInv, TypeOK, session, WriteResult
  <2>4. AllTold' /\ Proven'
    BY <1>5, <2>1 DEF IInv, AllTold, Told, Proven, session, WriteResult
  <2>5. Evidence'
    BY <2>4 DEF Evidence
  <2>6. OneResult' /\ Reaped' /\ Certifies' /\ Copied'
    BY <1>5, <2>1, <2>2 DEF IInv, OneResult, Reaped, Certifies, Copied, WriteResult
  <2> QED
    BY <2>3, <2>4, <2>5, <2>6 DEF IInv
<1> QED
  BY <1>2, <1>3, <1>4, <1>5 DEF BridgeStep

-----------------------------------------------------------------------------
\* The steps of the supervisor and of its unit.

\* The supervisor moves on, and may take the group down.
LEMMA WorkerMoves ==
  ASSUME IInv,
         worker' \in [pc : WorkerPc, exit : {"none", "ok", "bad"}, over : BOOLEAN],
         worker'.pc # "start", worker'.pc = "prepared" => worker.pc = "start",
         \/ UNCHANGED <<bridge, procs>>
         \/ /\ bridge' = [bridge EXCEPT !.pc = "gone"] /\ procs' \subseteq procs \cap {"stray"}
            /\ worker'.pc # "prepared",
         worker'.pc \in {"reading", "checking", "creating", "filling", "done"} => Alone',
         worker'.pc \in {"checking", "creating"} => pipe # {},
         worker'.pc = "creating" => tree = "stray" \/ tree \in pipe,
         worker'.pc = "filling" => receipt # {},
         worker'.pc = "done" => \E r \in receipt : r.whole,
         UNCHANGED <<channel, session, tree, pipe, receipt, out>>
  PROVE  IInv'
<1>1. TypeOK'
  BY DEF IInv, TypeOK, session, BridgePc
<1>2. AllTold' /\ (Proven => Proven')
  BY DEF IInv, AllTold, Told, Proven, session
<1>3. Evidence'
  BY <1>2 DEF IInv, TypeOK, Evidence
<1>4. OneResult'
  BY DEF IInv, TypeOK, OneResult
<1>5. Reaped'
  BY DEF IInv, TypeOK, Reaped, Alone
<1>6. Certifies' /\ Copied'
  BY DEF IInv, Certifies, Copied
<1> QED
  BY <1>1, <1>2, <1>3, <1>4, <1>5, <1>6 DEF IInv

LEMMA WorkerSteps ==
  ASSUME IInv, WorkerStep PROVE IInv'
<1>1. /\ worker \in [pc : WorkerPc, exit : {"none", "ok", "bad"}, over : BOOLEAN]
      /\ bridge \in [pc : BridgePc, good : BOOLEAN, digest : Artifact]
      /\ procs \subseteq Proc /\ tree \in Artifact /\ pipe \subseteq Artifact
      /\ receipt \subseteq Receipt
  BY DEF IInv, TypeOK
<1>2. CASE Prepare
  BY <1>1, <1>2, WorkerMoves DEF Prepare, WorkerGoes, WorkerPc
<1>3. CASE Spawn
  <2>1. /\ worker.pc = "prepared" /\ bridge.pc = "none" /\ pipe = {} /\ receipt = {}
    BY <1>3 DEF Spawn, IInv, OneResult, Certifies
  <2>2. /\ worker'.pc \in {"spawned", "failed"}
        /\ worker' \in [pc : WorkerPc, exit : {"none", "ok", "bad"}, over : BOOLEAN]
        /\ bridge' \in [pc : BridgePc, good : BOOLEAN, digest : Artifact]
        /\ bridge'.pc \in {"none", "boot"}
    BY <1>1, <1>3, <2>1 DEF Spawn, WorkerGoes, BridgeGoes, WorkerPc, BridgePc
  <2>3. TypeOK' /\ AllTold'
    BY <1>3, <2>2 DEF IInv, TypeOK, session, AllTold, Told, Spawn
  <2>4. Evidence' /\ OneResult' /\ Reaped' /\ Certifies' /\ Copied'
    BY <1>3, <2>1, <2>2 DEF IInv, Evidence, OneResult, Reaped, Certifies, Copied, Spawn
  <2> QED
    BY <2>3, <2>4 DEF IInv
<1>4. CASE OwnGroup \/ BridgeOver \/ TimeOut
  <2>1. /\ worker'.pc \in {"waiting", "reaping"}
        /\ worker' \in [pc : WorkerPc, exit : {"none", "ok", "bad"}, over : BOOLEAN]
        /\ UNCHANGED <<channel, bridge, procs, session, tree, pipe, receipt, out>>
    BY <1>1, <1>4 DEF OwnGroup, BridgeOver, TimeOut, WorkerGoes, WorkerPc
  <2> QED
    BY <2>1, WorkerMoves
<1>5. CASE Reap
  <2>1. /\ worker'.pc \in {"reading", "failed"}
        /\ worker' \in [pc : WorkerPc, exit : {"none", "ok", "bad"}, over : BOOLEAN]
    BY <1>1, <1>5 DEF Reap, WorkerGoes, WorkerPc
  <2>2. Alone'
    BY <1>1, <1>5 DEF Reap, Alone
  <2> QED
    BY <1>5, <2>1, <2>2, WorkerMoves DEF Reap
<1>6. CASE ReadPipe \/ CheckResult
  <2>1. /\ worker'.pc \in {"failed", "checking", "creating"}
        /\ worker' \in [pc : WorkerPc, exit : {"none", "ok", "bad"}, over : BOOLEAN]
        /\ worker'.pc \in {"checking", "creating"} => pipe # {}
        /\ worker'.pc = "creating" => tree \in pipe
        /\ worker.pc \in {"reading", "checking"}
        /\ UNCHANGED <<channel, bridge, procs, session, tree, pipe, receipt, out>>
    BY <1>1, <1>6 DEF ReadPipe, CheckResult, WorkerGoes, WorkerPc
  <2>2. Alone'
    BY <2>1 DEF IInv, Reaped, Alone
  <2> QED
    BY <2>1, <2>2, WorkerMoves
<1>7. CASE CreateReceipt
  <2>1. /\ worker.pc = "creating" /\ worker'.pc = "filling" /\ pipe # {} /\ Alone
        /\ worker' \in [pc : WorkerPc, exit : {"none", "ok", "bad"}, over : BOOLEAN]
        /\ tree = "stray" \/ tree \in pipe
    BY <1>1, <1>7 DEF CreateReceipt, WorkerGoes, WorkerPc, IInv, Certifies, Reaped
  <2>2. /\ receipt' \subseteq Receipt /\ receipt' # {} /\ \A r \in receipt' : r.digest \in pipe
    <3>1. receipt' = {[whole |-> FALSE, digest |-> d] : d \in pipe}
      BY <1>7 DEF CreateReceipt
    <3>2. receipt' # {}
      <4>1. PICK d \in pipe : TRUE
        BY <2>1
      <4>2. [whole |-> FALSE, digest |-> d] \in receipt'
        BY <3>1
      <4> QED
        BY <4>2
    <3>3. ASSUME NEW r \in receipt' PROVE r \in Receipt /\ r.digest \in pipe
      <4>1. PICK d \in pipe : r = [whole |-> FALSE, digest |-> d]
        BY <3>1, <3>3
      <4>2. d \in Artifact
        BY <1>1
      <4> QED
        BY <4>1, <4>2 DEF Receipt
    <3> QED
      BY <3>2, <3>3
  <2>3. TypeOK' /\ AllTold' /\ (Proven => Proven')
    BY <1>7, <2>1, <2>2 DEF IInv, TypeOK, session, AllTold, Told, Proven, CreateReceipt
  <2>4. Evidence' /\ OneResult' /\ Reaped'
    BY <1>7, <2>1, <2>3 DEF IInv, Evidence, OneResult, Reaped, Alone, CreateReceipt
  <2>5. Certifies' /\ Copied'
    BY <1>7, <2>1, <2>2 DEF IInv, Certifies, Copied, CreateReceipt
  <2> QED
    BY <2>3, <2>4, <2>5 DEF IInv
<1>8. CASE FillReceipt
  <2>1. /\ worker.pc = "filling" /\ worker'.pc = "done" /\ receipt # {} /\ Alone
        /\ worker' \in [pc : WorkerPc, exit : {"none", "ok", "bad"}, over : BOOLEAN]
        /\ tree = "stray" \/ tree \in pipe
    BY <1>1, <1>8 DEF FillReceipt, WorkerGoes, WorkerPc, IInv, Certifies, Reaped
  <2>2. \A r \in receipt' : r \in Receipt /\ r.whole /\ r.digest \in pipe
    <3>1. ASSUME NEW r \in receipt' PROVE r \in Receipt /\ r.whole /\ r.digest \in pipe
      <4>1. PICK q \in receipt : r = [q EXCEPT !.whole = TRUE]
        BY <1>8, <3>1 DEF FillReceipt
      <4>2. q \in Receipt /\ q.digest \in pipe
        BY <1>1 DEF IInv, Certifies
      <4> QED
        BY <4>1, <4>2 DEF Receipt
    <3> QED
      BY <3>1
  <2>3. receipt' # {}
    <3>1. receipt' = {[r EXCEPT !.whole = TRUE] : r \in receipt}
      BY <1>8 DEF FillReceipt
    <3>2. PICK r : r \in receipt
      BY <2>1
    <3>3. [r EXCEPT !.whole = TRUE] \in receipt'
      BY <3>1, <3>2
    <3> QED
      BY <3>3
  <2>4. TypeOK' /\ AllTold' /\ (Proven => Proven')
    BY <1>8, <2>1, <2>2, <2>3 DEF IInv, TypeOK, session, AllTold, Told, Proven, FillReceipt
  <2>5. Evidence' /\ OneResult' /\ Reaped'
    BY <1>8, <2>1, <2>4 DEF IInv, Evidence, OneResult, Reaped, Alone, FillReceipt
  <2>6. Certifies' /\ Copied'
    BY <1>8, <2>1, <2>2, <2>3 DEF IInv, Certifies, Copied, FillReceipt
  <2> QED
    BY <2>4, <2>5, <2>6 DEF IInv
<1> QED
  BY <1>2, <1>3, <1>4, <1>5, <1>6, <1>7, <1>8 DEF WorkerStep

LEMMA UnitSteps ==
  ASSUME IInv, Cancel \/ EndUnit PROVE IInv'
<1>1. /\ worker \in [pc : WorkerPc, exit : {"none", "ok", "bad"}, over : BOOLEAN]
      /\ worker.pc = "done" => \E r \in receipt : r.whole
      /\ procs \subseteq Proc
  BY DEF IInv, TypeOK
<1>2. /\ worker'.pc \in {"done", "failed"} /\ (worker'.pc = "done" => worker.pc = "done")
      /\ worker' \in [pc : WorkerPc, exit : {"none", "ok", "bad"}, over : BOOLEAN]
      /\ \/ UNCHANGED <<bridge, procs>>
         \/ bridge' = [bridge EXCEPT !.pc = "gone"] /\ procs' \subseteq procs \cap {"stray"}
      /\ UNCHANGED <<channel, session, tree, pipe, receipt, out>>
  BY <1>1 DEF Cancel, EndUnit, WorkerGoes, WorkerPc, Ended
<1>3. worker'.pc = "done" => Alone'
  BY <1>1, <1>2 DEF IInv, TypeOK, Reaped, Alone
<1> QED
  BY <1>1, <1>2, <1>3, WorkerMoves

\* What is copied out is what lies there, with the receipt that lies there.
LEMMA CopyoutStep ==
  ASSUME IInv, Copyout PROVE IInv'
<1>1. /\ receipt \subseteq Receipt /\ tree \in Artifact
      /\ \A r \in receipt : tree = "stray" \/ r.digest = tree
  BY DEF IInv, TypeOK, OneResult, Certifies
<1>2. \A o \in out' : /\ o \in [artifact : Artifact, receipt : Receipt]
                      /\ o.artifact = "stray" \/ o.artifact = o.receipt.digest
  BY <1>1 DEF Copyout
<1>3. TypeOK' /\ Copied'
  BY <1>2 DEF IInv, TypeOK, session, Copied, Copyout
<1>4. AllTold' /\ Evidence' /\ OneResult' /\ Reaped' /\ Certifies'
  BY DEF IInv, AllTold, Told, Evidence, Proven, OneResult, Reaped, Alone, Certifies, session, Copyout
<1> QED
  BY <1>3, <1>4 DEF IInv

-----------------------------------------------------------------------------
LEMMA IInvInit == Init => IInv
<1> SUFFICES ASSUME Init PROVE IInv
  OBVIOUS
<1> USE DEF Init, NoReceipt
<1>1. TypeOK
  <2>1. calls \in [Calls -> Call] /\ \A c \in Calls : calls[c].tool = "none"
    BY DEF NoCall, Call
  <2> QED
    BY <2>1 DEF TypeOK, WorkerPc, BridgePc, Artifact
<1>2. AllTold
  BY DEF AllTold, NoCall
<1> QED
  BY <1>1, <1>2 DEF IInv, Evidence, OneResult, Reaped, Certifies, Copied

LEMMA IInvInduction == IInv /\ [Next]_vars => IInv'
<1> SUFFICES ASSUME IInv, [Next]_vars PROVE IInv'
  OBVIOUS
<1>1. CASE VendorStep
  BY <1>1, CallToolStep, TellInputStep, EndCallStep, WritesStep, ProcessStep DEF VendorStep
<1>2. CASE BridgeStep
  BY <1>2, BridgeSteps
<1>3. CASE WorkerStep \/ Cancel \/ EndUnit \/ Copyout
  BY <1>3, WorkerSteps, UnitSteps, CopyoutStep
<1>4. CASE UNCHANGED vars
  BY <1>4 DEF vars, IInv, TypeOK, AllTold, Told, Evidence, Proven, OneResult, Reaped, Alone,
              Certifies, Copied
<1> QED
  BY <1>1, <1>2, <1>3, <1>4 DEF Next

\* The invariant that the theorems below rest on: what the bridge has proven,
\* who can still write, and what the receipt carries.
THEOREM GuestInvariant == Spec => []IInv
<1>1. Init => IInv
  BY IInvInit
<1>2. IInv /\ [Next]_vars => IInv'
  BY IInvInduction
<1> QED
  BY <1>1, <1>2, PTL DEF Spec

\* Whatever a session does, a receipt that is there is of one in which exactly
\* one native agent was started, as the launch prescribes, and completed.
THEOREM AReceiptIsProof == Spec => []ReceiptProvesOneChild
<1>1. IInv => ReceiptProvesOneChild
  <2> SUFFICES ASSUME IInv, receipt # {} PROVE Proven
    BY DEF ReceiptProvesOneChild, Proven
  <2> QED
    BY DEF IInv, Evidence, Certifies
<1> QED
  BY <1>1, GuestInvariant, PTL

\* From the receipt on nobody in the group is alive, and what lies there and
\* what is copied out is what it certifies, but for a process that left the group.
THEOREM AReceiptStands == Spec => []ReceiptIsFinal
<1>1. IInv => ReceiptIsFinal
  <2> SUFFICES ASSUME IInv, receipt # {}
               PROVE  /\ Group = {}
                      /\ tree = "stray" \/ \A r \in receipt : r.digest = tree
                      /\ \A o \in out : o.artifact = "stray" \/ o.artifact = o.receipt.digest
    BY DEF ReceiptIsFinal
  <2>1. Group = {}
    BY DEF IInv, Reaped, Alone, Group
  <2>2. tree = "stray" \/ \A r \in receipt : r.digest = tree
    BY DEF IInv, Certifies, OneResult
  <2> QED
    BY <2>1, <2>2 DEF IInv, Copied
<1> QED
  BY <1>1, GuestInvariant, PTL

=============================================================================
