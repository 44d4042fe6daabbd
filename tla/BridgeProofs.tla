----------------------------- MODULE BridgeProofs -----------------------------
(***************************************************************************)
(* Proofs about Bridge, for every number of launches, tasks and edits, and *)
(* whatever the guests return.                                             *)
(***************************************************************************)
EXTENDS Bridge, FiniteSetTheorems, TLAPS

Pc == Before \cup Inside \cup After \cup Left
Held == Inside \cup After
\* Once its result is recorded, or it is on its way out, a launch takes nothing
\* in any more.
Done == {"created"} \cup After \cup Left
Calling == {"reset", "open", "working", "worked", "streamed"}
Attested == Calling \cup {"attested", "checked", "staged", "created"}

Launch ==
  [pc : Pc, path : Paths, name : SUBSET Tasks, env : SUBSET Versions, attested : SUBSET Versions,
   lease : BOOLEAN, opened : BOOLEAN, good : BOOLEAN, reset : BOOLEAN, out : SUBSET Out]
Meta == [launch : Launches, env : Versions, digest : Digests, whole : BOOLEAN]

\* The receipt of o certifies the artifact of o for launch p.
Certified(p, o) == o.receipt = [launch |-> p, digest |-> o.artifact, terminal |-> TRUE]

\* The launch has a result on record that is its own.
Recording(l) == l.pc \in {"created", "returned"} \/ l.good

\* What the record of one launch says at its program counter.
Local(p, l) ==
  /\ l \in Launch
  /\ l.pc \in {"snapped", "frozen", "returned"} \cup Held =>
       \E v \in Versions : l.env = {v}
  /\ l.pc \in Attested => l.attested = l.env
  /\ l.out # {} => \E o \in Out : l.out = {o}
  /\ l.pc \in {"streamed", "checked", "staged", "created"} => l.out # {}
  /\ l.pc \in {"checked", "staged", "created"} => \A o \in l.out : Certified(p, o)
  /\ l.pc \in {"staged", "created"} =>
       \A v \in l.env, o \in l.out : MayChange(v.role, o.changed)
  /\ l.lease => l.pc \in Calling
  /\ l.pc \in Calling => l.lease /\ l.opened
  /\ l.good => l.pc \in After

LaunchesOK == launch \in [Launches -> Launch] /\ \A p \in Launches : Local(p, launch[p])

LockOK ==
  /\ lock \subseteq Launches
  /\ \A p \in Launches : p \in lock <=> launch[p].pc \in Held
  /\ \A p, q \in lock : p = q

\* The egress is open to the launch that runs, or to one that died or could not
\* reach the firewall.
MayBeOpen(l) ==
  \/ l.pc \in Inside \cup {"cleanup", "baseline"} /\ l.opened
  \/ l.pc \in {"release", "failed"} /\ ~l.good /\ ~l.reset
  \/ l.pc = "crashed"

EgressOK ==
  /\ egress \subseteq Launches
  /\ \A p \in Launches :
       /\ launch[p].pc \in {"open", "working"} => egress = {p}
       /\ p \in egress => MayBeOpen(launch[p])

MustBeGone(l) == l.pc = "returned" \/ (l.pc \in {"baseline", "release"} /\ l.good)

JobOK ==
  /\ job \in [Launches -> {"none", "copied", "active", "over"}]
  /\ \A p \in Launches : MustBeGone(launch[p]) => job[p] = "none"

\* A record is of a launch that is done, of what it attested and was certified.
Recorded(t, m) ==
  LET l == launch[m.launch] IN
    /\ l.pc \in Done /\ l.out # {}
    /\ l.env = {m.env} /\ l.attested = {m.env} /\ m.env.task = t
    /\ \A o \in l.out : /\ Certified(m.launch, o) /\ o.artifact = m.digest
                        /\ MayChange(m.env.role, o.changed)

MetaOK ==
  /\ meta \in [Tasks -> SUBSET Meta]
  /\ \A t \in Tasks : \A m \in meta[t] : Recorded(t, m)
  /\ \A p \in Launches : Recording(launch[p]) =>
       \A v \in launch[p].env : meta[v.task] # {} /\ \A m \in meta[v.task] : m.launch = p

\* An acceptance goes by a record, of the envelope it was validated for, and the
\* artifact is as validated unless somebody rewrote it since.
Returning(a) ==
  /\ a.meta.launch \in Launches /\ Recorded(a.meta.env.task, a.meta)
  /\ a.env = a.meta.env /\ a.env.role = "generator"
  /\ a.meta.launch \notin rewritten => Unchanged(a.meta)

ReturningOK == \A a \in returning : Returning(a)

\* What one launch had certified, and may have changed, is what is accepted.
Taken(a) ==
  LET l == launch[a.launch] IN
    /\ l.pc \in Done /\ l.attested = {a.env} /\ a.env.role = "generator"
    /\ l.out # {}
    /\ \A o \in l.out :
         /\ Certified(a.launch, o) /\ MayChange("generator", o.changed)
         /\ a.launch \notin rewritten => a.artifact = o.artifact

AcceptedOK == \A a \in accepted : a.launch \in Launches /\ Taken(a)

IInv ==
  /\ file \in [Paths -> Versions] /\ tree \in [Launches -> SUBSET Digests]
  /\ LaunchesOK /\ LockOK /\ EgressOK /\ JobOK /\ MetaOK /\ ReturningOK /\ AcceptedOK

-----------------------------------------------------------------------------
\* One launch moves, under the rules for what it shares with the others.

\* The lock is taken when it is free, and only its holder lets anybody out.
TakesTurns(p, l) ==
  /\ lock' \ {p} = lock \ {p}
  /\ p \in lock' <=> l.pc \in Held
  /\ p \in lock' => p \in lock \/ lock = {}
  /\ lock' \subseteq Launches

LetsOut(p, l) ==
  /\ egress' = egress \/ (p \in lock /\ egress' \in {{}, {p}})
  /\ l.pc \in {"open", "working"} => egress' = {p}
  /\ p \in egress' => MayBeOpen(l)

RunsJob(p, l) ==
  /\ \E j \in {"none", "copied", "active", "over"} : job' = [job EXCEPT ![p] = j]
  /\ MustBeGone(l) => job'[p] = "none"

\* What was recorded or accepted of p stays what p has, and p has no record it
\* did not have.
KeepsResult(p, l) ==
  launch[p].pc \in Done =>
    /\ l.pc \in Done /\ l.env = launch[p].env /\ l.attested = launch[p].attested
    /\ l.out = launch[p].out
\* A tree is staged before its launch is done.
KeepsTrees(p) ==
  \/ tree' = tree
  \/ \E s \in SUBSET Digests : launch[p].pc \notin Done /\ tree' = [tree EXCEPT ![p] = s]

KeepsRecord(p, l) ==
  /\ KeepsResult(p, l)
  /\ Recording(l) => Recording(launch[p]) /\ l.env = launch[p].env

LEMMA LaunchMoves ==
  ASSUME IInv, NEW p \in Launches, NEW l, Local(p, l),
         launch' = [launch EXCEPT ![p] = l],
         UNCHANGED <<file, returning, rewritten, accepted>>, KeepsTrees(p),
         TakesTurns(p, l), LetsOut(p, l), RunsJob(p, l), KeepsResult(p, l)
  PROVE  /\ launch' \in [Launches -> Launch] /\ launch'[p] = l
         /\ \A q \in Launches \ {p} : launch'[q] = launch[q]
         /\ file' \in [Paths -> Versions] /\ tree' \in [Launches -> SUBSET Digests]
         /\ LaunchesOK' /\ LockOK' /\ EgressOK' /\ JobOK' /\ ReturningOK' /\ AcceptedOK'
<1> USE DEF IInv
<1>1. /\ launch \in [Launches -> Launch] /\ l \in Launch
      /\ launch' \in [Launches -> Launch] /\ launch'[p] = l
      /\ \A q \in Launches \ {p} : launch'[q] = launch[q]
  BY DEF LaunchesOK, Local
<1>2. LaunchesOK'
  BY <1>1 DEF LaunchesOK
<1>3. LockOK'
  BY <1>1 DEF LockOK, TakesTurns
<1>4. EgressOK'
  <2>1. p \in lock => \A q \in Launches \ {p} : launch[q].pc \notin Held
    BY DEF LockOK
  <2>2. {"open", "working"} \subseteq Held
    BY DEF Held, Inside
  <2>3. egress' \subseteq Launches
    BY DEF LetsOut, EgressOK
  <2>4. ASSUME NEW q \in Launches, launch'[q].pc \in {"open", "working"}
        PROVE  egress' = {q}
    BY <1>1, <2>1, <2>2, <2>4 DEF LetsOut, EgressOK
  <2>5. ASSUME NEW q \in Launches, q \in egress'
        PROVE  MayBeOpen(launch'[q])
    BY <1>1, <2>5 DEF LetsOut, EgressOK
  <2> QED
    BY <2>3, <2>4, <2>5 DEF EgressOK
<1>5. JobOK'
  BY <1>1 DEF JobOK, RunsJob
<1>6. /\ tree' \in [Launches -> SUBSET Digests]
      /\ \A q \in Launches : launch[q].pc \in Done => tree'[q] = tree[q]
  BY DEF KeepsTrees
<1>7. \A q \in Launches : launch[q].pc \in Done =>
        /\ launch'[q].pc \in Done /\ launch'[q].env = launch[q].env
        /\ launch'[q].attested = launch[q].attested /\ launch'[q].out = launch[q].out
  BY <1>1 DEF KeepsResult
<1>8. ReturningOK'
  BY <1>6, <1>7 DEF ReturningOK, Returning, Recorded, Unchanged, ArtifactOf
<1>9. AcceptedOK'
  BY <1>7 DEF AcceptedOK, Taken
<1> QED
  BY <1>1, <1>2, <1>3, <1>4, <1>5, <1>6, <1>8, <1>9

LEMMA LaunchStep ==
  ASSUME IInv, NEW p \in Launches, NEW l, Local(p, l),
         launch' = [launch EXCEPT ![p] = l],
         UNCHANGED <<file, meta, returning, rewritten, accepted>>, KeepsTrees(p),
         TakesTurns(p, l), LetsOut(p, l), RunsJob(p, l), KeepsRecord(p, l)
  PROVE  IInv'
<1>1. /\ launch' \in [Launches -> Launch] /\ launch'[p] = l
      /\ \A q \in Launches \ {p} : launch'[q] = launch[q]
      /\ file' \in [Paths -> Versions] /\ tree' \in [Launches -> SUBSET Digests]
      /\ LaunchesOK' /\ LockOK' /\ EgressOK' /\ JobOK' /\ ReturningOK' /\ AcceptedOK'
  BY LaunchMoves DEF KeepsRecord
<1>2. MetaOK'
  <2>1. \A t \in Tasks : \A m \in meta[t] : m \in Meta /\ m.launch \in Launches /\ Recorded(t, m)
    BY DEF IInv, MetaOK, Meta
  <2>2. \A t \in Tasks : \A m \in meta'[t] : Recorded(t, m)'
    BY <1>1, <2>1 DEF Recorded, KeepsRecord, KeepsResult
  <2>3. \A q \in Launches : Recording(launch'[q]) =>
          \A v \in launch'[q].env : meta'[v.task] # {} /\ \A m \in meta'[v.task] : m.launch = q
    BY <1>1 DEF IInv, MetaOK, KeepsRecord, KeepsResult
  <2> QED
    BY <2>2, <2>3 DEF IInv, MetaOK
<1> QED
  BY <1>1, <1>2 DEF IInv

-----------------------------------------------------------------------------
\* The steps of a launch that change nothing but its own record.

LEMMA QuietStep ==
  ASSUME IInv, NEW p \in Launches, NEW l, Local(p, l),
         launch' = [launch EXCEPT ![p] = l],
         UNCHANGED <<file, meta, returning, rewritten, accepted, lock, guest>>,
         KeepsTrees(p),
         launch[p].pc \in Held <=> l.pc \in Held,
         l.pc \notin {"open", "working"},
         p \in egress => (MayBeOpen(launch[p]) => MayBeOpen(l)),
         MustBeGone(l) => MustBeGone(launch[p]),
         KeepsRecord(p, l)
  PROVE  IInv'
<1>1. TakesTurns(p, l)
  BY DEF TakesTurns, IInv, LockOK
<1>2. LetsOut(p, l)
  BY DEF LetsOut, IInv, EgressOK, guest
<1>3. RunsJob(p, l)
  <2>1. job \in [Launches -> {"none", "copied", "active", "over"}] /\ job' = job
    BY DEF IInv, JobOK, guest
  <2>2. job' = [job EXCEPT ![p] = job[p]] /\ job[p] \in {"none", "copied", "active", "over"}
    BY <2>1
  <2>3. MustBeGone(l) => job'[p] = "none"
    BY <2>1 DEF IInv, JobOK
  <2> QED
    BY <2>2, <2>3 DEF RunsJob
<1> QED
  BY <1>1, <1>2, <1>3, LaunchStep

\* What the invariant says of one launch.
LEMMA OneLaunch ==
  ASSUME IInv, NEW p \in Launches
  PROVE  /\ launch \in [Launches -> Launch] /\ launch[p] \in Launch /\ Local(p, launch[p])
         /\ file \in [Paths -> Versions] /\ launch[p].path \in Paths
         /\ \A v \in Versions : v.task \in Tasks /\ (launch[p].env = {v} => Env(p) = v)
<1>1. launch \in [Launches -> Launch] /\ launch[p] \in Launch /\ Local(p, launch[p])
  BY DEF IInv, LaunchesOK
<1>2. file \in [Paths -> Versions] /\ launch[p].path \in Paths
  BY <1>1 DEF IInv, Launch
<1>3. ASSUME NEW v \in Versions, launch[p].env = {v} PROVE Env(p) = v
  BY <1>3 DEF Env
<1>4. \A v \in Versions : v.task \in Tasks
  BY BridgeAssumption
<1> QED
  BY <1>1, <1>2, <1>3, <1>4

LEMMA NameStep ==
  ASSUME IInv, NEW p \in Launches, Name(p) PROVE IInv'
<1>1. launch[p] \in Launch /\ Local(p, launch[p]) /\ launch[p].pc = "off"
  BY OneLaunch DEF Name, At
<1> DEFINE l(names, pc) == [launch[p] EXCEPT !.name = names, !.pc = pc]
<1>2. PICK names \in SUBSET Tasks, pc \in {"named", "failed"} :
        launch' = [launch EXCEPT ![p] = l(names, pc)]
  <2>1. CASE Goto(p, "failed")
    <3>1. /\ launch[p].name \in SUBSET Tasks
          /\ l(launch[p].name, "failed") = [launch[p] EXCEPT !.pc = "failed"]
      BY <1>1 DEF Launch
    <3>2. launch' = [launch EXCEPT ![p] = l(launch[p].name, "failed")]
      BY <2>1, <3>1, OneLaunch DEF Goto
    <3> QED
      BY <3>1, <3>2
  <2>2. CASE launch' = [launch EXCEPT ![p].name = {Read(launch[p].path).task}, ![p].pc = "named"]
    <3>1. {Read(launch[p].path).task} \in SUBSET Tasks
      BY OneLaunch DEF Read
    <3>2. launch' = [launch EXCEPT ![p] = l({Read(launch[p].path).task}, "named")]
      BY <2>2, OneLaunch
    <3> QED
      BY <3>1, <3>2
  <2> QED
    BY <2>1, <2>2 DEF Name
<1>3. Local(p, l(names, pc))
  BY <1>1, <1>2 DEF Local, Launch, Pc, Before, Inside, After, Left, Held, Attested, Calling
<1>4. KeepsRecord(p, l(names, pc))
  BY <1>1, <1>2 DEF KeepsRecord, KeepsResult, Done, After, Left, Recording, Launch, Local
<1>5. p \notin egress
  BY <1>1 DEF IInv, EgressOK, MayBeOpen, Inside
<1>6. /\ launch[p].pc \in Held <=> l(names, pc).pc \in Held
      /\ l(names, pc).pc \notin {"open", "working"}
      /\ MustBeGone(l(names, pc)) => MustBeGone(launch[p])
  BY <1>1, <1>2 DEF Held, Inside, After, MustBeGone, Launch
<1> HIDE DEF l
<1> QED
  BY <1>2, <1>3, <1>4, <1>5, <1>6, QuietStep DEF Name, outside, KeepsTrees

LEMMA SnapshotStep ==
  ASSUME IInv, NEW p \in Launches, Snapshot(p) PROVE IInv'
<1> DEFINE v == Read(launch[p].path)
           pc == IF launch[p].name = {v.task} THEN "snapped" ELSE "failed"
           l == [launch[p] EXCEPT !.env = {v}, !.pc = pc]
<1>1. launch[p] \in Launch /\ Local(p, launch[p]) /\ launch[p].pc = "named"
  BY OneLaunch DEF Snapshot, At
<1>2. pc \in {"snapped", "failed"} /\ v \in Versions
  BY OneLaunch DEF Read
<1>3. launch' = [launch EXCEPT ![p] = l]
  BY <1>1, OneLaunch DEF Snapshot
<1> HIDE DEF pc, v
<1>4. Local(p, l)
  BY <1>1, <1>2 DEF Local, Launch, Pc, Before, Inside, After, Left, Held, Attested, Calling
<1>5. KeepsRecord(p, l)
  BY <1>1, <1>2 DEF KeepsRecord, KeepsResult, Done, After, Left, Recording, Launch, Local
<1>6. p \notin egress
  BY <1>1 DEF IInv, EgressOK, MayBeOpen, Inside
<1>7. /\ launch[p].pc \in Held <=> l.pc \in Held
      /\ l.pc \notin {"open", "working"} /\ (MustBeGone(l) => MustBeGone(launch[p]))
  BY <1>1, <1>2 DEF Held, Inside, After, MustBeGone, Launch
<1> QED
  BY <1>3, <1>4, <1>5, <1>6, <1>7, QuietStep DEF Snapshot, outside, KeepsTrees

LEMMA FreezeStep ==
  ASSUME IInv, NEW p \in Launches, Freeze(p) PROVE IInv'
<1>1. launch[p] \in Launch /\ Local(p, launch[p]) /\ launch[p].pc = "snapped"
  BY OneLaunch DEF Freeze, At
<1>2. PICK pc \in {"frozen", "failed"} : Goto(p, pc)
  BY DEF Freeze
<1> DEFINE l == [launch[p] EXCEPT !.pc = pc]
<1>3. launch' = [launch EXCEPT ![p] = l]
  BY <1>1, <1>2, OneLaunch DEF Goto
<1>4. Local(p, l)
  BY <1>1, <1>2 DEF Local, Launch, Pc, Before, Inside, After, Left, Held, Attested, Calling
<1>5. KeepsRecord(p, l)
  BY <1>1, <1>2 DEF KeepsRecord, KeepsResult, Done, After, Left, Recording, Launch, Local
<1>6. p \notin egress
  BY <1>1 DEF IInv, EgressOK, MayBeOpen, Inside
<1>7. /\ launch[p].pc \in Held <=> l.pc \in Held
      /\ l.pc \notin {"open", "working"} /\ (MustBeGone(l) => MustBeGone(launch[p]))
  BY <1>1, <1>2 DEF Held, Inside, After, MustBeGone, Launch
<1> QED
  BY <1>3, <1>4, <1>5, <1>6, <1>7, QuietStep DEF Freeze, outside, KeepsTrees

LEMMA AcquireStep ==
  ASSUME IInv, NEW p \in Launches, Acquire(p) PROVE IInv'
<1>1. launch[p] \in Launch /\ Local(p, launch[p]) /\ launch[p].pc = "frozen"
  BY OneLaunch DEF Acquire, At
<1>2. p \notin egress
  BY <1>1 DEF IInv, EgressOK, MayBeOpen, Inside
<1>3. CASE lock = {} /\ lock' = {p} /\ Goto(p, "ready")
  <2> DEFINE l == [launch[p] EXCEPT !.pc = "ready"]
  <2>1. launch' = [launch EXCEPT ![p] = l]
    BY <1>1, <1>3, OneLaunch DEF Goto
  <2>2. Local(p, l)
    BY <1>1 DEF Local, Launch, Pc, Inside, After, Left, Held, Attested, Calling
  <2>3. KeepsRecord(p, l)
    BY <1>1 DEF KeepsRecord, KeepsResult, Done, After, Left, Recording, Launch, Local
  <2>4. TakesTurns(p, l)
    BY <1>1, <1>3 DEF TakesTurns, Held, Inside, Launch
  <2>5. LetsOut(p, l)
    BY <1>1, <1>2 DEF LetsOut, Acquire, guest, Launch
  <2>6. RunsJob(p, l)
    <3>1. job' = [job EXCEPT ![p] = job[p]] /\ job[p] \in {"none", "copied", "active", "over"}
      BY DEF IInv, JobOK, Acquire, guest
    <3>2. ~MustBeGone(l)
      BY <1>1 DEF MustBeGone, Launch
    <3> QED
      BY <3>1, <3>2 DEF RunsJob
  <2> QED
    BY <2>1, <2>2, <2>3, <2>4, <2>5, <2>6, LaunchStep DEF Acquire, outside, KeepsTrees
<1>4. CASE lock' = lock /\ Goto(p, "failed")
  <2> DEFINE l == [launch[p] EXCEPT !.pc = "failed"]
  <2>1. launch' = [launch EXCEPT ![p] = l]
    BY <1>1, <1>4, OneLaunch DEF Goto
  <2>2. Local(p, l)
    BY <1>1 DEF Local, Launch, Pc, Inside, After, Left, Held, Attested, Calling
  <2>3. KeepsRecord(p, l)
    BY <1>1 DEF KeepsRecord, KeepsResult, Done, After, Left, Recording, Launch, Local
  <2>4. /\ launch[p].pc \in Held <=> l.pc \in Held
        /\ l.pc \notin {"open", "working"} /\ (MustBeGone(l) => MustBeGone(launch[p]))
    BY <1>1 DEF Held, Inside, After, MustBeGone, Launch
  <2> QED
    BY <1>2, <1>4, <2>1, <2>2, <2>3, <2>4, QuietStep DEF Acquire, outside, KeepsTrees
<1> QED
  BY <1>3, <1>4 DEF Acquire

LEMMA AttestStep ==
  ASSUME IInv, NEW p \in Launches, Attest(p) PROVE IInv'
<1> DEFINE l == [launch[p] EXCEPT !.pc = "attested", !.attested = launch[p].env]
<1>1. launch[p] \in Launch /\ Local(p, launch[p]) /\ launch[p].pc = "copied"
  BY OneLaunch DEF Attest, At
<1>2. launch' = [launch EXCEPT ![p] = l]
  BY <1>1, OneLaunch DEF Attest, Attestation
<1>3. Local(p, l)
  BY <1>1 DEF Local, Launch, Pc, Inside, After, Left, Held, Attested, Calling
<1>4. KeepsRecord(p, l)
  BY <1>1 DEF KeepsRecord, KeepsResult, Done, After, Left, Recording, Launch, Local
<1>5. MayBeOpen(launch[p]) => MayBeOpen(l)
  BY <1>1 DEF MayBeOpen, Inside, Launch
<1>6. /\ launch[p].pc \in Held <=> l.pc \in Held
      /\ l.pc \notin {"open", "working"} /\ (MustBeGone(l) => MustBeGone(launch[p]))
  BY <1>1 DEF Held, Inside, After, MustBeGone, Launch
<1> QED
  BY <1>2, <1>3, <1>4, <1>5, <1>6, QuietStep DEF Attest, outside, KeepsTrees

LEMMA WorkerReturnsStep ==
  ASSUME IInv, NEW p \in Launches, WorkerReturns(p) PROVE IInv'
<1> DEFINE l == [launch[p] EXCEPT !.pc = "worked"]
<1>1. launch[p] \in Launch /\ Local(p, launch[p]) /\ launch[p].pc = "working"
  BY OneLaunch DEF WorkerReturns, At
<1>2. launch' = [launch EXCEPT ![p] = l]
  BY <1>1, OneLaunch DEF WorkerReturns, Goto
<1>3. Local(p, l)
  BY <1>1 DEF Local, Launch, Pc, Inside, After, Left, Held, Attested, Calling
<1>4. KeepsRecord(p, l)
  BY <1>1 DEF KeepsRecord, KeepsResult, Done, After, Left, Recording, Launch, Local
<1>5. MayBeOpen(launch[p]) => MayBeOpen(l)
  BY <1>1 DEF MayBeOpen, Inside, Launch
<1>6. /\ launch[p].pc \in Held <=> l.pc \in Held
      /\ l.pc \notin {"open", "working"} /\ (MustBeGone(l) => MustBeGone(launch[p]))
  BY <1>1 DEF Held, Inside, After, MustBeGone, Launch
<1> QED
  BY <1>2, <1>3, <1>4, <1>5, <1>6, QuietStep DEF WorkerReturns, outside, KeepsTrees

LEMMA CopyoutStep ==
  ASSUME IInv, NEW p \in Launches, NEW o \in Outs[p], Copyout(p, o) PROVE IInv'
<1> DEFINE l == [launch[p] EXCEPT !.pc = "streamed", !.out = {o}]
<1>1. launch[p] \in Launch /\ Local(p, launch[p]) /\ launch[p].pc = "worked"
  BY OneLaunch DEF Copyout, At
<1>2. o \in Out
  BY BridgeAssumption
<1>3. launch' = [launch EXCEPT ![p] = l]
  BY <1>1, OneLaunch DEF Copyout
<1>4. Local(p, l)
  BY <1>1, <1>2 DEF Local, Launch, Pc, Inside, After, Left, Held, Attested, Calling
<1>5. KeepsRecord(p, l)
  BY <1>1 DEF KeepsRecord, KeepsResult, Done, After, Left, Recording, Launch, Local
<1>6. MayBeOpen(launch[p]) => MayBeOpen(l)
  BY <1>1 DEF MayBeOpen, Inside, Launch
<1>7. /\ launch[p].pc \in Held <=> l.pc \in Held
      /\ l.pc \notin {"open", "working"} /\ (MustBeGone(l) => MustBeGone(launch[p]))
  BY <1>1 DEF Held, Inside, After, MustBeGone, Launch
<1> QED
  BY <1>3, <1>4, <1>5, <1>6, <1>7, QuietStep DEF Copyout, outside, KeepsTrees

\* A receipt that passes certifies the artifact that was copied out with it.
LEMMA CheckReceiptStep ==
  ASSUME IInv, NEW p \in Launches, CheckReceipt(p) PROVE IInv'
<1>1. launch[p] \in Launch /\ Local(p, launch[p]) /\ launch[p].pc = "streamed"
  BY OneLaunch DEF CheckReceipt, At
<1> DEFINE fits(o) == o.receipt.terminal /\ o.receipt.launch = p /\ o.receipt.digest = o.artifact
           pc(o) == IF fits(o) THEN "checked" ELSE "cleanup"
           l(o) == [launch[p] EXCEPT !.pc = pc(o), !.lease = FALSE]
<1>2. PICK o \in launch[p].out : launch' = [launch EXCEPT ![p] = l(o)]
  <2>1. PICK o \in launch[p].out :
          launch' = [launch EXCEPT ![p].pc = pc(o), ![p].lease = FALSE]
    BY DEF CheckReceipt, Extracted
  <2>2. p \in DOMAIN launch
    BY OneLaunch
  <2> QED
    BY <2>1, <2>2
<1>3. o \in Out /\ launch[p].out = {o}
  BY <1>1, <1>2 DEF Local
<1>4. fits(o) => Certified(p, o)
  BY <1>3 DEF Certified, Out, Receipt
<1>5. pc(o) \in {"checked", "cleanup"} /\ (pc(o) = "checked" => Certified(p, o))
  BY <1>4
<1> HIDE DEF fits, pc
<1>6. Local(p, l(o))
  BY <1>1, <1>3, <1>5 DEF Local, Launch, Pc, Inside, After, Left, Held, Attested, Calling
<1>7. KeepsRecord(p, l(o))
  BY <1>1, <1>5 DEF KeepsRecord, KeepsResult, Done, After, Left, Recording, Launch, Local
<1>8. MayBeOpen(launch[p]) => MayBeOpen(l(o))
  BY <1>1, <1>5 DEF MayBeOpen, Inside, Launch
<1>9. /\ launch[p].pc \in Held <=> l(o).pc \in Held
      /\ l(o).pc \notin {"open", "working"} /\ (MustBeGone(l(o)) => MustBeGone(launch[p]))
  BY <1>1, <1>5 DEF Held, Inside, After, MustBeGone, Launch
<1> HIDE DEF l
<1> QED
  BY <1>2, <1>6, <1>7, <1>8, <1>9, QuietStep DEF CheckReceipt, outside, KeepsTrees

\* What is staged changes nothing its role may not.
LEMMA ReconcileStep ==
  ASSUME IInv, NEW p \in Launches, Reconcile(p) PROVE IInv'
<1>1. launch[p] \in Launch /\ Local(p, launch[p]) /\ launch[p].pc = "checked"
  BY OneLaunch DEF Reconcile, At
<1>2. PICK v \in Versions : launch[p].env = {v}
  BY <1>1 DEF Local, Held, Inside
<1>3. PICK o \in Out : launch[p].out = {o}
  BY <1>1 DEF Local
<1>4. PICK pc \in {"staged", "cleanup"} :
        Goto(p, pc) /\ (pc = "staged" => MayChange(v.role, o.changed))
  BY <1>2, <1>3, OneLaunch DEF Reconcile, Extracted
<1> DEFINE l == [launch[p] EXCEPT !.pc = pc]
<1>5. launch' = [launch EXCEPT ![p] = l]
  BY <1>1, <1>4, OneLaunch DEF Goto
<1>6. Local(p, l)
  BY <1>1, <1>2, <1>3, <1>4 DEF Local, Launch, Pc, Inside, After, Left, Held, Attested, Calling
<1>7. KeepsRecord(p, l)
  BY <1>1, <1>4 DEF KeepsRecord, KeepsResult, Done, After, Left, Recording, Launch, Local
<1>8. MayBeOpen(launch[p]) => MayBeOpen(l)
  BY <1>1, <1>4 DEF MayBeOpen, Inside, Launch
<1>9. /\ launch[p].pc \in Held <=> l.pc \in Held
      /\ l.pc \notin {"open", "working"} /\ (MustBeGone(l) => MustBeGone(launch[p]))
  BY <1>1, <1>4 DEF Held, Inside, After, MustBeGone, Launch
<1>10. KeepsTrees(p)
  <2>1. launch[p].pc \notin Done
    BY <1>1 DEF Done, After, Left
  <2>2. \A x \in Out : x.artifact \in Digests
    BY DEF Out
  <2> QED
    BY <1>3, <2>1, <2>2, BridgeAssumption DEF KeepsTrees, Reconcile, Extracted, Applied, Commissioned
<1> QED
  BY <1>5, <1>6, <1>7, <1>8, <1>9, <1>10, QuietStep DEF Reconcile, outside

LEMMA FailStep ==
  ASSUME IInv, NEW p \in Launches, Fail(p) PROVE IInv'
<1> DEFINE l == [launch[p] EXCEPT !.pc = "cleanup", !.lease = FALSE]
<1>1. launch[p] \in Launch /\ Local(p, launch[p]) /\ launch[p].pc \in Inside
  BY OneLaunch DEF Fail
<1>2. launch' = [launch EXCEPT ![p] = l]
  BY <1>1, OneLaunch DEF Fail
<1>3. Local(p, l)
  BY <1>1 DEF Local, Launch, Pc, Inside, After, Left, Held, Attested, Calling
<1>4. KeepsRecord(p, l)
  BY <1>1 DEF KeepsRecord, KeepsResult, Done, Inside, After, Left, Recording, Launch, Local
<1>5. MayBeOpen(launch[p]) => MayBeOpen(l)
  BY <1>1 DEF MayBeOpen, Inside, Launch
<1>6. /\ launch[p].pc \in Held <=> l.pc \in Held
      /\ l.pc \notin {"open", "working"} /\ (MustBeGone(l) => MustBeGone(launch[p]))
  BY <1>1 DEF Held, Inside, After, MustBeGone, Launch, Local
<1> QED
  BY <1>2, <1>3, <1>4, <1>5, <1>6, QuietStep DEF Fail, outside, KeepsTrees

-----------------------------------------------------------------------------
\* The steps of a launch that change the guest, the egress or the lock.

LEMMA CopyInStep ==
  ASSUME IInv, NEW p \in Launches, CopyIn(p) PROVE IInv'
<1>1. launch[p] \in Launch /\ Local(p, launch[p]) /\ launch[p].pc = "ready"
  BY OneLaunch DEF CopyIn, At
<1>2. PICK pc \in {"copied", "cleanup"} : Goto(p, pc)
  BY DEF CopyIn
<1> DEFINE l == [launch[p] EXCEPT !.pc = pc]
<1>3. launch' = [launch EXCEPT ![p] = l]
  BY <1>1, <1>2, OneLaunch DEF Goto
<1>4. Local(p, l)
  BY <1>1, <1>2 DEF Local, Launch, Pc, Inside, After, Left, Held, Attested, Calling
<1>5. KeepsRecord(p, l)
  BY <1>1, <1>2 DEF KeepsRecord, KeepsResult, Done, After, Left, Recording, Launch, Local
<1>6. TakesTurns(p, l)
  BY <1>1, <1>2 DEF TakesTurns, CopyIn, IInv, LockOK, Held, Inside, After
<1>7. LetsOut(p, l)
  <2>1. p \in egress => MayBeOpen(launch[p])
    BY DEF IInv, EgressOK
  <2>2. MayBeOpen(launch[p]) => MayBeOpen(l)
    BY <1>1, <1>2 DEF MayBeOpen, Inside, Launch
  <2>3. l.pc \notin {"open", "working"}
    BY <1>1, <1>2 DEF Launch
  <2> QED
    BY <2>1, <2>2, <2>3 DEF LetsOut, CopyIn
<1>8. RunsJob(p, l)
  BY <1>1, <1>2 DEF RunsJob, CopyIn, MustBeGone, Launch, Local
<1> QED
  BY <1>3, <1>4, <1>5, <1>6, <1>7, <1>8, LaunchStep DEF CopyIn, outside, KeepsTrees

\* A launch that lets somebody out holds the lock.
LEMMA ResetEgressStep ==
  ASSUME IInv, NEW p \in Launches, ResetEgress(p) PROVE IInv'
<1> DEFINE l == [launch[p] EXCEPT !.pc = "reset", !.lease = TRUE, !.opened = TRUE]
<1>1. launch[p] \in Launch /\ Local(p, launch[p]) /\ launch[p].pc = "attested"
  BY OneLaunch DEF ResetEgress, At
<1>2. launch' = [launch EXCEPT ![p] = l]
  BY <1>1, OneLaunch DEF ResetEgress
<1>3. Local(p, l)
  BY <1>1 DEF Local, Launch, Pc, Inside, After, Left, Held, Attested, Calling
<1>4. KeepsRecord(p, l)
  BY <1>1 DEF KeepsRecord, KeepsResult, Done, After, Left, Recording, Launch, Local
<1>5. p \in lock
  BY <1>1 DEF IInv, LockOK, Held, Inside
<1>6. TakesTurns(p, l)
  BY <1>1, <1>5 DEF TakesTurns, ResetEgress, IInv, LockOK, Held, Inside
<1>7. LetsOut(p, l)
  BY <1>1, <1>5 DEF LetsOut, ResetEgress, Launch
<1>8. RunsJob(p, l)
  <2>1. job' = [job EXCEPT ![p] = job[p]] /\ job[p] \in {"none", "copied", "active", "over"}
    BY DEF IInv, JobOK, ResetEgress
  <2> QED
    BY <1>1, <2>1 DEF RunsJob, MustBeGone, Launch
<1> QED
  BY <1>2, <1>3, <1>4, <1>6, <1>7, <1>8, LaunchStep DEF ResetEgress, outside, KeepsTrees

LEMMA OpenEgressStep ==
  ASSUME IInv, NEW p \in Launches, OpenEgress(p) PROVE IInv'
<1> DEFINE l == [launch[p] EXCEPT !.pc = "open"]
<1>1. launch[p] \in Launch /\ Local(p, launch[p]) /\ launch[p].pc = "reset"
  BY OneLaunch DEF OpenEgress, At
<1>2. launch' = [launch EXCEPT ![p] = l]
  BY <1>1, OneLaunch DEF OpenEgress, Goto
<1>3. Local(p, l)
  BY <1>1 DEF Local, Launch, Pc, Inside, After, Left, Held, Attested, Calling
<1>4. KeepsRecord(p, l)
  BY <1>1 DEF KeepsRecord, KeepsResult, Done, After, Left, Recording, Launch, Local
<1>5. p \in lock
  BY <1>1 DEF IInv, LockOK, Held, Inside
<1>6. TakesTurns(p, l)
  BY <1>1, <1>5 DEF TakesTurns, OpenEgress, IInv, LockOK, Held, Inside
<1>7. LetsOut(p, l)
  BY <1>1, <1>5 DEF LetsOut, OpenEgress, MayBeOpen, Inside, Launch, Local, Calling
<1>8. RunsJob(p, l)
  <2>1. job' = [job EXCEPT ![p] = job[p]] /\ job[p] \in {"none", "copied", "active", "over"}
    BY DEF IInv, JobOK, OpenEgress
  <2> QED
    BY <1>1, <2>1 DEF RunsJob, MustBeGone, Launch, Local, After
<1> QED
  BY <1>2, <1>3, <1>4, <1>6, <1>7, <1>8, LaunchStep DEF OpenEgress, outside, KeepsTrees

LEMMA StartWorkerStep ==
  ASSUME IInv, NEW p \in Launches, StartWorker(p) PROVE IInv'
<1> DEFINE l == [launch[p] EXCEPT !.pc = "working"]
<1>1. launch[p] \in Launch /\ Local(p, launch[p]) /\ launch[p].pc = "open"
  BY OneLaunch DEF StartWorker, At
<1>2. launch' = [launch EXCEPT ![p] = l]
  BY <1>1, OneLaunch DEF StartWorker, Goto
<1>3. Local(p, l)
  BY <1>1 DEF Local, Launch, Pc, Inside, After, Left, Held, Attested, Calling
<1>4. KeepsRecord(p, l)
  BY <1>1 DEF KeepsRecord, KeepsResult, Done, After, Left, Recording, Launch, Local
<1>5. TakesTurns(p, l)
  BY <1>1 DEF TakesTurns, StartWorker, IInv, LockOK, Held, Inside
<1>6. LetsOut(p, l)
  <2>1. egress = {p} /\ MayBeOpen(l)
    BY <1>1 DEF IInv, EgressOK, MayBeOpen, Inside, Launch, Local, Calling
  <2> QED
    BY <2>1 DEF LetsOut, StartWorker
<1>7. RunsJob(p, l)
  BY <1>1 DEF RunsJob, StartWorker, MustBeGone, Launch, Local, After
<1> QED
  BY <1>2, <1>3, <1>4, <1>5, <1>6, <1>7, LaunchStep DEF StartWorker, outside, KeepsTrees

LEMMA CleanupStep ==
  ASSUME IInv, NEW p \in Launches, Cleanup(p) PROVE IInv'
<1>1. launch[p] \in Launch /\ Local(p, launch[p]) /\ launch[p].pc = "cleanup"
  BY OneLaunch DEF Cleanup, At
<1>2. p \in egress => MayBeOpen(launch[p])
  BY DEF IInv, EgressOK
<1>3. CASE job' = [job EXCEPT ![p] = "none"] /\ Goto(p, "baseline")
  <2> DEFINE l == [launch[p] EXCEPT !.pc = "baseline"]
  <2>1. launch' = [launch EXCEPT ![p] = l]
    BY <1>1, <1>3, OneLaunch DEF Goto
  <2>2. Local(p, l)
    BY <1>1 DEF Local, Launch, Pc, Inside, After, Left, Held, Attested, Calling
  <2>3. KeepsRecord(p, l)
    BY <1>1 DEF KeepsRecord, KeepsResult, Done, After, Left, Recording, Launch, Local
  <2>4. TakesTurns(p, l)
    BY <1>1 DEF TakesTurns, Cleanup, IInv, LockOK, Held, Inside, After
  <2>5. LetsOut(p, l)
    BY <1>1, <1>2 DEF LetsOut, Cleanup, MayBeOpen, Launch
  <2>6. RunsJob(p, l)
    BY <1>3 DEF RunsJob, IInv, JobOK
  <2> QED
    BY <2>1, <2>2, <2>3, <2>4, <2>5, <2>6, LaunchStep DEF Cleanup, outside, KeepsTrees
<1>4. CASE job' = job /\ launch' = [launch EXCEPT ![p].pc = "baseline", ![p].good = FALSE]
  <2> DEFINE l == [launch[p] EXCEPT !.pc = "baseline", !.good = FALSE]
  <2>1. launch' = [launch EXCEPT ![p] = l]
    BY <1>1, <1>4, OneLaunch
  <2>2. Local(p, l)
    BY <1>1 DEF Local, Launch, Pc, Inside, After, Left, Held, Attested, Calling
  <2>3. KeepsRecord(p, l)
    BY <1>1 DEF KeepsRecord, KeepsResult, Done, After, Left, Recording, Launch, Local
  <2>4. MayBeOpen(launch[p]) => MayBeOpen(l)
    BY <1>1 DEF MayBeOpen, Launch
  <2>5. /\ launch[p].pc \in Held <=> l.pc \in Held
        /\ l.pc \notin {"open", "working"} /\ ~MustBeGone(l)
    BY <1>1 DEF Held, Inside, After, MustBeGone, Launch
  <2> QED
    BY <1>4, <2>1, <2>2, <2>3, <2>4, <2>5, QuietStep DEF Cleanup, outside, KeepsTrees, guest
<1> QED
  BY <1>3, <1>4 DEF Cleanup

LEMMA RestoreStep ==
  ASSUME IInv, NEW p \in Launches, Restore(p) PROVE IInv'
<1>1. launch[p] \in Launch /\ Local(p, launch[p]) /\ launch[p].pc = "baseline"
  BY OneLaunch DEF Restore, At
<1>2. p \in egress => MayBeOpen(launch[p])
  BY DEF IInv, EgressOK
<1>3. p \in lock
  BY <1>1 DEF IInv, LockOK, Held, After
<1>4. /\ job' = [job EXCEPT ![p] = job[p]] /\ job[p] \in {"none", "copied", "active", "over"}
      /\ MustBeGone(launch[p]) => job[p] = "none"
      /\ lock' = lock
  BY DEF IInv, JobOK, Restore
<1>5. CASE Goto(p, "release") /\ (egress' = {} \/ (~launch[p].opened /\ egress' = egress))
  <2> DEFINE l == [launch[p] EXCEPT !.pc = "release"]
  <2>1. launch' = [launch EXCEPT ![p] = l]
    BY <1>1, <1>5, OneLaunch DEF Goto
  <2>2. Local(p, l)
    BY <1>1 DEF Local, Launch, Pc, Inside, After, Left, Held, Attested, Calling
  <2>3. KeepsRecord(p, l)
    BY <1>1 DEF KeepsRecord, KeepsResult, Done, After, Left, Recording, Launch, Local
  <2>4. TakesTurns(p, l)
    BY <1>1, <1>3, <1>4 DEF TakesTurns, IInv, LockOK, Held, After
  <2>5. LetsOut(p, l)
    BY <1>1, <1>2, <1>3, <1>5 DEF LetsOut, MayBeOpen, Launch
  <2>6. RunsJob(p, l)
    BY <1>1, <1>4 DEF RunsJob, MustBeGone, Launch, IInv, JobOK
  <2> QED
    BY <2>1, <2>2, <2>3, <2>4, <2>5, <2>6, LaunchStep DEF Restore, outside, KeepsTrees
<1>6. CASE egress' = egress /\
           launch' = [launch EXCEPT ![p].pc = "release", ![p].good = FALSE, ![p].reset = FALSE]
  <2> DEFINE l == [launch[p] EXCEPT !.pc = "release", !.good = FALSE, !.reset = FALSE]
  <2>1. launch' = [launch EXCEPT ![p] = l]
    BY <1>1, <1>6, OneLaunch
  <2>2. Local(p, l)
    BY <1>1 DEF Local, Launch, Pc, Inside, After, Left, Held, Attested, Calling
  <2>3. KeepsRecord(p, l)
    BY <1>1 DEF KeepsRecord, KeepsResult, Done, After, Left, Recording, Launch, Local
  <2>4. MayBeOpen(launch[p]) => MayBeOpen(l)
    BY <1>1 DEF MayBeOpen, Launch
  <2>5. /\ launch[p].pc \in Held <=> l.pc \in Held
        /\ l.pc \notin {"open", "working"} /\ ~MustBeGone(l)
    BY <1>1 DEF Held, Inside, After, MustBeGone, Launch
  <2> QED
    BY <1>6, <2>1, <2>2, <2>3, <2>4, <2>5, QuietStep DEF Restore, outside, KeepsTrees, guest
<1> QED
  BY <1>5, <1>6 DEF Restore

\* Released, a launch whose firewall was restored has nobody out.
LEMMA ReleaseStep ==
  ASSUME IInv, NEW p \in Launches, Release(p) PROVE IInv'
<1> DEFINE pc == IF launch[p].good THEN "returned" ELSE "failed"
           l == [launch[p] EXCEPT !.pc = pc, !.opened = FALSE, !.good = FALSE]
<1>1. launch[p] \in Launch /\ Local(p, launch[p]) /\ launch[p].pc = "release"
  BY OneLaunch DEF Release, At
<1>2. pc \in {"returned", "failed"} /\ (pc = "returned" <=> launch[p].good)
  OBVIOUS
<1>3. launch' = [launch EXCEPT ![p] = l]
  BY <1>1, OneLaunch DEF Release
<1> HIDE DEF pc
<1>4. Local(p, l)
  BY <1>1, <1>2 DEF Local, Launch, Pc, Inside, After, Left, Held, Attested, Calling
<1>5. KeepsRecord(p, l)
  BY <1>1, <1>2 DEF KeepsRecord, KeepsResult, Done, After, Left, Recording, Launch, Local
<1>6. p \in lock /\ lock' = lock \ {p} /\ egress' = egress
  BY <1>1 DEF IInv, LockOK, Held, After, Release, guest
<1>7. TakesTurns(p, l)
  BY <1>1, <1>2, <1>6 DEF TakesTurns, IInv, LockOK, Held, Inside, After
<1>8. LetsOut(p, l)
  <2>1. p \in egress => MayBeOpen(launch[p])
    BY DEF IInv, EgressOK
  <2>2. MayBeOpen(launch[p]) => MayBeOpen(l)
    BY <1>1, <1>2 DEF MayBeOpen, Inside, Launch
  <2>3. l.pc \notin {"open", "working"}
    BY <1>1, <1>2 DEF Launch
  <2> QED
    BY <1>6, <2>1, <2>2, <2>3 DEF LetsOut
<1>9. RunsJob(p, l)
  <2>1. /\ job' = [job EXCEPT ![p] = job[p]] /\ job[p] \in {"none", "copied", "active", "over"}
        /\ MustBeGone(launch[p]) => job[p] = "none"
    BY DEF IInv, JobOK, Release, guest
  <2>2. MustBeGone(l) => MustBeGone(launch[p])
    BY <1>1, <1>2 DEF MustBeGone, Launch
  <2>3. job'[p] = job[p]
    BY <2>1 DEF IInv, JobOK
  <2> QED
    BY <2>1, <2>2, <2>3 DEF RunsJob
<1> QED
  BY <1>3, <1>4, <1>5, <1>7, <1>8, <1>9, LaunchStep DEF Release, outside, KeepsTrees

LEMMA CrashStep ==
  ASSUME IInv, NEW p \in Launches, Crash(p) PROVE IInv'
<1> DEFINE l == [launch[p] EXCEPT !.pc = "crashed", !.lease = FALSE,
                                  !.opened = FALSE, !.good = FALSE]
<1>1. launch[p] \in Launch /\ Local(p, launch[p])
  BY OneLaunch
<1>2. launch' = [launch EXCEPT ![p] = l]
  BY <1>1, OneLaunch DEF Crash
<1>3. Local(p, l)
  BY <1>1 DEF Local, Launch, Pc, Inside, After, Left, Held, Attested, Calling
<1>4. KeepsRecord(p, l)
  BY <1>1 DEF KeepsRecord, KeepsResult, Done, After, Left, Recording, Launch
<1>5. TakesTurns(p, l)
  BY <1>1 DEF TakesTurns, Crash, IInv, LockOK, Held, Inside, After, Launch
<1>6. LetsOut(p, l)
  BY <1>1 DEF LetsOut, Crash, guest, MayBeOpen, Launch
<1>7. RunsJob(p, l)
  <2>1. job' = [job EXCEPT ![p] = job[p]] /\ job[p] \in {"none", "copied", "active", "over"}
    BY DEF IInv, JobOK, Crash, guest
  <2> QED
    BY <1>1, <2>1 DEF RunsJob, MustBeGone, Launch
<1> QED
  BY <1>2, <1>3, <1>4, <1>5, <1>6, <1>7, LaunchStep DEF Crash, outside, KeepsTrees

-----------------------------------------------------------------------------
\* The steps that change what is on record.

LEMMA CreateMetaStep ==
  ASSUME IInv, NEW p \in Launches, CreateMeta(p) PROVE IInv'
<1>1. launch[p] \in Launch /\ Local(p, launch[p]) /\ launch[p].pc = "staged"
  BY OneLaunch DEF CreateMeta, At
<1>2. PICK v \in Versions : launch[p].env = {v}
  BY <1>1 DEF Local, Held, Inside
<1>3. PICK o \in Out : launch[p].out = {o}
  BY <1>1 DEF Local
<1>4. /\ Env(p) = v /\ v.task \in Tasks
      /\ Certified(p, o) /\ MayChange(v.role, o.changed) /\ launch[p].attested = {v}
  BY <1>1, <1>2, <1>3, OneLaunch DEF Local, Attested
<1>5. CASE meta[v.task] # {} /\ meta' = meta /\ Goto(p, "cleanup")
  <2> DEFINE l == [launch[p] EXCEPT !.pc = "cleanup"]
  <2>1. launch' = [launch EXCEPT ![p] = l]
    BY <1>1, <1>5, OneLaunch DEF Goto
  <2>2. Local(p, l)
    BY <1>1 DEF Local, Launch, Pc, Inside, After, Left, Held, Attested, Calling
  <2>3. KeepsRecord(p, l)
    BY <1>1 DEF KeepsRecord, KeepsResult, Done, After, Left, Recording, Launch, Local
  <2>4. MayBeOpen(launch[p]) => MayBeOpen(l)
    BY <1>1 DEF MayBeOpen, Inside, Launch
  <2>5. /\ launch[p].pc \in Held <=> l.pc \in Held
        /\ l.pc \notin {"open", "working"} /\ (MustBeGone(l) => MustBeGone(launch[p]))
    BY <1>1 DEF Held, Inside, After, MustBeGone, Launch
  <2> QED
    BY <1>5, <2>1, <2>2, <2>3, <2>4, <2>5, QuietStep DEF CreateMeta, outside, KeepsTrees
<1> DEFINE m == [launch |-> p, env |-> v, digest |-> o.artifact, whole |-> FALSE]
<1>6. CASE meta[v.task] = {} /\ meta' = [meta EXCEPT ![v.task] = {m}] /\ Goto(p, "created")
  <2> DEFINE l == [launch[p] EXCEPT !.pc = "created"]
  <2>1. launch' = [launch EXCEPT ![p] = l]
    BY <1>1, <1>6, OneLaunch DEF Goto
  <2>2. Local(p, l)
    BY <1>1 DEF Local, Launch, Pc, Inside, After, Left, Held, Attested, Calling
  <2>3. KeepsResult(p, l)
    BY <1>1 DEF KeepsResult, Done, After, Left
  <2>4. TakesTurns(p, l)
    BY <1>1 DEF TakesTurns, CreateMeta, IInv, LockOK, Held, Inside, Launch
  <2>5. LetsOut(p, l)
    BY <1>1 DEF LetsOut, CreateMeta, guest, IInv, EgressOK, MayBeOpen, Inside, Launch
  <2>6. RunsJob(p, l)
    <3>1. job' = [job EXCEPT ![p] = job[p]] /\ job[p] \in {"none", "copied", "active", "over"}
      BY DEF IInv, JobOK, CreateMeta, guest
    <3> QED
      BY <1>1, <3>1 DEF RunsJob, MustBeGone, Launch
  <2>7. /\ launch' \in [Launches -> Launch] /\ launch'[p] = l
        /\ \A q \in Launches \ {p} : launch'[q] = launch[q]
        /\ file' \in [Paths -> Versions] /\ tree' \in [Launches -> SUBSET Digests]
        /\ LaunchesOK' /\ LockOK' /\ EgressOK' /\ JobOK' /\ ReturningOK' /\ AcceptedOK'
    BY <2>1, <2>2, <2>3, <2>4, <2>5, <2>6, LaunchMoves DEF CreateMeta, outside, KeepsTrees
  <2>8. /\ m \in Meta /\ meta \in [Tasks -> SUBSET Meta] /\ meta' \in [Tasks -> SUBSET Meta]
        /\ meta'[v.task] = {m} /\ \A t \in Tasks \ {v.task} : meta'[t] = meta[t]
    BY <1>3, <1>4, <1>6 DEF IInv, MetaOK, Meta, Out
  <2>9. /\ l.pc = "created" /\ l.env = {v} /\ l.attested = {v} /\ l.out = {o}
    BY <1>1, <1>2, <1>3, <1>4 DEF Launch
  <2>10. ASSUME NEW t \in Tasks, NEW n \in meta'[t] PROVE Recorded(t, n)'
    <3>1. CASE t = v.task
      <4>1. n = m /\ m.launch = p /\ m.env = v /\ m.digest = o.artifact
        BY <2>8, <2>10, <3>1
      <4> HIDE DEF l, m
      <4> QED
        BY <1>4, <2>7, <2>9, <3>1, <4>1 DEF Recorded, Done
    <3>2. CASE t # v.task
      <4>1. n \in meta[t] /\ n.launch \in Launches /\ Recorded(t, n)
        BY <2>8, <2>10, <3>2 DEF IInv, MetaOK, Meta
      <4>2. n.launch # p
        BY <1>1, <4>1 DEF Recorded, Done, After, Left
      <4> QED
        BY <2>7, <4>1, <4>2 DEF Recorded
    <3> QED
      BY <3>1, <3>2
  <2>11. ASSUME NEW q \in Launches, Recording(launch'[q]), NEW w \in launch'[q].env
         PROVE  meta'[w.task] # {} /\ \A n \in meta'[w.task] : n.launch = q
    <3>1. CASE q = p
      <4>1. w = v /\ m.launch = p
        BY <2>7, <2>9, <2>11, <3>1
      <4> HIDE DEF m
      <4> QED
        BY <2>8, <3>1, <4>1
    <3>2. CASE q # p
      <4>1. Recording(launch[q]) /\ w \in launch[q].env
        BY <2>7, <2>11, <3>2
      <4>2. meta[w.task] # {} /\ \A n \in meta[w.task] : n.launch = q
        BY <4>1 DEF IInv, MetaOK
      <4>3. w.task # v.task
        BY <1>6, <4>2
      <4>4. w.task \in Tasks
        BY <4>1, OneLaunch DEF Local, Recording, Held, Inside, After
      <4> QED
        BY <2>8, <4>2, <4>3, <4>4
    <3> QED
      BY <3>1, <3>2
  <2> QED
    BY <2>7, <2>8, <2>10, <2>11 DEF IInv, MetaOK
<1>7. meta[v.task] = {} \/ meta[v.task] # {}
  OBVIOUS
<1>8. {[launch |-> p, env |-> Env(p), digest |-> x.artifact, whole |-> FALSE] : x \in launch[p].out} = {m}
  BY <1>3, <1>4
<1> HIDE DEF m
<1> QED
  BY <1>4, <1>5, <1>6, <1>8 DEF CreateMeta

LEMMA FillMetaStep ==
  ASSUME IInv, NEW p \in Launches, FillMeta(p) PROVE IInv'
<1> DEFINE l == [launch[p] EXCEPT !.pc = "cleanup", !.good = TRUE]
<1>1. launch[p] \in Launch /\ Local(p, launch[p]) /\ launch[p].pc = "created"
  BY OneLaunch DEF FillMeta, At
<1>2. PICK v \in Versions : launch[p].env = {v}
  BY <1>1 DEF Local, Held, Inside
<1>3. Env(p) = v /\ v.task \in Tasks
  BY <1>2, OneLaunch
<1>4. launch' = [launch EXCEPT ![p] = l]
  BY <1>1, OneLaunch DEF FillMeta
<1>5. Local(p, l)
  BY <1>1 DEF Local, Launch, Pc, Inside, After, Left, Held, Attested, Calling
<1>6. KeepsResult(p, l)
  BY <1>1 DEF KeepsResult, Done, After, Left, Launch
<1>7. TakesTurns(p, l)
  BY <1>1 DEF TakesTurns, FillMeta, IInv, LockOK, Held, Inside, After, Launch
<1>8. LetsOut(p, l)
  BY <1>1 DEF LetsOut, FillMeta, guest, IInv, EgressOK, MayBeOpen, Inside, Launch
<1>9. RunsJob(p, l)
  <2>1. job' = [job EXCEPT ![p] = job[p]] /\ job[p] \in {"none", "copied", "active", "over"}
    BY DEF IInv, JobOK, FillMeta, guest
  <2> QED
    BY <1>1, <2>1 DEF RunsJob, MustBeGone, Launch
<1>10. /\ launch' \in [Launches -> Launch] /\ launch'[p] = l
       /\ \A q \in Launches \ {p} : launch'[q] = launch[q]
       /\ file' \in [Paths -> Versions] /\ tree' \in [Launches -> SUBSET Digests]
       /\ LaunchesOK' /\ LockOK' /\ EgressOK' /\ JobOK' /\ ReturningOK' /\ AcceptedOK'
  BY <1>4, <1>5, <1>6, <1>7, <1>8, <1>9, LaunchMoves DEF FillMeta, outside, KeepsTrees
<1> DEFINE filled == {[m EXCEPT !.whole = TRUE] : m \in meta[v.task]}
<1>11. /\ meta \in [Tasks -> SUBSET Meta]
       /\ meta' = [meta EXCEPT ![v.task] = filled]
  BY <1>3 DEF IInv, MetaOK, FillMeta
<1>12. \A n \in filled : n \in Meta /\ \E m \in meta[v.task] :
         m.launch = n.launch /\ m.env = n.env /\ m.digest = n.digest
  <2>1. ASSUME NEW n \in filled
        PROVE  n \in Meta /\ \E m \in meta[v.task] :
                 m.launch = n.launch /\ m.env = n.env /\ m.digest = n.digest
    <3>1. PICK m \in meta[v.task] : n = [m EXCEPT !.whole = TRUE]
      BY <2>1
    <3>2. m \in Meta
      BY <1>3, <1>11
    <3>3. n \in Meta /\ m.launch = n.launch /\ m.env = n.env /\ m.digest = n.digest
      BY <3>1, <3>2 DEF Meta
    <3> QED
      BY <3>3
  <2> QED
    BY <2>1
<1>13. meta[v.task] # {} => filled # {}
  OBVIOUS
<1> HIDE DEF filled
<1>14. /\ meta' \in [Tasks -> SUBSET Meta]
       /\ meta'[v.task] = filled /\ \A t \in Tasks \ {v.task} : meta'[t] = meta[t]
  BY <1>3, <1>11, <1>12
<1>15. \A t \in Tasks : \A n \in meta'[t] : n \in Meta /\ \E m \in meta[t] :
         m.launch = n.launch /\ m.env = n.env /\ m.digest = n.digest
  BY <1>11, <1>12, <1>14
<1>16. /\ l.pc \in Done /\ l.env = launch[p].env /\ l.attested = launch[p].attested
       /\ l.out = launch[p].out
  BY <1>1 DEF Launch, Done, After
<1> HIDE DEF l
<1>17. ASSUME NEW t \in Tasks, NEW n \in meta'[t] PROVE Recorded(t, n)'
  <2>1. PICK m \in meta[t] : m.launch = n.launch /\ m.env = n.env /\ m.digest = n.digest
    BY <1>15, <1>17
  <2>2. Recorded(t, m) /\ m.launch \in Launches
    BY <1>11, <2>1 DEF IInv, MetaOK, Meta
  <2>3. Recorded(t, n)
    BY <2>1, <2>2 DEF Recorded
  <2> QED
    BY <1>10, <1>16, <2>1, <2>2, <2>3 DEF Recorded
<1>18. ASSUME NEW q \in Launches, Recording(launch'[q]), NEW w \in launch'[q].env
       PROVE  meta'[w.task] # {} /\ \A n \in meta'[w.task] : n.launch = q
  <2>1. Recording(launch[q]) /\ launch'[q].env = launch[q].env
    BY <1>1, <1>10, <1>16, <1>18 DEF Recording
  <2>2. meta[w.task] # {} /\ \A n \in meta[w.task] : n.launch = q
    BY <1>18, <2>1 DEF IInv, MetaOK
  <2>3. w.task \in Tasks
    BY <1>18, <2>1, OneLaunch DEF Local, Recording, Held, Inside, After
  <2>4. meta'[w.task] # {}
    <3>1. CASE w.task = v.task
      BY <1>13, <1>14, <2>2, <3>1
    <3>2. CASE w.task # v.task
      BY <1>14, <2>2, <2>3, <3>2
    <3> QED
      BY <3>1, <3>2
  <2>5. ASSUME NEW n \in meta'[w.task] PROVE n.launch = q
    <3>1. PICK m \in meta[w.task] : m.launch = n.launch
      BY <1>15, <2>3, <2>5
    <3> QED
      BY <2>2, <3>1
  <2> QED
    BY <2>4, <2>5
<1> QED
  BY <1>10, <1>14, <1>17, <1>18 DEF IInv, MetaOK

-----------------------------------------------------------------------------
\* The steps of the others.

\* Whoever moves none of these keeps what the invariant says of the launches, the
\* records and what was accepted.
LEMMA NothingMoves ==
  ASSUME IInv, UNCHANGED <<launch, lock, egress, meta>>
  PROVE  /\ LaunchesOK' /\ LockOK' /\ EgressOK' /\ MetaOK'
         /\ job' = job => JobOK'
         /\ accepted' = accepted /\ rewritten \subseteq rewritten' => AcceptedOK'
<1>1. LaunchesOK' /\ LockOK' /\ EgressOK'
  BY DEF IInv, LaunchesOK, LockOK, EgressOK
<1>2. MetaOK'
  BY DEF IInv, MetaOK, Recorded
<1>3. job' = job => JobOK'
  BY DEF IInv, JobOK
<1>4. accepted' = accepted /\ rewritten \subseteq rewritten' => AcceptedOK'
  BY DEF IInv, AcceptedOK, Taken
<1> QED
  BY <1>1, <1>2, <1>3, <1>4

\* An acceptance that goes on goes by the same record.
LEMMA StillReturning ==
  ASSUME IInv, UNCHANGED launch, NEW a, a \in returning, NEW b,
         b.meta = a.meta, b.env = a.env, rewritten \subseteq rewritten',
         a.meta.launch \notin rewritten' => tree'[a.meta.launch] = tree[a.meta.launch]
  PROVE  Returning(b)'
<1>1. Returning(a)
  BY DEF IInv, ReturningOK
<1>2. Recorded(b.meta.env.task, b.meta)'
  BY <1>1 DEF Returning, Recorded
<1>3. b.meta.launch \notin rewritten' => Unchanged(b.meta)'
  BY <1>1 DEF Returning, Unchanged, ArtifactOf
<1> QED
  BY <1>1, <1>2, <1>3 DEF Returning

LEMMA GuestEndsStep ==
  ASSUME IInv, NEW p \in Launches, GuestEnds(p) PROVE IInv'
<1>1. JobOK'
  BY DEF IInv, JobOK, GuestEnds
<1>2. UNCHANGED <<file, launch, lock, egress, tree, meta, returning, rewritten, accepted>>
  BY DEF GuestEnds, outside
<1>3. ReturningOK'
  BY <1>2, StillReturning DEF ReturningOK
<1> QED
  BY <1>1, <1>2, <1>3, NothingMoves DEF IInv

\* What passes the validators is on record, with the artifact it was certified for.
LEMMA ValidateStep ==
  ASSUME IInv, NEW e \in Paths, Validate(e) PROVE IInv'
<1>1. PICK m \in meta[file[e].task] :
        /\ Bound(e, m) /\ file[e].role = "generator"
        /\ returning' = {[at |-> "valid", path |-> e, env |-> file[e], meta |-> m]}
  BY DEF Validate
<1>2. UNCHANGED <<file, launch, lock, egress, job, tree, meta, rewritten, accepted>>
  BY DEF Validate, guest
<1>3. file[e].task \in Tasks
  BY OneLaunch, BridgeAssumption DEF IInv
<1>4. m \in Meta /\ m.launch \in Launches /\ Recorded(file[e].task, m)
  BY <1>3 DEF IInv, MetaOK, Meta
<1>5. m.env = file[e] /\ Unchanged(m)
  BY <1>1 DEF Bound
<1>6. ReturningOK'
  <2>1. Recorded(m.env.task, m)' /\ Unchanged(m)'
    BY <1>2, <1>4, <1>5 DEF Recorded, Unchanged, ArtifactOf
  <2>2. ASSUME NEW CONSTANT b \in returning' PROVE Returning(b)'
    <3>1. b.meta = m /\ b.env = m.env
      BY <1>1, <1>5, <2>2
    <3> QED
      BY <1>1, <1>4, <1>5, <2>1, <3>1 DEF Returning
  <2> QED
    BY <2>2 DEF ReturningOK
<1> QED
  BY <1>2, <1>6, NothingMoves DEF IInv

LEMMA ReloadStep ==
  ASSUME IInv, NEW a \in returning, Reload(a) PROVE IInv'
<1> DEFINE b == [a EXCEPT !.at = "loaded"]
<1>1. UNCHANGED <<file, launch, lock, egress, job, tree, meta, rewritten, accepted>>
  BY DEF Reload, guest
<1>2. returning' = {b} /\ b.meta = a.meta /\ b.env = a.env
  BY DEF Reload, GoesOn
<1>3. ReturningOK'
  <2> HIDE DEF b
  <2> QED
    BY <1>1, <1>2, StillReturning DEF ReturningOK
<1> QED
  BY <1>1, <1>3, NothingMoves DEF IInv

\* A rewritten artifact is one the acceptance of its launch no longer counts on.
LEMMA Rewritten ==
  ASSUME IInv, NEW p \in Launches, NEW d \in Digests, Rewrite(p, d)
  PROVE  /\ tree' \in [Launches -> SUBSET Digests] /\ rewritten \subseteq rewritten'
         /\ \A a \in returning :
              a.meta.launch \notin rewritten' => tree'[a.meta.launch] = tree[a.meta.launch]
<1>1. tree \in [Launches -> SUBSET Digests] /\ tree' = [tree EXCEPT ![p] = {d}]
  BY DEF IInv, Rewrite
<1>2. rewritten \subseteq rewritten'
  BY DEF Rewrite
<1>3. ASSUME NEW a \in returning, a.meta.launch \notin rewritten'
      PROVE  tree'[a.meta.launch] = tree[a.meta.launch]
  <2>1. a.meta.launch \in Launches
    BY DEF IInv, ReturningOK, Returning
  <2>2. CASE a.meta.launch = p
    <3>1. Accepting(p)
      BY <2>2 DEF Accepting
    <3>2. tree[p] = {d}
      BY <1>3, <2>2, <3>1 DEF Rewrite
    <3> QED
      BY <1>1, <2>2, <3>2
  <2>3. CASE a.meta.launch # p
    BY <1>1, <2>1, <2>3
  <2> QED
    BY <2>2, <2>3
<1> QED
  BY <1>1, <1>2, <1>3

LEMMA RunL1Step ==
  ASSUME IInv, NEW a \in returning, RunL1(a) PROVE IInv'
<1> DEFINE b == [a EXCEPT !.at = "tested"]
<1>1. UNCHANGED <<file, launch, lock, egress, job, meta, accepted>>
  BY DEF RunL1, guest
<1>2. returning' = {b} /\ b.meta = a.meta /\ b.env = a.env
  BY DEF RunL1, GoesOn
<1>3. a.meta.launch \in Launches
  BY DEF IInv, ReturningOK, Returning
<1>4. PICK d \in Digests : Rewrite(a.meta.launch, d)
  BY DEF RunL1
<1>5. /\ tree' \in [Launches -> SUBSET Digests] /\ rewritten \subseteq rewritten'
      /\ a.meta.launch \notin rewritten' => tree'[a.meta.launch] = tree[a.meta.launch]
  BY <1>3, <1>4, Rewritten
<1>6. ReturningOK'
  <2> HIDE DEF b
  <2> QED
    BY <1>1, <1>2, <1>5, StillReturning DEF ReturningOK
<1> QED
  BY <1>1, <1>5, <1>6, NothingMoves DEF IInv

\* What is committed was validated, and is the certified artifact unless it was
\* rewritten.
LEMMA ApplyStep ==
  ASSUME IInv, NEW a \in returning, Apply(a) PROVE IInv'
<1>1. UNCHANGED <<file, launch, lock, egress, job, tree, meta, rewritten>> /\ returning' = {}
  BY DEF Apply, guest
<1>2. Returning(a)
  BY DEF IInv, ReturningOK
<1>3. ASSUME NEW d \in tree[a.meta.launch]
      PROVE  Taken([env |-> a.env, artifact |-> d, launch |-> a.meta.launch])'
  <2> DEFINE c == [env |-> a.env, artifact |-> d, launch |-> a.meta.launch]
  <2>1. c.env = a.meta.env /\ c.artifact = d /\ c.launch = a.meta.launch
    BY <1>2 DEF Returning
  <2>2. a.meta.launch \notin rewritten => d = a.meta.digest
    BY <1>2, <1>3 DEF Returning, Unchanged, ArtifactOf
  <2>3. Recorded(a.meta.env.task, a.meta) /\ a.meta.env.role = "generator"
    BY <1>2 DEF Returning
  <2>4. Taken(c)'
    <3> HIDE DEF c
    <3> QED
      BY <1>1, <2>1, <2>2, <2>3 DEF Recorded, Taken
  <2> QED
    BY <2>4
<1>4. \A x \in accepted' : x \in accepted \/ \E d \in tree[a.meta.launch] :
        x = [env |-> a.env, artifact |-> d, launch |-> a.meta.launch]
  BY DEF Apply, ArtifactOf
<1>5. \A x \in accepted : x.launch \in Launches /\ Taken(x)'
  BY <1>1 DEF IInv, AcceptedOK, Taken
<1>6. ASSUME NEW x \in accepted' PROVE x.launch \in Launches /\ Taken(x)'
  <2>1. CASE x \in accepted
    BY <1>5, <2>1
  <2>2. ASSUME NEW d \in tree[a.meta.launch],
               x = [env |-> a.env, artifact |-> d, launch |-> a.meta.launch]
        PROVE  x.launch \in Launches /\ Taken(x)'
    BY <1>2, <1>3, <2>2 DEF Returning
  <2> QED
    BY <1>4, <2>1, <2>2
<1>7. AcceptedOK' /\ ReturningOK'
  BY <1>1, <1>6 DEF AcceptedOK, ReturningOK
<1> QED
  BY <1>1, <1>7, NothingMoves DEF IInv

LEMMA AbandonStep ==
  ASSUME IInv, Abandon PROVE IInv'
<1>1. UNCHANGED <<file, launch, lock, egress, job, tree, meta, rewritten, accepted>>
      /\ returning' = {}
  BY DEF Abandon, guest
<1>2. ReturningOK'
  BY <1>1 DEF ReturningOK
<1> QED
  BY <1>1, <1>2, NothingMoves DEF IInv

LEMMA EditStep ==
  ASSUME IInv, Edit PROVE IInv'
<1>1. file' \in [Paths -> Versions]
  BY DEF IInv, Edit
<1>2. UNCHANGED <<launch, lock, egress, job, meta, returning, accepted>>
  BY DEF Edit, guest
<1>3. /\ tree' \in [Launches -> SUBSET Digests] /\ rewritten \subseteq rewritten'
      /\ \A a \in returning :
           a.meta.launch \notin rewritten' => tree'[a.meta.launch] = tree[a.meta.launch]
  <2>1. CASE UNCHANGED <<tree, rewritten>>
    BY <2>1 DEF IInv
  <2>2. CASE \E p \in Launches, d \in Digests : Rewrite(p, d)
    BY <2>2, Rewritten
  <2> QED
    BY <2>1, <2>2 DEF Edit
<1>4. ReturningOK'
  BY <1>2, <1>3, StillReturning DEF ReturningOK
<1> QED
  BY <1>1, <1>2, <1>3, <1>4, NothingMoves DEF IInv

-----------------------------------------------------------------------------
LEMMA IInvInit == Init => IInv
<1> SUFFICES ASSUME Init PROVE IInv
  OBVIOUS
<1> USE DEF Init
<1>1. PICK path \in [Launches -> Paths] :
        launch = [p \in Launches |->
          [pc |-> "off", path |-> path[p], name |-> {}, env |-> {}, attested |-> {}, lease |-> FALSE,
           opened |-> FALSE, good |-> FALSE, reset |-> TRUE, out |-> {}]]
  OBVIOUS
<1>2. \A p \in Launches :
        /\ launch[p] = [pc |-> "off", path |-> path[p], name |-> {}, env |-> {}, attested |-> {},
             lease |-> FALSE, opened |-> FALSE, good |-> FALSE, reset |-> TRUE, out |-> {}]
        /\ launch[p] \in Launch
  BY <1>1 DEF Launch, Pc, Before
<1>3. LaunchesOK
  BY <1>1, <1>2 DEF LaunchesOK, Local, Held, Inside, After, Attested, Calling
<1>4. LockOK
  BY <1>2 DEF LockOK, Held, Inside, After
<1>5. EgressOK
  BY <1>2 DEF EgressOK
<1>6. JobOK
  BY <1>2 DEF JobOK, MustBeGone
<1>7. MetaOK
  BY <1>2 DEF MetaOK, Recording
<1> QED
  BY <1>3, <1>4, <1>5, <1>6, <1>7 DEF IInv, ReturningOK, AcceptedOK

LEMMA IInvInduction == IInv /\ [Next]_vars => IInv'
<1> SUFFICES ASSUME IInv, [Next]_vars PROVE IInv'
  OBVIOUS
<1>1. ASSUME NEW p \in Launches, Name(p) \/ Step(p) \/ Fail(p) \/ GuestEnds(p) \/ Crash(p)
      PROVE  IInv'
  <2>1. CASE Name(p) \/ Fail(p) \/ GuestEnds(p) \/ Crash(p)
    BY <2>1, NameStep, FailStep, GuestEndsStep, CrashStep
  <2>2. CASE Snapshot(p) \/ Freeze(p) \/ Acquire(p) \/ CopyIn(p) \/ Attest(p)
    BY <2>2, SnapshotStep, FreezeStep, AcquireStep, CopyInStep, AttestStep
  <2>3. CASE ResetEgress(p) \/ OpenEgress(p) \/ StartWorker(p) \/ WorkerReturns(p)
    BY <2>3, ResetEgressStep, OpenEgressStep, StartWorkerStep, WorkerReturnsStep
  <2>4. CASE (\E o \in Outs[p] : Copyout(p, o)) \/ CheckReceipt(p) \/ Reconcile(p)
    BY <2>4, CopyoutStep, CheckReceiptStep, ReconcileStep
  <2>5. CASE CreateMeta(p) \/ FillMeta(p) \/ Cleanup(p) \/ Restore(p) \/ Release(p)
    BY <2>5, CreateMetaStep, FillMetaStep, CleanupStep, RestoreStep, ReleaseStep
  <2> QED
    BY <1>1, <2>1, <2>2, <2>3, <2>4, <2>5 DEF Step
<1>2. ASSUME NEW e \in Paths, Validate(e) PROVE IInv'
  BY <1>2, ValidateStep
<1>3. ASSUME NEW a \in returning, Reload(a) \/ RunL1(a) \/ Apply(a) PROVE IInv'
  BY <1>3, ReloadStep, RunL1Step, ApplyStep
<1>4. CASE Abandon
  BY <1>4, AbandonStep
<1>5. CASE Edit
  BY <1>5, EditStep
<1>6. CASE UNCHANGED vars
  BY <1>6, NothingMoves DEF vars, IInv, ReturningOK, Returning, Unchanged, ArtifactOf, Recorded
<1> QED
  BY <1>1, <1>2, <1>3, <1>4, <1>5, <1>6 DEF Next

\* The invariant that the theorems below rest on: how far each launch has come,
\* what the lock, the firewall and the guest owe to it, and whose the records are.
THEOREM BridgeInvariant == Spec => []IInv
<1>1. Init => IInv
  BY IInvInit
<1>2. IInv /\ [Next]_vars => IInv'
  BY IInvInduction
<1> QED
  BY <1>1, <1>2, PTL DEF Spec

\* The VM belongs to one launch at a time; a living launch's worker runs under
\* its own egress and lease, and only a crash or an unreachable firewall leaves
\* an egress open.
THEOREM TheVMIsHeld == Spec => []VMIsHeld
<1>1. IInv => VMIsHeld
  <2> SUFFICES ASSUME IInv PROVE VMIsHeld
    OBVIOUS
  <2>1. Cardinality(lock) <= 1
    <3>1. CASE lock = {}
      BY <3>1, FS_EmptySet
    <3>2. ASSUME NEW p \in lock PROVE Cardinality(lock) <= 1
      <4>1. lock = {p}
        BY DEF IInv, LockOK
      <4>2. Cardinality({p}) = 1
        BY FS_Singleton
      <4>3. Cardinality(lock) = 1
        BY <4>1, <4>2, Zenon
      <4> QED
        BY <4>3
    <3> QED
      BY <3>1, <3>2
  <2>2. ASSUME NEW p \in Launches
        PROVE  /\ At(p, "working") => egress = {p} /\ lock = {p} /\ launch[p].lease
               /\ p \in egress => p \in lock \/ At(p, "crashed") \/ ~launch[p].reset
               /\ launch[p].lease => p \in lock
    <3>1. Local(p, launch[p])
      BY OneLaunch
    <3>2. At(p, "working") => egress = {p} /\ lock = {p} /\ launch[p].lease
      BY <3>1 DEF At, IInv, LockOK, EgressOK, Local, Calling, Held, Inside
    <3>3. p \in egress => p \in lock \/ At(p, "crashed") \/ ~launch[p].reset
      BY DEF At, IInv, LockOK, EgressOK, MayBeOpen, Held, After
    <3>4. launch[p].lease => p \in lock
      BY <3>1 DEF IInv, LockOK, Local, Calling, Held, Inside
    <3> QED
      BY <3>2, <3>3, <3>4
  <2> QED
    BY <2>1, <2>2 DEF VMIsHeld
<1> QED
  BY <1>1, BridgeInvariant, PTL

\* A record is of the envelope its launch snapshotted and attested, of the
\* artifact its receipt certifies, and of no change its role may not make.
THEOREM TheRecordIsBound == Spec => []ReturnedIsBound
<1>1. IInv => ReturnedIsBound
  <2> SUFFICES ASSUME IInv, NEW t \in Tasks, NEW m \in meta[t]
               PROVE  LET l == launch[m.launch] IN
                      /\ l.env = {m.env} /\ l.attested = {m.env} /\ m.env.task = t
                      /\ \A o \in l.out :
                           /\ o.receipt = [launch |-> m.launch, digest |-> m.digest, terminal |-> TRUE]
                           /\ o.artifact = m.digest
                           /\ "control" \notin o.changed
                           /\ m.env.role # "generator" => o.changed = {}
    BY DEF ReturnedIsBound
  <2> DEFINE l == launch[m.launch]
  <2>1. Recorded(t, m)
    BY DEF IInv, MetaOK
  <2>2. l.env = {m.env} /\ l.attested = {m.env} /\ m.env.task = t
    BY <2>1 DEF Recorded
  <2>3. ASSUME NEW o \in l.out
        PROVE  Certified(m.launch, o) /\ o.artifact = m.digest /\ MayChange(m.env.role, o.changed)
    BY <2>1 DEF Recorded
  <2> QED
    BY <2>2, <2>3 DEF Certified, MayChange
<1> QED
  BY <1>1, BridgeInvariant, PTL

\* A launch that returns has left no job in the VM and no way out of it, and no
\* other launch returns a result for its task.
THEOREM AReturnIsClean == Spec => []SuccessIsClean
<1>1. IInv => SuccessIsClean
  <2> SUFFICES ASSUME IInv, NEW p \in Launches, At(p, "returned")
               PROVE  /\ job[p] = "none" /\ p \notin egress
                      /\ \A q \in Launches \ {p} : At(q, "returned") => Env(q).task # Env(p).task
    BY DEF SuccessIsClean
  <2>1. job[p] = "none" /\ p \notin egress
    BY DEF At, IInv, JobOK, MustBeGone, EgressOK, MayBeOpen, Inside
  <2>2. ASSUME NEW q \in Launches, At(q, "returned")
        PROVE  /\ Env(q) \in launch[q].env /\ Env(q).task \in Tasks
               /\ meta[Env(q).task] # {} /\ \A m \in meta[Env(q).task] : m.launch = q
    <3>1. PICK v \in Versions : launch[q].env = {v}
      BY <2>2, OneLaunch DEF At, Local
    <3>2. Env(q) = v /\ v.task \in Tasks
      BY <3>1, OneLaunch
    <3> QED
      BY <2>2, <3>1, <3>2 DEF At, IInv, MetaOK, Recording
  <2>3. ASSUME NEW q \in Launches \ {p}, At(q, "returned") PROVE Env(q).task # Env(p).task
    BY <2>2, <2>3
  <2> QED
    BY <2>1, <2>3
<1> QED
  BY <1>1, BridgeInvariant, PTL

\* What is accepted was attested, run and certified by one launch, for a
\* generator, with no control file in it; the artifact committed is the certified
\* one unless it was rewritten between the validation and the copy.
THEOREM AnAcceptanceIsCertified == Spec => []AcceptedIsReturned
<1>1. IInv => AcceptedIsReturned
  <2> SUFFICES ASSUME IInv, NEW a \in accepted
               PROVE  /\ a.env.role = "generator" /\ launch[a.launch].attested = {a.env}
                      /\ \E o \in Out :
                           /\ launch[a.launch].out = {o}
                           /\ o.receipt = [launch |-> a.launch, digest |-> o.artifact, terminal |-> TRUE]
                           /\ "control" \notin o.changed
                           /\ a.launch \notin rewritten => a.artifact = o.artifact
    BY DEF AcceptedIsReturned
  <2>1. a.launch \in Launches /\ Taken(a)
    BY DEF IInv, AcceptedOK
  <2>2. PICK o \in Out : launch[a.launch].out = {o}
    BY <2>1, OneLaunch DEF Local, Taken
  <2>3. Certified(a.launch, o) /\ MayChange("generator", o.changed)
    BY <2>1, <2>2 DEF Taken
  <2>4. a.launch \notin rewritten => a.artifact = o.artifact
    BY <2>1, <2>2 DEF Taken
  <2>5. "control" \notin o.changed
    BY <2>3 DEF MayChange
  <2> QED
    BY <2>1, <2>2, <2>3, <2>4, <2>5 DEF Taken, Certified
<1> QED
  BY <1>1, BridgeInvariant, PTL

=============================================================================
