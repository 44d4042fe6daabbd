-------------------------------- MODULE Bridge --------------------------------
(***************************************************************************)
(* The launches of the VM bridge provider (vm-bridge-provider.py) and the  *)
(* acceptance of what they return (accept-generator-handoff.sh with        *)
(* validate-external-bridge-receipt.py).  A launch freezes its inputs into *)
(* a private directory, takes the one VM, copies them in, attests them,    *)
(* opens a broker lease and the egress to it, runs the guest's worker,     *)
(* copies the tree and the receipt out, reconciles them with the           *)
(* commissioned tree, records the run and leaves the VM as it found it.    *)
(*                                                                         *)
(* Meanwhile the files it was given may be edited, another launch may run, *)
(* and a provider process may die anywhere: its lock and its broker die    *)
(* with it, the guest's unit does not.  What a guest may return is         *)
(* anything at all: Guest says what the honest one returns, Broker what    *)
(* the lease does.                                                         *)
(***************************************************************************)
EXTENDS Naturals, FiniteSets

CONSTANTS
  Launches,      \* launches of the provider
  Tasks,         \* task ids
  Paths,         \* the envelope files
  Versions,      \* what an envelope file may hold
  Digests,       \* contents of the artifact
  BaseArtifact,  \* the artifact in the commissioned tree, {} or one content
  Outs,          \* what the guest of each launch may return
  MaxEdits       \* bound: how often something is changed behind a launch's back

Role == {"planner", "generator", "evaluator"}

\* A guest's receipt names the launch whose nonce and attestation it carries.
Receipt == [launch : Launches, digest : Digests, terminal : BOOLEAN]
Out == [artifact : Digests, receipt : Receipt, changed : SUBSET {"source", "control"}]

ASSUME BridgeAssumption ==
  /\ Outs \in [Launches -> SUBSET Out]
  /\ IsFiniteSet(Launches) /\ MaxEdits \in Nat
  /\ Versions \subseteq [task : Tasks, role : Role, draft : Nat]
  /\ BaseArtifact \subseteq Digests

VARIABLES
  file,      \* what every envelope file holds
  route,     \* whether the active route is the expected one
  edits,     \* how often one of these, or a returned tree, was changed
  launch,    \* the launches
  lock,      \* who holds .launch.lock
  job,       \* the guest's job of every launch
  egress,    \* whose broker the VM's firewall lets out to
  tree,      \* the artifact in the staging worktree of every launch
  meta,      \* run-meta-<task>.json
  returning, \* the acceptance the coordinator is at: it runs one at a time
  rewritten, \* history: launches whose artifact was changed while it was accepted
  accepted   \* what the coordinator has accepted

vars == <<file, route, edits, launch, lock, job, egress, tree, meta, returning,
          rewritten, accepted>>
outside == <<file, route, edits, returning, rewritten, accepted>>
guest == <<job, egress>>

Before == {"off", "named", "snapped", "frozen"}
Inside == {"ready", "copied", "attested", "reset", "open", "working",
           "worked", "streamed", "checked", "staged", "created"}
After == {"cleanup", "baseline", "release"}
Left == {"returned", "failed", "crashed"}

Init ==
  /\ file \in [Paths -> Versions]
  /\ route = TRUE /\ edits = 0
  /\ \E path \in [Launches -> Paths] :
       launch = [p \in Launches |->
         [pc |-> "off", path |-> path[p], name |-> {}, env |-> {}, attested |-> {}, lease |-> FALSE,
          opened |-> FALSE, good |-> FALSE, reset |-> TRUE, out |-> {}]]
  /\ lock = {} /\ job = [p \in Launches |-> "none"] /\ egress = {}
  /\ tree = [p \in Launches |-> {}] /\ meta = [t \in Tasks |-> {}]
  /\ returning = {} /\ rewritten = {} /\ accepted = {}

-----------------------------------------------------------------------------
At(p, pc) == launch[p].pc = pc
Goto(p, pc) == launch' = [launch EXCEPT ![p].pc = pc]
Holds(p) == launch[p].pc \in Inside \cup After
Env(p) == CHOOSE v \in launch[p].env : TRUE

\* What a launch finds around it: an envelope file, read whole through one
\* descriptor, the route of its target, and the commissioned tree at its ref.  Its
\* bundle may have the pinned digest or not, its VM be the configured one or not.
Read(path) == file[path]
RouteStands == route
BundleTrusted == BOOLEAN
VMReady == BOOLEAN
Commissioned == BaseArtifact

-----------------------------------------------------------------------------
\* Before the lock.

\* The first read of the envelope gives the run directory its name, and nothing
\* else; the provider may not be configured.
Name(p) ==
  /\ At(p, "off")
  /\ launch' = [launch EXCEPT ![p].name = {Read(launch[p].path).task},
                              ![p].pc = "named"]
       \/ Goto(p, "failed")
  /\ UNCHANGED <<outside, lock, guest, tree, meta>>

\* The envelope is copied through one descriptor; the role, the task, the batch,
\* the ref and the artifact are read from the copy, whose task must be the one
\* the run directory was named for.
Snapshot(p) ==
  /\ At(p, "named")
  /\ LET v == Read(launch[p].path) IN
       launch' = [launch EXCEPT ![p].env = {v},
                    ![p].pc = IF launch[p].name = {v.task} THEN "snapped" ELSE "failed"]
  /\ UNCHANGED <<outside, lock, guest, tree, meta>>

\* The target is resolved again and must be the expected one, allow the role and
\* keep the timeout; the bundle must still have the pinned digest; the target,
\* the bundle and the runners are copied.
Freeze(p) ==
  /\ At(p, "snapped")
  /\ \E trusted \in BundleTrusted :
       Goto(p, IF RouteStands /\ trusted THEN "frozen" ELSE "failed")
  /\ UNCHANGED <<outside, lock, guest, tree, meta>>

\* Mutant: the lock is not exclusive.
TakeVM(p) ==
  /\ At(p, "frozen")
  /\ lock' = lock \cup {p} /\ Goto(p, "ready")
  /\ UNCHANGED <<outside, guest, tree, meta>>

\* The lock is waited for, with a bound; then the VM must answer and be the
\* configured one.
Acquire(p) ==
  /\ At(p, "frozen")
  /\ \/ \E ready \in VMReady :
          lock = {} /\ ready /\ lock' = {p} /\ Goto(p, "ready")
     \/ lock' = lock /\ Goto(p, "failed")
  /\ UNCHANGED <<outside, guest, tree, meta>>

-----------------------------------------------------------------------------
\* Under the lock.

\* The archive and the baseline are made first.  The guest counts as touched
\* before the copy starts: it may fail half way.
CopyIn(p) ==
  /\ At(p, "ready")
  /\ job' = [job EXCEPT ![p] = "copied"]
  /\ \E pc \in {"copied", "cleanup"} : Goto(p, pc)
  /\ UNCHANGED <<outside, lock, egress, tree, meta>>

\* The attestation binds the digest of the copy.
Attestation(p) == launch[p].env

Attest(p) ==
  /\ At(p, "copied")
  /\ launch' = [launch EXCEPT ![p].pc = "attested", ![p].attested = Attestation(p)]
  /\ UNCHANGED <<outside, lock, guest, tree, meta>>

\* The broker's lease is opened, then the firewall is brought to its baseline.
ResetEgress(p) ==
  /\ At(p, "attested")
  /\ egress' = {}
  /\ launch' = [launch EXCEPT ![p].pc = "reset", ![p].lease = TRUE, ![p].opened = TRUE]
  /\ UNCHANGED <<outside, lock, job, tree, meta>>

OpenEgress(p) ==
  /\ At(p, "reset")
  /\ egress' = {p} /\ Goto(p, "open")
  /\ UNCHANGED <<outside, lock, job, tree, meta>>

StartWorker(p) ==
  /\ At(p, "open")
  /\ job' = [job EXCEPT ![p] = "active"] /\ Goto(p, "working")
  /\ UNCHANGED <<outside, lock, egress, tree, meta>>

\* The unit ends by itself, by its RuntimeMaxSec at the latest, whether or not
\* its provider is still there.
GuestEnds(p) ==
  /\ job[p] = "active"
  /\ job' = [job EXCEPT ![p] = "over"]
  /\ UNCHANGED <<outside, launch, lock, egress, tree, meta>>

WorkerReturns(p) ==
  /\ At(p, "working") /\ job[p] = "over"
  /\ Goto(p, "worked")
  /\ UNCHANGED <<outside, lock, guest, tree, meta>>

Copyout(p, o) ==
  /\ At(p, "worked")
  /\ launch' = [launch EXCEPT ![p].pc = "streamed", ![p].out = {o}]
  /\ UNCHANGED <<outside, lock, guest, tree, meta>>

\* What came out, as it lies in the private directory it is extracted to.
Extracted(p) == launch[p].out

\* Mutant: the receipt is not compared with the launch's attestation.
CheckReceiptShape(p) ==
  /\ At(p, "streamed")
  /\ \E o \in Extracted(p) :
       LET fits == o.receipt.terminal /\ o.receipt.digest = o.artifact
       IN  launch' = [launch EXCEPT ![p].pc = IF fits THEN "checked" ELSE "cleanup",
                                    ![p].lease = FALSE]
  /\ UNCHANGED <<outside, lock, guest, tree, meta>>

\* The lease is closed, then the receipt is compared with the attestation and
\* with the tree that was copied out.
CheckReceipt(p) ==
  /\ At(p, "streamed")
  /\ \E o \in Extracted(p) :
       LET fits == o.receipt.terminal /\ o.receipt.launch = p /\ o.receipt.digest = o.artifact
       IN  launch' = [launch EXCEPT ![p].pc = IF fits THEN "checked" ELSE "cleanup",
                                    ![p].lease = FALSE]
  /\ UNCHANGED <<outside, lock, guest, tree, meta>>

MayChange(role, changed) ==
  IF role = "generator" THEN "control" \notin changed ELSE changed = {}

Applied(o) == {o.artifact}

\* The commissioned tree is checked out again and what may have changed is
\* applied to it; the artifact replaces what was at its path.
Reconcile(p) ==
  /\ At(p, "checked")
  /\ \E o \in Extracted(p) :
       \/ /\ MayChange(Env(p).role, o.changed)
          /\ tree' = [tree EXCEPT ![p] = Applied(o)]
          /\ Goto(p, "staged")
       \/ /\ ~MayChange(Env(p).role, o.changed)
          /\ tree' = [tree EXCEPT ![p] = Commissioned]
          /\ Goto(p, "cleanup")
  /\ UNCHANGED <<outside, lock, guest, meta>>

\* The record is created exclusively, then written.
CreateMeta(p) ==
  /\ At(p, "staged")
  /\ LET t == Env(p).task IN
       \/ /\ meta[t] = {}
          /\ meta' = [meta EXCEPT ![t] =
               {[launch |-> p, env |-> Env(p), digest |-> o.artifact, whole |-> FALSE] : o \in launch[p].out}]
          /\ Goto(p, "created")
       \/ meta[t] # {} /\ meta' = meta /\ Goto(p, "cleanup")
  /\ UNCHANGED <<outside, lock, guest, tree>>

FillMeta(p) ==
  /\ At(p, "created")
  /\ meta' = [meta EXCEPT ![Env(p).task] = {[m EXCEPT !.whole = TRUE] : m \in @}]
  /\ launch' = [launch EXCEPT ![p].pc = "cleanup", ![p].good = TRUE]
  /\ UNCHANGED <<outside, lock, guest, tree>>

\* Any step under the lock may fail; an open lease is closed on the way out.
Fail(p) ==
  /\ launch[p].pc \in Inside
  /\ launch' = [launch EXCEPT ![p].pc = "cleanup", ![p].lease = FALSE]
  /\ UNCHANGED <<outside, lock, guest, tree, meta>>

-----------------------------------------------------------------------------
\* The way out.

\* Mutant: what is still running is not a failure.
CleanupHoping(p) ==
  /\ At(p, "cleanup")
  /\ job' \in {job, [job EXCEPT ![p] = "none"]}
  /\ Goto(p, "baseline")
  /\ UNCHANGED <<outside, lock, egress, tree, meta>>

\* Mutant: the cleanup waits for the job instead of stopping it.
CleanupAwaiting(p) ==
  /\ At(p, "cleanup") /\ job[p] \in {"none", "over"}
  /\ job' = [job EXCEPT ![p] = "none"] /\ Goto(p, "baseline")
  /\ UNCHANGED <<outside, lock, egress, tree, meta>>

\* Whatever reached the guest is stopped and removed; the units must be seen
\* inactive and the job's directory gone.
Cleanup(p) ==
  /\ At(p, "cleanup")
  /\ \/ job' = [job EXCEPT ![p] = "none"] /\ Goto(p, "baseline")
     \/ /\ job[p] # "none" /\ job' = job
        /\ launch' = [launch EXCEPT ![p].pc = "baseline", ![p].good = FALSE]
  /\ UNCHANGED <<outside, lock, egress, tree, meta>>

\* The firewall's baseline is restored whether or not the cleanup was proven.
Restore(p) ==
  /\ At(p, "baseline")
  /\ \/ ~launch[p].opened /\ egress' = egress /\ Goto(p, "release")
     \/ launch[p].opened /\ egress' = {} /\ Goto(p, "release")
     \/ /\ launch[p].opened /\ egress' = egress
        /\ launch' = [launch EXCEPT ![p].pc = "release", ![p].good = FALSE, ![p].reset = FALSE]
  /\ UNCHANGED <<outside, lock, job, tree, meta>>

Release(p) ==
  /\ At(p, "release")
  /\ lock' = lock \ {p}
  /\ launch' = [launch EXCEPT ![p].pc = IF launch[p].good THEN "returned" ELSE "failed",
                              ![p].opened = FALSE, ![p].good = FALSE]
  /\ UNCHANGED <<outside, guest, tree, meta>>

Crash(p) ==
  /\ launch[p].pc \notin Left \cup {"off"}
  /\ lock' = lock \ {p}
  /\ launch' = [launch EXCEPT ![p].pc = "crashed", ![p].lease = FALSE,
                              ![p].opened = FALSE, ![p].good = FALSE]
  /\ UNCHANGED <<outside, guest, tree, meta>>

-----------------------------------------------------------------------------
\* The coordinator.

\* The active target of the mode, and the artifact of a result where its launch
\* left it.
ModeRoute == route
ArtifactOf(m) == tree[m.launch]
Unchanged(m) == ArtifactOf(m) = {m.digest}

\* Mutant: the result is compared with its own record only.
BoundToMeta(e, m) ==
  m.whole /\ ModeRoute /\ m.env.task = file[e].task /\ Unchanged(m)

\* The result must be for the envelope as it is now, at the path it was launched
\* from, of a route the mode still has, with the artifact unchanged.  An
\* attestation whose TTL has run out is refused too: that acceptance is not taken.
Bound(e, m) ==
  /\ m.whole /\ ModeRoute
  /\ m.env = file[e] /\ launch[m.launch].attested = {file[e]}
  /\ launch[m.launch].path = e
  /\ Unchanged(m)

\* The checkout stays at the commissioned ref until an acceptance is committed.
AtRef == accepted = {}

\* The validators hash the artifact and the envelope.
Validate(e) ==
  /\ returning = {}
  /\ \E m \in meta[file[e].task] :
       /\ Bound(e, m) /\ file[e].role = "generator"
       /\ returning' = {[at |-> "valid", path |-> e, env |-> file[e], meta |-> m]}
  /\ UNCHANGED <<file, route, edits, launch, lock, guest, tree, meta, rewritten, accepted>>

GoesOn(a, at) == returning' = {[a EXCEPT !.at = at]}

\* The envelope is read again, and compared with the record by role, task, batch and
\* ref: the rest of it, which draft stands for, is not compared.
Reload(a) ==
  /\ a.at = "valid" /\ AtRef
  /\ file[a.path].role = "generator" /\ file[a.path].task = a.meta.env.task
  /\ GoesOn(a, "loaded")
  /\ UNCHANGED <<file, route, edits, launch, lock, guest, tree, meta, rewritten, accepted>>

\* The artifact of a launch is overwritten in its staging worktree.
Accepting(p) == \E a \in returning : a.meta.launch = p

Rewrite(p, d) ==
  /\ tree' = [tree EXCEPT ![p] = {d}]
  /\ rewritten' = rewritten \cup (IF Accepting(p) /\ tree[p] # {d} THEN {p} ELSE {})

\* The L1 commands run in the staging worktree, and what they leave there is
\* taken: the diff is made anew after them, without the artifact.
RunL1(a) ==
  /\ a.at = "loaded"
  /\ \E d \in Digests : Rewrite(a.meta.launch, d)
  /\ GoesOn(a, "tested")
  /\ UNCHANGED <<file, route, edits, launch, lock, guest, meta, accepted>>

\* The diff is applied to a clean checkout at the ref, the artifact copied as it
\* then stands, and both are committed.
Apply(a) ==
  /\ a.at = "tested" /\ AtRef
  /\ accepted' = accepted \cup
       {[env |-> a.env, artifact |-> d, launch |-> a.meta.launch] : d \in ArtifactOf(a.meta)}
  /\ returning' = {}
  /\ UNCHANGED <<file, route, edits, launch, lock, guest, tree, meta, rewritten>>

\* A check refuses, a command fails, the script is interrupted or was only to
\* check (no --apply).
Abandon ==
  /\ returning # {} /\ returning' = {}
  /\ UNCHANGED <<file, route, edits, launch, lock, guest, tree, meta, rewritten, accepted>>

-----------------------------------------------------------------------------
\* What others change: an envelope file, the registry, the artifact in a staging
\* worktree.

Edit ==
  /\ edits < MaxEdits /\ edits' = edits + 1
  /\ \/ /\ \E e \in Paths, v \in Versions : file' = [file EXCEPT ![e] = v]
        /\ UNCHANGED <<route, tree, rewritten>>
     \/ /\ route' = FALSE
        /\ UNCHANGED <<file, tree, rewritten>>
     \/ /\ \E p \in Launches, d \in Digests : tree[p] # {} /\ Rewrite(p, d)
        /\ UNCHANGED <<file, route>>
  /\ UNCHANGED <<launch, lock, guest, meta, returning, accepted>>

-----------------------------------------------------------------------------
Step(p) ==
  \/ Snapshot(p) \/ Freeze(p) \/ Acquire(p)
  \/ CopyIn(p) \/ Attest(p) \/ ResetEgress(p) \/ OpenEgress(p)
  \/ StartWorker(p) \/ WorkerReturns(p) \/ (\E o \in Outs[p] : Copyout(p, o))
  \/ CheckReceipt(p) \/ Reconcile(p) \/ CreateMeta(p) \/ FillMeta(p)
  \/ Cleanup(p) \/ Restore(p) \/ Release(p)

Next ==
  \/ \E p \in Launches : Name(p) \/ Step(p) \/ Fail(p) \/ GuestEnds(p) \/ Crash(p)
  \/ \E e \in Paths : Validate(e)
  \/ \E a \in returning : Reload(a) \/ RunL1(a) \/ Apply(a)
  \/ Abandon
  \/ Edit

Spec == Init /\ [][Next]_vars

\* A provider that was started runs, and the unit's RuntimeMaxSec ends the
\* guest's job; nobody has to launch, edit or accept anything.
FairSpec == Spec /\ \A p \in Launches : WF_vars(Step(p)) /\ WF_vars(GuestEnds(p))

-----------------------------------------------------------------------------
\* The VM belongs to one launch at a time: a worker whose provider lives runs
\* under the egress to its own broker, with the lease open, and no egress stays
\* open behind a launch that has left, unless its provider died or could not
\* reach the firewall.
VMIsHeld ==
  /\ Cardinality(lock) <= 1
  /\ \A p \in Launches :
       /\ At(p, "working") => egress = {p} /\ lock = {p} /\ launch[p].lease
       /\ p \in egress => p \in lock \/ At(p, "crashed") \/ ~launch[p].reset
       /\ launch[p].lease => p \in lock

\* A recorded result is what its own launch attested and ran: the envelope that
\* was snapshotted, whatever happened to the file, the artifact its receipt
\* certifies, and no change its role may not make.
ReturnedIsBound ==
  \A t \in Tasks : \A m \in meta[t] :
    LET l == launch[m.launch] IN
      /\ l.env = {m.env} /\ l.attested = {m.env} /\ m.env.task = t
      /\ \A o \in l.out :
           /\ o.receipt = [launch |-> m.launch, digest |-> m.digest, terminal |-> TRUE]
           /\ o.artifact = m.digest
           /\ "control" \notin o.changed
           /\ m.env.role # "generator" => o.changed = {}

\* A launch that returns has left nothing in the VM, and is the only one to
\* return a result for its task ("A successful launch must prove its cgroups
\* are inactive and guest root is gone", _cleanup_guest_job).
SuccessIsClean ==
  \A p \in Launches : At(p, "returned") =>
    /\ job[p] = "none" /\ p \notin egress
    /\ \A q \in Launches \ {p} : At(q, "returned") => Env(q).task # Env(p).task

\* What is accepted was returned: the envelope the acceptance was validated for
\* is a generator's, was attested and run by the launch named, and that launch
\* has one output, certified by its own receipt and free of control files.  The
\* artifact that is committed is the certified one, whatever happened to it
\* before, unless somebody rewrote it between the validation and the copy, as the
\* L1 commands of the acceptance itself may.
AcceptedIsReturned ==
  \A a \in accepted :
    /\ a.env.role = "generator" /\ launch[a.launch].attested = {a.env}
    /\ \E o \in Out :
         /\ launch[a.launch].out = {o}
         /\ o.receipt = [launch |-> a.launch, digest |-> o.artifact, terminal |-> TRUE]
         /\ "control" \notin o.changed
         /\ a.launch \notin rewritten => a.artifact = o.artifact

\* A claim the code does not keep (see the README, "Disagreements"), of the
\* comment over the copy in accept-generator-handoff.sh: the handoff preserved
\* with the accepted diff is exactly the validated one.
PreservesTheValidated ==
  \A a \in accepted : \A o \in launch[a.launch].out : a.artifact = o.artifact

\* A launch that has begun ends: it waits for the lock with a bound, and every
\* other wait is on something with a timeout.
LaunchEnds ==
  \A p \in Launches : launch[p].pc \notin Left \cup {"off"} ~> launch[p].pc \in Left

=============================================================================
