-------------------------------- MODULE Runner --------------------------------
(***************************************************************************)
(* The A2A runner (framework/templates/claude/dispatch/transports/         *)
(* a2a-runner.py): a task store on disk, an executor with one thread and   *)
(* one process group per task, cancellation, event streams, a bounded      *)
(* shutdown, and a start that reconciles what an earlier runner left.      *)
(*                                                                         *)
(* One runner at a time is alive; a process that is starting reconciles    *)
(* the store before it finds out whether it may own it.  The store's lock  *)
(* excludes the threads of one process only: what an operation writes      *)
(* under the lock waits in pending, write by write, so that a crash or     *)
(* another process can come in between.                                    *)
(***************************************************************************)
EXTENDS Integers, Sequences, FiniteSets

CONSTANTS
  Tasks,     \* task ids
  Subs,      \* clients that follow an event stream
  Outcomes,  \* the states receipts end in, with or without an artifact
  MaxBoots,  \* bound: how many runner processes are started
  Doubles    \* whether a runner may be started while another is alive

ReceiptState == {"COMPLETED", "FAILED", "CANCELED", "INPUT_REQUIRED", "AUTH_REQUIRED"}

ASSUME RunnerAssumption ==
  /\ Outcomes \subseteq [state : ReceiptState, artifact : BOOLEAN]
  /\ IsFiniteSet(Tasks) /\ IsFiniteSet(Subs)
  /\ MaxBoots \in Nat \ {0} /\ Doubles \in BOOLEAN

VARIABLES
  rec,      \* disk: the record of every task
  events,   \* disk: the kinds of the events of every task, in order
  pidfile,  \* disk: the runner named by runner.pid, 0 for no file
  pending,  \* the writes left of the store operation under way
  run,      \* the runner
  boot,     \* the process that is starting
  sender,   \* the handler of SendMessage, one per task
  slot,     \* the executor's slot of every task and the thread behind it
  cancel,   \* the calls of Executor.cancel, one per caller and task
  group,    \* the process group of every task
  sub       \* the event streams

disk == <<rec, events, pidfile>>
memory == <<sender, slot, cancel>>
vars == <<rec, events, pidfile, pending, run, boot, sender, slot, cancel, group, sub>>

FINAL == {"COMPLETED", "FAILED", "CANCELED", "REJECTED", "INPUT_REQUIRED", "AUTH_REQUIRED"}
ACTIVE == {"SUBMITTED", "WORKING"}
Reason == {"none", "cancel_task", "runner_stop", "runner_restart", "process_exit",
           "deadline", "sandbox_failure", "runner_internal_timeout", "validation"}
Record == [state : FINAL \cup ACTIVE \cup {"none"}, complete : BOOLEAN,
           reason : Reason, artifact : BOOLEAN]
NoRecord == [state |-> "none", complete |-> FALSE, reason |-> "none", artifact |-> FALSE]

EventKind == FINAL \cup ACTIVE \cup {"artifact"}
Write == [op : {"record"}, task : Tasks, rec : Record] \cup
         [op : {"event"}, task : Tasks, kind : EventKind]

Boots == 1..MaxBoots
Phase == {"none", "up", "closing", "cancelling", "reaping", "exited", "crashed"}
Run == [pid : 0..MaxBoots, phase : Phase, round : 1..2, active : SUBSET Tasks]
\* last counts the runner processes; writes is the store operation under way.
Boot == [pid : 0..MaxBoots, last : 0..MaxBoots, todo : SUBSET Tasks, writes : Seq(Write)]

\* Where the thread of a slot is: running a validator or the process, or about
\* to take the branch the name says.
SlotPc == {"none", "validate", "reject", "begin", "launch", "launched", "running",
           "receipt", "fail", "late", "nometa", "cancel", "end"}
Slot == [pc : SlotPc, canceled : BOOLEAN, reason : Reason, proc : BOOLEAN,
         ready : BOOLEAN, cleanup : BOOLEAN, done : BOOLEAN]
NoSlot == [pc |-> "none", canceled |-> FALSE, reason |-> "none", proc |-> FALSE,
           ready |-> FALSE, cleanup |-> FALSE, done |-> FALSE]

Callers == {"cancel_task", "runner_stop"}
CancelPc == {"idle", "get", "mark", "noslot", "ready", "kill", "wait"}
\* orphan: the leader is gone, members of the group are not.  missed is history:
\* a cancellation or the shutdown passed by before the thread had its process.
Group == [st : {"none", "up", "orphan", "gone"}, by : 0..MaxBoots, launches : 0..2,
          missed : BOOLEAN]
Sub == [pc : {"off", "drain", "check", "done"}, task : Tasks, got : Nat]

Alive == run.phase \notin {"none", "exited", "crashed"}

\* The pidfile of a live runner names it.
TypeOK ==
  /\ Alive => pidfile = run.pid
  /\ rec \in [Tasks -> Record]
  /\ events \in [Tasks -> Seq(EventKind)]
  /\ pidfile \in 0..MaxBoots
  /\ pending \in Seq(Write)
  /\ run \in Run
  /\ boot \in Boot
  /\ sender \in [Tasks -> {"idle", "checked", "created"}]
  /\ slot \in [Tasks -> Slot]
  /\ cancel \in [Callers -> [Tasks -> CancelPc]]
  /\ group \in [Tasks -> Group]
  /\ sub \in [Subs -> Sub]

Init ==
  /\ rec = [t \in Tasks |-> NoRecord]
  /\ events = [t \in Tasks |-> <<>>]
  /\ pidfile = 0
  /\ pending = <<>>
  /\ run = [pid |-> 0, phase |-> "none", round |-> 1, active |-> {}]
  /\ boot = [pid |-> 0, last |-> 0, todo |-> {}, writes |-> <<>>]
  /\ sender = [t \in Tasks |-> "idle"]
  /\ slot = [t \in Tasks |-> NoSlot]
  /\ cancel = [c \in Callers |-> [t \in Tasks |-> "idle"]]
  /\ group = [t \in Tasks |-> [st |-> "none", by |-> 0, launches |-> 0, missed |-> FALSE]]
  /\ sub \in [Subs -> [pc : {"off"}, task : Tasks, got : {0}]]

ShuttingDown == run.phase # "up"
Running(t) == group[t].st \in {"up", "orphan"}
StoreFree == pending = <<>>
State(t) == rec[t].state

-----------------------------------------------------------------------------
\* TaskStore.  An operation checks the record under the lock and lists its
\* writes; an operation that changes nothing lists none.

RecordWrite(t, r) == [op |-> "record", task |-> t, rec |-> r]
EventWrite(t, k) == [op |-> "event", task |-> t, kind |-> k]

\* Mutant: a failed task may be created again.
CreateOverFailed(t) ==
  IF State(t) \notin {"none", "FAILED"} THEN <<>>
  ELSE <<RecordWrite(t, [NoRecord EXCEPT !.state = "SUBMITTED"]), EventWrite(t, "SUBMITTED")>>

\* Any record of the task, a failed one too, makes a second message a repeat.
Create(t) ==
  IF State(t) # "none" THEN <<>>
  ELSE <<RecordWrite(t, [NoRecord EXCEPT !.state = "SUBMITTED"]), EventWrite(t, "SUBMITTED")>>

TransitionWorking(t) ==
  IF State(t) # "SUBMITTED" \/ rec[t].complete THEN <<>>
  ELSE <<RecordWrite(t, [rec[t] EXCEPT !.state = "WORKING"]), EventWrite(t, "WORKING")>>

\* Mutant: the record is closed, but not marked complete.
TerminalWritesOpen(t, s, reason, artifact) ==
  <<RecordWrite(t, [state |-> s, complete |-> FALSE, reason |-> reason, artifact |-> artifact])>>
    \o (IF artifact THEN <<EventWrite(t, "artifact")>> ELSE <<>>) \o <<EventWrite(t, s)>>

TerminalWrites(t, s, reason, artifact) ==
  LET closed == [state |-> s, complete |-> FALSE, reason |-> reason, artifact |-> artifact]
  IN  <<RecordWrite(t, closed)>>
        \o (IF artifact THEN <<EventWrite(t, "artifact")>> ELSE <<>>)
        \o <<EventWrite(t, s), RecordWrite(t, [closed EXCEPT !.complete = TRUE])>>

\* Mutant: a record is closed whatever its state.
FinalizeBlind(t, s, reason, artifact) ==
  IF State(t) = "none" THEN <<>> ELSE TerminalWrites(t, s, reason, artifact)

Finalize(t, s, reason, artifact) ==
  IF State(t) \in FINAL \cup {"none"} \/ rec[t].complete THEN <<>>
  ELSE TerminalWrites(t, s, reason, artifact)

\* A write replaces a record or adds an event to the file of its task.
Apply(w) ==
  IF w.op = "record"
  THEN rec' = [rec EXCEPT ![w.task] = w.rec] /\ UNCHANGED events
  ELSE events' = [events EXCEPT ![w.task] = Append(@, w.kind)] /\ UNCHANGED rec

StoreWrite ==
  /\ pending # <<>>
  /\ Apply(Head(pending))
  /\ pending' = Tail(pending)
  /\ UNCHANGED <<pidfile, run, boot, memory, group, sub>>

-----------------------------------------------------------------------------
\* The handler: SendMessage.  CancelTask is Executor.cancel below; GetTask and
\* ListTasks change nothing.

SendCheck(t) ==
  /\ sender[t] = "idle" /\ ~ShuttingDown
  /\ sender' = [sender EXCEPT ![t] = "checked"]
  /\ UNCHANGED <<disk, pending, run, boot, slot, cancel, group, sub>>

SendCreate(t) ==
  /\ sender[t] = "checked"
  /\ pending' = Create(t)
  /\ sender' = [sender EXCEPT ![t] = IF Create(t) = <<>> THEN "idle" ELSE "created"]
  /\ UNCHANGED <<disk, run, boot, slot, cancel, group, sub>>

\* Executor.start; the handler does not look at its answer.
SendStart(t) ==
  /\ sender[t] = "created"
  /\ sender' = [sender EXCEPT ![t] = "idle"]
  /\ slot' = IF ShuttingDown \/ slot[t].pc # "none" THEN slot
             ELSE [slot EXCEPT ![t] = [NoSlot EXCEPT !.pc = "validate"]]
  /\ UNCHANGED <<disk, pending, run, boot, cancel, group, sub>>

-----------------------------------------------------------------------------
\* Executor._run, the thread of a slot.

Go(t, pc) == slot' = [slot EXCEPT ![t].pc = pc]

\* The thread saw the cancel request before it had a process.
GoCanceled(t) ==
  slot' = [slot EXCEPT ![t] = [@ EXCEPT !.pc = "cancel", !.ready = TRUE, !.cleanup = TRUE]]

\* The envelope is written and validated.
ValidateEnvelope(t) ==
  /\ slot[t].pc = "validate"
  /\ IF slot[t].canceled THEN GoCanceled(t)
     ELSE \E next \in {"begin", "reject", "late"} : Go(t, next)
  /\ UNCHANGED <<disk, pending, run, boot, sender, cancel, group, sub>>

BeginWork(t) ==
  /\ slot[t].pc = "begin"
  /\ pending' = TransitionWorking(t)
  /\ IF TransitionWorking(t) # <<>> THEN Go(t, "launch")
     ELSE slot' = [slot EXCEPT ![t] = [@ EXCEPT !.pc = "end", !.ready = TRUE, !.cleanup = TRUE]]
  /\ UNCHANGED <<disk, run, boot, sender, cancel, group, sub>>

Spawned(t) ==
  [group EXCEPT ![t].st = "up", ![t].by = run.pid, ![t].launches = IF @ = 2 THEN 2 ELSE @ + 1]

\* Popen, in a session of its own; it may also raise.
Launch(t) ==
  /\ slot[t].pc = "launch"
  /\ \/ /\ group' = Spawned(t)
        /\ Go(t, "launched")
     \/ /\ UNCHANGED group
        /\ IF slot[t].canceled THEN GoCanceled(t) ELSE Go(t, "fail")
  /\ UNCHANGED <<disk, pending, run, boot, sender, cancel, sub>>

\* The process is registered.  A cancel request from before sends one SIGTERM,
\* which is covered by LeaderExits: what it does is up to the process.
Register(t) ==
  /\ slot[t].pc = "launched"
  /\ slot' = [slot EXCEPT ![t] = [@ EXCEPT !.pc = "running", !.proc = TRUE, !.ready = TRUE]]
  /\ UNCHANGED <<disk, pending, run, boot, sender, cancel, group, sub>>

\* The sandbox ends, within its own time limit.  It takes its group along,
\* unless it is ended by the SIGTERM of a cancellation.
LeaderExits(t) ==
  /\ group[t].st = "up"
  /\ \E st \in {"gone"} \cup (IF slot[t].canceled THEN {"orphan"} ELSE {}) :
       group' = [group EXCEPT ![t].st = st]
  /\ UNCHANGED <<disk, pending, run, boot, memory, sub>>

Killed(t) == [group EXCEPT ![t].st = IF @ \in {"up", "orphan"} THEN "gone" ELSE @]

\* communicate() has returned.
Collect(t) ==
  /\ slot[t].pc = "running" /\ group[t].st # "up"
  /\ IF slot[t].canceled
     THEN /\ group' = IF slot[t].cleanup THEN group ELSE Killed(t)
          /\ slot' = [slot EXCEPT ![t] = [@ EXCEPT !.pc = "cancel", !.cleanup = TRUE]]
     ELSE (\E next \in {"receipt", "nometa"} : Go(t, next)) /\ UNCHANGED group
  /\ UNCHANGED <<disk, pending, run, boot, sender, cancel, sub>>

\* The artifact is read, the receipt validated, the state taken from the
\* receipt; a validator that exceeds its bound ends in the handlers below.
CloseByReceipt(t) ==
  /\ slot[t].pc = "receipt"
  /\ \/ /\ \E o \in Outcomes :
             pending' = Finalize(t, o.state,
               IF o.state = "CANCELED" THEN "deadline" ELSE "process_exit", o.artifact)
        /\ Go(t, "end")
     \/ /\ UNCHANGED pending
        /\ IF slot[t].canceled THEN GoCanceled(t) ELSE Go(t, "late")
  /\ UNCHANGED <<disk, run, boot, sender, cancel, group, sub>>

\* The branches that close the task without a receipt.
Closing == [reject |-> <<"REJECTED", "validation">>,
            nometa |-> <<"FAILED", "sandbox_failure">>,
            fail   |-> <<"FAILED", "sandbox_failure">>,
            late   |-> <<"FAILED", "runner_internal_timeout">>]
\* Mutant: a validator that exceeds its bound is not handled.
CloseEarlyUncaught(t) ==
  /\ slot[t].pc \in DOMAIN Closing
  /\ LET c == Closing[slot[t].pc]
     IN  pending' = IF slot[t].pc = "late" THEN <<>> ELSE Finalize(t, c[1], c[2], FALSE)
  /\ Go(t, "end")
  /\ UNCHANGED <<disk, run, boot, sender, cancel, group, sub>>

CloseEarly(t) ==
  /\ slot[t].pc \in DOMAIN Closing
  /\ LET c == Closing[slot[t].pc] IN pending' = Finalize(t, c[1], c[2], FALSE)
  /\ Go(t, "end")
  /\ UNCHANGED <<disk, run, boot, sender, cancel, group, sub>>

\* _finish_canceled.  On every way here the cleanup it waits for is over.
FinishCanceled(t) ==
  /\ slot[t].pc = "cancel"
  /\ pending' = Finalize(t, "CANCELED", slot[t].reason, FALSE)
  /\ Go(t, "end")
  /\ UNCHANGED <<disk, run, boot, sender, cancel, group, sub>>

\* The finally clause.
EndRun(t) ==
  /\ slot[t].pc = "end"
  /\ slot' = [slot EXCEPT ![t] = [@ EXCEPT !.pc = "none", !.ready = TRUE, !.done = TRUE]]
  /\ UNCHANGED <<disk, pending, run, boot, sender, cancel, group, sub>>

Execute(t) ==
  \/ ValidateEnvelope(t) \/ BeginWork(t) \/ Launch(t) \/ Register(t)
  \/ Collect(t) \/ CloseByReceipt(t) \/ CloseEarly(t) \/ FinishCanceled(t) \/ EndRun(t)

-----------------------------------------------------------------------------
\* Executor.cancel, called by CancelTask and by the threads of a shutdown.

To(c, t, pc) == cancel' = [cancel EXCEPT ![c][t] = pc]

Missed(t, passedBy) == [group EXCEPT ![t].missed = @ \/ passedBy]

\* A task that is closed is answered for and left alone.
CancelTask(t) ==
  /\ cancel["cancel_task"][t] = "idle"
  /\ Alive /\ State(t) \in ACTIVE
  /\ To("cancel_task", t, "mark")
  /\ UNCHANGED <<disk, pending, run, boot, sender, slot, group, sub>>

CancelGet(c, t) ==
  /\ cancel[c][t] = "get"
  /\ To(c, t, IF State(t) \in FINAL THEN "idle" ELSE "mark")
  /\ UNCHANGED <<disk, pending, run, boot, sender, slot, group, sub>>

CancelMark(c, t) ==
  /\ cancel[c][t] = "mark"
  /\ IF slot[t].pc = "none"
     THEN To(c, t, "noslot") /\ UNCHANGED slot
     ELSE /\ To(c, t, "ready")
          /\ slot' = [slot EXCEPT ![t].canceled = TRUE,
                                  ![t].reason = IF @ = "none" THEN c ELSE @]
  /\ UNCHANGED <<disk, pending, run, boot, sender, group, sub>>

CancelNoSlot(c, t) ==
  /\ cancel[c][t] = "noslot"
  /\ pending' = Finalize(t, "CANCELED", c, FALSE)
  /\ To(c, t, "idle")
  /\ group' = Missed(t, slot[t].pc # "none")
  /\ UNCHANGED <<disk, run, boot, sender, slot, sub>>

\* The thread has its process or needs none, or the bounded wait for it is over.
CancelReady(c, t) ==
  /\ cancel[c][t] = "ready"
  /\ To(c, t, "kill")
  /\ group' = Missed(t, ~slot[t].ready)
  /\ UNCHANGED <<disk, pending, run, boot, sender, slot, sub>>

\* Mutant: SIGTERM alone, no SIGKILL once the grace is over.
CancelKillSoftly(c, t) ==
  /\ cancel[c][t] = "kill"
  /\ slot' = [slot EXCEPT ![t].cleanup = TRUE]
  /\ To(c, t, "wait")
  /\ UNCHANGED <<disk, pending, run, boot, sender, group, sub>>

\* _terminate_group: SIGTERM, the grace, SIGKILL.  With no process, nothing.
CancelKill(c, t) ==
  /\ cancel[c][t] = "kill"
  /\ group' = IF slot[t].proc THEN Killed(t) ELSE group
  /\ slot' = [slot EXCEPT ![t].cleanup = TRUE]
  /\ To(c, t, "wait")
  /\ UNCHANGED <<disk, pending, run, boot, sender, sub>>

\* The thread is done, or the bounded wait for it is over.
CancelWait(c, t) ==
  /\ cancel[c][t] = "wait"
  /\ IF slot[t].done THEN UNCHANGED pending
     ELSE pending' = Finalize(t, "CANCELED", c, FALSE)
  /\ To(c, t, "idle")
  /\ UNCHANGED <<disk, run, boot, sender, slot, group, sub>>

CancelStep(c, t) ==
  \/ CancelGet(c, t) \/ CancelMark(c, t) \/ CancelNoSlot(c, t)
  \/ CancelReady(c, t) \/ CancelKill(c, t) \/ CancelWait(c, t)

-----------------------------------------------------------------------------
\* Shutdown: request_shutdown, then shutdown_all twice, before and after the
\* server has stopped.

BeginShutdown ==
  /\ run.phase = "up"
  /\ run' = [run EXCEPT !.phase = "closing"]
  /\ UNCHANGED <<disk, pending, boot, memory, group, sub>>

ListActive ==
  /\ run.phase = "closing"
  /\ LET active == {t \in Tasks : State(t) \in ACTIVE}
     IN  /\ run' = [run EXCEPT !.phase = "cancelling", !.active = active]
         /\ cancel' = [cancel EXCEPT !["runner_stop"] =
              [t \in Tasks |-> IF t \in active /\ @[t] = "idle" THEN "get" ELSE @[t]]]
  /\ UNCHANGED <<disk, pending, boot, sender, slot, group, sub>>

\* The bounded join is over: what is not done is terminated here.
Reap ==
  /\ run.phase = "cancelling"
  /\ LET left == {t \in run.active : slot[t].pc # "none" /\ ~slot[t].done}
     IN  /\ group' = [t \in Tasks |->
              IF t \notin left THEN group[t]
              ELSE IF slot[t].proc /\ Running(t) THEN [group[t] EXCEPT !.st = "gone"]
              ELSE [group[t] EXCEPT !.missed = @ \/ ~slot[t].ready]]
         /\ slot' = [t \in Tasks |->
              IF t \in left THEN [slot[t] EXCEPT !.cleanup = TRUE] ELSE slot[t]]
  /\ run' = [run EXCEPT !.phase = "reaping"]
  /\ UNCHANGED <<disk, pending, boot, sender, cancel, sub>>

FinalizeLeft(t) ==
  /\ run.phase = "reaping" /\ t \in run.active /\ State(t) \in ACTIVE
  /\ pending' = Finalize(t, "CANCELED", "runner_stop", FALSE)
  /\ UNCHANGED <<disk, run, boot, memory, group, sub>>

Forget ==
  /\ pending' = <<>>
  /\ sender' = [t \in Tasks |-> "idle"]
  /\ slot' = [t \in Tasks |-> NoSlot]
  /\ cancel' = [c \in Callers |-> [t \in Tasks |-> "idle"]]
  /\ sub' = [s \in Subs |-> IF sub[s].pc = "done" THEN sub[s] ELSE [sub[s] EXCEPT !.pc = "off"]]

\* The second round ends with the process, whose threads are daemons, and with
\* its pidfile.
EndRound ==
  /\ run.phase = "reaping"
  /\ \A t \in run.active : State(t) \notin ACTIVE
  /\ \/ /\ run.round = 1
        /\ run' = [run EXCEPT !.phase = "closing", !.round = 2]
        /\ UNCHANGED <<pidfile, pending, memory, sub>>
     \/ /\ run.round = 2
        /\ run' = [run EXCEPT !.phase = "exited", !.active = {}]
        /\ pidfile' = IF pidfile = run.pid THEN 0 ELSE pidfile
        /\ Forget
  /\ UNCHANGED <<rec, events, boot, group>>

Shutdown == ListActive \/ Reap \/ EndRound \/ \E t \in Tasks : FinalizeLeft(t)

\* The runner is killed; the process groups, being sessions of their own, live.
Crash ==
  /\ Alive
  /\ run' = [run EXCEPT !.phase = "crashed", !.active = {}]
  /\ Forget
  /\ UNCHANGED <<disk, boot, group>>

\* stop_runner finds a pidfile whose process is gone.  One that finds the runner
\* sends it SIGTERM, which is BeginShutdown.
RemoveStale ==
  /\ pidfile # 0 /\ ~Alive
  /\ pidfile' = 0
  /\ UNCHANGED <<rec, events, pending, run, boot, memory, group, sub>>

-----------------------------------------------------------------------------
\* main: a process starts.

BootStart ==
  /\ boot.pid = 0 /\ boot.last < MaxBoots
  /\ Alive => Doubles
  /\ boot' = [pid |-> boot.last + 1, last |-> boot.last + 1,
              todo |-> {t \in Tasks : State(t) \in ACTIVE}, writes |-> <<>>]
  /\ UNCHANGED <<disk, pending, run, memory, group, sub>>

\* What was active has lost its process: finalize, with this process's lock.
BootRead(t) ==
  /\ boot.pid # 0 /\ boot.writes = <<>> /\ t \in boot.todo
  /\ boot' = [boot EXCEPT !.todo = @ \ {t},
                          !.writes = Finalize(t, "FAILED", "runner_restart", FALSE)]
  /\ UNCHANGED <<disk, pending, run, memory, group, sub>>

BootWrite ==
  /\ boot.pid # 0 /\ boot.writes # <<>>
  /\ Apply(Head(boot.writes))
  /\ boot' = [boot EXCEPT !.writes = Tail(@)]
  /\ UNCHANGED <<pidfile, pending, run, memory, group, sub>>

BootOver == boot' = [boot EXCEPT !.pid = 0, !.todo = {}, !.writes = <<>>]

\* Only now the pidfile is looked at: a live owner ends this process.
BootOwn ==
  /\ boot.pid # 0 /\ boot.todo = {} /\ boot.writes = <<>>
  /\ IF pidfile # 0 /\ Alive
     THEN UNCHANGED <<run, pidfile>>
     ELSE /\ run' = [pid |-> boot.pid, phase |-> "up", round |-> 1, active |-> {}]
          /\ pidfile' = boot.pid
  /\ BootOver
  /\ UNCHANGED <<rec, events, pending, memory, group, sub>>

BootCrash ==
  /\ boot.pid # 0
  /\ BootOver
  /\ UNCHANGED <<disk, pending, run, memory, group, sub>>

-----------------------------------------------------------------------------
\* SubscribeToTask: a stream resumes after the last event the client has seen.

SseOpen(s) ==
  /\ sub[s].pc = "off"
  /\ Alive /\ State(sub[s].task) # "none"
  /\ sub' = [sub EXCEPT ![s].pc = "drain"]
  /\ UNCHANGED <<disk, pending, run, boot, memory, group>>

\* The events since the last one are sent; the connection may break in between.
SseDrain(s) ==
  /\ sub[s].pc = "drain"
  /\ \E n \in sub[s].got..Len(events[sub[s].task]) :
       sub' = [sub EXCEPT ![s].got = n,
                          ![s].pc = IF n = Len(events[sub[s].task]) THEN "check" ELSE "off"]
  /\ UNCHANGED <<disk, pending, run, boot, memory, group>>

\* Mutant: no drain between the check and the end of the stream.
SseCheckAtOnce(s) ==
  /\ sub[s].pc = "check"
  /\ sub' = [sub EXCEPT ![s].pc = IF rec[sub[s].task].complete THEN "done" ELSE "drain"]
  /\ UNCHANGED <<disk, pending, run, boot, memory, group>>

\* A complete record ends the stream after one more drain; otherwise the stream
\* waits for a notification or, at the latest, for its heartbeat.
SseCheck(s) ==
  /\ sub[s].pc = "check"
  /\ sub' = [sub EXCEPT ![s] =
       IF rec[sub[s].task].complete
       THEN [@ EXCEPT !.pc = "done", !.got = Len(events[sub[s].task])]
       ELSE [@ EXCEPT !.pc = "drain"]]
  /\ UNCHANGED <<disk, pending, run, boot, memory, group>>

Sse(s) == SseDrain(s) \/ SseCheck(s)

-----------------------------------------------------------------------------

\* The runner's threads; the store's lock keeps them apart.
Thread(t) ==
  \/ SendCreate(t) \/ SendStart(t) \/ Execute(t)
  \/ \E c \in Callers : CancelStep(c, t)

Next ==
  \/ StoreWrite
  \/ StoreFree /\ \E t \in Tasks : SendCheck(t) \/ CancelTask(t) \/ Thread(t)
  \/ StoreFree /\ (BeginShutdown \/ Shutdown)
  \/ StoreFree /\ \E s \in Subs : SseOpen(s) \/ Sse(s)
  \/ \E t \in Tasks : LeaderExits(t)
  \/ Crash \/ RemoveStale
  \/ BootStart \/ BootWrite \/ BootOwn \/ BootCrash \/ \E t \in Tasks : BootRead(t)

Spec == Init /\ [][Next]_vars

\* A live runner's threads run, a sandbox ends within its time limit, a stream
\* wakes up at every heartbeat.  Nobody has to start, stop or cancel anything.
Fairness ==
  /\ WF_vars(StoreWrite)
  /\ WF_vars(StoreFree /\ Shutdown)
  /\ \A t \in Tasks :
       /\ WF_vars(StoreFree /\ (SendCreate(t) \/ SendStart(t)))
       /\ WF_vars(StoreFree /\ Execute(t))
       /\ WF_vars(LeaderExits(t))
       /\ \A c \in Callers : WF_vars(StoreFree /\ CancelStep(c, t))
  /\ \A s \in Subs : SF_vars(StoreFree /\ Sse(s))

FairSpec == Spec /\ Fairness

-----------------------------------------------------------------------------
\* Properties

\* A task's process is started at most once, whatever is resent, cancelled,
\* crashed or restarted.
RunsOnce == \A t \in Tasks : group[t].launches <= 1

\* The contract: a task is taken up once and closed once, by no race of the
\* thread's own end with a cancellation, a shutdown or a reconciliation twice.
Contract == INSTANCE RunnerContract WITH
  task <- [t \in Tasks |-> [state |-> rec[t].state, reason |-> rec[t].reason,
                            artifact |-> rec[t].artifact]],
  ran  <- [t \in Tasks |-> group[t].launches]
ImplementsContract == Contract!Spec

\* A client that was told the stream is over has seen every event, the terminal
\* one last, across any broken and resumed connections.
StreamTellsAll ==
  \A s \in Subs : sub[s].pc = "done" =>
    LET t == sub[s].task
    IN  /\ sub[s].got = Len(events[t])
        /\ events[t] # <<>> /\ events[t][Len(events[t])] = State(t)

\* A runner that stops in good order leaves no task open that it has executed,
\* and no process group of its own, unless a cancellation of its task, or the
\* shutdown itself, passed by before the thread had registered the process.
LeavesNothing ==
  run.phase = "exited" =>
    \A t \in Tasks : group[t].by = run.pid =>
      State(t) \in FINAL /\ (Running(t) => group[t].missed)

\* A task that a live runner has is closed, unless the runner dies first.
TaskEnds ==
  \A t \in Tasks :
    Alive /\ State(t) \in ACTIVE ~> rec[t].complete \/ ~Alive

Torn(t) == State(t) \in FINAL /\ ~rec[t].complete /\ StoreFree

\* A stream on a task that is not torn ends.
StreamEnds ==
  \A s \in Subs :
    sub[s].pc \in {"drain", "check"} /\ ~Torn(sub[s].task) ~> sub[s].pc \in {"off", "done"}

\* Three claims the code does not keep (see the README, "Disagreements").
\* shutdown_all: "A timed-out cancellation waiter must not let the runner exit
\* with its process group alive", whatever it was waiting for.
LeavesNoProcess ==
  run.phase = "exited" => \A t \in Tasks : group[t].by = run.pid => ~Running(t)

\* finalize: "Persist one complete terminal sequence": a crash in between leaves
\* a torn one, which no restart completes.
TerminalIsWhole ==
  run.phase = "up" /\ StoreFree => \A t \in Tasks : ~Torn(t)

\* "runner restarted after losing the execution process": a record that says so
\* is not about a process that a live runner is still attending to.  It takes
\* Doubles = TRUE to see that it may be.
LostMeansLost ==
  \A t \in Tasks : rec[t].reason = "runner_restart" /\ rec[t].complete => slot[t].pc # "running"

=============================================================================
