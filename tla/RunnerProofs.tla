----------------------------- MODULE RunnerProofs -----------------------------
(***************************************************************************)
(* Proofs about Runner, for any number of tasks, streams and lives of the  *)
(* runner.                                                                 *)
(***************************************************************************)
EXTENDS Runner, SequenceTheorems, TLAPS

-----------------------------------------------------------------------------
\* What an operation of the store writes.

View == [state : FINAL \cup ACTIVE \cup {"none"}, reason : Reason, artifact : BOOLEAN]
ViewOf(r) == [state |-> r.state, reason |-> r.reason, artifact |-> r.artifact]
Accepted == [state |-> "SUBMITTED", reason |-> "none", artifact |-> FALSE]
Ended(s, reason, artifact) == [state |-> s, reason |-> reason, artifact |-> artifact]

\* The writes that bring a task to a view, and events of the task.
Bringing(t, v) == {w \in Write : w.task = t /\ (w.op = "record" => ViewOf(w.rec) = v)}

LEMMA RecordTyped ==
  ASSUME NEW t \in Tasks, NEW r \in Record, NEW v, ViewOf(r) = v
  PROVE  RecordWrite(t, r) \in Bringing(t, v)
  BY DEF Bringing, RecordWrite, Write

LEMMA EventTyped ==
  ASSUME NEW t \in Tasks, NEW k \in EventKind, NEW v
  PROVE  EventWrite(t, k) \in Bringing(t, v)
  BY DEF Bringing, EventWrite, Write

LEMMA CreateWrites ==
  ASSUME NEW t \in Tasks
  PROVE  /\ Create(t) \in Seq(Bringing(t, Accepted))
         /\ Create(t) # <<>> => State(t) = "none"
<1> DEFINE r == [NoRecord EXCEPT !.state = "SUBMITTED"]
<1>1. r \in Record /\ ViewOf(r) = Accepted
  BY DEF NoRecord, Record, ViewOf, Accepted, ACTIVE, Reason
<1>2. EventWrite(t, "SUBMITTED") \in Bringing(t, Accepted)
  BY EventTyped DEF EventKind, ACTIVE
<1>3. RecordWrite(t, r) \in Bringing(t, Accepted)
  BY <1>1, RecordTyped
<1>4. <<RecordWrite(t, r), EventWrite(t, "SUBMITTED")>> \in Seq(Bringing(t, Accepted))
  BY <1>2, <1>3
<1> QED
  BY <1>4 DEF Create

LEMMA WorkingWrites ==
  ASSUME NEW t \in Tasks, rec \in [Tasks -> Record]
  PROVE  LET q == TransitionWorking(t)
         IN  /\ q \in Seq(Bringing(t, [ViewOf(rec[t]) EXCEPT !.state = "WORKING"]))
             /\ q # <<>> => /\ State(t) = "SUBMITTED"
                            /\ Head(q).op = "record" /\ Head(q).task = t
<1> DEFINE r == [rec[t] EXCEPT !.state = "WORKING"]
           v == [ViewOf(rec[t]) EXCEPT !.state = "WORKING"]
<1>1. r \in Record /\ ViewOf(r) = v
  BY DEF Record, ViewOf, ACTIVE
<1>2. EventWrite(t, "WORKING") \in Bringing(t, v)
  BY EventTyped DEF EventKind, ACTIVE
<1>3. RecordWrite(t, r) \in Bringing(t, v)
  BY <1>1, RecordTyped
<1>4. RecordWrite(t, r).op = "record" /\ RecordWrite(t, r).task = t
  BY DEF RecordWrite
<1> HIDE DEF r, v
<1>5. <<RecordWrite(t, r), EventWrite(t, "WORKING")>> \in Seq(Bringing(t, v))
  BY <1>2, <1>3
<1>6. TransitionWorking(t) = <<>> \/
        (State(t) = "SUBMITTED" /\
         TransitionWorking(t) = <<RecordWrite(t, r), EventWrite(t, "WORKING")>>)
  BY DEF TransitionWorking, r
<1>7. TransitionWorking(t) \in Seq(Bringing(t, v))
  <2>1. <<>> \in Seq(Bringing(t, v))
    OBVIOUS
  <2> QED
    BY <1>5, <1>6, <2>1, Zenon
<1>8. TransitionWorking(t) # <<>> =>
        Head(TransitionWorking(t)) = RecordWrite(t, r) /\ State(t) = "SUBMITTED"
  BY <1>6
<1> QED
  BY <1>4, <1>7, <1>8 DEF v

LEMMA TerminalTyped ==
  ASSUME NEW t \in Tasks, NEW s \in FINAL, NEW reason \in Reason, NEW a \in BOOLEAN
  PROVE  TerminalWrites(t, s, reason, a) \in Seq(Bringing(t, Ended(s, reason, a)))
<1> DEFINE r == [state |-> s, complete |-> FALSE, reason |-> reason, artifact |-> a]
           W == Bringing(t, Ended(s, reason, a))
           b == [r EXCEPT !.complete = TRUE]
<1>1. r \in Record /\ ViewOf(r) = Ended(s, reason, a)
  BY DEF Record, ViewOf, Ended
<1>2. b \in Record /\ ViewOf(b) = Ended(s, reason, a)
  BY DEF Record, ViewOf, Ended
<1>3. RecordWrite(t, r) \in W /\ RecordWrite(t, b) \in W
  BY <1>1, <1>2, RecordTyped
<1>4. EventWrite(t, "artifact") \in W /\ EventWrite(t, s) \in W
  BY EventTyped DEF EventKind
<1>5. TerminalWrites(t, s, reason, a) =
        <<RecordWrite(t, r)>> \o (IF a THEN <<EventWrite(t, "artifact")>> ELSE <<>>)
          \o <<EventWrite(t, s), RecordWrite(t, b)>>
  BY Zenon DEF TerminalWrites
<1> HIDE DEF W, r, b
<1>6. /\ <<RecordWrite(t, r)>> \in Seq(W)
      /\ (IF a THEN <<EventWrite(t, "artifact")>> ELSE <<>>) \in Seq(W)
      /\ <<EventWrite(t, s), RecordWrite(t, b)>> \in Seq(W)
  BY <1>3, <1>4
<1>7. TerminalWrites(t, s, reason, a) \in Seq(W)
  BY <1>5, <1>6
<1> QED
  BY <1>7 DEF W

LEMMA FinalizeWrites ==
  ASSUME NEW t \in Tasks, rec \in [Tasks -> Record],
         NEW s \in FINAL, NEW reason \in Reason, NEW a \in BOOLEAN
  PROVE  /\ Finalize(t, s, reason, a) \in Seq(Bringing(t, Ended(s, reason, a)))
         /\ Finalize(t, s, reason, a) # <<>> => State(t) \in ACTIVE
<1>1. State(t) \in FINAL \cup ACTIVE \cup {"none"}
  BY DEF State, Record
<1> QED
  BY <1>1, TerminalTyped DEF Finalize

LEMMA BringingTyped ==
  ASSUME NEW t \in Tasks, NEW v, NEW q \in Seq(Bringing(t, v))
  PROVE  q \in Seq(Write)
  BY DEF Bringing

-----------------------------------------------------------------------------
\* Types, and that a live runner has a number.

Typed == TypeOK /\ (Alive => run.pid # 0)

LEMMA InitTyped == ASSUME Init PROVE Typed
<1>1. NoRecord \in Record /\ NoSlot \in Slot
  BY DEF NoRecord, Record, NoSlot, Slot, Reason, SlotPc
<1>2. boot \in Boot
  BY RunnerAssumption DEF Init, Boot
<1>3. run \in Run /\ ~Alive
  BY RunnerAssumption DEF Init, Run, Phase, Alive
<1>4. group \in [Tasks -> Group] /\ cancel \in [Callers -> [Tasks -> CancelPc]]
  <2>1. [st |-> "none", by |-> 0, launches |-> 0, missed |-> FALSE] \in Group
    BY RunnerAssumption DEF Group
  <2> QED
    BY <2>1 DEF Init, CancelPc
<1>5. sub \in [Subs -> Sub]
  BY DEF Init, Sub
<1>6. pending \in Seq(Write) /\ events \in [Tasks -> Seq(EventKind)] /\ pidfile \in 0..MaxBoots
  BY RunnerAssumption DEF Init
<1>7. rec \in [Tasks -> Record] /\ slot \in [Tasks -> Slot]
      /\ sender \in [Tasks -> {"idle", "checked", "created"}]
  BY <1>1 DEF Init
<1> QED
  BY <1>3, <1>2, <1>4, <1>5, <1>6, <1>7 DEF Typed, TypeOK

\* What a launch and a waiter that passes by change of a group.
LEMMA SpawnedGroup ==
  ASSUME group \in [Tasks -> Group], run.pid \in 0..MaxBoots, NEW t \in Tasks
  PROVE  /\ Spawned(t) \in [Tasks -> Group]
         /\ Spawned(t)[t].st = "up" /\ Spawned(t)[t].by = run.pid
         /\ Spawned(t)[t].missed = group[t].missed
         /\ Spawned(t)[t].launches = IF group[t].launches = 2 THEN 2 ELSE group[t].launches + 1
         /\ \A u \in Tasks : u # t => Spawned(t)[u] = group[u]
<1> DEFINE n == IF group[t].launches = 2 THEN 2 ELSE group[t].launches + 1
           g == [group[t] EXCEPT !.st = "up", !.by = run.pid, !.launches = n]
<1>1. group[t] \in Group
  OBVIOUS
<1>2. n \in 0..2
  BY <1>1 DEF Group
<1>3. Spawned(t) = [group EXCEPT ![t] = g]
  BY <1>1 DEF Spawned, Group
<1> HIDE DEF n
<1>4. g \in Group /\ g.st = "up" /\ g.by = run.pid /\ g.missed = group[t].missed /\ g.launches = n
  BY <1>1, <1>2 DEF Group
<1> HIDE DEF g
<1> QED
  BY <1>3, <1>4 DEF n

LEMMA MissedGroup ==
  ASSUME group \in [Tasks -> Group], NEW t \in Tasks, NEW b \in BOOLEAN
  PROVE  /\ Missed(t, b) \in [Tasks -> Group]
         /\ Missed(t, b)[t].missed = (group[t].missed \/ b)
         /\ \A u \in Tasks : /\ u # t => Missed(t, b)[u] = group[u]
                            /\ Missed(t, b)[u].st = group[u].st
                            /\ Missed(t, b)[u].by = group[u].by
                            /\ Missed(t, b)[u].launches = group[u].launches
<1> DEFINE g == [group[t] EXCEPT !.missed = group[t].missed \/ b]
<1>1. group[t] \in Group
  OBVIOUS
<1>2. Missed(t, b) = [group EXCEPT ![t] = g]
  BY DEF Missed
<1>3. (group[t].missed \/ b) \in BOOLEAN
  OBVIOUS
<1>4. /\ g \in Group /\ g.st = group[t].st /\ g.by = group[t].by
      /\ g.launches = group[t].launches /\ g.missed = (group[t].missed \/ b)
  BY <1>1, <1>3 DEF Group
<1> HIDE DEF g
<1> QED
  BY <1>2, <1>4

LEMMA ApplyTyped ==
  ASSUME Typed, NEW w \in Write, Apply(w)
  PROVE  rec' \in [Tasks -> Record] /\ events' \in [Tasks -> Seq(EventKind)]
<1>1. CASE w.op = "record"
  BY <1>1 DEF Apply, Write, Typed, TypeOK
<1>2. CASE w.op # "record"
  <2>1. w.task \in Tasks /\ w.kind \in EventKind
    BY <1>2 DEF Write
  <2>2. events' = [events EXCEPT ![w.task] = Append(@, w.kind)] /\ rec' = rec
    BY <1>2 DEF Apply
  <2>3. events[w.task] \in Seq(EventKind)
    BY <2>1 DEF Typed, TypeOK
  <2> QED
    BY <2>1, <2>2, <2>3 DEF Typed, TypeOK
<1> QED
  BY <1>1, <1>2

LEMMA StoreWriteTyped == ASSUME Typed, StoreWrite PROVE Typed'
<1>1. pending \in Seq(Write) /\ pending # <<>>
  BY DEF Typed, TypeOK, StoreWrite
<1>2. Head(pending) \in Write /\ Tail(pending) \in Seq(Write)
  BY <1>1
<1>3. rec' \in [Tasks -> Record] /\ events' \in [Tasks -> Seq(EventKind)]
  BY <1>2, ApplyTyped DEF StoreWrite
<1> QED
  BY <1>2, <1>3 DEF Typed, TypeOK, StoreWrite, memory, Alive

LEMMA SenderTyped ==
  ASSUME Typed, NEW t \in Tasks, SendCheck(t) \/ SendCreate(t) \/ SendStart(t)
  PROVE  Typed'
<1>1. CASE SendCheck(t)
  BY <1>1 DEF Typed, TypeOK, SendCheck, disk, Alive
<1>2. CASE SendCreate(t)
  <2>1. Create(t) \in Seq(Write)
    BY CreateWrites, BringingTyped
  <2> QED
    BY <1>2, <2>1 DEF Typed, TypeOK, SendCreate, disk, Alive
<1>3. CASE SendStart(t)
  <2>1. [NoSlot EXCEPT !.pc = "validate"] \in Slot
    BY DEF NoSlot, Slot, SlotPc, Reason
  <2> QED
    BY <1>3, <2>1 DEF Typed, TypeOK, SendStart, disk, Alive
<1> QED
  BY <1>1, <1>2, <1>3

LEMMA GoTyped ==
  ASSUME Typed, NEW t \in Tasks,
         (\E pc \in SlotPc : Go(t, pc)) \/ GoCanceled(t)
  PROVE  slot' \in [Tasks -> Slot]
<1>1. slot \in [Tasks -> Slot] /\ slot[t] \in Slot
  BY DEF Typed, TypeOK
<1>2. ASSUME NEW pc \in SlotPc, Go(t, pc) PROVE slot' \in [Tasks -> Slot]
  <2>1. [slot[t] EXCEPT !.pc = pc] \in Slot
    BY <1>1, <1>2 DEF Slot
  <2> QED
    BY <1>1, <1>2, <2>1 DEF Go
<1>3. CASE GoCanceled(t)
  <2>1. [slot[t] EXCEPT !.pc = "cancel", !.ready = TRUE, !.cleanup = TRUE] \in Slot
    BY <1>1 DEF Slot, SlotPc
  <2> QED
    BY <1>1, <1>3, <2>1 DEF GoCanceled
<1> QED
  BY <1>2, <1>3

LEMMA ExecuteTyped ==
  ASSUME Typed, NEW t \in Tasks, Execute(t)
  PROVE  Typed'
<1> USE DEF disk
<1>0. rec \in [Tasks -> Record] /\ slot[t] \in Slot /\ slot \in [Tasks -> Slot]
      /\ group \in [Tasks -> Group]
  BY DEF Typed, TypeOK
<1>1. CASE ValidateEnvelope(t)
  <2>1. slot' \in [Tasks -> Slot]
    BY <1>1, GoTyped DEF ValidateEnvelope, SlotPc
  <2> QED
    BY <1>1, <2>1 DEF ValidateEnvelope, Typed, TypeOK, Alive
<1>2. CASE BeginWork(t)
  <2>1. slot' \in [Tasks -> Slot]
    <3>1. [slot[t] EXCEPT !.pc = "end", !.ready = TRUE, !.cleanup = TRUE] \in Slot
      BY <1>0 DEF Slot, SlotPc
    <3>2. "launch" \in SlotPc
      BY DEF SlotPc
    <3> QED
      BY <1>2, <3>1, <3>2, GoTyped DEF BeginWork, Typed, TypeOK
  <2>2. pending' \in Seq(Write)
    BY <1>0, <1>2, WorkingWrites, BringingTyped DEF BeginWork
  <2> QED
    BY <1>2, <2>1, <2>2 DEF BeginWork, Typed, TypeOK, Alive
<1>3. CASE Launch(t)
  <2>1. slot' \in [Tasks -> Slot]
    BY <1>3, GoTyped DEF Launch, SlotPc
  <2>2. run.pid \in 0..MaxBoots
    BY DEF Typed, TypeOK, Run
  <2>3. group' \in [Tasks -> Group]
    BY <1>0, <1>3, <2>2, SpawnedGroup DEF Launch
  <2> QED
    BY <1>3, <2>1, <2>3 DEF Launch, Typed, TypeOK, Alive
<1>4. CASE Register(t)
  <2>1. [slot[t] EXCEPT !.pc = "running", !.proc = TRUE, !.ready = TRUE] \in Slot
    BY <1>0 DEF Slot, SlotPc
  <2>2. slot' \in [Tasks -> Slot]
    BY <1>0, <1>4, <2>1 DEF Register
  <2> QED
    BY <1>4, <2>2 DEF Register, Typed, TypeOK, Alive
<1>5. CASE Collect(t)
  <2>1. slot' \in [Tasks -> Slot]
    <3>1. [slot[t] EXCEPT !.pc = "cancel", !.cleanup = TRUE] \in Slot
      BY <1>0 DEF Slot, SlotPc
    <3>2. {"receipt", "nometa"} \subseteq SlotPc
      BY DEF SlotPc
    <3> QED
      BY <1>5, <3>1, <3>2, GoTyped DEF Collect, Typed, TypeOK
  <2>2. group' \in [Tasks -> Group]
    BY <1>0, <1>5 DEF Collect, Killed, Group
  <2> QED
    BY <1>5, <2>1, <2>2 DEF Collect, Typed, TypeOK, Alive
<1>6. CASE CloseByReceipt(t)
  <2>1. slot' \in [Tasks -> Slot]
    BY <1>6, GoTyped DEF CloseByReceipt, SlotPc
  <2>2. \A o \in Outcomes :
          Finalize(t, o.state, IF o.state = "CANCELED" THEN "deadline" ELSE "process_exit",
                   o.artifact) \in Seq(Write)
    <3> TAKE o \in Outcomes
    <3>1. o.state \in FINAL /\ o.artifact \in BOOLEAN
      BY RunnerAssumption DEF ReceiptState, FINAL
    <3> DEFINE reason == IF o.state = "CANCELED" THEN "deadline" ELSE "process_exit"
    <3>2. reason \in Reason
      BY DEF Reason
    <3> HIDE DEF reason
    <3>3. Finalize(t, o.state, reason, o.artifact) \in Seq(Write)
      BY <1>0, <3>1, <3>2, FinalizeWrites, BringingTyped
    <3> QED
      BY <3>3 DEF reason
  <2>3. pending' \in Seq(Write)
    BY <1>6, <2>2 DEF CloseByReceipt, Typed, TypeOK
  <2> QED
    BY <1>6, <2>1, <2>3 DEF CloseByReceipt, Typed, TypeOK, Alive
<1>7. CASE CloseEarly(t)
  <2>1. slot' \in [Tasks -> Slot]
    BY <1>7, GoTyped DEF CloseEarly, SlotPc
  <2>2. DOMAIN Closing = {"reject", "nometa", "fail", "late"}
    BY DEF Closing
  <2>3. /\ slot[t].pc \in DOMAIN Closing
        /\ pending' = Finalize(t, Closing[slot[t].pc][1], Closing[slot[t].pc][2], FALSE)
    BY <1>7 DEF CloseEarly
  <2>4. \A pc \in DOMAIN Closing : Closing[pc][1] \in FINAL /\ Closing[pc][2] \in Reason
    BY DEF Closing, FINAL, Reason
  <2>5. pending' \in Seq(Write)
    BY <1>0, <2>3, <2>4, FinalizeWrites, BringingTyped
  <2> QED
    BY <1>7, <2>1, <2>5 DEF CloseEarly, Typed, TypeOK, Alive
<1>8. CASE FinishCanceled(t)
  <2>1. slot' \in [Tasks -> Slot]
    BY <1>8, GoTyped DEF FinishCanceled, SlotPc
  <2>2. slot[t].reason \in Reason /\ "CANCELED" \in FINAL
    BY <1>0 DEF Slot, FINAL
  <2>3. pending' \in Seq(Write)
    BY <1>0, <1>8, <2>2, FinalizeWrites, BringingTyped DEF FinishCanceled
  <2> QED
    BY <1>8, <2>1, <2>3 DEF FinishCanceled, Typed, TypeOK, Alive
<1>9. CASE EndRun(t)
  <2>1. [slot[t] EXCEPT !.pc = "none", !.ready = TRUE, !.done = TRUE] \in Slot
    BY <1>0 DEF Slot, SlotPc
  <2>2. slot' \in [Tasks -> Slot]
    BY <1>0, <1>9, <2>1 DEF EndRun
  <2> QED
    BY <1>9, <2>2 DEF EndRun, Typed, TypeOK, Alive
<1> QED
  BY <1>1, <1>2, <1>3, <1>4, <1>5, <1>6, <1>7, <1>8, <1>9 DEF Execute

LEMMA CancelTyped ==
  ASSUME Typed, NEW t \in Tasks, NEW c \in Callers, CancelTask(t) \/ CancelStep(c, t)
  PROVE  Typed'
<1> USE DEF disk
<1>0. /\ rec \in [Tasks -> Record] /\ slot \in [Tasks -> Slot] /\ slot[t] \in Slot
      /\ group \in [Tasks -> Group] /\ cancel \in [Callers -> [Tasks -> CancelPc]]
  BY DEF Typed, TypeOK
<1>a. ASSUME NEW d \in Callers, NEW pc \in CancelPc, To(d, t, pc)
      PROVE  cancel' \in [Callers -> [Tasks -> CancelPc]]
  BY <1>0, <1>a DEF To
<1>b. "CANCELED" \in FINAL /\ c \in Reason /\ "cancel_task" \in Callers
  BY DEF FINAL, Reason, Callers
<1>c. {"idle", "get", "mark", "noslot", "ready", "kill", "wait"} \subseteq CancelPc
  BY DEF CancelPc
<1>d. Finalize(t, "CANCELED", c, FALSE) \in Seq(Write)
  BY <1>0, <1>b, FinalizeWrites, BringingTyped
<1>1. CASE CancelTask(t)
  <2>1. cancel' \in [Callers -> [Tasks -> CancelPc]]
    BY <1>1, <1>a, <1>b, <1>c DEF CancelTask
  <2> QED
    BY <1>1, <2>1 DEF CancelTask, Typed, TypeOK, Alive
<1>2. CASE CancelGet(c, t)
  <2>1. cancel' \in [Callers -> [Tasks -> CancelPc]]
    BY <1>2, <1>a, <1>c DEF CancelGet
  <2> QED
    BY <1>2, <2>1 DEF CancelGet, Typed, TypeOK, Alive
<1>3. CASE CancelMark(c, t)
  <2>1. cancel' \in [Callers -> [Tasks -> CancelPc]]
    BY <1>3, <1>a, <1>c DEF CancelMark
  <2>2. slot' = slot \/ \E r \in Reason : slot' = [slot EXCEPT ![t].canceled = TRUE, ![t].reason = r]
    <3>1. slot[t].reason \in Reason
      BY <1>0 DEF Slot
    <3> QED
      BY <1>3, <1>b, <3>1 DEF CancelMark
  <2>3. slot' \in [Tasks -> Slot]
    <3>1. ASSUME NEW r \in Reason,
                 slot' = [slot EXCEPT ![t].canceled = TRUE, ![t].reason = r]
          PROVE  slot' \in [Tasks -> Slot]
      <4>1. slot' = [slot EXCEPT ![t] = [slot[t] EXCEPT !.canceled = TRUE, !.reason = r]]
        BY <1>0, <3>1
      <4>2. [slot[t] EXCEPT !.canceled = TRUE, !.reason = r] \in Slot
        BY <1>0 DEF Slot
      <4> QED
        BY <1>0, <4>1, <4>2
    <3> QED
      BY <1>0, <2>2, <3>1
  <2> QED
    BY <1>3, <2>1, <2>3 DEF CancelMark, Typed, TypeOK, Alive
<1>4. CASE CancelNoSlot(c, t)
  <2>1. cancel' \in [Callers -> [Tasks -> CancelPc]]
    BY <1>4, <1>a, <1>c DEF CancelNoSlot
  <2>2. group' \in [Tasks -> Group]
    BY <1>0, <1>4, MissedGroup DEF CancelNoSlot
  <2> QED
    BY <1>4, <1>d, <2>1, <2>2 DEF CancelNoSlot, Typed, TypeOK, Alive
<1>5. CASE CancelReady(c, t)
  <2>1. cancel' \in [Callers -> [Tasks -> CancelPc]]
    BY <1>5, <1>a, <1>c DEF CancelReady
  <2>2. group' \in [Tasks -> Group]
    <3>1. (~slot[t].ready) \in BOOLEAN
      OBVIOUS
    <3> QED
      BY <1>0, <1>5, <3>1, MissedGroup DEF CancelReady
  <2> QED
    BY <1>5, <2>1, <2>2 DEF CancelReady, Typed, TypeOK, Alive
<1>6. CASE CancelKill(c, t)
  <2>1. cancel' \in [Callers -> [Tasks -> CancelPc]]
    BY <1>6, <1>a, <1>c DEF CancelKill
  <2>2. slot' \in [Tasks -> Slot]
    BY <1>0, <1>6 DEF CancelKill, Slot
  <2>3. group' \in [Tasks -> Group]
    BY <1>0, <1>6 DEF CancelKill, Killed, Group
  <2> QED
    BY <1>6, <2>1, <2>2, <2>3 DEF CancelKill, Typed, TypeOK, Alive
<1>7. CASE CancelWait(c, t)
  <2>1. cancel' \in [Callers -> [Tasks -> CancelPc]]
    BY <1>7, <1>a, <1>c DEF CancelWait
  <2>2. pending' \in Seq(Write)
    BY <1>7, <1>d DEF CancelWait, Typed, TypeOK
  <2> QED
    BY <1>7, <2>1, <2>2 DEF CancelWait, Typed, TypeOK, Alive
<1> QED
  BY <1>1, <1>2, <1>3, <1>4, <1>5, <1>6, <1>7 DEF CancelStep

\* A process that ends forgets what it had in memory.
LEMMA ForgetTyped ==
  ASSUME Typed, Forget
  PROVE  /\ pending' = <<>> /\ pending' \in Seq(Write)
         /\ sender' \in [Tasks -> {"idle", "checked", "created"}]
         /\ slot' \in [Tasks -> Slot]
         /\ cancel' \in [Callers -> [Tasks -> CancelPc]]
         /\ sub' \in [Subs -> Sub]
<1>1. NoSlot \in Slot
  BY DEF NoSlot, Slot, Reason, SlotPc
<1>2. sub \in [Subs -> Sub]
  BY DEF Typed, TypeOK
<1>3. sub' \in [Subs -> Sub]
  BY <1>2 DEF Forget, Sub
<1>4. cancel' \in [Callers -> [Tasks -> CancelPc]]
  BY DEF Forget, CancelPc
<1>5. slot' \in [Tasks -> Slot]
  BY <1>1 DEF Forget
<1>6. pending' = <<>> /\ pending' \in Seq(Write)
      /\ sender' \in [Tasks -> {"idle", "checked", "created"}]
  BY DEF Forget
<1> QED
  BY <1>3, <1>4, <1>5, <1>6

\* What the end of a shutdown's join changes of a group.
LEMMA ReapedGroup ==
  ASSUME group \in [Tasks -> Group], slot \in [Tasks -> Slot], Reap
  PROVE  /\ group' \in [Tasks -> Group]
         /\ \A t \in Tasks :
              /\ group'[t].by = group[t].by /\ group'[t].launches = group[t].launches
              /\ group'[t].st = group[t].st \/ (Running(t) /\ group'[t].st = "gone")
              /\ group[t].missed => group'[t].missed
              /\ t \in run.active /\ slot[t].pc # "none" /\ ~slot[t].done =>
                   IF slot[t].proc /\ Running(t) THEN group'[t].st = "gone"
                   ELSE slot[t].ready \/ group'[t].missed
<1> DEFINE left(t) == t \in run.active /\ slot[t].pc # "none" /\ ~slot[t].done
           g(t) == IF ~left(t) THEN group[t]
                   ELSE IF slot[t].proc /\ Running(t) THEN [group[t] EXCEPT !.st = "gone"]
                   ELSE [group[t] EXCEPT !.missed = group[t].missed \/ ~slot[t].ready]
<1>1. group' = [t \in Tasks |-> g(t)]
  BY DEF Reap
<1>2. ASSUME NEW t \in Tasks
      PROVE  /\ g(t) \in Group
             /\ g(t).by = group[t].by /\ g(t).launches = group[t].launches
             /\ g(t).st = group[t].st \/ (Running(t) /\ g(t).st = "gone")
             /\ group[t].missed => g(t).missed
             /\ left(t) => IF slot[t].proc /\ Running(t) THEN g(t).st = "gone"
                           ELSE slot[t].ready \/ g(t).missed
  <2>1. group[t] \in Group /\ slot[t].ready \in BOOLEAN
    BY DEF Slot
  <2>2. (group[t].missed \/ ~slot[t].ready) \in BOOLEAN
    OBVIOUS
  <2>3. CASE ~left(t)
    BY <2>1, <2>3
  <2>4. CASE left(t) /\ slot[t].proc /\ Running(t)
    <3>1. g(t) = [group[t] EXCEPT !.st = "gone"]
      BY <2>4
    <3> QED
      BY <2>1, <2>4, <3>1 DEF Group
  <2>5. CASE left(t) /\ ~(slot[t].proc /\ Running(t))
    <3> DEFINE m == group[t].missed \/ ~slot[t].ready
    <3>1. g(t) = [group[t] EXCEPT !.missed = m]
      BY <2>5
    <3> QED
      BY <2>1, <2>2, <2>5, <3>1 DEF Group
  <2> QED
    BY <2>3, <2>4, <2>5
<1> HIDE DEF g
<1> QED
  BY <1>1, <1>2

LEMMA ShutdownTyped ==
  ASSUME Typed, BeginShutdown \/ Shutdown \/ Crash \/ RemoveStale
  PROVE  Typed'
<1> USE DEF disk, memory
<1>0. /\ run \in Run /\ slot \in [Tasks -> Slot] /\ group \in [Tasks -> Group]
      /\ cancel \in [Callers -> [Tasks -> CancelPc]] /\ rec \in [Tasks -> Record]
  BY DEF Typed, TypeOK
<1>1. CASE BeginShutdown
  <2>1. run' \in Run /\ run'.pid = run.pid /\ Alive
    BY <1>0, <1>1 DEF BeginShutdown, Run, Phase, Alive
  <2> QED
    BY <1>1, <2>1 DEF BeginShutdown, Typed, TypeOK
<1>2. CASE ListActive
  <2>1. run' \in Run /\ run'.pid = run.pid /\ Alive
    BY <1>0, <1>2 DEF ListActive, Run, Phase, Alive
  <2>2. cancel' \in [Callers -> [Tasks -> CancelPc]]
    BY <1>0, <1>2 DEF ListActive, CancelPc
  <2> QED
    BY <1>2, <2>1, <2>2 DEF ListActive, Typed, TypeOK
<1>3. CASE Reap
  <2>1. run' \in Run /\ run'.pid = run.pid /\ Alive
    BY <1>0, <1>3 DEF Reap, Run, Phase, Alive
  <2>2. group' \in [Tasks -> Group]
    BY <1>0, <1>3, ReapedGroup
  <2>3. slot' \in [Tasks -> Slot]
    <3>1. \A t \in Tasks : [slot[t] EXCEPT !.cleanup = TRUE] \in Slot
      BY <1>0 DEF Slot
    <3> QED
      BY <1>0, <1>3, <3>1 DEF Reap
  <2> QED
    BY <1>3, <2>1, <2>2, <2>3 DEF Reap, Typed, TypeOK
<1>4. CASE EndRound
  <2>1. CASE run.round = 1 /\ run' = [run EXCEPT !.phase = "closing", !.round = 2]
                 /\ UNCHANGED <<pidfile, pending, memory, sub>>
    <3>1. run.phase = "reaping"
      BY <1>4 DEF EndRound
    <3>2. run' \in Run /\ run'.pid = run.pid /\ Alive
      <4>1. run' = [run EXCEPT !.phase = "closing", !.round = 2]
        BY <2>1
      <4>2. "closing" \in Phase /\ 2 \in 1..2
        BY DEF Phase
      <4> QED
        BY <1>0, <3>1, <4>1, <4>2 DEF Run, Alive
    <3> QED
      BY <1>4, <2>1, <3>2 DEF EndRound, Typed, TypeOK
  <2>2. CASE /\ run' = [run EXCEPT !.phase = "exited", !.active = {}]
             /\ pidfile' = IF pidfile = run.pid THEN 0 ELSE pidfile
             /\ Forget
    <3>1. run' \in Run /\ ~Alive'
      BY <1>0, <2>2 DEF Run, Phase, Alive
    <3>2. pidfile' \in 0..MaxBoots
      BY <2>2, RunnerAssumption DEF Typed, TypeOK
    <3> QED
      BY <1>4, <2>2, <3>1, <3>2, ForgetTyped DEF EndRound, Typed, TypeOK
  <2> QED
    BY <1>4, <2>1, <2>2 DEF EndRound
<1>5. CASE \E t \in Tasks : FinalizeLeft(t)
  <2>1. PICK t \in Tasks : FinalizeLeft(t)
    BY <1>5
  <2>2. "CANCELED" \in FINAL /\ "runner_stop" \in Reason
    BY DEF FINAL, Reason
  <2>3. pending' \in Seq(Write)
    BY <1>0, <2>1, <2>2, FinalizeWrites, BringingTyped DEF FinalizeLeft
  <2> QED
    BY <2>1, <2>3 DEF FinalizeLeft, Typed, TypeOK, Alive
<1>6. CASE Crash
  <2>1. run' \in Run /\ ~Alive'
    BY <1>0, <1>6 DEF Crash, Run, Phase, Alive
  <2> QED
    BY <1>6, <2>1, ForgetTyped DEF Crash, Typed, TypeOK
<1>7. CASE RemoveStale
  BY <1>7, RunnerAssumption DEF RemoveStale, Typed, TypeOK, Alive
<1> QED
  BY <1>1, <1>2, <1>3, <1>4, <1>5, <1>6, <1>7 DEF Shutdown

LEMMA BootTyped ==
  ASSUME Typed,
         BootStart \/ BootWrite \/ BootOwn \/ BootCrash \/ (\E t \in Tasks : BootRead(t))
  PROVE  Typed'
<1> USE DEF disk, memory
<1>0. boot \in Boot /\ run \in Run /\ rec \in [Tasks -> Record] /\ MaxBoots \in Nat
  BY RunnerAssumption DEF Typed, TypeOK
<1>a. BootOver => boot' \in Boot
  <2>1. 0 \in 0..MaxBoots /\ {} \in SUBSET Tasks /\ <<>> \in Seq(Write)
    BY <1>0
  <2> QED
    BY <1>0, <2>1 DEF BootOver, Boot
<1>1. CASE BootStart
  <2>1. boot' \in Boot
    BY <1>0, <1>1 DEF BootStart, Boot
  <2> QED
    BY <1>1, <2>1 DEF BootStart, Typed, TypeOK, Alive
<1>2. CASE BootWrite
  <2>1. boot.writes \in Seq(Write) /\ boot.writes # <<>>
    BY <1>0, <1>2 DEF BootWrite, Boot
  <2>2. Head(boot.writes) \in Write /\ Tail(boot.writes) \in Seq(Write)
    BY <2>1
  <2>3. boot' \in Boot
    BY <1>0, <1>2, <2>2 DEF BootWrite, Boot
  <2>4. rec' \in [Tasks -> Record] /\ events' \in [Tasks -> Seq(EventKind)]
    BY <1>2, <2>2, ApplyTyped DEF BootWrite
  <2> QED
    BY <1>2, <2>3, <2>4 DEF BootWrite, Typed, TypeOK, Alive
<1>3. CASE BootOwn
  <2>1. boot' \in Boot /\ boot.pid \in 1..MaxBoots
    BY <1>0, <1>3, <1>a DEF BootOwn, Boot
  <2>2. CASE UNCHANGED <<run, pidfile>>
    BY <1>3, <2>1, <2>2 DEF BootOwn, Typed, TypeOK, Alive
  <2>3. CASE /\ run' = [pid |-> boot.pid, phase |-> "up", round |-> 1, active |-> {}]
             /\ pidfile' = boot.pid
    <3>1. run' \in Run /\ run'.pid = boot.pid
      BY <1>0, <2>1, <2>3 DEF Run, Phase
    <3> QED
      BY <1>3, <2>1, <2>3, <3>1 DEF BootOwn, Typed, TypeOK
  <2> QED
    BY <1>3, <2>2, <2>3 DEF BootOwn
<1>4. CASE BootCrash
  <2>1. boot' \in Boot
    BY <1>0, <1>4, <1>a DEF BootCrash, Boot
  <2> QED
    BY <1>4, <2>1 DEF BootCrash, Typed, TypeOK, Alive
<1>5. CASE \E t \in Tasks : BootRead(t)
  <2>1. PICK t \in Tasks : BootRead(t)
    BY <1>5
  <2>2. "FAILED" \in FINAL /\ "runner_restart" \in Reason
    BY DEF FINAL, Reason
  <2>3. Finalize(t, "FAILED", "runner_restart", FALSE) \in Seq(Write)
    BY <1>0, <2>2, FinalizeWrites, BringingTyped
  <2>4. boot' \in Boot
    BY <1>0, <2>1, <2>3 DEF BootRead, Boot
  <2> QED
    BY <2>1, <2>4 DEF BootRead, Typed, TypeOK, Alive
<1> QED
  BY <1>1, <1>2, <1>3, <1>4, <1>5

LEMMA OtherTyped ==
  ASSUME Typed, (\E t \in Tasks : LeaderExits(t)) \/ (\E s \in Subs : SseOpen(s) \/ Sse(s))
  PROVE  Typed'
<1> USE DEF disk, memory
<1>1. ASSUME NEW t \in Tasks, LeaderExits(t) PROVE Typed'
  <2>1. group' \in [Tasks -> Group]
    <3>1. PICK st \in {"gone", "orphan"} : group' = [group EXCEPT ![t].st = st]
      BY <1>1 DEF LeaderExits
    <3> QED
      BY <3>1 DEF Typed, TypeOK, Group
  <2> QED
    BY <1>1, <2>1 DEF LeaderExits, Typed, TypeOK, Alive
<1>2. ASSUME NEW s \in Subs, SseOpen(s) \/ SseDrain(s) \/ SseCheck(s) PROVE Typed'
  <2>1. sub[s] \in Sub /\ sub[s].task \in Tasks /\ sub[s].got \in Nat
    BY DEF Typed, TypeOK, Sub
  <2>2. Len(events[sub[s].task]) \in Nat
    BY <2>1 DEF Typed, TypeOK
  <2>3. sub' \in [Subs -> Sub]
    <3>1. CASE SseOpen(s)
      BY <3>1 DEF SseOpen, Typed, TypeOK, Sub
    <3>2. CASE SseDrain(s)
      <4>1. PICK n \in sub[s].got..Len(events[sub[s].task]) :
              sub' = [sub EXCEPT ![s].got = n,
                                 ![s].pc = IF n = Len(events[sub[s].task]) THEN "check" ELSE "off"]
        BY <3>2 DEF SseDrain
      <4>2. n \in Nat
        BY <2>1, <2>2
      <4> DEFINE pc == IF n = Len(events[sub[s].task]) THEN "check" ELSE "off"
      <4>3. pc \in {"off", "check"}
        OBVIOUS
      <4> HIDE DEF pc
      <4>4. [sub[s] EXCEPT !.got = n, !.pc = pc] \in Sub
        BY <2>1, <4>2, <4>3 DEF Sub
      <4>5. sub' = [sub EXCEPT ![s] = [sub[s] EXCEPT !.got = n, !.pc = pc]]
        BY <2>1, <4>1 DEF Typed, TypeOK, pc
      <4> QED
        BY <4>4, <4>5 DEF Typed, TypeOK
    <3>3. CASE SseCheck(s)
      BY <2>1, <2>2, <3>3 DEF SseCheck, Typed, TypeOK, Sub
    <3> QED
      BY <1>2, <3>1, <3>2, <3>3
  <2> QED
    BY <1>2, <2>3 DEF SseOpen, SseDrain, SseCheck, Typed, TypeOK, Alive
<1> QED
  BY <1>1, <1>2 DEF Sse

LEMMA StepTyped == ASSUME Typed, [Next]_vars PROVE Typed'
<1>1. CASE UNCHANGED vars
  BY <1>1 DEF vars, Typed, TypeOK, Alive
<1>2. CASE Next
  <2>1. ASSUME NEW t \in Tasks, SendCheck(t) \/ CancelTask(t) \/ Thread(t) PROVE Typed'
    <3>1. "cancel_task" \in Callers
      BY DEF Callers
    <3> QED
      BY <2>1, <3>1, SenderTyped, ExecuteTyped, CancelTyped DEF Thread
  <2>2. CASE StoreWrite
    BY <2>2, StoreWriteTyped
  <2>3. CASE BeginShutdown \/ Shutdown \/ Crash \/ RemoveStale
    BY <2>3, ShutdownTyped
  <2>4. CASE BootStart \/ BootWrite \/ BootOwn \/ BootCrash \/ (\E t \in Tasks : BootRead(t))
    BY <2>4, BootTyped
  <2>5. CASE (\E t \in Tasks : LeaderExits(t)) \/ (\E s \in Subs : SseOpen(s) \/ Sse(s))
    BY <2>5, OtherTyped
  <2> QED
    BY <1>2, <2>1, <2>2, <2>3, <2>4, <2>5 DEF Next
<1> QED
  BY <1>1, <1>2

\* Every variable of the runner keeps its type, and the pidfile of a live
\* runner names it.
THEOREM RunnerTypeCorrect == Spec => []TypeOK
<1>1. Spec => []Typed
  BY InitTyped, StepTyped, PTL DEF Spec
<1>2. Typed => TypeOK
  BY DEF Typed
<1> QED
  BY <1>1, <1>2, PTL

-----------------------------------------------------------------------------
\* A process is started once: for any number of runner processes, two at a time
\* too.

\* The message of a task has been taken up for good: it will never be created
\* or set to work again.
Past(t) == State(t) \notin {"none", "SUBMITTED"}

\* Everything but the creation of a task.
Later == {w \in Write : w.op = "record" => w.rec.state \notin {"none", "SUBMITTED"}}

\* The write that creates a task comes first of its operation, on no record.
Opening ==
  /\ pending # <<>> /\ Tail(pending) \in Seq(Later)
  /\ State(Head(pending).task) = "none"
  /\ Head(pending) \in Bringing(Head(pending).task, Accepted)

BootLater ==
  /\ boot.writes \in Seq(Later)
  /\ \A i \in 1..Len(boot.writes) :
       boot.writes[i].op = "record" => State(boot.writes[i].task) # "none"

\* A thread that is about to launch has set its task to work, or is just doing so.
Launchable(t) ==
  /\ group[t].launches = 0
  /\ \/ Past(t)
     \/ pending # <<>> /\ Head(pending).op = "record" /\ Head(pending).task = t /\ Head(pending) \in Later

Once ==
  /\ pending \in Seq(Later) \/ Opening
  /\ BootLater
  /\ \A t \in Tasks : slot[t].pc = "launch" => Launchable(t)
  /\ \A t \in Tasks : group[t].launches # 0 => Past(t)
  /\ RunsOnce

OInv == Typed /\ Once

LEMMA InitOnce == ASSUME Init PROVE OInv
<1>1. Typed
  BY InitTyped
<1>2. pending \in Seq(Later) /\ BootLater
  BY DEF Init, BootLater
<1>3. RunsOnce /\ \A t \in Tasks : slot[t].pc # "launch" /\ group[t].launches = 0
  BY DEF Init, NoSlot, RunsOnce
<1> QED
  BY <1>1, <1>2, <1>3 DEF OInv, Once

\* No write of a store operation other than creation takes a task back.
LEMMA LaterWrites ==
  ASSUME Typed, NEW t \in Tasks
  PROVE  /\ TransitionWorking(t) \in Seq(Later)
         /\ \A s \in FINAL, reason \in Reason, a \in BOOLEAN :
              Finalize(t, s, reason, a) \in Seq(Later)
<1>0. rec \in [Tasks -> Record]
  BY DEF Typed, TypeOK
<1>1. ASSUME NEW v, v.state \notin {"none", "SUBMITTED"}
      PROVE  Bringing(t, v) \subseteq Later
  BY <1>1 DEF Bringing, Later, ViewOf
<1>2. ASSUME NEW v, Bringing(t, v) \subseteq Later, NEW q \in Seq(Bringing(t, v))
      PROVE  q \in Seq(Later)
  BY <1>2
<1>3. TransitionWorking(t) \in Seq(Later)
  <2>1. [ViewOf(rec[t]) EXCEPT !.state = "WORKING"].state = "WORKING"
    BY DEF ViewOf
  <2> QED
    BY <1>0, <1>1, <1>2, <2>1, WorkingWrites
<1>4. ASSUME NEW s \in FINAL, NEW reason \in Reason, NEW a \in BOOLEAN
      PROVE  Finalize(t, s, reason, a) \in Seq(Later)
  <2>1. Ended(s, reason, a).state \notin {"none", "SUBMITTED"}
    BY <1>4 DEF Ended, FINAL
  <2> QED
    BY <1>0, <1>1, <1>2, <2>1, FinalizeWrites
<1> QED
  BY <1>3, <1>4

\* A write of a record leaves a task that is past past, and makes one past
\* unless it creates it.
LEMMA WriteOnce ==
  ASSUME Typed, NEW w \in Write, Apply(w),
         w \in Later \/ (State(w.task) = "none" /\ w \in Bringing(w.task, Accepted))
  PROVE  \A t \in Tasks :
           /\ Past(t) => Past(t)'
           /\ State(t) # "none" => (State(t) # "none")'
           /\ w.op = "record" /\ w.task = t /\ w \in Later => Past(t)'
           /\ w.op = "record" /\ w.task = t => (State(t) # "none")'
           /\ w.op # "record" => UNCHANGED rec
<1>1. CASE w.op # "record"
  BY <1>1 DEF Apply, Past, State
<1>2. CASE w.op = "record"
  <2>1. /\ w.task \in Tasks /\ rec' = [rec EXCEPT ![w.task] = w.rec]
        /\ rec \in [Tasks -> Record]
    BY <1>2 DEF Apply, Write, Typed, TypeOK
  <2>2. w.rec.state # "none" /\ (w \in Later => w.rec.state \notin {"none", "SUBMITTED"})
    BY <1>2 DEF Later, Bringing, ViewOf, Accepted
  <2> QED
    BY <1>2, <2>1, <2>2 DEF Past, State
<1> QED
  BY <1>1, <1>2

LEMMA StoreWriteOnce == ASSUME OInv, StoreWrite PROVE Once'
<1> DEFINE w == Head(pending)
<1>1. pending \in Seq(Write) /\ pending # <<>> /\ w \in Write /\ Typed
  BY DEF OInv, Typed, TypeOK, StoreWrite
<1>2. w \in Later \/ (State(w.task) = "none" /\ w \in Bringing(w.task, Accepted))
  BY <1>1 DEF OInv, Once, Opening
<1>3. /\ Apply(w) /\ pending' = Tail(pending)
      /\ UNCHANGED <<boot, slot, group>>
  BY DEF StoreWrite, memory
<1>4. Tail(pending) \in Seq(Later)
  BY <1>1 DEF OInv, Once, Opening
<1>5. \A t \in Tasks : /\ Past(t) => Past(t)'
                       /\ State(t) # "none" => (State(t) # "none")'
                       /\ w.op = "record" /\ w.task = t /\ w \in Later => Past(t)'
  BY <1>1, <1>2, <1>3, WriteOnce
<1>6. BootLater'
  <2>1. boot.writes \in Seq(Write)
    BY <1>1 DEF Typed, TypeOK, Boot
  <2>2. \A i \in 1..Len(boot.writes) :
          boot.writes[i].op = "record" => boot.writes[i].task \in Tasks
    BY <2>1 DEF Write
  <2> QED
    BY <1>3, <1>5, <2>2 DEF OInv, Once, BootLater
<1> HIDE DEF w
<1>7. \A t \in Tasks : slot[t].pc = "launch" => Launchable(t)'
  BY <1>3, <1>5 DEF OInv, Once, Launchable, w
<1> QED
  BY <1>3, <1>4, <1>5, <1>6, <1>7 DEF OInv, Once, RunsOnce

LEMMA BootWriteOnce == ASSUME OInv, BootWrite PROVE Once'
<1> DEFINE w == Head(boot.writes)
<1>1. boot.writes \in Seq(Write) /\ boot.writes # <<>> /\ w \in Write /\ Typed
  BY DEF OInv, Typed, TypeOK, BootWrite, Boot
<1>2. w \in Later /\ (w.op = "record" => State(w.task) # "none")
  BY <1>1 DEF OInv, Once, BootLater
<1>3. /\ Apply(w) /\ boot'.writes = Tail(boot.writes)
      /\ UNCHANGED <<pending, slot, group>>
  BY DEF BootWrite, memory, OInv, Typed, TypeOK, Boot
<1>4. \A t \in Tasks : /\ Past(t) => Past(t)'
                       /\ State(t) # "none" => (State(t) # "none")'
                       /\ w.op # "record" => UNCHANGED rec
  BY <1>1, <1>2, <1>3, WriteOnce
<1>5. BootLater'
  <2>1. boot.writes \in Seq(Later)
    BY DEF OInv, Once, BootLater
  <2>2. Tail(boot.writes) \in Seq(Later)
    BY <1>1, <2>1
  <2>3. \A i \in 1..Len(Tail(boot.writes)) :
          Tail(boot.writes)[i] = boot.writes[i + 1] /\ i + 1 \in 1..Len(boot.writes)
    BY <1>1
  <2>4. \A i \in 1..Len(boot.writes) :
          boot.writes[i].op = "record" =>
            boot.writes[i].task \in Tasks /\ State(boot.writes[i].task) # "none"
    BY <1>1 DEF OInv, Once, BootLater, Write
  <2>5. ASSUME NEW i \in 1..Len(Tail(boot.writes)), Tail(boot.writes)[i].op = "record"
        PROVE  rec'[Tail(boot.writes)[i].task].state # "none"
    <3>1. /\ Tail(boot.writes)[i].task \in Tasks
          /\ State(Tail(boot.writes)[i].task) # "none"
      BY <2>3, <2>4, <2>5
    <3> QED
      BY <1>4, <3>1 DEF State
  <2> QED
    BY <1>3, <2>2, <2>5 DEF BootLater, State
<1>6. (pending \in Seq(Later) \/ Opening)'
  <2>1. CASE pending \in Seq(Later)
    BY <1>3, <2>1
  <2>2. CASE Opening
    <3>1. (State(Head(pending).task) = "none")'
      <4>1. CASE w.op # "record"
        BY <1>3, <2>2, <4>1 DEF Apply, Opening, State
      <4>2. CASE w.op = "record"
        <5>1. w.task # Head(pending).task /\ w.task \in Tasks
          BY <1>1, <1>2, <2>2, <4>2 DEF Opening, Write
        <5>2. rec' = [rec EXCEPT ![w.task] = w.rec] /\ rec \in [Tasks -> Record]
          BY <1>1, <1>3, <4>2 DEF Apply, Typed, TypeOK
        <5>3. Head(pending).task \in Tasks
          BY <2>2 DEF Opening, Bringing, Write
        <5> QED
          BY <1>3, <2>2, <5>1, <5>2, <5>3 DEF Opening, State
      <4> QED
        BY <4>1, <4>2
    <3> QED
      BY <1>3, <2>2, <3>1 DEF Opening
  <2> QED
    BY <2>1, <2>2 DEF OInv, Once
<1> HIDE DEF w
<1>7. \A t \in Tasks : slot[t].pc = "launch" => Launchable(t)'
  BY <1>3, <1>4 DEF OInv, Once, Launchable
<1> QED
  BY <1>3, <1>4, <1>5, <1>6, <1>7 DEF OInv, Once, RunsOnce

\* A step that writes nothing, starts nothing and takes no thread to its launch.
LEMMA FrameOnce ==
  ASSUME OInv, UNCHANGED rec, BootLater',
         pending' \in Seq(Later) \/ Opening',
         UNCHANGED pending \/ pending = <<>>,
         \A t \in Tasks : slot'[t].pc = "launch" => slot[t].pc = "launch",
         \A t \in Tasks : group'[t].launches = group[t].launches
  PROVE  Once'
<1>1. \A t \in Tasks : slot'[t].pc = "launch" => Launchable(t)'
  BY DEF OInv, Once, Launchable, Past, State
<1> QED
  BY <1>1 DEF OInv, Once, RunsOnce, Past, State

LEMMA BootStays ==
  ASSUME OInv, UNCHANGED <<rec, boot>> PROVE BootLater'
  BY DEF OInv, Once, BootLater, State

LEMMA PendingStays ==
  ASSUME OInv, UNCHANGED <<rec, pending>> PROVE pending' \in Seq(Later) \/ Opening'
  BY DEF OInv, Once, Opening, State

LEMMA SenderOnce ==
  ASSUME OInv, NEW t \in Tasks, StoreFree, SendCheck(t) \/ SendCreate(t) \/ SendStart(t)
  PROVE  Once'
<1> USE DEF disk
<1>1. UNCHANGED <<rec, boot, group>> /\ pending = <<>> /\ BootLater'
  BY BootStays DEF SendCheck, SendCreate, SendStart, StoreFree
<1>2. pending' \in Seq(Later) \/ Opening'
  <2>1. CASE SendCreate(t)
    <3>1. CASE Create(t) = <<>>
      BY <2>1, <3>1 DEF SendCreate
    <3>2. CASE Create(t) # <<>>
      <4> DEFINE r == RecordWrite(t, [NoRecord EXCEPT !.state = "SUBMITTED"])
                 e == EventWrite(t, "SUBMITTED")
      <4>1. pending' = <<r, e>> /\ State(t) = "none"
        BY <2>1, <3>2 DEF SendCreate, Create
      <4>2. r.task = t /\ e \in Later
        BY DEF RecordWrite, EventWrite, Later, Write, EventKind, ACTIVE
      <4>3. r \in Bringing(t, Accepted)
        <5>1. [NoRecord EXCEPT !.state = "SUBMITTED"] \in Record
          BY DEF NoRecord, Record, ACTIVE, Reason
        <5> QED
          BY <5>1, RecordTyped DEF NoRecord, ViewOf, Accepted
      <4> HIDE DEF r, e
      <4>4. Head(pending') = r /\ Tail(pending') = <<e>> /\ pending' # <<>>
        BY <4>1
      <4>5. Tail(pending') \in Seq(Later)
        <5>1. <<e>> \in Seq(Later)
          BY <4>2
        <5> QED
          BY <4>4, <5>1, Zenon
      <4> QED
        BY <1>1, <4>1, <4>2, <4>3, <4>4, <4>5 DEF Opening, State
    <3> QED
      BY <3>1, <3>2
  <2>2. CASE SendCheck(t) \/ SendStart(t)
    BY <1>1, <2>2, PendingStays DEF SendCheck, SendStart
  <2> QED
    BY <2>1, <2>2
<1>3. \A u \in Tasks : slot'[u].pc = "launch" => slot[u].pc = "launch"
  <2>1. slot \in [Tasks -> Slot]
    BY DEF OInv, Typed, TypeOK
  <2> QED
    BY <2>1 DEF SendCheck, SendCreate, SendStart, NoSlot
<1> QED
  BY <1>1, <1>2, <1>3, FrameOnce

LEMMA KillStartsNothing ==
  ASSUME group \in [Tasks -> Group], NEW t \in Tasks
  PROVE  \A u \in Tasks : Killed(t)[u].launches = group[u].launches
<1> DEFINE st == IF group[t].st \in {"up", "orphan"} THEN "gone" ELSE group[t].st
<1>1. Killed(t) = [group EXCEPT ![t].st = st]
  BY DEF Killed
<1> HIDE DEF st
<1> QED
  BY <1>1

LEMMA CancelStartsNothing ==
  ASSUME group \in [Tasks -> Group], NEW t \in Tasks, NEW c \in Callers,
         CancelTask(t) \/ CancelStep(c, t)
  PROVE  \A u \in Tasks : group'[u].launches = group[u].launches
<1>1. group' = group \/ group' = Killed(t) \/ \E b \in BOOLEAN : group' = Missed(t, b)
  <2>1. CASE CancelReady(c, t)
    <3>1. (~slot[t].ready) \in BOOLEAN
      OBVIOUS
    <3> QED
      BY <2>1, <3>1 DEF CancelReady
  <2>2. CASE CancelNoSlot(c, t)
    <3>1. (slot[t].pc # "none") \in BOOLEAN
      OBVIOUS
    <3> QED
      BY <2>2, <3>1 DEF CancelNoSlot
  <2>3. CASE ~CancelReady(c, t) /\ ~CancelNoSlot(c, t)
    BY <2>3 DEF CancelTask, CancelStep, CancelGet, CancelMark, CancelKill, CancelWait
  <2> QED
    BY <2>1, <2>2, <2>3
<1> QED
  BY <1>1, KillStartsNothing, MissedGroup

LEMMA ExecuteOnce ==
  ASSUME OInv, NEW t \in Tasks, StoreFree, Execute(t)
  PROVE  Once'
<1> USE DEF disk
<1>1. /\ slot \in [Tasks -> Slot] /\ group \in [Tasks -> Group] /\ rec \in [Tasks -> Record]
      /\ pending = <<>> /\ Typed
  BY DEF OInv, Typed, TypeOK, StoreFree
<1>2. ASSUME NEW pc, Go(t, pc), pc # "launch"
      PROVE  \A u \in Tasks : slot'[u].pc = "launch" => slot[u].pc = "launch" /\ u # t
  BY <1>1, <1>2 DEF Go
<1>3. ASSUME GoCanceled(t)
      PROVE  \A u \in Tasks : slot'[u].pc = "launch" => slot[u].pc = "launch" /\ u # t
  BY <1>1, <1>3 DEF GoCanceled
<1>4. CASE ValidateEnvelope(t)
  BY <1>1, <1>2, <1>3, <1>4, FrameOnce, BootStays, PendingStays DEF ValidateEnvelope
<1>5. CASE BeginWork(t)
  <2>1. pending' = TransitionWorking(t) /\ pending' \in Seq(Later)
    BY <1>1, <1>5, LaterWrites DEF BeginWork
  <2>2. UNCHANGED <<rec, boot, group>> /\ BootLater'
    BY <1>5, BootStays DEF BeginWork
  <2>3. CASE TransitionWorking(t) = <<>>
    <3>1. \A u \in Tasks : slot'[u].pc = "launch" => slot[u].pc = "launch"
      <4>1. slot' = [slot EXCEPT ![t] = [@ EXCEPT !.pc = "end", !.ready = TRUE, !.cleanup = TRUE]]
        BY <1>5, <2>3, Zenon DEF BeginWork
      <4> QED
        BY <1>1, <4>1
    <3> QED
      BY <1>1, <2>1, <2>2, <3>1, FrameOnce
  <2>4. CASE TransitionWorking(t) # <<>>
    <3>1. /\ pending' # <<>> /\ State(t) = "SUBMITTED"
          /\ Head(pending').op = "record" /\ Head(pending').task = t
      BY <1>1, <2>1, <2>4, WorkingWrites
    <3>2. Head(pending') \in Later
      BY <2>1, <3>1
    <3>3. group[t].launches = 0
      BY <3>1 DEF OInv, Once, Past
    <3>4. Launchable(t)'
      BY <2>2, <3>1, <3>2, <3>3 DEF Launchable
    <3>5. \A u \in Tasks \ {t} : slot'[u].pc = "launch" => slot[u].pc = "launch"
      BY <1>1, <1>5, <2>4 DEF BeginWork, Go
    <3>6. \A u \in Tasks : slot[u].pc = "launch" => Past(u) /\ group[u].launches = 0
      BY <1>1 DEF OInv, Once, Launchable
    <3>7. \A u \in Tasks : slot'[u].pc = "launch" => Launchable(u)'
      BY <2>2, <3>4, <3>5, <3>6 DEF Launchable, Past, State
    <3> QED
      BY <2>1, <2>2, <3>7 DEF OInv, Once, RunsOnce, Past, State
  <2> QED
    BY <2>3, <2>4
<1>6. CASE Launch(t)
  <2>1. UNCHANGED <<rec, boot, pending>>
    BY <1>6 DEF Launch
  <2>2. Past(t) /\ group[t].launches = 0
    BY <1>1, <1>6 DEF OInv, Once, Launchable, Launch
  <2>3. \A u \in Tasks : slot'[u].pc = "launch" => slot[u].pc = "launch" /\ u # t
    <3>1. Go(t, "launched") \/ Go(t, "fail") \/ GoCanceled(t)
      BY <1>6 DEF Launch
    <3> QED
      BY <1>2, <1>3, <3>1
  <2>a. group' = group \/ group' = Spawned(t)
    BY <1>6 DEF Launch
  <2>b. run.pid \in 0..MaxBoots
    BY <1>1 DEF Typed, TypeOK, Run
  <2>4. \A u \in Tasks : u # t => group'[u] = group[u]
    BY <1>1, <2>a, <2>b, SpawnedGroup
  <2>5. group'[t].launches \in {0, 1}
    BY <1>1, <2>a, <2>b, <2>2, SpawnedGroup
  <2>6. \A u \in Tasks : slot'[u].pc = "launch" => Launchable(u)'
    BY <2>1, <2>3, <2>4 DEF OInv, Once, Launchable, Past, State
  <2>7. \A u \in Tasks : group'[u].launches # 0 => Past(u)'
    BY <2>1, <2>2, <2>4 DEF OInv, Once, Past, State
  <2>8. RunsOnce'
    BY <2>4, <2>5 DEF OInv, Once, RunsOnce
  <2> QED
    BY <2>1, <2>6, <2>7, <2>8, BootStays, PendingStays DEF Once
<1>7. CASE Register(t)
  BY <1>1, <1>7, FrameOnce, BootStays, PendingStays DEF Register
<1>8. CASE Collect(t)
  <2>1. \A u \in Tasks : slot'[u].pc = "launch" => slot[u].pc = "launch"
    <3>1. \/ slot' = [slot EXCEPT ![t] = [slot[t] EXCEPT !.pc = "cancel", !.cleanup = TRUE]]
          \/ Go(t, "receipt") \/ Go(t, "nometa")
      BY <1>8 DEF Collect
    <3>2. CASE slot' = [slot EXCEPT ![t] = [slot[t] EXCEPT !.pc = "cancel", !.cleanup = TRUE]]
      BY <1>1, <3>2
    <3> QED
      BY <1>2, <3>1, <3>2
  <2>2. \A u \in Tasks : group'[u].launches = group[u].launches
    <3>1. group' = group \/ group' = Killed(t)
      BY <1>8 DEF Collect
    <3> QED
      BY <1>1, <3>1, KillStartsNothing
  <2> QED
    BY <1>8, <2>1, <2>2, FrameOnce, BootStays, PendingStays DEF Collect
<1>9. CASE CloseByReceipt(t)
  <2>1. ASSUME NEW o \in Outcomes, NEW reason \in Reason
        PROVE  Finalize(t, o.state, reason, o.artifact) \in Seq(Later)
    <3>1. o.state \in FINAL /\ o.artifact \in BOOLEAN
      BY RunnerAssumption DEF ReceiptState, FINAL
    <3> QED
      BY <1>1, <3>1, LaterWrites
  <2>2. {"deadline", "process_exit"} \subseteq Reason
    BY DEF Reason
  <2>3. pending' \in Seq(Later) \/ Opening'
    <3>1. CASE UNCHANGED pending
      BY <1>9, <3>1, PendingStays DEF CloseByReceipt
    <3>2. CASE \E o \in Outcomes : pending' = Finalize(t, o.state,
                 IF o.state = "CANCELED" THEN "deadline" ELSE "process_exit", o.artifact)
      BY <2>1, <2>2, <3>2
    <3> QED
      BY <1>9, <3>1, <3>2 DEF CloseByReceipt
  <2>4. \A u \in Tasks : slot'[u].pc = "launch" => slot[u].pc = "launch"
    BY <1>2, <1>3, <1>9 DEF CloseByReceipt
  <2> QED
    BY <1>1, <1>9, <2>3, <2>4, FrameOnce, BootStays DEF CloseByReceipt
<1>10. CASE CloseEarly(t)
  <2>1. \A pc \in DOMAIN Closing : Closing[pc][1] \in FINAL /\ Closing[pc][2] \in Reason
    BY DEF Closing, FINAL, Reason
  <2>2. pending' \in Seq(Later)
    BY <1>1, <1>10, <2>1, LaterWrites DEF CloseEarly
  <2> QED
    BY <1>1, <1>2, <1>10, <2>2, FrameOnce, BootStays DEF CloseEarly
<1>11. CASE FinishCanceled(t)
  <2>1. slot[t].reason \in Reason /\ "CANCELED" \in FINAL
    BY <1>1 DEF Slot, FINAL
  <2>2. pending' \in Seq(Later)
    BY <1>1, <1>11, <2>1, LaterWrites DEF FinishCanceled
  <2> QED
    BY <1>1, <1>2, <1>11, <2>2, FrameOnce, BootStays DEF FinishCanceled
<1>12. CASE EndRun(t)
  BY <1>1, <1>12, FrameOnce, BootStays, PendingStays DEF EndRun
<1> QED
  BY <1>4, <1>5, <1>6, <1>7, <1>8, <1>9, <1>10, <1>11, <1>12 DEF Execute

LEMMA CancelOnce ==
  ASSUME OInv, NEW t \in Tasks, NEW c \in Callers, StoreFree, CancelTask(t) \/ CancelStep(c, t)
  PROVE  Once'
<1> USE DEF disk
<1>1. /\ slot \in [Tasks -> Slot] /\ group \in [Tasks -> Group] /\ pending = <<>> /\ Typed
  BY DEF OInv, Typed, TypeOK, StoreFree
<1>2. Finalize(t, "CANCELED", c, FALSE) \in Seq(Later)
  BY <1>1, LaterWrites DEF FINAL, Reason, Callers
<1>3. CASE CancelTask(t) \/ CancelGet(c, t)
  BY <1>3, FrameOnce, BootStays, PendingStays DEF CancelTask, CancelGet
<1>a. \A u \in Tasks : group'[u].launches = group[u].launches
  BY <1>1, CancelStartsNothing
<1>8. CASE CancelReady(c, t)
  BY <1>8, <1>a, FrameOnce, BootStays, PendingStays DEF CancelReady
<1>4. CASE CancelMark(c, t)
  <2>1. \A u \in Tasks : slot'[u].pc = slot[u].pc
    <3>1. slot' = slot \/ \E r : slot' = [slot EXCEPT ![t].canceled = TRUE, ![t].reason = r]
      BY <1>4 DEF CancelMark
    <3>2. ASSUME NEW r, slot' = [slot EXCEPT ![t].canceled = TRUE, ![t].reason = r]
          PROVE  \A u \in Tasks : slot'[u].pc = slot[u].pc
      <4>1. slot' = [slot EXCEPT ![t] = [slot[t] EXCEPT !.canceled = TRUE, !.reason = r]]
        BY <1>1, <3>2
      <4>2. [slot[t] EXCEPT !.canceled = TRUE, !.reason = r].pc = slot[t].pc
        BY <1>1 DEF Slot
      <4> QED
        BY <1>1, <4>1, <4>2
    <3> QED
      BY <3>1, <3>2
  <2> QED
    BY <1>4, <2>1, FrameOnce, BootStays, PendingStays DEF CancelMark
<1>5. CASE CancelNoSlot(c, t)
  BY <1>1, <1>2, <1>5, <1>a, FrameOnce, BootStays DEF CancelNoSlot
<1>6. CASE CancelKill(c, t)
  <2>1. \A u \in Tasks : slot'[u].pc = slot[u].pc
    BY <1>1, <1>6 DEF CancelKill
  <2> QED
    BY <1>6, <1>a, <2>1, FrameOnce, BootStays, PendingStays DEF CancelKill
<1>7. CASE CancelWait(c, t)
  <2>1. pending' \in Seq(Later)
    <3>1. <<>> \in Seq(Later)
      OBVIOUS
    <3>2. pending' = <<>> \/ pending' = Finalize(t, "CANCELED", c, FALSE)
      BY <1>1, <1>7 DEF CancelWait
    <3> QED
      BY <1>2, <3>1, <3>2
  <2> QED
    BY <1>1, <1>7, <2>1, FrameOnce, BootStays DEF CancelWait
<1> QED
  BY <1>3, <1>4, <1>5, <1>6, <1>7, <1>8 DEF CancelStep

LEMMA ForgetOnce ==
  ASSUME OInv, Forget, UNCHANGED <<rec, boot, group>> PROVE Once'
<1>1. pending' = <<>> /\ \A t \in Tasks : slot'[t].pc # "launch"
  BY DEF Forget, NoSlot
<1>2. BootLater'
  BY BootStays
<1> QED
  BY <1>1, <1>2 DEF OInv, Once, RunsOnce, Past, State

LEMMA ShutdownOnce ==
  ASSUME OInv, \/ StoreFree /\ (BeginShutdown \/ Shutdown)
               \/ Crash \/ RemoveStale
  PROVE  Once'
<1> USE DEF disk, memory
<1>1. slot \in [Tasks -> Slot] /\ group \in [Tasks -> Group] /\ Typed
  BY DEF OInv, Typed, TypeOK
<1>2. CASE BeginShutdown \/ ListActive \/ RemoveStale
  BY <1>2, FrameOnce, BootStays, PendingStays DEF BeginShutdown, ListActive, RemoveStale
<1>3. CASE Reap
  <2>1. UNCHANGED <<rec, boot, pending>>
    BY <1>3 DEF Reap
  <2>2. \A t \in Tasks : slot'[t].pc = slot[t].pc
    BY <1>1, <1>3 DEF Reap
  <2>3. \A t \in Tasks : group'[t].launches = group[t].launches
    BY <1>1, <1>3, ReapedGroup
  <2> QED
    BY <2>1, <2>2, <2>3, FrameOnce, BootStays, PendingStays
<1>4. CASE EndRound
  <2>1. CASE UNCHANGED <<pending, memory>>
    BY <1>4, <2>1, FrameOnce, BootStays, PendingStays DEF EndRound
  <2>2. CASE Forget
    BY <1>4, <2>2, ForgetOnce DEF EndRound
  <2> QED
    BY <1>4, <2>1, <2>2 DEF EndRound
<1>5. CASE StoreFree /\ \E t \in Tasks : FinalizeLeft(t)
  <2>1. PICK t \in Tasks : FinalizeLeft(t)
    BY <1>5
  <2>2. pending' \in Seq(Later)
    BY <1>1, <2>1, LaterWrites DEF FinalizeLeft, FINAL, Reason
  <2>3. pending = <<>> /\ UNCHANGED <<rec, boot, slot, group>>
    BY <1>5, <2>1 DEF FinalizeLeft, StoreFree
  <2> QED
    BY <2>2, <2>3, FrameOnce, BootStays
<1>6. CASE Crash
  BY <1>6, ForgetOnce DEF Crash
<1> QED
  BY <1>2, <1>3, <1>4, <1>5, <1>6 DEF Shutdown

LEMMA BootOnce ==
  ASSUME OInv, BootStart \/ BootOwn \/ BootCrash \/ (\E t \in Tasks : BootRead(t))
  PROVE  Once'
<1> USE DEF disk, memory
<1>1. UNCHANGED <<rec, pending, slot, group>>
  BY DEF BootStart, BootOwn, BootCrash, BootRead
<1>2. boot \in Boot /\ Typed
  BY DEF OInv, Typed, TypeOK
<1>3. BootLater'
  <2>1. CASE BootStart \/ BootOwn \/ BootCrash
    <3>1. boot'.writes = <<>>
      <4>1. CASE BootStart
        BY <4>1 DEF BootStart
      <4>2. CASE BootOver
        BY <1>2, <4>2 DEF BootOver, Boot
      <4> QED
        BY <2>1, <4>1, <4>2 DEF BootOwn, BootCrash
    <3> QED
      BY <3>1 DEF BootLater
  <2>2. CASE \E t \in Tasks : BootRead(t)
    <3>1. PICK t \in Tasks : BootRead(t)
      BY <2>2
    <3> DEFINE q == Finalize(t, "FAILED", "runner_restart", FALSE)
               b == Bringing(t, Ended("FAILED", "runner_restart", FALSE))
    <3>2. boot'.writes = q
      BY <1>2, <3>1 DEF BootRead, Boot
    <3>3. q \in Seq(b) /\ (q # <<>> => State(t) \in ACTIVE) /\ q \in Seq(Later)
      BY <1>2, FinalizeWrites, LaterWrites DEF Typed, TypeOK, FINAL, Reason
    <3>4. \A w \in b : w.task = t
      BY DEF Bringing
    <3> HIDE DEF q, b
    <3>5. \A i \in 1..Len(q) : q[i].task = t /\ q # <<>>
      BY <3>3, <3>4
    <3>6. \A i \in 1..Len(q) : rec'[q[i].task].state # "none"
      BY <1>1, <3>3, <3>5 DEF State, ACTIVE
    <3> QED
      BY <3>2, <3>3, <3>6 DEF BootLater, State
  <2> QED
    BY <2>1, <2>2
<1> QED
  BY <1>1, <1>3, FrameOnce, PendingStays

LEMMA OtherOnce ==
  ASSUME OInv, (\E t \in Tasks : LeaderExits(t)) \/ (\E s \in Subs : SseOpen(s) \/ Sse(s))
  PROVE  Once'
<1> USE DEF disk, memory
<1>1. UNCHANGED <<rec, pending, slot, boot>>
  BY DEF LeaderExits, SseOpen, Sse, SseDrain, SseCheck
<1>2. \A t \in Tasks : group'[t].launches = group[t].launches
  <2>1. group \in [Tasks -> Group]
    BY DEF OInv, Typed, TypeOK
  <2>2. ASSUME NEW t \in Tasks, LeaderExits(t)
        PROVE  \A u \in Tasks : group'[u].launches = group[u].launches
    <3>1. PICK st \in {"gone", "orphan"} : group' = [group EXCEPT ![t].st = st]
      BY <2>2 DEF LeaderExits
    <3> QED
      BY <2>1, <3>1
  <2> QED
    BY <2>2 DEF SseOpen, Sse, SseDrain, SseCheck
<1> QED
  BY <1>1, <1>2, FrameOnce, BootStays, PendingStays

LEMMA StepOnce == ASSUME OInv, [Next]_vars PROVE OInv'
<1>1. SUFFICES Once'
  BY StepTyped DEF OInv
<1>2. CASE UNCHANGED vars
  BY <1>2, FrameOnce, BootStays, PendingStays DEF vars
<1>3. CASE Next
  <2>1. ASSUME NEW t \in Tasks, StoreFree, SendCheck(t) \/ CancelTask(t) \/ Thread(t) PROVE Once'
    <3>1. "cancel_task" \in Callers
      BY DEF Callers
    <3> QED
      BY <2>1, <3>1, SenderOnce, ExecuteOnce, CancelOnce DEF Thread
  <2>2. CASE StoreWrite
    BY <2>2, StoreWriteOnce
  <2>3. CASE StoreFree /\ (BeginShutdown \/ Shutdown)
    BY <2>3, ShutdownOnce
  <2>4. CASE Crash \/ RemoveStale
    BY <2>4, ShutdownOnce
  <2>5. CASE BootWrite
    BY <2>5, BootWriteOnce
  <2>6. CASE BootStart \/ BootOwn \/ BootCrash \/ (\E t \in Tasks : BootRead(t))
    BY <2>6, BootOnce
  <2>7. CASE (\E t \in Tasks : LeaderExits(t)) \/ (\E s \in Subs : SseOpen(s) \/ Sse(s))
    BY <2>7, OtherOnce
  <2> QED
    BY <1>3, <2>1, <2>2, <2>3, <2>4, <2>5, <2>6, <2>7 DEF Next
<1> QED
  BY <1>2, <1>3

\* A task's process is started at most once, whatever is resent, cancelled,
\* crashed or restarted, however many runners there are, two at a time included.
THEOREM ProcessesStartOnce == Spec => []RunsOnce
<1>1. Spec => []OInv
  BY InitOnce, StepOnce, PTL DEF Spec
<1>2. OInv => RunsOnce
  BY DEF OInv, Once
<1> QED
  BY <1>1, <1>2, PTL

-----------------------------------------------------------------------------
\* Who writes: the runner's threads while it is alive, and a process that is
\* starting while no runner is, as long as no second one is started.

Quiet ==
  ~Alive => /\ pending = <<>>
            /\ \A t \in Tasks : /\ sender[t] = "idle" /\ slot[t].pc = "none"
                                /\ \A c \in Callers : cancel[c][t] = "idle"
Single ==
  /\ boot.pid # 0 => ~Alive
  /\ boot.pid = 0 => boot.writes = <<>>

LEMMA ThreadsAreAlive ==
  ASSUME Quiet, NEW t \in Tasks, SendCheck(t) \/ CancelTask(t) \/ Thread(t)
  PROVE  Alive
<1>1. CASE SendCheck(t)
  BY <1>1 DEF SendCheck, ShuttingDown, Alive
<1>2. CASE CancelTask(t)
  BY <1>2 DEF CancelTask
<1>3. CASE SendCreate(t) \/ SendStart(t)
  BY <1>3 DEF Quiet, SendCreate, SendStart
<1>4. CASE Execute(t)
  <2>1. "none" \notin DOMAIN Closing
    BY DEF Closing
  <2>2. slot[t].pc # "none"
    BY <1>4, <2>1 DEF Execute, ValidateEnvelope, BeginWork, Launch, Register, Collect,
       CloseByReceipt, CloseEarly, FinishCanceled, EndRun
  <2> QED
    BY <2>2 DEF Quiet
<1>5. CASE \E c \in Callers : CancelStep(c, t)
  BY <1>5 DEF Quiet, CancelStep, CancelGet, CancelMark, CancelNoSlot, CancelReady, CancelKill,
     CancelWait
<1> QED
  BY <1>1, <1>2, <1>3, <1>4, <1>5 DEF Thread

LEMMA ThreadsKeepOthers ==
  ASSUME NEW t \in Tasks, SendCheck(t) \/ CancelTask(t) \/ Thread(t)
  PROVE  UNCHANGED <<disk, run, boot>>
<1>1. CASE SendCheck(t) \/ CancelTask(t) \/ SendCreate(t) \/ SendStart(t)
  BY <1>1 DEF SendCheck, CancelTask, SendCreate, SendStart
<1>2. CASE Execute(t)
  BY <1>2 DEF Execute, ValidateEnvelope, BeginWork, Launch, Register, Collect, CloseByReceipt,
     CloseEarly, FinishCanceled, EndRun
<1>3. CASE \E c \in Callers : CancelStep(c, t)
  BY <1>3 DEF CancelStep, CancelGet, CancelMark, CancelNoSlot, CancelReady, CancelKill, CancelWait
<1> QED
  BY <1>1, <1>2, <1>3 DEF Thread

LEMMA StepSingle ==
  ASSUME ~Doubles, Typed, Quiet, Single, [Next]_vars
  PROVE  Quiet' /\ Single'
<1> USE DEF memory
<1>0. run \in Run /\ boot \in Boot
  BY DEF Typed, TypeOK
<1>1. CASE UNCHANGED vars
  BY <1>1 DEF vars, Quiet, Single, Alive
<1>2. ASSUME NEW t \in Tasks, SendCheck(t) \/ CancelTask(t) \/ Thread(t)
      PROVE  Quiet' /\ Single'
  <2>1. Alive /\ UNCHANGED <<run, boot>>
    BY <1>2, ThreadsAreAlive, ThreadsKeepOthers
  <2> QED
    BY <2>1 DEF Quiet, Single, Alive
<1>3. CASE StoreWrite
  <2>1. Alive
    BY <1>3 DEF StoreWrite, Quiet
  <2> QED
    BY <1>3, <2>1 DEF StoreWrite, Quiet, Single, Alive
<1>4. CASE BeginShutdown \/ Shutdown
  <2>1. UNCHANGED boot
    BY <1>4 DEF BeginShutdown, Shutdown, ListActive, Reap, EndRound, FinalizeLeft
  <2>2. Alive
    BY <1>4 DEF BeginShutdown, Shutdown, ListActive, Reap, EndRound, FinalizeLeft, Alive
  <2>3. Alive' \/ Forget
    BY <1>0, <1>4 DEF BeginShutdown, Shutdown, ListActive, Reap, EndRound, FinalizeLeft, Alive, Run
  <2>4. Forget => Quiet'
    BY DEF Forget, Quiet, NoSlot
  <2> QED
    BY <2>1, <2>2, <2>3, <2>4 DEF Quiet, Single
<1>5. CASE Crash
  <2>1. Quiet'
    BY <1>5 DEF Crash, Forget, Quiet, NoSlot
  <2>2. UNCHANGED boot /\ Alive
    BY <1>5 DEF Crash
  <2> QED
    BY <2>1, <2>2 DEF Single
<1>6. CASE RemoveStale \/ BootStart \/ BootWrite \/ BootCrash
           \/ (\E t \in Tasks : LeaderExits(t) \/ BootRead(t)) \/ (\E s \in Subs : SseOpen(s) \/ Sse(s))
  <2>1. UNCHANGED <<run, pending, memory>>
    BY <1>6 DEF RemoveStale, BootStart, BootWrite, BootCrash, LeaderExits, BootRead, SseOpen, Sse,
       SseDrain, SseCheck
  <2>2. Quiet'
    BY <2>1 DEF Quiet, Alive
  <2>3. Single'
    <3>1. CASE BootStart
      BY <2>1, <3>1 DEF BootStart, Single, Alive
    <3>2. CASE BootWrite \/ (\E t \in Tasks : BootRead(t))
      BY <1>0, <2>1, <3>2 DEF BootWrite, BootRead, Single, Alive, Boot
    <3>3. CASE BootCrash
      BY <1>0, <2>1, <3>3 DEF BootCrash, BootOver, Single, Alive, Boot
    <3>4. CASE RemoveStale \/ (\E t \in Tasks : LeaderExits(t)) \/ (\E s \in Subs : SseOpen(s) \/ Sse(s))
      <4>1. UNCHANGED boot
        BY <3>4 DEF RemoveStale, LeaderExits, SseOpen, Sse, SseDrain, SseCheck
      <4> QED
        BY <2>1, <4>1 DEF Single, Alive
    <3> QED
      BY <1>6, <3>1, <3>2, <3>3, <3>4
  <2> QED
    BY <2>2, <2>3
<1>7. CASE BootOwn
  <2>1. boot'.pid = 0 /\ boot'.writes = <<>>
    BY <1>0, <1>7 DEF BootOwn, BootOver, Boot
  <2>2. Quiet'
    BY <1>7 DEF BootOwn, Quiet, Alive
  <2> QED
    BY <2>1, <2>2 DEF Single
<1> QED
  BY <1>1, <1>2, <1>3, <1>4, <1>5, <1>6, <1>7 DEF Next

-----------------------------------------------------------------------------
\* The threads: a result comes from a process, and a cancellation has a reason.

Sound(s, g) ==
  /\ s.pc \in {"launched", "running", "receipt"} => g.launches = 1
  /\ s.reason \in Callers \cup {"none"}
  /\ s.canceled => s.reason \in Callers
  /\ s.pc = "cancel" => s.canceled

SlotsSound == \A t \in Tasks : Sound(slot[t], group[t])

LEMMA SoundFrame ==
  ASSUME SlotsSound, NEW t \in Tasks, Sound(slot'[t], group'[t]),
         \A u \in Tasks : u # t => slot'[u] = slot[u] /\ group'[u].launches = group[u].launches
  PROVE  SlotsSound'
  BY DEF SlotsSound, Sound

LEMMA SoundStays ==
  ASSUME SlotsSound, UNCHANGED slot,
         \A u \in Tasks : group'[u].launches = group[u].launches
  PROVE  SlotsSound'
  BY DEF SlotsSound, Sound

LEMMA GoSound ==
  ASSUME SlotsSound, slot \in [Tasks -> Slot], NEW t \in Tasks, NEW pc, Go(t, pc), pc # "cancel",
         \A u \in Tasks : u # t => group'[u].launches = group[u].launches,
         pc \in {"launched", "running", "receipt"} => group'[t].launches = 1
  PROVE  SlotsSound'
<1>1. slot' = [slot EXCEPT ![t] = [slot[t] EXCEPT !.pc = pc]]
  BY DEF Go
<1>2. Sound([slot[t] EXCEPT !.pc = pc], group'[t])
  BY DEF SlotsSound, Sound, Slot
<1> QED
  BY <1>1, <1>2, SoundFrame

LEMMA GoCanceledSound ==
  ASSUME SlotsSound, slot \in [Tasks -> Slot], NEW t \in Tasks, GoCanceled(t), slot[t].canceled,
         UNCHANGED group
  PROVE  SlotsSound'
<1>1. Sound([slot[t] EXCEPT !.pc = "cancel", !.ready = TRUE, !.cleanup = TRUE], group[t])
  BY DEF SlotsSound, Sound, Slot
<1>2. slot' = [slot EXCEPT ![t] = [slot[t] EXCEPT !.pc = "cancel", !.ready = TRUE, !.cleanup = TRUE]]
  BY DEF GoCanceled
<1> QED
  BY <1>1, <1>2, SoundFrame

LEMMA ExecuteSound ==
  ASSUME OInv, SlotsSound, NEW t \in Tasks, StoreFree, Execute(t)
  PROVE  SlotsSound'
<1>0. slot \in [Tasks -> Slot] /\ slot[t] \in Slot /\ group \in [Tasks -> Group]
  BY DEF OInv, Typed, TypeOK
<1>1. CASE ValidateEnvelope(t)
  BY <1>0, <1>1, GoSound, GoCanceledSound DEF ValidateEnvelope
<1>2. CASE BeginWork(t)
  <2>1. CASE Go(t, "launch")
    BY <1>0, <1>2, <2>1, GoSound DEF BeginWork
  <2>2. CASE slot' = [slot EXCEPT ![t] = [@ EXCEPT !.pc = "end", !.ready = TRUE, !.cleanup = TRUE]]
    <3>1. Sound([slot[t] EXCEPT !.pc = "end", !.ready = TRUE, !.cleanup = TRUE], group[t])
      BY <1>0 DEF SlotsSound, Sound, Slot
    <3> QED
      BY <1>0, <1>2, <2>2, <3>1, SoundFrame DEF BeginWork
  <2> QED
    BY <1>2, <2>1, <2>2, Zenon DEF BeginWork
<1>3. CASE Launch(t)
  <2>1. CASE /\ UNCHANGED group
             /\ IF slot[t].canceled THEN GoCanceled(t) ELSE Go(t, "fail")
    BY <1>0, <2>1, GoSound, GoCanceledSound
  <2>2. CASE group' = Spawned(t) /\ Go(t, "launched")
    <3>1. group[t].launches = 0 /\ run.pid \in 0..MaxBoots
      BY <1>3 DEF OInv, Once, Launchable, Launch, Typed, TypeOK, Run
    <3>2. group'[t].launches = 1 /\ \A u \in Tasks : u # t => group'[u].launches = group[u].launches
      BY <1>0, <2>2, <3>1, SpawnedGroup
    <3> QED
      BY <1>0, <2>2, <3>2, GoSound
  <2> QED
    BY <1>3, <2>1, <2>2 DEF Launch
<1>4. CASE Register(t)
  <2>1. Sound([slot[t] EXCEPT !.pc = "running", !.proc = TRUE, !.ready = TRUE], group[t])
    BY <1>0, <1>4 DEF SlotsSound, Sound, Slot, Register
  <2> QED
    BY <1>0, <1>4, <2>1, SoundFrame DEF Register
<1>5. CASE Collect(t)
  <2>1. \A u \in Tasks : group'[u].launches = group[u].launches
    <3>1. group' = group \/ group' = Killed(t)
      BY <1>5 DEF Collect
    <3> QED
      BY <1>0, <3>1, KillStartsNothing
  <2>2. group[t].launches = 1
    BY <1>5 DEF SlotsSound, Sound, Collect
  <2>3. CASE Go(t, "receipt") \/ Go(t, "nometa")
    BY <1>0, <2>1, <2>2, <2>3, GoSound
  <2>4. CASE /\ slot[t].canceled
             /\ slot' = [slot EXCEPT ![t] = [slot[t] EXCEPT !.pc = "cancel", !.cleanup = TRUE]]
    <3>1. Sound([slot[t] EXCEPT !.pc = "cancel", !.cleanup = TRUE], group'[t])
      BY <1>0, <2>1, <2>4 DEF SlotsSound, Sound, Slot
    <3> QED
      BY <1>0, <2>1, <2>4, <3>1, SoundFrame
  <2> QED
    BY <1>5, <2>3, <2>4 DEF Collect
<1>6. CASE CloseByReceipt(t)
  BY <1>0, <1>6, GoSound, GoCanceledSound DEF CloseByReceipt
<1>7. CASE CloseEarly(t)
  BY <1>0, <1>7, GoSound DEF CloseEarly
<1>8. CASE FinishCanceled(t)
  BY <1>0, <1>8, GoSound DEF FinishCanceled
<1>9. CASE EndRun(t)
  <2>1. Sound([slot[t] EXCEPT !.pc = "none", !.ready = TRUE, !.done = TRUE], group[t])
    BY <1>0, <1>9 DEF SlotsSound, Sound, Slot
  <2> QED
    BY <1>0, <1>9, <2>1, SoundFrame DEF EndRun
<1> QED
  BY <1>1, <1>2, <1>3, <1>4, <1>5, <1>6, <1>7, <1>8, <1>9 DEF Execute

LEMMA CancelSound ==
  ASSUME OInv, SlotsSound, NEW t \in Tasks, NEW c \in Callers, CancelTask(t) \/ CancelStep(c, t)
  PROVE  SlotsSound'
<1>0. slot \in [Tasks -> Slot] /\ slot[t] \in Slot /\ group \in [Tasks -> Group]
  BY DEF OInv, Typed, TypeOK
<1>a. \A u \in Tasks : group'[u].launches = group[u].launches
  BY <1>0, CancelStartsNothing
<1>1. CASE CancelTask(t) \/ CancelGet(c, t) \/ CancelNoSlot(c, t) \/ CancelReady(c, t) \/ CancelWait(c, t)
  <2>1. UNCHANGED slot
    BY <1>1 DEF CancelTask, CancelGet, CancelNoSlot, CancelReady, CancelWait
  <2> QED
    BY <1>a, <2>1, SoundStays
<1>2. CASE CancelMark(c, t)
  <2>1. CASE UNCHANGED slot
    BY <1>2, <2>1, SoundStays DEF CancelMark
  <2>2. CASE slot' # slot
    <3>1. PICK r : slot' = [slot EXCEPT ![t].canceled = TRUE, ![t].reason = r] /\ r \in Callers
      BY <1>2, <2>2 DEF CancelMark, SlotsSound, Sound
    <3>2. slot' = [slot EXCEPT ![t] = [slot[t] EXCEPT !.canceled = TRUE, !.reason = r]]
      BY <1>0, <3>1
    <3>3. Sound([slot[t] EXCEPT !.canceled = TRUE, !.reason = r], group[t])
      BY <1>0, <3>1 DEF SlotsSound, Sound, Slot
    <3> QED
      BY <1>0, <1>2, <3>2, <3>3, SoundFrame DEF CancelMark
  <2> QED
    BY <2>1, <2>2
<1>3. CASE CancelKill(c, t)
  <2>2. slot' = [slot EXCEPT ![t] = [slot[t] EXCEPT !.cleanup = TRUE]]
    BY <1>0, <1>3 DEF CancelKill
  <2>3. Sound([slot[t] EXCEPT !.cleanup = TRUE], group'[t])
    BY <1>0, <1>a DEF SlotsSound, Sound, Slot
  <2> QED
    BY <1>0, <1>a, <2>2, <2>3, SoundFrame
<1> QED
  BY <1>1, <1>2, <1>3 DEF CancelStep

\* What a new slot and a forgotten one have in common.
LEMMA NewSound ==
  ASSUME NEW g, NEW pc \in {"none", "validate"} PROVE Sound([NoSlot EXCEPT !.pc = pc], g)
  BY DEF NoSlot, Sound

LEMMA ShutdownSound ==
  ASSUME OInv, SlotsSound, BeginShutdown \/ Shutdown \/ Crash \/ RemoveStale
  PROVE  SlotsSound'
<1> USE DEF memory
<1>0. slot \in [Tasks -> Slot] /\ group \in [Tasks -> Group]
  BY DEF OInv, Typed, TypeOK
<1>1. ASSUME Forget PROVE SlotsSound'
  <2>1. \A t \in Tasks : slot'[t] = NoSlot
    BY <1>1 DEF Forget
  <2>2. \A g : Sound(NoSlot, g)
    BY DEF NoSlot, Sound
  <2> QED
    BY <2>1, <2>2 DEF SlotsSound
<1>2. CASE Reap
  <2>1. \A u \in Tasks : group'[u].launches = group[u].launches
    BY <1>0, <1>2, ReapedGroup
  <2>2. \A u \in Tasks : /\ slot'[u].pc = slot[u].pc /\ slot'[u].reason = slot[u].reason
                         /\ slot'[u].canceled = slot[u].canceled
    BY <1>0, <1>2 DEF Reap
  <2> QED
    BY <2>1, <2>2 DEF SlotsSound, Sound
<1>3. CASE EndRound
  <2>1. CASE UNCHANGED memory
    BY <1>3, <2>1, SoundStays DEF EndRound
  <2> QED
    BY <1>1, <1>3, <2>1 DEF EndRound
<1>4. CASE BeginShutdown \/ ListActive \/ RemoveStale \/ \E t \in Tasks : FinalizeLeft(t)
  <2>1. UNCHANGED <<slot, group>>
    BY <1>4 DEF BeginShutdown, ListActive, RemoveStale, FinalizeLeft
  <2> QED
    BY <2>1, SoundStays
<1>5. CASE Crash
  BY <1>1, <1>5 DEF Crash
<1> QED
  BY <1>2, <1>3, <1>4, <1>5 DEF Shutdown

LEMMA StepSound ==
  ASSUME OInv, SlotsSound, [Next]_vars
  PROVE  SlotsSound'
<1> USE DEF memory
<1>0. slot \in [Tasks -> Slot] /\ group \in [Tasks -> Group]
  BY DEF OInv, Typed, TypeOK
<1>1. CASE UNCHANGED vars
  BY <1>1, SoundStays DEF vars
<1>2. ASSUME NEW t \in Tasks, StoreFree, SendCheck(t) \/ CancelTask(t) \/ Thread(t) PROVE SlotsSound'
  <2>1. CASE SendCheck(t) \/ SendCreate(t)
    BY <2>1, SoundStays DEF SendCheck, SendCreate
  <2>2. CASE SendStart(t)
    <3>1. CASE UNCHANGED slot
      BY <2>2, <3>1, SoundStays DEF SendStart
    <3>2. CASE slot' = [slot EXCEPT ![t] = [NoSlot EXCEPT !.pc = "validate"]]
      BY <1>0, <2>2, <3>2, NewSound, SoundFrame DEF SendStart
    <3> QED
      BY <2>2, <3>1, <3>2 DEF SendStart
  <2>3. "cancel_task" \in Callers
    BY DEF Callers
  <2> QED
    BY <1>2, <2>1, <2>2, <2>3, ExecuteSound, CancelSound DEF Thread
<1>3. CASE BeginShutdown \/ Shutdown \/ Crash \/ RemoveStale
  BY <1>3, ShutdownSound
<1>4. CASE \/ StoreWrite \/ BootStart \/ BootWrite \/ BootOwn \/ BootCrash
           \/ (\E t \in Tasks : BootRead(t)) \/ (\E s \in Subs : SseOpen(s) \/ Sse(s))
  <2>1. UNCHANGED <<slot, group>>
    BY <1>4 DEF StoreWrite, BootStart, BootWrite, BootOwn, BootCrash, BootRead, SseOpen, Sse,
       SseDrain, SseCheck
  <2> QED
    BY <2>1, SoundStays
<1>5. CASE \E t \in Tasks : LeaderExits(t)
  <2>1. PICK t \in Tasks, st \in {"gone", "orphan"} :
          group' = [group EXCEPT ![t].st = st] /\ UNCHANGED slot
    BY <1>5 DEF LeaderExits
  <2>2. \A u \in Tasks : group'[u].launches = group[u].launches
    BY <1>0, <2>1
  <2> QED
    BY <2>1, <2>2, SoundStays
<1> QED
  BY <1>1, <1>2, <1>3, <1>4, <1>5 DEF Next

-----------------------------------------------------------------------------
\* The refinement of RunnerContract, for runners that come one after the other.

ContractReason == {"cancel_task", "runner_stop", "runner_restart", "process_exit", "deadline",
                   "sandbox_failure", "runner_internal_timeout", "validation"}

\* The contract lets a task become v.
May(t, v) ==
  \/ State(t) = "none" /\ v = Accepted
  \/ State(t) = "SUBMITTED" /\ v = [ViewOf(rec[t]) EXCEPT !.state = "WORKING"]
  \/ /\ State(t) \in ACTIVE
     /\ \E s \in FINAL, reason \in ContractReason, a \in BOOLEAN :
          /\ v = Ended(s, reason, a)
          /\ s = "COMPLETED" \/ a => group[t].launches = 1

\* The writes that are left bring one task to one view, which it has reached or
\* may reach.
Brings(q) ==
  q # <<>> =>
    \E t \in Tasks, v \in View :
      q \in Seq(Bringing(t, v)) /\ (ViewOf(rec[t]) = v \/ May(t, v))

SInv == OInv /\ Quiet /\ Single /\ SlotsSound /\ Brings(pending) /\ Brings(boot.writes)

\* A task that becomes what it may become makes a step of the contract.
LEMMA MayMaps ==
  ASSUME NEW t \in Tasks, NEW v \in View, NEW r \in Record, ViewOf(r) = v, May(t, v),
         rec \in [Tasks -> Record], rec' = [rec EXCEPT ![t] = r], UNCHANGED group
  PROVE  Contract!Next
<1> DEFINE task == [u \in Tasks |-> [state |-> rec[u].state, reason |-> rec[u].reason,
                                     artifact |-> rec[u].artifact]]
           ran == [u \in Tasks |-> group[u].launches]
<1>1. task' = [task EXCEPT ![t] = v] /\ ran' = ran
  BY DEF ViewOf
<1>2. task[t] = ViewOf(rec[t]) /\ task[t].state = State(t) /\ ran[t] = group[t].launches
  BY DEF ViewOf, State
<1>3. CASE State(t) = "none" /\ v = Accepted
  <2>1. Contract!Accept(t)
    BY <1>1, <1>2, <1>3 DEF Contract!Accept, Accepted
  <2> QED
    BY <2>1 DEF Contract!Next
<1>4. CASE State(t) = "SUBMITTED" /\ v = [ViewOf(rec[t]) EXCEPT !.state = "WORKING"]
  <2>1. task' = [task EXCEPT ![t] = [task[t] EXCEPT !.state = "WORKING"]]
    BY <1>1, <1>2, <1>4
  <2>2. Contract!Work(t)
    BY <1>1, <1>2, <1>4, <2>1 DEF Contract!Work
  <2> QED
    BY <2>2 DEF Contract!Next
<1>5. ASSUME State(t) \in ACTIVE, NEW s \in FINAL, NEW reason \in ContractReason, NEW a \in BOOLEAN,
             v = Ended(s, reason, a), s = "COMPLETED" \/ a => group[t].launches = 1
      PROVE  Contract!Next
  <2>1. Contract!Close(t, s, reason, a)
    BY <1>1, <1>2, <1>5 DEF Contract!Close, Contract!ACTIVE, ACTIVE, Ended
  <2>2. s \in Contract!FINAL
    BY DEF Contract!FINAL, FINAL
  <2> QED
    BY <2>1, <2>2 DEF Contract!Next, ContractReason
<1> QED
  BY <1>3, <1>4, <1>5 DEF May

\* What changes neither a view nor a start is invisible to the contract.
LEMMA StutterMaps ==
  ASSUME \A t \in Tasks : /\ ViewOf(rec'[t]) = ViewOf(rec[t])
                         /\ group'[t].launches = group[t].launches
  PROVE  UNCHANGED Contract!contractVars
  BY DEF Contract!contractVars, ViewOf

\* One write is a step of the contract or none, and the rest still fits.
LEMMA WriteMaps ==
  ASSUME Typed, NEW q \in Seq(Write), q # <<>>, Brings(q), Apply(Head(q)), UNCHANGED group
  PROVE  /\ [Contract!Next]_(Contract!contractVars)
         /\ \E t \in Tasks, v \in View :
              Tail(q) \in Seq(Bringing(t, v)) /\ (ViewOf(rec'[t]) = v \/ May(t, v)')
<1>1. PICK t \in Tasks, v \in View :
        q \in Seq(Bringing(t, v)) /\ (ViewOf(rec[t]) = v \/ May(t, v))
  BY DEF Brings
<1> DEFINE w == Head(q)
<1>2. Tail(q) \in Seq(Bringing(t, v)) /\ w \in Bringing(t, v)
  BY <1>1
<1>3. w \in Write /\ w.task = t /\ (w.op = "record" => ViewOf(w.rec) = v) /\ Apply(w)
  BY <1>2 DEF Bringing
<1> HIDE DEF w
<1>4. rec \in [Tasks -> Record]
  BY DEF Typed, TypeOK
<1>5. CASE w.op # "record"
  <2>1. UNCHANGED rec
    BY <1>3, <1>5 DEF Apply
  <2>2. ViewOf(rec'[t]) = v \/ May(t, v)'
    BY <1>1, <2>1 DEF May, State
  <2> QED
    BY <1>2, <2>1, <2>2, StutterMaps
<1>6. CASE w.op = "record"
  <2>1. w.rec \in Record /\ rec' = [rec EXCEPT ![t] = w.rec]
    BY <1>3, <1>6 DEF Apply, Write
  <2>2. ViewOf(rec'[t]) = v
    BY <1>3, <1>4, <1>6, <2>1
  <2>3. CASE May(t, v)
    BY <1>2, <1>3, <1>4, <1>6, <2>1, <2>2, <2>3, MayMaps
  <2>4. CASE ViewOf(rec[t]) = v
    <3>1. \A u \in Tasks : ViewOf(rec'[u]) = ViewOf(rec[u])
      BY <1>4, <2>1, <2>2, <2>4
    <3> QED
      BY <1>2, <2>2, <3>1, StutterMaps
  <2> QED
    BY <1>1, <2>3, <2>4
<1> QED
  BY <1>5, <1>6

\* What the operations of the store list may be written.
LEMMA OperationsBring ==
  ASSUME Typed, NEW t \in Tasks
  PROVE  /\ Brings(Create(t)) /\ Brings(TransitionWorking(t))
         /\ \A s \in FINAL, reason \in ContractReason, a \in BOOLEAN :
              (s = "COMPLETED" \/ a => group[t].launches = 1) => Brings(Finalize(t, s, reason, a))
<1>0. rec \in [Tasks -> Record] /\ rec[t] \in Record
  BY DEF Typed, TypeOK
<1>1. Brings(Create(t))
  <2>1. Accepted \in View
    BY DEF Accepted, View, ACTIVE, Reason
  <2> QED
    BY <2>1, CreateWrites DEF Brings, May
<1>2. Brings(TransitionWorking(t))
  <2> DEFINE v == [ViewOf(rec[t]) EXCEPT !.state = "WORKING"]
  <2>1. v \in View
    BY <1>0 DEF View, ViewOf, Record, ACTIVE
  <2>2. TransitionWorking(t) # <<>> => May(t, v)
    BY <1>0, WorkingWrites DEF May
  <2>3. TransitionWorking(t) \in Seq(Bringing(t, v))
    BY <1>0, WorkingWrites
  <2> HIDE DEF v
  <2> QED
    BY <2>1, <2>2, <2>3 DEF Brings
<1>3. ASSUME NEW s \in FINAL, NEW reason \in ContractReason, NEW a \in BOOLEAN,
             s = "COMPLETED" \/ a => group[t].launches = 1
      PROVE  Brings(Finalize(t, s, reason, a))
  <2>1. reason \in Reason
    BY DEF ContractReason, Reason
  <2>2. Ended(s, reason, a) \in View
    BY <2>1 DEF Ended, View
  <2>3. /\ Finalize(t, s, reason, a) \in Seq(Bringing(t, Ended(s, reason, a)))
        /\ Finalize(t, s, reason, a) # <<>> => State(t) \in ACTIVE
    BY <1>0, <2>1, FinalizeWrites
  <2>4. Finalize(t, s, reason, a) # <<>> => May(t, Ended(s, reason, a))
    BY <1>3, <2>3 DEF May
  <2> QED
    BY <2>2, <2>3, <2>4 DEF Brings
<1> QED
  BY <1>1, <1>2, <1>3

\* What is left to write still fits when another step leaves the records alone.
LEMMA StillBrings ==
  ASSUME UNCHANGED rec, \A t \in Tasks : group[t].launches = 1 => group'[t].launches = 1,
         NEW q, Brings(q)
  PROVE  q # <<>> =>
           \E t \in Tasks, v \in View :
             q \in Seq(Bringing(t, v)) /\ (ViewOf(rec'[t]) = v \/ May(t, v)')
  BY DEF Brings, May, State

\* A step that leaves the records alone and starts no process.
LEMMA FrameMaps ==
  ASSUME SInv, UNCHANGED rec,
         \A t \in Tasks : group'[t].launches = group[t].launches,
         Brings(pending'), Brings(boot'.writes)
  PROVE  /\ UNCHANGED Contract!contractVars
         /\ Brings(pending)' /\ Brings(boot.writes)'
<1>1. UNCHANGED Contract!contractVars
  BY StutterMaps
<1>2. \A t \in Tasks : group[t].launches = 1 => group'[t].launches = 1
  OBVIOUS
<1>3. /\ pending' # <<>> => \E t \in Tasks, v \in View :
           pending' \in Seq(Bringing(t, v)) /\ (ViewOf(rec'[t]) = v \/ May(t, v)')
      /\ boot'.writes # <<>> => \E t \in Tasks, v \in View :
           boot'.writes \in Seq(Bringing(t, v)) /\ (ViewOf(rec'[t]) = v \/ May(t, v)')
  BY <1>2, StillBrings
<1> QED
  BY <1>1, <1>3 DEF Brings

Maps == [Contract!Next]_(Contract!contractVars) /\ Brings(pending)' /\ Brings(boot.writes)'

LEMMA ExecuteMaps ==
  ASSUME SInv, NEW t \in Tasks, StoreFree, Execute(t)
  PROVE  Maps
<1>0. /\ Typed /\ rec \in [Tasks -> Record] /\ group \in [Tasks -> Group]
      /\ pending = <<>> /\ slot[t] \in Slot /\ Alive /\ Quiet
  BY ThreadsAreAlive DEF SInv, OInv, Typed, TypeOK, StoreFree, Thread
<1>1. boot.writes = <<>>
  BY <1>0 DEF SInv, Single
<1>2. UNCHANGED <<rec, boot>>
  BY ThreadsKeepOthers DEF Thread, disk
<1>3. Brings(<<>>)
  BY DEF Brings
<1>4. CASE Launch(t)
  <2>1. UNCHANGED pending
    BY <1>4 DEF Launch
  <2>2. Brings(pending)' /\ Brings(boot.writes)'
    BY <1>0, <1>1, <1>2, <2>1 DEF Brings
  <2>3. CASE UNCHANGED group
    BY <1>2, <2>2, <2>3, StutterMaps DEF Maps
  <2>4. CASE group' = Spawned(t)
    <3>1. group[t].launches = 0 /\ Past(t) /\ run.pid \in 0..MaxBoots
      BY <1>0, <1>4 DEF SInv, OInv, Once, Launchable, Launch, Typed, TypeOK, Run
    <3>2. \A u \in Tasks : group'[u].launches = IF u = t THEN 1 ELSE group[u].launches
      BY <1>0, <2>4, <3>1, SpawnedGroup
    <3>3. Contract!StartProcess(t)
      BY <1>2, <3>1, <3>2 DEF Contract!StartProcess, Past, State
    <3> QED
      BY <2>2, <3>3 DEF Maps, Contract!Next
  <2> QED
    BY <1>4, <2>3, <2>4 DEF Launch
<1>5. CASE ~Launch(t)
  <2>1. \A u \in Tasks : group'[u].launches = group[u].launches
    <3>1. group' = group \/ group' = Killed(t)
      BY <1>5 DEF Execute, ValidateEnvelope, BeginWork, Register, Collect, CloseByReceipt,
         CloseEarly, FinishCanceled, EndRun
    <3> QED
      BY <1>0, <3>1, KillStartsNothing
  <2>2. Brings(pending')
    <3>1. CASE BeginWork(t)
      BY <1>0, <3>1, OperationsBring DEF BeginWork
    <3>2. CASE CloseByReceipt(t)
      <4>1. ASSUME NEW o \in Outcomes, NEW reason \in ContractReason
            PROVE  Brings(Finalize(t, o.state, reason, o.artifact))
        <5>1. o.state \in FINAL /\ o.artifact \in BOOLEAN
          BY RunnerAssumption DEF ReceiptState, FINAL
        <5>2. group[t].launches = 1
          BY <3>2 DEF SInv, SlotsSound, Sound, CloseByReceipt
        <5> QED
          BY <1>0, <5>1, <5>2, OperationsBring
      <4>2. {"deadline", "process_exit"} \subseteq ContractReason
        BY DEF ContractReason
      <4>3. CASE UNCHANGED pending
        BY <1>0, <1>3, <4>3
      <4>4. CASE \E o \in Outcomes : pending' = Finalize(t, o.state,
                   IF o.state = "CANCELED" THEN "deadline" ELSE "process_exit", o.artifact)
        BY <4>1, <4>2, <4>4
      <4> QED
        BY <3>2, <4>3, <4>4 DEF CloseByReceipt
    <3>3. CASE CloseEarly(t)
      <4>1. \A pc \in DOMAIN Closing : /\ Closing[pc][1] \in FINAL \ {"COMPLETED"}
                                       /\ Closing[pc][2] \in ContractReason
        BY DEF Closing, FINAL, ContractReason
      <4> QED
        BY <1>0, <3>3, <4>1, OperationsBring DEF CloseEarly
    <3>4. CASE FinishCanceled(t)
      <4>1. slot[t].reason \in ContractReason
        BY <3>4 DEF SInv, SlotsSound, Sound, FinishCanceled, Callers, ContractReason
      <4>2. "CANCELED" \in FINAL
        BY DEF FINAL
      <4> QED
        BY <1>0, <3>4, <4>1, <4>2, OperationsBring DEF FinishCanceled
    <3>5. CASE ValidateEnvelope(t) \/ Register(t) \/ Collect(t) \/ EndRun(t)
      <4>1. UNCHANGED pending
        BY <3>5 DEF ValidateEnvelope, Register, Collect, EndRun
      <4> QED
        BY <1>0, <1>3, <4>1
    <3> QED
      BY <1>5, <3>1, <3>2, <3>3, <3>4, <3>5 DEF Execute
  <2> QED
    BY <1>1, <1>2, <1>3, <2>1, <2>2, FrameMaps DEF Maps
<1> QED
  BY <1>4, <1>5

LEMMA ThreadMaps ==
  ASSUME SInv, NEW t \in Tasks, StoreFree, SendCheck(t) \/ CancelTask(t) \/ Thread(t)
  PROVE  Maps
<1>0. /\ Typed /\ group \in [Tasks -> Group] /\ pending = <<>> /\ Alive /\ Quiet
  BY ThreadsAreAlive DEF SInv, OInv, Typed, TypeOK, StoreFree
<1>1. boot.writes = <<>> /\ UNCHANGED <<rec, boot>>
  BY <1>0, ThreadsKeepOthers DEF SInv, Single, disk
<1>2. Brings(<<>>)
  BY DEF Brings
<1>3. ASSUME \A u \in Tasks : group'[u].launches = group[u].launches, Brings(pending')
      PROVE  Maps
  BY <1>1, <1>2, <1>3, FrameMaps DEF Maps
<1>4. CASE SendCheck(t) \/ CancelTask(t) \/ SendCreate(t) \/ SendStart(t)
  <2>1. UNCHANGED group /\ (UNCHANGED pending \/ pending' = Create(t))
    BY <1>4 DEF SendCheck, CancelTask, SendCreate, SendStart
  <2> QED
    BY <1>0, <1>2, <1>3, <2>1, OperationsBring
<1>5. ASSUME NEW c \in Callers, CancelStep(c, t)
      PROVE  Maps
  <2>1. \A u \in Tasks : group'[u].launches = group[u].launches
    BY <1>0, <1>5, CancelStartsNothing
  <2>2. UNCHANGED pending \/ pending' = Finalize(t, "CANCELED", c, FALSE)
    BY <1>5 DEF CancelStep, CancelGet, CancelMark, CancelNoSlot, CancelReady, CancelKill, CancelWait
  <2>3. "CANCELED" \in FINAL /\ c \in ContractReason
    BY DEF FINAL, Callers, ContractReason
  <2>4. Brings(pending')
    BY <1>0, <1>2, <2>2, <2>3, OperationsBring
  <2> QED
    BY <1>3, <2>1, <2>4
<1> QED
  BY <1>4, <1>5, ExecuteMaps DEF Thread

LEMMA ShutdownMaps ==
  ASSUME SInv, \/ StoreFree /\ (BeginShutdown \/ Shutdown)
               \/ Crash \/ RemoveStale
  PROVE  Maps
<1>0. Typed /\ group \in [Tasks -> Group] /\ Brings(pending) /\ Brings(boot.writes)
  BY DEF SInv, OInv, Typed, TypeOK
<1>1. UNCHANGED <<rec, boot>>
  BY DEF BeginShutdown, Shutdown, ListActive, Reap, EndRound, FinalizeLeft, Crash, RemoveStale, disk
<1>2. \A u \in Tasks : group'[u].launches = group[u].launches
  <2>1. CASE Reap
    <3>1. slot \in [Tasks -> Slot]
      BY <1>0 DEF Typed, TypeOK
    <3> QED
      BY <1>0, <2>1, <3>1, ReapedGroup
  <2>2. CASE ~Reap
    BY <2>2 DEF BeginShutdown, Shutdown, ListActive, EndRound, FinalizeLeft, Crash, RemoveStale
  <2> QED
    BY <2>1, <2>2
<1>3. Brings(pending')
  <2>1. CASE UNCHANGED pending
    BY <1>0, <2>1
  <2>2. CASE Forget
    BY <2>2 DEF Forget, Brings
  <2>3. CASE \E t \in Tasks : FinalizeLeft(t)
    <3>1. PICK t \in Tasks : pending' = Finalize(t, "CANCELED", "runner_stop", FALSE)
      BY <2>3 DEF FinalizeLeft
    <3>2. "CANCELED" \in FINAL /\ "runner_stop" \in ContractReason
      BY DEF FINAL, ContractReason
    <3> QED
      BY <1>0, <3>1, <3>2, OperationsBring
  <2> QED
    BY <2>1, <2>2, <2>3 DEF BeginShutdown, Shutdown, ListActive, Reap, EndRound, Crash, RemoveStale
<1> QED
  BY <1>0, <1>1, <1>2, <1>3, FrameMaps DEF Maps

LEMMA StoreWriteMaps == ASSUME SInv, StoreWrite PROVE Maps
<1>1. /\ Typed /\ pending \in Seq(Write) /\ pending # <<>> /\ Brings(pending)
      /\ pending' = Tail(pending) /\ Apply(Head(pending)) /\ UNCHANGED <<group, boot>>
  BY DEF SInv, OInv, Typed, TypeOK, StoreWrite
<1>2. boot.writes = <<>>
  BY <1>1 DEF SInv, Single, Quiet
<1>3. /\ [Contract!Next]_(Contract!contractVars)
      /\ \E t \in Tasks, v \in View :
           Tail(pending) \in Seq(Bringing(t, v)) /\ (ViewOf(rec'[t]) = v \/ May(t, v)')
  BY <1>1, WriteMaps
<1>4. Brings(pending)'
  BY <1>1, <1>3 DEF Brings
<1>5. Brings(boot.writes)'
  BY <1>1, <1>2 DEF Brings
<1> QED
  BY <1>3, <1>4, <1>5 DEF Maps

LEMMA BootWriteMaps == ASSUME SInv, BootWrite PROVE Maps
<1>1. /\ Typed /\ boot.writes \in Seq(Write) /\ boot.writes # <<>> /\ Brings(boot.writes)
      /\ boot'.writes = Tail(boot.writes) /\ Apply(Head(boot.writes)) /\ UNCHANGED <<group, pending>>
  BY DEF SInv, OInv, Typed, TypeOK, BootWrite, Boot
<1>2. pending = <<>>
  BY <1>1 DEF SInv, Single, Quiet
<1>3. /\ [Contract!Next]_(Contract!contractVars)
      /\ \E t \in Tasks, v \in View :
           Tail(boot.writes) \in Seq(Bringing(t, v)) /\ (ViewOf(rec'[t]) = v \/ May(t, v)')
  BY <1>1, WriteMaps
<1>4. Brings(boot.writes)'
  BY <1>1, <1>3 DEF Brings
<1>5. Brings(pending)'
  BY <1>1, <1>2 DEF Brings
<1> QED
  BY <1>3, <1>4, <1>5 DEF Maps

LEMMA BootMaps ==
  ASSUME SInv, BootStart \/ BootOwn \/ BootCrash \/ (\E t \in Tasks : BootRead(t))
  PROVE  Maps
<1>0. Typed /\ boot \in Boot /\ Brings(pending)
  BY DEF SInv, OInv, Typed, TypeOK
<1>1. UNCHANGED <<rec, group, pending>>
  BY DEF BootStart, BootOwn, BootCrash, BootRead, disk
<1>2. Brings(boot'.writes)
  <2>1. CASE BootStart \/ BootOver
    <3>1. boot'.writes = <<>>
      <4>1. CASE BootStart
        BY <4>1 DEF BootStart
      <4>2. CASE BootOver
        BY <1>0, <4>2 DEF BootOver, Boot
      <4> QED
        BY <2>1, <4>1, <4>2
    <3> QED
      BY <3>1 DEF Brings
  <2>2. CASE \E t \in Tasks : BootRead(t)
    <3>1. PICK t \in Tasks : boot'.writes = Finalize(t, "FAILED", "runner_restart", FALSE)
      BY <1>0, <2>2 DEF BootRead, Boot
    <3>2. "FAILED" \in FINAL /\ "runner_restart" \in ContractReason
      BY DEF FINAL, ContractReason
    <3> QED
      BY <1>0, <3>1, <3>2, OperationsBring
  <2> QED
    BY <2>1, <2>2 DEF BootOwn, BootCrash
<1> QED
  BY <1>0, <1>1, <1>2, FrameMaps DEF Maps

LEMMA OtherMaps ==
  ASSUME SInv, \/ UNCHANGED vars \/ (\E t \in Tasks : LeaderExits(t))
               \/ (\E s \in Subs : SseOpen(s) \/ Sse(s))
  PROVE  Maps
<1>1. UNCHANGED <<rec, pending, boot>> /\ Brings(pending) /\ Brings(boot.writes)
  BY DEF SInv, vars, LeaderExits, SseOpen, Sse, SseDrain, SseCheck, disk
<1>2. \A u \in Tasks : group'[u].launches = group[u].launches
  <2>1. ASSUME NEW t \in Tasks, LeaderExits(t)
        PROVE  \A u \in Tasks : group'[u].launches = group[u].launches
    <3>1. PICK st \in {"gone", "orphan"} : group' = [group EXCEPT ![t].st = st]
      BY <2>1 DEF LeaderExits
    <3>2. group \in [Tasks -> Group]
      BY DEF SInv, OInv, Typed, TypeOK
    <3> QED
      BY <3>1, <3>2
  <2> QED
    BY <2>1 DEF vars, SseOpen, Sse, SseDrain, SseCheck
<1> QED
  BY <1>1, <1>2, FrameMaps DEF Maps

LEMMA StepMaps == ASSUME ~Doubles, SInv, [Next]_vars PROVE SInv' /\ Maps
<1>1. Maps
  <2>1. ASSUME NEW t \in Tasks, StoreFree, SendCheck(t) \/ CancelTask(t) \/ Thread(t) PROVE Maps
    BY <2>1, ThreadMaps
  <2>2. CASE StoreWrite \/ BootWrite
    BY <2>2, StoreWriteMaps, BootWriteMaps
  <2>3. CASE StoreFree /\ (BeginShutdown \/ Shutdown)
    BY <2>3, ShutdownMaps
  <2>4. CASE Crash \/ RemoveStale
    BY <2>4, ShutdownMaps
  <2>5. CASE BootStart \/ BootOwn \/ BootCrash \/ (\E t \in Tasks : BootRead(t))
    BY <2>5, BootMaps
  <2>6. CASE \/ UNCHANGED vars \/ (\E t \in Tasks : LeaderExits(t))
             \/ (\E s \in Subs : SseOpen(s) \/ Sse(s))
    BY <2>6, OtherMaps
  <2> QED
    BY <2>1, <2>2, <2>3, <2>4, <2>5, <2>6 DEF Next
<1>2. OInv' /\ Quiet' /\ Single' /\ SlotsSound'
  BY StepOnce, StepSingle, StepSound DEF SInv, OInv
<1> QED
  BY <1>1, <1>2 DEF Maps, SInv

LEMMA InitMaps == ASSUME Init PROVE SInv /\ Contract!Init
<1>1. OInv
  BY InitOnce
<1>2. Quiet /\ Single /\ Brings(pending) /\ Brings(boot.writes)
  BY DEF Init, Quiet, Single, Brings, NoSlot
<1>3. SlotsSound
  BY DEF Init, SlotsSound, Sound, NoSlot
<1>4. Contract!Init
  BY DEF Init, NoRecord, Contract!Init, Contract!NoTask
<1> QED
  BY <1>1, <1>2, <1>3, <1>4 DEF SInv

\* A task is taken up once, its process started at most once, and it is closed
\* once, for good, for any number of tasks and of runners, one after the other.
THEOREM RunnerKeepsItsContract ==
  ASSUME ~Doubles PROVE Spec => ImplementsContract
<1>1. Init => SInv /\ Contract!Init
  BY InitMaps
<1>2. SInv /\ [Next]_vars => SInv' /\ [Contract!Next]_(Contract!contractVars)
  BY StepMaps DEF Maps
<1> QED
  BY <1>1, <1>2, PTL DEF Spec, ImplementsContract, Contract!Spec

-----------------------------------------------------------------------------
\* The streams: what a complete record says is the last event, and a task that
\* is complete is written no more.

LastIs(t, k) == events[t] # <<>> /\ events[t][Len(events[t])] = k
Whole == \A t \in Tasks : rec[t].complete => LastIs(t, State(t))

\* The write that completes a record is the last of its operation and comes
\* right after the event that ends the stream.
Completes(w) == w.op = "record" /\ w.rec.complete
Closes(q) ==
  \A i \in 1..Len(q) : Completes(q[i]) =>
    /\ i = Len(q)
    /\ IF i = 1 THEN LastIs(q[1].task, q[1].rec.state)
       ELSE q[i - 1] = EventWrite(q[i].task, q[i].rec.state)
Ready(q) == Closes(q) /\ \A i \in 1..Len(q) : ~rec[q[i].task].complete

ToldAll ==
  \A s \in Subs : sub[s].pc = "done" =>
    rec[sub[s].task].complete /\ sub[s].got = Len(events[sub[s].task])

Streams == Whole /\ Ready(pending) /\ Ready(boot.writes) /\ ToldAll

LEMMA NothingReady == ASSUME NEW q, q = <<>> PROVE Ready(q)
  BY DEF Ready, Closes

LEMMA CreateReady == ASSUME OInv, Whole, NEW t \in Tasks, ~rec[t].complete PROVE Ready(Create(t))
<1> DEFINE r == RecordWrite(t, [NoRecord EXCEPT !.state = "SUBMITTED"])
           e == EventWrite(t, "SUBMITTED")
<1>1. r.task = t /\ e.task = t /\ ~Completes(r) /\ ~Completes(e)
  BY DEF RecordWrite, EventWrite, NoRecord, Completes
<1>2. Create(t) = <<>> \/ Create(t) = <<r, e>>
  BY DEF Create
<1> HIDE DEF r, e
<1>3. Ready(<<r, e>>)
  BY <1>1 DEF Ready, Closes
<1> QED
  BY <1>2, <1>3, NothingReady

LEMMA WorkingReady == ASSUME OInv, NEW t \in Tasks PROVE Ready(TransitionWorking(t))
<1> DEFINE r == RecordWrite(t, [rec[t] EXCEPT !.state = "WORKING"])
           e == EventWrite(t, "WORKING")
<1>1. CASE ~rec[t].complete
  <2>1. rec[t] \in Record
    BY DEF OInv, Typed, TypeOK
  <2>2. r.task = t /\ e.task = t /\ ~Completes(r) /\ ~Completes(e)
    BY <1>1, <2>1 DEF RecordWrite, EventWrite, Completes, Record
  <2>3. TransitionWorking(t) = <<>> \/ TransitionWorking(t) = <<r, e>>
    BY DEF TransitionWorking
  <2> HIDE DEF r, e
  <2>4. Ready(<<r, e>>)
    BY <1>1, <2>2 DEF Ready, Closes
  <2> QED
    BY <2>3, <2>4, NothingReady
<1>2. CASE rec[t].complete
  <2>1. TransitionWorking(t) = <<>>
    BY <1>2 DEF TransitionWorking
  <2> QED
    BY <2>1, NothingReady
<1> QED
  BY <1>1, <1>2

LEMMA FinalizeReady ==
  ASSUME OInv, NEW t \in Tasks, NEW s \in FINAL, NEW reason \in Reason, NEW a \in BOOLEAN
  PROVE  Ready(Finalize(t, s, reason, a))
<1> DEFINE open == [state |-> s, complete |-> FALSE, reason |-> reason, artifact |-> a]
           r == RecordWrite(t, open)
           b == RecordWrite(t, [open EXCEPT !.complete = TRUE])
           e == EventWrite(t, s)
           x == EventWrite(t, "artifact")
<1>1. CASE rec[t].complete
  <2>1. Finalize(t, s, reason, a) = <<>>
    BY <1>1 DEF Finalize
  <2> QED
    BY <2>1, NothingReady
<1>2. CASE ~rec[t].complete
  <2>1. /\ r.task = t /\ b.task = t /\ e.task = t /\ x.task = t
        /\ ~Completes(r) /\ ~Completes(e) /\ ~Completes(x)
        /\ e = EventWrite(b.task, b.rec.state)
    BY DEF RecordWrite, EventWrite, Completes
  <2>2. TerminalWrites(t, s, reason, a) =
          <<r>> \o (IF a THEN <<x>> ELSE <<>>) \o <<e, b>>
    BY Zenon DEF TerminalWrites
  <2> HIDE DEF r, b, e, x
  <2> DEFINE p == <<r>> \o (IF a THEN <<x>> ELSE <<>>)
             q == p \o <<e, b>>
  <2>3. p \in Seq({r, x})
    <3>1. <<r>> \in Seq({r, x}) /\ <<x>> \in Seq({r, x}) /\ <<>> \in Seq({r, x})
      OBVIOUS
    <3>2. (IF a THEN <<x>> ELSE <<>>) \in Seq({r, x})
      BY <3>1
    <3> QED
      BY <3>1, <3>2
  <2> HIDE DEF p
  <2>4. /\ Len(q) = Len(p) + 2 /\ Len(p) \in Nat
        /\ q[Len(p) + 1] = e /\ q[Len(p) + 2] = b
        /\ \A i \in 1..Len(p) : q[i] \in {r, x}
    BY <2>3
  <2> HIDE DEF q
  <2>5. \A i \in 1..Len(q) : i = Len(p) + 2 \/ q[i] \in {r, x, e}
    BY <2>4
  <2>6. \A i \in 1..Len(q) : q[i].task = t
    BY <2>1, <2>4, <2>5
  <2>7. ASSUME NEW i \in 1..Len(q), Completes(q[i])
        PROVE  i = Len(q) /\ i # 1 /\ q[i - 1] = EventWrite(q[i].task, q[i].rec.state)
    <3>1. i = Len(p) + 2 /\ q[i] = b
      BY <2>1, <2>4, <2>5, <2>7
    <3>2. i - 1 = Len(p) + 1
      BY <2>4, <3>1
    <3> QED
      BY <2>1, <2>4, <3>1, <3>2
  <2>8. Ready(q)
    BY <1>2, <2>6, <2>7 DEF Ready, Closes
  <2>9. TerminalWrites(t, s, reason, a) = q
    BY <2>2 DEF p, q
  <2>10. Finalize(t, s, reason, a) = <<>> \/ Finalize(t, s, reason, a) = q
    BY <2>9 DEF Finalize
  <2> QED
    BY <2>8, <2>10, NothingReady
<1> QED
  BY <1>1, <1>2

\* One write keeps what the others rely on.
LEMMA WriteTells ==
  ASSUME OInv, Whole, ToldAll, NEW q \in Seq(Write), q # <<>>, Ready(q), Apply(Head(q))
  PROVE  /\ Whole'
         /\ \A s \in Subs : sub[s].pc = "done" =>
              rec'[sub[s].task].complete /\ sub[s].got = Len(events'[sub[s].task])
         /\ \A i \in 1..Len(Tail(q)) :
              /\ ~rec'[Tail(q)[i].task].complete
              /\ Completes(Tail(q)[i]) =>
                   /\ i = Len(Tail(q))
                   /\ IF i = 1 THEN LastIs(Tail(q)[1].task, Tail(q)[1].rec.state)'
                      ELSE Tail(q)[i - 1] = EventWrite(Tail(q)[i].task, Tail(q)[i].rec.state)
<1> DEFINE w == Head(q)
           n == Len(q)
           rest == Tail(q)
           m == Len(rest)
<1>0. /\ rec \in [Tasks -> Record] /\ events \in [Tasks -> Seq(EventKind)]
      /\ sub \in [Subs -> Sub]
  BY DEF OInv, Typed, TypeOK
<1>1. w = q[1] /\ w \in Write /\ n \in Nat /\ 1 \in 1..n
  OBVIOUS
<1>2. m = n - 1 /\ \A i \in 1..m : rest[i] = q[i + 1] /\ i + 1 \in 1..n
  BY <1>1
<1>3. w.task \in Tasks /\ ~rec[w.task].complete
  BY <1>1 DEF Ready, Write
<1>4. \A i \in 1..n : q[i] \in Write /\ q[i].task \in Tasks /\ ~rec[q[i].task].complete
  BY DEF Ready, Write
<1>5. Completes(w) => n = 1 /\ LastIs(w.task, w.rec.state)
  BY <1>1 DEF Ready, Closes
<1>b. Ready(q) /\ \A i \in 1..n : Completes(q[i]) => i = n /\ (i # 1 => q[i - 1] = EventWrite(q[i].task, q[i].rec.state))
  BY DEF Ready, Closes
<1> HIDE DEF w, n, rest, m
<1>6. CASE w.op = "record"
  <2>1. rec' = [rec EXCEPT ![w.task] = w.rec] /\ UNCHANGED events
    BY <1>6 DEF Apply, w
  <2>2. \A u \in Tasks : rec'[u] = IF u = w.task THEN w.rec ELSE rec[u]
    BY <1>0, <2>1
  <2>3. Whole'
    BY <1>3, <1>5, <1>6, <2>1, <2>2 DEF Whole, LastIs, State, Completes
  <2>4. \A s \in Subs : sub[s].pc = "done" =>
          rec'[sub[s].task].complete /\ sub[s].got = Len(events'[sub[s].task])
    BY <1>0, <1>3, <2>1, <2>2 DEF ToldAll, Sub
  <2>5. CASE Completes(w)
    <3>1. m = 0
      BY <1>2, <1>5, <2>5
    <3> QED
      <4>1. \A i \in 1..m : FALSE
        BY <3>1
      <4> QED
        BY <2>3, <2>4, <4>1, Zenon DEF m, rest
  <2>6. CASE ~Completes(w)
    <3>1. ~w.rec.complete
      BY <1>6, <2>6 DEF Completes
    <3>2. ASSUME NEW i \in 1..m
          PROVE  ~rec'[rest[i].task].complete
      BY <1>2, <1>4, <2>2, <3>1, <3>2
    <3>3. ASSUME NEW i \in 1..m, Completes(rest[i])
          PROVE  /\ i = m /\ i # 1
                 /\ rest[i - 1] = EventWrite(rest[i].task, rest[i].rec.state)
      <4>1. /\ i + 1 = n /\ i \in 1..n /\ rest[i] = q[i + 1]
            /\ q[i] = EventWrite(q[i + 1].task, q[i + 1].rec.state)
        BY <1>1, <1>2, <1>b, <3>3
      <4>2. i # 1
        BY <1>1, <1>6, <4>1 DEF EventWrite
      <4>3. rest[i - 1] = q[i]
        BY <1>2, <4>1, <4>2
      <4> QED
        BY <1>2, <4>1, <4>2, <4>3
    <3> QED
      BY <2>3, <2>4, <3>2, <3>3 DEF m, rest
  <2> QED
    BY <2>5, <2>6
<1>7. CASE w.op # "record"
  <2>1. UNCHANGED rec /\ events' = [events EXCEPT ![w.task] = Append(events[w.task], w.kind)]
    BY <1>7 DEF Apply, w
  <2>2. \A u \in Tasks : u # w.task => events'[u] = events[u]
    BY <1>0, <2>1
  <2>3. /\ events'[w.task] # <<>> /\ w.kind \in EventKind
        /\ events'[w.task][Len(events'[w.task])] = w.kind
    <3>1. w.kind \in EventKind
      BY <1>1, <1>7 DEF Write
    <3>2. events'[w.task] = Append(events[w.task], w.kind) /\ events[w.task] \in Seq(EventKind)
      BY <1>0, <1>3, <2>1
    <3> QED
      BY <3>1, <3>2
  <2>4. Whole'
    BY <1>3, <2>1, <2>2 DEF Whole, LastIs, State
  <2>5. \A s \in Subs : sub[s].pc = "done" =>
          rec'[sub[s].task].complete /\ sub[s].got = Len(events'[sub[s].task])
    BY <1>0, <1>3, <2>1, <2>2 DEF ToldAll, Sub
  <2>6. \A i \in 1..m : ~rec'[rest[i].task].complete
    BY <1>2, <1>4, <2>1
  <2>7. ASSUME NEW i \in 1..m, Completes(rest[i])
        PROVE  /\ i = m
               /\ IF i = 1 THEN LastIs(rest[1].task, rest[1].rec.state)'
                  ELSE rest[i - 1] = EventWrite(rest[i].task, rest[i].rec.state)
    <3>1. /\ i + 1 = n /\ i \in 1..n /\ rest[i] = q[i + 1]
          /\ q[i] = EventWrite(q[i + 1].task, q[i + 1].rec.state)
      BY <1>1, <1>2, <1>b, <2>7
    <3>2. CASE i = 1
      <4>1. w.task = rest[1].task /\ w.kind = rest[1].rec.state
        BY <1>1, <3>1, <3>2 DEF EventWrite, w
      <4> QED
        BY <1>2, <2>3, <3>1, <3>2, <4>1 DEF LastIs
    <3>3. CASE i # 1
      <4>1. rest[i - 1] = q[i]
        BY <1>2, <3>1, <3>3
      <4> QED
        BY <1>2, <3>1, <3>3, <4>1
    <3> QED
      BY <3>2, <3>3
  <2> QED
    BY <2>4, <2>5, <2>6, <2>7 DEF m, rest
<1> QED
  BY <1>6, <1>7 DEF m, rest

\* The operations of the store, one of which any other step may begin.
Listed(q) ==
  \/ q = <<>>
  \/ \E t \in Tasks :
       \/ q = Create(t) \/ q = TransitionWorking(t)
       \/ \E s \in FINAL, reason \in Reason, a \in BOOLEAN : q = Finalize(t, s, reason, a)

LEMMA ListedReady ==
  ASSUME OInv, Whole, \A t \in Tasks : State(t) = "none" => ~rec[t].complete, NEW q, Listed(q)
  PROVE  Ready(q)
<1>1. ASSUME NEW t \in Tasks, q = Create(t) PROVE Ready(q)
  <2>1. CASE State(t) = "none"
    BY <1>1, <2>1, CreateReady
  <2>2. CASE State(t) # "none"
    BY <1>1, <2>2, NothingReady DEF Create
  <2> QED
    BY <2>1, <2>2
<1> QED
  BY <1>1, NothingReady, WorkingReady, FinalizeReady DEF Listed

LEMMA ThreadLists ==
  ASSUME OInv, NEW t \in Tasks, SendCheck(t) \/ CancelTask(t) \/ Thread(t)
  PROVE  UNCHANGED sub /\ (UNCHANGED pending \/ Listed(pending'))
<1>0. slot[t] \in Slot
  BY DEF OInv, Typed, TypeOK
<1>1. CASE SendCheck(t) \/ CancelTask(t) \/ SendCreate(t) \/ SendStart(t)
  BY <1>1 DEF SendCheck, CancelTask, SendCreate, SendStart, Listed
<1>2. CASE ValidateEnvelope(t) \/ BeginWork(t) \/ Launch(t) \/ Register(t) \/ Collect(t) \/ EndRun(t)
  BY <1>2 DEF ValidateEnvelope, BeginWork, Launch, Register, Collect, EndRun, Listed
<1>3. CASE CloseByReceipt(t)
  <2>1. \A o \in Outcomes : o.state \in FINAL /\ o.artifact \in BOOLEAN
    BY RunnerAssumption DEF ReceiptState, FINAL
  <2>2. {"deadline", "process_exit"} \subseteq Reason
    BY DEF Reason
  <2>3. CASE UNCHANGED pending
    BY <1>3, <2>3 DEF CloseByReceipt
  <2>4. CASE \E o \in Outcomes : pending' = Finalize(t, o.state,
               IF o.state = "CANCELED" THEN "deadline" ELSE "process_exit", o.artifact)
    BY <1>3, <2>1, <2>2, <2>4 DEF CloseByReceipt, Listed
  <2> QED
    BY <1>3, <2>3, <2>4 DEF CloseByReceipt
<1>4. CASE CloseEarly(t)
  <2>1. \A pc \in DOMAIN Closing : Closing[pc][1] \in FINAL /\ Closing[pc][2] \in Reason
    BY DEF Closing, FINAL, Reason
  <2> QED
    BY <1>4, <2>1 DEF CloseEarly, Listed
<1>5. CASE FinishCanceled(t)
  <2>1. "CANCELED" \in FINAL /\ slot[t].reason \in Reason
    BY <1>0 DEF FINAL, Slot
  <2> QED
    BY <1>5, <2>1 DEF FinishCanceled, Listed
<1>6. ASSUME NEW c \in Callers, CancelStep(c, t)
      PROVE  UNCHANGED sub /\ (UNCHANGED pending \/ Listed(pending'))
  <2>1. UNCHANGED sub /\ (UNCHANGED pending \/ pending' = Finalize(t, "CANCELED", c, FALSE))
    BY <1>6 DEF CancelStep, CancelGet, CancelMark, CancelNoSlot, CancelReady, CancelKill, CancelWait
  <2>2. "CANCELED" \in FINAL /\ c \in Reason
    BY DEF FINAL, Callers, Reason
  <2> QED
    BY <2>1, <2>2 DEF Listed
<1> QED
  BY <1>1, <1>2, <1>3, <1>4, <1>5, <1>6 DEF Thread, Execute

\* No step but a write touches records and events.
LEMMA OthersList ==
  ASSUME OInv, Next, ~StoreWrite, ~BootWrite
  PROVE  /\ UNCHANGED <<rec, events>>
         /\ UNCHANGED pending \/ Listed(pending')
         /\ UNCHANGED boot \/ Listed(boot'.writes)
<1>1. ASSUME NEW t \in Tasks, SendCheck(t) \/ CancelTask(t) \/ Thread(t)
      PROVE  /\ UNCHANGED <<rec, events, boot>>
             /\ UNCHANGED pending \/ Listed(pending')
  BY <1>1, ThreadLists, ThreadsKeepOthers DEF disk
<1>2. CASE BeginShutdown \/ Shutdown \/ Crash \/ RemoveStale
  <2>1. UNCHANGED <<rec, events, boot>>
    BY <1>2 DEF BeginShutdown, Shutdown, ListActive, Reap, EndRound, FinalizeLeft, Crash,
       RemoveStale, disk
  <2>2. \/ UNCHANGED pending \/ pending' = <<>>
        \/ \E t \in Tasks : pending' = Finalize(t, "CANCELED", "runner_stop", FALSE)
    BY <1>2 DEF BeginShutdown, Shutdown, ListActive, Reap, EndRound, FinalizeLeft, Crash,
       RemoveStale, Forget
  <2>3. "CANCELED" \in FINAL /\ "runner_stop" \in Reason
    BY DEF FINAL, Reason
  <2> QED
    BY <2>1, <2>2, <2>3 DEF Listed
<1>3. CASE BootStart \/ BootOwn \/ BootCrash \/ (\E t \in Tasks : BootRead(t))
  <2>0. boot \in Boot
    BY DEF OInv, Typed, TypeOK
  <2>1. UNCHANGED <<rec, events, pending>>
    BY <1>3 DEF BootStart, BootOwn, BootCrash, BootRead, disk
  <2>2. CASE BootStart
    BY <2>1, <2>2 DEF BootStart, Listed
  <2>3. CASE BootOwn \/ BootCrash
    <3>1. boot'.writes = <<>>
      BY <2>0, <2>3 DEF BootOwn, BootCrash, BootOver, Boot
    <3> QED
      BY <2>1, <3>1 DEF Listed
  <2>4. CASE \E t \in Tasks : BootRead(t)
    <3>1. PICK t \in Tasks : boot'.writes = Finalize(t, "FAILED", "runner_restart", FALSE)
      BY <2>0, <2>4 DEF BootRead, Boot
    <3>2. "FAILED" \in FINAL /\ "runner_restart" \in Reason
      BY DEF FINAL, Reason
    <3> QED
      BY <2>1, <3>1, <3>2 DEF Listed
  <2> QED
    BY <1>3, <2>2, <2>3, <2>4
<1>4. CASE (\E t \in Tasks : LeaderExits(t)) \/ (\E s \in Subs : SseOpen(s) \/ Sse(s))
  BY <1>4 DEF LeaderExits, SseOpen, Sse, SseDrain, SseCheck, disk
<1> QED
  BY <1>1, <1>2, <1>3, <1>4 DEF Next

\* A stream is told that it is over when it has seen everything.
LEMMA SubTold ==
  ASSUME OInv, ToldAll, Next
  PROVE  \A s \in Subs : sub'[s].pc = "done" =>
           \/ sub[s].pc = "done" /\ sub'[s] = sub[s]
           \/ /\ UNCHANGED <<rec, events>>
              /\ rec[sub'[s].task].complete /\ sub'[s].got = Len(events[sub'[s].task])
<1>0. sub \in [Subs -> Sub]
  BY DEF OInv, Typed, TypeOK
<1>1. CASE UNCHANGED sub
  BY <1>1
<1>2. CASE Forget
  BY <1>0, <1>2 DEF Forget
<1>3. ASSUME NEW s \in Subs, SseOpen(s) \/ SseDrain(s)
      PROVE  /\ \A z \in Subs : z # s => sub'[z] = sub[z]
             /\ sub'[s].pc # "done"
  <2>1. CASE SseOpen(s)
    BY <1>0, <2>1 DEF SseOpen
  <2>2. CASE SseDrain(s)
    <3>1. PICK n : sub' = [sub EXCEPT ![s].got = n,
                  ![s].pc = IF n = Len(events[sub[s].task]) THEN "check" ELSE "off"]
      BY <2>2 DEF SseDrain
    <3>2. sub[s] \in Sub
      BY <1>0
    <3> QED
      BY <1>0, <3>1, <3>2 DEF Sub
  <2> QED
    BY <1>3, <2>1, <2>2
<1>4. ASSUME NEW s \in Subs, SseCheck(s)
      PROVE  /\ UNCHANGED <<rec, events>>
             /\ \A z \in Subs : z # s => sub'[z] = sub[z]
             /\ sub'[s].pc = "done" =>
                  rec[sub'[s].task].complete /\ sub'[s].got = Len(events[sub'[s].task])
  <2>1. sub[s] \in Sub /\ UNCHANGED <<rec, events>>
    BY <1>0, <1>4 DEF SseCheck, disk
  <2>2. CASE rec[sub[s].task].complete
    <3>1. sub' = [sub EXCEPT ![s] = [sub[s] EXCEPT !.pc = "done", !.got = Len(events[sub[s].task])]]
      BY <1>4, <2>2 DEF SseCheck
    <3> QED
      BY <1>0, <2>1, <2>2, <3>1 DEF Sub
  <2>3. CASE ~rec[sub[s].task].complete
    <3>1. sub' = [sub EXCEPT ![s] = [sub[s] EXCEPT !.pc = "drain"]]
      BY <1>4, <2>3 DEF SseCheck
    <3> QED
      BY <1>0, <2>1, <3>1 DEF Sub
  <2> QED
    BY <2>2, <2>3
<1>5. UNCHANGED sub \/ Forget \/ \E s \in Subs : SseOpen(s) \/ SseDrain(s) \/ SseCheck(s)
  <2>1. ASSUME NEW t \in Tasks, SendCheck(t) \/ CancelTask(t) \/ Thread(t) PROVE UNCHANGED sub
    BY <2>1, ThreadLists
  <2>2. CASE BeginShutdown \/ Shutdown \/ Crash \/ RemoveStale
    BY <2>2 DEF BeginShutdown, Shutdown, ListActive, Reap, EndRound, FinalizeLeft, Crash, RemoveStale
  <2>3. CASE StoreWrite \/ BootStart \/ BootWrite \/ BootOwn \/ BootCrash
             \/ (\E t \in Tasks : BootRead(t) \/ LeaderExits(t))
    BY <2>3 DEF StoreWrite, BootStart, BootWrite, BootOwn, BootCrash, BootRead, LeaderExits
  <2> QED
    BY <2>1, <2>2, <2>3 DEF Next, Sse
<1> QED
  BY <1>1, <1>2, <1>3, <1>4, <1>5

LEMMA CompleteHasState ==
  ASSUME OInv, Whole PROVE \A t \in Tasks : State(t) = "none" => ~rec[t].complete
<1> SUFFICES ASSUME NEW t \in Tasks, rec[t].complete, State(t) = "none" PROVE FALSE
  OBVIOUS
<1>1. events[t] \in Seq(EventKind) /\ events[t] # <<>> /\ events[t][Len(events[t])] = "none"
  BY DEF OInv, Typed, TypeOK, Whole, LastIs
<1>2. "none" \in EventKind
  BY <1>1
<1> QED
  BY <1>2 DEF EventKind, FINAL, ACTIVE

LEMMA StillReady ==
  ASSUME NEW q, Ready(q), UNCHANGED <<rec, events>>
  PROVE  \A i \in 1..Len(q) :
           /\ ~rec'[q[i].task].complete
           /\ Completes(q[i]) => /\ i = Len(q)
                                 /\ IF i = 1 THEN LastIs(q[1].task, q[1].rec.state)'
                                    ELSE q[i - 1] = EventWrite(q[i].task, q[i].rec.state)
  BY DEF Ready, Closes, LastIs

LEMMA WriteStepTells ==
  ASSUME SInv, Streams, StoreWrite \/ BootWrite
  PROVE  Streams'
<1>0. OInv /\ Typed /\ Whole /\ ToldAll
  BY DEF SInv, OInv, Streams
<1>1. CASE StoreWrite
  <2>1. /\ pending \in Seq(Write) /\ pending # <<>> /\ Ready(pending) /\ Apply(Head(pending))
        /\ pending' = Tail(pending) /\ UNCHANGED <<boot, sub>>
    BY <1>0, <1>1 DEF Typed, TypeOK, StoreWrite, Streams
  <2>2. boot'.writes = <<>>
    BY <2>1 DEF SInv, Single, Quiet
  <2>3. Ready(boot.writes)'
    BY <2>2 DEF Ready, Closes
  <2>4. Whole' /\ ToldAll'
    BY <1>0, <2>1, WriteTells DEF ToldAll
  <2>5. Ready(pending)'
    <3>1. \A i \in 1..Len(Tail(pending)) :
            /\ ~rec'[Tail(pending)[i].task].complete
            /\ Completes(Tail(pending)[i]) =>
                 /\ i = Len(Tail(pending))
                 /\ IF i = 1 THEN /\ events'[Tail(pending)[1].task] # <<>>
                                  /\ events'[Tail(pending)[1].task][Len(events'[Tail(pending)[1].task])]
                                       = Tail(pending)[1].rec.state
                    ELSE Tail(pending)[i - 1] = EventWrite(Tail(pending)[i].task, Tail(pending)[i].rec.state)
      BY <1>0, <2>1, WriteTells DEF LastIs
    <3> QED
      BY <2>1, <3>1 DEF Ready, Closes, LastIs
  <2> QED
    BY <2>3, <2>4, <2>5 DEF Streams
<1>2. CASE BootWrite
  <2>1. /\ boot.writes \in Seq(Write) /\ boot.writes # <<>> /\ Ready(boot.writes)
        /\ Apply(Head(boot.writes)) /\ boot'.writes = Tail(boot.writes) /\ UNCHANGED <<pending, sub>>
    BY <1>0, <1>2 DEF Typed, TypeOK, Boot, BootWrite, Streams
  <2>2. pending' = <<>>
    BY <2>1 DEF SInv, Single, Quiet
  <2>3. Ready(pending)'
    BY <2>2 DEF Ready, Closes
  <2>4. Whole' /\ ToldAll'
    BY <1>0, <2>1, WriteTells DEF ToldAll
  <2>5. Ready(boot.writes)'
    <3>1. \A i \in 1..Len(Tail(boot.writes)) :
            /\ ~rec'[Tail(boot.writes)[i].task].complete
            /\ Completes(Tail(boot.writes)[i]) =>
                 /\ i = Len(Tail(boot.writes))
                 /\ IF i = 1 THEN /\ events'[Tail(boot.writes)[1].task] # <<>>
                                  /\ events'[Tail(boot.writes)[1].task][Len(events'[Tail(boot.writes)[1].task])]
                                       = Tail(boot.writes)[1].rec.state
                    ELSE Tail(boot.writes)[i - 1] = EventWrite(Tail(boot.writes)[i].task, Tail(boot.writes)[i].rec.state)
      BY <1>0, <2>1, WriteTells DEF LastIs
    <3> QED
      BY <2>1, <3>1 DEF Ready, Closes, LastIs
  <2> QED
    BY <2>3, <2>4, <2>5 DEF Streams
<1> QED
  BY <1>1, <1>2

LEMMA OtherStepTells ==
  ASSUME SInv, Streams, Next, ~StoreWrite, ~BootWrite
  PROVE  Streams'
<1>0. OInv /\ Whole /\ ToldAll /\ Ready(pending) /\ Ready(boot.writes)
  BY DEF SInv, Streams
<1>1. /\ UNCHANGED <<rec, events>>
      /\ UNCHANGED pending \/ Listed(pending')
      /\ UNCHANGED boot \/ Listed(boot'.writes)
  BY <1>0, OthersList
<1>2. \A q : Listed(q) => Ready(q)
  BY <1>0, CompleteHasState, ListedReady
<1>3. Ready(pending') /\ Ready(boot'.writes)
  BY <1>0, <1>1, <1>2
<1>4. Ready(pending)'
  BY <1>1, <1>3, StillReady DEF Ready, Closes
<1>5. Ready(boot.writes)'
  BY <1>1, <1>3, StillReady DEF Ready, Closes
<1>6. Whole'
  BY <1>0, <1>1 DEF Whole, LastIs, State
<1>7. ToldAll'
  BY <1>0, <1>1, SubTold DEF ToldAll
<1> QED
  BY <1>4, <1>5, <1>6, <1>7 DEF Streams

LEMMA StepTells == ASSUME SInv, Streams, [Next]_vars PROVE Streams'
<1>1. CASE UNCHANGED vars
  BY <1>1 DEF vars, Streams, Whole, LastIs, State, Ready, Closes, ToldAll
<1> QED
  BY <1>1, WriteStepTells, OtherStepTells

LEMMA InitTells == ASSUME Init PROVE Streams
<1>1. Whole
  BY DEF Init, Whole, NoRecord
<1>2. Ready(pending) /\ Ready(boot.writes)
  BY NothingReady DEF Init
<1>3. ToldAll
  BY DEF Init, ToldAll
<1> QED
  BY <1>1, <1>2, <1>3 DEF Streams

\* A client that was told the stream is over has seen every event, the terminal
\* one last, for any number of clients, broken connections and runners, one
\* after the other.
THEOREM StreamsTellEverything ==
  ASSUME ~Doubles PROVE Spec => []StreamTellsAll
<1>1. Init => SInv /\ Streams
  BY InitMaps, InitTells
<1>2. SInv /\ Streams /\ [Next]_vars => SInv' /\ Streams'
  BY StepMaps, StepTells
<1>3. SInv /\ Streams => StreamTellsAll
  BY DEF SInv, OInv, Typed, TypeOK, Sub, Streams, ToldAll, Whole, LastIs, StreamTellsAll
<1> QED
  BY <1>1, <1>2, <1>3, PTL DEF Spec

-----------------------------------------------------------------------------
\* What a shutdown leaves behind, for runners that come one after the other.

Attached == {"launched", "running"}
Underway == {"validate", "begin", "launch", "launched", "running"}
AtWork == {"launch", "launched", "running"}

\* The state of a task is final, or is just being made so.
Ending(t) ==
  \/ State(t) \in FINAL
  \/ \E i \in 1..Len(pending) :
       pending[i].op = "record" /\ pending[i].task = t /\ pending[i].rec.state \in FINAL

\* A thread that has its cleanup behind it has no process group left, unless
\* somebody gave up waiting for its process.
SlotRight(s, g) ==
  /\ s.pc = "running" => s.proc
  /\ s.ready \/ s.proc => s.pc \notin Underway \ {"running"}
  /\ s.done => s.pc = "none"
  /\ s.cleanup /\ s.pc \in Underway \ {"running"} => g.missed
  /\ s.cleanup /\ s.pc = "running" => g.st \notin {"up", "orphan"} \/ g.missed
  /\ s.pc \in Attached /\ g.st = "orphan" => s.canceled

\* A caller of cancel that found a slot has marked it, and kills what has shown
\* itself or counts as missed.
CancelRight(pc, s, g) ==
  /\ pc \in {"ready", "kill", "wait"} => s.canceled
  /\ pc = "kill" => s.ready \/ g.missed
  /\ pc = "wait" => s.cleanup

\* Whatever deals with a task has its record, or is just writing it.
Recorded(t) ==
  /\ slot[t] # NoSlot => State(t) # "none"
  /\ \A c \in Callers : cancel[c][t] # "idle" => State(t) # "none"
  /\ sender[t] = "created" =>
       \/ State(t) # "none"
       \/ /\ pending # <<>> /\ Head(pending).op = "record" /\ Head(pending).task = t
          /\ Head(pending).rec.state # "none"

\* A task has no thread before the handler has started it.
Fresh(t) == sender[t] = "created" /\ run.phase = "up" => slot[t] = NoSlot

\* A task that is closed under its thread has been cleaned up after, or missed.
Cleaned(t) == Ending(t) /\ slot[t].pc \in AtWork => slot[t].cleanup \/ group[t].missed

\* What a round of the shutdown has done for a task.
Rounded(t) ==
  /\ run.phase = "reaping" /\ t \in run.active => slot[t].pc = "none" \/ slot[t].cleanup
  /\ run.phase \in {"cancelling", "reaping"} /\ t \notin run.active =>
       State(t) \in FINAL \/ (slot[t].pc = "none" /\ group[t].by # run.pid)

\* A process group is of the run that launched it, and is attended to or missed.
Grouped(t) ==
  /\ group[t].by <= run.pid
  /\ group[t].by # 0 => group[t].launches # 0
  /\ Alive /\ group[t].by = run.pid /\ Running(t) => slot[t].pc \in Attached \/ group[t].missed

Numbered ==
  /\ run.pid <= boot.last
  /\ boot.pid # 0 => run.pid < boot.pid /\ boot.pid <= boot.last

TaskRight(t) ==
  /\ SlotRight(slot[t], group[t])
  /\ \A c \in Callers : CancelRight(cancel[c][t], slot[t], group[t])
  /\ Recorded(t) /\ Fresh(t) /\ Cleaned(t) /\ Rounded(t) /\ Grouped(t)

LInv == Numbered /\ LeavesNothing /\ \A t \in Tasks : TaskRight(t)

\* The types the steps below rest on.
Places ==
  /\ slot \in [Tasks -> Slot] /\ group \in [Tasks -> Group] /\ rec \in [Tasks -> Record]
  /\ cancel \in [Callers -> [Tasks -> CancelPc]]
  /\ sender \in [Tasks -> {"idle", "checked", "created"}]
  /\ run \in Run /\ boot \in Boot /\ pending \in Seq(Write)

LEMMA PlacesTyped == Typed => Places
BY DEF Typed, TypeOK, Places

\* With the store free, what is ending is closed.
LEMMA EndingFree ==
  ASSUME StoreFree, NEW t \in Tasks PROVE Ending(t) <=> State(t) \in FINAL
BY DEF StoreFree, Ending

\* The writes an operation lists are of its own task.
LEMMA OwnWrites ==
  ASSUME NEW t \in Tasks, NEW v, NEW q \in Seq(Bringing(t, v))
  PROVE  \A i \in 1..Len(q) : q[i].task = t /\ (q[i].op = "record" => q[i].rec.state = v.state)
<1>1. \A i \in 1..Len(q) : q[i] \in Bringing(t, v)
  OBVIOUS
<1> QED
  BY <1>1 DEF Bringing, ViewOf

\* A task that nobody touches.
LEMMA UntouchedRight ==
  ASSUME NEW u \in Tasks, TaskRight(u),
         UNCHANGED run, slot'[u] = slot[u], group'[u] = group[u], sender'[u] = sender[u],
         \A c \in Callers : cancel'[c][u] = cancel[c][u],
         State(u) # "none" => State(u)' # "none",
         State(u) \in FINAL => State(u)' \in FINAL,
         Ending(u)' <=> Ending(u),
         Recorded(u)'
  PROVE  TaskRight(u)'
<1>1. SlotRight(slot[u], group[u])' /\ \A c \in Callers : CancelRight(cancel[c][u], slot[u], group[u])'
  BY DEF TaskRight, SlotRight, CancelRight
<1>2. Fresh(u)'
  BY DEF TaskRight, Fresh
<1>3. Cleaned(u)'
  BY DEF TaskRight, Cleaned
<1>4. Rounded(u)'
  BY DEF TaskRight, Rounded, Callers
<1>5. Grouped(u)'
  BY DEF TaskRight, Grouped, Alive, Running
<1> QED
  BY <1>1, <1>2, <1>3, <1>4, <1>5 DEF TaskRight

\* A step of one task's threads leaves the others alone.
LEMMA OthersRight ==
  ASSUME StoreFree, NEW t \in Tasks, NEW u \in Tasks, u # t, TaskRight(u),
         UNCHANGED <<rec, run>>, slot'[u] = slot[u], group'[u] = group[u], sender'[u] = sender[u],
         \A c \in Callers : cancel'[c][u] = cancel[c][u],
         \A i \in 1..Len(pending') : pending'[i].task = t
  PROVE  TaskRight(u)'
<1>1. State(u)' = State(u)
  BY DEF State
<1>2. Ending(u)' <=> Ending(u)
  BY <1>1, EndingFree DEF Ending
<1>3. Recorded(u)'
  BY <1>1 DEF TaskRight, Recorded, StoreFree
<1> QED
  BY <1>1, <1>2, <1>3, UntouchedRight

\* A thread that has left the stretch from its start to its process, with no
\* process group of this run behind it that was not missed.
LEMMA LeavesRight ==
  ASSUME Places, StoreFree, NEW t \in Tasks, TaskRight(t), slot[t].pc # "none",
         UNCHANGED <<rec, run>>, sender'[t] = sender[t],
         \A c \in Callers : cancel'[c][t] = cancel[c][t],
         slot'[t].pc \notin Underway,
         slot'[t].canceled = slot[t].canceled,
         slot[t].cleanup => slot'[t].cleanup,
         slot[t].ready => slot'[t].ready,
         slot'[t].done => slot'[t].pc = "none",
         group'[t].by = group[t].by, group'[t].launches = group[t].launches,
         group'[t].missed = group[t].missed,
         Alive /\ group[t].by = run.pid => group'[t].st \notin {"up", "orphan"} \/ group[t].missed
  PROVE  TaskRight(t)'
<1>1. slot[t] # NoSlot /\ State(t) # "none" /\ State(t)' = State(t)
  BY DEF TaskRight, Recorded, State, NoSlot
<1>2. Ending(t) => Ending(t)'
  BY <1>1, EndingFree DEF Ending
<1>3. SlotRight(slot[t], group[t])'
  BY DEF SlotRight, Underway, Attached
<1>4. \A c \in Callers : CancelRight(cancel[c][t], slot[t], group[t])'
  BY DEF TaskRight, CancelRight
<1>5. Recorded(t)'
  BY <1>1 DEF TaskRight, Recorded
<1>6. Fresh(t)'
  BY <1>1 DEF TaskRight, Fresh
<1>7. Cleaned(t)'
  BY DEF Cleaned, AtWork, Underway
<1>8. Rounded(t)'
  BY <1>1, <1>2 DEF TaskRight, Rounded
<1>9. Grouped(t)'
  BY DEF TaskRight, Grouped, Alive, Running
<1> QED
  BY <1>3, <1>4, <1>5, <1>6, <1>7, <1>8, <1>9 DEF TaskRight

\* A thread on its way to its process.
LEMMA LaunchingRight ==
  ASSUME Places, StoreFree, NEW t \in Tasks, TaskRight(t), slot[t].pc \in Underway \ {"running"},
         UNCHANGED <<rec, run>>, sender'[t] = sender[t],
         \A c \in Callers : cancel'[c][t] = cancel[c][t],
         slot'[t].pc \in {"begin", "launch", "launched", "running"},
         slot'[t].canceled = slot[t].canceled, slot'[t].cleanup = slot[t].cleanup,
         slot'[t].done = slot[t].done,
         slot[t].ready => slot'[t].ready,
         slot'[t].ready \/ slot'[t].proc => slot'[t].pc = "running",
         slot'[t].pc = "running" => slot'[t].proc,
         slot'[t].pc \in AtWork /\ Ending(t)' => slot[t].cleanup \/ group[t].missed,
         slot'[t].pc \in Attached /\ group'[t].st = "orphan" => slot[t].canceled,
         group'[t].by <= run.pid, group'[t].by # 0 => group'[t].launches # 0,
         group'[t].missed = group[t].missed,
         Alive /\ group'[t].by = run.pid /\ group'[t].st \in {"up", "orphan"} =>
           slot'[t].pc \in Attached \/ group[t].missed
  PROVE  TaskRight(t)'
<1>1. slot[t] # NoSlot /\ State(t) # "none" /\ State(t)' = State(t)
  BY DEF TaskRight, Recorded, State, NoSlot, Underway
<1>2. Ending(t) => Ending(t)'
  BY <1>1, EndingFree DEF Ending
<1>3. SlotRight(slot[t], group[t])'
  BY DEF TaskRight, SlotRight, Underway, Attached
<1>4. \A c \in Callers : CancelRight(cancel[c][t], slot[t], group[t])'
  BY DEF TaskRight, CancelRight
<1>5. Recorded(t)'
  BY <1>1 DEF TaskRight, Recorded
<1>6. Fresh(t)'
  BY <1>1 DEF TaskRight, Fresh
<1>7. Cleaned(t)'
  BY DEF Cleaned
<1>8. Rounded(t)'
  BY <1>1, <1>2, EndingFree DEF TaskRight, Rounded, Underway
<1>9. Grouped(t)'
  BY DEF Grouped, Alive, Running
<1> QED
  BY <1>3, <1>4, <1>5, <1>6, <1>7, <1>8, <1>9 DEF TaskRight

LEMMA FinalizeOwn ==
  ASSUME Typed, NEW t \in Tasks, NEW s \in FINAL, NEW reason \in Reason, NEW a \in BOOLEAN
  PROVE  \A i \in 1..Len(Finalize(t, s, reason, a)) : Finalize(t, s, reason, a)[i].task = t
<1>1. rec \in [Tasks -> Record]
  BY DEF Typed, TypeOK
<1> QED
  BY <1>1, FinalizeWrites, OwnWrites

\* Setting a task to work, or creating it, closes nothing.
LEMMA WorkingOwn ==
  ASSUME Typed, NEW t \in Tasks, StoreFree, UNCHANGED rec,
         pending' = TransitionWorking(t) \/ pending' = Create(t)
  PROVE  /\ \A i \in 1..Len(pending') : pending'[i].task = t
         /\ \A u \in Tasks : Ending(u)' <=> State(u) \in FINAL
<1>1. rec \in [Tasks -> Record]
  BY DEF Typed, TypeOK
<1>2. \A i \in 1..Len(pending') :
        pending'[i].task = t /\ (pending'[i].op = "record" => pending'[i].rec.state \in ACTIVE)
  <2>1. CASE pending' = TransitionWorking(t)
    <3> DEFINE v == [ViewOf(rec[t]) EXCEPT !.state = "WORKING"]
    <3>1. v.state = "WORKING"
      BY DEF ViewOf
    <3>2. TransitionWorking(t) \in Seq(Bringing(t, v))
      BY <1>1, WorkingWrites
    <3> HIDE DEF v
    <3> QED
      BY <2>1, <3>1, <3>2, OwnWrites DEF ACTIVE
  <2>2. CASE pending' = Create(t)
    <3>1. Accepted.state = "SUBMITTED"
      BY DEF Accepted
    <3> QED
      BY <2>2, <3>1, CreateWrites, OwnWrites DEF ACTIVE
  <2> QED
    BY <2>1, <2>2
<1>3. FINAL \cap ACTIVE = {}
  BY DEF FINAL, ACTIVE
<1> QED
  BY <1>2, <1>3 DEF Ending, State

\* The threads of a task write of that task only.
LEMMA ThreadOwn ==
  ASSUME Typed, StoreFree, NEW t \in Tasks, SendCheck(t) \/ CancelTask(t) \/ Thread(t)
  PROVE  \A i \in 1..Len(pending') : pending'[i].task = t
<1>0. slot[t] \in Slot
  BY DEF Typed, TypeOK
<1>1. ASSUME UNCHANGED pending PROVE \A i \in 1..Len(pending') : pending'[i].task = t
  BY <1>1 DEF StoreFree
<1>2. CASE SendCheck(t) \/ CancelTask(t) \/ SendStart(t) \/ ValidateEnvelope(t) \/ Launch(t)
           \/ Register(t) \/ Collect(t) \/ EndRun(t)
  BY <1>1, <1>2 DEF SendCheck, CancelTask, SendStart, ValidateEnvelope, Launch, Register, Collect, EndRun
<1>3. CASE SendCreate(t) \/ BeginWork(t)
  BY <1>3, WorkingOwn DEF SendCreate, BeginWork, disk
<1>4. CASE CloseByReceipt(t)
  <2>1. \A o \in Outcomes : o.state \in FINAL /\ o.artifact \in BOOLEAN
    BY RunnerAssumption DEF ReceiptState, FINAL
  <2>2. {"deadline", "process_exit"} \subseteq Reason
    BY DEF Reason
  <2>3. ASSUME NEW o \in Outcomes, pending' = Finalize(t, o.state,
               IF o.state = "CANCELED" THEN "deadline" ELSE "process_exit", o.artifact)
        PROVE  \A i \in 1..Len(pending') : pending'[i].task = t
    BY <2>1, <2>2, <2>3, FinalizeOwn
  <2> QED
    BY <1>1, <1>4, <2>3 DEF CloseByReceipt
<1>5. CASE CloseEarly(t)
  <2>1. \A pc \in DOMAIN Closing : Closing[pc][1] \in FINAL /\ Closing[pc][2] \in Reason
    BY DEF Closing, FINAL, Reason
  <2> QED
    BY <1>5, <2>1, FinalizeOwn DEF CloseEarly
<1>6. CASE FinishCanceled(t)
  <2>1. "CANCELED" \in FINAL /\ slot[t].reason \in Reason
    BY <1>0 DEF FINAL, Slot
  <2> QED
    BY <1>6, <2>1, FinalizeOwn DEF FinishCanceled
<1>7. ASSUME NEW c \in Callers, CancelStep(c, t)
      PROVE  \A i \in 1..Len(pending') : pending'[i].task = t
  <2>1. UNCHANGED pending \/ pending' = Finalize(t, "CANCELED", c, FALSE)
    BY <1>7 DEF CancelStep, CancelGet, CancelMark, CancelNoSlot, CancelReady, CancelKill, CancelWait
  <2>2. "CANCELED" \in FINAL /\ c \in Reason
    BY DEF FINAL, Callers, Reason
  <2>3. CASE pending' = Finalize(t, "CANCELED", c, FALSE)
    BY <2>2, <2>3, FinalizeOwn
  <2> QED
    BY <1>1, <2>1, <2>3
<1> QED
  BY <1>2, <1>3, <1>4, <1>5, <1>6, <1>7 DEF Thread, Execute

\* A thread goes to one of its last places.
Exits(t) ==
  /\ slot'[t].pc \notin Underway
  /\ slot'[t].canceled = slot[t].canceled
  /\ slot[t].cleanup => slot'[t].cleanup
  /\ slot[t].ready => slot'[t].ready
  /\ slot'[t].done => slot'[t].pc = "none"

LEMMA GoExits ==
  ASSUME Places, NEW t \in Tasks, TaskRight(t), slot[t].pc # "none",
         GoCanceled(t) \/ Go(t, "reject") \/ Go(t, "late") \/ Go(t, "fail") \/ Go(t, "end")
  PROVE  Exits(t)
<1>1. slot \in [Tasks -> Slot] /\ slot[t] \in Slot /\ ~slot[t].done
  BY DEF Places, TaskRight, SlotRight
<1>2. CASE GoCanceled(t)
  BY <1>1, <1>2 DEF GoCanceled, Slot, Underway, Exits
<1>3. ASSUME NEW pc \in {"reject", "late", "fail", "end"}, Go(t, pc) PROVE Exits(t)
  BY <1>1, <1>3 DEF Go, Slot, Underway, Exits
<1> QED
  BY <1>2, <1>3

LEMMA ExitsRight ==
  ASSUME Places, StoreFree, NEW t \in Tasks, TaskRight(t), UNCHANGED <<rec, run, sender, cancel, group>>,
         slot[t].pc \notin {"none", "launched", "running"}, Exits(t)
  PROVE  TaskRight(t)'
<1>1. Alive /\ group[t].by = run.pid => group'[t].st \notin {"up", "orphan"} \/ group[t].missed
  BY DEF TaskRight, Grouped, Running, Attached
<1> QED
  BY <1>1, LeavesRight DEF Exits

\* The thread of a slot.
LEMMA ExecuteRight ==
  ASSUME OInv, LInv, StoreFree, NEW t \in Tasks, Execute(t)
  PROVE  TaskRight(t)'
<1>0. Places /\ slot[t] \in Slot /\ group[t] \in Group /\ TaskRight(t) /\ Typed
  BY PlacesTyped DEF OInv, LInv, Places
<1>1. UNCHANGED <<rec, run, sender, cancel>>
  BY DEF Execute, ValidateEnvelope, BeginWork, Launch, Register, Collect, CloseByReceipt,
     CloseEarly, FinishCanceled, EndRun, disk
<1>2. slot \in [Tasks -> Slot] /\ group \in [Tasks -> Group]
  BY <1>0 DEF Places
<1>3. UNCHANGED pending => (Ending(t)' <=> State(t) \in FINAL)
  BY <1>1 DEF StoreFree, Ending, State
<1>4. State(t) \in FINAL /\ slot[t].pc \in AtWork => slot[t].cleanup \/ group[t].missed
  BY <1>0, EndingFree DEF TaskRight, Cleaned
<1>5. CASE ValidateEnvelope(t)
  <2>1. CASE slot[t].canceled \/ Go(t, "reject") \/ Go(t, "late")
    <3>1. UNCHANGED group /\ slot[t].pc = "validate"
      BY <1>5 DEF ValidateEnvelope
    <3>2. GoCanceled(t) \/ Go(t, "reject") \/ Go(t, "late")
      BY <1>5, <2>1 DEF ValidateEnvelope
    <3> QED
      BY <1>0, <1>1, <3>1, <3>2, GoExits, ExitsRight
  <2>2. CASE ~slot[t].canceled /\ Go(t, "begin")
    <3>1. ~slot[t].ready /\ ~slot[t].proc
      BY <1>0, <1>5, <2>2 DEF TaskRight, SlotRight, ValidateEnvelope, Underway
    <3>2. /\ slot'[t].pc = "begin" /\ slot'[t].canceled = slot[t].canceled
          /\ slot'[t].cleanup = slot[t].cleanup /\ slot'[t].done = slot[t].done
          /\ slot'[t].ready = slot[t].ready /\ slot'[t].proc = slot[t].proc
      BY <1>2, <1>0, <2>2 DEF Go, Slot
    <3>3. UNCHANGED <<pending, group>> /\ slot[t].pc = "validate"
      BY <1>5 DEF ValidateEnvelope
    <3>5. Alive /\ group'[t].by = run.pid => group'[t].st \notin {"up", "orphan"} \/ group[t].missed
      BY <1>0, <3>3 DEF TaskRight, Grouped, Running, Attached
    <3>6. group'[t].by <= run.pid /\ (group'[t].by # 0 => group'[t].launches # 0)
      BY <1>0, <3>3 DEF TaskRight, Grouped
    <3> QED
      BY <1>0, <1>1, <2>2, <3>1, <3>2, <3>3, <3>5, <3>6, LaunchingRight DEF Underway, Attached, AtWork
  <2> QED
    BY <1>5, <2>1, <2>2 DEF ValidateEnvelope
<1>6. CASE BeginWork(t)
  <2>1. UNCHANGED group /\ slot[t].pc = "begin" /\ pending' = TransitionWorking(t)
    BY <1>6 DEF BeginWork
  <2>2. CASE TransitionWorking(t) = <<>>
    <3>1. slot' = [slot EXCEPT ![t] = [slot[t] EXCEPT !.pc = "end", !.ready = TRUE, !.cleanup = TRUE]]
      BY <1>6, <2>2 DEF BeginWork
    <3>2. Exits(t)
      <4>1. ~slot[t].done
        BY <1>0, <2>1 DEF TaskRight, SlotRight
      <4> QED
        BY <1>0, <1>2, <3>1, <4>1 DEF Exits, Slot, Underway
    <3> QED
      BY <1>0, <1>1, <2>1, <3>2, ExitsRight
  <2>3. CASE TransitionWorking(t) # <<>> /\ Go(t, "launch")
    <3>1. ~slot[t].ready /\ ~slot[t].proc
      BY <1>0, <2>1 DEF TaskRight, SlotRight, Underway
    <3>2. /\ slot'[t].pc = "launch" /\ slot'[t].canceled = slot[t].canceled
          /\ slot'[t].cleanup = slot[t].cleanup /\ slot'[t].done = slot[t].done
          /\ slot'[t].ready = slot[t].ready /\ slot'[t].proc = slot[t].proc
      BY <1>2, <1>0, <2>3 DEF Go, Slot
    <3>3. ~Ending(t)'
      <4>1. State(t) = "SUBMITTED"
        BY <2>3 DEF TransitionWorking
      <4> QED
        BY <1>0, <1>1, <2>1, <4>1, WorkingOwn DEF FINAL
    <3>4. Alive /\ group'[t].by = run.pid => group'[t].st \notin {"up", "orphan"} \/ group[t].missed
      BY <1>0, <2>1 DEF TaskRight, Grouped, Running, Attached
    <3>5. group'[t].by <= run.pid /\ (group'[t].by # 0 => group'[t].launches # 0)
      BY <1>0, <2>1 DEF TaskRight, Grouped
    <3> QED
      BY <1>0, <1>1, <2>1, <3>1, <3>2, <3>3, <3>4, <3>5, LaunchingRight DEF Underway, Attached
  <2> QED
    BY <1>6, <2>2, <2>3 DEF BeginWork
<1>7. CASE Launch(t)
  <2>1. UNCHANGED pending /\ slot[t].pc = "launch"
    BY <1>7 DEF Launch
  <2>2. CASE UNCHANGED group /\ (GoCanceled(t) \/ Go(t, "fail"))
    BY <1>0, <1>1, <2>1, <2>2, GoExits, ExitsRight
  <2>3. CASE group' = Spawned(t) /\ Go(t, "launched")
    <3>1. ~slot[t].ready /\ ~slot[t].proc
      BY <1>0, <2>1 DEF TaskRight, SlotRight, Underway
    <3>2. /\ slot'[t].pc = "launched" /\ slot'[t].canceled = slot[t].canceled
          /\ slot'[t].cleanup = slot[t].cleanup /\ slot'[t].done = slot[t].done
          /\ slot'[t].ready = slot[t].ready /\ slot'[t].proc = slot[t].proc
      BY <1>2, <1>0, <2>3 DEF Go, Slot
    <3>3. Ending(t)' => slot[t].cleanup \/ group[t].missed
      BY <1>3, <1>4, <2>1 DEF AtWork
    <3>4. group[t].launches = 0
      BY <2>1 DEF OInv, Once, Launchable
    <3>5. run.pid \in 0..MaxBoots
      BY <1>0 DEF Places, Run
    <3>6. /\ group'[t].st = "up" /\ group'[t].by = run.pid /\ group'[t].launches = 1
          /\ group'[t].missed = group[t].missed
      BY <1>2, <2>3, <3>4, <3>5, SpawnedGroup
    <3>7. group'[t].by <= run.pid
      BY <3>5, <3>6
    <3> QED
      BY <1>0, <1>1, <2>1, <3>1, <3>2, <3>3, <3>6, <3>7, LaunchingRight DEF Underway, Attached
  <2> QED
    BY <1>7, <2>2, <2>3 DEF Launch
<1>8. CASE Register(t)
  <2>1. UNCHANGED <<pending, group>> /\ slot[t].pc = "launched"
    BY <1>8 DEF Register
  <2>3. /\ slot'[t].pc = "running" /\ slot'[t].proc /\ slot'[t].canceled = slot[t].canceled
        /\ slot'[t].cleanup = slot[t].cleanup /\ slot'[t].done = slot[t].done /\ slot'[t].ready
    BY <1>2, <1>0, <1>8 DEF Register, Slot
  <2>4. Ending(t)' => slot[t].cleanup \/ group[t].missed
    BY <1>3, <1>4, <2>1 DEF AtWork
  <2>5. group'[t].by <= run.pid /\ (group'[t].by # 0 => group'[t].launches # 0)
    BY <1>0, <2>1 DEF TaskRight, Grouped
  <2>6. group'[t].st = "orphan" => slot[t].canceled
    BY <1>0, <2>1 DEF TaskRight, SlotRight, Attached
  <2> QED
    BY <1>0, <1>1, <2>1, <2>3, <2>4, <2>5, <2>6, LaunchingRight DEF Underway, Attached
<1>9. CASE Collect(t)
  <2>1. slot[t].pc = "running" /\ group[t].st # "up"
    BY <1>9 DEF Collect
  <2>2. /\ slot'[t].pc \notin Underway /\ slot'[t].canceled = slot[t].canceled
        /\ slot[t].cleanup => slot'[t].cleanup
        /\ slot'[t].done = slot[t].done /\ slot'[t].ready = slot[t].ready
    <3>1. CASE slot' = [slot EXCEPT ![t] = [@ EXCEPT !.pc = "cancel", !.cleanup = TRUE]]
      BY <1>0, <1>2, <3>1 DEF Slot, Underway
    <3>2. CASE Go(t, "receipt") \/ Go(t, "nometa")
      BY <1>0, <1>2, <3>2 DEF Go, Slot, Underway
    <3> QED
      BY <1>9, <3>1, <3>2 DEF Collect
  <2>3. ~slot[t].done
    BY <1>0, <2>1 DEF TaskRight, SlotRight
  <2>4. /\ group'[t].by = group[t].by /\ group'[t].launches = group[t].launches
        /\ group'[t].missed = group[t].missed
        /\ group'[t].st \notin {"up", "orphan"} \/ group[t].missed
    <3>1. CASE slot[t].canceled /\ slot[t].cleanup
      <4>1. group' = group
        BY <1>9, <3>1 DEF Collect
      <4> QED
        BY <1>0, <2>1, <3>1, <4>1 DEF TaskRight, SlotRight
    <3>2. CASE slot[t].canceled /\ ~slot[t].cleanup
      <4>1. group' = Killed(t)
        BY <1>9, <3>2 DEF Collect
      <4>2. group' = [group EXCEPT ![t] = [group[t] EXCEPT !.st = IF @ \in {"up", "orphan"} THEN "gone" ELSE @]]
        BY <4>1 DEF Killed
      <4> QED
        BY <1>0, <1>2, <4>2 DEF Group
    <3>3. CASE ~slot[t].canceled
      <4>1. group' = group
        BY <1>9, <3>3 DEF Collect
      <4> QED
        BY <1>0, <2>1, <3>3, <4>1 DEF TaskRight, SlotRight, Attached
    <3> QED
      BY <3>1, <3>2, <3>3
  <2> QED
    BY <1>0, <1>1, <2>1, <2>2, <2>3, <2>4, LeavesRight
<1>10. CASE CloseByReceipt(t)
  <2>1. UNCHANGED group /\ slot[t].pc = "receipt" /\ (GoCanceled(t) \/ Go(t, "late") \/ Go(t, "end"))
    BY <1>10 DEF CloseByReceipt
  <2> QED
    BY <1>0, <1>1, <2>1, GoExits, ExitsRight
<1>11. CASE CloseEarly(t) \/ FinishCanceled(t)
  <2>1. UNCHANGED group /\ slot[t].pc \notin {"none", "launched", "running"} /\ Go(t, "end")
    BY <1>11 DEF CloseEarly, Closing, FinishCanceled
  <2> QED
    BY <1>0, <1>1, <2>1, GoExits, ExitsRight
<1>12. CASE EndRun(t)
  <2>1. /\ UNCHANGED group /\ slot[t].pc = "end"
        /\ slot' = [slot EXCEPT ![t] = [slot[t] EXCEPT !.pc = "none", !.ready = TRUE, !.done = TRUE]]
    BY <1>12 DEF EndRun
  <2>2. Exits(t)
    BY <1>0, <1>2, <2>1 DEF Exits, Slot, Underway
  <2> QED
    BY <1>0, <1>1, <2>1, <2>2, ExitsRight
<1> QED
  BY <1>5, <1>6, <1>7, <1>8, <1>9, <1>10, <1>11, <1>12 DEF Execute

\* The handler of SendMessage.
LEMMA SenderRight ==
  ASSUME OInv, LInv, StoreFree, NEW t \in Tasks, SendCheck(t) \/ SendCreate(t) \/ SendStart(t)
  PROVE  TaskRight(t)'
<1>0. Places /\ slot[t] \in Slot /\ group[t] \in Group /\ TaskRight(t) /\ Typed
  BY PlacesTyped DEF OInv, LInv, Places
<1>1. UNCHANGED <<rec, run, cancel, group>>
  BY DEF SendCheck, SendCreate, SendStart, disk
<1>2. slot \in [Tasks -> Slot] /\ sender \in [Tasks -> {"idle", "checked", "created"}]
  BY <1>0 DEF Places
<1>3. State(t)' = State(t) /\ (Ending(t) <=> State(t) \in FINAL)
  BY <1>1, EndingFree DEF State
<1>4. CASE SendCheck(t) \/ SendCreate(t)
  <2>1. UNCHANGED slot /\ (Ending(t)' <=> State(t) \in FINAL)
    <3>1. CASE SendCheck(t)
      BY <1>1, <3>1 DEF SendCheck, StoreFree, Ending, State
    <3>2. CASE SendCreate(t)
      BY <1>0, <1>1, <3>2, WorkingOwn DEF SendCreate
    <3> QED
      BY <1>4, <3>1, <3>2
  <2>2. sender'[t] = "created" =>
          /\ State(t) = "none" /\ pending' # <<>>
          /\ Head(pending').op = "record" /\ Head(pending').task = t
          /\ Head(pending').rec.state # "none"
    <3>1. CASE SendCheck(t)
      BY <1>2, <3>1 DEF SendCheck
    <3>2. CASE SendCreate(t) /\ Create(t) = <<>>
      BY <1>2, <3>2 DEF SendCreate
    <3>3. CASE SendCreate(t) /\ Create(t) # <<>>
      <4>1. /\ State(t) = "none"
            /\ Head(Create(t)) = RecordWrite(t, [NoRecord EXCEPT !.state = "SUBMITTED"])
        BY <3>3 DEF Create
      <4>2. Head(pending') = RecordWrite(t, [NoRecord EXCEPT !.state = "SUBMITTED"])
        BY <3>3, <4>1 DEF SendCreate
      <4> QED
        BY <3>3, <4>1, <4>2 DEF SendCreate, RecordWrite, NoRecord
    <3> QED
      BY <1>4, <3>1, <3>2, <3>3
  <2>3. Recorded(t)'
    BY <1>0, <1>1, <1>3, <2>1, <2>2 DEF TaskRight, Recorded
  <2>4. Fresh(t)'
    <3>1. State(t) = "none" => slot[t] = NoSlot
      BY <1>0 DEF TaskRight, Recorded
    <3> QED
      BY <2>1, <2>2, <3>1 DEF Fresh
  <2>5. SlotRight(slot[t], group[t])' /\ (\A c \in Callers : CancelRight(cancel[c][t], slot[t], group[t])') /\ Grouped(t)'
    BY <1>0, <1>1, <2>1 DEF TaskRight, SlotRight, CancelRight, Grouped, Alive, Running
  <2>6. Cleaned(t)' /\ Rounded(t)'
    BY <1>0, <1>1, <1>3, <2>1 DEF TaskRight, Cleaned, Rounded
  <2> QED
    BY <2>3, <2>4, <2>5, <2>6 DEF TaskRight
<1>5. CASE SendStart(t)
  <2>1. sender[t] = "created" /\ sender'[t] = "idle" /\ UNCHANGED pending
    BY <1>2, <1>5 DEF SendStart
  <2>2. State(t) # "none"
    BY <1>0, <2>1 DEF TaskRight, Recorded, StoreFree
  <2>3. Ending(t)' <=> State(t) \in FINAL
    BY <1>1, <2>1 DEF StoreFree, Ending, State
  <2>4. Recorded(t)' /\ Fresh(t)'
    BY <1>0, <1>1, <1>3, <2>1, <2>2 DEF TaskRight, Recorded, Fresh
  <2>5. CASE UNCHANGED slot
    <3>1. SlotRight(slot[t], group[t])' /\ (\A c \in Callers : CancelRight(cancel[c][t], slot[t], group[t])') /\ Grouped(t)'
      BY <1>0, <1>1, <2>5 DEF TaskRight, SlotRight, CancelRight, Grouped, Alive, Running
    <3>2. Cleaned(t)' /\ Rounded(t)'
      BY <1>0, <1>1, <1>3, <2>3, <2>5 DEF TaskRight, Cleaned, Rounded
    <3> QED
      BY <2>4, <3>1, <3>2 DEF TaskRight
  <2>6. CASE run.phase = "up" /\ slot[t].pc = "none"
    <3>1. slot[t] = NoSlot
      BY <1>0, <2>1, <2>6 DEF TaskRight, Fresh
    <3>2. slot' = [slot EXCEPT ![t] = [NoSlot EXCEPT !.pc = "validate"]]
      BY <1>5, <2>6 DEF SendStart, ShuttingDown
    <3>3. /\ slot'[t].pc = "validate" /\ ~slot'[t].ready /\ ~slot'[t].done
          /\ ~slot'[t].cleanup /\ ~slot'[t].canceled /\ ~slot'[t].proc
      BY <1>2, <3>2 DEF NoSlot
    <3>4. SlotRight(slot[t], group[t])'
      BY <3>3 DEF SlotRight, Attached, Underway
    <3>5. \A c \in Callers : CancelRight(cancel[c][t], slot[t], group[t])'
      <4>1. ASSUME NEW c \in Callers PROVE cancel[c][t] \notin {"ready", "kill", "wait"}
        BY <1>0, <3>1 DEF TaskRight, CancelRight, NoSlot
      <4> QED
        BY <1>1, <4>1 DEF CancelRight
    <3>6. Cleaned(t)'
      BY <3>3 DEF Cleaned, AtWork
    <3>7. Rounded(t)'
      BY <1>1, <2>6 DEF Rounded
    <3>8. Grouped(t)'
      BY <1>0, <1>1, <2>6 DEF TaskRight, Grouped, Alive, Running, Attached
    <3> QED
      BY <2>4, <3>4, <3>5, <3>6, <3>7, <3>8 DEF TaskRight
  <2> QED
    BY <1>5, <2>5, <2>6 DEF SendStart, ShuttingDown
<1> QED
  BY <1>4, <1>5

\* A caller of cancel, by what it finds and does.
LEMMA CallerRight ==
  ASSUME Places, StoreFree, NEW t \in Tasks, TaskRight(t), NEW c \in Callers, cancel[c][t] # "idle",
         UNCHANGED <<rec, run, sender>>,
         \A d \in Callers \ {c} : cancel'[d][t] = cancel[d][t],
         slot'[t].pc = slot[t].pc, slot[t].canceled => slot'[t].canceled,
         slot[t].cleanup => slot'[t].cleanup, slot[t].ready => slot'[t].ready,
         slot'[t] = slot[t] \/ slot[t] # NoSlot,
         group'[t].by = group[t].by, group'[t].launches = group[t].launches,
         group'[t].st = group[t].st \/ group'[t].st = "gone",
         group[t].missed => group'[t].missed,
         SlotRight(slot'[t], group'[t]), CancelRight(cancel'[c][t], slot'[t], group'[t]),
         State(t) \in FINAL => Ending(t)',
         Ending(t)' => State(t) \in FINAL \/ slot[t].pc = "none" \/ slot'[t].cleanup \/ group'[t].missed
  PROVE  TaskRight(t)'
<1>1. State(t)' = State(t) /\ State(t) # "none" /\ (Ending(t) <=> State(t) \in FINAL)
  BY EndingFree DEF TaskRight, Recorded, State
<1>2. \A d \in Callers : CancelRight(cancel[d][t], slot[t], group[t])'
  BY DEF TaskRight, CancelRight
<1>3. Recorded(t)' /\ Fresh(t)'
  BY <1>1 DEF TaskRight, Recorded, Fresh
<1>4. Cleaned(t)'
  BY <1>1 DEF TaskRight, Cleaned, AtWork
<1>5. Rounded(t)'
  BY <1>1 DEF TaskRight, Rounded
<1>6. Grouped(t)'
  BY DEF TaskRight, Grouped, Alive, Running
<1> QED
  BY <1>2, <1>3, <1>4, <1>5, <1>6 DEF TaskRight

LEMMA ToMoves ==
  ASSUME Places, NEW t \in Tasks, NEW c \in Callers, NEW pc, To(c, t, pc)
  PROVE  /\ cancel'[c][t] = pc /\ \A d \in Callers \ {c} : cancel'[d][t] = cancel[d][t]
         /\ \A u \in Tasks \ {t} : \A d \in Callers : cancel'[d][u] = cancel[d][u]
BY DEF Places, To

\* Executor.cancel.
LEMMA CancelStepRight ==
  ASSUME OInv, LInv, StoreFree, NEW t \in Tasks, NEW c \in Callers, CancelStep(c, t)
  PROVE  TaskRight(t)'
<1>0. Places /\ slot[t] \in Slot /\ group[t] \in Group /\ TaskRight(t)
  BY PlacesTyped DEF OInv, LInv, Places
<1>1. UNCHANGED <<rec, run, sender>> /\ cancel[c][t] # "idle"
  BY DEF CancelStep, CancelGet, CancelMark, CancelNoSlot, CancelReady, CancelKill, CancelWait, disk
<1>2. slot \in [Tasks -> Slot] /\ group \in [Tasks -> Group]
  BY <1>0 DEF Places
<1>3. State(t) \in FINAL => Ending(t)'
  BY <1>1 DEF Ending, State
<1>4. UNCHANGED pending => (Ending(t)' <=> State(t) \in FINAL)
  BY <1>1 DEF StoreFree, Ending, State
<1>5. SlotRight(slot[t], group[t]) /\ CancelRight(cancel[c][t], slot[t], group[t])
  BY <1>0 DEF TaskRight
<1>6. CASE CancelGet(c, t)
  <2>1. UNCHANGED <<slot, group, pending>>
    BY <1>6 DEF CancelGet
  <2>2. PICK pc \in {"mark", "idle"} : To(c, t, pc)
    BY <1>6 DEF CancelGet
  <2>3. CancelRight(pc, slot[t], group[t])
    BY DEF CancelRight
  <2> QED
    BY <1>0, <1>1, <1>3, <1>4, <1>5, <2>1, <2>2, <2>3, ToMoves, CallerRight
<1>7. CASE CancelMark(c, t)
  <2>1. UNCHANGED <<group, pending>>
    BY <1>7 DEF CancelMark
  <2>2. CASE slot[t].pc = "none"
    <3>1. UNCHANGED slot /\ To(c, t, "noslot")
      BY <1>7, <2>2 DEF CancelMark
    <3>2. CancelRight("noslot", slot[t], group[t])
      BY DEF CancelRight
    <3> QED
      BY <1>0, <1>1, <1>3, <1>4, <1>5, <2>1, <2>2, <3>1, <3>2, ToMoves, CallerRight
  <2>3. CASE slot[t].pc # "none"
    <3>1. /\ To(c, t, "ready")
          /\ slot' = [slot EXCEPT ![t].canceled = TRUE, ![t].reason = IF @ = "none" THEN c ELSE @]
      BY <1>7, <2>3 DEF CancelMark
    <3>2. /\ slot'[t].pc = slot[t].pc /\ slot'[t].canceled /\ slot'[t].cleanup = slot[t].cleanup
          /\ slot'[t].proc = slot[t].proc /\ slot'[t].ready = slot[t].ready /\ slot'[t].done = slot[t].done
      BY <1>0, <1>2, <3>1 DEF Slot
    <3>3. SlotRight(slot'[t], group'[t])
      BY <1>5, <2>1, <3>2 DEF SlotRight
    <3>4. CancelRight("ready", slot'[t], group'[t])
      BY <3>2 DEF CancelRight
    <3>5. /\ cancel'[c][t] = "ready" /\ \A d \in Callers \ {c} : cancel'[d][t] = cancel[d][t]
          /\ CancelRight(cancel'[c][t], slot'[t], group'[t])
      BY <1>0, <3>1, <3>4, ToMoves
    <3>6. slot[t] # NoSlot
      BY <2>3 DEF NoSlot
    <3> QED
      BY <1>0, <1>1, <1>3, <1>4, <2>1, <3>2, <3>3, <3>5, <3>6, CallerRight
  <2> QED
    BY <2>2, <2>3
<1>8. CASE CancelNoSlot(c, t)
  <2>1. UNCHANGED slot /\ To(c, t, "idle") /\ group' = Missed(t, slot[t].pc # "none")
    BY <1>8 DEF CancelNoSlot
  <2>2. /\ group'[t].by = group[t].by /\ group'[t].launches = group[t].launches
        /\ group'[t].st = group[t].st /\ group'[t].missed = (group[t].missed \/ slot[t].pc # "none")
    BY <1>2, <2>1, MissedGroup
  <2>3. CancelRight("idle", slot'[t], group'[t])
    BY DEF CancelRight
  <2>4. SlotRight(slot'[t], group'[t])
    BY <1>5, <2>1, <2>2 DEF SlotRight
  <2>5. /\ cancel'[c][t] = "idle" /\ \A d \in Callers \ {c} : cancel'[d][t] = cancel[d][t]
    BY <1>0, <2>1, ToMoves
  <2> QED
    BY <1>0, <1>1, <1>3, <2>1, <2>2, <2>3, <2>4, <2>5, CallerRight
<1>9. CASE CancelReady(c, t)
  <2>1. UNCHANGED <<slot, pending>> /\ To(c, t, "kill") /\ group' = Missed(t, ~slot[t].ready)
    BY <1>9 DEF CancelReady
  <2>2. slot[t].canceled
    BY <1>5, <1>9 DEF CancelReady, CancelRight
  <2>3. /\ group'[t].by = group[t].by /\ group'[t].launches = group[t].launches
        /\ group'[t].st = group[t].st /\ group'[t].missed = (group[t].missed \/ ~slot[t].ready)
    <3>1. (~slot[t].ready) \in BOOLEAN
      OBVIOUS
    <3> QED
      BY <1>2, <2>1, <3>1, MissedGroup
  <2>4. CancelRight("kill", slot'[t], group'[t])
    BY <2>1, <2>2, <2>3 DEF CancelRight
  <2>5. SlotRight(slot'[t], group'[t])
    BY <1>5, <2>1, <2>3 DEF SlotRight
  <2>6. /\ cancel'[c][t] = "kill" /\ \A d \in Callers \ {c} : cancel'[d][t] = cancel[d][t]
    BY <1>0, <2>1, ToMoves
  <2> QED
    BY <1>0, <1>1, <1>3, <1>4, <2>1, <2>3, <2>4, <2>5, <2>6, CallerRight
<1>10. CASE CancelKill(c, t)
  <2>1. UNCHANGED pending /\ To(c, t, "wait") /\ cancel[c][t] = "kill"
    BY <1>10 DEF CancelKill
  <2>2. slot[t].canceled /\ (slot[t].ready \/ group[t].missed)
    BY <1>5, <2>1 DEF CancelRight
  <2>3. slot' = [slot EXCEPT ![t] = [slot[t] EXCEPT !.cleanup = TRUE]]
    BY <1>10 DEF CancelKill
  <2>4. /\ slot'[t].pc = slot[t].pc /\ slot'[t].canceled = slot[t].canceled /\ slot'[t].cleanup
        /\ slot'[t].proc = slot[t].proc /\ slot'[t].ready = slot[t].ready /\ slot'[t].done = slot[t].done
    BY <1>0, <1>2, <2>3 DEF Slot
  <2>5. /\ group'[t].by = group[t].by /\ group'[t].launches = group[t].launches
        /\ group'[t].st = group[t].st \/ group'[t].st = "gone"
        /\ slot[t].proc => group'[t].st \notin {"up", "orphan"}
        /\ group'[t].missed = group[t].missed
    <3>1. CASE ~slot[t].proc
      BY <1>10, <3>1 DEF CancelKill
    <3>2. CASE slot[t].proc
      <4>1. group' = [group EXCEPT ![t] = [group[t] EXCEPT !.st = IF @ \in {"up", "orphan"} THEN "gone" ELSE @]]
        BY <1>10, <3>2 DEF CancelKill, Killed
      <4> QED
        BY <1>0, <1>2, <4>1 DEF Group
    <3> QED
      BY <3>1, <3>2
  <2>6. SlotRight(slot'[t], group'[t])
    BY <1>5, <2>2, <2>4, <2>5 DEF SlotRight
  <2>7. CancelRight("wait", slot'[t], group'[t])
    BY <2>2, <2>4 DEF CancelRight
  <2>8. /\ cancel'[c][t] = "wait" /\ \A d \in Callers \ {c} : cancel'[d][t] = cancel[d][t]
        /\ CancelRight(cancel'[c][t], slot'[t], group'[t])
    BY <1>0, <2>1, <2>7, ToMoves
  <2>9. slot[t] # NoSlot
    BY <2>2 DEF NoSlot
  <2> QED
    BY <1>0, <1>1, <1>3, <2>4, <2>5, <2>6, <2>8, <2>9, CallerRight
<1>11. CASE CancelWait(c, t)
  <2>1. UNCHANGED <<slot, group>> /\ To(c, t, "idle") /\ slot[t].cleanup
    BY <1>5, <1>11 DEF CancelWait, CancelRight
  <2>2. CancelRight("idle", slot[t], group[t])
    BY DEF CancelRight
  <2> QED
    BY <1>0, <1>1, <1>3, <1>5, <2>1, <2>2, ToMoves, CallerRight
<1> QED
  BY <1>6, <1>7, <1>8, <1>9, <1>10, <1>11 DEF CancelStep

\* A client cancels, its message answered or not.
LEMMA CancelTaskRight ==
  ASSUME OInv, LInv, StoreFree, NEW t \in Tasks, CancelTask(t)
  PROVE  TaskRight(t)'
<1>0. Places /\ TaskRight(t)
  BY PlacesTyped DEF OInv, LInv
<1>1. UNCHANGED <<rec, run, sender, slot, group, pending>> /\ To("cancel_task", t, "mark")
  BY DEF CancelTask, disk
<1>2. State(t) # "none"
  BY DEF CancelTask, ACTIVE
<1>3. /\ cancel'["cancel_task"][t] = "mark"
      /\ \A d \in Callers \ {"cancel_task"} : cancel'[d][t] = cancel[d][t]
  BY <1>0, <1>1, ToMoves DEF Callers
<1>4. State(t)' = State(t) /\ (Ending(t)' <=> Ending(t))
  BY <1>1 DEF State, Ending
<1>5. \A d \in Callers : CancelRight(cancel[d][t], slot[t], group[t])'
  BY <1>0, <1>1, <1>3 DEF TaskRight, CancelRight
<1>6. Recorded(t)' /\ Fresh(t)'
  BY <1>0, <1>1, <1>2, <1>4 DEF TaskRight, Recorded, Fresh
<1>7. Rounded(t)'
  BY <1>0, <1>1, <1>4 DEF TaskRight, Rounded
<1>8. SlotRight(slot[t], group[t])' /\ Cleaned(t)' /\ Grouped(t)'
  BY <1>0, <1>1, <1>4 DEF TaskRight, SlotRight, Cleaned, Grouped, Alive, Running
<1> QED
  BY <1>5, <1>6, <1>7, <1>8 DEF TaskRight

\* The threads of a task touch nothing of another task.
LEMMA ThreadFrame ==
  ASSUME Places, NEW t \in Tasks, SendCheck(t) \/ CancelTask(t) \/ Thread(t), NEW u \in Tasks, u # t
  PROVE  /\ slot'[u] = slot[u] /\ group'[u] = group[u] /\ sender'[u] = sender[u]
         /\ \A d \in Callers : cancel'[d][u] = cancel[d][u]
<1> USE DEF Places
<1>1. CASE SendCheck(t) \/ SendCreate(t) \/ SendStart(t)
  BY <1>1 DEF SendCheck, SendCreate, SendStart
<1>2. CASE CancelTask(t)
  <2>1. UNCHANGED <<slot, group, sender>> /\ To("cancel_task", t, "mark")
    BY <1>2 DEF CancelTask
  <2> QED
    BY <2>1, ToMoves DEF Callers
<1>3. CASE Execute(t)
  BY <1>3 DEF Execute, ValidateEnvelope, BeginWork, Launch, Register, Collect, CloseByReceipt,
     CloseEarly, FinishCanceled, EndRun, Go, GoCanceled, Killed, Spawned
<1>4. ASSUME NEW c \in Callers, CancelStep(c, t)
      PROVE  /\ slot'[u] = slot[u] /\ group'[u] = group[u] /\ sender'[u] = sender[u]
             /\ \A d \in Callers : cancel'[d][u] = cancel[d][u]
  <2>1. slot'[u] = slot[u] /\ group'[u] = group[u] /\ sender'[u] = sender[u]
    BY <1>4 DEF CancelStep, CancelGet, CancelMark, CancelNoSlot, CancelReady, CancelKill, CancelWait,
       Killed, Missed
  <2>2. \E pc : To(c, t, pc)
    BY <1>4 DEF CancelStep, CancelGet, CancelMark, CancelNoSlot, CancelReady, CancelKill, CancelWait
  <2> QED
    BY <2>1, <2>2, ToMoves
<1> QED
  BY <1>1, <1>2, <1>3, <1>4 DEF Thread

\* The run and the process that is starting are as they were, and the runner is
\* still there.
LEMMA RunnerStays ==
  ASSUME LInv, UNCHANGED <<run, boot>>, Alive \/ UNCHANGED <<rec, group>>
  PROVE  Numbered' /\ LeavesNothing'
BY DEF LInv, Numbered, LeavesNothing, Alive, Running, State

LEMMA ThreadRight ==
  ASSUME SInv, LInv, StoreFree, NEW t \in Tasks, SendCheck(t) \/ CancelTask(t) \/ Thread(t)
  PROVE  LInv'
<1>0. Places /\ Typed /\ OInv
  BY PlacesTyped DEF SInv, OInv
<1>1. UNCHANGED <<rec, run, boot>> /\ Alive
  BY ThreadsKeepOthers, ThreadsAreAlive DEF SInv, disk
<1>2. TaskRight(t)'
  <2>1. ASSUME NEW c \in Callers, CancelStep(c, t) PROVE TaskRight(t)'
    BY <1>0, <2>1, CancelStepRight
  <2>2. CASE Execute(t)
    BY <1>0, <2>2, ExecuteRight
  <2>3. CASE CancelTask(t)
    BY <1>0, <2>3, CancelTaskRight
  <2>4. CASE SendCheck(t) \/ SendCreate(t) \/ SendStart(t)
    BY <1>0, <2>4, SenderRight
  <2> QED
    BY <2>1, <2>2, <2>3, <2>4 DEF Thread
<1>3. ASSUME NEW u \in Tasks, u # t PROVE TaskRight(u)'
  <2>1. \A i \in 1..Len(pending') : pending'[i].task = t
    BY <1>0, ThreadOwn
  <2>2. TaskRight(u)
    BY DEF LInv
  <2>3. /\ slot'[u] = slot[u] /\ group'[u] = group[u] /\ sender'[u] = sender[u]
        /\ \A d \in Callers : cancel'[d][u] = cancel[d][u]
    BY <1>0, <1>3, ThreadFrame
  <2> QED
    BY <1>1, <1>3, <2>1, <2>2, <2>3, OthersRight
<1> QED
  BY <1>1, <1>2, <1>3, RunnerStays DEF LInv

\* By the contract a closed task stays as it is, and a record is not withdrawn.
LEMMA StatesStay ==
  ASSUME [Contract!Next]_(Contract!contractVars), NEW u \in Tasks
  PROVE  /\ State(u) \in FINAL => State(u)' = State(u)
         /\ State(u) # "none" => State(u)' # "none"
<1> DEFINE task == [t \in Tasks |-> [state |-> rec[t].state, reason |-> rec[t].reason,
                                     artifact |-> rec[t].artifact]]
<1>1. task[u].state = State(u) /\ task'[u].state = State(u)'
  BY DEF State
<1>2. Contract!FINAL \cap (ACTIVE \cup {"none"}) = {} /\ FINAL = Contract!FINAL /\ "none" \notin FINAL \cup ACTIVE
  BY DEF FINAL, ACTIVE, Contract!FINAL
<1>3. task \in [Tasks -> [state : {rec[t].state : t \in Tasks}, reason : {rec[t].reason : t \in Tasks},
                          artifact : {rec[t].artifact : t \in Tasks}]]
  OBVIOUS
<1>4. CASE UNCHANGED Contract!contractVars
  BY <1>1, <1>4 DEF Contract!contractVars
<1>5. ASSUME NEW t \in Tasks, Contract!Accept(t)
      PROVE  (State(u) \in FINAL => State(u)' = State(u)) /\ (State(u) # "none" => State(u)' # "none")
  <2>1. task[t].state = "none" /\ task' = [task EXCEPT ![t] = [state |-> "SUBMITTED", reason |-> "none", artifact |-> FALSE]]
    BY <1>5 DEF Contract!Accept
  <2> HIDE DEF task
  <2> QED
    BY <1>1, <1>2, <1>3, <2>1
<1>6. ASSUME NEW t \in Tasks, Contract!Work(t)
      PROVE  (State(u) \in FINAL => State(u)' = State(u)) /\ (State(u) # "none" => State(u)' # "none")
  <2>1. task[t].state = "SUBMITTED" /\ task' = [task EXCEPT ![t] = [task[t] EXCEPT !.state = "WORKING"]]
    BY <1>6 DEF Contract!Work
  <2>2. "SUBMITTED" \notin FINAL
    BY DEF FINAL
  <2> HIDE DEF task
  <2> QED
    BY <1>1, <1>2, <1>3, <2>1, <2>2
<1>7. ASSUME NEW t \in Tasks, Contract!StartProcess(t) PROVE task' = task
  BY <1>7 DEF Contract!StartProcess
<1>8. ASSUME NEW t \in Tasks, NEW s \in Contract!FINAL, NEW reason, NEW a,
             Contract!Close(t, s, reason, a)
      PROVE  (State(u) \in FINAL => State(u)' = State(u)) /\ (State(u) # "none" => State(u)' # "none")
  <2>1. task[t].state \in ACTIVE /\ task' = [task EXCEPT ![t] = [state |-> s, reason |-> reason, artifact |-> a]]
    BY <1>8 DEF Contract!Close, Contract!ACTIVE, ACTIVE
  <2> HIDE DEF task
  <2> QED
    BY <1>1, <1>2, <1>3, <2>1
<1> QED
  BY <1>1, <1>4, <1>5, <1>6, <1>7, <1>8 DEF Contract!Next

\* A write of the store: what is being made final becomes so.
LEMMA StoreWriteRight ==
  ASSUME ~Doubles, SInv, LInv, StoreWrite
  PROVE  LInv'
<1>0. Places /\ Alive
  BY PlacesTyped DEF SInv, OInv, Quiet, StoreWrite
<1>1. pending # <<>> /\ pending' = Tail(pending) /\ Apply(Head(pending))
  BY DEF StoreWrite
<1>2. UNCHANGED <<run, boot, sender, slot, cancel, group>>
  BY DEF StoreWrite, memory
<1>3. pending \in Seq(Write) /\ rec \in [Tasks -> Record]
  BY <1>0 DEF Places
<1>4. ASSUME NEW u \in Tasks PROVE TaskRight(u)'
  <2>1. (State(u) \in FINAL => State(u)' = State(u)) /\ (State(u) # "none" => State(u)' # "none")
    <3>1. [Contract!Next]_(Contract!contractVars)
      BY StoreWriteMaps DEF Maps
    <3> QED
      BY <3>1, StatesStay
  <2>2. Head(pending) = pending[1] /\ Len(pending) >= 1 /\ Len(pending') = Len(pending) - 1
        /\ \A i \in 1..Len(pending') : pending'[i] = pending[i + 1]
    BY <1>1, <1>3
  <2>3. CASE Head(pending).op = "record" /\ Head(pending).task = u
    <3>1. State(u)' = Head(pending).rec.state
      BY <1>1, <1>3, <2>3 DEF Apply, State
    <3>2. Ending(u) => Ending(u)'
      <4>1. ASSUME NEW i \in 1..Len(pending), i # 1 PROVE i - 1 \in 1..Len(pending') /\ pending'[i - 1] = pending[i]
        BY <1>3, <2>2, <4>1
      <4> QED
        BY <2>1, <2>2, <3>1, <4>1 DEF Ending
    <3>3. Ending(u)' => Ending(u)
      <4>1. ASSUME NEW i \in 1..Len(pending') PROVE i + 1 \in 1..Len(pending) /\ pending'[i] = pending[i + 1]
        BY <1>3, <2>2, <4>1
      <4>2. 1 \in 1..Len(pending)
        BY <1>3, <2>2
      <4> QED
        BY <2>2, <2>3, <3>1, <4>1, <4>2 DEF Ending
    <3>4. Recorded(u)'
      BY <1>2, <1>4, <2>1, <3>1 DEF LInv, TaskRight, Recorded
    <3> QED
      BY <1>2, <1>4, <2>1, <3>2, <3>3, <3>4, UntouchedRight DEF LInv
  <2>4. CASE ~(Head(pending).op = "record" /\ Head(pending).task = u)
    <3>1. State(u)' = State(u)
      BY <1>1, <1>3, <2>4 DEF Apply, State
    <3>2. Ending(u) => Ending(u)'
      <4>1. ASSUME NEW i \in 1..Len(pending), i # 1 PROVE i - 1 \in 1..Len(pending') /\ pending'[i - 1] = pending[i]
        BY <1>3, <2>2, <4>1
      <4>2. ASSUME NEW i \in 1..Len(pending), pending[i].op = "record", pending[i].task = u,
                   pending[i].rec.state \in FINAL
            PROVE  \E k \in 1..Len(pending') :
                     pending'[k].op = "record" /\ pending'[k].task = u /\ pending'[k].rec.state \in FINAL
        <5>1. i # 1
          BY <2>2, <2>4, <4>2
        <5> QED
          BY <4>1, <4>2, <5>1
      <4> QED
        BY <3>1, <4>2 DEF Ending
    <3>3. Ending(u)' => Ending(u)
      <4>1. ASSUME NEW i \in 1..Len(pending') PROVE i + 1 \in 1..Len(pending) /\ pending'[i] = pending[i + 1]
        BY <1>3, <2>2, <4>1
      <4> QED
        BY <3>1, <4>1 DEF Ending
    <3>4. Recorded(u)'
      BY <1>2, <1>4, <2>4, <3>1 DEF LInv, TaskRight, Recorded
    <3> QED
      BY <1>2, <1>4, <2>1, <3>2, <3>3, <3>4, UntouchedRight DEF LInv
  <2> QED
    BY <2>3, <2>4
<1> QED
  BY <1>0, <1>2, <1>4, RunnerStays DEF LInv

\* A task that no thread of the runner has.
LEMMA IdleRight ==
  ASSUME NEW u \in Tasks, run'.phase \notin {"cancelling", "reaping"},
         slot'[u].pc = "none", sender'[u] = "idle", \A c \in Callers : cancel'[c][u] = "idle",
         slot'[u] # NoSlot => State(u)' # "none",
         group'[u].by <= run'.pid, group'[u].by # 0 => group'[u].launches # 0,
         ~Alive' \/ group'[u].by # run'.pid
  PROVE  TaskRight(u)'
<1>1. SlotRight(slot[u], group[u])' /\ (\A c \in Callers : CancelRight(cancel[c][u], slot[u], group[u])')
  BY DEF SlotRight, CancelRight, Attached, Underway
<1>2. Recorded(u)' /\ Fresh(u)'
  BY DEF Recorded, Fresh
<1>3. Cleaned(u)' /\ Rounded(u)' /\ Grouped(u)'
  BY DEF Cleaned, Rounded, Grouped, AtWork
<1> QED
  BY <1>1, <1>2, <1>3 DEF TaskRight

\* What changes nothing of the tasks.
LEMMA FrameRight ==
  ASSUME LInv, UNCHANGED <<rec, pending, run, sender, slot, cancel, group>>, Numbered'
  PROVE  LInv'
<1>1. LeavesNothing'
  BY DEF LInv, LeavesNothing, Running, State
<1>2. ASSUME NEW u \in Tasks PROVE TaskRight(u)'
  <2>1. TaskRight(u) /\ (Ending(u)' <=> Ending(u)) /\ State(u)' = State(u)
    BY DEF LInv, Ending, State
  <2>2. Recorded(u)'
    BY <2>1 DEF TaskRight, Recorded
  <2> QED
    BY <2>1, <2>2, UntouchedRight
<1> QED
  BY <1>1, <1>2 DEF LInv

\* A process group may end by itself, and leave members of the group behind only
\* when its task was cancelled.
LEMMA LeaderRight ==
  ASSUME Places, LInv, NEW t \in Tasks, LeaderExits(t)
  PROVE  LInv'
<1>1. UNCHANGED <<rec, pending, run, boot, sender, slot, cancel>> /\ group[t].st = "up"
  BY DEF LeaderExits, disk, memory
<1>2. group \in [Tasks -> Group]
  BY DEF Places
<1>3. /\ group'[t].by = group[t].by /\ group'[t].launches = group[t].launches
      /\ group'[t].missed = group[t].missed
      /\ group'[t].st = "gone" \/ (group'[t].st = "orphan" /\ slot[t].canceled)
      /\ \A u \in Tasks \ {t} : group'[u] = group[u]
  <2>1. PICK st \in {"gone"} \cup (IF slot[t].canceled THEN {"orphan"} ELSE {}) :
          group' = [group EXCEPT ![t] = [group[t] EXCEPT !.st = st]]
    BY DEF LeaderExits
  <2> QED
    BY <1>2, <2>1 DEF Group
<1>4. \A u \in Tasks : (Ending(u)' <=> Ending(u)) /\ State(u)' = State(u)
  BY <1>1 DEF Ending, State
<1>5. \A u \in Tasks : Recorded(u)'
  BY <1>1, <1>4 DEF LInv, TaskRight, Recorded
<1>6. ASSUME NEW u \in Tasks, u # t PROVE TaskRight(u)'
  BY <1>1, <1>3, <1>4, <1>5, <1>6, UntouchedRight DEF LInv
<1>7. TaskRight(t)'
  <2>1. TaskRight(t)
    BY DEF LInv
  <2>2. SlotRight(slot[t], group[t])'
    BY <1>1, <1>3, <2>1 DEF TaskRight, SlotRight
  <2>3. (\A c \in Callers : CancelRight(cancel[c][t], slot[t], group[t])') /\ Fresh(t)' /\ Cleaned(t)' /\ Rounded(t)'
    BY <1>1, <1>3, <1>4, <2>1 DEF TaskRight, CancelRight, Fresh, Cleaned, Rounded
  <2>4. Grouped(t)'
    BY <1>1, <1>3, <2>1 DEF TaskRight, Grouped, Alive, Running
  <2> QED
    BY <1>5, <2>2, <2>3, <2>4 DEF TaskRight
<1>8. Numbered' /\ LeavesNothing'
  <2>1. \A u \in Tasks : /\ group'[u].by = group[u].by /\ group'[u].missed = group[u].missed
                         /\ Running(u)' => Running(u)
    BY <1>1, <1>3 DEF Running
  <2> QED
    BY <1>1, <1>4, <2>1 DEF LInv, Numbered, LeavesNothing
<1> QED
  BY <1>6, <1>7, <1>8 DEF LInv

\* The processes that start, while no runner is alive.
LEMMA BootRight ==
  ASSUME ~Doubles, SInv, LInv,
         BootStart \/ BootWrite \/ BootOwn \/ BootCrash \/ \E t \in Tasks : BootRead(t)
  PROVE  LInv'
<1>0. Places /\ run \in Run /\ boot \in Boot /\ Numbered
  BY PlacesTyped DEF SInv, OInv, Places, LInv
<1>1. CASE BootStart
  <2>1. Numbered'
    BY <1>0, <1>1 DEF BootStart, Numbered, Boot, Run
  <2> QED
    BY <1>1, <2>1, FrameRight DEF BootStart, disk, memory
<1>2. CASE BootCrash \/ \E t \in Tasks : BootRead(t)
  <2>1. /\ UNCHANGED <<rec, pending, run, sender, slot, cancel, group>>
        /\ boot'.last = boot.last /\ (boot'.pid = 0 \/ boot'.pid = boot.pid)
    <3>1. CASE BootCrash
      BY <1>0, <3>1 DEF BootCrash, BootOver, Boot, disk, memory
    <3>2. ASSUME NEW t \in Tasks, BootRead(t)
          PROVE  /\ UNCHANGED <<rec, pending, run, sender, slot, cancel, group>>
                 /\ boot'.last = boot.last /\ boot'.pid = boot.pid
      <4>1. UNCHANGED <<rec, pending, run, sender, slot, cancel, group>>
        BY <3>2 DEF BootRead, disk, memory
      <4>2. PICK todo, writes : boot' = [boot EXCEPT !.todo = todo, !.writes = writes]
        BY <3>2 DEF BootRead
      <4>3. boot'.last = boot.last /\ boot'.pid = boot.pid
        BY <1>0, <4>2 DEF Boot
      <4> QED
        BY <4>1, <4>3
    <3> QED
      BY <1>2, <3>1, <3>2
  <2>2. Numbered'
    BY <1>0, <2>1 DEF Numbered
  <2> QED
    BY <2>1, <2>2, FrameRight
<1>3. ASSUME BootWrite \/ BootOwn
      PROVE  /\ ~Alive /\ run.pid < boot.pid /\ boot.pid <= boot.last
             /\ UNCHANGED <<pending, sender, slot, cancel, group>>
             /\ \A u \in Tasks : /\ slot[u].pc = "none" /\ sender[u] = "idle"
                                 /\ \A c \in Callers : cancel[c][u] = "idle"
             /\ \A u \in Tasks : /\ slot[u] # NoSlot => State(u) # "none"
                                 /\ group[u].by <= run.pid /\ (group[u].by # 0 => group[u].launches # 0)
  <2>1. boot.pid # 0 /\ ~Alive /\ UNCHANGED <<pending, sender, slot, cancel, group>>
    BY <1>3 DEF BootWrite, BootOwn, SInv, Single, memory
  <2>2. run.pid < boot.pid /\ boot.pid <= boot.last
    BY <1>0, <2>1 DEF Numbered
  <2>3. \A u \in Tasks : /\ slot[u].pc = "none" /\ sender[u] = "idle"
                         /\ \A c \in Callers : cancel[c][u] = "idle"
    BY <2>1 DEF SInv, Quiet
  <2>4. \A u \in Tasks : /\ slot[u] # NoSlot => State(u) # "none"
                         /\ group[u].by <= run.pid /\ (group[u].by # 0 => group[u].launches # 0)
    BY DEF LInv, TaskRight, Recorded, Grouped
  <2> QED
    BY <2>1, <2>2, <2>3, <2>4
<1>4. CASE BootWrite
  <2>1. UNCHANGED run /\ boot'.pid = boot.pid /\ boot'.last = boot.last
    BY <1>0, <1>4 DEF BootWrite, Boot
  <2>2. \A u \in Tasks : (State(u) \in FINAL => State(u)' = State(u)) /\ (State(u) # "none" => State(u)' # "none")
    <3>1. [Contract!Next]_(Contract!contractVars)
      BY <1>4, BootWriteMaps DEF Maps
    <3> QED
      BY <3>1, StatesStay
  <2>3. ~Alive' /\ run'.phase \notin {"cancelling", "reaping"}
    BY <1>3, <1>4, <2>1 DEF Alive
  <2>4. ASSUME NEW u \in Tasks PROVE TaskRight(u)'
    BY <1>3, <1>4, <2>1, <2>2, <2>3, IdleRight
  <2>5. Numbered'
    BY <1>0, <2>1 DEF Numbered
  <2>6. LeavesNothing'
    BY <1>3, <1>4, <2>1, <2>2 DEF LInv, LeavesNothing, Running
  <2> QED
    BY <2>4, <2>5, <2>6 DEF LInv
<1>5. CASE BootOwn
  <2>1. /\ run' = [pid |-> boot.pid, phase |-> "up", round |-> 1, active |-> {}]
        /\ UNCHANGED rec /\ boot'.pid = 0 /\ boot'.last = boot.last
    BY <1>0, <1>3, <1>5 DEF BootOwn, BootOver, Boot
  <2>2. run'.pid = boot.pid /\ run'.phase = "up"
    BY <2>1
  <2>3. Numbered' /\ LeavesNothing'
    BY <1>3, <1>5, <2>1, <2>2 DEF Numbered, LeavesNothing
  <2>4. ASSUME NEW u \in Tasks PROVE TaskRight(u)'
    <3>1. group[u].by <= boot.pid /\ group[u].by # boot.pid
      BY <1>0, <1>3, <1>5 DEF Places, Group, Run, Boot
    <3>2. State(u)' = State(u)
      BY <2>1 DEF State
    <3> QED
      BY <1>3, <1>5, <2>2, <3>1, <3>2, IdleRight
  <2> QED
    BY <2>3, <2>4 DEF LInv
<1> QED
  BY <1>1, <1>2, <1>4, <1>5

\* The runner stops accepting tasks, or begins its second round.
LEMMA ClosingRight ==
  ASSUME Places, LInv, Alive, UNCHANGED <<rec, pending, boot, sender, slot, cancel, group>>,
         run'.phase = "closing", run'.pid = run.pid
  PROVE  LInv'
<1>1. ASSUME NEW u \in Tasks PROVE TaskRight(u)'
  <2>1. TaskRight(u) /\ (Ending(u)' <=> Ending(u)) /\ State(u)' = State(u)
    BY DEF LInv, Ending, State
  <2>2. SlotRight(slot[u], group[u])' /\ (\A c \in Callers : CancelRight(cancel[c][u], slot[u], group[u])')
    BY <2>1 DEF TaskRight, SlotRight, CancelRight
  <2>3. Recorded(u)' /\ Fresh(u)' /\ Rounded(u)'
    BY <2>1 DEF TaskRight, Recorded, Fresh, Rounded
  <2>4. Cleaned(u)' /\ Grouped(u)'
    BY <2>1 DEF TaskRight, Cleaned, Grouped, Alive, Running
  <2> QED
    BY <2>2, <2>3, <2>4 DEF TaskRight
<1>2. Numbered' /\ LeavesNothing'
  BY DEF LInv, Numbered, LeavesNothing
<1> QED
  BY <1>1, <1>2 DEF LInv

\* The shutdown lists what is active: the rest is closed, or was never started
\* by this runner.
LEMMA ListRight ==
  ASSUME SInv, LInv, StoreFree, ListActive
  PROVE  LInv'
<1>0. Places /\ run \in Run /\ run.phase = "closing" /\ run.pid # 0 /\ Alive
  BY PlacesTyped DEF SInv, OInv, Typed, Places, ListActive, Alive
<1>1. UNCHANGED <<rec, pending, boot, sender, slot, group>>
  BY DEF ListActive, disk
<1> DEFINE active == {t \in Tasks : State(t) \in ACTIVE}
<1>2. run'.phase = "cancelling" /\ run'.active = active /\ run'.pid = run.pid
  BY <1>0 DEF ListActive, Run
<1>3. /\ \A u \in Tasks : cancel'["cancel_task"][u] = cancel["cancel_task"][u]
      /\ \A u \in Tasks :
           cancel'["runner_stop"][u] = IF u \in active /\ cancel["runner_stop"][u] = "idle" THEN "get"
                                       ELSE cancel["runner_stop"][u]
  <2>1. cancel' = [cancel EXCEPT !["runner_stop"] =
                     [t \in Tasks |-> IF t \in active /\ cancel["runner_stop"][t] = "idle" THEN "get"
                                      ELSE cancel["runner_stop"][t]]]
    BY DEF ListActive
  <2>2. cancel \in [Callers -> [Tasks -> CancelPc]] /\ "runner_stop" \in Callers
    BY <1>0 DEF Places, Callers
  <2> HIDE DEF active
  <2> QED
    BY <2>1, <2>2 DEF Callers
<1>4. ASSUME NEW u \in Tasks PROVE TaskRight(u)'
  <2>1. TaskRight(u) /\ (Ending(u)' <=> Ending(u)) /\ State(u)' = State(u)
    BY <1>1 DEF LInv, Ending, State
  <2>2. \A c \in Callers : cancel'[c][u] = cancel[c][u] \/ (cancel'[c][u] = "get" /\ State(u) \in ACTIVE)
    BY <1>3 DEF Callers
  <2>3. SlotRight(slot[u], group[u])' /\ (\A c \in Callers : CancelRight(cancel[c][u], slot[u], group[u])')
    BY <1>1, <2>1, <2>2 DEF TaskRight, SlotRight, CancelRight
  <2>4. Recorded(u)'
    BY <1>1, <2>1, <2>2 DEF TaskRight, Recorded, ACTIVE
  <2>5. Fresh(u)'
    BY <1>2 DEF Fresh
  <2>6. Cleaned(u)' /\ Grouped(u)'
    BY <1>0, <1>1, <1>2, <2>1 DEF TaskRight, Cleaned, Grouped, Alive, Running
  <2>7. Rounded(u)'
    <3>2. ASSUME u \notin active
          PROVE  State(u) \in FINAL \/ (slot[u].pc = "none" /\ group[u].by # run.pid)
      <4>1. State(u) \in FINAL \cup {"none"}
        BY <1>0, <3>2 DEF Places, Record, State
      <4>2. CASE State(u) = "none"
        <5>1. slot[u].pc = "none"
          BY <2>1, <4>2 DEF TaskRight, Recorded, NoSlot
        <5>2. group[u].launches = 0
          BY <4>2 DEF SInv, OInv, Once, Past
        <5>3. group[u].by = 0
          BY <2>1, <5>2 DEF TaskRight, Grouped
        <5> QED
          BY <1>0, <5>1, <5>3
      <4> QED
        BY <4>1, <4>2
    <3> QED
      BY <1>1, <1>2, <2>1, <3>2 DEF Rounded
  <2> QED
    BY <2>3, <2>4, <2>5, <2>6, <2>7 DEF TaskRight
<1>5. Numbered' /\ LeavesNothing'
  BY <1>1, <1>2 DEF LInv, Numbered, LeavesNothing
<1> QED
  BY <1>4, <1>5 DEF LInv

\* Past the joins, what is left of a task that was listed is terminated, or has
\* not shown its process yet.
LEMMA ReapRight ==
  ASSUME Places, LInv, Reap
  PROVE  LInv'
<1>0. run \in Run /\ slot \in [Tasks -> Slot] /\ group \in [Tasks -> Group]
  BY DEF Places
<1>1. UNCHANGED <<rec, pending, boot, sender, cancel>> /\ run.phase = "cancelling" /\ Alive
  BY DEF Reap, disk, Alive
<1>2. run'.phase = "reaping" /\ run'.active = run.active /\ run'.pid = run.pid
  BY <1>0 DEF Reap, Run
<1> DEFINE left(u) == u \in run.active /\ slot[u].pc # "none" /\ ~slot[u].done
<1>3. \A u \in Tasks :
        /\ group'[u].by = group[u].by /\ group'[u].launches = group[u].launches
        /\ group'[u].st = group[u].st \/ (Running(u) /\ group'[u].st = "gone")
        /\ group[u].missed => group'[u].missed
        /\ left(u) => IF slot[u].proc /\ Running(u) THEN group'[u].st = "gone"
                      ELSE slot[u].ready \/ group'[u].missed
  BY <1>0, ReapedGroup
<1>4. \A u \in Tasks : slot'[u] = IF left(u) THEN [slot[u] EXCEPT !.cleanup = TRUE] ELSE slot[u]
  BY DEF Reap
<1>5. \A u \in Tasks : (Ending(u)' <=> Ending(u)) /\ State(u)' = State(u)
  BY <1>1 DEF Ending, State
<1>6. ASSUME NEW u \in Tasks PROVE TaskRight(u)'
  <2>1. TaskRight(u) /\ SlotRight(slot[u], group[u]) /\ slot[u] \in Slot /\ group[u] \in Group
    BY <1>0 DEF LInv, TaskRight
  <2>2. /\ slot'[u].pc = slot[u].pc /\ slot'[u].canceled = slot[u].canceled
        /\ slot[u].cleanup \/ left(u) => slot'[u].cleanup
        /\ slot'[u].cleanup => slot[u].cleanup \/ left(u)
        /\ slot'[u].proc = slot[u].proc /\ slot'[u].ready = slot[u].ready /\ slot'[u].done = slot[u].done
    <3>1. CASE left(u)
      <4>1. slot'[u] = [slot[u] EXCEPT !.cleanup = TRUE]
        BY <1>4, <3>1
      <4> QED
        BY <2>1, <3>1, <4>1 DEF Slot
    <3>2. CASE ~left(u)
      <4>1. slot'[u] = slot[u]
        BY <1>4, <3>2
      <4> QED
        BY <3>2, <4>1
    <3> QED
      BY <3>1, <3>2
  <2>3. u \in run.active => slot[u].pc = "none" \/ left(u)
    BY <2>1 DEF SlotRight
  <2>4. left(u) => \/ group'[u].st \notin {"up", "orphan"}
                  \/ (slot[u].ready /\ ~slot[u].proc)
                  \/ group'[u].missed
    BY <1>3 DEF Running
  <2>5. slot'[u] # slot[u] => slot[u].pc # "none"
    BY <1>4
  <2> HIDE DEF left
  <2>6. SlotRight(slot[u], group[u])'
    <3>1. (group'[u].st = group[u].st \/ group'[u].st = "gone") /\ (group[u].missed => group'[u].missed)
      BY <1>3
    <3>2. slot'[u].cleanup /\ slot[u].pc \in Underway \ {"running"} => group'[u].missed
      <4>1. ASSUME left(u), slot[u].pc \in Underway \ {"running"} PROVE slot[u].ready \/ group'[u].missed
        <5>1. ~slot[u].proc
          BY <2>1, <4>1 DEF SlotRight
        <5> QED
          BY <1>3, <4>1, <5>1
      <4> QED
        BY <2>1, <2>2, <3>1, <4>1 DEF SlotRight
    <3>3. slot'[u].cleanup /\ slot[u].pc = "running" => group'[u].st \notin {"up", "orphan"} \/ group'[u].missed
      BY <2>1, <2>2, <2>4, <3>1 DEF SlotRight
    <3>4. SlotRight(slot'[u], group'[u])
      BY <2>1, <2>2, <3>1, <3>2, <3>3 DEF SlotRight
    <3> QED
      BY <3>4
  <2>7. \A c \in Callers : CancelRight(cancel[c][u], slot[u], group[u])'
    BY <1>1, <1>3, <2>1, <2>2 DEF TaskRight, CancelRight
  <2>8. Recorded(u)' /\ Fresh(u)'
    <3>1. slot'[u] # NoSlot => State(u) # "none"
      BY <2>1, <2>5 DEF TaskRight, Recorded, NoSlot
    <3> QED
      BY <1>1, <1>2, <1>5, <2>1, <3>1 DEF TaskRight, Recorded, Fresh
  <2>9. Cleaned(u)'
    BY <1>3, <1>5, <2>1, <2>2 DEF TaskRight, Cleaned
  <2>10. Rounded(u)'
    BY <1>1, <1>2, <1>3, <1>5, <2>1, <2>2, <2>3 DEF TaskRight, Rounded
  <2>11. Grouped(u)'
    BY <1>1, <1>2, <1>3, <2>1, <2>2 DEF TaskRight, Grouped, Alive, Running
  <2> QED
    BY <2>6, <2>7, <2>8, <2>9, <2>10, <2>11 DEF TaskRight
<1>7. Numbered' /\ LeavesNothing'
  BY <1>1, <1>2 DEF LInv, Numbered, LeavesNothing
<1> QED
  BY <1>6, <1>7 DEF LInv

\* The shutdown closes what its threads have left open.
LEMMA FinalizeLeftRight ==
  ASSUME SInv, LInv, StoreFree, NEW t \in Tasks, FinalizeLeft(t)
  PROVE  LInv'
<1>0. Typed /\ Alive
  BY DEF SInv, OInv, FinalizeLeft, Alive
<1>1. /\ UNCHANGED <<rec, run, boot, sender, slot, cancel, group>>
      /\ run.phase = "reaping" /\ t \in run.active
  BY DEF FinalizeLeft, disk, memory
<1>2. \A i \in 1..Len(pending') : pending'[i].task = t
  <2>1. "CANCELED" \in FINAL /\ "runner_stop" \in Reason
    BY DEF FINAL, Reason
  <2> QED
    BY <1>0, <2>1, FinalizeOwn DEF FinalizeLeft
<1>3. ASSUME NEW u \in Tasks, u # t PROVE TaskRight(u)'
  BY <1>1, <1>2, <1>3, OthersRight DEF LInv
<1>4. TaskRight(t)'
  <2>1. TaskRight(t) /\ State(t)' = State(t)
    BY <1>1 DEF LInv, State
  <2>2. slot[t].pc = "none" \/ slot[t].cleanup
    BY <1>1, <2>1 DEF TaskRight, Rounded
  <2>3. SlotRight(slot[t], group[t])' /\ (\A c \in Callers : CancelRight(cancel[c][t], slot[t], group[t])')
    BY <1>1, <2>1 DEF TaskRight, SlotRight, CancelRight
  <2>4. Recorded(t)' /\ Fresh(t)'
    BY <1>1, <2>1 DEF TaskRight, Recorded, Fresh, StoreFree
  <2>5. Cleaned(t)' /\ Rounded(t)' /\ Grouped(t)'
    BY <1>1, <2>1, <2>2 DEF TaskRight, Cleaned, Rounded, Grouped, AtWork, Alive, Running
  <2> QED
    BY <2>3, <2>4, <2>5 DEF TaskRight
<1> QED
  BY <1>0, <1>1, <1>3, <1>4, RunnerStays DEF LInv

\* The end of a runner, in good order or not, leaves its tasks to nobody.
LEMMA ForgetRight ==
  ASSUME Places, LInv, Forget, run'.phase \in {"exited", "crashed"}, run'.pid = run.pid,
         UNCHANGED <<boot, group>>
  PROVE  Numbered' /\ \A u \in Tasks : TaskRight(u)'
<1>1. ASSUME NEW u \in Tasks PROVE TaskRight(u)'
  <2>1. slot'[u] = NoSlot /\ sender'[u] = "idle" /\ \A c \in Callers : cancel'[c][u] = "idle"
    BY DEF Forget
  <2>2. slot'[u].pc = "none"
    BY <2>1 DEF NoSlot
  <2>3. group[u].by <= run.pid /\ (group[u].by # 0 => group[u].launches # 0)
    BY DEF LInv, TaskRight, Grouped
  <2> QED
    BY <2>1, <2>2, <2>3, IdleRight DEF Alive
<1>2. Numbered'
  BY DEF LInv, Numbered
<1> QED
  BY <1>1, <1>2

\* The second round is over: every task this runner executed is closed, and what
\* was closed under its thread has been cleaned up after, or missed.
LEMMA NothingLeft ==
  ASSUME SInv, LInv, StoreFree, run.phase = "reaping", \A t \in run.active : State(t) \notin ACTIVE,
         NEW t \in Tasks, group[t].by = run.pid
  PROVE  State(t) \in FINAL /\ (Running(t) => group[t].missed)
<1>0. Places /\ Alive /\ run.pid # 0 /\ TaskRight(t)
  BY PlacesTyped DEF SInv, OInv, Typed, Alive, LInv
<1>1. State(t) \notin {"none", "SUBMITTED"}
  BY <1>0 DEF TaskRight, Grouped, SInv, OInv, Once, Past
<1>2. State(t) \in FINAL
  <2>1. CASE t \in run.active
    <3>1. State(t) \in FINAL \cup ACTIVE \cup {"none"}
      BY <1>0 DEF Places, Record, State
    <3> QED
      BY <1>1, <2>1, <3>1
  <2>2. CASE t \notin run.active
    BY <1>0, <2>2 DEF TaskRight, Rounded
  <2> QED
    BY <2>1, <2>2
<1>3. ASSUME Running(t), ~group[t].missed PROVE FALSE
  <2>1. slot[t].pc \in Attached
    BY <1>0, <1>3 DEF TaskRight, Grouped
  <2>2. slot[t].cleanup
    BY <1>0, <1>2, <1>3, <2>1 DEF TaskRight, Cleaned, Ending, Attached, AtWork
  <2> QED
    BY <1>0, <1>3, <2>1, <2>2 DEF TaskRight, SlotRight, Attached, Underway, Running
<1> QED
  BY <1>2, <1>3

LEMMA ShutdownRight ==
  ASSUME SInv, LInv, StoreFree, BeginShutdown \/ Shutdown
  PROVE  LInv'
<1>0. Places /\ run \in Run
  BY PlacesTyped DEF SInv, OInv, Places
<1>1. CASE BeginShutdown
  BY <1>0, <1>1, ClosingRight DEF BeginShutdown, disk, memory, Alive, Run
<1>2. CASE ListActive
  BY <1>2, ListRight
<1>3. CASE Reap
  BY <1>0, <1>3, ReapRight
<1>4. ASSUME NEW t \in Tasks, FinalizeLeft(t) PROVE LInv'
  BY <1>4, FinalizeLeftRight
<1>5. CASE EndRound
  <2>1. run.phase = "reaping" /\ (\A t \in run.active : State(t) \notin ACTIVE) /\ UNCHANGED <<rec, boot, group>>
    BY <1>5 DEF EndRound
  <2>2. CASE run' = [run EXCEPT !.phase = "closing", !.round = 2] /\ UNCHANGED <<pending, memory>>
    <3>1. run'.phase = "closing" /\ run'.pid = run.pid
      BY <1>0, <2>2 DEF Run
    <3> QED
      BY <1>0, <2>1, <2>2, <3>1, ClosingRight DEF Alive, memory
  <2>3. CASE run' = [run EXCEPT !.phase = "exited", !.active = {}] /\ Forget
    <3>1. run'.phase = "exited" /\ run'.pid = run.pid
      BY <1>0, <2>3 DEF Run
    <3>2. Numbered' /\ \A u \in Tasks : TaskRight(u)'
      BY <1>0, <2>1, <2>3, <3>1, ForgetRight
    <3>3. \A t \in Tasks : group[t].by = run.pid => State(t) \in FINAL /\ (Running(t) => group[t].missed)
      BY <2>1, NothingLeft
    <3>4. LeavesNothing'
      BY <2>1, <3>1, <3>3 DEF LeavesNothing, Running, State
    <3> QED
      BY <3>2, <3>4 DEF LInv
  <2> QED
    BY <1>5, <2>2, <2>3 DEF EndRound
<1> QED
  BY <1>1, <1>2, <1>3, <1>4, <1>5 DEF Shutdown

LEMMA CrashRight ==
  ASSUME Places, LInv, Crash
  PROVE  LInv'
<1>1. run'.phase = "crashed" /\ run'.pid = run.pid /\ UNCHANGED <<boot, group>> /\ Forget
  BY DEF Crash, Places, Run
<1> QED
  BY <1>1, ForgetRight DEF LInv, LeavesNothing

LEMMA StepLeaves ==
  ASSUME ~Doubles, SInv, LInv, [Next]_vars
  PROVE  LInv'
<1>0. Places
  BY PlacesTyped DEF SInv, OInv
<1>1. CASE StoreWrite
  BY <1>1, StoreWriteRight
<1>2. ASSUME NEW t \in Tasks, StoreFree, SendCheck(t) \/ CancelTask(t) \/ Thread(t) PROVE LInv'
  BY <1>2, ThreadRight
<1>3. CASE (StoreFree /\ (BeginShutdown \/ Shutdown)) \/ Crash
  BY <1>0, <1>3, ShutdownRight, CrashRight
<1>4. CASE UNCHANGED vars \/ RemoveStale \/ (\E s \in Subs : SseOpen(s) \/ Sse(s))
  <2>1. UNCHANGED <<rec, pending, run, boot, sender, slot, cancel, group>>
    <3>1. CASE UNCHANGED vars \/ RemoveStale
      BY <3>1 DEF vars, RemoveStale, memory
    <3>2. ASSUME NEW s \in Subs, SseOpen(s) \/ Sse(s)
          PROVE  UNCHANGED <<rec, pending, run, boot, sender, slot, cancel, group>>
      BY <3>2 DEF SseOpen, Sse, SseDrain, SseCheck, disk, memory
    <3> QED
      BY <1>4, <3>1, <3>2
  <2>2. Numbered'
    BY <2>1 DEF LInv, Numbered
  <2> QED
    BY <2>1, <2>2, FrameRight
<1>5. ASSUME NEW t \in Tasks, LeaderExits(t) PROVE LInv'
  BY <1>0, <1>5, LeaderRight
<1>6. CASE BootStart \/ BootWrite \/ BootOwn \/ BootCrash \/ \E t \in Tasks : BootRead(t)
  BY <1>6, BootRight
<1> QED
  BY <1>1, <1>2, <1>3, <1>4, <1>5, <1>6 DEF Next

LEMMA InitLeaves == ASSUME Init PROVE LInv
<1>1. Numbered /\ LeavesNothing
  BY DEF Init, Numbered, LeavesNothing
<1>2. ASSUME NEW u \in Tasks PROVE TaskRight(u)
  <2>1. SlotRight(slot[u], group[u]) /\ \A c \in Callers : CancelRight(cancel[c][u], slot[u], group[u])
    BY DEF Init, SlotRight, CancelRight, NoSlot, Attached, Underway
  <2>2. Recorded(u) /\ Fresh(u)
    BY DEF Init, Recorded, Fresh
  <2>3. Cleaned(u) /\ Rounded(u) /\ Grouped(u)
    BY DEF Init, Cleaned, Rounded, Grouped, Alive, NoSlot, AtWork
  <2> QED
    BY <2>1, <2>2, <2>3 DEF TaskRight
<1> QED
  BY <1>1, <1>2 DEF LInv

\* A runner that stops in good order has closed every task it executed, and a
\* process group of its own is left only when a cancellation of the task, or the
\* shutdown, passed by before the thread had registered it: whatever
\* cancellations, early or late, ends of processes and rounds of the shutdown
\* overlap, and whatever runners crashed before it, as long as no second runner
\* is started beside it.
THEOREM ShutdownLeavesNothing ==
  ASSUME ~Doubles PROVE Spec => []LeavesNothing
<1>1. Init => SInv /\ LInv
  BY InitMaps, InitLeaves
<1>2. SInv /\ LInv /\ [Next]_vars => SInv' /\ LInv'
  BY StepMaps, StepLeaves
<1>3. LInv => LeavesNothing
  BY DEF LInv
<1> QED
  BY <1>1, <1>2, <1>3, PTL DEF Spec

=============================================================================
