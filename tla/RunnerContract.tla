---------------------------- MODULE RunnerContract ----------------------------
(***************************************************************************)
(* What an A2A runner promises of its tasks, without how: a task is taken  *)
(* up once, its process is started at most once, and it is closed once,    *)
(* for good.  Module Runner implements it; module Dispatch relies on it.   *)
(***************************************************************************)
EXTENDS Integers

CONSTANT Tasks

VARIABLES
  task,  \* the state, the reason and the artifact of every task
  ran    \* how often the process of every task was started

contractVars == <<task, ran>>

FINAL == {"COMPLETED", "FAILED", "CANCELED", "REJECTED", "INPUT_REQUIRED", "AUTH_REQUIRED"}
ACTIVE == {"SUBMITTED", "WORKING"}
NoTask == [state |-> "none", reason |-> "none", artifact |-> FALSE]

Init ==
  /\ task = [t \in Tasks |-> NoTask]
  /\ ran = [t \in Tasks |-> 0]

\* SendMessage: a task that is there already is left alone.
Accept(t) ==
  /\ task[t].state = "none"
  /\ task' = [task EXCEPT ![t] = [state |-> "SUBMITTED", reason |-> "none", artifact |-> FALSE]]
  /\ UNCHANGED ran

Work(t) ==
  /\ task[t].state = "SUBMITTED"
  /\ task' = [task EXCEPT ![t].state = "WORKING"]
  /\ UNCHANGED ran

\* The process may still start when the task has just been cancelled.
StartProcess(t) ==
  /\ task[t].state \notin {"none", "SUBMITTED"} /\ ran[t] = 0
  /\ ran' = [ran EXCEPT ![t] = 1]
  /\ UNCHANGED task

\* A result needs a process; every other end may come before one.
Close(t, s, reason, artifact) ==
  /\ task[t].state \in ACTIVE
  /\ s = "COMPLETED" \/ artifact => ran[t] = 1
  /\ task' = [task EXCEPT ![t] = [state |-> s, reason |-> reason, artifact |-> artifact]]
  /\ UNCHANGED ran

Next ==
  \E t \in Tasks :
    \/ Accept(t) \/ Work(t) \/ StartProcess(t)
    \/ \E s \in FINAL, artifact \in BOOLEAN,
         reason \in {"cancel_task", "runner_stop", "runner_restart", "process_exit", "deadline",
                     "sandbox_failure", "runner_internal_timeout", "validation"} :
         Close(t, s, reason, artifact)

Spec == Init /\ [][Next]_contractVars

=============================================================================
