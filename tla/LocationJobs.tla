---------------------------- MODULE LocationJobs ----------------------------
(***************************************************************************)
(* The background rematch of src/app_state.rs (LocationJobs) with the      *)
(* handlers of src/server.rs that start it.  A geofence is saved or        *)
(* deleted in one blocking task, start() is called after it, and the       *)
(* rematch of drives and charges runs in another.  The table of geofences  *)
(* is the number of changes made to it.                                    *)
(***************************************************************************)
EXTENDS Naturals, FiniteSets

CONSTANTS
  Admins,    \* request handlers that may run at once
  MaxCalls   \* bound on the changes and on the calls of start()

ASSUME LocationJobsAssumption == IsFiniteSet(Admins) /\ MaxCalls \in Nat

VARIABLES
  fences,   \* changes committed to the geofences
  applied,  \* changes the last committed rematch has seen
  job,      \* LocationJobState.status
  rerun,    \* LocationJobState.rerun
  next_id,  \* LocationJobState.next_id
  tasks,    \* where each blocking task is, by the id of its job
  handler,  \* where each handler is
  calls,    \* history: calls of start()
  seen      \* history: calls made before the latest rematch

state     == <<job, rerun, next_id>>
history   == <<calls, seen>>
jobs_vars == <<fences, applied, state, tasks, handler, history>>

Active == {"queued", "running"}
Stage  == {"spawned", "running", "matched", "failed"}
NoTask == [t \in {} |-> "spawned"]

JobsTypeOK ==
  /\ fences \in Nat /\ applied \in 0..fences
  /\ job \in [id : 0..next_id, state : {"idle", "completed", "failed"} \cup Active]
  /\ rerun \in BOOLEAN
  /\ next_id \in Nat
  /\ tasks \in [DOMAIN tasks -> Stage] /\ DOMAIN tasks \subseteq 1..next_id
  /\ handler \in [Admins -> {"none", "saving", "saved", "dropped"}]
  /\ calls \in Nat /\ seen \in 0..calls

JobsInit ==
  /\ fences = 0 /\ applied = 0
  /\ job = [id |-> 0, state |-> "idle"] /\ rerun = FALSE /\ next_id = 0
  /\ tasks = NoTask
  /\ handler = [a \in Admins |-> "none"]
  /\ calls = 0 /\ seen = 0

-----------------------------------------------------------------------------
(* The handlers. *)
Pending == {a \in Admins : handler[a] # "none"}

\* create, update or delete is accepted, or a rematch is asked for directly.
Submit(a) ==
  /\ handler[a] = "none"
  /\ calls + Cardinality(Pending) < MaxCalls
  /\ fences + Cardinality(Pending) < MaxCalls
  /\ \E at \in {"saving", "saved"} : handler' = [handler EXCEPT ![a] = at]
  /\ UNCHANGED <<fences, applied, state, tasks, history>>

\* locations::save or delete, one transaction under the write lock; it may fail
\* or find no such location.  A handler that was dropped does not stop it.
Commit(a) ==
  /\ handler[a] \in {"saving", "dropped"}
  /\ \/ /\ fences' = fences + 1
        /\ handler' = [handler EXCEPT ![a] = IF @ = "saving" THEN "saved" ELSE "none"]
     \/ /\ UNCHANGED fences
        /\ handler' = [handler EXCEPT ![a] = "none"]
  /\ UNCHANGED <<applied, state, tasks, history>>

\* start(): a queued job will see the change, a running one is told to rerun.
Called(a) ==
  /\ handler[a] = "saved"
  /\ handler' = [handler EXCEPT ![a] = "none"]
  /\ calls' = calls + 1
  /\ UNCHANGED <<fences, applied, seen>>

NewJob ==
  /\ next_id' = next_id + 1
  /\ rerun' = FALSE
  /\ job' = [id |-> next_id', state |-> "queued"]
  /\ tasks' = [t \in DOMAIN tasks \cup {next_id'} |->
                 IF t = next_id' THEN "spawned" ELSE tasks[t]]

\* Mutants: a running job is joined; a job is started beside another.
Start_joins_running(a) ==
  /\ Called(a)
  /\ IF job.state \in Active THEN UNCHANGED <<state, tasks>> ELSE NewJob
Start_always(a) == Called(a) /\ NewJob

Start(a) ==
  /\ Called(a)
  /\ IF job.state \in Active
     THEN /\ rerun' = (rerun \/ job.state = "running")
          /\ UNCHANGED <<job, next_id, tasks>>
     ELSE NewJob

-----------------------------------------------------------------------------
(* The blocking task. *)
Run(t) ==
  /\ tasks[t] = "spawned"
  /\ job' = [id |-> t, state |-> "running"]
  /\ tasks' = [tasks EXCEPT ![t] = "running"]
  /\ UNCHANGED <<fences, applied, rerun, next_id, handler, history>>

\* locations::rematch, one transaction under the write lock.
RunRematch(t) ==
  /\ tasks[t] = "running"
  /\ \/ applied' = fences /\ tasks' = [tasks EXCEPT ![t] = "matched"]
     \/ UNCHANGED applied /\ tasks' = [tasks EXCEPT ![t] = "failed"]
  /\ seen' = calls
  /\ UNCHANGED <<fences, state, handler, calls>>

\* Mutant: the task ends without a look at rerun.
Finish_once(t) ==
  /\ tasks[t] \in {"matched", "failed"}
  /\ job' = [id |-> t, state |-> IF tasks[t] = "matched" THEN "completed" ELSE "failed"]
  /\ tasks' = [u \in DOMAIN tasks \ {t} |-> tasks[u]]
  /\ UNCHANGED <<fences, applied, rerun, next_id, handler, history>>

Finish(t) ==
  /\ tasks[t] \in {"matched", "failed"}
  /\ rerun' = FALSE
  /\ IF rerun
     THEN /\ tasks' = [tasks EXCEPT ![t] = "spawned"]
          /\ UNCHANGED job
     ELSE /\ job' = [id |-> t, state |-> IF tasks[t] = "matched" THEN "completed"
                                                                  ELSE "failed"]
          /\ tasks' = [u \in DOMAIN tasks \ {t} |-> tasks[u]]
  /\ UNCHANGED <<fences, applied, next_id, handler, history>>

Work == \E t \in DOMAIN tasks : Run(t) \/ RunRematch(t) \/ Finish(t)

JobsNext == (\E a \in Admins : Submit(a) \/ Commit(a) \/ Start(a)) \/ Work

\* A handler that is polled goes on, and the blocking pool runs its tasks.
JobsFairness == /\ \A a \in Admins : WF_jobs_vars(Commit(a)) /\ WF_jobs_vars(Start(a))
                /\ WF_jobs_vars(Work)

JobsSpec == JobsInit /\ [][JobsNext]_jobs_vars /\ JobsFairness

-----------------------------------------------------------------------------
\* The client goes away: the handler is dropped at its await, and with it the
\* call of start(); the transaction is not.
Disconnect(a) ==
  /\ handler[a] = "saving"
  /\ handler' = [handler EXCEPT ![a] = "dropped"]
  /\ UNCHANGED <<fences, applied, state, tasks, history>>

\* The process starts again: LocationJobs and the handlers live in memory.
Restart ==
  /\ job' = [id |-> 0, state |-> "idle"] /\ rerun' = FALSE /\ next_id' = 0
  /\ tasks' = NoTask
  /\ handler' = [a \in Admins |-> "none"]
  /\ UNCHANGED <<fences, applied, history>>

InterruptedSpec ==
  JobsInit /\ [][JobsNext \/ Restart \/ \E a \in Admins : Disconnect(a)]_jobs_vars /\ JobsFairness
-----------------------------------------------------------------------------
(* Properties. *)

\* One rematch at a time, and it is the task of the job that is shown.
TaskOwnsJob == DOMAIN tasks = IF job.state \in Active THEN {job.id} ELSE {}

\* When a job is shown as completed, history follows every committed change
\* for which start() has been called: a change made while the rematch ran, or
\* between its end and the answer, is not left out.
CompletedIsCurrent ==
  job.state = "completed" /\ (\A a \in Admins : handler[a] # "saved") => applied = fences

\* start() calls are coalesced and none is lost: each is followed by a rematch
\* that begins after it, and the job ends only when none is left.
Coalesced == INSTANCE CoalescedWork WITH
               made <- calls, served <- seen, busy <- job.state \in Active
Coalesces == Coalesced!Spec
CoalescesSafely == Coalesced!Init /\ [][Coalesced!Next]_Coalesced!vars

\* Saving queues a background rematch: every committed change reaches the
\* history, unless the rematch failed and says so.
ChangesReachHistory ==
  \A n \in 1..MaxCalls : fences >= n ~> (applied >= n \/ job.state = "failed")
=============================================================================
