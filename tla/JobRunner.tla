------------------------------ MODULE JobRunner ------------------------------
(***************************************************************************)
(* The persistent job runner of shared/src/jobs and the life of the        *)
(* service process that hosts it (shared/src/server.rs): runners claim     *)
(* rows of persistent_jobs, execute them in spawned tasks and mark the     *)
(* outcome, while a recovery loop frees rows whose lock is old, a cleanup  *)
(* loop deletes completed rows, and recurring jobs are reset in place.     *)
(*                                                                         *)
(* A slot is one of the max_concurrent_jobs tasks of a runner.  Each SQL   *)
(* statement is one step; time is abstracted to "may have passed".         *)
(***************************************************************************)
EXTENDS Naturals, FiniteSets, Functions

CONSTANTS
    Jobs,          \* rows of persistent_jobs
    KeyOf,         \* the (job_type, dedup_key) of a row
    Recurring,     \* rows with a schedule
    ResetToNext,   \* recurring rows with RecurringFailurePolicy::ResetToNext
    Runners, NoRunner,
    Slots,         \* tasks a runner may have in flight
    RunnerOf,
    NoJob,
    Handles,       \* the rows whose handler a runner has registered
    Outcomes,      \* what handlers return: complete, retry or dead_letter
    MaxRetries,    \* the max_retries column
    FaultBudget,   \* how many of the faults below may happen
    Workloads      \* what a behaviour is about: the rows that were cleaned up
                   \* before, the services, the faults, the number of shutdowns

\* "timeout" is a handler that exceeds timeout_seconds or panics, "slow" a lock
\* that is recovered although its task is alive, "db_error" a failed UPDATE,
\* "no_handler" a claim by a runner that has no handler for the job, "deadline"
\* the drain deadline passing with tasks in flight, "bind" a port that is taken,
\* "exit" a process that ends with tasks in flight.
AllFaults == {"timeout", "slow", "crash", "db_error", "no_handler", "deadline", "bind", "exit"}

\* What is remembered of them: the others leave a row without a task.
ClassOf(kind) == IF kind \in {"slow", "db_error"} THEN kind ELSE "orphan"
Classes == {"slow", "db_error", "orphan"}

\* A shutdown is not a fault; its number is bounded too.
Counted == Classes \cup {"shutdown"}

ASSUME JobAssumption ==
    /\ KeyOf \in [Jobs -> Jobs]
    /\ Recurring \subseteq Jobs /\ ResetToNext \subseteq Recurring
    /\ NoRunner \notin Runners /\ NoJob \notin Jobs
    /\ RunnerOf \in [Slots -> Runners]
    /\ Handles \in [Runners -> SUBSET Jobs]
    /\ Outcomes \subseteq {"complete", "retry", "dead_letter"}
    /\ MaxRetries \in Nat \ {0}
    /\ FaultBudget \in Nat
    /\ \A w \in Workloads : /\ w.old \subseteq Jobs /\ w.services \subseteq Runners
                            /\ w.faults \subseteq AllFaults /\ w.shutdowns \in Nat

VARIABLES
    \* persistent_jobs
    status, attempts, lockedBy,
    waiting,    \* rows whose next_run_at is in the future
    \* runners
    pc,         \* what the task in a slot does
    job,        \* the row it was spawned for
    seen,       \* job.attempts as returned by claim_batch
    mode,       \* of a service: starting, up, at a point of drain, or down
    \* history
    faults,     \* number of faults of each class, and of shutdowns, so far
    load        \* the workload, never changed

table == <<status, attempts, lockedBy, waiting>>
tasks == <<pc, job, seen>>
history == <<faults, load>>
vars  == <<table, tasks, mode, history>>

JobStatus == {"pending", "running", "completed", "failed", "dead_lettered"}
Statuses  == JobStatus \cup {"absent", "deleted"}

Live  == {"execute", "complete", "retry", "dead_letter", "reset"}
Modes == {"starting", "up", "check", "register", "wait", "down"}

\* Rows, tasks and runners have their types; a slot has a row exactly while its
\* task lives; the attempts of a row stay within MaxRetries plus one for each
\* fault that left it running (release_stale_locks does not look at them).
TypeOK ==
    /\ status \in [Jobs -> Statuses]
    /\ attempts \in [Jobs -> 0..MaxRetries + FaultBudget]
    /\ lockedBy \in [Jobs -> Runners \cup {NoRunner}]
    /\ waiting \subseteq Jobs
    /\ pc \in [Slots -> Live \cup {"idle"}]
    /\ job \in [Slots -> Jobs \cup {NoJob}]
    /\ \A s \in Slots : pc[s] \in Live <=> job[s] # NoJob
    /\ seen \in [Slots -> 0..MaxRetries + FaultBudget]
    /\ mode \in [Runners -> Modes]
    /\ faults \in [Counted -> 0..FaultBudget + load.shutdowns]
    /\ load \in Workloads

Init ==
    /\ load \in Workloads
    /\ status = [j \in Jobs |-> IF j \in load.old THEN "deleted" ELSE "absent"]
    /\ attempts = [j \in Jobs |-> 0]
    /\ lockedBy = [j \in Jobs |-> NoRunner]
    /\ waiting = {}
    /\ pc = [s \in Slots |-> "idle"]
    /\ job = [s \in Slots |-> NoJob]
    /\ seen = [s \in Slots |-> 0]
    /\ mode = [r \in Runners |-> "down"]
    /\ faults = [c \in Counted |-> 0]

Fault(kind) ==
    /\ kind \in load.faults
    /\ SumFunction(Restrict(faults, Classes)) < FaultBudget
    /\ faults' = [faults EXCEPT ![ClassOf(kind)] = @ + 1]
    /\ UNCHANGED load

SlotsOf(r) == {s \in Slots : RunnerOf[s] = r}

Tasks(j) == {s \in Slots : pc[s] \in Live /\ job[s] = j}

-----------------------------------------------------------------------------
(* The table *)

\* The partial unique index idx_jobs_dedup admits row j in status new.
IndexAllows(j, new) ==
    new \in {"pending", "running"} =>
        \A k \in Jobs \ {j} : KeyOf[k] = KeyOf[j] => status[k] \notin {"pending", "running"}

\* The trigger enforce_job_status_transition.
TriggerAllows(j, new) ==
    \/ status[j] = new
    \/ status[j] = "pending" /\ new = "running"
    \/ status[j] = "running" /\ new \in {"completed", "failed", "dead_lettered", "pending"}
    \/ status[j] \in {"dead_lettered", "failed"} /\ new = "pending"
    \/ status[j] = "completed" /\ new = "pending" /\ j \in Recurring

\* UPDATE ... SET status = new, locked_by = NULL, ... WHERE id = j: it takes
\* effect, or hits no row, or is refused by the trigger or the index, or fails.
Unlock(j, new, n, wait) ==
    \/ /\ status[j] # "deleted" /\ TriggerAllows(j, new) /\ IndexAllows(j, new)
       /\ status' = [status EXCEPT ![j] = new]
       /\ lockedBy' = [lockedBy EXCEPT ![j] = NoRunner]
       /\ attempts' = [attempts EXCEPT ![j] = n]
       /\ waiting' = IF wait THEN waiting \cup {j} ELSE waiting
       /\ UNCHANGED history
    \/ /\ status[j] = "deleted" \/ ~ TriggerAllows(j, new) \/ ~ IndexAllows(j, new)
       /\ UNCHANGED <<table, history>>
    \/ Fault("db_error") /\ UNCHANGED table

\* A row is inserted unless the index refuses it.
enqueue_job(j) ==
    /\ j \notin Recurring
    /\ status[j] = "absent" /\ IndexAllows(j, "pending")
    /\ status' = [status EXCEPT ![j] = "pending"]
    /\ UNCHANGED <<attempts, lockedBy, waiting, tasks, mode, history>>

\* next_run_at comes.
next_run_at_passes(j) ==
    /\ j \in waiting
    /\ waiting' = waiting \ {j}
    /\ UNCHANGED <<status, attempts, lockedBy, tasks, mode, history>>

-----------------------------------------------------------------------------
(* process_available *)

\* The loops of the runner go on until the token is cancelled.
Looping(r) == mode[r] \in {"starting", "up"}

Free(r) == {s \in SlotsOf(r) : pc[s] = "idle"}

\* Seeded defect: the status filter of claim_batch is lost.
ClaimableAnyStatus == {j \in Jobs : status[j] \in {"pending", "running"} /\ j \notin waiting}

Claimable == {j \in Jobs : status[j] = "pending" /\ j \notin waiting}

\* Claims up to the free capacity and spawns a task for each row that has a
\* handler; the others stay running.
claim_batch(r) ==
    /\ Looping(r)
    /\ \E S \in (SUBSET Free(r)) \ {{}} : \E claim \in Injection(S, Claimable) :
        LET C == {claim[s] : s \in S} IN
        /\ IF C \subseteq Handles[r] THEN UNCHANGED history ELSE Fault("no_handler")
        /\ S = Free(r) \/ C = Claimable
        /\ status' = [j \in Jobs |-> IF j \in C THEN "running" ELSE status[j]]
        /\ lockedBy' = [j \in Jobs |-> IF j \in C THEN r ELSE lockedBy[j]]
        /\ attempts' = [j \in Jobs |-> IF j \in C THEN attempts[j] + 1 ELSE attempts[j]]
        /\ LET Spawned == {s \in S : claim[s] \in Handles[r]} IN
           /\ pc' = [s \in Slots |-> IF s \in Spawned THEN "execute" ELSE pc[s]]
           /\ job' = [s \in Slots |-> IF s \in Spawned THEN claim[s] ELSE job[s]]
           /\ seen' = [s \in Slots |-> IF s \in Spawned THEN attempts[claim[s]] + 1 ELSE seen[s]]
    /\ UNCHANGED <<waiting, mode>>

Goto(s, label) == pc' = [pc EXCEPT ![s] = label] /\ UNCHANGED <<job, seen>>

\* The task ends and its InFlightGuard is dropped: a runner that waits in drain
\* looks at the counter again.
Done(s) ==
    /\ pc' = [pc EXCEPT ![s] = "idle"]
    /\ job' = [job EXCEPT ![s] = NoJob]
    /\ seen' = [seen EXCEPT ![s] = 0]
    /\ mode' = [mode EXCEPT ![RunnerOf[s]] = IF @ = "wait" THEN "check" ELSE @]

\* handler.execute returns, or is cut off: then the row is left as running.
execute(s) ==
    /\ pc[s] = "execute"
    /\ \/ /\ \E o \in Outcomes : Goto(s, o)
          /\ UNCHANGED <<mode, history>>
       \/ Fault("timeout") /\ Done(s)
    /\ UNCHANGED table

\* Seeded defect: a recurring job is not reset.
CompleteOnly(s) ==
    /\ pc[s] = "complete"
    /\ Unlock(job[s], "completed", attempts[job[s]], FALSE)
    /\ Done(s)

\* mark_completed; whatever it returns, a recurring job is reset next.
mark_completed(s) ==
    /\ pc[s] = "complete"
    /\ Unlock(job[s], "completed", attempts[job[s]], FALSE)
    /\ IF job[s] \in Recurring THEN Goto(s, "reset") /\ UNCHANGED mode ELSE Done(s)

RetryStatus(j) == IF attempts[j] >= MaxRetries THEN "failed" ELSE "pending"

\* mark_retry_or_failed looks at the attempts of the row, the failure policy at
\* those of the snapshot.
mark_retry_or_failed(s) ==
    /\ pc[s] = "retry"
    /\ Unlock(job[s], RetryStatus(job[s]), attempts[job[s]], RetryStatus(job[s]) = "pending")
    /\ IF job[s] \in ResetToNext /\ seen[s] >= MaxRetries
       THEN Goto(s, "reset") /\ UNCHANGED mode ELSE Done(s)

mark_dead_lettered(s) ==
    /\ pc[s] = "dead_letter"
    /\ Unlock(job[s], "dead_lettered", attempts[job[s]], FALSE)
    /\ Done(s)

reset_recurring(s) ==
    /\ pc[s] = "reset"
    /\ Unlock(job[s], "pending", 0, TRUE)
    /\ Done(s)

run_job(s) ==
    \/ execute(s)
    \/ mark_completed(s)
    \/ mark_retry_or_failed(s)
    \/ mark_dead_lettered(s)
    \/ reset_recurring(s)

-----------------------------------------------------------------------------
(* The other loops *)

\* Seeded defect: the lock is cleared, as the outbox does, and the status kept.
ReleaseLockOnly(S) ==
    /\ \E r \in Runners : Looping(r)
    /\ S # {} /\ S \subseteq {j \in Jobs : status[j] = "running" /\ lockedBy[j] # NoRunner}
    /\ IF \E j \in S : Tasks(j) # {} THEN Fault("slow") ELSE UNCHANGED history
    /\ lockedBy' = [j \in Jobs |-> IF j \in S THEN NoRunner ELSE lockedBy[j]]
    /\ UNCHANGED <<status, attempts, waiting, tasks, mode>>

\* S: the running rows whose lock is older than stale_lock_timeout.  That a task
\* is still at work on one of them is the fault "slow".
release_stale_locks(S) ==
    /\ \E r \in Runners : Looping(r)
    /\ S # {} /\ S \subseteq {j \in Jobs : status[j] = "running"}
    /\ IF \E j \in S : Tasks(j) # {} THEN Fault("slow") ELSE UNCHANGED history
    /\ status' = [j \in Jobs |-> IF j \in S THEN "pending" ELSE status[j]]
    /\ lockedBy' = [j \in Jobs |-> IF j \in S THEN NoRunner ELSE lockedBy[j]]
    /\ UNCHANGED <<attempts, waiting, tasks, mode>>

\* Deletes completed rows older than cleanup_max_age (days: no task is left), in
\* batches.
cleanup_completed(S) ==
    /\ S # {} /\ S \subseteq {j \in Jobs : status[j] = "completed" /\ Tasks(j) = {}}
    /\ status' = [j \in Jobs |-> IF j \in S THEN "deleted" ELSE status[j]]
    /\ attempts' = [j \in Jobs |-> IF j \in S THEN 0 ELSE attempts[j]]
    /\ waiting' = waiting \ S
    /\ UNCHANGED <<lockedBy, tasks, mode, history>>

cleanup_loop == \E r \in Runners : Looping(r) /\ \E S \in SUBSET Jobs : cleanup_completed(S)

-----------------------------------------------------------------------------
(* Start, shutdown and drain *)

\* The rows that seed_recurring_jobs inserts: a new one for each recurring
\* definition that has no pending or running row (ON CONFLICT DO NOTHING).
Seeds ==
    LET New == {j \in Recurring : status[j] = "absent" /\ IndexAllows(j, "pending")}
    IN  {CHOOSE j \in New : KeyOf[j] = key : key \in {KeyOf[j] : j \in New}}

seed_recurring_jobs == status' = [j \in Jobs |-> IF j \in Seeds THEN "pending" ELSE status[j]]

\* The task of the runner; it runs beside the start of the servers.
spawn_job_runner(r) ==
    /\ mode' = [mode EXCEPT ![r] = "starting"]
    /\ seed_recurring_jobs

\* A service starts: once its infrastructure is there, the runner is spawned.
run(r) ==
    /\ mode[r] = "down" /\ r \in load.services
    /\ spawn_job_runner(r)
    /\ UNCHANGED <<attempts, lockedBy, waiting, tasks, history>>

\* The process is gone, and with it the tasks of the runner.
Exit(r) ==
    /\ mode' = [mode EXCEPT ![r] = "down"]
    /\ pc' = [s \in Slots |-> IF RunnerOf[s] = r THEN "idle" ELSE pc[s]]
    /\ job' = [s \in Slots |-> IF RunnerOf[s] = r THEN NoJob ELSE job[s]]
    /\ seen' = [s \in Slots |-> IF RunnerOf[s] = r THEN 0 ELSE seen[s]]

crash(r) ==
    /\ mode[r] # "down" /\ Fault("crash")
    /\ Exit(r)
    /\ UNCHANGED table

\* The port is bound after the runner was spawned; if that fails the process
\* returns at once and nobody cancels the token.
bind(r) ==
    /\ mode[r] = "starting"
    /\ \/ /\ mode' = [mode EXCEPT ![r] = "up"]
          /\ UNCHANGED <<tasks, history>>
       \/ Fault("bind") /\ Exit(r)
    /\ UNCHANGED table

\* A server returns and the token is cancelled: the loops end and drain begins.
shutdown(r) ==
    /\ mode[r] = "up" /\ faults["shutdown"] < load.shutdowns
    /\ faults' = [faults EXCEPT !["shutdown"] = @ + 1]
    /\ mode' = [mode EXCEPT ![r] = "check"]
    /\ UNCHANGED <<table, tasks, load>>

in_flight(r) == {s \in SlotsOf(r) : pc[s] # "idle"}

\* Seeded defect: drain does not wait for the tasks.
DrainWithoutWaiting(r) ==
    /\ mode[r] = "check" /\ Exit(r)
    /\ UNCHANGED <<table, history>>

\* One turn of the loop in drain: the counter is loaded, then notified() is
\* registered; the deadline ends the wait.
drain(r) ==
    /\ \/ /\ mode[r] = "check" /\ in_flight(r) # {}
          /\ mode' = [mode EXCEPT ![r] = "register"]
          /\ UNCHANGED <<tasks, history>>
       \/ /\ mode[r] = "check" /\ in_flight(r) = {}
          /\ Exit(r) /\ UNCHANGED history
       \/ /\ mode[r] = "register"
          /\ mode' = [mode EXCEPT ![r] = "wait"]
          /\ UNCHANGED <<tasks, history>>
       \/ /\ mode[r] = "wait"
          /\ IF in_flight(r) # {} THEN Fault("deadline") ELSE UNCHANGED history
          /\ Exit(r)
    /\ UNCHANGED table

\* Nothing waits for the drain: the process ends when main has returned.
exit(r) ==
    /\ mode[r] \in {"check", "register", "wait"}
    /\ IF in_flight(r) # {} THEN Fault("exit") ELSE UNCHANGED history
    /\ Exit(r)
    /\ UNCHANGED table

Next ==
    \/ \E j \in Jobs : enqueue_job(j) \/ next_run_at_passes(j)
    \/ \E r \in Runners : run(r) \/ bind(r) \/ claim_batch(r) \/ crash(r)
                            \/ shutdown(r) \/ drain(r) \/ exit(r)
    \/ \E s \in Slots : run_job(s)
    \/ \E S \in SUBSET Jobs : release_stale_locks(S)
    \/ cleanup_loop

\* Tasks run, time passes, crashed runners are restarted, the recovery loop comes
\* back, and claims are in the order of next_run_at, so that no row that is
\* claimable again and again is passed over for ever.
Fairness ==
    /\ \A j \in Jobs : WF_vars(next_run_at_passes(j))
    /\ \A r \in Runners : WF_vars(run(r)) /\ WF_vars(bind(r)) /\ WF_vars(drain(r))
    /\ \A s \in Slots : WF_vars(run_job(s))
    /\ \A j \in Jobs : WF_vars(release_stale_locks({j}))
    /\ \A j \in Jobs : SF_vars(\E r \in Runners :
                            claim_batch(r) /\ status[j] = "pending" /\ status'[j] = "running")

Spec     == Init /\ [][Next]_vars
FairSpec == Spec /\ Fairness

-----------------------------------------------------------------------------
(* Properties *)

\* No two tasks work on one row as long as no lock was recovered under a live
\* task: claim_batch hands a pending row to one runner, and no task puts its row
\* back to pending and goes on.  (One early recovery is enough for any number of
\* tasks: the second task may mark a retry on attempts that the first one has
\* reset, and then reset the row while a third task runs.)
OneExecution == faults["slow"] = 0 => \A j \in Jobs : Cardinality(Tasks(j)) <= 1

\* A running row belongs to the runner whose task works on it, as long as no
\* task was cut off: nothing is left for stale lock recovery, and a runner that
\* drained before it went down left no row behind.
NoOrphans ==
    (\A c \in Classes : faults[c] = 0) =>
        \A j \in Jobs : status[j] = "running" =>
            \E s \in Tasks(j) : lockedBy[j] = RunnerOf[s]

\* Every job that is enqueued is settled in the end.
EventuallySettled ==
    \A j \in Jobs \ Recurring :
        status[j] = "pending" ~> status[j] \in {"completed", "failed", "dead_lettered", "deleted"}

\* Why a recurring job may stop for good: a handler reported a permanent error,
\* the retries are used up and the policy is to stop, an UPDATE failed, or two
\* tasks at one row disagreed on its attempts.  (Or the model has no row left.)
Stopped(key) ==
    LET Rows == {k \in Recurring : KeyOf[k] = key} IN
    \/ \E k \in Rows : status[k] = "dead_lettered"
    \/ \E k \in Rows : status[k] = "failed" /\ (k \notin ResetToNext \/ faults["slow"] > 0)
    \/ faults["db_error"] > 0
    \/ \A k \in Rows : status[k] # "absent"

\* A recurring job runs again and again, whatever crashes, restarts, races of
\* two seeding services and failing attempts it meets, unless one of the reasons
\* above holds: mark_completed and reset_recurring are two statements, and only
\* the seeding of a later start makes up for a reset that never happened.
RecurringRepeats ==
    \A key \in {KeyOf[j] : j \in Recurring} :
        []<>(Stopped(key) \/ \E k \in Recurring : KeyOf[k] = key /\ status[k] = "running")

=============================================================================
