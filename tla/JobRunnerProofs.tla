-------------------------- MODULE JobRunnerProofs --------------------------
(***************************************************************************)
(* For any rows, runners, slots and faults: as long as no lock is          *)
(* recovered under a live task, no two tasks work on one row; and as long  *)
(* as no task is cut off, every running row has its task.                  *)
(***************************************************************************)
EXTENDS JobRunner, FiniteSetTheorems, TLAPS

\* The types that the proofs need; the bounds of TypeOK are left to TLC.
Typed ==
    /\ status \in [Jobs -> Statuses]
    /\ attempts \in [Jobs -> Nat]
    /\ lockedBy \in [Jobs -> Runners \cup {NoRunner}]
    /\ pc \in [Slots -> Live \cup {"idle"}]
    /\ job \in [Slots -> Jobs \cup {NoJob}]
    /\ \A s \in Slots : pc[s] \in Live <=> job[s] # NoJob
    /\ seen \in [Slots -> Nat]
    /\ mode \in [Runners -> Modes]
    /\ faults \in [Counted -> Nat]

Active == {"pending", "running"}

\* idx_jobs_dedup: of the rows with one key, at most one is pending or running.
OneActiveRow ==
    \A j, k \in Jobs : KeyOf[j] = KeyOf[k] /\ status[j] \in Active /\ status[k] \in Active => j = k

\* A task alone at its row: the row is running until the task marks it, never
\* pending while the task lives, and has the attempts that the task has seen.
Alone(s) ==
    /\ status[job[s]] \in {"running", "completed", "failed", "dead_lettered"}
    /\ pc[s] # "reset" => status[job[s]] = "running"
    /\ seen[s] = attempts[job[s]]
    /\ \A t \in Slots : pc[t] \in Live /\ job[t] = job[s] => t = s

TasksAlone == faults["slow"] = 0 => \A s \in Slots : pc[s] \in Live => Alone(s)

Clean == \A c \in Classes : faults[c] = 0

\* Without faults a row is not running any more when its task comes to reset it,
\* and a running row has a task of the runner that holds its lock.
Attended ==
    Clean => /\ \A s \in Slots : pc[s] = "reset" => status[job[s]] # "running"
             /\ \A j \in Jobs : status[j] = "running" =>
                    \E s \in Slots : pc[s] \in Live /\ job[s] = j /\ lockedBy[j] = RunnerOf[s]

Inv == Typed /\ OneActiveRow /\ TasksAlone /\ Attended

-----------------------------------------------------------------------------
(* Faults and the table *)

\* The fault counters only grow, and a fault counts in its own class.
LEMMA FaultCounts ==
    ASSUME Typed, NEW kind \in AllFaults, Fault(kind)
    PROVE  /\ faults' \in [Counted -> Nat]
           /\ ~Clean'
           /\ faults'["slow"] = 0 => faults["slow"] = 0 /\ kind # "slow"
<1>1. ClassOf(kind) \in Classes /\ (kind = "slow" => ClassOf(kind) = "slow")
  BY DEF AllFaults, ClassOf, Classes
<1>2. ClassOf(kind) \in Counted /\ "slow" \in Counted
  BY <1>1 DEF Counted, Classes
<1>3. faults' = [faults EXCEPT ![ClassOf(kind)] = @ + 1] /\ faults \in [Counted -> Nat]
  BY DEF Fault, Typed
<1>4. faults'[ClassOf(kind)] # 0
  BY <1>2, <1>3
<1>5. faults' \in [Counted -> Nat]
  BY <1>2, <1>3
<1>6. faults'["slow"] = 0 => faults["slow"] = 0 /\ ClassOf(kind) # "slow"
  BY <1>2, <1>3
<1> QED  BY <1>1, <1>4, <1>5, <1>6 DEF Clean

\* What an UPDATE by id leaves behind, and when it has no effect.
LEMMA UnlockOutcome ==
    ASSUME Typed, NEW j \in Jobs, NEW new \in JobStatus, NEW n \in Nat, NEW wait,
           Unlock(j, new, n, wait)
    PROVE  /\ status' \in [Jobs -> Statuses]
           /\ attempts' \in [Jobs -> Nat]
           /\ lockedBy' \in [Jobs -> Runners \cup {NoRunner}]
           /\ faults' \in [Counted -> Nat]
           /\ faults'["slow"] = 0 => faults["slow"] = 0
           /\ Clean' => Clean
           /\ \A k \in Jobs \ {j} : /\ status'[k] = status[k]
                                    /\ attempts'[k] = attempts[k]
                                    /\ lockedBy'[k] = lockedBy[k]
           /\ \/ status'[j] = new /\ attempts'[j] = n /\ IndexAllows(j, new)
              \/ /\ status'[j] = status[j] /\ attempts'[j] = attempts[j]
                 /\ Clean' => status[j] = "deleted" \/ ~TriggerAllows(j, new) \/ ~IndexAllows(j, new)
<1> USE DEF Typed
<1>1. CASE /\ status' = [status EXCEPT ![j] = new]
           /\ lockedBy' = [lockedBy EXCEPT ![j] = NoRunner]
           /\ attempts' = [attempts EXCEPT ![j] = n]
           /\ UNCHANGED history
           /\ IndexAllows(j, new)
  BY <1>1 DEF history, Statuses, Clean
<1>2. CASE /\ status[j] = "deleted" \/ ~ TriggerAllows(j, new) \/ ~ IndexAllows(j, new)
           /\ UNCHANGED <<table, history>>
  BY <1>2 DEF history, table, Clean
<1>3. CASE Fault("db_error") /\ UNCHANGED table
  <2>1. "db_error" \in AllFaults
    BY DEF AllFaults
  <2> HIDE DEF Typed
  <2>2. /\ faults' \in [Counted -> Nat] /\ ~Clean'
        /\ faults'["slow"] = 0 => faults["slow"] = 0
    BY <1>3, <2>1, FaultCounts
  <2> QED  BY <1>3, <2>2 DEF table, Typed
<1> QED  BY <1>1, <1>2, <1>3 DEF Unlock

\* A running row can be marked: while its key is its own, only a database error
\* keeps an UPDATE from it.
LEMMA RunningIsMarked ==
    ASSUME OneActiveRow, NEW j \in Jobs, status[j] = "running",
           NEW new \in {"completed", "failed", "dead_lettered", "pending"}
    PROVE  TriggerAllows(j, new) /\ IndexAllows(j, new)
BY JobAssumption DEF OneActiveRow, TriggerAllows, IndexAllows, Active

-----------------------------------------------------------------------------
(* Tasks that end *)

\* A task ends: its slot is free, the others go on.
LEMMA DoneFrees ==
    ASSUME Typed, NEW s \in Slots, Done(s)
    PROVE  /\ pc' \in [Slots -> Live \cup {"idle"}]
           /\ job' \in [Slots -> Jobs \cup {NoJob}]
           /\ \A t \in Slots : pc'[t] \in Live <=> job'[t] # NoJob
           /\ seen' \in [Slots -> Nat]
           /\ mode' \in [Runners -> Modes]
           /\ pc'[s] = "idle"
           /\ \A t \in Slots \ {s} : pc'[t] = pc[t] /\ job'[t] = job[t] /\ seen'[t] = seen[t]
<1>1. "idle" \notin Live
  BY DEF Live
<1>2. mode' \in [Runners -> Modes]
  BY Zenon DEF Done, Typed, Modes
<1> QED  BY <1>1, <1>2 DEF Done, Typed

\* A task goes on with its row.
LEMMA GotoKeeps ==
    ASSUME Typed, NEW s \in Slots, pc[s] \in Live, NEW label \in Live, Goto(s, label)
    PROVE  /\ pc' \in [Slots -> Live \cup {"idle"}]
           /\ UNCHANGED <<job, seen>>
           /\ \A t \in Slots : pc'[t] \in Live <=> job'[t] # NoJob
           /\ pc'[s] = label
           /\ \A t \in Slots \ {s} : pc'[t] = pc[t]
BY DEF Goto, Typed

\* A process ends: the tasks of its runner are gone, the others go on.
LEMMA ExitFrees ==
    ASSUME Typed, NEW r \in Runners, Exit(r)
    PROVE  /\ pc' \in [Slots -> Live \cup {"idle"}]
           /\ job' \in [Slots -> Jobs \cup {NoJob}]
           /\ \A t \in Slots : pc'[t] \in Live <=> job'[t] # NoJob
           /\ seen' \in [Slots -> Nat]
           /\ mode' \in [Runners -> Modes]
           /\ \A t \in Slots : pc'[t] \in Live =>
                  RunnerOf[t] # r /\ pc'[t] = pc[t] /\ job'[t] = job[t] /\ seen'[t] = seen[t]
           /\ \A t \in Slots : RunnerOf[t] # r =>
                  pc'[t] = pc[t] /\ job'[t] = job[t] /\ seen'[t] = seen[t]
<1>1. "idle" \notin Live
  BY DEF Live
<1>2. mode' \in [Runners -> Modes]
  BY DEF Exit, Typed, Modes
<1> QED  BY <1>1, <1>2 DEF Exit, Typed

\* Tasks of one runner end with its process and the table stays: what remains of
\* the invariant, given that the counters did not shrink and that a process that
\* ends without a fault has no task.
LEMMA ExitKeepsInv ==
    ASSUME Inv, NEW r \in Runners, Exit(r), UNCHANGED table,
           faults' \in [Counted -> Nat],
           faults'["slow"] = 0 => faults["slow"] = 0,
           Clean' => Clean /\ in_flight(r) = {}
    PROVE  Inv'
<1> USE DEF Inv
<1>1. /\ pc' \in [Slots -> Live \cup {"idle"}]
      /\ job' \in [Slots -> Jobs \cup {NoJob}]
      /\ \A t \in Slots : pc'[t] \in Live <=> job'[t] # NoJob
      /\ seen' \in [Slots -> Nat]
      /\ mode' \in [Runners -> Modes]
  BY ExitFrees
<1>2. \A t \in Slots : pc'[t] \in Live =>
          RunnerOf[t] # r /\ pc'[t] = pc[t] /\ job'[t] = job[t] /\ seen'[t] = seen[t]
  BY ExitFrees
<1>3. \A t \in Slots : RunnerOf[t] # r => pc'[t] = pc[t] /\ job'[t] = job[t] /\ seen'[t] = seen[t]
  BY ExitFrees
<1>4. status' = status /\ attempts' = attempts /\ lockedBy' = lockedBy
  BY DEF table
<1>5. Typed'
  BY <1>1, <1>4 DEF Typed
<1>6. OneActiveRow'
  BY <1>4 DEF OneActiveRow
<1>7. TasksAlone'
  BY <1>2, <1>4 DEF TasksAlone, Alone
<1>8. Attended'
  <2> SUFFICES ASSUME Clean' PROVE
        /\ \A s \in Slots : pc'[s] = "reset" => status'[job'[s]] # "running"
        /\ \A j \in Jobs : status'[j] = "running" =>
               \E s \in Slots : pc'[s] \in Live /\ job'[s] = j /\ lockedBy'[j] = RunnerOf[s]
    BY DEF Attended
  <2>1. \A s \in Slots : pc[s] \in Live => RunnerOf[s] # r
    BY DEF in_flight, SlotsOf, Live
  <2>2. "reset" \in Live
    BY DEF Live
  <2> QED  BY <1>2, <1>3, <1>4, <2>1, <2>2 DEF Attended
<1> QED  BY <1>5, <1>6, <1>7, <1>8

-----------------------------------------------------------------------------
(* Tasks that mark their row *)

Marks == {"completed", "failed", "dead_lettered", "pending"}

\* What holds of the row of a task before it marks it: it belongs to nobody else,
\* and without faults the UPDATE changes it or it is not running.
LEMMA OwnRow ==
    ASSUME Inv, NEW s \in Slots, pc[s] \in Live, NEW new \in Marks, NEW n \in Nat, NEW wait,
           Unlock(job[s], new, n, wait)
    PROVE  /\ job[s] \in Jobs
           /\ OneActiveRow'
           /\ faults'["slow"] = 0 => faults["slow"] = 0 /\ Alone(s)
           /\ Clean' => status'[job[s]] # "running"
<1> USE DEF Inv
<1>1. job[s] \in Jobs
  BY JobAssumption DEF Typed
<1>2. new \in JobStatus
  BY DEF Marks, JobStatus
<1>3. /\ faults'["slow"] = 0 => faults["slow"] = 0
      /\ Clean' => Clean
      /\ \A k \in Jobs \ {job[s]} : status'[k] = status[k]
      /\ \/ status'[job[s]] = new /\ IndexAllows(job[s], new)
         \/ /\ status'[job[s]] = status[job[s]]
            /\ Clean' => \/ status[job[s]] = "deleted"
                         \/ ~TriggerAllows(job[s], new) \/ ~IndexAllows(job[s], new)
  BY <1>1, <1>2, UnlockOutcome
<1>4. OneActiveRow'
  BY <1>1, <1>3, JobAssumption DEF OneActiveRow, Active, IndexAllows
<1>5. faults["slow"] = 0 => Alone(s)
  BY DEF TasksAlone
<1>6. ASSUME Clean' PROVE status'[job[s]] # "running"
  <2>1. CASE status'[job[s]] = new
    BY <2>1 DEF Marks
  <2>2. CASE /\ status'[job[s]] = status[job[s]]
             /\ \/ status[job[s]] = "deleted"
                \/ ~TriggerAllows(job[s], new) \/ ~IndexAllows(job[s], new)
    <3>1. status[job[s]] = "running" => TriggerAllows(job[s], new) /\ IndexAllows(job[s], new)
      BY <1>1, RunningIsMarked DEF Marks
    <3> QED  BY <2>2, <3>1
  <2> QED  BY <1>3, <1>6, <2>1, <2>2
<1> QED  BY <1>1, <1>3, <1>4, <1>5, <1>6

\* A task marks its row and ends.
LEMMA MarkAndDone ==
    ASSUME Inv, NEW s \in Slots, pc[s] \in Live, NEW new \in Marks, NEW n \in Nat, NEW wait,
           Unlock(job[s], new, n, wait), Done(s)
    PROVE  Inv'
<1> USE DEF Inv
<1>1. /\ job[s] \in Jobs
      /\ OneActiveRow'
      /\ faults'["slow"] = 0 => faults["slow"] = 0 /\ Alone(s)
      /\ Clean' => status'[job[s]] # "running"
  BY OwnRow
<1>2. new \in JobStatus
  BY DEF Marks, JobStatus
<1>3. /\ status' \in [Jobs -> Statuses] /\ attempts' \in [Jobs -> Nat]
      /\ lockedBy' \in [Jobs -> Runners \cup {NoRunner}]
      /\ faults' \in [Counted -> Nat]
      /\ Clean' => Clean
      /\ \A k \in Jobs \ {job[s]} : /\ status'[k] = status[k] /\ attempts'[k] = attempts[k]
                                    /\ lockedBy'[k] = lockedBy[k]
  BY <1>1, <1>2, UnlockOutcome
<1>4. /\ pc' \in [Slots -> Live \cup {"idle"}] /\ job' \in [Slots -> Jobs \cup {NoJob}]
      /\ \A t \in Slots : pc'[t] \in Live <=> job'[t] # NoJob
      /\ seen' \in [Slots -> Nat] /\ mode' \in [Runners -> Modes]
  BY DoneFrees
<1>5. /\ pc'[s] = "idle" /\ "idle" \notin Live /\ "reset" \in Live
      /\ \A t \in Slots \ {s} : pc'[t] = pc[t] /\ job'[t] = job[t] /\ seen'[t] = seen[t]
  BY DoneFrees DEF Live
<1>6. Typed'
  BY <1>3, <1>4 DEF Typed
<1>7. TasksAlone'
  <2> SUFFICES ASSUME faults'["slow"] = 0, NEW t \in Slots, pc'[t] \in Live
               PROVE  Alone(t)'
    BY DEF TasksAlone
  <2>1. t # s /\ Alone(t) /\ Alone(s) /\ pc[t] \in Live /\ job'[t] = job[t] /\ job[t] \in Jobs
    BY <1>1, <1>5, JobAssumption DEF TasksAlone, Typed
  <2>2. job[t] # job[s]
    BY <2>1 DEF Alone
  <2>3. /\ status'[job[t]] = status[job[t]] /\ attempts'[job[t]] = attempts[job[t]]
        /\ pc'[t] = pc[t] /\ seen'[t] = seen[t]
    BY <1>3, <1>5, <2>1, <2>2
  <2>4. \A u \in Slots : pc'[u] \in Live /\ job'[u] = job'[t] => u = t
    BY <1>5, <2>1 DEF Alone
  <2> QED  BY <2>1, <2>3, <2>4 DEF Alone
<1>8. Attended'
  <2> SUFFICES ASSUME Clean' PROVE
        /\ \A t \in Slots : pc'[t] = "reset" => status'[job'[t]] # "running"
        /\ \A j \in Jobs : status'[j] = "running" =>
               \E t \in Slots : pc'[t] \in Live /\ job'[t] = j /\ lockedBy'[j] = RunnerOf[t]
    BY DEF Attended
  <2>1. ASSUME NEW t \in Slots, pc'[t] = "reset" PROVE status'[job'[t]] # "running"
    <3>1. t # s /\ pc[t] = "reset" /\ job'[t] = job[t] /\ job[t] \in Jobs
      BY <1>5, <2>1, JobAssumption DEF Typed
    <3> QED  BY <1>1, <1>3, <3>1 DEF Attended
  <2>2. ASSUME NEW j \in Jobs, status'[j] = "running"
        PROVE \E t \in Slots : pc'[t] \in Live /\ job'[t] = j /\ lockedBy'[j] = RunnerOf[t]
    <3>1. j # job[s] /\ status[j] = "running" /\ lockedBy'[j] = lockedBy[j]
      BY <1>1, <1>3, <2>2
    <3>2. PICK t \in Slots : pc[t] \in Live /\ job[t] = j /\ lockedBy[j] = RunnerOf[t]
      BY <1>3, <3>1 DEF Attended
    <3> QED  BY <1>5, <3>1, <3>2
  <2> QED  BY <2>1, <2>2
<1> QED  BY <1>1, <1>6, <1>7, <1>8

\* A task marks its row and goes on to reset it.  That the mark was not a retry
\* is what keeps the row from being claimed meanwhile.
LEMMA MarkAndReset ==
    ASSUME Inv, NEW s \in Slots, pc[s] \in Live, pc[s] # "reset", NEW new \in Marks, NEW wait,
           Unlock(job[s], new, attempts[job[s]], wait), Goto(s, "reset"), UNCHANGED mode,
           faults["slow"] = 0 => new # "pending"
    PROVE  Inv'
<1> USE DEF Inv
<1>1. /\ job[s] \in Jobs
      /\ attempts[job[s]] \in Nat
  BY JobAssumption DEF Typed
<1>2. /\ OneActiveRow'
      /\ faults'["slow"] = 0 => faults["slow"] = 0 /\ Alone(s)
      /\ Clean' => status'[job[s]] # "running"
  BY <1>1, OwnRow
<1>3. new \in JobStatus /\ "reset" \in Live
  BY DEF Marks, JobStatus, Live
<1>4. /\ status' \in [Jobs -> Statuses] /\ attempts' \in [Jobs -> Nat]
      /\ lockedBy' \in [Jobs -> Runners \cup {NoRunner}]
      /\ faults' \in [Counted -> Nat]
      /\ Clean' => Clean
      /\ \A k \in Jobs \ {job[s]} : /\ status'[k] = status[k] /\ attempts'[k] = attempts[k]
                                    /\ lockedBy'[k] = lockedBy[k]
      /\ attempts'[job[s]] = attempts[job[s]]
      /\ status'[job[s]] \in {new, status[job[s]]}
  BY <1>1, <1>3, UnlockOutcome
<1>5. /\ pc' \in [Slots -> Live \cup {"idle"}] /\ UNCHANGED <<job, seen>>
      /\ \A t \in Slots : pc'[t] \in Live <=> job'[t] # NoJob
      /\ pc'[s] = "reset"
      /\ \A t \in Slots \ {s} : pc'[t] = pc[t]
  BY <1>3, GotoKeeps
<1>6. Typed'
  BY <1>4, <1>5 DEF Typed
<1>7. TasksAlone'
  <2> SUFFICES ASSUME faults'["slow"] = 0, NEW t \in Slots, pc'[t] \in Live
               PROVE  Alone(t)'
    BY DEF TasksAlone
  <2>1. Alone(t) /\ Alone(s) /\ pc[t] \in Live /\ job[t] \in Jobs
    BY <1>2, <1>5, JobAssumption DEF TasksAlone, Typed
  <2>2. \A u \in Slots : pc'[u] \in Live /\ job'[u] = job'[t] => u = t
    BY Zenon, <1>5, <2>1 DEF Alone
  <2>3. CASE t = s
    <3>1. status[job[s]] = "running" /\ new \in {"completed", "failed", "dead_lettered"}
      BY <1>2, <2>1 DEF Alone, Marks
    <3> QED  BY Zenon, <1>4, <1>5, <2>1, <2>2, <2>3, <3>1 DEF Alone
  <2>4. CASE t # s
    <3>1. job[t] # job[s]
      BY Zenon, <2>1, <2>4 DEF Alone
    <3> QED  BY Zenon, <1>4, <1>5, <2>1, <2>2, <2>4, <3>1 DEF Alone
  <2> QED  BY <2>3, <2>4
<1>8. Attended'
  <2> SUFFICES ASSUME Clean' PROVE
        /\ \A t \in Slots : pc'[t] = "reset" => status'[job'[t]] # "running"
        /\ \A j \in Jobs : status'[j] = "running" =>
               \E t \in Slots : pc'[t] \in Live /\ job'[t] = j /\ lockedBy'[j] = RunnerOf[t]
    BY DEF Attended
  <2>1. ASSUME NEW t \in Slots, pc'[t] = "reset" PROVE status'[job'[t]] # "running"
    <3>1. CASE t = s
      BY Zenon, <1>2, <1>5, <3>1
    <3>2. CASE t # s
      <4>1. pc[t] = "reset" /\ job'[t] = job[t] /\ job[t] \in Jobs
        BY <1>3, <1>5, <2>1, <3>2, JobAssumption DEF Typed
      <4> QED  BY <1>2, <1>4, <4>1 DEF Attended
    <3> QED  BY <3>1, <3>2
  <2>2. ASSUME NEW j \in Jobs, status'[j] = "running"
        PROVE \E t \in Slots : pc'[t] \in Live /\ job'[t] = j /\ lockedBy'[j] = RunnerOf[t]
    <3>1. j # job[s] /\ status[j] = "running" /\ lockedBy'[j] = lockedBy[j]
      BY <1>2, <1>4, <2>2
    <3>2. PICK t \in Slots : pc[t] \in Live /\ job[t] = j /\ lockedBy[j] = RunnerOf[t]
      BY <1>4, <3>1 DEF Attended
    <3> QED  BY Zenon, <1>5, <3>1, <3>2
  <2> QED  BY <2>1, <2>2
<1> QED  BY <1>2, <1>6, <1>7, <1>8

-----------------------------------------------------------------------------
(* The steps *)

\* A step of a task keeps the invariant.  A handler that is cut off is a fault;
\* the retry of a task whose policy is ResetToNext is its last one, because the
\* attempts of the row are those of its snapshot.
LEMMA RunJobKeepsInv ==
    ASSUME Inv, NEW s \in Slots, run_job(s)
    PROVE  Inv'
<1> USE DEF Inv
<1>1. CASE execute(s)
  <2>1. pc[s] \in Live /\ UNCHANGED <<status, attempts, lockedBy>>
    BY <1>1 DEF execute, Live, table
  <2>2. ASSUME NEW o \in Outcomes, Goto(s, o), UNCHANGED <<mode, history>> PROVE Inv'
    <3>1. o \in Live /\ o # "reset" /\ pc[s] # "reset" /\ "reset" \in Live
      BY <1>1, JobAssumption DEF Live, execute
    <3>2. /\ pc' \in [Slots -> Live \cup {"idle"}] /\ UNCHANGED <<job, seen>>
          /\ \A t \in Slots : pc'[t] \in Live <=> job'[t] # NoJob
          /\ pc'[s] = o
          /\ \A t \in Slots \ {s} : pc'[t] = pc[t]
      BY <2>1, <2>2, <3>1, GotoKeeps
    <3>3. faults' = faults
      BY <2>2 DEF history
    <3>4. Typed' /\ OneActiveRow'
      BY <2>1, <2>2, <3>2, <3>3 DEF Typed, OneActiveRow
    <3>5. TasksAlone'
      BY <2>1, <3>1, <3>2, <3>3 DEF TasksAlone, Alone
    <3>6. Attended'
      BY <2>1, <3>1, <3>2, <3>3 DEF Attended, Clean
    <3> QED  BY <3>4, <3>5, <3>6
  <2>3. ASSUME Fault("timeout"), Done(s) PROVE Inv'
    <3>1. faults' \in [Counted -> Nat] /\ ~Clean' /\ (faults'["slow"] = 0 => faults["slow"] = 0)
      BY <2>3, FaultCounts DEF AllFaults
    <3>2. /\ pc' \in [Slots -> Live \cup {"idle"}] /\ job' \in [Slots -> Jobs \cup {NoJob}]
          /\ \A t \in Slots : pc'[t] \in Live <=> job'[t] # NoJob
          /\ seen' \in [Slots -> Nat] /\ mode' \in [Runners -> Modes]
          /\ pc'[s] = "idle" /\ "idle" \notin Live
          /\ \A t \in Slots \ {s} : pc'[t] = pc[t] /\ job'[t] = job[t] /\ seen'[t] = seen[t]
      BY <2>3, DoneFrees DEF Live
    <3>3. Typed' /\ OneActiveRow'
      BY <2>1, <3>1, <3>2 DEF Typed, OneActiveRow
    <3>4. TasksAlone'
      BY <2>1, <3>1, <3>2 DEF TasksAlone, Alone
    <3> QED  BY <3>1, <3>3, <3>4 DEF Attended
  <2> QED  BY <1>1, <2>2, <2>3 DEF execute
<1>2. CASE mark_completed(s)
  <2>1. pc[s] \in Live /\ pc[s] # "reset" /\ "completed" \in Marks
    BY <1>2 DEF mark_completed, Live, Marks
  <2>2. job[s] \in Jobs /\ attempts[job[s]] \in Nat
    BY <2>1, JobAssumption DEF Typed
  <2>3. CASE Goto(s, "reset") /\ UNCHANGED mode
    BY Zenon, <1>2, <2>1, <2>3, MarkAndReset DEF mark_completed
  <2>4. CASE Done(s)
    BY Zenon, <1>2, <2>1, <2>2, <2>4, MarkAndDone DEF mark_completed
  <2> QED  BY <1>2, <2>3, <2>4 DEF mark_completed
<1>3. CASE mark_retry_or_failed(s)
  <2> DEFINE new == RetryStatus(job[s])
  <2>1. pc[s] \in Live /\ pc[s] # "reset" /\ new \in Marks
    BY <1>3 DEF mark_retry_or_failed, Live, Marks, RetryStatus
  <2>2. job[s] \in Jobs /\ attempts[job[s]] \in Nat
    BY <2>1, JobAssumption DEF Typed
  <2>3. CASE seen[s] >= MaxRetries /\ Goto(s, "reset") /\ UNCHANGED mode
    <3>1. faults["slow"] = 0 => seen[s] = attempts[job[s]]
      BY <2>1 DEF TasksAlone, Alone
    <3>2. faults["slow"] = 0 => new # "pending"
      BY <2>3, <3>1 DEF RetryStatus
    <3>3. Unlock(job[s], new, attempts[job[s]], new = "pending")
      BY <1>3 DEF mark_retry_or_failed
    <3> HIDE DEF new
    <3> QED  BY Zenon, <2>1, <2>3, <3>2, <3>3, MarkAndReset
  <2>4. CASE Done(s)
    <3>1. Unlock(job[s], new, attempts[job[s]], new = "pending")
      BY <1>3 DEF mark_retry_or_failed
    <3> HIDE DEF new
    <3> QED  BY <2>1, <2>2, <2>4, <3>1, MarkAndDone
  <2> QED  BY <1>3, <2>3, <2>4 DEF mark_retry_or_failed
<1>4. CASE mark_dead_lettered(s)
  <2>1. pc[s] \in Live /\ "dead_lettered" \in Marks
    BY <1>4 DEF mark_dead_lettered, Live, Marks
  <2>2. attempts[job[s]] \in Nat
    BY <2>1, JobAssumption DEF Typed
  <2> QED  BY Zenon, <1>4, <2>1, <2>2, MarkAndDone DEF mark_dead_lettered
<1>5. CASE reset_recurring(s)
  <2>1. pc[s] \in Live /\ "pending" \in Marks
    BY <1>5 DEF reset_recurring, Live, Marks
  <2> QED  BY Zenon, <1>5, <2>1, MarkAndDone DEF reset_recurring
<1> QED  BY <1>1, <1>2, <1>3, <1>4, <1>5 DEF run_job

\* Rows that have no task change and the tasks go on: what release_stale_locks,
\* cleanup_completed and the inserts do while nothing goes wrong.
LEMMA IdleRowsChange ==
    ASSUME Inv, NEW S \in SUBSET Jobs,
           status' \in [Jobs -> Statuses], attempts' \in [Jobs -> Nat],
           lockedBy' \in [Jobs -> Runners \cup {NoRunner}],
           UNCHANGED tasks, mode' \in [Runners -> Modes], faults' \in [Counted -> Nat],
           faults'["slow"] = 0 => faults["slow"] = 0,
           Clean' => Clean,
           OneActiveRow',
           \A j \in Jobs \ S : /\ status'[j] = status[j] /\ attempts'[j] = attempts[j]
                               /\ lockedBy'[j] = lockedBy[j],
           \A j \in S : status'[j] # "running",
           faults'["slow"] = 0 => \A j \in S : Tasks(j) = {}
    PROVE  Inv'
<1> USE DEF Inv
<1>1. pc' = pc /\ job' = job /\ seen' = seen
  BY DEF tasks
<1>2. Typed'
  BY <1>1 DEF Typed
<1>3. \A s \in Slots : pc[s] \in Live => job[s] \in Jobs
  BY JobAssumption DEF Typed
<1>4. faults'["slow"] = 0 => \A s \in Slots : pc[s] \in Live => job[s] \in Jobs \ S
  BY <1>3 DEF Tasks
<1>5. TasksAlone'
  BY Zenon, <1>1, <1>4 DEF TasksAlone, Alone
<1>6. Attended'
  <2>1. "reset" \in Live
    BY DEF Live
  <2>2. Clean' => faults'["slow"] = 0
    BY DEF Clean, Classes
  <2> QED  BY <1>1, <1>4, <2>1, <2>2 DEF Attended
<1> QED  BY <1>2, <1>5, <1>6

\* A claim keeps the invariant: the rows were pending, so no task was at them, and
\* each of them goes to one slot.
LEMMA ClaimKeepsInv ==
    ASSUME Inv, NEW r \in Runners, claim_batch(r)
    PROVE  Inv'
<1> USE DEF Inv
<1>1. PICK S \in (SUBSET Free(r)) \ {{}} : \E claim \in Injection(S, Claimable) :
        LET C == {claim[s] : s \in S} IN
        /\ IF C \subseteq Handles[r] THEN UNCHANGED history ELSE Fault("no_handler")
        /\ status' = [j \in Jobs |-> IF j \in C THEN "running" ELSE status[j]]
        /\ lockedBy' = [j \in Jobs |-> IF j \in C THEN r ELSE lockedBy[j]]
        /\ attempts' = [j \in Jobs |-> IF j \in C THEN attempts[j] + 1 ELSE attempts[j]]
        /\ LET Spawned == {s \in S : claim[s] \in Handles[r]} IN
           /\ pc' = [s \in Slots |-> IF s \in Spawned THEN "execute" ELSE pc[s]]
           /\ job' = [s \in Slots |-> IF s \in Spawned THEN claim[s] ELSE job[s]]
           /\ seen' = [s \in Slots |-> IF s \in Spawned THEN attempts[claim[s]] + 1 ELSE seen[s]]
  BY Zenon DEF claim_batch
<1>2. PICK claim \in Injection(S, Claimable) :
        LET C == {claim[s] : s \in S} IN
        /\ IF C \subseteq Handles[r] THEN UNCHANGED history ELSE Fault("no_handler")
        /\ status' = [j \in Jobs |-> IF j \in C THEN "running" ELSE status[j]]
        /\ lockedBy' = [j \in Jobs |-> IF j \in C THEN r ELSE lockedBy[j]]
        /\ attempts' = [j \in Jobs |-> IF j \in C THEN attempts[j] + 1 ELSE attempts[j]]
        /\ LET Spawned == {s \in S : claim[s] \in Handles[r]} IN
           /\ pc' = [s \in Slots |-> IF s \in Spawned THEN "execute" ELSE pc[s]]
           /\ job' = [s \in Slots |-> IF s \in Spawned THEN claim[s] ELSE job[s]]
           /\ seen' = [s \in Slots |-> IF s \in Spawned THEN attempts[claim[s]] + 1 ELSE seen[s]]
  BY Zenon, <1>1
<1> DEFINE C == {claim[s] : s \in S}
           Spawned == {s \in S : claim[s] \in Handles[r]}
<1>3. /\ S \subseteq Slots
      /\ \A s \in S : RunnerOf[s] = r /\ pc[s] = "idle"
  BY DEF Free, SlotsOf
<1>4. /\ \A s \in S : claim[s] \in Jobs /\ status[claim[s]] = "pending"
      /\ \A s, u \in S : claim[s] = claim[u] => s = u
  BY DEF Injection, IsInjective, Claimable
<1>5. /\ C \subseteq Jobs /\ (\A j \in C : status[j] = "pending")
      /\ Spawned \subseteq S
  BY Zenon, <1>4
<1>6. \A s \in Slots : pc'[s] = IF s \in Spawned THEN "execute" ELSE pc[s]
  BY <1>2
<1>7. \A s \in Slots : job'[s] = IF s \in Spawned THEN claim[s] ELSE job[s]
  BY <1>2
<1>8. \A s \in Slots : seen'[s] = IF s \in Spawned THEN attempts[claim[s]] + 1 ELSE seen[s]
  BY <1>2
<1>9. \A j \in Jobs : /\ status'[j] = IF j \in C THEN "running" ELSE status[j]
                      /\ lockedBy'[j] = IF j \in C THEN r ELSE lockedBy[j]
                      /\ attempts'[j] = IF j \in C THEN attempts[j] + 1 ELSE attempts[j]
  BY <1>2
<1>10. \A s \in Spawned : claim[s] \in C
  OBVIOUS
<1>11. /\ faults' \in [Counted -> Nat]
       /\ faults'["slow"] = 0 => faults["slow"] = 0
       /\ Clean' => Clean /\ Spawned = S
  <2>1. CASE C \subseteq Handles[r] /\ UNCHANGED history
    <3>1. Spawned = S
      BY <2>1
    <3> QED  BY <2>1, <3>1 DEF history, Typed, Clean
  <2>2. CASE Fault("no_handler")
    <3>1. faults' \in [Counted -> Nat] /\ ~Clean' /\ (faults'["slow"] = 0 => faults["slow"] = 0)
      BY Zenon, <2>2, FaultCounts DEF AllFaults
    <3> QED  BY <3>1
  <2> QED  BY <1>2, <2>1, <2>2
<1>12. Typed'
  <2>1. status' \in [Jobs -> Statuses]
    BY Zenon, <1>2 DEF Typed, Statuses, JobStatus
  <2>2. lockedBy' \in [Jobs -> Runners \cup {NoRunner}]
    BY Zenon, <1>2 DEF Typed
  <2>3. attempts' \in [Jobs -> Nat]
    BY <1>2 DEF Typed
  <2>4. pc' \in [Slots -> Live \cup {"idle"}]
    BY Zenon, <1>2 DEF Typed, Live
  <2>5. job' \in [Slots -> Jobs \cup {NoJob}]
    BY <1>2, <1>4 DEF Typed
  <2>6. \A s \in Spawned : attempts[claim[s]] + 1 \in Nat
    BY <1>4 DEF Typed
  <2>7. seen' \in [Slots -> Nat]
    BY Zenon, <1>2, <2>6 DEF Typed
  <2>8. \A s \in Slots : pc'[s] \in Live <=> job'[s] # NoJob
    <3>1. \A s \in Spawned : pc'[s] = "execute" /\ job'[s] \in Jobs
      BY Zenon, <1>3, <1>4, <1>6, <1>7
    <3>2. \A s \in Slots \ Spawned : pc'[s] = pc[s] /\ job'[s] = job[s]
      BY Zenon, <1>6, <1>7
    <3> QED  BY Zenon, <3>1, <3>2, JobAssumption DEF Typed, Live
  <2>9. mode' \in [Runners -> Modes]
    BY Zenon DEF claim_batch, Typed
  <2> QED  BY Zenon, <1>11, <2>1, <2>2, <2>3, <2>4, <2>5, <2>7, <2>8, <2>9 DEF Typed
<1> HIDE DEF C, Spawned
<1>13. OneActiveRow'
  BY <1>5, <1>9 DEF OneActiveRow, Active
<1>14. \A s \in Slots : pc[s] \in Live => job[s] \in Jobs
  BY JobAssumption DEF Typed
<1>15. TasksAlone'
  <2> SUFFICES ASSUME faults'["slow"] = 0, NEW s \in Slots, pc'[s] \in Live
               PROVE  Alone(s)'
    BY DEF TasksAlone
  <2>1. \A u \in Slots : pc[u] \in Live => Alone(u) /\ job[u] \in Jobs \ C
    <3>1. \A u \in Slots : pc[u] \in Live => Alone(u)
      BY Zenon, <1>11 DEF TasksAlone
    <3>2. \A j \in C : status[j] = "pending"
      BY <1>5
    <3> QED  BY <1>14, <3>1, <3>2 DEF Alone
  <2>2. CASE s \in Spawned
    <3>1. /\ job'[s] = claim[s] /\ claim[s] \in C /\ claim[s] \in Jobs
          /\ seen'[s] = attempts[claim[s]] + 1 /\ pc'[s] = "execute"
      BY Zenon, <1>4, <1>5, <1>6, <1>7, <1>8, <1>10, <2>2
    <3>2. status'[claim[s]] = "running" /\ attempts'[claim[s]] = attempts[claim[s]] + 1
      BY Zenon, <1>9, <3>1
    <3>3. ASSUME NEW u \in Slots, pc'[u] \in Live, job'[u] = job'[s] PROVE u = s
      <4>1. u \in Spawned
        BY Zenon, <1>6, <1>7, <2>1, <3>1, <3>3
      <4> QED  BY <1>4, <1>5, <1>7, <2>2, <3>1, <3>3, <4>1
    <3> QED  BY <3>1, <3>2, <3>3 DEF Alone
  <2>3. CASE s \notin Spawned
    <3>1. /\ job'[s] = job[s] /\ pc'[s] = pc[s] /\ seen'[s] = seen[s]
          /\ Alone(s) /\ job[s] \in Jobs \ C
      BY <1>6, <1>7, <1>8, <2>1, <2>3
    <3>2. status'[job[s]] = status[job[s]] /\ attempts'[job[s]] = attempts[job[s]]
      BY <1>9, <3>1
    <3>3. ASSUME NEW u \in Slots, pc'[u] \in Live, job'[u] = job'[s] PROVE u = s
      <4>1. u \notin Spawned
        BY Zenon, <1>7, <1>10, <3>1, <3>3
      <4> QED  BY <1>6, <1>7, <3>1, <3>3, <4>1 DEF Alone
    <3> QED  BY Zenon, <3>1, <3>2, <3>3 DEF Alone
  <2> QED  BY <2>2, <2>3
<1>16. Attended'
  <2> SUFFICES ASSUME Clean' PROVE
        /\ \A s \in Slots : pc'[s] = "reset" => status'[job'[s]] # "running"
        /\ \A j \in Jobs : status'[j] = "running" =>
               \E s \in Slots : pc'[s] \in Live /\ job'[s] = j /\ lockedBy'[j] = RunnerOf[s]
    BY DEF Attended
  <2>1. Clean /\ Spawned = S /\ faults["slow"] = 0
    BY <1>11 DEF Clean, Classes
  <2>2. ASSUME NEW s \in Slots, pc'[s] = "reset" PROVE status'[job'[s]] # "running"
    <3>1. s \notin Spawned /\ pc[s] = "reset" /\ job'[s] = job[s] /\ pc[s] \in Live
      BY Zenon, <1>6, <1>7, <2>2 DEF Live
    <3>2. job[s] \in Jobs /\ status[job[s]] # "running" /\ status[job[s]] # "pending"
      BY Zenon, <1>14, <2>1, <3>1 DEF Attended, TasksAlone, Alone
    <3> QED  BY <1>5, <1>9, <3>1, <3>2
  <2>3. ASSUME NEW j \in Jobs, status'[j] = "running"
        PROVE \E s \in Slots : pc'[s] \in Live /\ job'[s] = j /\ lockedBy'[j] = RunnerOf[s]
    <3>1. CASE j \in C
      <4>1. PICK s \in S : claim[s] = j
        BY <3>1 DEF C
      <4>2. pc'[s] \in Live /\ job'[s] = j /\ lockedBy'[j] = RunnerOf[s] /\ s \in Slots
        BY <1>3, <1>6, <1>7, <1>9, <2>1, <3>1, <4>1 DEF Live
      <4> QED  BY <4>2
    <3>2. CASE j \notin C
      <4>1. PICK s \in Slots : pc[s] \in Live /\ job[s] = j /\ lockedBy[j] = RunnerOf[s]
        BY Zenon, <1>9, <2>1, <2>3, <3>2 DEF Attended
      <4>2. s \notin Spawned
        BY Zenon, <1>3, <2>1, <4>1 DEF Live
      <4> QED  BY Zenon, <1>6, <1>7, <1>9, <3>2, <4>1, <4>2
    <3> QED  BY <3>1, <3>2
  <2> QED  BY <2>2, <2>3
<1> QED  BY <1>12, <1>13, <1>15, <1>16

\* release_stale_locks under a live task is the fault "slow"; the other rows it
\* frees have no task.
LEMMA ReleaseKeepsInv ==
    ASSUME Inv, NEW S \in SUBSET Jobs, release_stale_locks(S)
    PROVE  Inv'
<1>1. /\ \A j \in S : status[j] = "running" /\ status'[j] = "pending" /\ lockedBy'[j] = NoRunner
      /\ \A j \in Jobs \ S : status'[j] = status[j] /\ lockedBy'[j] = lockedBy[j]
      /\ attempts' = attempts /\ mode' = mode /\ UNCHANGED tasks
  BY DEF release_stale_locks
<1>2. /\ status' \in [Jobs -> Statuses] /\ attempts' \in [Jobs -> Nat]
      /\ lockedBy' \in [Jobs -> Runners \cup {NoRunner}]
      /\ mode' \in [Runners -> Modes]
  BY <1>1 DEF release_stale_locks, Inv, Typed, Statuses, JobStatus
<1>3. OneActiveRow'
  BY <1>1 DEF OneActiveRow, Inv, Active
<1>4. /\ faults' \in [Counted -> Nat]
      /\ faults'["slow"] = 0 => faults["slow"] = 0
      /\ Clean' => Clean
      /\ faults'["slow"] = 0 => \A j \in S : Tasks(j) = {}
  <2>1. CASE Fault("slow")
    BY <2>1, FaultCounts DEF AllFaults, Inv
  <2>2. CASE UNCHANGED history /\ \A j \in S : Tasks(j) = {}
    BY <2>2 DEF history, Inv, Typed, Clean
  <2> QED  BY <2>1, <2>2 DEF release_stale_locks
<1>5. \A j \in Jobs \ S : /\ status'[j] = status[j] /\ attempts'[j] = attempts[j]
                          /\ lockedBy'[j] = lockedBy[j]
  BY <1>1
<1>6. \A j \in S : status'[j] # "running"
  BY <1>1
<1> QED  BY Zenon, <1>1, <1>2, <1>3, <1>4, <1>5, <1>6, IdleRowsChange

\* cleanup_completed deletes rows that no task is at.
LEMMA CleanupKeepsInv ==
    ASSUME Inv, NEW S \in SUBSET Jobs, cleanup_completed(S)
    PROVE  Inv'
<1>1. /\ \A j \in S : status'[j] = "deleted" /\ Tasks(j) = {}
      /\ \A j \in Jobs \ S : status'[j] = status[j] /\ attempts'[j] = attempts[j]
      /\ lockedBy' = lockedBy /\ mode' = mode /\ UNCHANGED tasks /\ UNCHANGED history
  BY DEF cleanup_completed
<1>2. /\ status' \in [Jobs -> Statuses] /\ attempts' \in [Jobs -> Nat]
      /\ lockedBy' \in [Jobs -> Runners \cup {NoRunner}]
      /\ mode' \in [Runners -> Modes] /\ faults' \in [Counted -> Nat]
  BY <1>1 DEF cleanup_completed, Inv, Typed, Statuses, history
<1>3. OneActiveRow'
  BY <1>1 DEF OneActiveRow, Inv, Active
<1>4. faults' = faults /\ (Clean' <=> Clean)
  BY <1>1 DEF history, Clean
<1>5. \A j \in S : status'[j] # "running"
  BY <1>1
<1> QED  BY <1>1, <1>2, <1>3, <1>4, <1>5, IdleRowsChange

\* A new row gets no task: the insert of one row, or of the seeds of a start.
LEMMA InsertKeepsInv ==
    ASSUME Inv, NEW S \in SUBSET Jobs,
           \A j \in S : status[j] = "absent" /\ IndexAllows(j, "pending"),
           \A j, k \in S : KeyOf[j] = KeyOf[k] => j = k,
           status' = [j \in Jobs |-> IF j \in S THEN "pending" ELSE status[j]],
           UNCHANGED <<attempts, lockedBy, tasks, history>>,
           mode' \in [Runners -> Modes]
    PROVE  Inv'
<1>1. /\ \A j \in S : status'[j] = "pending"
      /\ \A j \in Jobs \ S : status'[j] = status[j]
  OBVIOUS
<1>2. /\ status' \in [Jobs -> Statuses] /\ attempts' \in [Jobs -> Nat]
      /\ lockedBy' \in [Jobs -> Runners \cup {NoRunner}] /\ faults' \in [Counted -> Nat]
  BY DEF Inv, Typed, Statuses, JobStatus, history
<1>3. OneActiveRow'
  <2> SUFFICES ASSUME NEW j \in Jobs, NEW k \in Jobs, KeyOf[j] = KeyOf[k],
                      status'[j] \in Active, status'[k] \in Active
               PROVE  j = k
    BY DEF OneActiveRow
  <2>1. CASE j \in S /\ k \in S
    BY <2>1
  <2>2. CASE j \in S /\ k \notin S
    BY <1>1, <2>2 DEF IndexAllows, Active
  <2>3. CASE j \notin S /\ k \in S
    BY <1>1, <2>3 DEF IndexAllows, Active
  <2>4. CASE j \notin S /\ k \notin S
    BY <1>1, <2>4 DEF Inv, OneActiveRow
  <2> QED  BY <2>1, <2>2, <2>3, <2>4
<1>4. faults' = faults /\ (Clean' <=> Clean)
  BY DEF history, Clean
<1>5. \A j \in S : status'[j] # "running"
  BY <1>1
<1>6. faults["slow"] = 0 => \A j \in S : Tasks(j) = {}
  BY DEF Inv, TasksAlone, Alone, Tasks
<1> QED  BY <1>1, <1>2, <1>3, <1>4, <1>5, <1>6, IdleRowsChange

\* The seeds are new rows, one for each key.
LEMMA SeedsAreNew ==
    /\ Seeds \in SUBSET Jobs
    /\ \A j \in Seeds : status[j] = "absent" /\ IndexAllows(j, "pending")
    /\ \A j, k \in Seeds : KeyOf[j] = KeyOf[k] => j = k
<1> DEFINE New == {j \in Recurring : status[j] = "absent" /\ IndexAllows(j, "pending")}
           Keys == {KeyOf[j] : j \in New}
           Pick(key) == CHOOSE j \in New : KeyOf[j] = key
<1>1. Seeds = {Pick(key) : key \in Keys}
  BY DEF Seeds
<1>2. \A key \in Keys : Pick(key) \in New /\ KeyOf[Pick(key)] = key
  OBVIOUS
<1>3. New \subseteq Jobs
  BY JobAssumption
<1>4. \A j \in Seeds : j \in New /\ j = Pick(KeyOf[j])
  BY <1>1, <1>2
<1> QED  BY Zenon, <1>3, <1>4

-----------------------------------------------------------------------------
(* The theorems *)

\* The inductive invariant of the runners holds in every reachable state: among
\* it that the index on (job_type, dedup_key) leaves one active row per key, and
\* that a task is alone at its row and has seen the attempts of the row.
THEOREM RunnerInvariant == Spec => []Inv
<1>1. Init => Inv
  <2> SUFFICES ASSUME Init PROVE Inv
    OBVIOUS
  <2>1. Typed
    BY JobAssumption DEF Init, Typed, Statuses, Live, Modes
  <2>2. OneActiveRow
    BY DEF Init, OneActiveRow, Active
  <2>3. TasksAlone /\ Attended
    BY DEF Init, TasksAlone, Attended, Live
  <2> QED  BY <2>1, <2>2, <2>3 DEF Inv
<1>2. Inv /\ [Next]_vars => Inv'
  <2> SUFFICES ASSUME Inv, [Next]_vars PROVE Inv'
    OBVIOUS
  <2>1. ASSUME NEW j \in Jobs, enqueue_job(j) PROVE Inv'
    <3>1. status' = [k \in Jobs |-> IF k \in {j} THEN "pending" ELSE status[k]]
      BY Zenon, <2>1 DEF enqueue_job, Inv, Typed
    <3>2. mode' \in [Runners -> Modes]
      BY <2>1 DEF enqueue_job, Inv, Typed
    <3> QED  BY Zenon, <2>1, <3>1, <3>2, InsertKeepsInv DEF enqueue_job
  <2>2. ASSUME NEW j \in Jobs, next_run_at_passes(j) PROVE Inv'
    BY <2>2 DEF next_run_at_passes, tasks, history, Inv, Typed, OneActiveRow, TasksAlone, Alone,
                Attended, Clean
  <2>3. ASSUME NEW r \in Runners, run(r) PROVE Inv'
    <3>1. mode' \in [Runners -> Modes]
      BY Zenon, <2>3 DEF run, spawn_job_runner, Inv, Typed, Modes
    <3> QED  BY <2>3, <3>1, SeedsAreNew, InsertKeepsInv DEF run, spawn_job_runner, seed_recurring_jobs
  <2>4. ASSUME NEW r \in Runners, mode' \in [Runners -> Modes], UNCHANGED <<table, tasks>>,
               faults' \in [Counted -> Nat], \A c \in Classes : faults'[c] = faults[c]
        PROVE  Inv'
    <3>1. (Clean' <=> Clean) /\ faults'["slow"] = faults["slow"]
      BY <2>4 DEF Clean, Classes
    <3>2. /\ status' = status /\ attempts' = attempts /\ lockedBy' = lockedBy
          /\ pc' = pc /\ job' = job /\ seen' = seen
      BY <2>4 DEF table, tasks
    <3>3. Typed'
      BY <2>4, <3>2 DEF Inv, Typed
    <3> QED  BY <3>1, <3>2, <3>3 DEF Inv, OneActiveRow, TasksAlone, Alone, Attended
  <2>5. ASSUME NEW r \in Runners, Exit(r), UNCHANGED table,
               \/ \E kind \in AllFaults : Fault(kind)
               \/ UNCHANGED history /\ in_flight(r) = {}
        PROVE  Inv'
    <3>1. /\ faults' \in [Counted -> Nat]
          /\ faults'["slow"] = 0 => faults["slow"] = 0
          /\ Clean' => Clean /\ in_flight(r) = {}
      <4>1. CASE \E kind \in AllFaults : Fault(kind)
        BY <4>1, FaultCounts DEF Inv
      <4>2. CASE UNCHANGED history /\ in_flight(r) = {}
        BY <4>2 DEF history, Inv, Typed, Clean
      <4> QED  BY <2>5, <4>1, <4>2
    <3> QED  BY <2>5, <3>1, ExitKeepsInv
  <2>6. ASSUME NEW r \in Runners, bind(r) PROVE Inv'
    <3>1. CASE mode' = [mode EXCEPT ![r] = "up"] /\ UNCHANGED <<tasks, history>>
      BY <2>4, <2>6, <3>1 DEF bind, Inv, Typed, Modes, history
    <3>2. CASE Fault("bind") /\ Exit(r)
      BY <2>5, <2>6, <3>2 DEF bind, AllFaults
    <3> QED  BY <2>6, <3>1, <3>2 DEF bind
  <2>7. ASSUME NEW r \in Runners, crash(r) PROVE Inv'
    BY <2>5, <2>7 DEF crash, AllFaults
  <2>8. ASSUME NEW r \in Runners, shutdown(r) PROVE Inv'
    <3>1. "shutdown" \in Counted /\ "shutdown" \notin Classes /\ Classes \subseteq Counted
      BY DEF Counted, Classes
    <3>2. faults' \in [Counted -> Nat] /\ \A c \in Classes : faults'[c] = faults[c]
      BY <2>8, <3>1 DEF shutdown, Inv, Typed
    <3>3. mode' \in [Runners -> Modes] /\ UNCHANGED <<table, tasks>>
      BY <2>8 DEF shutdown, Inv, Typed, Modes
    <3> QED  BY <2>4, <3>2, <3>3
  <2>9. ASSUME NEW r \in Runners, drain(r) PROVE Inv'
    <3>1. CASE \E m \in Modes : mode' = [mode EXCEPT ![r] = m] /\ UNCHANGED <<table, tasks, history>>
      BY <2>4, <3>1 DEF Inv, Typed, history
    <3>2. CASE Exit(r) /\ UNCHANGED table /\ UNCHANGED history /\ in_flight(r) = {}
      BY <2>5, <3>2
    <3>3. CASE Exit(r) /\ UNCHANGED table /\ Fault("deadline")
      BY <2>5, <3>3 DEF AllFaults
    <3> QED  BY <2>9, <3>1, <3>2, <3>3 DEF drain, Modes
  <2>10. ASSUME NEW r \in Runners, exit(r) PROVE Inv'
    BY Zenon, <2>5, <2>10 DEF exit, AllFaults
  <2>11. CASE UNCHANGED vars
    BY <2>11 DEF vars, table, tasks, history, Inv, Typed, OneActiveRow, TasksAlone, Alone,
                 Attended, Clean
  <2> QED
    BY <2>1, <2>2, <2>3, <2>6, <2>7, <2>8, <2>9, <2>10, <2>11, ClaimKeepsInv, RunJobKeepsInv,
       ReleaseKeepsInv, CleanupKeepsInv DEF Next, cleanup_loop
<1> QED  BY <1>1, <1>2, PTL DEF Spec

\* A count of none or one is at most one.
LEMMA NoneOrOne == \A n \in {0, 1} : n <= 1
OBVIOUS

\* No two tasks work on one row, for any number of rows, runners and slots, as
\* long as release_stale_locks frees no row under a live task.
THEOREM AloneAtWork == Spec => []OneExecution
<1>1. Inv => OneExecution
  <2> SUFFICES ASSUME Inv, faults["slow"] = 0, NEW j \in Jobs PROVE Cardinality(Tasks(j)) <= 1
    BY Zenon DEF OneExecution
  <2>1. \A s \in Tasks(j) : Alone(s) /\ job[s] = j
    BY Zenon DEF Inv, TasksAlone, Tasks
  <2>2. \A s, u \in Tasks(j) : s = u
    BY Zenon, <2>1 DEF Alone, Tasks
  <2>3. CASE Tasks(j) = {}
    BY Zenon, <2>3, FS_EmptySet, NoneOrOne
  <2>4. ASSUME NEW s \in Tasks(j) PROVE Cardinality(Tasks(j)) <= 1
    <3>1. Tasks(j) = {s}
      BY Zenon, <2>2
    <3> QED  BY Zenon, <3>1, FS_Singleton, NoneOrOne
  <2> QED  BY Zenon, <2>3, <2>4
<1> QED  BY <1>1, RunnerInvariant, PTL

\* A running row has a task of the runner that locked it as long as no task was
\* cut off, no UPDATE failed and no lock was recovered early.
THEOREM RunningHasTask == Spec => []NoOrphans
<1>1. Inv => NoOrphans
  BY DEF Inv, Attended, Clean, NoOrphans, Tasks
<1> QED  BY <1>1, RunnerInvariant, PTL

=============================================================================
