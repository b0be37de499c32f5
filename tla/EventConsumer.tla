---------------------------- MODULE EventConsumer ----------------------------
(***************************************************************************)
(* KafkaEventConsumer of shared/src/events/consumer.rs: the members of one *)
(* consumer group reading one partition, each message handled in a         *)
(* database transaction together with its processed_events row, retried,   *)
(* sent to the dead-letter topic, and its offset committed afterwards.     *)
(*                                                                         *)
(* The partition is a fixed log: the relay delivers at least once, so an   *)
(* event may be in it several times, and Garbage stands for bytes that do  *)
(* not deserialize.  Kafka (assignment, committed offset, fencing of a     *)
(* member that does not own the partition) is modelled from how the code   *)
(* uses it.                                                                *)
(***************************************************************************)
EXTENDS Naturals, Sequences, FiniteSets, Functions

CONSTANTS
    Log,          \* the messages of the partition, each an event or Garbage
    Garbage,
    Members,      \* consumer instances of the group
    NoMember,
    MaxRetries,   \* ConsumerConfig::max_retries
    FaultKinds,   \* which of the faults below may happen
    FaultBudget   \* how many of them, in all

AllFaults == {"crash", "shutdown", "db_error", "ambiguous_commit", "dlq_error", "offset_lost",
              "rebalance", "zombie"}

Offsets == 1..Len(Log)
Events  == {Log[o] : o \in Offsets} \ {Garbage}

ASSUME ConsumerAssumption ==
    /\ Log \in Seq(Events \cup {Garbage})
    /\ NoMember \notin Members
    /\ MaxRetries \in Nat
    /\ FaultKinds \subseteq AllFaults
    /\ FaultBudget \in Nat

VARIABLES
    \* Kafka
    owner,      \* the member the partition is assigned to
    committed,  \* the group's committed offset: the next one to read
    dlq,        \* offsets with a copy in the dead-letter topic
    \* the service's database
    processed,  \* events with a processed_events row
    effects,    \* how often the handler's writes for an event were committed
    \* the members
    pc,         \* where in process_message the member is
    position,   \* the next offset the member fetches
    msg,        \* the offset in hand
    attempt,    \* the retry loop's counter
    stopping,   \* members whose shutdown token is cancelled
    \* history
    unacked,    \* offsets left without a commit by ProcessResult::{DlqFailed, DbError}
    faults      \* number of faults of each kind so far

kafka    == <<owner, committed, dlq>>
database == <<processed, effects>>
member   == <<pc, position, msg, attempt, stopping>>
history  == <<unacked, faults>>
vars     == <<kafka, database, member, history>>

Working == {"attempt", "handle", "backoff", "dlq", "commit"}
Steps   == {"poll", "down"} \cup Working

TypeOK ==
    /\ owner \in Members \cup {NoMember}
    /\ committed \in 1..Len(Log) + 1
    /\ dlq \subseteq Offsets
    /\ processed \subseteq Events
    /\ effects \in [Events -> Nat]
    /\ pc \in [Members -> Steps]
    /\ position \in [Members -> 1..Len(Log) + 1]
    /\ msg \in [Members -> 0..Len(Log)]
    /\ \A m \in Members : pc[m] \in Working => msg[m] # 0
    /\ attempt \in [Members -> 0..MaxRetries]
    /\ stopping \subseteq Members
    /\ unacked \subseteq Offsets
    /\ faults \in [AllFaults -> 0..FaultBudget]

Init ==
    /\ owner = NoMember /\ committed = 1 /\ dlq = {}
    /\ processed = {} /\ effects = [e \in Events |-> 0]
    /\ pc = [m \in Members |-> "poll"]
    /\ position = [m \in Members |-> 1]
    /\ msg = [m \in Members |-> 0]
    /\ attempt = [m \in Members |-> 0]
    /\ stopping = {}
    /\ unacked = {} /\ faults = [kind \in AllFaults |-> 0]

Fault(kind) ==
    /\ kind \in FaultKinds
    /\ SumFunction(faults) < FaultBudget
    /\ faults' = [faults EXCEPT ![kind] = @ + 1]

Event(m) == Log[msg[m]]

-----------------------------------------------------------------------------
(* message_loop and process_message *)

\* recv() of the owner: the fetch position moves on whatever becomes of the
\* message.  Bytes that do not deserialize go to the dead-letter topic.
recv(m) ==
    /\ pc[m] = "poll" /\ m \notin stopping
    /\ owner = m /\ position[m] <= Len(Log)
    /\ msg' = [msg EXCEPT ![m] = position[m]]
    /\ position' = [position EXCEPT ![m] = @ + 1]
    /\ attempt' = [attempt EXCEPT ![m] = 0]
    /\ pc' = [pc EXCEPT ![m] = IF Log[position[m]] = Garbage THEN "dlq" ELSE "attempt"]
    /\ UNCHANGED <<kafka, database, stopping, history>>

\* ProcessResult::DlqFailed | DbError: back to the loop without a commit.
Unacked(m) ==
    /\ pc' = [pc EXCEPT ![m] = "poll"]
    /\ unacked' = unacked \cup {msg[m]}

\* try_process_once up to the idempotency check.
is_event_processed(m) ==
    /\ pc[m] = "attempt"
    /\ \/ /\ pc' = [pc EXCEPT ![m] = IF Event(m) \in processed THEN "commit" ELSE "handle"]
          /\ UNCHANGED history
       \/ Fault("db_error") /\ Unacked(m)
    /\ UNCHANGED <<kafka, database, position, msg, attempt, stopping>>

\* Seeded defect: the processed_events row is not written.
CommitWithoutMark(e) ==
    /\ effects' = [effects EXCEPT ![e] = @ + 1]
    /\ UNCHANGED processed

\* mark_event_processed is ON CONFLICT DO NOTHING: it succeeds whether or not
\* another member has committed the row since the check, and the handler's
\* writes are committed with it.
CommitEffects(e) ==
    /\ processed' = processed \cup {e}
    /\ effects' = [effects EXCEPT ![e] = @ + 1]

\* The rest of try_process_once and the arms of the retry loop: the handler
\* succeeds and the transaction commits; it fails for good; it fails and is
\* retried while attempts are left; the transaction fails (or only seems to).
handle(m) ==
    /\ pc[m] = "handle"
    /\ \/ /\ CommitEffects(Event(m))
          /\ pc' = [pc EXCEPT ![m] = "commit"]
          /\ UNCHANGED history
       \/ /\ pc' = [pc EXCEPT ![m] = "dlq"]
          /\ UNCHANGED <<database, history>>
       \/ /\ attempt[m] < MaxRetries
          /\ pc' = [pc EXCEPT ![m] = "backoff"]
          /\ UNCHANGED <<database, history>>
       \/ /\ Fault("db_error") /\ Unacked(m)
          /\ UNCHANGED database
       \/ /\ Fault("ambiguous_commit") /\ Unacked(m)
          /\ CommitEffects(Event(m))
    /\ UNCHANGED <<kafka, position, msg, attempt, stopping>>

\* Seeded defect: the loop counter is not advanced.
BackoffForgetsAttempt(m) ==
    /\ pc[m] = "backoff"
    /\ pc' = [pc EXCEPT ![m] = IF m \in stopping THEN "dlq" ELSE "attempt"]
    /\ UNCHANGED <<kafka, database, position, msg, attempt, stopping, history>>

\* The sleep is over, or a shutdown cuts it short and the message is given up.
backoff_or_shutdown(m) ==
    /\ pc[m] = "backoff"
    /\ \/ /\ m \notin stopping
          /\ attempt' = [attempt EXCEPT ![m] = @ + 1]
          /\ pc' = [pc EXCEPT ![m] = "attempt"]
       \/ /\ m \in stopping
          /\ pc' = [pc EXCEPT ![m] = "dlq"]
          /\ UNCHANGED attempt
    /\ UNCHANGED <<kafka, database, position, msg, stopping, history>>

\* Seeded defect: the offset is committed although the DLQ publish failed.
DlqErrorIgnored(m) ==
    /\ pc[m] = "dlq"
    /\ dlq' \in {dlq, dlq \cup {msg[m]}}
    /\ pc' = [pc EXCEPT ![m] = "commit"]
    /\ UNCHANGED <<owner, committed, database, position, msg, attempt, stopping, history>>

\* publish_envelope_to_dlq and publish_raw_to_dlq; an error may hide a success.
send_to_dlq(m) ==
    /\ pc[m] = "dlq"
    /\ \/ /\ dlq' = dlq \cup {msg[m]}
          /\ pc' = [pc EXCEPT ![m] = "commit"]
          /\ UNCHANGED history
       \/ /\ Fault("dlq_error") /\ Unacked(m)
          /\ dlq' \in {dlq, dlq \cup {msg[m]}}
    /\ UNCHANGED <<owner, committed, database, position, msg, attempt, stopping>>

\* commit_message, CommitMode::Async: Kafka rejects it from a member that does
\* not own the partition, and an error is only logged.
commit_offset(m) ==
    /\ pc[m] = "commit"
    /\ \/ /\ committed' = IF owner = m THEN msg[m] + 1 ELSE committed
          /\ UNCHANGED faults
       \/ /\ Fault("offset_lost")
          /\ UNCHANGED committed
    /\ pc' = [pc EXCEPT ![m] = "poll"]
    /\ UNCHANGED <<owner, dlq, database, position, msg, attempt, stopping, unacked>>

process_message(m) ==
    \/ recv(m)
    \/ is_event_processed(m)
    \/ handle(m)
    \/ backoff_or_shutdown(m)
    \/ send_to_dlq(m)
    \/ commit_offset(m)

-----------------------------------------------------------------------------
(* Shutdown, crash, rebalance, cleanup *)

Live == {m \in Members : pc[m] # "down"}

Leave(m) ==
    /\ pc' = [pc EXCEPT ![m] = "down"]
    /\ msg' = [msg EXCEPT ![m] = 0]
    /\ stopping' = stopping \ {m}
    /\ owner' = IF owner = m THEN NoMember ELSE owner
    /\ UNCHANGED <<committed, dlq, database, position, attempt, unacked>>

shutdown(m) ==
    /\ pc[m] # "down" /\ m \notin stopping
    /\ Fault("shutdown")
    /\ stopping' = stopping \cup {m}
    /\ UNCHANGED <<kafka, database, pc, position, msg, attempt, unacked>>

\* message_loop returns at its next turn.
stop(m) ==
    /\ pc[m] = "poll" /\ m \in stopping
    /\ Leave(m)
    /\ UNCHANGED faults

crash(m) ==
    /\ pc[m] # "down"
    /\ Fault("crash")
    /\ Leave(m)

restart(m) ==
    /\ pc[m] = "down"
    /\ pc' = [pc EXCEPT ![m] = "poll"]
    /\ UNCHANGED <<kafka, database, position, msg, attempt, stopping, history>>

\* The coordinator gives the partition to a live member, which starts from the
\* committed offset.  Taking it from another member is the fault "rebalance",
\* or "zombie" if that member is at work on a message and keeps on.
rebalance(m) ==
    /\ m \in Live /\ owner # m
    /\ \/ owner = NoMember /\ UNCHANGED faults
       \/ /\ owner # NoMember
          /\ Fault(IF pc[owner] \in Working THEN "zombie" ELSE "rebalance")
    /\ owner' = m
    /\ position' = [position EXCEPT ![m] = committed]
    /\ UNCHANGED <<committed, dlq, database, pc, msg, attempt, stopping, unacked>>

\* cleanup_processed_events: the row is older than processed_events_max_age,
\* by when every copy of the event has been consumed.
cleanup_processed_events ==
    /\ \E e \in processed :
        /\ \A o \in Offsets : Log[o] = e => o < committed
        /\ \A m \in Members : pc[m] \in Working => Event(m) # e
        /\ owner # NoMember => \A o \in Offsets : Log[o] = e => o < position[owner]
        /\ processed' = processed \ {e}
    /\ UNCHANGED <<kafka, effects, member, history>>

-----------------------------------------------------------------------------

Next ==
    \/ \E m \in Members :
        process_message(m) \/ shutdown(m) \/ stop(m) \/ crash(m) \/ restart(m) \/ rebalance(m)
    \/ cleanup_processed_events

Spec == Init /\ [][Next]_vars

\* A member keeps running and comes back after a crash, and the coordinator
\* assigns a partition that has no owner.
Fairness ==
    /\ \A m \in Members : WF_vars(process_message(m)) /\ WF_vars(stop(m)) /\ WF_vars(restart(m))
    /\ WF_vars(\E m \in Members : owner = NoMember /\ rebalance(m))

FairSpec == Spec /\ Fairness

-----------------------------------------------------------------------------
(* Properties *)

\* What may be done about a message: its event was processed, or a copy is in
\* the dead-letter topic.
Settled(o) == o \in dlq \/ (Log[o] # Garbage /\ effects[Log[o]] > 0)

\* Transactional idempotency: however often an event is in the log, and with
\* crashes, database errors, ambiguous commits and lost offset commits, the
\* handler's writes are committed at most once (try_process_once); only a member
\* that works on after it lost the partition can add one repetition, because
\* is_event_processed and mark_event_processed do not exclude each other, or
\* because its late commit_offset, when it owns the partition again, goes back
\* to before events whose rows were cleaned up.
EffectsOnce == \A e \in Events : effects[e] <= 1 + faults["zombie"]

\* The group moves past a message only when it is settled, or when it was left
\* uncommitted after a database or dead-letter error (process_message).
PassedOnlyIfSettled ==
    \A o \in Offsets : o < committed => Settled(o) \/ o \in unacked

\* Every message of the log is settled in the end, or was dropped after an
\* error: crashes, shutdowns and lost commits only delay it.
EventuallySettled ==
    \A o \in Offsets : <>(Settled(o) \/ o \in unacked)

=============================================================================
