---------------------------- MODULE OutboxRelay ----------------------------
(***************************************************************************)
(* The transactional outbox of shared/src/outbox: the outbox_events table, *)
(* any number of relay instances that claim its rows, publish them to      *)
(* Kafka and mark them done, the stale-lock and cleanup loops, the Redis   *)
(* publish cache and the status-transition trigger of the migrations.      *)
(*                                                                         *)
(* One SQL statement is one step.  Between two awaits of process_batch any *)
(* other instance may run, and an instance may crash.  Wall-clock          *)
(* comparisons (next_retry_at, locked_at, published_at, the cache's TTL)   *)
(* are abstracted to "may have elapsed by now".                            *)
(***************************************************************************)
EXTENDS Naturals, FiniteSets

CONSTANTS
    Events,           \* outbox rows, numbered in the order of created_at
    AggregateOf,      \* the aggregate_id of each event
    Relays,           \* relay instances
    NoEvent, NoRelay, \* SQL NULL / Rust None
    MaxRetries,       \* the max_retries column
    BatchSize,        \* RelayConfig::batch_size
    Deleting,         \* the instances that run with RelayConfig::delete_on_publish
    FaultKinds,       \* which of the faults below may happen
    FaultBudget       \* how many of them, in all

AllFaults == {"crash", "db_error", "slow_relay", "ambiguous_publish"}

ASSUME OutboxAssumption ==
    /\ Events \subseteq Nat
    /\ NoEvent \notin Events
    /\ NoRelay \notin Relays
    /\ MaxRetries \in Nat
    /\ BatchSize \in Nat \ {0}
    /\ Deleting \subseteq Relays
    /\ FaultKinds \subseteq AllFaults
    /\ FaultBudget \in Nat

VARIABLES
    \* the outbox_events table
    status,       \* "absent" before the insert, "deleted" after a DELETE
    retryCount,   \* retry_count
    lockedBy,     \* locked_by
    backoff,      \* the rows whose next_retry_at is still in the future
    \* Kafka and Redis
    delivered,    \* events with at least one copy in their topic
    duplicated,   \* events with more than one copy
    dedup,        \* keys outbox:published:<event_id> present in Redis
    \* the relay instances
    pc,           \* where in process_batch the instance is
    batch,        \* claimed events it has not looked at yet
    cur,          \* the event it is working on
    last,         \* events whose claimed snapshot has retry_count+1 >= max_retries
    \* history
    escalated,    \* events handed to on_permanent_failure
    late,         \* events committed after a younger event of their aggregate
    faults        \* number of faults so far

table   == <<status, retryCount, lockedBy, backoff>>
outside == <<delivered, duplicated, dedup>>
relay   == <<pc, batch, cur, last>>
history == <<escalated, late, faults>>
vars    == <<table, outside, relay, history>>

Statuses == {"absent", "pending", "published", "failed", "deleted"}
Busy     == {"publish", "cache", "mark", "retry", "escalate"}
Steps    == {"idle", "next"} \cup Busy

TypeOK ==
    /\ status \in [Events -> Statuses]
    /\ retryCount \in [Events -> Nat]
    /\ lockedBy \in [Events -> Relays \cup {NoRelay}]
    /\ backoff \subseteq Events
    /\ delivered \subseteq Events
    /\ duplicated \subseteq delivered
    /\ dedup \subseteq Events
    /\ pc \in [Relays -> Steps]
    /\ batch \in [Relays -> SUBSET Events]
    /\ cur \in [Relays -> Events \cup {NoEvent}]
    /\ \A r \in Relays : pc[r] \in Busy <=> cur[r] # NoEvent
    /\ last \in [Relays -> SUBSET Events]
    /\ escalated \subseteq Events
    /\ late \subseteq Events
    /\ faults \in 0..FaultBudget

Init ==
    /\ status = [e \in Events |-> "absent"]
    /\ retryCount = [e \in Events |-> 0]
    /\ lockedBy = [e \in Events |-> NoRelay]
    /\ backoff = {}
    /\ delivered = {} /\ duplicated = {} /\ dedup = {}
    /\ pc = [r \in Relays |-> "idle"]
    /\ batch = [r \in Relays |-> {}]
    /\ cur = [r \in Relays |-> NoEvent]
    /\ last = [r \in Relays |-> {}]
    /\ escalated = {} /\ late = {} /\ faults = 0

\* One more fault of the given kind, if the run admits it.
Fault(kind) ==
    /\ kind \in FaultKinds
    /\ faults < FaultBudget
    /\ faults' = faults + 1

\* The relay instance still has the event in the batch it is working through.
Holds(r, e) == e \in batch[r] \/ cur[r] = e

SameAggregate(e, f) == AggregateOf[e] = AggregateOf[f]

-----------------------------------------------------------------------------
(* The producing service *)

\* A business transaction commits with its event.  created_at is the start of
\* the transaction, so a younger event of the aggregate may commit first.
insert_outbox_event(e) ==
    /\ status[e] = "absent"
    /\ status' = [status EXCEPT ![e] = "pending"]
    /\ late' = IF \E f \in Events : /\ e < f /\ SameAggregate(e, f)
                                    /\ status[f] # "absent"
               THEN late \cup {e} ELSE late
    /\ UNCHANGED <<retryCount, lockedBy, backoff, outside, relay, escalated, faults>>

-----------------------------------------------------------------------------
(* process_batch *)

Ready(e) == status[e] = "pending" /\ e \notin backoff

\* Seeded defect: the lock filter moves into the DISTINCT ON, so a locked
\* oldest row no longer blocks its aggregate.
OldestUnlockedPerAggregate ==
    {e \in Events : /\ Ready(e) /\ lockedBy[e] = NoRelay
                    /\ \A f \in Events : Ready(f) /\ lockedBy[f] = NoRelay /\ SameAggregate(e, f)
                            => e <= f}

\* DISTINCT ON (aggregate_id) ... ORDER BY created_at: the lock is looked at
\* only afterwards, so a locked oldest row blocks its aggregate.
OldestPerAggregate ==
    {e \in Events : /\ Ready(e)
                    /\ \A f \in Events : Ready(f) /\ SameAggregate(e, f) => e <= f}

\* Seeded defect: locked_by IS NULL is dropped.
ClaimableIgnoringLocks == OldestPerAggregate

Claimable == {e \in OldestPerAggregate : lockedBy[e] = NoRelay}

claim_batch(r) ==
    /\ pc[r] = "idle"
    /\ \E S \in SUBSET Claimable :
        /\ S # {}
        /\ S = Claimable \/ Cardinality(S) = BatchSize
        /\ Cardinality(S) <= BatchSize
        /\ lockedBy' = [e \in Events |-> IF e \in S THEN r ELSE lockedBy[e]]
        /\ batch' = [batch EXCEPT ![r] = S]
        /\ last' = [last EXCEPT ![r] = {e \in S : retryCount[e] + 1 >= MaxRetries}]
    /\ pc' = [pc EXCEPT ![r] = "next"]
    /\ UNCHANGED <<status, retryCount, backoff, outside, cur, history>>

\* Head of the loop over the batch: dedup::is_published.  A missing Redis, or
\* one that does not answer, reads as "not published".
is_published(r) ==
    /\ pc[r] = "next"
    /\ \E e \in batch[r] :
        /\ cur' = [cur EXCEPT ![r] = e]
        /\ batch' = [batch EXCEPT ![r] = @ \ {e}]
        /\ \/ e \in dedup /\ pc' = [pc EXCEPT ![r] = "mark"]
           \/ pc' = [pc EXCEPT ![r] = "publish"]
    /\ UNCHANGED <<table, outside, last, history>>

Deliver(e) ==
    /\ delivered' = delivered \cup {e}
    /\ duplicated' = IF e \in delivered THEN duplicated \cup {e} ELSE duplicated

\* Seeded defect: a failed publish is treated as a success.
PublishErrorIgnored(r) ==
    /\ pc[r] = "publish"
    /\ \/ Deliver(cur[r])
       \/ UNCHANGED <<delivered, duplicated>>
    /\ pc' = [pc EXCEPT ![r] = "cache"]
    /\ UNCHANGED <<table, dedup, batch, cur, last, history>>

\* The broker took the event, or did not, or took it and the producer still
\* reported an error.
publish_payload(r) ==
    /\ pc[r] = "publish"
    /\ \/ /\ Deliver(cur[r])
          /\ pc' = [pc EXCEPT ![r] = "cache"]
          /\ UNCHANGED faults
       \/ /\ pc' = [pc EXCEPT ![r] = "retry"]
          /\ UNCHANGED <<delivered, duplicated, faults>>
       \/ /\ Fault("ambiguous_publish")
          /\ Deliver(cur[r])
          /\ pc' = [pc EXCEPT ![r] = "retry"]
    /\ UNCHANGED <<table, dedup, batch, cur, last, escalated, late>>

\* dedup::mark_published, best effort.
cache_published(r) ==
    /\ pc[r] = "cache"
    /\ dedup' \in {dedup, dedup \cup {cur[r]}}
    /\ pc' = [pc EXCEPT ![r] = "mark"]
    /\ UNCHANGED <<table, delivered, duplicated, batch, cur, last, history>>

\* The event is dealt with: on to the next one of the batch, or back to the
\* select! of relay_loop.
Finish(r) ==
    /\ pc' = [pc EXCEPT ![r] = IF batch[r] = {} THEN "idle" ELSE "next"]
    /\ cur' = [cur EXCEPT ![r] = NoEvent]
    /\ last' = [last EXCEPT ![r] = @ \ {cur[r]}]
    /\ UNCHANGED batch

\* The trigger enforce_outbox_status_transition.
TransitionAllowed(old, new) ==
    old = new \/ (old = "pending" /\ new \in {"published", "failed"})

\* UPDATE ... SET status = 'published', locked_by = NULL WHERE id = $1
MarkPublished(e) ==
    /\ TransitionAllowed(status[e], "published")
    /\ status' = [status EXCEPT ![e] = "published"]
    /\ lockedBy' = [lockedBy EXCEPT ![e] = NoRelay]
    /\ backoff' = backoff

\* DELETE ... WHERE id = $1
DeletePublished(e) ==
    /\ status' = [status EXCEPT ![e] = "deleted"]
    /\ lockedBy' = [lockedBy EXCEPT ![e] = NoRelay]
    /\ backoff' = backoff \ {e}

\* The row is updated; or it is gone and no row matches; or the statement
\* fails and the row stays as it is (a lock it may have is left behind).
mark_published(r) ==
    /\ pc[r] = "mark"
    /\ \/ /\ status[cur[r]] # "deleted"
          /\ IF r \in Deleting THEN DeletePublished(cur[r]) ELSE MarkPublished(cur[r])
          /\ UNCHANGED faults
       \/ /\ \/ status[cur[r]] = "deleted"
             \/ r \notin Deleting /\ ~ TransitionAllowed(status[cur[r]], "published")
          /\ UNCHANGED <<status, lockedBy, backoff, faults>>
       \/ /\ Fault("db_error")
          /\ UNCHANGED <<status, lockedBy, backoff>>
    /\ Finish(r)
    /\ UNCHANGED <<retryCount, outside, escalated, late>>

RetryStatus(e) == IF retryCount[e] + 1 >= MaxRetries THEN "failed" ELSE "pending"

\* UPDATE ... SET status = CASE ..., retry_count = retry_count + 1,
\* next_retry_at = CASE ..., locked_by = NULL WHERE id = $1
MarkRetryOrFailed(e) ==
    /\ TransitionAllowed(status[e], RetryStatus(e))
    /\ status' = [status EXCEPT ![e] = RetryStatus(e)]
    /\ retryCount' = [retryCount EXCEPT ![e] = @ + 1]
    /\ lockedBy' = [lockedBy EXCEPT ![e] = NoRelay]
    /\ backoff' = IF RetryStatus(e) = "pending" THEN backoff \cup {e} ELSE backoff

\* After a successful UPDATE (of one row or of none) the snapshot taken at the
\* claim decides whether the failure is escalated.
AfterRetryUpdate(r) ==
    IF cur[r] \in last[r]
    THEN pc' = [pc EXCEPT ![r] = "escalate"] /\ UNCHANGED <<batch, cur, last>>
    ELSE Finish(r)

mark_retry_or_failed(r) ==
    /\ pc[r] = "retry"
    /\ \/ /\ status[cur[r]] # "deleted"
          /\ MarkRetryOrFailed(cur[r])
          /\ AfterRetryUpdate(r)
          /\ UNCHANGED faults
       \/ /\ status[cur[r]] = "deleted"
          /\ AfterRetryUpdate(r)
          /\ UNCHANGED <<table, faults>>
       \/ /\ status[cur[r]] # "deleted"
          /\ ~ TransitionAllowed(status[cur[r]], RetryStatus(cur[r]))
          /\ Finish(r)
          /\ UNCHANGED <<table, faults>>
       \/ /\ Fault("db_error")
          /\ Finish(r)
          /\ UNCHANGED table
    /\ UNCHANGED <<outside, escalated, late>>

escalate_failure(r) ==
    /\ pc[r] = "escalate"
    /\ escalated' = escalated \cup {cur[r]}
    /\ Finish(r)
    /\ UNCHANGED <<table, outside, late, faults>>

\* The process dies and is restarted; its rows stay locked.
crash(r) ==
    /\ pc[r] # "idle"
    /\ Fault("crash")
    /\ pc' = [pc EXCEPT ![r] = "idle"]
    /\ batch' = [batch EXCEPT ![r] = {}]
    /\ cur' = [cur EXCEPT ![r] = NoEvent]
    /\ last' = [last EXCEPT ![r] = {}]
    /\ UNCHANGED <<table, outside, escalated, late>>

-----------------------------------------------------------------------------
(* The maintenance loops and the passage of time *)

Locked == {e \in Events : status[e] = "pending" /\ lockedBy[e] # NoRelay}

\* Seeded defect: the loop looks for locks on rows that are no longer pending.
ReleaseWrongStatus ==
    /\ \E S \in SUBSET {e \in Events : status[e] = "published" /\ lockedBy[e] # NoRelay} :
        /\ S # {}
        /\ lockedBy' = [e \in Events |-> IF e \in S THEN NoRelay ELSE lockedBy[e]]
    /\ UNCHANGED <<status, retryCount, backoff, outside, relay, history>>

\* The rows whose lock is older than stale_lock_timeout.  That the owner still
\* works on one of them is the fault "slow_relay".
release_stale_locks ==
    /\ \E S \in SUBSET Locked :
        /\ S # {}
        /\ IF \E e \in S : Holds(lockedBy[e], e)
           THEN Fault("slow_relay") ELSE UNCHANGED faults
        /\ lockedBy' = [e \in Events |-> IF e \in S THEN NoRelay ELSE lockedBy[e]]
    /\ UNCHANGED <<status, retryCount, backoff, outside, relay, escalated, late>>

\* Seeded defect: the status filter of the DELETE is lost.
CleanupAnyStatus ==
    /\ \E S \in SUBSET {e \in Events : status[e] # "absent"} :
        /\ S # {}
        /\ status' = [e \in Events |-> IF e \in S THEN "deleted" ELSE status[e]]
    /\ UNCHANGED <<retryCount, lockedBy, backoff, outside, relay, history>>

cleanup_published ==
    /\ \E S \in SUBSET {e \in Events : status[e] = "published"} :
        /\ S # {}
        /\ status' = [e \in Events |-> IF e \in S THEN "deleted" ELSE status[e]]
    /\ UNCHANGED <<retryCount, lockedBy, backoff, outside, relay, history>>

BackoffElapses(e) ==
    /\ e \in backoff
    /\ backoff' = backoff \ {e}
    /\ UNCHANGED <<status, retryCount, lockedBy, outside, relay, history>>

DedupExpires(e) ==
    /\ e \in dedup
    /\ dedup' = dedup \ {e}
    /\ UNCHANGED <<table, delivered, duplicated, relay, history>>

-----------------------------------------------------------------------------

process_batch(r) ==
    \/ claim_batch(r)
    \/ is_published(r)
    \/ publish_payload(r)
    \/ cache_published(r)
    \/ mark_published(r)
    \/ mark_retry_or_failed(r)
    \/ escalate_failure(r)

Next ==
    \/ \E e \in Events : insert_outbox_event(e) \/ BackoffElapses(e) \/ DedupExpires(e)
    \/ \E r \in Relays : process_batch(r) \/ crash(r)
    \/ release_stale_locks
    \/ cleanup_published

Spec == Init /\ [][Next]_vars

\* Every instance keeps running its loop, time passes, and the stale-lock loop
\* keeps running.  Faults are finite in number, never fair.
Fairness ==
    /\ \A r \in Relays : WF_vars(process_batch(r))
    /\ \A e \in Events : WF_vars(BackoffElapses(e))
    /\ WF_vars(release_stale_locks)

FairSpec == Spec /\ Fairness

-----------------------------------------------------------------------------
(* Properties *)

\* At least once: a row leaves the outbox as published (or is deleted) only
\* when Kafka has the event, whatever crashes, DB errors, stale locks, slow
\* relays and Redis hits there were on the way (process_batch, relay.rs).
NoEventLost ==
    \A e \in Events : status[e] \in {"published", "deleted"} => e \in delivered

\* Per-aggregate order, as far as claim_batch keeps it: an event overtakes an
\* older one of its aggregate only if the older one has failed a publish (it
\* is in its back-off, or failed), or committed later than the younger one.
OvertakenOnlyAfterRetry ==
    \A e, f \in Events :
        /\ SameAggregate(e, f) /\ e < f
        /\ f \in delivered
        /\ e \notin late /\ status[e] # "absent"
        => e \in delivered \/ retryCount[e] > 0

\* Without crashes, DB errors, slow relays and ambiguous broker answers, no
\* two instances work on the same event and Kafka gets each event once
\* (FOR UPDATE SKIP LOCKED plus locked_by in claim_batch).
ExactlyOnceWithoutFaults ==
    faults = 0 =>
        /\ duplicated = {}
        /\ \A r, s \in Relays, e \in Events : Holds(r, e) /\ Holds(s, e) => r = s

\* published and failed are terminal: no late UPDATE of a relay that lost its
\* lock takes an event back or claims it again (the trigger, and claim_batch).
TerminalStatus ==
    [][\A e \in Events :
        /\ status[e] = "published" => status'[e] \in {"published", "deleted"}
        /\ status[e] = "failed" => \/ status'[e] = "failed"
                                   \/ Deleting # {} /\ status'[e] = "deleted"
        /\ status[e] # "pending" => lockedBy'[e] = NoRelay]_vars

\* Every stored event is published or fails for good; back-offs, abandoned
\* locks and stolen locks only delay it.
EventuallySettled ==
    \A e \in Events : status[e] = "pending" ~> status[e] \in {"published", "failed", "deleted"}

-----------------------------------------------------------------------------
(* What the relay implements *)

\* The outbox and its relays implement at-least-once delivery with failures on
\* record: an event is open while its row is pending, and abandoned while its
\* row is failed.
Delivery == INSTANCE EventDelivery WITH
    stored    <- {e \in Events : status[e] # "absent"},
    open      <- {e \in Events : status[e] = "pending"},
    sent      <- delivered,
    abandoned <- {e \in Events : status[e] = "failed"}

\* Every step of the relays, loops and services is a step of EventDelivery or
\* changes nothing a client can see.
ImplementsDelivery == Delivery!Spec

-----------------------------------------------------------------------------
(* The inductive invariant behind the properties *)

\* Where an instance is determines what it has in hand, and it only ever has
\* stored events in hand.
InHand ==
    \A r \in Relays :
        /\ pc[r] = "idle" => batch[r] = {}
        /\ cur[r] \notin batch[r]
        /\ \A e \in Events : Holds(r, e) => status[e] # "absent"

\* Whatever says that an event was published is right: its row, the Redis
\* cache, and the step of an instance that is about to mark it.
DeliveredInv ==
    /\ \A e \in Events : status[e] \in {"published", "deleted"} => e \in delivered
    /\ \A e \in delivered : status[e] # "absent"
    /\ dedup \subseteq delivered
    /\ \A r \in Relays : pc[r] \in {"cache", "mark"} => cur[r] \in delivered

\* A row that is skipped by claim_batch although pending has been retried.
RetriedInv ==
    \A e \in Events : e \in backoff \/ status[e] = "failed" => retryCount[e] > 0

\* When an event has been claimed, its older siblings are in Kafka or have
\* failed a publish.
OrderInv ==
    \A e, f \in Events :
        /\ SameAggregate(e, f) /\ e < f
        /\ e \notin late /\ status[e] # "absent"
        /\ f \in delivered \/ \E r \in Relays : Holds(r, f)
        => e \in delivered \/ retryCount[e] > 0

RelayInv == InHand /\ DeliveredInv /\ RetriedInv /\ OrderInv

\* Only pending rows are locked: release_stale_locks frees no others.
UnlockedInv == \A e \in Events : status[e] # "pending" => lockedBy[e] = NoRelay

\* Until it has marked the event, an instance that holds it owns its lock.
OwnsLock(r, e) == lockedBy[e] = r /\ status[e] = "pending"

OwnsWork ==
    \A r \in Relays :
        /\ \A e \in batch[r] : OwnsLock(r, e)
        /\ pc[r] \in Busy \ {"escalate"} => OwnsLock(r, cur[r])
        /\ pc[r] = "escalate" => status[cur[r]] = "failed"

OneHolder == \A r, s \in Relays, e \in Events : Holds(r, e) /\ Holds(s, e) => r = s

\* The snapshot of the claim is still right about the last retry.
LastChance ==
    \A r \in Relays : \A e \in last[r] :
        Holds(r, e) /\ status[e] = "pending" => retryCount[e] + 1 >= MaxRetries

\* Only the instance between publish and mark sees a pending event in Kafka.
InFlight ==
    \A e \in delivered : status[e] = "pending" =>
        \E r \in Relays : cur[r] = e /\ pc[r] \in {"cache", "mark"}

LockInv == OwnsWork /\ OneHolder /\ LastChance /\ InFlight /\ duplicated = {}

FaultFreeInv == faults = 0 => LockInv

=============================================================================
