------------------------- MODULE OutboxRelayProofs -------------------------
(***************************************************************************)
(* Theorems about OutboxRelay, for every set of events, aggregates and     *)
(* relay instances and every number of faults.                             *)
(***************************************************************************)
EXTENDS OutboxRelay, TLAPS

\* retry_count + 1 keeps the column's type.
LEMMA CountUp ==
    ASSUME NEW S, NEW f \in [S -> Nat], NEW x \in S
    PROVE  [f EXCEPT ![x] = @ + 1] \in [S -> Nat]
OBVIOUS

\* What Finish does to the state of an instance keeps it well typed.
LEMMA FinishTypeOK ==
    ASSUME TypeOK, NEW r \in Relays, Finish(r)
    PROVE  /\ pc' \in [Relays -> Steps]
           /\ batch' \in [Relays -> SUBSET Events]
           /\ cur' \in [Relays -> Events \cup {NoEvent}]
           /\ last' \in [Relays -> SUBSET Events]
           /\ \A s \in Relays : pc'[s] \in Busy <=> cur'[s] # NoEvent
<1>1. PICK p \in {"idle", "next"} : pc' = [pc EXCEPT ![r] = p]
  BY DEF Finish
<1> QED
  BY <1>1 DEF Finish, TypeOK, Steps, Busy

\* Type correctness of the table, the relays and the history.
THEOREM TypeCorrect == Spec => []TypeOK
<1> USE OutboxAssumption
<1>1. Init => TypeOK
  BY DEF Init, TypeOK, Statuses, Steps, Busy
<1>2. TypeOK /\ [Next]_vars => TypeOK'
  <2> SUFFICES ASSUME TypeOK, [Next]_vars PROVE TypeOK'
    OBVIOUS
  <2> USE DEF TypeOK, Statuses, Steps, Busy, Fault
  <2>1. ASSUME NEW e \in Events, insert_outbox_event(e) PROVE TypeOK'
    BY <2>1 DEF insert_outbox_event, outside, relay
  <2>2. ASSUME NEW e \in Events, BackoffElapses(e) PROVE TypeOK'
    BY <2>2 DEF BackoffElapses, outside, relay, history
  <2>3. ASSUME NEW e \in Events, DedupExpires(e) PROVE TypeOK'
    BY <2>3 DEF DedupExpires, table, relay, history
  <2>4. ASSUME NEW r \in Relays, claim_batch(r) PROVE TypeOK'
    <3>1. PICK S \in SUBSET Events :
            /\ lockedBy' = [e \in Events |-> IF e \in S THEN r ELSE lockedBy[e]]
            /\ batch' = [batch EXCEPT ![r] = S]
            /\ last' = [last EXCEPT ![r] = {e \in S : retryCount[e] + 1 >= MaxRetries}]
      BY <2>4 DEF claim_batch, Claimable, OldestPerAggregate
    <3>2. pc[r] = "idle" /\ pc' = [pc EXCEPT ![r] = "next"] /\ cur' = cur
      BY <2>4 DEF claim_batch
    <3>3. \A s \in Relays : pc'[s] \in Busy <=> cur'[s] # NoEvent
      BY <3>2
    <3>4. lockedBy' \in [Events -> Relays \cup {NoRelay}]
      BY <3>1
    <3>5. batch' \in [Relays -> SUBSET Events] /\ last' \in [Relays -> SUBSET Events]
      BY <3>1
    <3>6. pc' \in [Relays -> Steps]
      BY <3>2
    <3>7. UNCHANGED <<status, retryCount, backoff, outside, cur, history>>
      BY <2>4 DEF claim_batch
    <3> QED
      BY <3>3, <3>4, <3>5, <3>6, <3>7 DEF outside, history
  <2>5. ASSUME NEW r \in Relays, is_published(r) PROVE TypeOK'
    <3>1. PICK e \in batch[r] :
            /\ cur' = [cur EXCEPT ![r] = e]
            /\ batch' = [batch EXCEPT ![r] = @ \ {e}]
            /\ \E p \in {"mark", "publish"} : pc' = [pc EXCEPT ![r] = p]
      BY <2>5 DEF is_published
    <3>2. PICK p \in {"mark", "publish"} : pc' = [pc EXCEPT ![r] = p]
      BY <3>1
    <3>3. \A s \in Relays : pc'[s] \in Busy <=> cur'[s] # NoEvent
      BY <3>1, <3>2
    <3> QED
      BY <2>5, <3>1, <3>2, <3>3 DEF is_published, table, outside, history
  <2>6. ASSUME NEW r \in Relays, publish_payload(r) PROVE TypeOK'
    <3>1. cur[r] \in Events
      BY <2>6 DEF publish_payload
    <3>2. PICK p \in {"cache", "retry"} : pc' = [pc EXCEPT ![r] = p]
      BY <2>6 DEF publish_payload
    <3>3. \A s \in Relays : pc'[s] \in Busy <=> cur'[s] # NoEvent
      BY <2>6, <3>2 DEF publish_payload
    <3>4. faults' \in 0..FaultBudget
      BY <2>6 DEF publish_payload
    <3>5. delivered' \subseteq Events /\ duplicated' \subseteq delivered'
      BY <2>6, <3>1 DEF publish_payload, Deliver
    <3> QED
      BY <2>6, <3>2, <3>3, <3>4, <3>5 DEF publish_payload, table
  <2>7. ASSUME NEW r \in Relays, cache_published(r) PROVE TypeOK'
    BY <2>7 DEF cache_published, table, history
  <2>8. ASSUME NEW r \in Relays, mark_published(r) PROVE TypeOK'
    <3>1. cur[r] \in Events
      BY <2>8 DEF mark_published
    <3>2. /\ status' \in [Events -> Statuses]
          /\ lockedBy' \in [Events -> Relays \cup {NoRelay}]
          /\ backoff' \subseteq Events
      BY <2>8, <3>1 DEF mark_published, MarkPublished, DeletePublished
    <3>3. Finish(r)
      BY <2>8 DEF mark_published
    <3>4. faults' \in 0..FaultBudget
      BY <2>8 DEF mark_published
    <3> QED
      BY <2>8, <3>2, <3>3, <3>4, FinishTypeOK DEF mark_published, outside
  <2>9. ASSUME NEW r \in Relays, mark_retry_or_failed(r) PROVE TypeOK'
    <3>1. cur[r] \in Events
      BY <2>9 DEF mark_retry_or_failed
    <3>2. /\ status' \in [Events -> Statuses]
          /\ retryCount' \in [Events -> Nat]
          /\ lockedBy' \in [Events -> Relays \cup {NoRelay}]
          /\ backoff' \subseteq Events
      <4>1. CASE MarkRetryOrFailed(cur[r])
        <5>1. RetryStatus(cur[r]) \in Statuses
          BY DEF RetryStatus
        <5>2. status' \in [Events -> Statuses] /\ backoff' \subseteq Events
          BY <4>1, <3>1, <5>1 DEF MarkRetryOrFailed
        <5>3. retryCount' \in [Events -> Nat]
          BY <4>1, <3>1, CountUp, Zenon DEF MarkRetryOrFailed
        <5>4. lockedBy' \in [Events -> Relays \cup {NoRelay}]
          BY <4>1 DEF MarkRetryOrFailed
        <5> QED
          BY <5>2, <5>3, <5>4
      <4>2. CASE UNCHANGED table
        BY <4>2 DEF table
      <4> QED
        BY <2>9, <4>1, <4>2 DEF mark_retry_or_failed
    <3>5. faults' \in 0..FaultBudget
      BY <2>9 DEF mark_retry_or_failed
    <3>3. CASE Finish(r)
      BY <2>9, <3>2, <3>3, <3>5, FinishTypeOK DEF mark_retry_or_failed, outside
    <3>4. CASE pc' = [pc EXCEPT ![r] = "escalate"] /\ UNCHANGED <<batch, cur, last>>
      BY <2>9, <3>2, <3>4, <3>5 DEF mark_retry_or_failed, outside
    <3> QED
      BY <2>9, <3>3, <3>4 DEF mark_retry_or_failed, AfterRetryUpdate
  <2>10. ASSUME NEW r \in Relays, escalate_failure(r) PROVE TypeOK'
    <3>1. cur[r] \in Events
      BY <2>10 DEF escalate_failure
    <3>2. escalated' \subseteq Events
      BY <2>10, <3>1 DEF escalate_failure
    <3>3. Finish(r) /\ UNCHANGED <<table, outside, late, faults>>
      BY <2>10 DEF escalate_failure
    <3> QED
      BY <3>2, <3>3, FinishTypeOK DEF table, outside
  <2>11. ASSUME NEW r \in Relays, crash(r) PROVE TypeOK'
    BY <2>11 DEF crash, table, outside
  <2>12. CASE release_stale_locks
    BY <2>12 DEF release_stale_locks, outside, relay
  <2>13. CASE cleanup_published
    BY <2>13 DEF cleanup_published, outside, relay, history
  <2>14. CASE UNCHANGED vars
    BY <2>14 DEF vars, table, outside, relay, history
  <2> QED
    BY <2>1, <2>2, <2>3, <2>4, <2>5, <2>6, <2>7, <2>8, <2>9, <2>10, <2>11, <2>12, <2>13, <2>14
       DEF Next, process_batch
<1> QED
  BY <1>1, <1>2, PTL DEF Spec

\* No step takes an absent row in hand, or a row twice.
LEMMA InHandPreserved ==
    TypeOK /\ InHand /\ [Next]_vars => InHand'
<1> SUFFICES ASSUME TypeOK, InHand, [Next]_vars PROVE InHand'
  OBVIOUS
<1> USE OutboxAssumption DEF TypeOK, InHand, Holds, Busy, Steps, Statuses
<1>1. ASSUME NEW e \in Events, insert_outbox_event(e) PROVE InHand'
  BY <1>1 DEF insert_outbox_event, outside, relay
<1>2. ASSUME NEW e \in Events, BackoffElapses(e) PROVE InHand'
  BY <1>2 DEF BackoffElapses, outside, relay, history
<1>3. ASSUME NEW e \in Events, DedupExpires(e) PROVE InHand'
  BY <1>3 DEF DedupExpires, table, relay, history
<1>4. ASSUME NEW r \in Relays, claim_batch(r) PROVE InHand'
  <2>1. PICK S \in SUBSET Claimable : batch' = [batch EXCEPT ![r] = S]
    BY <1>4 DEF claim_batch
  <2>2. \A e \in S : e \in Events /\ status[e] = "pending"
    BY <2>1 DEF Claimable, OldestPerAggregate, Ready
  <2>3. pc[r] = "idle" /\ pc' = [pc EXCEPT ![r] = "next"] /\ cur' = cur /\ status' = status
    BY <1>4 DEF claim_batch
  <2>4. cur[r] \notin S
    BY <2>2, <2>3
  <2> QED
    BY <2>1, <2>2, <2>3, <2>4
<1>5. ASSUME NEW r \in Relays, is_published(r) PROVE InHand'
  BY <1>5 DEF is_published, table, outside, history
<1>6. ASSUME NEW r \in Relays, publish_payload(r) PROVE InHand'
  BY <1>6 DEF publish_payload, Deliver, table
<1>7. ASSUME NEW r \in Relays, cache_published(r) PROVE InHand'
  BY <1>7 DEF cache_published, table, history
<1>8. ASSUME NEW r \in Relays, mark_published(r) PROVE InHand'
  BY <1>8 DEF mark_published, MarkPublished, DeletePublished, Finish, outside
<1>9. ASSUME NEW r \in Relays, mark_retry_or_failed(r) PROVE InHand'
  BY <1>9 DEF mark_retry_or_failed, MarkRetryOrFailed, RetryStatus, TransitionAllowed, AfterRetryUpdate, Finish, table, outside
<1>10. ASSUME NEW r \in Relays, escalate_failure(r) PROVE InHand'
  BY <1>10 DEF escalate_failure, Finish, table, outside
<1>11. ASSUME NEW r \in Relays, crash(r) PROVE InHand'
  BY <1>11 DEF crash, table, outside
<1>12. CASE release_stale_locks
  BY <1>12 DEF release_stale_locks, outside, relay
<1>13. CASE cleanup_published
  BY <1>13 DEF cleanup_published, outside, relay, history
<1>14. CASE UNCHANGED vars
  BY <1>14 DEF vars, table, outside, relay, history
<1> QED
  BY <1>1, <1>2, <1>3, <1>4, <1>5, <1>6, <1>7, <1>8, <1>9, <1>10, <1>11, <1>12, <1>13, <1>14
     DEF Next, process_batch

\* No step claims a publish that did not happen.
LEMMA DeliveredPreserved ==
    TypeOK /\ InHand /\ DeliveredInv /\ [Next]_vars => DeliveredInv'
<1> SUFFICES ASSUME TypeOK, InHand, DeliveredInv, [Next]_vars PROVE DeliveredInv'
  OBVIOUS
<1> USE OutboxAssumption DEF TypeOK, DeliveredInv, InHand, Holds, Busy
<1>1. ASSUME NEW e \in Events, insert_outbox_event(e) PROVE DeliveredInv'
  BY <1>1 DEF insert_outbox_event, outside, relay
<1>2. ASSUME NEW e \in Events, BackoffElapses(e) PROVE DeliveredInv'
  BY <1>2 DEF BackoffElapses, outside, relay, history
<1>3. ASSUME NEW e \in Events, DedupExpires(e) PROVE DeliveredInv'
  BY <1>3 DEF DedupExpires, table, relay, history
<1>4. ASSUME NEW r \in Relays, claim_batch(r) PROVE DeliveredInv'
  BY <1>4 DEF claim_batch, outside, history
<1>5. ASSUME NEW r \in Relays, is_published(r) PROVE DeliveredInv'
  BY <1>5 DEF is_published, table, outside, history
<1>6. ASSUME NEW r \in Relays, publish_payload(r) PROVE DeliveredInv'
  BY <1>6 DEF publish_payload, Deliver, table
<1>7. ASSUME NEW r \in Relays, cache_published(r) PROVE DeliveredInv'
  BY <1>7 DEF cache_published, table, history
<1>8. ASSUME NEW r \in Relays, mark_published(r) PROVE DeliveredInv'
  BY <1>8 DEF mark_published, MarkPublished, DeletePublished, Finish, outside
<1>9. ASSUME NEW r \in Relays, mark_retry_or_failed(r) PROVE DeliveredInv'
  BY <1>9 DEF mark_retry_or_failed, MarkRetryOrFailed, RetryStatus, TransitionAllowed, AfterRetryUpdate, Finish, table, outside
<1>10. ASSUME NEW r \in Relays, escalate_failure(r) PROVE DeliveredInv'
  BY <1>10 DEF escalate_failure, Finish, table, outside
<1>11. ASSUME NEW r \in Relays, crash(r) PROVE DeliveredInv'
  BY <1>11 DEF crash, table, outside
<1>12. CASE release_stale_locks
  BY <1>12 DEF release_stale_locks, outside, relay
<1>13. CASE cleanup_published
  BY <1>13 DEF cleanup_published, outside, relay, history
<1>14. CASE UNCHANGED vars
  BY <1>14 DEF vars, table, outside, relay, history
<1> QED
  BY <1>1, <1>2, <1>3, <1>4, <1>5, <1>6, <1>7, <1>8, <1>9, <1>10, <1>11, <1>12, <1>13, <1>14
     DEF Next, process_batch

\* Only mark_retry_or_failed sets a back-off or fails a row, and it counts.
LEMMA RetriedPreserved ==
    TypeOK /\ RetriedInv /\ [Next]_vars => RetriedInv'
<1> SUFFICES ASSUME TypeOK, RetriedInv, [Next]_vars PROVE RetriedInv'
  OBVIOUS
<1> USE OutboxAssumption DEF TypeOK, RetriedInv, Busy
<1>1. ASSUME NEW e \in Events, insert_outbox_event(e) PROVE RetriedInv'
  BY <1>1 DEF insert_outbox_event, outside, relay
<1>2. ASSUME NEW e \in Events, BackoffElapses(e) PROVE RetriedInv'
  BY <1>2 DEF BackoffElapses, outside, relay, history
<1>3. ASSUME NEW e \in Events, DedupExpires(e) PROVE RetriedInv'
  BY <1>3 DEF DedupExpires, table, relay, history
<1>4. ASSUME NEW r \in Relays, claim_batch(r) PROVE RetriedInv'
  BY <1>4 DEF claim_batch, outside, history
<1>5. ASSUME NEW r \in Relays, is_published(r) PROVE RetriedInv'
  BY <1>5 DEF is_published, table, outside, history
<1>6. ASSUME NEW r \in Relays, publish_payload(r) PROVE RetriedInv'
  BY <1>6 DEF publish_payload, Deliver, table
<1>7. ASSUME NEW r \in Relays, cache_published(r) PROVE RetriedInv'
  BY <1>7 DEF cache_published, table, history
<1>8. ASSUME NEW r \in Relays, mark_published(r) PROVE RetriedInv'
  BY <1>8 DEF mark_published, MarkPublished, DeletePublished, Finish, outside
<1>9. ASSUME NEW r \in Relays, mark_retry_or_failed(r) PROVE RetriedInv'
  BY <1>9 DEF mark_retry_or_failed, MarkRetryOrFailed, RetryStatus, TransitionAllowed, AfterRetryUpdate, Finish, table, outside
<1>10. ASSUME NEW r \in Relays, escalate_failure(r) PROVE RetriedInv'
  BY <1>10 DEF escalate_failure, Finish, table, outside
<1>11. ASSUME NEW r \in Relays, crash(r) PROVE RetriedInv'
  BY <1>11 DEF crash, table, outside
<1>12. CASE release_stale_locks
  BY <1>12 DEF release_stale_locks, outside, relay
<1>13. CASE cleanup_published
  BY <1>13 DEF cleanup_published, outside, relay, history
<1>14. CASE UNCHANGED vars
  BY <1>14 DEF vars, table, outside, relay, history
<1> QED
  BY <1>1, <1>2, <1>3, <1>4, <1>5, <1>6, <1>7, <1>8, <1>9, <1>10, <1>11, <1>12, <1>13, <1>14
     DEF Next, process_batch

\* Only claim_batch takes an event in hand, and only the oldest of its aggregate.
LEMMA OrderPreserved ==
    TypeOK /\ InHand /\ DeliveredInv /\ RetriedInv /\ OrderInv /\ [Next]_vars => OrderInv'
<1> SUFFICES ASSUME TypeOK, InHand, DeliveredInv, RetriedInv, OrderInv, [Next]_vars PROVE OrderInv'
  OBVIOUS
<1> USE OutboxAssumption DEF TypeOK, OrderInv, Holds, Busy
<1>1. ASSUME NEW e \in Events, insert_outbox_event(e) PROVE OrderInv'
  <2>1. \A f \in Events : f \in delivered \/ (\E r \in Relays : Holds(r, f)) => status[f] # "absent"
    BY DEF InHand, DeliveredInv
  <2>2. late \subseteq late' /\ \A f \in Events :
            e < f /\ SameAggregate(e, f) /\ status[f] # "absent" => e \in late'
    BY <1>1 DEF insert_outbox_event
  <2>3. \A f \in Events : f # e => status'[f] = status[f]
    BY <1>1 DEF insert_outbox_event
  <2>4. UNCHANGED <<retryCount, delivered, batch, cur>>
    BY <1>1 DEF insert_outbox_event, outside, relay
  <2> QED
    BY <2>1, <2>2, <2>3, <2>4 DEF SameAggregate
<1>2. ASSUME NEW e \in Events, BackoffElapses(e) PROVE OrderInv'
  BY <1>2 DEF BackoffElapses, outside, relay, history
<1>3. ASSUME NEW e \in Events, DedupExpires(e) PROVE OrderInv'
  BY <1>3 DEF DedupExpires, table, relay, history
<1>4. ASSUME NEW r \in Relays, claim_batch(r) PROVE OrderInv'
  <2>1. PICK S \in SUBSET Claimable : batch' = [batch EXCEPT ![r] = S]
    BY <1>4 DEF claim_batch
  <2>2. UNCHANGED <<status, retryCount, delivered, cur, late>>
    BY <1>4 DEF claim_batch, outside, history
  <2>3. ASSUME NEW e \in Events, NEW f \in S,
               SameAggregate(e, f), e < f, status[e] # "absent"
        PROVE  e \in delivered \/ retryCount[e] > 0
    <3>1. f \in Events /\ ~ (f <= e)
      BY <2>3 DEF Claimable, OldestPerAggregate
    <3>2. ~ Ready(e)
      BY <2>3, <3>1 DEF Claimable, OldestPerAggregate, SameAggregate
    <3> QED
      BY <2>3, <3>2 DEF Ready, DeliveredInv, RetriedInv, Statuses
  <2>4. \A f \in Events : (\E s \in Relays : Holds(s, f))' => f \in S \/ \E s \in Relays : Holds(s, f)
    BY <2>1, <2>2
  <2> QED
    BY <2>2, <2>3, <2>4 DEF SameAggregate
<1>5. ASSUME NEW r \in Relays, is_published(r) PROVE OrderInv'
  <2>1. UNCHANGED <<status, retryCount, delivered, late>>
    BY <1>5 DEF is_published, table, outside, history
  <2>2. \A f \in Events : (\E s \in Relays : Holds(s, f))' => \E s \in Relays : Holds(s, f)
    BY <1>5 DEF is_published
  <2> QED
    BY <2>1, <2>2 DEF SameAggregate
<1>6. ASSUME NEW r \in Relays, publish_payload(r) PROVE OrderInv'
  BY <1>6 DEF publish_payload, Deliver, table
<1>7. ASSUME NEW r \in Relays, cache_published(r) PROVE OrderInv'
  BY <1>7 DEF cache_published, table, history
<1>8. ASSUME NEW r \in Relays, mark_published(r) PROVE OrderInv'
  <2>1. UNCHANGED <<retryCount, delivered, late>>
    BY <1>8 DEF mark_published, outside
  <2>2. \A f \in Events : (\E s \in Relays : Holds(s, f))' => \E s \in Relays : Holds(s, f)
    BY <1>8 DEF mark_published, Finish
  <2>3. \A e \in Events : status'[e] # "absent" => e \in delivered \/ status[e] # "absent"
    BY <1>8 DEF mark_published, MarkPublished, DeletePublished, TransitionAllowed, DeliveredInv
  <2> QED
    BY <2>1, <2>2, <2>3 DEF SameAggregate
<1>9. ASSUME NEW r \in Relays, mark_retry_or_failed(r) PROVE OrderInv'
  BY <1>9 DEF mark_retry_or_failed, MarkRetryOrFailed, RetryStatus, TransitionAllowed, AfterRetryUpdate, Finish, table, outside
<1>10. ASSUME NEW r \in Relays, escalate_failure(r) PROVE OrderInv'
  BY <1>10 DEF escalate_failure, Finish, table, outside
<1>11. ASSUME NEW r \in Relays, crash(r) PROVE OrderInv'
  BY <1>11 DEF crash, table, outside
<1>12. CASE release_stale_locks
  BY <1>12 DEF release_stale_locks, outside, relay
<1>13. CASE cleanup_published
  BY <1>13 DEF cleanup_published, outside, relay, history
<1>14. CASE UNCHANGED vars
  BY <1>14 DEF vars, table, outside, relay, history
<1> QED
  BY <1>1, <1>2, <1>3, <1>4, <1>5, <1>6, <1>7, <1>8, <1>9, <1>10, <1>11, <1>12, <1>13, <1>14
     DEF Next, process_batch

-----------------------------------------------------------------------------

\* The inductive invariant holds in every reachable state.
THEOREM RelayInvariant == Spec => []RelayInv
<1>1. Init => RelayInv
  BY OutboxAssumption DEF Init, RelayInv, InHand, DeliveredInv, RetriedInv, OrderInv, Holds
<1>2. TypeOK /\ RelayInv /\ [Next]_vars => RelayInv'
  BY InHandPreserved, DeliveredPreserved, RetriedPreserved, OrderPreserved DEF RelayInv
<1> QED
  BY <1>1, <1>2, TypeCorrect, PTL DEF Spec

\* At least once, for any number of events, relays and faults: a row leaves the
\* outbox as published or deleted only when Kafka has the event.
THEOREM AtLeastOnce == Spec => []NoEventLost
<1>1. RelayInv => NoEventLost
  BY DEF RelayInv, DeliveredInv, NoEventLost
<1> QED
  BY <1>1, RelayInvariant, PTL

\* An event overtakes an older one of its aggregate only after the older one
\* has failed a publish, or when the older one committed later.
THEOREM OrderKept == Spec => []OvertakenOnlyAfterRetry
<1>1. RelayInv => OvertakenOnlyAfterRetry
  BY DEF RelayInv, OrderInv, OvertakenOnlyAfterRetry
<1> QED
  BY <1>1, RelayInvariant, PTL

\* Every update that takes a row out of pending clears its lock.
LEMMA UnlockedPreserved ==
    TypeOK /\ UnlockedInv /\ [Next]_vars => UnlockedInv'
<1> SUFFICES ASSUME TypeOK, UnlockedInv, [Next]_vars PROVE UnlockedInv'
  OBVIOUS
<1> USE OutboxAssumption DEF TypeOK, UnlockedInv, Statuses, Busy
<1>1. ASSUME NEW e \in Events, insert_outbox_event(e) PROVE UnlockedInv'
  BY <1>1 DEF insert_outbox_event
<1>2. ASSUME NEW e \in Events, BackoffElapses(e) PROVE UnlockedInv'
  BY <1>2 DEF BackoffElapses
<1>3. ASSUME NEW e \in Events, DedupExpires(e) PROVE UnlockedInv'
  BY <1>3 DEF DedupExpires, table
<1>4. ASSUME NEW r \in Relays, claim_batch(r) PROVE UnlockedInv'
  BY <1>4 DEF claim_batch, Claimable, OldestPerAggregate, Ready
<1>5. ASSUME NEW r \in Relays, is_published(r) PROVE UnlockedInv'
  BY <1>5 DEF is_published, table
<1>6. ASSUME NEW r \in Relays, publish_payload(r) PROVE UnlockedInv'
  BY <1>6 DEF publish_payload, Deliver, table
<1>7. ASSUME NEW r \in Relays, cache_published(r) PROVE UnlockedInv'
  BY <1>7 DEF cache_published, table
<1>8. ASSUME NEW r \in Relays, mark_published(r) PROVE UnlockedInv'
  BY <1>8 DEF mark_published, MarkPublished, DeletePublished, TransitionAllowed
<1>9. ASSUME NEW r \in Relays, mark_retry_or_failed(r) PROVE UnlockedInv'
  BY <1>9 DEF mark_retry_or_failed, MarkRetryOrFailed, RetryStatus, TransitionAllowed, table
<1>10. ASSUME NEW r \in Relays, escalate_failure(r) PROVE UnlockedInv'
  BY <1>10 DEF escalate_failure, table
<1>11. ASSUME NEW r \in Relays, crash(r) PROVE UnlockedInv'
  BY <1>11 DEF crash, table
<1>12. CASE release_stale_locks
  BY <1>12 DEF release_stale_locks
<1>13. CASE cleanup_published
  BY <1>13 DEF cleanup_published
<1>14. CASE UNCHANGED vars
  BY <1>14 DEF vars, table
<1> QED
  BY <1>1, <1>2, <1>3, <1>4, <1>5, <1>6, <1>7, <1>8, <1>9, <1>10, <1>11, <1>12, <1>13, <1>14
     DEF Next, process_batch

\* published and failed are terminal for every number of relays and faults: no
\* late UPDATE of a relay that lost its lock takes an event back.
THEOREM StatusIsTerminal == Spec => TerminalStatus
<1> DEFINE Step == \A e \in Events :
        /\ status[e] = "published" => status'[e] \in {"published", "deleted"}
        /\ status[e] = "failed" => \/ status'[e] = "failed"
                                   \/ Deleting # {} /\ status'[e] = "deleted"
        /\ status[e] # "pending" => lockedBy'[e] = NoRelay
<1>1. Init => UnlockedInv
  BY DEF Init, UnlockedInv
<1>2. TypeOK /\ UnlockedInv /\ [Next]_vars => Step
  <2> SUFFICES ASSUME TypeOK, UnlockedInv, [Next]_vars PROVE Step
    OBVIOUS
  <2> USE OutboxAssumption DEF TypeOK, UnlockedInv, Statuses, Busy
  <2>1. ASSUME NEW e \in Events, insert_outbox_event(e) PROVE Step
    BY <2>1 DEF insert_outbox_event
  <2>2. ASSUME NEW e \in Events, BackoffElapses(e) PROVE Step
    BY <2>2 DEF BackoffElapses
  <2>3. ASSUME NEW e \in Events, DedupExpires(e) PROVE Step
    BY <2>3 DEF DedupExpires, table
  <2>4. ASSUME NEW r \in Relays, claim_batch(r) PROVE Step
    BY <2>4 DEF claim_batch, Claimable, OldestPerAggregate, Ready
  <2>5. ASSUME NEW r \in Relays, is_published(r) PROVE Step
    BY <2>5 DEF is_published, table
  <2>6. ASSUME NEW r \in Relays, publish_payload(r) PROVE Step
    BY <2>6 DEF publish_payload, Deliver, table
  <2>7. ASSUME NEW r \in Relays, cache_published(r) PROVE Step
    BY <2>7 DEF cache_published, table
  <2>8. ASSUME NEW r \in Relays, mark_published(r) PROVE Step
    BY <2>8 DEF mark_published, MarkPublished, DeletePublished, TransitionAllowed
  <2>9. ASSUME NEW r \in Relays, mark_retry_or_failed(r) PROVE Step
    BY <2>9 DEF mark_retry_or_failed, MarkRetryOrFailed, RetryStatus, TransitionAllowed, table
  <2>10. ASSUME NEW r \in Relays, escalate_failure(r) PROVE Step
    BY <2>10 DEF escalate_failure, table
  <2>11. ASSUME NEW r \in Relays, crash(r) PROVE Step
    BY <2>11 DEF crash, table
  <2>12. CASE release_stale_locks
    BY <2>12 DEF release_stale_locks
  <2>13. CASE cleanup_published
    BY <2>13 DEF cleanup_published
  <2>14. CASE UNCHANGED vars
    BY <2>14 DEF vars, table
  <2> QED
    BY <2>1, <2>2, <2>3, <2>4, <2>5, <2>6, <2>7, <2>8, <2>9, <2>10, <2>11, <2>12, <2>13, <2>14
       DEF Next, process_batch
<1> QED
  BY <1>1, <1>2, TypeCorrect, UnlockedPreserved, PTL DEF Spec, TerminalStatus

\* Until the first fault, the lock on the row is what an instance believes it is.
LEMMA FaultFreePreserved ==
    TypeOK /\ RelayInv /\ FaultFreeInv /\ [Next]_vars => FaultFreeInv'
<1> SUFFICES ASSUME TypeOK, RelayInv, FaultFreeInv, [Next]_vars, faults' = 0 PROVE LockInv'
  BY DEF FaultFreeInv
<1> USE OutboxAssumption DEF TypeOK, Busy
<1>0. faults = 0 /\ LockInv
  <2>1. faults' = faults \/ faults' = faults + 1
    BY DEF Next, process_batch, insert_outbox_event, BackoffElapses, DedupExpires, claim_batch,
       is_published, publish_payload, cache_published, mark_published, mark_retry_or_failed,
       escalate_failure, crash, release_stale_locks, cleanup_published, Fault, vars, history
  <2> QED
    BY <2>1 DEF FaultFreeInv
<1>f. ASSUME UNCHANGED <<status, retryCount, lockedBy, delivered, duplicated, relay>> PROVE LockInv'
  <2>1. OwnsWork'
    BY <1>0, <1>f DEF LockInv, OwnsWork, OwnsLock, relay
  <2>2. OneHolder'
    BY <1>0, <1>f DEF LockInv, OneHolder, Holds, relay
  <2>3. LastChance'
    BY <1>0, <1>f DEF LockInv, LastChance, Holds, relay
  <2>4. InFlight'
    BY <1>0, <1>f DEF LockInv, InFlight, relay
  <2> QED
    BY <1>0, <1>f, <2>1, <2>2, <2>3, <2>4 DEF LockInv
<1>1. ASSUME NEW e \in Events, insert_outbox_event(e) PROVE LockInv'
  <2>1. OwnsWork'
    BY <1>0, <1>1 DEF LockInv, OwnsWork, OwnsLock, OneHolder, Holds, insert_outbox_event, outside, relay, Fault
  <2>2. OneHolder'
    BY <1>0, <1>1 DEF LockInv, OneHolder, Holds, OwnsWork, OwnsLock, insert_outbox_event, outside, relay, Fault
  <2>3. LastChance'
    BY <1>0, <1>1 DEF LockInv, LastChance, Holds, RelayInv, InHand, insert_outbox_event, relay
  <2>4. InFlight'
    BY <1>0, <1>1 DEF LockInv, InFlight, RelayInv, DeliveredInv, insert_outbox_event, outside, relay
  <2>5. (duplicated = {})'
    BY <1>0, <1>1 DEF LockInv, InFlight, OwnsWork, OwnsLock, OneHolder, Holds, insert_outbox_event, outside, relay, Fault
  <2> QED
    BY <2>1, <2>2, <2>3, <2>4, <2>5 DEF LockInv
<1>2. ASSUME NEW e \in Events, BackoffElapses(e) PROVE LockInv'
  BY <1>2, <1>f DEF BackoffElapses, outside
<1>3. ASSUME NEW e \in Events, DedupExpires(e) PROVE LockInv'
  BY <1>3, <1>f DEF DedupExpires, table
<1>4. ASSUME NEW r \in Relays, claim_batch(r) PROVE LockInv'
  <2>1. OwnsWork'
    <3>1. PICK S \in SUBSET Claimable :
            /\ batch' = [batch EXCEPT ![r] = S]
            /\ lockedBy' = [e \in Events |-> IF e \in S THEN r ELSE lockedBy[e]]
      BY <1>4 DEF claim_batch
    <3>2. pc[r] = "idle" /\ pc' = [pc EXCEPT ![r] = "next"] /\ UNCHANGED <<cur, status>>
      BY <1>4 DEF claim_batch
    <3>3. \A e \in S : e \in Events /\ lockedBy[e] = NoRelay /\ status[e] = "pending"
      BY <3>1 DEF Claimable, OldestPerAggregate, Ready
    <3> SUFFICES ASSUME NEW s \in Relays
                 PROVE  /\ \A e \in batch'[s] : lockedBy'[e] = s /\ status'[e] = "pending"
                        /\ pc'[s] \in Busy \ {"escalate"} =>
                              lockedBy'[cur'[s]] = s /\ status'[cur'[s]] = "pending"
                        /\ pc'[s] = "escalate" => status'[cur'[s]] = "failed"
      BY DEF OwnsWork, OwnsLock
    <3>o. /\ \A e \in batch[s] : e \in Events /\ lockedBy[e] = s /\ status[e] = "pending"
          /\ pc[s] \in Busy \ {"escalate"} =>
                cur[s] \in Events /\ lockedBy[cur[s]] = s /\ status[cur[s]] = "pending"
          /\ pc[s] = "escalate" => cur[s] \in Events /\ status[cur[s]] = "failed"
      BY <1>0 DEF LockInv, OwnsWork, OwnsLock
    <3>4. \A e \in Events : status[e] = "pending" /\ lockedBy[e] = s =>
                            lockedBy'[e] = s /\ status'[e] = "pending"
      BY <3>1, <3>2, <3>3
    <3>5. CASE s = r
      BY <3>1, <3>2, <3>3, <3>5
    <3>6. CASE s # r
      BY <3>1, <3>2, <3>4, <3>o, <3>6
    <3> QED
      BY <3>5, <3>6
  <2>2. OneHolder'
    <3>1. PICK S \in SUBSET Claimable : batch' = [batch EXCEPT ![r] = S]
      BY <1>4 DEF claim_batch
    <3>2. cur' = cur
      BY <1>4 DEF claim_batch
    <3>3. \A e \in S : e \in Events /\ lockedBy[e] = NoRelay /\ status[e] = "pending"
      BY <3>1 DEF Claimable, OldestPerAggregate, Ready
    <3>4. ASSUME NEW s \in Relays, NEW e \in S PROVE ~ Holds(s, e)
      <4>1. e \in Events /\ lockedBy[e] # s /\ status[e] = "pending"
        BY <3>3
      <4>2. e \notin batch[s]
        BY <1>0, <4>1 DEF LockInv, OwnsWork, OwnsLock
      <4>3. cur[s] # e
        <5>1. ASSUME cur[s] = e PROVE pc[s] \in Busy
          BY <4>1, <5>1
        <5> QED
          BY <1>0, <4>1, <5>1 DEF LockInv, OwnsWork, OwnsLock
      <4> QED
        BY <4>2, <4>3 DEF Holds
    <3>5. \A s \in Relays, e \in Events : Holds(s, e)' => Holds(s, e) \/ (s = r /\ e \in S)
      BY <3>1, <3>2 DEF Holds
    <3> QED
      BY <1>0, <3>4, <3>5 DEF LockInv, OneHolder
  <2>3. LastChance'
    BY <1>0, <1>4 DEF LockInv, LastChance, Holds, OneHolder, claim_batch, Claimable, OldestPerAggregate, Ready, outside, history, Fault
  <2>4. InFlight'
    BY <1>0, <1>4 DEF LockInv, InFlight, OwnsWork, OwnsLock, OneHolder, Holds, claim_batch, Claimable, OldestPerAggregate, Ready, outside, history, Fault
  <2>5. (duplicated = {})'
    BY <1>0, <1>4 DEF LockInv, InFlight, OwnsWork, OwnsLock, OneHolder, Holds, claim_batch, Claimable, OldestPerAggregate, Ready, outside, history, Fault
  <2> QED
    BY <2>1, <2>2, <2>3, <2>4, <2>5 DEF LockInv
<1>5. ASSUME NEW r \in Relays, is_published(r) PROVE LockInv'
  <2>1. OwnsWork'
    BY <1>0, <1>5 DEF LockInv, OwnsWork, OwnsLock, OneHolder, Holds, is_published, table, outside, history, Fault
  <2>2. OneHolder'
    <3>1. PICK e \in batch[r] :
            /\ cur' = [cur EXCEPT ![r] = e]
            /\ batch' = [batch EXCEPT ![r] = @ \ {e}]
            /\ pc' = [pc EXCEPT ![r] = "mark"] \/ pc' = [pc EXCEPT ![r] = "publish"]
      BY <1>5 DEF is_published
    <3>2. \A s \in Relays, x \in Events : Holds(s, x)' => Holds(s, x)
      BY <3>1 DEF Holds
    <3> QED
      BY <1>0, <3>2 DEF LockInv, OneHolder
  <2>3. LastChance'
    <3>1. PICK e \in batch[r] :
            /\ cur' = [cur EXCEPT ![r] = e]
            /\ batch' = [batch EXCEPT ![r] = @ \ {e}]
            /\ pc' = [pc EXCEPT ![r] = "mark"] \/ pc' = [pc EXCEPT ![r] = "publish"]
      BY <1>5 DEF is_published
    <3>2. \A s \in Relays, x \in Events : Holds(s, x)' => Holds(s, x)
      BY <3>1 DEF Holds
    <3>3. UNCHANGED <<last, status, retryCount>>
      BY <1>5 DEF is_published, table
    <3> QED
      BY <1>0, <3>2, <3>3 DEF LockInv, LastChance
  <2>4. InFlight'
    <3>1. PICK e \in batch[r] :
            /\ cur' = [cur EXCEPT ![r] = e]
            /\ batch' = [batch EXCEPT ![r] = @ \ {e}]
            /\ pc' = [pc EXCEPT ![r] = "mark"] \/ pc' = [pc EXCEPT ![r] = "publish"]
      BY <1>5 DEF is_published
    <3>2. pc[r] = "next" /\ UNCHANGED <<delivered, status>>
      BY <1>5 DEF is_published, table, outside
    <3>3. \A s \in Relays : s # r => cur'[s] = cur[s] /\ pc'[s] = pc[s]
      BY <3>1
    <3> QED
      BY <1>0, <3>2, <3>3 DEF LockInv, InFlight
  <2>5. (duplicated = {})'
    BY <1>0, <1>5 DEF LockInv, InFlight, OwnsWork, OwnsLock, OneHolder, Holds, is_published, table, outside, history, Fault
  <2> QED
    BY <2>1, <2>2, <2>3, <2>4, <2>5 DEF LockInv
<1>6. ASSUME NEW r \in Relays, publish_payload(r) PROVE LockInv'
  <2>1. OwnsWork'
    BY <1>0, <1>6 DEF LockInv, OwnsWork, OwnsLock, OneHolder, Holds, publish_payload, Deliver, table, Fault
  <2>2. OneHolder'
    BY <1>0, <1>6 DEF LockInv, OneHolder, Holds, OwnsWork, OwnsLock, publish_payload, Deliver, table, Fault
  <2>3. LastChance'
    BY <1>0, <1>6 DEF LockInv, LastChance, Holds, OneHolder, publish_payload, Deliver, table, Fault
  <2>4. InFlight'
    <3>1. CASE Deliver(cur[r]) /\ pc' = [pc EXCEPT ![r] = "cache"]
      BY <1>0, <1>6, <3>1 DEF LockInv, InFlight, Deliver, publish_payload, table
    <3>2. CASE pc' = [pc EXCEPT ![r] = "retry"] /\ UNCHANGED delivered
      BY <1>0, <1>6, <3>2 DEF LockInv, InFlight, publish_payload, table
    <3> QED
      BY <1>0, <1>6, <3>1, <3>2 DEF publish_payload, Fault
  <2>5. (duplicated = {})'
    <3>1. pc[r] = "publish" /\ cur[r] \in Events
      BY <1>6 DEF publish_payload
    <3>2. status[cur[r]] = "pending"
      BY <1>0, <3>1 DEF LockInv, OwnsWork, OwnsLock
    <3>3. cur[r] \notin delivered
      <4>1. ASSUME cur[r] \in delivered PROVE FALSE
        <5>1. PICK s \in Relays : cur[s] = cur[r] /\ pc[s] \in {"cache", "mark"}
          BY <1>0, <3>2, <4>1 DEF LockInv, InFlight
        <5>2. s = r
          BY <1>0, <3>1, <5>1 DEF LockInv, OneHolder, Holds
        <5> QED
          BY <3>1, <5>1, <5>2
      <4> QED
        BY <4>1
    <3> QED
      BY <1>0, <1>6, <3>3 DEF LockInv, publish_payload, Deliver, Fault
  <2> QED
    BY <2>1, <2>2, <2>3, <2>4, <2>5 DEF LockInv
<1>7. ASSUME NEW r \in Relays, cache_published(r) PROVE LockInv'
  <2>1. OwnsWork'
    BY <1>0, <1>7 DEF LockInv, OwnsWork, OwnsLock, OneHolder, Holds, cache_published, table, history, Fault
  <2>2. OneHolder'
    BY <1>0, <1>7 DEF LockInv, OneHolder, Holds, OwnsWork, OwnsLock, cache_published, table, history, Fault
  <2>3. LastChance'
    BY <1>0, <1>7 DEF LockInv, LastChance, Holds, OneHolder, cache_published, table, history, Fault
  <2>4. InFlight'
    BY <1>0, <1>7 DEF LockInv, InFlight, OwnsWork, OwnsLock, OneHolder, Holds, cache_published, table, history, Fault
  <2>5. (duplicated = {})'
    BY <1>0, <1>7 DEF LockInv, InFlight, OwnsWork, OwnsLock, OneHolder, Holds, cache_published, table, history, Fault
  <2> QED
    BY <2>1, <2>2, <2>3, <2>4, <2>5 DEF LockInv
<1>8. ASSUME NEW r \in Relays, mark_published(r) PROVE LockInv'
  <2>1. OwnsWork'
    <3>1. pc[r] = "mark" /\ cur[r] \in Events /\ Finish(r)
      BY <1>8 DEF mark_published
    <3>2. status[cur[r]] = "pending"
      BY <1>0, <3>1 DEF LockInv, OwnsWork, OwnsLock
    <3>3. \A s \in Relays : cur[r] \notin batch[s] /\ (s # r => cur[s] # cur[r])
      BY <1>0, <3>1 DEF LockInv, OneHolder, Holds, RelayInv, InHand
    <3>4. \A e \in Events : e # cur[r] => status'[e] = status[e] /\ lockedBy'[e] = lockedBy[e]
      BY <1>8, <3>1 DEF mark_published, MarkPublished, DeletePublished
    <3>6. \A s \in Relays : s # r => cur'[s] = cur[s] /\ pc'[s] = pc[s]
      BY <3>1 DEF Finish
    <3>7. pc'[r] \in {"idle", "next"} /\ batch' = batch
      BY <3>1 DEF Finish
    <3> SUFFICES ASSUME NEW s \in Relays
                 PROVE  /\ \A e \in batch'[s] : lockedBy'[e] = s /\ status'[e] = "pending"
                        /\ pc'[s] \in Busy \ {"escalate"} =>
                              lockedBy'[cur'[s]] = s /\ status'[cur'[s]] = "pending"
                        /\ pc'[s] = "escalate" => status'[cur'[s]] = "failed"
      BY DEF OwnsWork, OwnsLock
    <3>o. /\ \A e \in batch[s] : e \in Events /\ lockedBy[e] = s /\ status[e] = "pending"
          /\ pc[s] \in Busy \ {"escalate"} =>
                cur[s] \in Events /\ lockedBy[cur[s]] = s /\ status[cur[s]] = "pending"
          /\ pc[s] = "escalate" => cur[s] \in Events /\ status[cur[s]] = "failed"
      BY <1>0 DEF LockInv, OwnsWork, OwnsLock
    <3>8. CASE s = r
      <4>1. \A e \in batch'[s] : e \in Events /\ e # cur[r] /\ e \in batch[s]
        BY <3>3, <3>7, <3>o
      <4>2. ASSUME NEW e \in batch'[s] PROVE lockedBy'[e] = s /\ status'[e] = "pending"
        <5>1. e \in Events /\ e # cur[r] /\ e \in batch[s]
          BY <4>1
        <5>2. lockedBy[e] = s /\ status[e] = "pending"
          BY <5>1, <3>o
        <5> QED
          BY <5>1, <5>2, <3>4
      <4> QED
        BY <3>7, <3>8, <4>2
    <3>9. CASE s # r
      <4>1. \A e \in batch'[s] : e \in Events /\ e # cur[r] /\ e \in batch[s]
        BY <3>3, <3>7, <3>o
      <4>2. pc'[s] = pc[s] /\ cur'[s] = cur[s] /\ cur[s] # cur[r]
        BY <3>3, <3>6, <3>9
      <4> QED
        BY <3>4, <3>o, <4>1, <4>2
    <3> QED
      BY <3>8, <3>9
  <2>2. OneHolder'
    BY <1>0, <1>8 DEF LockInv, OneHolder, Holds, OwnsWork, OwnsLock, mark_published, MarkPublished, DeletePublished, TransitionAllowed, Finish, outside, Fault
  <2>3. LastChance'
    <3>1. \A e \in Events : status'[e] = "pending" => status[e] = "pending"
      BY <1>8 DEF mark_published, MarkPublished, DeletePublished
    <3>2. retryCount' = retryCount /\ Finish(r)
      BY <1>8 DEF mark_published
    <3>3. \A s \in Relays : last'[s] \subseteq last[s]
      BY <3>2 DEF Finish
    <3>4. \A s \in Relays, e \in Events : Holds(s, e)' => Holds(s, e)
      BY <3>2 DEF Holds, Finish
    <3> QED
      BY <1>0, <3>1, <3>2, <3>3, <3>4 DEF LockInv, LastChance
  <2>4. InFlight'
    BY <1>0, <1>8 DEF LockInv, InFlight, OwnsWork, OwnsLock, OneHolder, Holds, mark_published, MarkPublished, DeletePublished, TransitionAllowed, Finish, outside, Fault
  <2>5. (duplicated = {})'
    BY <1>0, <1>8 DEF LockInv, InFlight, OwnsWork, OwnsLock, OneHolder, Holds, mark_published, MarkPublished, DeletePublished, TransitionAllowed, Finish, outside, Fault
  <2> QED
    BY <2>1, <2>2, <2>3, <2>4, <2>5 DEF LockInv
<1>9. ASSUME NEW r \in Relays, mark_retry_or_failed(r) PROVE LockInv'
  <2>f1. pc[r] = "retry" /\ cur[r] \in Events
    BY <1>9 DEF mark_retry_or_failed
  <2>f2. status[cur[r]] = "pending"
    BY <1>0, <2>f1 DEF LockInv, OwnsWork, OwnsLock
  <2>f3. \A s \in Relays : cur[r] \notin batch[s] /\ (s # r => cur[s] # cur[r])
    BY <1>0, <2>f1 DEF LockInv, OneHolder, Holds, RelayInv, InHand
  <2>f4. MarkRetryOrFailed(cur[r]) /\ AfterRetryUpdate(r)
    BY <1>0, <1>9, <2>f1, <2>f2 DEF mark_retry_or_failed, TransitionAllowed, RetryStatus, Fault
  <2>f5. \A e \in Events : e # cur[r] =>
          status'[e] = status[e] /\ lockedBy'[e] = lockedBy[e] /\ retryCount'[e] = retryCount[e]
    BY <2>f4 DEF MarkRetryOrFailed
  <2>f6. batch' = batch /\ \A s \in Relays : s # r => cur'[s] = cur[s] /\ pc'[s] = pc[s] /\ last'[s] = last[s]
    BY <2>f4 DEF AfterRetryUpdate, Finish
  <2>f7. \/ cur'[r] = NoEvent /\ pc'[r] \in {"idle", "next"} /\ last'[r] \subseteq last[r]
         \/ cur'[r] = cur[r] /\ pc'[r] = "escalate" /\ last'[r] = last[r] /\ cur[r] \in last[r]
    BY <2>f4 DEF AfterRetryUpdate, Finish
  <2>f8. cur[r] \in last[r] => status'[cur[r]] = "failed"
    <3>1. cur[r] \in last[r] => retryCount[cur[r]] + 1 >= MaxRetries
      BY <1>0, <2>f2 DEF LockInv, LastChance, Holds
    <3> QED
      BY <2>f1, <2>f4, <3>1 DEF MarkRetryOrFailed, RetryStatus
  <2>1. OwnsWork'
    <3> SUFFICES ASSUME NEW s \in Relays
                 PROVE  /\ \A e \in batch'[s] : lockedBy'[e] = s /\ status'[e] = "pending"
                        /\ pc'[s] \in Busy \ {"escalate"} =>
                              lockedBy'[cur'[s]] = s /\ status'[cur'[s]] = "pending"
                        /\ pc'[s] = "escalate" => status'[cur'[s]] = "failed"
      BY DEF OwnsWork, OwnsLock
    <3>o. /\ \A e \in batch[s] : e \in Events /\ lockedBy[e] = s /\ status[e] = "pending"
          /\ pc[s] \in Busy \ {"escalate"} =>
                cur[s] \in Events /\ lockedBy[cur[s]] = s /\ status[cur[s]] = "pending"
          /\ pc[s] = "escalate" => cur[s] \in Events /\ status[cur[s]] = "failed"
      BY <1>0 DEF LockInv, OwnsWork, OwnsLock
    <3>9. CASE s = r
      <4>1. \A e \in batch'[s] : e \in Events /\ e # cur[r] /\ e \in batch[s]
        BY <2>f3, <2>f6, <3>o
      <4>2. ASSUME NEW e \in batch'[s] PROVE lockedBy'[e] = s /\ status'[e] = "pending"
        <5>1. e \in Events /\ e # cur[r] /\ e \in batch[s]
          BY <4>1
        <5>2. lockedBy[e] = s /\ status[e] = "pending"
          BY <5>1, <3>o
        <5> QED
          BY <5>1, <5>2, <2>f5
      <4>3. pc'[s] \in {"idle", "next"} \/ (pc'[s] = "escalate" /\ status'[cur'[s]] = "failed")
        BY <2>f7, <2>f8, <3>9
      <4> QED
        BY <4>2, <4>3
    <3>10. CASE s # r
      <4>1. \A e \in batch'[s] : e \in Events /\ e # cur[r] /\ e \in batch[s]
        BY <2>f3, <2>f6, <3>o
      <4>2. pc'[s] = pc[s] /\ cur'[s] = cur[s] /\ cur[s] # cur[r]
        BY <2>f3, <2>f6, <3>10
      <4> QED
        BY <2>f5, <3>o, <4>1, <4>2
    <3> QED
      BY <3>9, <3>10
  <2>2. OneHolder'
    <3>1. \A s \in Relays, e \in Events : Holds(s, e)' => Holds(s, e)
      BY <2>f6, <2>f7 DEF Holds
    <3> QED
      BY <1>0, <3>1 DEF LockInv, OneHolder
  <2>3. LastChance'
    <3> SUFFICES ASSUME NEW s \in Relays, NEW e \in last'[s],
                        Holds(s, e)', status'[e] = "pending"
                 PROVE  retryCount'[e] + 1 >= MaxRetries
      BY DEF LastChance
    <3>9. e \in last[s] /\ e \in Events /\ Holds(s, e)
      BY <2>f6, <2>f7 DEF Holds
    <3>10. e # cur[r]
      BY <2>f3, <2>f6, <2>f7, <2>f8 DEF Holds
    <3> QED
      BY <1>0, <2>f5, <3>9, <3>10 DEF LockInv, LastChance
  <2>f9. delivered' = delivered /\ duplicated' = duplicated
    BY <1>9 DEF mark_retry_or_failed, outside
  <2>4. InFlight'
    <3> SUFFICES ASSUME NEW e \in delivered, status'[e] = "pending"
                 PROVE  \E s \in Relays : cur'[s] = e /\ pc'[s] \in {"cache", "mark"}
      BY <2>f9 DEF InFlight
    <3>1. e \in Events
      BY <1>0 DEF TypeOK
    <3>2. ASSUME e = cur[r] PROVE FALSE
      <4>1. PICK s \in Relays : cur[s] = e /\ pc[s] \in {"cache", "mark"}
        BY <1>0, <2>f2, <3>2 DEF LockInv, InFlight
      <4>2. s # r
        BY <4>1, <2>f1
      <4> QED
        BY <4>1, <4>2, <3>2, <2>f3
    <3>3. status[e] = "pending"
      BY <3>1, <3>2, <2>f5
    <3>4. PICK s \in Relays : cur[s] = e /\ pc[s] \in {"cache", "mark"}
      BY <1>0, <3>3 DEF LockInv, InFlight
    <3>5. s # r
      BY <3>4, <2>f1
    <3> QED
      BY <3>4, <3>5, <2>f6
  <2>5. (duplicated = {})'
    BY <1>0, <2>f9 DEF LockInv
  <2> QED
    BY <2>1, <2>2, <2>3, <2>4, <2>5 DEF LockInv
<1>10. ASSUME NEW r \in Relays, escalate_failure(r) PROVE LockInv'
  <2>1. OwnsWork'
    BY <1>0, <1>10 DEF LockInv, OwnsWork, OwnsLock, OneHolder, Holds, escalate_failure, Finish, table, outside, Fault
  <2>2. OneHolder'
    BY <1>0, <1>10 DEF LockInv, OneHolder, Holds, OwnsWork, OwnsLock, escalate_failure, Finish, table, outside, Fault
  <2>3. LastChance'
    BY <1>0, <1>10 DEF LockInv, LastChance, Holds, OneHolder, escalate_failure, Finish, table, outside, Fault
  <2>4. InFlight'
    BY <1>0, <1>10 DEF LockInv, InFlight, OwnsWork, OwnsLock, OneHolder, Holds, escalate_failure, Finish, table, outside, Fault
  <2>5. (duplicated = {})'
    BY <1>0, <1>10 DEF LockInv, InFlight, OwnsWork, OwnsLock, OneHolder, Holds, escalate_failure, Finish, table, outside, Fault
  <2> QED
    BY <2>1, <2>2, <2>3, <2>4, <2>5 DEF LockInv
<1>11. ASSUME NEW r \in Relays, crash(r) PROVE LockInv'
  BY <1>0, <1>11 DEF crash, Fault
<1>12. CASE release_stale_locks
  <2>0. PICK S \in SUBSET Locked :
          /\ IF \E e \in S : Holds(lockedBy[e], e) THEN Fault("slow_relay") ELSE UNCHANGED faults
          /\ lockedBy' = [e \in Events |-> IF e \in S THEN NoRelay ELSE lockedBy[e]]
    BY <1>12 DEF release_stale_locks
  <2>1. /\ ~ \E e \in S : Holds(lockedBy[e], e)
        /\ lockedBy' = [e \in Events |-> IF e \in S THEN NoRelay ELSE lockedBy[e]]
    <3>1. ~ Fault("slow_relay")
      BY <1>0 DEF Fault
    <3> QED
      BY <2>0, <3>1
  <2>2. UNCHANGED <<status, retryCount, outside, relay>>
    BY <1>12 DEF release_stale_locks
  <2>3. OwnsWork'
    <3>1. \A s \in Relays, e \in Events : Holds(s, e) /\ OwnsLock(s, e) => OwnsLock(s, e)'
      BY <2>1, <2>2 DEF OwnsLock, Locked
    <3>2. \A s \in Relays, e \in Events : Holds(s, e)' => Holds(s, e)
      BY <2>2 DEF Holds, relay
    <3> QED
      BY <1>0, <2>2, <3>1, <3>2 DEF LockInv, OwnsWork, Holds, relay
  <2> QED
    BY <1>0, <2>2, <2>3 DEF LockInv, OneHolder, LastChance, InFlight, Holds, outside, relay
<1>13. CASE cleanup_published
  <2>1. OwnsWork'
    <3>1. \A e \in Events : status[e] \in {"pending", "failed"} => status'[e] = status[e]
      BY <1>13 DEF cleanup_published
    <3> SUFFICES ASSUME NEW s \in Relays
                 PROVE  /\ \A e \in batch'[s] : lockedBy'[e] = s /\ status'[e] = "pending"
                        /\ pc'[s] \in Busy \ {"escalate"} =>
                              lockedBy'[cur'[s]] = s /\ status'[cur'[s]] = "pending"
                        /\ pc'[s] = "escalate" => status'[cur'[s]] = "failed"
      BY DEF OwnsWork, OwnsLock
    <3>o. /\ \A e \in batch[s] : e \in Events /\ lockedBy[e] = s /\ status[e] = "pending"
          /\ pc[s] \in Busy \ {"escalate"} =>
                cur[s] \in Events /\ lockedBy[cur[s]] = s /\ status[cur[s]] = "pending"
          /\ pc[s] = "escalate" => cur[s] \in Events /\ status[cur[s]] = "failed"
      BY <1>0 DEF LockInv, OwnsWork, OwnsLock
    <3> QED
      BY <1>13, <3>1, <3>o DEF cleanup_published, relay
  <2>2. /\ \A e \in Events : status'[e] = "pending" => status[e] = "pending"
        /\ UNCHANGED <<retryCount, delivered, duplicated, relay>>
    BY <1>13 DEF cleanup_published, outside
  <2>3. OneHolder'
    BY <1>0, <2>2 DEF LockInv, OneHolder, Holds, relay
  <2>4. LastChance'
    BY <1>0, <2>2 DEF LockInv, LastChance, Holds, relay
  <2>5. InFlight'
    BY <1>0, <2>2 DEF LockInv, InFlight, relay
  <2> QED
    BY <1>0, <2>1, <2>2, <2>3, <2>4, <2>5 DEF LockInv
<1>14. CASE UNCHANGED vars
  BY <1>14, <1>f DEF vars, table, outside
<1> QED
  BY <1>1, <1>2, <1>3, <1>4, <1>5, <1>6, <1>7, <1>8, <1>9, <1>10, <1>11, <1>12, <1>13, <1>14
     DEF Next, process_batch

\* Without faults Kafka gets each event once, and no two instances ever hold the
\* same event, for any number of instances and events.
THEOREM ExactlyOnce == Spec => []ExactlyOnceWithoutFaults
<1>1. Init => FaultFreeInv
  BY OutboxAssumption DEF Init, FaultFreeInv, LockInv, OwnsWork, OneHolder, LastChance, InFlight, Holds, Busy
<1>2. FaultFreeInv => ExactlyOnceWithoutFaults
  BY DEF FaultFreeInv, LockInv, OneHolder, ExactlyOnceWithoutFaults
<1> QED
  BY <1>1, <1>2, TypeCorrect, RelayInvariant, FaultFreePreserved, PTL DEF Spec

-----------------------------------------------------------------------------
(* Refinement *)

\* Every step of a relay, loop or service is a step of the abstract delivery
\* service, or leaves what it shows unchanged.
LEMMA StepRefines ==
    TypeOK /\ RelayInv /\ [Next]_vars => [Delivery!Next]_Delivery!vars
<1> SUFFICES ASSUME TypeOK, RelayInv, [Next]_vars PROVE [Delivery!Next]_Delivery!vars
  OBVIOUS
<1> USE OutboxAssumption DEF TypeOK, Busy
<1>a. ASSUME UNCHANGED status, UNCHANGED delivered PROVE UNCHANGED Delivery!vars
  BY <1>a DEF Delivery!vars
<1>1. ASSUME NEW e \in Events, insert_outbox_event(e) PROVE Delivery!Store(e)
  BY <1>1 DEF insert_outbox_event, outside, Delivery!Store
<1>2. ASSUME NEW e \in Events, BackoffElapses(e) \/ DedupExpires(e) PROVE UNCHANGED Delivery!vars
  BY <1>2, <1>a DEF BackoffElapses, DedupExpires, outside, table
<1>3. ASSUME NEW r \in Relays,
             \/ claim_batch(r) \/ is_published(r) \/ cache_published(r)
             \/ escalate_failure(r) \/ crash(r)
      PROVE  UNCHANGED Delivery!vars
  BY <1>3, <1>a DEF claim_batch, is_published, cache_published, escalate_failure, crash, outside, table
<1>4. ASSUME NEW r \in Relays, publish_payload(r), NEW c \in Events, c = cur[r]
      PROVE  UNCHANGED Delivery!vars \/ Delivery!Send(c)
  <2>1. status[c] # "absent" /\ UNCHANGED status
    BY <1>4 DEF publish_payload, table, RelayInv, InHand, Holds
  <2>2. delivered' = delivered \/ delivered' = delivered \cup {c}
    BY <1>4 DEF publish_payload, Deliver
  <2> QED
    BY <1>a, <2>1, <2>2 DEF Delivery!Send
<1>5. ASSUME NEW r \in Relays, mark_published(r), NEW c \in Events, c = cur[r]
      PROVE  UNCHANGED Delivery!vars \/ Delivery!Settle(c) \/ Delivery!Recover(c)
  <2>1. status[c] # "absent" /\ c \in delivered /\ UNCHANGED delivered
    BY <1>5 DEF mark_published, outside, RelayInv, DeliveredInv, InHand, Holds
  <2>2. \/ UNCHANGED status
        \/ \E x \in {"published", "deleted"} : status' = [status EXCEPT ![c] = x]
    BY <1>5 DEF mark_published, MarkPublished, DeletePublished
  <2>3. CASE UNCHANGED status
    BY <1>a, <2>1, <2>3
  <2>4. ASSUME NEW x \in {"published", "deleted"}, status' = [status EXCEPT ![c] = x],
               status[c] = "pending"
        PROVE  Delivery!Settle(c)
    BY <2>1, <2>4 DEF Delivery!Settle
  <2>5. ASSUME NEW x \in {"published", "deleted"}, status' = [status EXCEPT ![c] = x],
               status[c] = "failed"
        PROVE  Delivery!Recover(c)
    BY <2>1, <2>5 DEF Delivery!Recover
  <2>6. ASSUME NEW x \in {"published", "deleted"}, status' = [status EXCEPT ![c] = x],
               status[c] \in {"published", "deleted"}
        PROVE  UNCHANGED Delivery!vars
    BY <2>1, <2>6 DEF Delivery!vars
  <2> QED
    BY <2>1, <2>2, <2>3, <2>4, <2>5, <2>6 DEF Statuses
<1>6. ASSUME NEW r \in Relays, mark_retry_or_failed(r), NEW c \in Events, c = cur[r]
      PROVE  UNCHANGED Delivery!vars \/ Delivery!Abandon(c)
  <2>1. UNCHANGED delivered
    BY <1>6 DEF mark_retry_or_failed, outside
  <2>2. \/ UNCHANGED status
        \/ status[c] = "pending" /\ status' = [status EXCEPT ![c] = "failed"]
    <3>1. CASE MarkRetryOrFailed(c)
      <4>1. RetryStatus(c) \in {"pending", "failed"}
        BY DEF RetryStatus
      <4>2. status' = [status EXCEPT ![c] = RetryStatus(c)]
        BY <3>1 DEF MarkRetryOrFailed
      <4>3. \/ status[c] = RetryStatus(c)
            \/ status[c] = "pending" /\ RetryStatus(c) = "failed"
        BY <3>1, <4>1 DEF MarkRetryOrFailed, TransitionAllowed
      <4> QED
        BY <2>1, <4>2, <4>3
    <3>2. CASE UNCHANGED table
      BY <3>2 DEF table
    <3> QED
      BY <1>6, <3>1, <3>2 DEF mark_retry_or_failed
  <2>3. CASE status[c] = "pending" /\ status' = [status EXCEPT ![c] = "failed"]
    BY <2>1, <2>3 DEF Delivery!Abandon
  <2> QED
    BY <1>a, <2>1, <2>2, <2>3
<1>7. CASE release_stale_locks
  BY <1>7, <1>a DEF release_stale_locks, outside
<1>8. CASE cleanup_published
  <2>1. UNCHANGED delivered /\ \A e \in Events :
            status'[e] = status[e] \/ (status[e] = "published" /\ status'[e] = "deleted")
    BY <1>8 DEF cleanup_published, outside
  <2> QED
    BY <2>1 DEF Delivery!vars
<1>9. CASE UNCHANGED vars
  BY <1>9, <1>a DEF vars, table, outside
<1>11. ASSUME NEW r \in Relays, publish_payload(r) \/ mark_published(r) \/ mark_retry_or_failed(r)
       PROVE  UNCHANGED Delivery!vars \/ Delivery!Next
  <2>1. cur[r] \in Events
    BY <1>11 DEF publish_payload, mark_published, mark_retry_or_failed
  <2>2. PICK c \in Events : c = cur[r]
    BY <2>1
  <2> QED
    BY <1>4, <1>5, <1>6, <1>11, <2>2, Zenon DEF Delivery!Next
<1>12. ASSUME NEW e \in Events, insert_outbox_event(e) PROVE Delivery!Next
  BY <1>1, <1>12, Zenon DEF Delivery!Next
<1> QED
  BY <1>2, <1>3, <1>7, <1>8, <1>9, <1>11, <1>12, Zenon DEF Next, process_batch

\* The outbox implements at-least-once delivery with failures on record, for
\* every number of events, relays and faults.
THEOREM RelayImplementsDelivery == Spec => ImplementsDelivery
<1>1. Init => Delivery!Init
  BY DEF Init, Delivery!Init
<1> QED
  BY <1>1, StepRefines, TypeCorrect, RelayInvariant, PTL DEF Spec, ImplementsDelivery, Delivery!Spec
=============================================================================
