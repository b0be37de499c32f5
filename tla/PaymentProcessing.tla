-------------------------- MODULE PaymentProcessing --------------------------
(***************************************************************************)
(* The payment service's event handlers for one order, step by step        *)
(* (payment/src/{consumers,payments,ledger}, shared/src/distributed_lock). *)
(* Orders do not interact here: the lock key, the idempotency keys of the  *)
(* ledger and the partition key of the events are all the order's id.      *)
(*                                                                         *)
(* A consumer instance (a worker) handles one event at a time:             *)
(*   begin the transaction, test processed_events      "begin"             *)
(*   take the Redis lock payment:{order}               "lock"              *)
(*   read the ledger on the pool, outside the tx       "first", "second"   *)
(*   call the gateway                                  "gateway"           *)
(*   write ledger rows and an outbox row in the tx     "write"             *)
(*   release the lock                                  "release"           *)
(*   commit, or roll back and retry                    "settle"            *)
(* The events of an order on one topic are in one partition and handled in *)
(* order; those of different topics are handled by different workers.      *)
(***************************************************************************)
EXTENDS Integers, Sequences, FiniteSets, SequencesExt, Functions

CONSTANTS
    Workers, NoWorker,
    Chargeable,         \* amount and currency pass authorization_rules
    MaxCaptureRetries,  \* MAX_CAPTURE_RETRIES
    MaxRetries,         \* max_retries of the consumer
    FaultKinds, FaultBudget

AllFaults == {"redis", "slow", "crash", "zombie", "duplicate", "db_error",
              "timeout", "declined", "tampered"}

ASSUME PaymentAssumption ==
    /\ NoWorker \notin Workers
    /\ Chargeable \in BOOLEAN
    /\ MaxCaptureRetries \in Nat \ {0}
    /\ MaxRetries \in Nat
    /\ FaultKinds \subseteq AllFaults
    /\ FaultBudget \in Nat

VARIABLES
    \* payment database, committed state
    ledger,     \* status of the transaction row of each type, or None
    chron,      \* row types and open transactions by created_at, NOW() of the transaction
    sent,       \* outbox rows
    processed,  \* processed_events
    \* the partitions of the three topics
    log, pos,
    givenUp,    \* events sent to the dead-letter topic, or skipped after a database error
    \* Redis
    lock,       \* holder of payment:{order}
    \* the workers
    pc, at,     \* at[w]: topic and index of the event in hand
    attempt, guard, result,
    rows,       \* ledger rows written in the open transaction
    out,        \* outbox rows written in the open transaction
    \* the gateway
    gateway,
    \* history
    overlap,    \* a worker decided while another's decision was not committed
    faults

database == <<ledger, chron, sent, processed>>
topics   == <<log, pos, givenUp>>
worker   == <<pc, at, attempt, guard, result, rows, out>>
vars     == <<database, topics, lock, worker, gateway, overlap, faults>>

None == "none"

-----------------------------------------------------------------------------
(* Events *)

\* A message of a partition: id is its event_id, here the index at which it was
\* first published; retry is the retry_count of its payload.
Messages == [type : {"InventoryReserved", "OrderConfirmed", "OrderCancelled",
                     "PaymentCaptureRetryRequested"},
             retry : 0..MaxCaptureRetries,
             id : Nat]

\* An outbox row.
Event(type, n) == [type |-> type, retry |-> n]
OutEvents == {Event(t, 0) : t \in {"PaymentAuthorized", "PaymentCaptured", "PaymentVoided", "PaymentFailed"}}
             \cup {Event("PaymentCaptureRetryRequested", n) : n \in 1..MaxCaptureRetries}

Topics == {"catalog.events", "orders.events", "payments.events"}

EventOf(w) == log[at[w].topic][at[w].index]

-----------------------------------------------------------------------------
(* The ledger *)

RowTypes == {"auth", "capture", "void"}

\* Seeded defect: only the authorization is looked at.
AuthorizedWhilePosted(rowsBy) ==
    CASE ledger["auth"] = None -> "New"
      [] ledger["auth"] = "posted" -> "Authorized"
      [] OTHER -> "Failed"

\* derive_payment_state over list_transactions_by_order.  No transaction is
\* committed in status pending: it is created and posted in one transaction.
derive_payment_state(rowsBy) ==
    LET posted == SelectSeq(rowsBy, LAMBDA x : x \in RowTypes /\ ledger[x] = "posted")
    IN  IF \A x \in RowTypes : ledger[x] = None THEN "New"
        ELSE IF posted = <<>> THEN "Failed"
        ELSE CASE Last(posted) = "auth" -> "Authorized"
               [] Last(posted) = "capture" -> "Captured"
               [] Last(posted) = "void" -> "Voided"

PaymentState == derive_payment_state(chron)

\* authorization_rules with eval_authorization
validate_authorization == Chargeable /\ PaymentState \in {"New", "Failed"}

validate_for_capture(state) == state = "Authorized"
validate_for_void(state)    == state = "Authorized"

find_posted_authorization(operation) ==
    CASE operation = "capture" -> validate_for_capture(PaymentState)
      [] operation = "void"    -> validate_for_void(PaymentState)

\* Seeded defect: the pair of the capture is swapped.
SwappedCapture(type) ==
    CASE type = "auth"    -> [debit |-> "gateway_holding", credit |-> "buyer"]
      [] type = "capture" -> [debit |-> "gateway_holding", credit |-> "platform_revenue"]
      [] type = "void"    -> [debit |-> "buyer",           credit |-> "gateway_holding"]

\* write_entry_pair: the account debited and the account credited by a row,
\* one unit standing for the order's amount.
EntryPair(type) ==
    CASE type = "auth"    -> [debit |-> "gateway_holding",  credit |-> "buyer"]
      [] type = "capture" -> [debit |-> "platform_revenue", credit |-> "gateway_holding"]
      [] type = "void"    -> [debit |-> "buyer",            credit |-> "gateway_holding"]

\* total_debits - total_credits of the view account_balances: entries of posted
\* transactions only.
NetDebit(account) ==
    LET posted == {x \in RowTypes : ledger[x] = "posted"}
    IN  Cardinality({x \in posted : EntryPair(x).debit = account})
        - Cardinality({x \in posted : EntryPair(x).credit = account})

-----------------------------------------------------------------------------

Steps == {"idle", "begin", "lock", "first", "second", "gateway", "write", "release", "settle"}

TypeOK ==
    /\ ledger \in [RowTypes -> {None, "posted", "discarded"}]
    /\ chron \in Seq(RowTypes \cup Workers)
    /\ sent \subseteq OutEvents /\ processed \subseteq Messages /\ givenUp \subseteq Messages
    /\ log \in [Topics -> Seq(Messages)]
    /\ pos \in [Topics -> Nat] /\ \A t \in Topics : pos[t] <= Len(log[t])
    /\ lock \in Workers \cup {NoWorker}
    /\ pc \in [Workers -> Steps]
    /\ \A w \in Workers : pc[w] # "idle" => at[w].index \in 1..Len(log[at[w].topic])
    /\ attempt \in [Workers -> 0..MaxRetries]
    /\ guard \in [Workers -> {None, "held", "expired"}]
    /\ result \in [Workers -> {None, "ok", "error"}]
    /\ rows \in [Workers -> SUBSET RowTypes] /\ out \in [Workers -> SUBSET OutEvents]
    /\ gateway \in [{"held", "captured", "voided"} -> BOOLEAN]
    /\ overlap \in BOOLEAN
    /\ faults \in [AllFaults -> 0..FaultBudget]

NoEvent == [topic |-> None, index |-> 0]

Init ==
    /\ ledger = [x \in RowTypes |-> None] /\ chron = <<>>
    /\ sent = {} /\ processed = {} /\ givenUp = {}
    /\ log = [t \in Topics |-> <<>>] /\ pos = [t \in Topics |-> 0]
    /\ lock = NoWorker
    /\ pc = [w \in Workers |-> "idle"] /\ at = [w \in Workers |-> NoEvent]
    /\ attempt = [w \in Workers |-> 0] /\ guard = [w \in Workers |-> None]
    /\ result = [w \in Workers |-> None]
    /\ rows = [w \in Workers |-> {}] /\ out = [w \in Workers |-> {}]
    /\ gateway = [x \in {"held", "captured", "voided"} |-> FALSE]
    /\ overlap = FALSE
    /\ faults = [k \in AllFaults |-> 0]

Fault(kind) ==
    /\ kind \in FaultKinds
    /\ SumFunction(faults) < FaultBudget
    /\ faults' = [faults EXCEPT ![kind] = @ + 1]

-----------------------------------------------------------------------------
(* What the other services publish *)

Message(t, e) == [type |-> e.type, retry |-> e.retry, id |-> Len(log[t]) + 1]

\* InventoryReserved starts the payment; an order can be cancelled at any time
\* and is confirmed after PaymentAuthorized.
order_event ==
    /\ \E t \in Topics, type \in {"InventoryReserved", "OrderConfirmed", "OrderCancelled"} :
        /\ t = IF type = "InventoryReserved" THEN "catalog.events" ELSE "orders.events"
        /\ \A m \in ToSet(log[t]) : m.type # type
        /\ type = "OrderConfirmed" => Event("PaymentAuthorized", 0) \in sent
        /\ log' = [log EXCEPT ![t] = Append(@, Message(t, Event(type, 0)))]
    /\ UNCHANGED <<database, pos, givenUp, lock, worker, gateway, overlap, faults>>

\* The relay delivers at least once: an event is published again.
republish ==
    /\ Fault("duplicate")
    /\ \E t \in Topics : \E m \in ToSet(log[t]) : log' = [log EXCEPT ![t] = Append(@, m)]
    /\ UNCHANGED <<database, pos, givenUp, lock, worker, gateway, overlap>>

-----------------------------------------------------------------------------
(* The consumer around the handler *)

\* The message loop receives the next message of a partition.  After a
\* rebalance the former owner of the partition may still be at work (a zombie).
poll(w) ==
    /\ pc[w] = "idle"
    /\ \E t \in Topics :
        /\ pos[t] < Len(log[t])
        /\ IF \E v \in Workers : pc[v] # "idle" /\ at[v].topic = t
           THEN Fault("zombie") ELSE UNCHANGED faults
        /\ at' = [at EXCEPT ![w] = [topic |-> t, index |-> pos[t] + 1]]
    /\ pc' = [pc EXCEPT ![w] = "begin"]
    /\ UNCHANGED <<database, topics, lock, attempt, guard, result, rows, out, gateway, overlap>>

\* commit_offset, and on to the next message.
Finish(w) ==
    /\ pos' = [pos EXCEPT ![at[w].topic] = IF @ < at[w].index THEN at[w].index ELSE @]
    /\ pc' = [pc EXCEPT ![w] = "idle"]
    /\ at' = [at EXCEPT ![w] = NoEvent]
    /\ attempt' = [attempt EXCEPT ![w] = 0]

\* try_process_once: open the transaction, is_event_processed.
begin(w) ==
    /\ pc[w] = "begin"
    /\ \/ /\ EventOf(w) \in processed
          /\ Finish(w)
          /\ UNCHANGED chron
       \/ /\ EventOf(w) \notin processed
          /\ pc' = [pc EXCEPT ![w] = "lock"]
          /\ chron' = Append(chron, w)
          /\ UNCHANGED <<pos, at, attempt>>
    /\ UNCHANGED <<ledger, sent, processed, log, givenUp, lock, guard, result, rows, out, gateway,
                   overlap, faults>>

\* The handler answers; a guard it holds is released first.
Return(w, answer) ==
    /\ result' = [result EXCEPT ![w] = answer]
    /\ pc' = [pc EXCEPT ![w] = IF guard'[w] = None THEN "settle" ELSE "release"]

-----------------------------------------------------------------------------
(* PaymentEventHandler::handle *)

\* SET NX succeeds.
KeyIsFree == lock = NoWorker

\* DistributedLock::acquire, SET NX EX: AlreadyHeld is a transient error, an
\* unreachable Redis lets the handler proceed without the lock.
acquire(w) ==
    /\ pc[w] = "lock"
    /\ \/ /\ KeyIsFree
          /\ lock' = w
          /\ guard' = [guard EXCEPT ![w] = "held"]
          /\ pc' = [pc EXCEPT ![w] = "first"]
          /\ UNCHANGED <<result, faults>>
       \/ /\ ~ KeyIsFree
          /\ UNCHANGED <<lock, guard, faults>>
          /\ Return(w, "error")
       \/ /\ Fault("redis")
          /\ pc' = [pc EXCEPT ![w] = "first"]
          /\ UNCHANGED <<lock, guard, result>>
    /\ UNCHANGED <<database, topics, at, attempt, rows, out, gateway, overlap>>

\* The decision another worker has taken and not yet committed.
Undecided(w) == \E v \in Workers \ {w} : pc[v] \in {"gateway", "write", "release", "settle"}

\* The read that decides on the gateway call.
Decide(w, valid) ==
    \/ /\ valid
       /\ pc' = [pc EXCEPT ![w] = "gateway"]
       /\ overlap' = (overlap \/ Undecided(w))
       /\ UNCHANGED <<result, out>>
    \/ /\ ~ valid
       /\ Return(w, "error")
       /\ UNCHANGED <<out, overlap>>

\* Seeded defect: exhausted retries are announced and then tried once more.
AnnounceAndTry(w) ==
    /\ out' = [out EXCEPT ![w] = {Event("PaymentFailed", 0)}]
    /\ pc' = [pc EXCEPT ![w] = "gateway"]
    /\ UNCHANGED <<result, overlap>>

\* handle_capture_retry with retry_count >= MAX_CAPTURE_RETRIES.
RetriesExhausted(w) ==
    /\ out' = [out EXCEPT ![w] = {Event("PaymentFailed", 0)}]
    /\ Return(w, "ok")
    /\ UNCHANGED overlap

\* Dispatch to handle_inventory_reserved, handle_order_confirmed,
\* handle_order_cancelled or handle_capture_retry, up to the first read.
first_read(w) ==
    /\ pc[w] = "first"
    /\ UNCHANGED guard
    /\ LET e == EventOf(w) IN
        \/ /\ e.type = "InventoryReserved"
           /\ \/ /\ ledger["auth"] \notin {None, "discarded"}
                 /\ Return(w, "ok")
              \/ /\ ledger["auth"] \in {None, "discarded"}
                 /\ pc' = [pc EXCEPT ![w] = "second"]
                 /\ UNCHANGED result
           /\ UNCHANGED <<out, overlap>>
        \/ /\ e.type = "OrderCancelled"
           /\ \/ /\ PaymentState = "Authorized"
                 /\ pc' = [pc EXCEPT ![w] = "second"]
                 /\ UNCHANGED result
              \/ /\ PaymentState # "Authorized"
                 /\ Return(w, "ok")
           /\ UNCHANGED <<out, overlap>>
        \/ /\ e.type = "OrderConfirmed"
           /\ Decide(w, find_posted_authorization("capture"))
        \/ /\ e.type = "PaymentCaptureRetryRequested"
           /\ IF e.retry >= MaxCaptureRetries THEN RetriesExhausted(w)
              ELSE Decide(w, find_posted_authorization("capture"))
    /\ UNCHANGED <<database, topics, lock, at, attempt, rows, gateway, faults>>

\* The second read of authorize_payment_on_tx and of void_payment_on_tx.
second_read(w) ==
    /\ pc[w] = "second"
    /\ UNCHANGED guard
    /\ Decide(w, IF EventOf(w).type = "OrderCancelled" THEN find_posted_authorization("void")
                 ELSE validate_authorization)
    /\ UNCHANGED <<database, topics, lock, at, attempt, rows, gateway, faults>>

\* The gateway's answer to a call: it may have acted although the answer is an
\* error that reports a timeout.
Answer(kind, effect) ==
    \/ kind = "ok" /\ gateway' = [gateway EXCEPT ![effect] = TRUE] /\ UNCHANGED faults
    \/ kind = "timeout" /\ Fault("timeout")
        /\ gateway' \in {gateway, [gateway EXCEPT ![effect] = TRUE]}
    \/ kind = "declined" /\ Fault("declined") /\ UNCHANGED gateway

GoToWrite(w) == pc' = [pc EXCEPT ![w] = "write"] /\ UNCHANGED <<result, out>>

\* An outbox row is all the handler writes.
Announce(w, e) == out' = [out EXCEPT ![w] = {e}] /\ Return(w, "ok")

\* authorize_payment_on_tx: PaymentGateway::authorize.  A different approved
\* amount is voided at once, whether or not that void succeeds, and the handler
\* fails after writing PaymentFailed.
authorize(w) ==
    \/ Answer("ok", "held") /\ GoToWrite(w)
    \/ /\ \E kind \in {"timeout", "declined"} : Answer(kind, "held")
       /\ Announce(w, Event("PaymentFailed", 0))
    \/ /\ Fault("tampered")
       /\ gateway' \in {gateway, [gateway EXCEPT !["held"] = TRUE]}
       /\ out' = [out EXCEPT ![w] = {Event("PaymentFailed", 0)}]
       /\ Return(w, "error")

\* Seeded defect: a retryable failure schedules no retry.
CaptureRetryDropped(w) ==
    \/ Answer("ok", "captured") /\ GoToWrite(w)
    \/ Answer("timeout", "captured") /\ Return(w, "ok") /\ UNCHANGED out
    \/ Answer("declined", "captured") /\ Announce(w, Event("PaymentFailed", 0))

\* capture_payment_on_tx and handle_capture_retry: PaymentGateway::capture.
capture(w) ==
    \/ Answer("ok", "captured") /\ GoToWrite(w)
    \/ /\ Answer("timeout", "captured")
       /\ Announce(w, Event("PaymentCaptureRetryRequested", EventOf(w).retry + 1))
    \/ Answer("declined", "captured") /\ Announce(w, Event("PaymentFailed", 0))

\* Seeded defect: the gateway's error is not propagated.
VoidErrorIgnored(w) ==
    \E kind \in {"ok", "timeout", "declined"} : Answer(kind, "voided") /\ GoToWrite(w)

\* void_payment_on_tx: PaymentGateway::void.
void(w) ==
    \/ Answer("ok", "voided") /\ GoToWrite(w)
    \/ /\ \E kind \in {"timeout", "declined"} : Answer(kind, "voided")
       /\ Return(w, "error")
       /\ UNCHANGED out

call_gateway(w) ==
    /\ pc[w] = "gateway"
    /\ UNCHANGED guard
    /\ CASE EventOf(w).type = "InventoryReserved" -> authorize(w)
         [] EventOf(w).type = "OrderCancelled" -> void(w)
         [] OTHER -> capture(w)
    /\ UNCHANGED <<database, topics, lock, at, attempt, rows, overlap>>

-----------------------------------------------------------------------------
(* The write phase, in the consumer's transaction *)

\* record_authorization, record_void, record_capture
RowFor(type) ==
    CASE type = "InventoryReserved" -> "auth" [] type = "OrderCancelled" -> "void" [] OTHER -> "capture"

AnnouncementOf(row) ==
    CASE row = "auth" -> "PaymentAuthorized" [] row = "capture" -> "PaymentCaptured"
      [] row = "void" -> "PaymentVoided"

\* The insertion into ledger_transactions waits for an open transaction with
\* the same idempotency key and fails if the key is there.
write(w) ==
    /\ pc[w] = "write"
    /\ UNCHANGED guard
    /\ LET row == RowFor(EventOf(w).type) IN
        /\ \A v \in Workers : row \notin rows[v]
        /\ \/ /\ ledger[row] = None
              /\ rows' = [rows EXCEPT ![w] = {row}]
              /\ out' = [out EXCEPT ![w] = @ \cup {Event(AnnouncementOf(row), 0)}]
              /\ Return(w, "ok")
              /\ UNCHANGED faults
           \/ /\ IF ledger[row] = None THEN Fault("db_error") ELSE UNCHANGED faults
              /\ Return(w, "error")
              /\ UNCHANGED <<rows, out>>
    /\ UNCHANGED <<database, topics, lock, at, attempt, gateway, overlap>>

\* RELEASE_SCRIPT: the key is deleted if it holds our token.
AfterRelease(w) == IF lock = w THEN NoWorker ELSE lock

\* LockGuard::release, best effort.
release(w) ==
    /\ pc[w] = "release"
    /\ \/ lock' = AfterRelease(w) /\ UNCHANGED faults
       \/ Fault("redis") /\ UNCHANGED lock
    /\ guard' = [guard EXCEPT ![w] = None]
    /\ pc' = [pc EXCEPT ![w] = "settle"]
    /\ UNCHANGED <<database, topics, at, attempt, result, rows, out, gateway, overlap>>

-----------------------------------------------------------------------------
(* The end of an attempt *)

\* The transaction's rows; record_void also discards the authorization.
LedgerAfter(w) ==
    [x \in RowTypes |->
        CASE x \in rows[w] -> "posted"
          [] x = "auth" /\ "void" \in rows[w] -> "discarded"
          [] OTHER -> ledger[x]]

Retries(w) == {e \in out[w] : e.type = "PaymentCaptureRetryRequested"}

\* The row of a committed transaction takes its place in created_at order.
ChronAfter(w) ==
    IF rows[w] = {} THEN Remove(chron, w)
    ELSE ReplaceAll(chron, w, CHOOSE x \in rows[w] : TRUE)

EndTransaction(w) ==
    /\ result' = [result EXCEPT ![w] = None]
    /\ rows' = [rows EXCEPT ![w] = {}]
    /\ out' = [out EXCEPT ![w] = {}]

\* mark_event_processed and COMMIT.
Commit(w) ==
    /\ ledger' = LedgerAfter(w)
    /\ chron' = ChronAfter(w)
    /\ sent' = sent \cup out[w]
    /\ processed' = processed \cup {EventOf(w)}

\* The relay publishes the retry the service has asked itself for.
PublishRetries(w) ==
    log' = [log EXCEPT !["payments.events"] =
                @ \o [i \in 1..Cardinality(Retries(w)) |->
                        Message("payments.events", CHOOSE e \in Retries(w) : TRUE)]]

commit(w) ==
    /\ pc[w] = "settle" /\ result[w] = "ok"
    /\ Commit(w)
    /\ PublishRetries(w)
    /\ Finish(w)
    /\ EndTransaction(w)
    /\ UNCHANGED <<givenUp, lock, guard, gateway, overlap, faults>>

\* The COMMIT fails: AttemptResult::DbError.  The offset is not committed and
\* the loop goes on to the next message.
commit_fails(w) ==
    /\ pc[w] = "settle" /\ result[w] = "ok"
    /\ Fault("db_error")
    /\ chron' = Remove(chron, w)
    /\ givenUp' = givenUp \cup {EventOf(w)}
    /\ Finish(w)
    /\ EndTransaction(w)
    /\ UNCHANGED <<ledger, sent, processed, log, lock, guard, gateway, overlap>>

MayRetry(w) == attempt[w] < MaxRetries

\* Every error of the handler is transient: rolled back and tried again after a
\* back-off, until the event goes to the dead-letter topic.
rollback(w) ==
    /\ pc[w] = "settle" /\ result[w] = "error"
    /\ chron' = Remove(chron, w)
    /\ EndTransaction(w)
    /\ \/ /\ MayRetry(w)
          /\ attempt' = [attempt EXCEPT ![w] = @ + 1]
          /\ pc' = [pc EXCEPT ![w] = "begin"]
          /\ UNCHANGED <<pos, at, givenUp>>
       \/ /\ ~ MayRetry(w)
          /\ givenUp' = givenUp \cup {EventOf(w)}
          /\ Finish(w)
    /\ UNCHANGED <<ledger, sent, processed, log, lock, guard, gateway, overlap, faults>>

\* The process dies: its transaction is rolled back, its lock stays.
crash(w) ==
    /\ pc[w] # "idle"
    /\ Fault("crash")
    /\ chron' = Remove(chron, w)
    /\ pc' = [pc EXCEPT ![w] = "idle"]
    /\ at' = [at EXCEPT ![w] = NoEvent]
    /\ attempt' = [attempt EXCEPT ![w] = 0]
    /\ guard' = [guard EXCEPT ![w] = None]
    /\ EndTransaction(w)
    /\ UNCHANGED <<ledger, sent, processed, topics, lock, gateway, overlap>>

\* The TTL of the lock (lock_ttl) runs out; the holder may still be at work.
expire ==
    /\ lock # NoWorker
    /\ lock' = NoWorker
    /\ \/ /\ guard[lock] = "held"
          /\ Fault("slow")
          /\ guard' = [guard EXCEPT ![lock] = "expired"]
       \/ /\ guard[lock] = None
          /\ UNCHANGED <<guard, faults>>
    /\ UNCHANGED <<database, topics, pc, at, attempt, result, rows, out, gateway, overlap>>

Step(w) ==
    \/ poll(w) \/ begin(w) \/ acquire(w) \/ first_read(w) \/ second_read(w) \/ call_gateway(w)
    \/ write(w) \/ release(w) \/ commit(w) \/ commit_fails(w) \/ rollback(w)

Next ==
    \/ order_event \/ republish \/ expire
    \/ \E w \in Workers : Step(w) \/ crash(w)

Spec == Init /\ [][Next]_vars

\* A consumer instance keeps working (its loop and its calls all end) and a lock
\* nobody holds any more expires.  No fault is ever due.
FairSpec ==
    /\ Spec
    /\ \A w \in Workers : WF_vars(Step(w) /\ UNCHANGED faults)
    /\ WF_vars(expire /\ UNCHANGED faults)

-----------------------------------------------------------------------------
(* Properties *)

Exists(row) == ledger[row] # None

\* The ledger never records money movements the gateway has not made: rows are
\* written only after the gateway has answered, through retries, timeouts that
\* were in fact executed, and crashes between the call and the commit.  And what
\* is announced to the other services is exactly what the ledger records.
LedgerBacked ==
    /\ Exists("auth") => gateway["held"]
    /\ Exists("capture") => gateway["captured"]
    /\ Exists("void") => gateway["voided"]
    /\ \A row \in RowTypes : Event(AnnouncementOf(row), 0) \in sent <=> Exists(row)

\* A payment is both captured and voided only if two handlers decided on
\* overlapping reads: serial handling settles a payment one way.
OneOutcome == Exists("capture") /\ Exists("void") => overlap

\* A payment announced as failed is never captured, as long as no partition had
\* two handlers at once: the chain of capture retries ends in one of the two.
FailureIsFinal ==
    Event("PaymentFailed", 0) \in sent /\ faults["zombie"] = 0 => ~ Exists("capture")

\* The order's books after each outcome, in the view account_balances: held
\* while authorized, all revenue once captured.  After a void the holding
\* account is one amount short, since the view also leaves out the entries of
\* the discarded authorization that the void reverses.  For an order in USD: the
\* currency of a capture or a void is read from a metadata field nobody writes,
\* so that both are booked in USD accounts whatever the order's currency.
BooksAgree ==
    ~ (Exists("capture") /\ Exists("void")) =>
        /\ NetDebit("gateway_holding") = CASE PaymentState = "Authorized" -> 1
                                           [] PaymentState = "Voided" -> -1
                                           [] OTHER -> 0
        /\ NetDebit("platform_revenue") = IF PaymentState = "Captured" THEN 1 ELSE 0

\* A confirmed order's payment is settled in the end (captured, voided, or
\* announced as failed) unless an event was given up: capture retries through
\* the outbox are never lost.
ConfirmedIsSettled ==
    (\E m \in ToSet(log["orders.events"]) : m.type = "OrderConfirmed")
    ~> (Exists("capture") \/ Exists("void") \/ Event("PaymentFailed", 0) \in sent \/ givenUp # {})

-----------------------------------------------------------------------------
(* What the documentation says *)

\* docs/ordering-saga-flows.md on the payment lock: it "Prevents concurrent
\* authorize/capture/void for the same order".
NeverCapturedAndVoided == ~ (Exists("capture") /\ Exists("void"))

=============================================================================
