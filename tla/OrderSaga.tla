------------------------------ MODULE OrderSaga ------------------------------
(***************************************************************************)
(* The choreographed ordering saga: the order, catalog and payment         *)
(* services, each with its own database, its transactional outbox and a    *)
(* consumer group (order/src, catalog/src/{inventory,consumers},           *)
(* payment/src/{payments,ledger,consumers}).                               *)
(*                                                                         *)
(* The bus is what OutboxRelay and EventConsumer establish: an event in an *)
(* outbox is published at least once, in order per order and topic unless  *)
(* a publication is retried, and the writes of the handler of an event are *)
(* committed at most once.  A handler that fails leaves the event in the   *)
(* queue (it is retried) until it is given up to the dead-letter topic.    *)
(* An event type a group has no handler for is not delivered to it: the    *)
(* dispatch arms answer Ok without effect.                                 *)
(*                                                                         *)
(* Handlers of catalog and payment are atomic (one transaction, one        *)
(* message of an order at a time); the interleavings inside the payment    *)
(* handlers are the subject of PaymentProcessing.  The order handlers read *)
(* the order and write it without a lock, so they take two steps.          *)
(***************************************************************************)
EXTENDS Integers, Sequences, FiniteSets

CONSTANTS
    Orders, Skus,
    Demand,             \* Demand[o][s]: units of s that order o asks for
    Stock,              \* stock_quantity of each SKU
    Chargeable,         \* orders whose amount and currency pass authorization_rules
    MaxCaptureRetries,  \* MAX_CAPTURE_RETRIES
    OrderInstances,     \* running instances of the order consumer
    MaxCancels,         \* number of cancel requests for each order
    Monitored,          \* orders the external timeout monitor watches
    FaultKinds,         \* which of the faults below may happen
    FaultBudget         \* how many of them, in all

AllFaults == {"overtake", "lost", "skipped", "repeated", "redelivered", "db_error", "gateway_error"}

ASSUME SagaAssumption ==
    /\ Demand \in [Orders -> [Skus -> Nat]]
    /\ Stock \in [Skus -> Nat]
    /\ Chargeable \subseteq Orders
    /\ MaxCaptureRetries \in Nat \ {0}
    /\ OrderInstances \in Nat \ {0}
    /\ MaxCancels \in [Orders -> Nat]
    /\ Monitored \subseteq Orders
    /\ FaultKinds \subseteq AllFaults
    /\ FaultBudget \in Nat

VARIABLES
    \* order database
    status,       \* status[o], or "none" before the order exists
    \* catalog database
    reserved,     \* reserved_quantity of each SKU
    reservation,  \* the reservation rows of an order, all in the same status
    \* payment database
    ledger,       \* status of the order's ledger transaction of each type
    \* running order code
    hand,         \* hand[g][o]: status read by the running order handler of subscription g
    cancelling,   \* orders with a cancel_order call between its read and its write
    cancels,      \* cancel_order calls so far
    timedOut,     \* orders for which the monitor has published PaymentTimedOut
    \* the bus
    outbox,       \* outbox[t][o]: unpublished rows for topic t
    queue,        \* queue[g][o]: published events the subscription g has to handle
    \* history
    sent,         \* sent[o]: types of the events ever written to an outbox
    faults

orderDb   == <<status>>
catalogDb == <<reserved, reservation>>
paymentDb == <<ledger>>
requests  == <<hand, cancelling, cancels, timedOut>>
bus       == <<outbox, queue, sent>>
vars      == <<orderDb, catalogDb, paymentDb, requests, bus, faults>>

-----------------------------------------------------------------------------
(* Order status *)

OrderStatus == {"Pending", "InventoryReserved", "PaymentAuthorized", "Confirmed",
                "Shipped", "Delivered", "Cancelled", "Returned"}

\* Seeded defect: a late InventoryReserved revives a cancelled order.
RevivesCancelled(from, to) ==
    \/ <<from, to>> \in
        {<<"Pending", "InventoryReserved">>, <<"Cancelled", "InventoryReserved">>,
         <<"InventoryReserved", "PaymentAuthorized">>, <<"PaymentAuthorized", "Confirmed">>}
    \/ from \in {"Pending", "InventoryReserved", "PaymentAuthorized", "Confirmed", "Shipped"}
        /\ to = "Cancelled"

\* OrderStatus::transition_to
transition_to(from, to) ==
    <<from, to>> \in
        {<<"Pending", "InventoryReserved">>, <<"InventoryReserved", "PaymentAuthorized">>,
         <<"PaymentAuthorized", "Confirmed">>, <<"Confirmed", "Shipped">>,
         <<"Shipped", "Delivered">>, <<"Delivered", "Returned">>}
        \cup ({"Pending", "InventoryReserved", "PaymentAuthorized", "Confirmed", "Shipped"}
              \X {"Cancelled"})

\* OrderStatus::can_cancel
can_cancel(s) ==
    s \in {"Pending", "InventoryReserved", "PaymentAuthorized", "Confirmed", "Shipped"}

-----------------------------------------------------------------------------
(* Events, topics and who handles what *)

EventTypes == {"OrderCreated", "OrderConfirmed", "OrderCancelled",
               "InventoryReserved", "InventoryReservationFailed",
               "PaymentAuthorized", "PaymentFailed", "PaymentTimedOut", "PaymentCaptured",
               "PaymentVoided", "PaymentCaptureRetryRequested"}

\* An event of an order; retry is the payload of PaymentCaptureRetryRequested.
Event  == [type : EventTypes, retry : 0..MaxCaptureRetries]
Ev(type) == [type |-> type, retry |-> 0]

Topics == {"orders.events", "catalog.events", "payments.events"}

\* The consumer groups' subscriptions, with the topic and the event types that
\* reach a handler.
Subscriptions == {"order/catalog", "order/payments", "catalog/orders",
                  "payment/catalog", "payment/orders", "payment/payments"}

TopicOf(g) ==
    CASE g \in {"catalog/orders", "payment/orders"} -> "orders.events"
      [] g \in {"order/catalog", "payment/catalog"} -> "catalog.events"
      [] OTHER -> "payments.events"

Dispatch(g) ==
    CASE g = "order/catalog"   -> {"InventoryReserved", "InventoryReservationFailed"}
      [] g = "order/payments"  -> {"PaymentAuthorized", "PaymentFailed", "PaymentTimedOut"}
      [] g = "catalog/orders"  -> {"OrderCreated", "OrderCancelled"}
      [] g = "payment/catalog" -> {"InventoryReserved"}
      [] g = "payment/orders"  -> {"OrderConfirmed", "OrderCancelled"}
      [] OTHER                 -> {"PaymentCaptureRetryRequested"}

OrderSubscriptions == {"order/catalog", "order/payments"}

-----------------------------------------------------------------------------

None == "none"

LedgerRow == [auth : {None, "posted", "discarded"}, capture : {None, "posted"}, void : {None, "posted"}]

TypeOK ==
    /\ status \in [Orders -> OrderStatus \cup {None}]
    /\ reserved \in [Skus -> Nat]
    /\ reservation \in [Orders -> {None, "reserved", "released"}]
    /\ ledger \in [Orders -> LedgerRow]
    /\ hand \in [OrderSubscriptions -> [Orders -> OrderStatus \cup {None}]]
    /\ cancelling \subseteq Orders
    /\ \A o \in Orders : cancels[o] \in 0..MaxCancels[o]
    /\ timedOut \subseteq Orders
    /\ outbox \in [Topics -> [Orders -> Seq(Event)]]
    /\ queue \in [Subscriptions -> [Orders -> Seq(Event)]]
    /\ sent \in [Orders -> SUBSET EventTypes]
    /\ faults \in 0..FaultBudget

Init ==
    /\ status = [o \in Orders |-> None]
    /\ reserved = [s \in Skus |-> 0]
    /\ reservation = [o \in Orders |-> None]
    /\ ledger = [o \in Orders |-> [auth |-> None, capture |-> None, void |-> None]]
    /\ hand = [g \in OrderSubscriptions |-> [o \in Orders |-> None]]
    /\ cancelling = {} /\ cancels = [o \in Orders |-> 0] /\ timedOut = {}
    /\ outbox = [t \in Topics |-> [o \in Orders |-> <<>>]]
    /\ queue = [g \in Subscriptions |-> [o \in Orders |-> <<>>]]
    /\ sent = [o \in Orders |-> {}]
    /\ faults = 0

Fault(kind) ==
    /\ kind \in FaultKinds
    /\ faults < FaultBudget
    /\ faults' = faults + 1

-----------------------------------------------------------------------------
(* The bus *)

\* insert_outbox_event on the handler's transaction.
WriteOutbox(t, o, e) ==
    /\ outbox' = [outbox EXCEPT ![t][o] = Append(@, e)]
    /\ sent' = [sent EXCEPT ![o] = @ \cup {e.type}]

NoEvent == UNCHANGED <<outbox, sent>>

\* Appends e to the queue of every subscription of topic t that handles it.
Deliver(t, o, e) ==
    queue' = [g \in Subscriptions |->
                IF TopicOf(g) = t /\ e.type \in Dispatch(g)
                THEN [queue[g] EXCEPT ![o] = Append(@, e)]
                ELSE queue[g]]

\* The rows without the i-th.
RemoveRow(rows, i) == SubSeq(rows, 1, i - 1) \o SubSeq(rows, i + 1, Len(rows))

\* OutboxRelay: the oldest row is published, a later one only while an older one
\* waits for its retry, and a row can end as failed.
relay(t, o) ==
    /\ \E i \in DOMAIN outbox[t][o] :
        /\ outbox' = [outbox EXCEPT ![t][o] = RemoveRow(@, i)]
        /\ \/ /\ IF i = 1 THEN UNCHANGED faults ELSE Fault("overtake")
              /\ Deliver(t, o, outbox[t][o][i])
           \/ /\ Fault("lost")
              /\ UNCHANGED queue
    /\ UNCHANGED <<orderDb, catalogDb, paymentDb, requests, sent>>

InHand == {go \in OrderSubscriptions \X Orders : hand[go[1]][go[2]] # None}

\* A consumer can take up the next event of subscription g: an order instance
\* handles one event at a time.
Ready(g, o) ==
    /\ queue[g][o] # <<>>
    /\ g \in OrderSubscriptions => hand[g][o] = None /\ Cardinality(InHand) < OrderInstances

Pending(g, o, type) == queue[g][o] # <<>> /\ Head(queue[g][o]).type = type

Pop(g, o) == queue' = [queue EXCEPT ![g][o] = Tail(@)]

\* The handler's transaction commits and the event is done with, unless a member
\* that lost the partition handles it once more.
Ack(g, o) ==
    \/ Pop(g, o) /\ UNCHANGED faults
    \/ Fault("repeated") /\ UNCHANGED queue

\* The event goes to the dead-letter topic; without its processed_events row it
\* is handled again if it is delivered again.
GiveUp(g, o) ==
    \/ Pop(g, o) /\ UNCHANGED faults
    \/ Fault("redelivered") /\ UNCHANGED queue

\* A database or dead-letter error: the consumer moves past an event it has
\* not handled.
skip(g, o) ==
    /\ Ready(g, o)
    /\ Fault("skipped")
    /\ Pop(g, o)
    /\ UNCHANGED <<orderDb, catalogDb, paymentDb, requests, outbox, sent>>

-----------------------------------------------------------------------------
(* Order service: HTTP API *)

\* create_order: the order and OrderCreated, in one transaction.
create_order(o) ==
    /\ status[o] = None
    /\ status' = [status EXCEPT ![o] = "Pending"]
    /\ WriteOutbox("orders.events", o, Ev("OrderCreated"))
    /\ UNCHANGED <<catalogDb, paymentDb, requests, queue, faults>>

\* cancel_order, up to its transaction: the order is read on the pool and
\* checked against cancellation_rules and the state machine.
cancel_order_check(o) ==
    /\ cancels[o] < MaxCancels[o] /\ o \notin cancelling
    /\ can_cancel(status[o]) /\ transition_to(status[o], "Cancelled")
    /\ cancelling' = cancelling \cup {o}
    /\ cancels' = [cancels EXCEPT ![o] = @ + 1]
    /\ UNCHANGED <<orderDb, catalogDb, paymentDb, hand, timedOut, bus, faults>>

\* Seeded defect: OrderCancelled is not written.
CancelWithoutEvent(o) ==
    /\ o \in cancelling
    /\ status' = [status EXCEPT ![o] = "Cancelled"]
    /\ cancelling' = cancelling \ {o}
    /\ NoEvent
    /\ UNCHANGED <<catalogDb, paymentDb, hand, cancels, timedOut, queue, faults>>

\* The transaction of cancel_order: UPDATE ... WHERE id, whatever the status is
\* by now, and OrderCancelled.
cancel_order(o) ==
    /\ o \in cancelling
    /\ status' = [status EXCEPT ![o] = "Cancelled"]
    /\ cancelling' = cancelling \ {o}
    /\ WriteOutbox("orders.events", o, Ev("OrderCancelled"))
    /\ UNCHANGED <<catalogDb, paymentDb, hand, cancels, timedOut, queue, faults>>

-----------------------------------------------------------------------------
(* Order service: consumers *)

\* The status a handler checks transition_to against.
Target(type) ==
    CASE type = "InventoryReserved" -> "InventoryReserved"
      [] type = "PaymentAuthorized" -> "PaymentAuthorized"
      [] OTHER                      -> "Cancelled"

\* get_order_by_id of a handler, on its transaction but without a lock.
read_order(g, o) ==
    /\ Ready(g, o)
    /\ transition_to(status[o], Target(Head(queue[g][o]).type))
    /\ hand' = [hand EXCEPT ![g][o] = status[o]]
    /\ UNCHANGED <<orderDb, catalogDb, paymentDb, cancelling, cancels, timedOut, bus, faults>>

\* The order is not in a status the handler can move on: a transient error,
\* given up when the retries are used up.
reject_order_event(g, o) ==
    /\ Ready(g, o)
    /\ ~ transition_to(status[o], Target(Head(queue[g][o]).type))
    /\ GiveUp(g, o)
    /\ UNCHANGED <<orderDb, catalogDb, paymentDb, requests, outbox, sent>>

\* update_order_status (WHERE id only) and the commit of the handler of the
\* event at the head of subscription g.
Update(g, o, type, to) ==
    /\ hand[g][o] # None
    /\ Pending(g, o, type)
    /\ status' = [status EXCEPT ![o] = to]
    /\ hand' = [hand EXCEPT ![g][o] = None]
    /\ Ack(g, o)
    /\ UNCHANGED <<catalogDb, paymentDb, cancelling, cancels, timedOut>>

order_inventory_reserved(o) ==
    Update("order/catalog", o, "InventoryReserved", "InventoryReserved") /\ NoEvent

\* Writes no event: nothing was reserved or charged.
order_inventory_reservation_failed(o) ==
    Update("order/catalog", o, "InventoryReservationFailed", "Cancelled") /\ NoEvent

\* To PaymentAuthorized and on to Confirmed in the same transaction.
order_payment_authorized(o) ==
    /\ Update("order/payments", o, "PaymentAuthorized", "Confirmed")
    /\ WriteOutbox("orders.events", o, Ev("OrderConfirmed"))

\* Seeded defect: the cancellation is not announced.
CancelSilently(o) ==
    \E type \in {"PaymentFailed", "PaymentTimedOut"} :
        Update("order/payments", o, type, "Cancelled") /\ NoEvent

cancel_order_on_payment_failure(o) ==
    /\ \E type \in {"PaymentFailed", "PaymentTimedOut"} : Update("order/payments", o, type, "Cancelled")
    /\ WriteOutbox("orders.events", o, Ev("OrderCancelled"))

OrderConsumer(o) ==
    \/ \E g \in OrderSubscriptions : read_order(g, o) \/ reject_order_event(g, o)
    \/ order_inventory_reserved(o)
    \/ order_inventory_reservation_failed(o)
    \/ order_payment_authorized(o)
    \/ cancel_order_on_payment_failure(o)

\* The external monitor publishes PaymentTimedOut for an order that stays in
\* InventoryReserved.
payment_timed_out(o) ==
    /\ o \in Monitored \ timedOut /\ status[o] = "InventoryReserved"
    /\ timedOut' = timedOut \cup {o}
    /\ Deliver("payments.events", o, Ev("PaymentTimedOut"))
    /\ sent' = [sent EXCEPT ![o] = @ \cup {"PaymentTimedOut"}]
    /\ UNCHANGED <<orderDb, catalogDb, paymentDb, hand, cancelling, cancels, outbox, faults>>

-----------------------------------------------------------------------------
(* Catalog service *)

\* Seeded defect: the check forgets what is already reserved.
AvailableIgnoringReserved(o) ==
    /\ reservation[o] = None
    /\ \A s \in Skus : Demand[o][s] <= Stock[s]

\* reserve_inventory succeeds for every item: the conditional UPDATE finds enough
\* unreserved stock and the order has no reservation row yet (a unique index).
Available(o) ==
    /\ reservation[o] = None
    /\ \A s \in Skus : reserved[s] + Demand[o][s] <= Stock[s]

\* Seeded defect: InventoryReserved is announced although the transaction rolls
\* back.
AnnouncedBeforeReserved(o) ==
    /\ Pending("catalog/orders", o, "OrderCreated")
    /\ WriteOutbox("catalog.events", o, Ev("InventoryReserved"))
    /\ GiveUp("catalog/orders", o)
    /\ UNCHANGED <<orderDb, catalogDb, paymentDb, requests>>

\* handle_order_created.  On failure the transaction rolls back, and
\* InventoryReservationFailed is written in one of its own; the error is
\* permanent.
catalog_order_created(o) ==
    /\ Pending("catalog/orders", o, "OrderCreated")
    /\ \/ /\ Available(o)
          /\ reserved' = [s \in Skus |-> reserved[s] + Demand[o][s]]
          /\ reservation' = [reservation EXCEPT ![o] = "reserved"]
          /\ WriteOutbox("catalog.events", o, Ev("InventoryReserved"))
          /\ Ack("catalog/orders", o)
       \/ /\ ~ Available(o)
          /\ WriteOutbox("catalog.events", o, Ev("InventoryReservationFailed"))
          /\ GiveUp("catalog/orders", o)
          /\ UNCHANGED catalogDb
       \/ /\ Available(o) /\ Fault("db_error")
          /\ WriteOutbox("catalog.events", o, Ev("InventoryReservationFailed"))
          /\ Pop("catalog/orders", o)
          /\ UNCHANGED catalogDb
    /\ UNCHANGED <<orderDb, paymentDb, requests>>

\* handle_order_cancelled: release_all_reservations.
catalog_order_cancelled(o) ==
    /\ Pending("catalog/orders", o, "OrderCancelled")
    /\ IF reservation[o] = "reserved"
       THEN /\ reserved' = [s \in Skus |-> reserved[s] - Demand[o][s]]
            /\ reservation' = [reservation EXCEPT ![o] = "released"]
       ELSE UNCHANGED catalogDb
    /\ Ack("catalog/orders", o)
    /\ UNCHANGED <<orderDb, paymentDb, requests, outbox, sent>>

CatalogConsumer(o) == catalog_order_created(o) \/ catalog_order_cancelled(o)

-----------------------------------------------------------------------------
(* Payment service *)

\* derive_payment_state: the newest posted transaction decides.  A capture and a
\* void are never both posted (MoneyFollowsGoods).
derive_payment_state(o) ==
    IF ledger[o].void = "posted" THEN "Voided"
    ELSE IF ledger[o].capture = "posted" THEN "Captured"
    ELSE IF ledger[o].auth = "posted" THEN "Authorized"
    ELSE IF ledger[o].auth = "discarded" THEN "Failed"
    ELSE "New"

\* The handler's last steps on an event of subscription g: its ledger writes,
\* its outbox row and the commit.
PaymentTx(g, o, row, e) ==
    /\ ledger' = [ledger EXCEPT ![o] = row]
    /\ WriteOutbox("payments.events", o, e)
    /\ Ack(g, o)
    /\ UNCHANGED <<orderDb, catalogDb, requests>>

\* The handler fails without effect and the event is given up.
PaymentError(g, o) ==
    /\ GiveUp(g, o)
    /\ UNCHANGED <<orderDb, catalogDb, paymentDb, requests, outbox, sent>>

\* Answers Ok without effect.
PaymentOk(g, o) ==
    /\ Ack(g, o)
    /\ UNCHANGED <<orderDb, catalogDb, paymentDb, requests, outbox, sent>>

\* handle_inventory_reserved: authorize_payment_on_tx.  The gateway approves,
\* declines, or approves another amount: that authorization is voided, and the
\* PaymentFailed row rolls back with the transaction.
payment_inventory_reserved(o) ==
    LET g == "payment/catalog" IN
    /\ Pending(g, o, "InventoryReserved")
    /\ \/ ledger[o].auth = "posted" /\ PaymentOk(g, o)
       \/ /\ ledger[o].auth # "posted"
          /\ derive_payment_state(o) \in {"New", "Failed"} /\ o \in Chargeable
          /\ \/ PaymentTx(g, o, [ledger[o] EXCEPT !.auth = "posted"], Ev("PaymentAuthorized"))
             \/ PaymentTx(g, o, ledger[o], Ev("PaymentFailed"))
             \/ /\ Fault("gateway_error") /\ Pop(g, o)
                /\ UNCHANGED <<orderDb, catalogDb, paymentDb, requests, outbox, sent>>
       \/ /\ ledger[o].auth # "posted"
          /\ ~ (derive_payment_state(o) \in {"New", "Failed"} /\ o \in Chargeable)
          /\ PaymentError(g, o)

\* find_posted_authorization, gateway.capture and its three outcomes: captured,
\* failed but retryable, declined.  Shared by capture_payment_on_tx and
\* handle_capture_retry.
Capture(g, o, retry) ==
    \/ /\ derive_payment_state(o) = "Authorized"
       /\ \/ PaymentTx(g, o, [ledger[o] EXCEPT !.capture = "posted"], Ev("PaymentCaptured"))
          \/ PaymentTx(g, o, ledger[o], [type |-> "PaymentCaptureRetryRequested", retry |-> retry + 1])
          \/ PaymentTx(g, o, ledger[o], Ev("PaymentFailed"))
    \/ /\ derive_payment_state(o) # "Authorized"
       /\ PaymentError(g, o)

\* handle_order_confirmed
payment_order_confirmed(o) ==
    /\ Pending("payment/orders", o, "OrderConfirmed")
    /\ Capture("payment/orders", o, 0)

handle_capture_retry(o) ==
    LET g == "payment/payments" retry == Head(queue[g][o]).retry IN
    /\ Pending(g, o, "PaymentCaptureRetryRequested")
    /\ IF retry >= MaxCaptureRetries
       THEN PaymentTx(g, o, ledger[o], Ev("PaymentFailed"))
       ELSE Capture(g, o, retry)

\* handle_order_cancelled: an authorized payment is voided, unless the gateway
\* keeps failing until the event is given up; any other payment is left alone.
payment_order_cancelled(o) ==
    LET g == "payment/orders" IN
    /\ Pending(g, o, "OrderCancelled")
    /\ \/ /\ derive_payment_state(o) = "Authorized"
          /\ \/ PaymentTx(g, o, [ledger[o] EXCEPT !.auth = "discarded", !.void = "posted"],
                          Ev("PaymentVoided"))
             \/ /\ Fault("gateway_error") /\ Pop(g, o)
                /\ UNCHANGED <<orderDb, catalogDb, paymentDb, requests, outbox, sent>>
       \/ /\ derive_payment_state(o) # "Authorized"
          /\ PaymentOk(g, o)

PaymentConsumer(o) ==
    \/ payment_inventory_reserved(o)
    \/ payment_order_confirmed(o)
    \/ handle_capture_retry(o)
    \/ payment_order_cancelled(o)

-----------------------------------------------------------------------------

Next ==
    \E o \in Orders :
        \/ create_order(o)
        \/ cancel_order_check(o)
        \/ cancel_order(o)
        \/ OrderConsumer(o)
        \/ CatalogConsumer(o)
        \/ PaymentConsumer(o)
        \/ payment_timed_out(o)
        \/ \E t \in Topics : relay(t, o)
        \/ \E g \in Subscriptions : skip(g, o)

Spec == Init /\ [][Next]_vars

\* Relays and consumers keep running (both restart after a crash), a cancel
\* request that passed its checks is carried out, and the monitor watches.
Fairness ==
    \A o \in Orders :
        /\ WF_vars(cancel_order(o))
        /\ WF_vars(OrderConsumer(o))
        /\ WF_vars(CatalogConsumer(o))
        /\ WF_vars(PaymentConsumer(o))
        /\ WF_vars(payment_timed_out(o))
        /\ \A t \in Topics : WF_vars(relay(t, o))

FairSpec == Spec /\ Fairness

-----------------------------------------------------------------------------
(* Properties *)

\* Nothing is charged out of the blue: an authorization needs reserved goods, a
\* confirmation an authorization, a capture a confirmation and a void a
\* cancellation.  Each link crosses two services.  Nor is the money both taken and
\* given back, in whatever order the events and capture retries arrive, when each
\* payment handler runs to its commit before the next one starts.
\* PaymentProcessing looks at handlers that overlap.
MoneyFollowsGoods ==
    \A o \in Orders :
        /\ ledger[o].auth # None => reservation[o] # None
        /\ "OrderConfirmed" \in sent[o] => ledger[o].auth # None
        /\ ledger[o].capture = "posted" => "OrderConfirmed" \in sent[o]
        /\ ledger[o].void = "posted" => "OrderCancelled" \in sent[o]
        /\ ~ (ledger[o].capture = "posted" /\ ledger[o].void = "posted")

\* A cancelled order comes back to life in one way only: a handler that read the
\* order before the cancellation writes its status after it (get_order_by_id
\* takes no lock and update_order_status compares nothing).  No event that is
\* handled after the cancellation does it, late, repeated or redelivered.
CancelledLeftOnlyByStaleHandler ==
    [][\A o \in Orders : status[o] = "Cancelled" /\ status'[o] # "Cancelled" =>
        \E g \in OrderSubscriptions : hand[g][o] \notin {None, "Cancelled"} /\ hand'[g][o] = None]_vars

\* Nothing of order o is under way.
Quiescent(o) ==
    /\ o \notin cancelling
    /\ \A g \in OrderSubscriptions : hand[g][o] = None
    /\ \A t \in Topics : outbox[t][o] = <<>>
    /\ \A g \in Subscriptions : queue[g][o] = <<>>

\* The saga of o is left to itself: nobody cancels, no timeout.
Undisturbed(o) == cancels[o] = 0 /\ o \notin timedOut

\* Left to itself a saga that has come to rest is consistent over the three
\* databases: confirmed, reserved and captured, or cancelled, released and not
\* charged, also when orders compete for the stock.
ConsistentOutcome ==
    \A o \in Orders : Quiescent(o) /\ Undisturbed(o) =>
        /\ status[o] = "Confirmed" => reservation[o] = "reserved" /\ derive_payment_state(o) = "Captured"
        /\ status[o] = "Cancelled" =>
              reservation[o] # "reserved" /\ derive_payment_state(o) \in {"New", "Voided"}

\* Every saga runs to its end.  With the timeout monitor watching no order stays
\* undecided: an event that was given up because it came too early
\* (PaymentAuthorized before InventoryReserved) does not block it for ever.  The
\* payment of a confirmed order is captured, or the order is cancelled: the
\* capture retries end (handle_capture_retry).  The stock of a cancelled order
\* is given back.
SagaCompletes ==
    /\ \A o \in Monitored : status[o] = "Pending" ~> status[o] \in {"Confirmed", "Cancelled"}
    /\ \A o \in Orders :
        status[o] = "Confirmed" ~>
            ledger[o].capture = "posted" \/ status[o] = "Cancelled" \/ ~ Undisturbed(o)
    /\ \A o \in Orders : status[o] = "Cancelled" ~> reservation[o] # "reserved"

=============================================================================
