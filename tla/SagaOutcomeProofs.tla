------------------------- MODULE SagaOutcomeProofs -------------------------
(***************************************************************************)
(* A saga that nobody cancels and no fault disturbs comes to rest in       *)
(* agreement between the three databases, for any orders, stock, retries   *)
(* and gateway answers: where each order can be, event by event.           *)
(***************************************************************************)
EXTENDS OrderSagaProofs

\* Only these topics and subscriptions have something of order o.
Only(o, T, G) ==
    /\ \A t \in Topics \ T : outbox[t][o] = <<>>
    /\ \A g \in Subscriptions \ G : queue[g][o] = <<>>

NoHand(o) == \A g \in OrderSubscriptions : hand[g][o] = None

New(o)        == ledger[o].auth = None /\ ledger[o].capture = None /\ ledger[o].void = None
Authorized(o) == ledger[o].auth = "posted" /\ ledger[o].capture = None /\ ledger[o].void = None
Voided(o)     == ledger[o].capture = None /\ ledger[o].void = "posted"

\* The order's own half of an InventoryReserved that was published.
OrderInformed(o) ==
    \/ queue["order/catalog"][o] = <<Ev("InventoryReserved")>> /\ status[o] = "Pending"
    \/ /\ queue["order/catalog"][o] = <<>> /\ status[o] = "InventoryReserved"
       /\ hand["order/catalog"][o] = None

NotCreated(o) == status[o] = None /\ Only(o, {}, {}) /\ NoHand(o) /\ New(o) /\ reservation[o] = None

Created(o) ==
    /\ status[o] = "Pending" /\ NoHand(o) /\ New(o) /\ reservation[o] = None
    /\ \/ Only(o, {"orders.events"}, {}) /\ outbox["orders.events"][o] = <<Ev("OrderCreated")>>
       \/ Only(o, {}, {"catalog/orders"}) /\ queue["catalog/orders"][o] = <<Ev("OrderCreated")>>

OutOfStock(o) ==
    /\ New(o) /\ reservation[o] = None /\ hand["order/payments"][o] = None
    /\ \/ /\ Only(o, {"catalog.events"}, {}) /\ NoHand(o)
          /\ outbox["catalog.events"][o] = <<Ev("InventoryReservationFailed")>>
       \/ /\ Only(o, {}, {"order/catalog"})
          /\ queue["order/catalog"][o] = <<Ev("InventoryReservationFailed")>>
       \/ Only(o, {}, {}) /\ NoHand(o)
    /\ status[o] \in {"Pending", "Cancelled"}

Reserved(o) ==
    /\ status[o] = "Pending" /\ NoHand(o) /\ New(o) /\ reservation[o] = "reserved"
    /\ Only(o, {"catalog.events"}, {}) /\ outbox["catalog.events"][o] = <<Ev("InventoryReserved")>>

Payable(o) ==
    /\ New(o) /\ reservation[o] = "reserved" /\ hand["order/payments"][o] = None
    /\ Only(o, {}, {"order/catalog", "payment/catalog"})
    /\ queue["payment/catalog"][o] \in {<<>>, <<Ev("InventoryReserved")>>}
    /\ OrderInformed(o)

Charged(o) ==
    /\ Authorized(o) /\ reservation[o] = "reserved"
    /\ \/ /\ Only(o, {"payments.events"}, {"order/catalog"}) /\ hand["order/payments"][o] = None
          /\ outbox["payments.events"][o] = <<Ev("PaymentAuthorized")>>
       \/ /\ Only(o, {}, {"order/catalog", "order/payments"})
          /\ queue["order/payments"][o] = <<Ev("PaymentAuthorized")>>
       \/ Only(o, {}, {"order/catalog"}) /\ hand["order/payments"][o] = None
    /\ OrderInformed(o)
    /\ hand["order/payments"][o] # None => status[o] = "InventoryReserved"

Declined(o) ==
    /\ New(o) /\ reservation[o] = "reserved"
    /\ \/ /\ Only(o, {"payments.events"}, {"order/catalog"}) /\ hand["order/payments"][o] = None
          /\ outbox["payments.events"][o] = <<Ev("PaymentFailed")>>
       \/ /\ Only(o, {}, {"order/catalog", "order/payments"})
          /\ queue["order/payments"][o] = <<Ev("PaymentFailed")>>
    /\ OrderInformed(o)

\* OrderCancelled is in the outbox, or each of its two subscribers has it or has
\* handled it.
Undoing(o) ==
    \/ /\ outbox["orders.events"][o] = <<Ev("OrderCancelled")>> /\ reservation[o] = "reserved"
       /\ queue["catalog/orders"][o] = <<>> /\ queue["payment/orders"][o] = <<>>
    \/ /\ outbox["orders.events"][o] = <<>>
       /\ \/ queue["catalog/orders"][o] = <<Ev("OrderCancelled")>> /\ reservation[o] = "reserved"
          \/ queue["catalog/orders"][o] = <<>> /\ reservation[o] = "released"

\* After a decline.  The order may still be at its InventoryReserved.
Abandoned(o) ==
    /\ New(o) /\ hand["order/payments"][o] = None
    /\ Only(o, {"orders.events"}, {"order/catalog", "catalog/orders", "payment/orders"})
    /\ Undoing(o)
    /\ queue["payment/orders"][o] \in {<<>>, <<Ev("OrderCancelled")>>}
    /\ \/ queue["order/catalog"][o] = <<Ev("InventoryReserved")>> /\ status[o] = "Cancelled"
       \/ /\ queue["order/catalog"][o] = <<>> /\ hand["order/catalog"][o] = None
          /\ status[o] \in {"Cancelled", "InventoryReserved"}

\* The capture is under way, or its failure is.
Capturing(o) ==
    /\ status[o] = "Confirmed" /\ Authorized(o) /\ reservation[o] = "reserved"
    /\ hand["order/catalog"][o] = None
    /\ \/ /\ Only(o, {"orders.events"}, {}) /\ NoHand(o)
          /\ outbox["orders.events"][o] = <<Ev("OrderConfirmed")>>
       \/ /\ Only(o, {}, {"payment/orders"}) /\ NoHand(o)
          /\ queue["payment/orders"][o] = <<Ev("OrderConfirmed")>>
       \/ /\ Only(o, {"payments.events"}, {}) /\ NoHand(o)
          /\ \E e \in Event : e.type \in {"PaymentCaptureRetryRequested", "PaymentFailed"}
                                /\ outbox["payments.events"][o] = <<e>>
       \/ /\ Only(o, {}, {"payment/payments"}) /\ NoHand(o)
          /\ \E e \in Event : e.type = "PaymentCaptureRetryRequested"
                                /\ queue["payment/payments"][o] = <<e>>
       \/ /\ Only(o, {}, {"order/payments"})
          /\ \E e \in Event : e.type = "PaymentFailed" /\ queue["order/payments"][o] = <<e>>

Captured(o) ==
    /\ status[o] = "Confirmed" /\ NoHand(o) /\ reservation[o] = "reserved"
    /\ ledger[o].auth = "posted" /\ ledger[o].capture = "posted" /\ ledger[o].void = None
    /\ Only(o, {"payments.events"}, {})
    /\ outbox["payments.events"][o] \in {<<>>, <<Ev("PaymentCaptured")>>}

\* After a capture that failed for good.
Refunded(o) ==
    /\ status[o] = "Cancelled" /\ NoHand(o)
    /\ Only(o, {"orders.events", "payments.events"}, {"catalog/orders", "payment/orders"})
    /\ Undoing(o)
    /\ \/ /\ Authorized(o) /\ outbox["payments.events"][o] = <<>>
          /\ \/ outbox["orders.events"][o] = <<Ev("OrderCancelled")>>
             \/ queue["payment/orders"][o] = <<Ev("OrderCancelled")>>
       \/ /\ Voided(o) /\ queue["payment/orders"][o] = <<>>
          /\ outbox["orders.events"][o] = <<>>
          /\ outbox["payments.events"][o] \in {<<>>, <<Ev("PaymentVoided")>>}

Flow(o) ==
    \/ NotCreated(o) \/ Created(o) \/ OutOfStock(o) \/ Reserved(o) \/ Payable(o) \/ Charged(o)
    \/ Declined(o) \/ Abandoned(o) \/ Capturing(o) \/ Captured(o) \/ Refunded(o)

FlowInv ==
    faults = 0 => \A o \in Orders : /\ o \in cancelling => cancels[o] # 0
                                    /\ Undisturbed(o) => Flow(o)

-----------------------------------------------------------------------------
(* One step *)

\* Queues with one event.
LEMMA Single ==
    /\ \A e : /\ Head(<<e>>) = e /\ Tail(<<e>>) = <<>> /\ <<e>> # <<>>
              /\ Append(<<>>, e) = <<e>> /\ Len(<<e>>) = 1 /\ <<e>>[1] = e
    /\ \A e, f : <<e>> = <<f>> => e = f
    /\ \A type : Ev(type).type = type
BY DEF Ev

\* Every event that the flow names is one of the bus.
LEMMA FlowEvents == \A type \in EventTypes : Ev(type) \in Event
BY EvTyped

\* A saga left to itself has at most one event in each outbox and in each queue.
LEMMA AtMostOne ==
    ASSUME NEW o \in Orders, Flow(o)
    PROVE  /\ \A t \in Topics : outbox[t][o] = <<>> \/ \E e \in Event : outbox[t][o] = <<e>>
           /\ \A g \in Subscriptions : queue[g][o] = <<>> \/ \E e \in Event : queue[g][o] = <<e>>
<1> DEFINE One(s) == s = <<>> \/ \E e \in Event : s = <<e>>
           Goal == /\ \A t \in Topics : One(outbox[t][o])
                   /\ \A g \in Subscriptions : One(queue[g][o])
<1>1. \A type \in EventTypes : One(<<Ev(type)>>)
  BY Zenon, FlowEvents
<1>2. One(<<>>) /\ \A e \in Event : One(<<e>>)
  BY Zenon
<1>3. {"OrderCreated", "OrderConfirmed", "OrderCancelled", "InventoryReserved",
       "InventoryReservationFailed", "PaymentAuthorized", "PaymentFailed", "PaymentCaptured",
       "PaymentVoided"} \subseteq EventTypes
  BY DEF EventTypes
<1> HIDE DEF One
<1> USE DEF Only
<1>4. ASSUME NotCreated(o) \/ Created(o) \/ Reserved(o) \/ OutOfStock(o) PROVE Goal
  BY Zenon, <1>1, <1>2, <1>3, <1>4 DEF NotCreated, Created, Reserved, OutOfStock
<1>5. ASSUME Payable(o) \/ Charged(o) \/ Declined(o) PROVE Goal
  BY Zenon, <1>1, <1>2, <1>3, <1>5 DEF Payable, Charged, Declined, OrderInformed
<1>6. ASSUME Abandoned(o) PROVE Goal
  BY Zenon, <1>1, <1>2, <1>3, <1>6 DEF Abandoned, Undoing
<1>7. ASSUME Refunded(o) PROVE Goal
  <2>1. Only(o, {"orders.events", "payments.events"}, {"catalog/orders", "payment/orders"})
    BY <1>7 DEF Refunded
  <2>2. One(outbox["orders.events"][o]) /\ One(queue["catalog/orders"][o])
    BY Zenon, <1>1, <1>2, <1>3, <1>7 DEF Refunded, Undoing
  <2>3. One(outbox["payments.events"][o])
    BY <1>1, <1>2, <1>3, <1>7 DEF Refunded
  <2>4. One(queue["payment/orders"][o])
    BY Zenon, Single, <1>1, <1>2, <1>3, <1>7 DEF Refunded, Undoing
  <2> QED  BY <1>2, <2>1, <2>2, <2>3, <2>4
<1>8. ASSUME Captured(o) PROVE Goal
  BY <1>1, <1>2, <1>3, <1>8 DEF Captured
<1>9. ASSUME Capturing(o) PROVE Goal
  BY Zenon, <1>1, <1>2, <1>3, <1>9 DEF Capturing
<1>10. Goal
  BY <1>4, <1>5, <1>6, <1>7, <1>8, <1>9 DEF Flow
<1> QED  BY <1>10 DEF One

\* What changes for order o in the bus: an event is done with; a row is written; the
\* row of a topic is published.
Popped(o, g) ==
    /\ queue'[g][o] = <<>>
    /\ \A h \in Subscriptions \ {g} : queue'[h][o] = queue[h][o]

Posted(o, t, e) ==
    /\ outbox'[t][o] = <<e>>
    /\ \A u \in Topics \ {t} : outbox'[u][o] = outbox[u][o]

Receivers(t, type) == {g \in Subscriptions : TopicOf(g) = t /\ type \in Dispatch(g)}

Published(o, t, e) ==
    /\ outbox'[t][o] = <<>>
    /\ \A u \in Topics \ {t} : outbox'[u][o] = outbox[u][o]
    /\ \A g \in Receivers(t, e.type) : queue'[g][o] = Append(queue[g][o], e)
    /\ \A g \in Subscriptions \ Receivers(t, e.type) : queue'[g][o] = queue[g][o]

\* Without faults an event that is handled or given up leaves its queue empty.
LEMMA PopFlow ==
    ASSUME Typed, NEW o \in Orders, Flow(o), NEW g \in Subscriptions, queue[g][o] # <<>>,
           Ack(g, o) \/ GiveUp(g, o), faults' = 0
    PROVE  Popped(o, g)
<1>1. queue'[g][o] = Tail(queue[g][o])
      /\ \A h \in Subscriptions \ {g} : queue'[h][o] = queue[h][o]
  BY DoneWithEffect
<1>2. PICK e \in Event : queue[g][o] = <<e>>
  BY Zenon, AtMostOne
<1> QED  BY Zenon, <1>1, <1>2, Single DEF Popped

\* An event written to an empty outbox is alone there.
LEMMA PostFlow ==
    ASSUME Typed, NEW o \in Orders, NEW t \in Topics, NEW e \in Event, outbox[t][o] = <<>>,
           WriteOutbox(t, o, e)
    PROVE  Posted(o, t, e)
BY WriteOutboxEffect, Single DEF Posted

\* The subscriptions that each event reaches.
LEMMA ReceiversOf ==
    /\ Receivers("orders.events", "OrderCreated") = {"catalog/orders"}
    /\ Receivers("orders.events", "OrderConfirmed") = {"payment/orders"}
    /\ Receivers("orders.events", "OrderCancelled") = {"catalog/orders", "payment/orders"}
    /\ Receivers("catalog.events", "InventoryReserved") = {"order/catalog", "payment/catalog"}
    /\ Receivers("catalog.events", "InventoryReservationFailed") = {"order/catalog"}
    /\ Receivers("payments.events", "PaymentAuthorized") = {"order/payments"}
    /\ Receivers("payments.events", "PaymentFailed") = {"order/payments"}
    /\ Receivers("payments.events", "PaymentCaptured") = {}
    /\ Receivers("payments.events", "PaymentVoided") = {}
    /\ Receivers("payments.events", "PaymentCaptureRetryRequested") = {"payment/payments"}
BY DEF Receivers, Subscriptions, TopicOf, Dispatch

\* Without faults the relay publishes the only row to every subscription that handles it.
LEMMA RelayFlow ==
    ASSUME Typed, NEW o \in Orders, Flow(o), NEW t \in Topics, relay(t, o), faults' = 0
    PROVE  \E e \in Event : outbox[t][o] = <<e>> /\ Published(o, t, e)
<1>1. PICK i \in DOMAIN outbox[t][o] :
        /\ outbox' = [outbox EXCEPT ![t][o] = RemoveRow(@, i)]
        /\ \/ /\ IF i = 1 THEN UNCHANGED faults ELSE Fault("overtake")
              /\ Deliver(t, o, outbox[t][o][i])
           \/ /\ Fault("lost")
              /\ UNCHANGED queue
  BY Zenon DEF relay
<1>2. \A kind : ~ Fault(kind)
  BY DEF Fault, Typed
<1>3. outbox[t][o] \in Seq(Event) /\ outbox[t][o] # <<>>
  BY <1>1 DEF Typed
<1>4. PICK e \in Event : outbox[t][o] = <<e>>
  BY Zenon, <1>3, AtMostOne
<1>5. i = 1 /\ Deliver(t, o, e)
  BY <1>1, <1>2, <1>4, Single
<1>6. Len(outbox[t][o]) = 1
  BY Zenon, <1>4, Single
<1>7. RemoveRow(outbox[t][o], i) = <<>>
  BY Zenon, <1>1, <1>3, <1>6, RemoveRowKeeps
<1>8. outbox'[t][o] = <<>> /\ \A u \in Topics \ {t} : outbox'[u][o] = outbox[u][o]
  BY <1>1, <1>7 DEF Typed
<1>9. \A g \in Subscriptions :
          queue'[g][o] = IF TopicOf(g) = t /\ e.type \in Dispatch(g)
                         THEN Append(queue[g][o], e) ELSE queue[g][o]
  BY <1>5, DeliverEffect
<1>10. Published(o, t, e)
  BY Zenon, <1>8, <1>9 DEF Published, Receivers
<1> QED  BY <1>4, <1>10

\* Where the saga of an order is, given what is under way.
LEMMA Whereabouts ==
    ASSUME NEW o \in Orders, Flow(o)
    PROVE  /\ status[o] = None => NotCreated(o)
           /\ outbox["orders.events"][o] # <<>> =>
                  Created(o) \/ Abandoned(o) \/ Capturing(o) \/ Refunded(o)
           /\ outbox["catalog.events"][o] # <<>> => OutOfStock(o) \/ Reserved(o)
           /\ outbox["payments.events"][o] # <<>> =>
                  Charged(o) \/ Declined(o) \/ Capturing(o) \/ Captured(o) \/ Refunded(o)
           /\ queue["catalog/orders"][o] # <<>> => Created(o) \/ Abandoned(o) \/ Refunded(o)
           /\ queue["order/catalog"][o] # <<>> =>
                  OutOfStock(o) \/ Payable(o) \/ Charged(o) \/ Declined(o) \/ Abandoned(o)
           /\ queue["order/payments"][o] # <<>> => Charged(o) \/ Declined(o) \/ Capturing(o)
           /\ queue["payment/catalog"][o] # <<>> => Payable(o)
           /\ queue["payment/orders"][o] # <<>> => Abandoned(o) \/ Capturing(o) \/ Refunded(o)
           /\ queue["payment/payments"][o] # <<>> => Capturing(o)
<1> USE DEF Only, Topics, Subscriptions
<1>1. status[o] = None => NotCreated(o)
  BY DEF Flow, None, Created, OutOfStock, Reserved, Payable, Charged, Declined, OrderInformed,
         Abandoned, Capturing, Captured, Refunded
<1>2. NotCreated(o) => /\ \A t \in Topics : outbox[t][o] = <<>>
                       /\ \A g \in Subscriptions : queue[g][o] = <<>>
  BY DEF NotCreated
<1>3. Created(o) => /\ \A t \in Topics \ {"orders.events"} : outbox[t][o] = <<>>
                    /\ \A g \in Subscriptions \ {"catalog/orders"} : queue[g][o] = <<>>
  BY DEF Created
<1>4. OutOfStock(o) => /\ \A t \in Topics \ {"catalog.events"} : outbox[t][o] = <<>>
                       /\ \A g \in Subscriptions \ {"order/catalog"} : queue[g][o] = <<>>
  BY DEF OutOfStock
<1>5. Reserved(o) => /\ \A t \in Topics \ {"catalog.events"} : outbox[t][o] = <<>>
                     /\ \A g \in Subscriptions : queue[g][o] = <<>>
  BY DEF Reserved
<1>6. Payable(o) => /\ \A t \in Topics : outbox[t][o] = <<>>
                    /\ \A g \in Subscriptions \ {"order/catalog", "payment/catalog"} : queue[g][o] = <<>>
  BY DEF Payable
<1>7. Charged(o) \/ Declined(o) =>
          /\ \A t \in Topics \ {"payments.events"} : outbox[t][o] = <<>>
          /\ \A g \in Subscriptions \ {"order/catalog", "order/payments"} : queue[g][o] = <<>>
  BY DEF Charged, Declined
<1>8. Abandoned(o) =>
          /\ \A t \in Topics \ {"orders.events"} : outbox[t][o] = <<>>
          /\ \A g \in Subscriptions \ {"order/catalog", "catalog/orders", "payment/orders"} :
                 queue[g][o] = <<>>
  BY DEF Abandoned
<1>9. Capturing(o) =>
          /\ \A t \in Topics \ {"orders.events", "payments.events"} : outbox[t][o] = <<>>
          /\ \A g \in Subscriptions \ {"payment/orders", "payment/payments", "order/payments"} :
                 queue[g][o] = <<>>
  BY DEF Capturing
<1>10. Captured(o) => /\ \A t \in Topics \ {"payments.events"} : outbox[t][o] = <<>>
                      /\ \A g \in Subscriptions : queue[g][o] = <<>>
  BY DEF Captured
<1>11. Refunded(o) =>
          /\ \A t \in Topics \ {"orders.events", "payments.events"} : outbox[t][o] = <<>>
          /\ \A g \in Subscriptions \ {"catalog/orders", "payment/orders"} : queue[g][o] = <<>>
  BY DEF Refunded
<1>12. \A t \in Topics : outbox[t][o] # <<>> =>
           \/ t = "orders.events" /\ (Created(o) \/ Abandoned(o) \/ Capturing(o) \/ Refunded(o))
           \/ t = "catalog.events" /\ (OutOfStock(o) \/ Reserved(o))
           \/ t = "payments.events" /\
                  (Charged(o) \/ Declined(o) \/ Capturing(o) \/ Captured(o) \/ Refunded(o))
  BY <1>2, <1>3, <1>4, <1>5, <1>6, <1>7, <1>8, <1>9, <1>10, <1>11 DEF Flow
<1>13. \A g \in Subscriptions : queue[g][o] # <<>> =>
           \/ g = "catalog/orders" /\ (Created(o) \/ Abandoned(o) \/ Refunded(o))
           \/ g = "order/catalog" /\
                  (OutOfStock(o) \/ Payable(o) \/ Charged(o) \/ Declined(o) \/ Abandoned(o))
           \/ g = "order/payments" /\ (Charged(o) \/ Declined(o) \/ Capturing(o))
           \/ g = "payment/catalog" /\ Payable(o)
           \/ g = "payment/orders" /\ (Abandoned(o) \/ Capturing(o) \/ Refunded(o))
           \/ g = "payment/payments" /\ Capturing(o)
  BY <1>2, <1>3, <1>4, <1>5, <1>6, <1>7, <1>8, <1>9, <1>10, <1>11 DEF Flow
<1> QED  BY <1>1, <1>12, <1>13

\* create_order
LEMMA CreateFlow ==
    ASSUME Typed, NEW o \in Orders, Flow(o), create_order(o)
    PROVE  Created(o)'
<1> USE DEF orderDb, catalogDb, paymentDb, requests, bus
<1>1. NotCreated(o)
  BY Whereabouts DEF create_order
<1>2. "orders.events" \in Topics /\ Ev("OrderCreated") \in Event
  BY FlowEvents DEF Topics, EventTypes
<1>3. Posted(o, "orders.events", Ev("OrderCreated"))
  BY <1>1, <1>2, PostFlow DEF create_order, NotCreated, Only
<1>4. UNCHANGED <<reservation, ledger, hand, queue>> /\ status'[o] = "Pending"
  BY DEF create_order, Typed
<1>5. Only(o, {"orders.events"}, {})'
  BY <1>1, <1>3, <1>4 DEF NotCreated, Only, Posted
<1> QED  BY <1>1, <1>3, <1>4, <1>5 DEF NotCreated, Created, NoHand, New, Posted

\* relay: each topic, each phase with a row in that topic's outbox.
LEMMA RelayKeepsFlow ==
    ASSUME Typed, NEW o \in Orders, Flow(o), NEW t \in Topics, relay(t, o), faults' = 0
    PROVE  Flow(o)'
<1> USE DEF orderDb, catalogDb, paymentDb, requests, bus
<1>1. PICK e \in Event : outbox[t][o] = <<e>> /\ Published(o, t, e)
  BY RelayFlow
<1>2. UNCHANGED <<status, reservation, ledger, hand>>
  BY DEF relay
<1>3. outbox[t][o] # <<>> /\ \A type : outbox[t][o] = <<Ev(type)>> => e = Ev(type) /\ e.type = type
  BY Zenon, <1>1, Single
<1>4. \A type : <<Ev(type)>> # <<>>
  BY Zenon, Single
<1>5. \A g \in Receivers(t, e.type) : queue[g][o] = <<>> => queue'[g][o] = <<e>>
  <2> TAKE g \in Receivers(t, e.type)
  <2>1. queue'[g][o] = Append(queue[g][o], e)
    BY Zenon, <1>1 DEF Published
  <2>2. Append(<<>>, e) = <<e>>
    BY Zenon, Single
  <2> QED  BY Zenon, <2>1, <2>2
<1>6. /\ outbox'[t][o] = <<>> /\ \A u \in Topics \ {t} : outbox'[u][o] = outbox[u][o]
      /\ \A g \in Subscriptions \ Receivers(t, e.type) : queue'[g][o] = queue[g][o]
  BY <1>1 DEF Published
<1>7. CASE t = "orders.events"
  <2>1. CASE Created(o)
    <3>1. e = Ev("OrderCreated") /\ Receivers(t, e.type) = {"catalog/orders"} /\ Only(o, {"orders.events"}, {})
      BY <1>3, <1>7, <2>1, ReceiversOf DEF Created, Only
    <3>2. queue'["catalog/orders"][o] = <<Ev("OrderCreated")>> /\ Only(o, {}, {"catalog/orders"})'
      BY <1>5, <1>6, <1>7, <3>1 DEF Only, Subscriptions
    <3>3. Created(o)'
      BY <1>2, <2>1, <3>2 DEF Created, NoHand, New
    <3> QED  BY <3>3 DEF Flow
  <2>2. CASE Capturing(o)
    <3>1. /\ e = Ev("OrderConfirmed") /\ Receivers(t, e.type) = {"payment/orders"}
          /\ Only(o, {"orders.events"}, {}) /\ NoHand(o)
      BY <1>3, <1>7, <2>2, ReceiversOf DEF Capturing, Only
    <3>2. queue'["payment/orders"][o] = <<Ev("OrderConfirmed")>> /\ Only(o, {}, {"payment/orders"})'
      BY <1>5, <1>6, <1>7, <3>1 DEF Only, Subscriptions
    <3>3. Capturing(o)'
      BY <1>2, <2>2, <3>1, <3>2 DEF Capturing, NoHand, Authorized
    <3> QED  BY <3>3 DEF Flow
  <2>3. CASE Abandoned(o) \/ Refunded(o)
    <3>1. /\ e = Ev("OrderCancelled") /\ Receivers(t, e.type) = {"catalog/orders", "payment/orders"}
          /\ reservation[o] = "reserved"
          /\ queue["catalog/orders"][o] = <<>> /\ queue["payment/orders"][o] = <<>>
      BY <1>3, <1>7, <2>3, ReceiversOf DEF Abandoned, Refunded, Undoing
    <3>2. /\ queue'["catalog/orders"][o] = <<Ev("OrderCancelled")>>
          /\ queue'["payment/orders"][o] = <<Ev("OrderCancelled")>>
          /\ outbox'["orders.events"][o] = <<>>
      BY <1>5, <1>6, <1>7, <3>1
    <3>3. Undoing(o)'
      BY <1>2, <3>1, <3>2 DEF Undoing
    <3>4. CASE Abandoned(o)
      <4>1. Only(o, {"orders.events"}, {"order/catalog", "catalog/orders", "payment/orders"})'
        BY <1>6, <1>7, <3>1, <3>4 DEF Abandoned, Only
      <4>2. queue'["order/catalog"][o] = queue["order/catalog"][o]
        BY <1>6, <3>1 DEF Subscriptions
      <4>3. Abandoned(o)'
        BY <1>2, <3>2, <3>3, <3>4, <4>1, <4>2 DEF Abandoned, New
      <4> QED  BY <4>3 DEF Flow
    <3>5. CASE Refunded(o)
      <4>1. Only(o, {"orders.events", "payments.events"}, {"catalog/orders", "payment/orders"})'
        BY <1>6, <1>7, <3>1, <3>5 DEF Refunded, Only
      <4>2. outbox'["payments.events"][o] = outbox["payments.events"][o]
        BY <1>6, <1>7 DEF Topics
      <4>3. Authorized(o) /\ outbox["payments.events"][o] = <<>>
        BY <1>3, <1>7, <3>5 DEF Refunded
      <4>4. Refunded(o)'
        BY Zenon, <1>2, <3>2, <3>3, <3>5, <4>1, <4>2, <4>3 DEF Refunded, Authorized, NoHand
      <4> QED  BY <4>4 DEF Flow
    <3> QED  BY Zenon, <2>3, <3>4, <3>5
  <2> QED  BY <1>3, <1>7, <2>1, <2>2, <2>3, Whereabouts
<1>8. CASE t = "catalog.events"
  <2>1. CASE OutOfStock(o)
    <3>1. /\ e = Ev("InventoryReservationFailed") /\ Receivers(t, e.type) = {"order/catalog"}
          /\ Only(o, {"catalog.events"}, {})
      BY <1>3, <1>8, <2>1, ReceiversOf DEF OutOfStock, Only
    <3>2. /\ queue'["order/catalog"][o] = <<Ev("InventoryReservationFailed")>>
          /\ Only(o, {}, {"order/catalog"})'
      BY <1>5, <1>6, <1>8, <3>1 DEF Only, Subscriptions
    <3>3. OutOfStock(o)'
      BY <1>2, <2>1, <3>2 DEF OutOfStock, NoHand, New
    <3> QED  BY <3>3 DEF Flow
  <2>2. CASE Reserved(o)
    <3>1. /\ e = Ev("InventoryReserved") /\ Receivers(t, e.type) = {"order/catalog", "payment/catalog"}
          /\ Only(o, {"catalog.events"}, {})
      BY <1>3, <1>8, <2>2, ReceiversOf DEF Reserved
    <3>2. /\ queue'["order/catalog"][o] = <<Ev("InventoryReserved")>>
          /\ queue'["payment/catalog"][o] = <<Ev("InventoryReserved")>>
          /\ Only(o, {}, {"order/catalog", "payment/catalog"})'
      BY <1>5, <1>6, <1>8, <3>1 DEF Only, Subscriptions
    <3>3. Payable(o)'
      BY <1>2, <2>2, <3>2 DEF Reserved, Payable, OrderInformed, NoHand, New, OrderSubscriptions
    <3> QED  BY <3>3 DEF Flow
  <2> QED  BY <1>3, <1>8, <2>1, <2>2, Whereabouts
<1>9. CASE t = "payments.events"
  <2>1. CASE Charged(o) \/ Declined(o)
    <3>1. /\ Only(o, {"payments.events"}, {"order/catalog"}) /\ hand["order/payments"][o] = None
          /\ Receivers(t, e.type) = {"order/payments"}
          /\ \/ e = Ev("PaymentAuthorized") /\ Charged(o)
             \/ e = Ev("PaymentFailed") /\ Declined(o)
      BY Zenon, <1>3, <1>9, <2>1, ReceiversOf DEF Charged, Declined, Only
    <3>2. /\ queue'["order/payments"][o] = <<e>>
          /\ queue'["order/catalog"][o] = queue["order/catalog"][o]
          /\ Only(o, {}, {"order/catalog", "order/payments"})'
      BY <1>5, <1>6, <1>9, <3>1 DEF Only, Subscriptions
    <3>3. OrderInformed(o)'
      BY Zenon, <1>2, <2>1, <3>2 DEF Charged, Declined, OrderInformed
    <3>4. Charged(o)' \/ Declined(o)'
      BY <1>2, <2>1, <3>1, <3>2, <3>3 DEF Charged, Declined, New, Authorized
    <3> QED  BY Zenon, <3>4 DEF Flow
  <2>2. CASE Capturing(o)
    <3>1. /\ Only(o, {"payments.events"}, {}) /\ NoHand(o)
          /\ e.type \in {"PaymentCaptureRetryRequested", "PaymentFailed"}
      BY <1>1, <1>3, <1>9, <2>2, Single DEF Capturing, Only
    <3>2. CASE e.type = "PaymentCaptureRetryRequested"
      <4>1. queue'["payment/payments"][o] = <<e>> /\ Only(o, {}, {"payment/payments"})'
        BY Zenon, <1>5, <1>6, <1>9, <3>1, <3>2, ReceiversOf DEF Only, Subscriptions
      <4>2. Capturing(o)'
        BY Zenon, <1>2, <2>2, <3>1, <3>2, <4>1 DEF Capturing, NoHand, Authorized
      <4> QED  BY <4>2 DEF Flow
    <3>3. CASE e.type = "PaymentFailed"
      <4>1. queue'["order/payments"][o] = <<e>> /\ Only(o, {}, {"order/payments"})'
        BY Zenon, <1>5, <1>6, <1>9, <3>1, <3>3, ReceiversOf DEF Only, Subscriptions
      <4>2. Capturing(o)'
        BY Zenon, <1>2, <2>2, <3>1, <3>3, <4>1 DEF Capturing, NoHand, Authorized
      <4> QED  BY <4>2 DEF Flow
    <3> QED  BY <3>1, <3>2, <3>3
  <2>3. CASE Captured(o) \/ Refunded(o)
    <3>1. Receivers(t, e.type) = {} /\ outbox'["payments.events"][o] = <<>>
      BY <1>3, <1>6, <1>9, <2>3, ReceiversOf DEF Captured, Refunded
    <3>2. /\ \A g \in Subscriptions : queue'[g][o] = queue[g][o]
          /\ outbox'["orders.events"][o] = outbox["orders.events"][o]
      BY <1>6, <1>9, <3>1 DEF Topics
    <3>3. CASE Captured(o)
      <4>1. Only(o, {"payments.events"}, {})'
        BY Zenon, <1>6, <1>9, <3>2, <3>3 DEF Captured, Only
      <4>2. Captured(o)'
        BY Zenon, <1>2, <3>1, <3>3, <4>1 DEF Captured, NoHand
      <4> QED  BY <4>2 DEF Flow
    <3>4. CASE Refunded(o)
      <4>1. Only(o, {"orders.events", "payments.events"}, {"catalog/orders", "payment/orders"})'
        BY <1>6, <1>9, <3>2, <3>4 DEF Refunded, Only
      <4>2. Undoing(o)'
        BY <1>2, <3>2, <3>4 DEF Refunded, Undoing, Subscriptions
      <4>3. /\ Voided(o) /\ queue["payment/orders"][o] = <<>> /\ outbox["orders.events"][o] = <<>>
            /\ status[o] = "Cancelled" /\ NoHand(o)
        BY <1>3, <1>9, <3>4 DEF Refunded
      <4>4. Refunded(o)'
        BY <1>2, <3>1, <3>2, <4>1, <4>2, <4>3 DEF Refunded, Voided, NoHand, Subscriptions
      <4> QED  BY <4>4 DEF Flow
    <3> QED  BY <2>3, <3>3, <3>4
  <2> QED  BY <1>3, <1>9, <2>1, <2>2, <2>3, Whereabouts
<1> QED  BY <1>7, <1>8, <1>9 DEF Topics

\* The consumers of the order service.
LEMMA OrderKeepsFlow ==
    ASSUME Typed, NEW o \in Orders, Flow(o), OrderConsumer(o), faults' = 0
    PROVE  Flow(o)'
<1> USE DEF orderDb, catalogDb, paymentDb, requests, bus
<1>1. \A type : <<Ev(type)>> # <<>> /\ Head(<<Ev(type)>>).type = type
  BY Zenon, Single
<1>2. \A e : <<e>> # <<>> /\ Head(<<e>>) = e
  BY Zenon, Single
<1>3. OrderSubscriptions \subseteq Subscriptions /\ OrderSubscriptions = {"order/catalog", "order/payments"}
  BY DEF OrderSubscriptions, Subscriptions
<1>4. ASSUME NEW g \in OrderSubscriptions, read_order(g, o) PROVE Flow(o)'
  <2>1. /\ UNCHANGED <<status, reservation, ledger, outbox, queue>>
        /\ \A h \in OrderSubscriptions \ {g} : hand'[h][o] = hand[h][o]
        /\ queue[g][o] # <<>> /\ transition_to(status[o], Target(Head(queue[g][o]).type))
    BY <1>4 DEF read_order, Ready, Typed
  <2>2. CASE g = "order/catalog"
    <3>1. hand'["order/payments"][o] = hand["order/payments"][o]
      BY <1>3, <2>1, <2>2
    <3>2. CASE OutOfStock(o)
      <4>1. OutOfStock(o)'
        BY Zenon, <2>1, <2>2, <3>1, <3>2 DEF OutOfStock, Only, New, Subscriptions
      <4> QED  BY Zenon, <4>1 DEF Flow
    <3>3. CASE Payable(o) \/ Charged(o) \/ Declined(o)
      <4>1. OrderInformed(o)'
        BY Zenon, <2>1, <2>2, <3>3 DEF Payable, Charged, Declined, OrderInformed
      <4>2. Payable(o)' \/ Charged(o)' \/ Declined(o)'
        BY <2>1, <3>1, <3>3, <4>1 DEF Payable, Charged, Declined, Only, New, Authorized
      <4> QED  BY Zenon, <4>2 DEF Flow
    <3>4. CASE Abandoned(o)
      <4>1. queue["order/catalog"][o] = <<Ev("InventoryReserved")>> /\ status[o] = "Cancelled"
        BY Zenon, <2>1, <2>2, <3>4 DEF Abandoned
      <4> QED  BY Zenon, <1>1, <2>1, <2>2, <4>1 DEF Target, transition_to
    <3> QED  BY <2>1, <2>2, <3>2, <3>3, <3>4, Whereabouts
  <2>3. CASE g = "order/payments"
    <3>1. hand'["order/catalog"][o] = hand["order/catalog"][o]
      BY <1>3, <2>1, <2>3
    <3>2. CASE Charged(o)
      <4>1. /\ queue["order/payments"][o] = <<Ev("PaymentAuthorized")>>
            /\ Only(o, {}, {"order/catalog", "order/payments"})
        BY <2>1, <2>3, <3>2 DEF Charged, Only, Subscriptions
      <4>2. status[o] = "InventoryReserved"
        BY Zenon, <1>1, <2>1, <2>3, <4>1 DEF Target, transition_to
      <4>3. Charged(o)'
        BY Zenon, <2>1, <3>1, <3>2, <4>1, <4>2 DEF Charged, OrderInformed, Only, Authorized
      <4> QED  BY Zenon, <4>3 DEF Flow
    <3>3. CASE Declined(o)
      <4>1. /\ queue["order/payments"][o] = <<Ev("PaymentFailed")>>
            /\ Only(o, {}, {"order/catalog", "order/payments"})
        BY Zenon, <2>1, <2>3, <3>3 DEF Declined, Only, Subscriptions
      <4>2. Declined(o)'
        BY <2>1, <3>1, <3>3, <4>1 DEF Declined, OrderInformed, Only, New
      <4> QED  BY Zenon, <4>2 DEF Flow
    <3>4. CASE Capturing(o)
      <4>1. /\ Only(o, {}, {"order/payments"})
            /\ \E e \in Event : e.type = "PaymentFailed" /\ queue["order/payments"][o] = <<e>>
        BY Zenon, <2>1, <2>3, <3>4 DEF Capturing, Only, Subscriptions
      <4>2. Capturing(o)'
        BY Zenon, <2>1, <3>1, <3>4, <4>1 DEF Capturing, Only, Authorized
      <4> QED  BY Zenon, <4>2 DEF Flow
    <3> QED  BY Zenon, <2>1, <2>3, <3>2, <3>3, <3>4, Whereabouts
  <2> QED  BY Zenon, <1>3, <2>2, <2>3
<1>5. ASSUME NEW g \in OrderSubscriptions, reject_order_event(g, o) PROVE Flow(o)'
  <2>1. /\ UNCHANGED <<status, reservation, ledger, outbox, hand>>
        /\ queue[g][o] # <<>> /\ hand[g][o] = None /\ GiveUp(g, o)
        /\ ~ transition_to(status[o], Target(Head(queue[g][o]).type))
    BY Zenon, <1>5 DEF reject_order_event, Ready
  <2>2. Popped(o, g)
    BY Zenon, <1>3, <2>1, PopFlow
  <2>3. CASE g = "order/catalog"
    <3>1. ASSUME OutOfStock(o) PROVE Flow(o)'
      <4>1. Only(o, {}, {"order/catalog"}) /\ NoHand(o)
        BY <1>3, <2>1, <2>3, <3>1 DEF OutOfStock, Only, NoHand, Subscriptions
      <4>2. Only(o, {}, {})'
        BY Zenon, <2>1, <2>2, <2>3, <4>1 DEF Only, Popped
      <4>3. OutOfStock(o)'
        BY Zenon, <2>1, <3>1, <4>1, <4>2 DEF OutOfStock, New, NoHand
      <4> QED  BY Zenon, <4>3 DEF Flow
    <3>2. ASSUME Payable(o) \/ Charged(o) \/ Declined(o) PROVE FALSE
      <4>1. queue["order/catalog"][o] = <<Ev("InventoryReserved")>> /\ status[o] = "Pending"
        BY Zenon, <2>1, <2>3, <3>2 DEF Payable, Charged, Declined, OrderInformed
      <4> QED  BY Zenon, <1>1, <2>1, <2>3, <4>1 DEF Target, transition_to
    <3>3. ASSUME Abandoned(o) PROVE Flow(o)'
      <4>1. status[o] = "Cancelled" /\ queue'["order/catalog"][o] = <<>>
        BY <2>1, <2>2, <2>3, <3>3 DEF Abandoned, Popped
      <4>2. /\ queue'["payment/orders"][o] = queue["payment/orders"][o]
            /\ queue'["catalog/orders"][o] = queue["catalog/orders"][o]
        BY Zenon, <2>2, <2>3 DEF Popped, Subscriptions
      <4>3. Only(o, {"orders.events"}, {"order/catalog", "catalog/orders", "payment/orders"})'
        BY Zenon, <2>1, <2>2, <2>3, <3>3 DEF Abandoned, Only, Popped
      <4>4. Undoing(o)'
        BY Zenon, <2>1, <3>3, <4>2 DEF Abandoned, Undoing
      <4>5. Abandoned(o)'
        BY Zenon, <2>1, <2>3, <3>3, <4>1, <4>2, <4>3, <4>4 DEF Abandoned, New
      <4> QED  BY <4>5 DEF Flow
    <3> QED  BY <2>1, <2>3, <3>1, <3>2, <3>3, Whereabouts
  <2>4. CASE g = "order/payments"
    <3>1. ASSUME Charged(o) PROVE Flow(o)'
      <4>1. Only(o, {}, {"order/catalog", "order/payments"})
        BY Zenon, <2>1, <2>4, <3>1 DEF Charged, Only, Subscriptions
      <4>2. Only(o, {}, {"order/catalog"})' /\ queue'["order/catalog"][o] = queue["order/catalog"][o]
        BY <2>1, <2>2, <2>4, <4>1 DEF Only, Popped, Subscriptions
      <4>3. Charged(o)'
        BY <2>1, <2>4, <3>1, <4>2 DEF Charged, OrderInformed, Authorized
      <4> QED  BY <4>3 DEF Flow
    <3>2. ASSUME Declined(o) PROVE FALSE
      <4>1. queue["order/payments"][o] = <<Ev("PaymentFailed")>> /\ status[o] \in {"Pending", "InventoryReserved"}
        BY <2>1, <2>4, <3>2 DEF Declined, OrderInformed, Only, Subscriptions
      <4>2. Target(Head(queue["order/payments"][o]).type) = "Cancelled"
        BY <1>1, <4>1 DEF Target
      <4>3. ~ transition_to(status[o], "Cancelled")
        BY Zenon, <2>1, <2>4, <4>2
      <4> QED  BY Zenon, <4>1, <4>3 DEF transition_to
    <3>3. ASSUME Capturing(o) PROVE FALSE
      <4>1. /\ status[o] = "Confirmed"
            /\ \E e \in Event : e.type = "PaymentFailed" /\ queue["order/payments"][o] = <<e>>
        BY Zenon, <2>1, <2>4, <3>3 DEF Capturing, Only, Subscriptions
      <4> QED  BY Zenon, <1>2, <2>1, <2>4, <4>1 DEF Target, transition_to
    <3> QED  BY Zenon, <2>1, <2>4, <3>1, <3>2, <3>3, Whereabouts
  <2> QED  BY <1>3, <2>3, <2>4
<1>6. ASSUME NEW g \in OrderSubscriptions, NEW type, NEW to, Update(g, o, type, to)
      PROVE  /\ UNCHANGED <<reservation, ledger>> /\ status'[o] = to
             /\ hand[g][o] # None /\ hand'[g][o] = None
             /\ \A h \in OrderSubscriptions \ {g} : hand'[h][o] = hand[h][o]
             /\ queue[g][o] # <<>> /\ Head(queue[g][o]).type = type /\ Popped(o, g)
  <2>1. queue[g][o] # <<>> /\ Head(queue[g][o]).type = type /\ Ack(g, o)
    BY <1>6 DEF Update, Pending
  <2>2. Popped(o, g)
    BY Zenon, <1>3, <2>1, PopFlow
  <2> QED  BY <1>6, <2>1, <2>2 DEF Update, Typed
<1>7. CASE order_inventory_reserved(o) \/ order_inventory_reservation_failed(o)
  <2> DEFINE g == "order/catalog"
  <2>1. /\ UNCHANGED <<reservation, ledger, outbox>> /\ hand[g][o] # None /\ hand'[g][o] = None
        /\ hand'["order/payments"][o] = hand["order/payments"][o]
        /\ queue[g][o] # <<>> /\ Popped(o, g)
        /\ \/ Head(queue[g][o]).type = "InventoryReserved" /\ status'[o] = "InventoryReserved"
           \/ Head(queue[g][o]).type = "InventoryReservationFailed" /\ status'[o] = "Cancelled"
    BY <1>3, <1>6, <1>7 DEF order_inventory_reserved, order_inventory_reservation_failed, NoEvent
  <2>2. /\ queue'[g][o] = <<>> /\ \A h \in Subscriptions \ {g} : queue'[h][o] = queue[h][o]
    BY <2>1 DEF Popped
  <2> HIDE DEF g
  <2>3. ASSUME OutOfStock(o) PROVE Flow(o)'
    <3>1. Only(o, {}, {"order/catalog"}) /\ queue["order/catalog"][o] = <<Ev("InventoryReservationFailed")>>
      BY Zenon, <2>1, <2>3 DEF OutOfStock, Only, Subscriptions, g
    <3>2. status'[o] = "Cancelled"
      BY Zenon, <1>1, <2>1, <3>1 DEF g
    <3>3. Only(o, {}, {})' /\ NoHand(o)'
      BY Zenon, <1>3, <2>1, <2>2, <2>3, <3>1 DEF OutOfStock, Only, NoHand, g
    <3>4. OutOfStock(o)'
      BY Zenon, <1>3, <2>1, <2>3, <3>2, <3>3 DEF OutOfStock, New, NoHand
    <3> QED  BY Zenon, <3>4 DEF Flow
  <2>4. ASSUME queue["order/catalog"][o] = <<Ev("InventoryReserved")>>
        PROVE  status'[o] = "InventoryReserved" /\ queue'["order/catalog"][o] = <<>>
               /\ hand'["order/catalog"][o] = None
    BY <1>1, <2>1, <2>2, <2>4 DEF g
  <2>5. ASSUME Payable(o) \/ Charged(o) \/ Declined(o) PROVE Flow(o)'
    <3>1. queue["order/catalog"][o] = <<Ev("InventoryReserved")>> /\ status[o] = "Pending"
      BY <2>1, <2>5 DEF Payable, Charged, Declined, OrderInformed, g
    <3>2. OrderInformed(o)'
      BY <2>4, <3>1 DEF OrderInformed
    <3>3. /\ queue'["payment/catalog"][o] = queue["payment/catalog"][o]
          /\ queue'["order/payments"][o] = queue["order/payments"][o]
      BY Zenon, <2>2 DEF Subscriptions, g
    <3>4. ASSUME Payable(o) PROVE Payable(o)'
      <4>1. Only(o, {}, {"order/catalog", "payment/catalog"})'
        BY Zenon, <2>1, <2>2, <3>4 DEF Payable, Only, g
      <4> QED  BY Zenon, <2>1, <3>2, <3>3, <3>4, <4>1 DEF Payable, New
    <3>5. ASSUME Charged(o) PROVE Charged(o)'
      <4>1. hand["order/payments"][o] = None
        BY Zenon, <3>1, <3>5 DEF Charged
      <4>2. ASSUME Only(o, {"payments.events"}, {"order/catalog"})
            PROVE  Only(o, {"payments.events"}, {"order/catalog"})'
        BY Zenon, <2>1, <2>2, <4>2 DEF Only, g
      <4>3. ASSUME Only(o, {}, {"order/catalog", "order/payments"})
            PROVE  Only(o, {}, {"order/catalog", "order/payments"})'
        BY <2>1, <2>2, <4>3 DEF Only, g
      <4>4. ASSUME Only(o, {}, {"order/catalog"}) PROVE Only(o, {}, {"order/catalog"})'
        BY Zenon, <2>1, <2>2, <4>4 DEF Only, g
      <4> QED  BY Zenon, <2>1, <3>2, <3>3, <3>5, <4>1, <4>2, <4>3, <4>4 DEF Charged, Authorized
    <3>6. ASSUME Declined(o) PROVE Declined(o)'
      <4>1. ASSUME Only(o, {"payments.events"}, {"order/catalog"})
            PROVE  Only(o, {"payments.events"}, {"order/catalog"})'
        BY <2>1, <2>2, <4>1 DEF Only, g
      <4>2. ASSUME Only(o, {}, {"order/catalog", "order/payments"})
            PROVE  Only(o, {}, {"order/catalog", "order/payments"})'
        BY <2>1, <2>2, <4>2 DEF Only, g
      <4> QED  BY Zenon, <2>1, <3>2, <3>3, <3>6, <4>1, <4>2 DEF Declined, New
    <3> QED  BY Zenon, <2>5, <3>4, <3>5, <3>6 DEF Flow
  <2>6. ASSUME Abandoned(o) PROVE Flow(o)'
    <3>1. queue["order/catalog"][o] = <<Ev("InventoryReserved")>>
      BY Zenon, <2>1, <2>6 DEF Abandoned, g
    <3>2. Only(o, {"orders.events"}, {"order/catalog", "catalog/orders", "payment/orders"})'
      BY Zenon, <2>1, <2>2, <2>6 DEF Abandoned, Only, g
    <3>3. /\ queue'["payment/orders"][o] = queue["payment/orders"][o]
          /\ queue'["catalog/orders"][o] = queue["catalog/orders"][o]
      BY Zenon, <2>2 DEF Subscriptions, g
    <3>4. Undoing(o)'
      BY Zenon, <2>1, <2>6, <3>3 DEF Abandoned, Undoing
    <3>5. Abandoned(o)'
      BY Zenon, <2>1, <2>4, <2>6, <3>1, <3>2, <3>3, <3>4 DEF Abandoned, New
    <3> QED  BY Zenon, <3>5 DEF Flow
  <2> QED  BY <2>1, <2>3, <2>5, <2>6, Whereabouts DEF g
<1>8. "orders.events" \in Topics /\ Ev("OrderConfirmed") \in Event /\ Ev("OrderCancelled") \in Event
  BY Zenon, FlowEvents DEF Topics, EventTypes
<1>9. ASSUME queue["order/payments"][o] # <<>>
      PROVE  /\ Charged(o) \/ Declined(o) => Only(o, {}, {"order/catalog", "order/payments"})
             /\ Capturing(o) => Only(o, {}, {"order/payments"})
             /\ outbox["orders.events"][o] = <<>>
  <2>1. /\ Charged(o) \/ Declined(o) => Only(o, {}, {"order/catalog", "order/payments"})
        /\ Capturing(o) => Only(o, {}, {"order/payments"})
    BY <1>9 DEF Charged, Declined, Capturing, Only, Subscriptions
  <2> QED  BY Zenon, <1>8, <1>9, <2>1, Whereabouts DEF Only
<1>10. CASE order_payment_authorized(o)
  <2> DEFINE g == "order/payments"
  <2>1. /\ UNCHANGED <<reservation, ledger>> /\ status'[o] = "Confirmed"
        /\ hand[g][o] # None /\ hand'[g][o] = None
        /\ hand'["order/catalog"][o] = hand["order/catalog"][o]
        /\ queue[g][o] # <<>> /\ Head(queue[g][o]).type = "PaymentAuthorized" /\ Popped(o, g)
    BY Zenon, <1>3, <1>6, <1>10 DEF order_payment_authorized
  <2>2. Posted(o, "orders.events", Ev("OrderConfirmed"))
    BY Zenon, <1>8, <1>9, <1>10, <2>1, PostFlow DEF order_payment_authorized
  <2>3. Charged(o)
    <3>1. ~ Declined(o)
      BY Zenon, <1>1, <2>1 DEF Declined, Only, Subscriptions
    <3>2. ~ Capturing(o)
      BY Zenon, <1>2, <2>1 DEF Capturing, Only, Subscriptions
    <3> QED  BY Zenon, <2>1, <3>1, <3>2, Whereabouts
  <2>4. /\ status[o] = "InventoryReserved" /\ queue["order/catalog"][o] = <<>>
        /\ hand["order/catalog"][o] = None
    BY Zenon, <2>1, <2>3 DEF Charged, OrderInformed
  <2>5. Only(o, {"orders.events"}, {})'
    <3>1. Only(o, {}, {"order/catalog", "order/payments"})
      BY Zenon, <1>9, <2>1, <2>3
    <3>2. \A u \in Topics \ {"orders.events"} : outbox'[u][o] = <<>>
      BY Zenon, <2>2, <3>1 DEF Only, Posted
    <3>3. \A h \in Subscriptions \ {"order/payments"} : queue'[h][o] = queue[h][o]
      BY Zenon, <2>1 DEF Popped
    <3>4. queue'["order/payments"][o] = <<>>
      BY Zenon, <2>1 DEF Popped
    <3>5. \A h \in Subscriptions : queue'[h][o] = <<>>
      BY Zenon, <2>4, <3>1, <3>3, <3>4 DEF Only
    <3> QED  BY Zenon, <3>2, <3>5 DEF Only
  <2>6. Capturing(o)'
    BY Zenon, <1>3, <2>1, <2>2, <2>3, <2>4, <2>5 DEF Charged, Capturing, Authorized, NoHand, Posted
  <2> QED  BY Zenon, <2>6 DEF Flow
<1>11. CASE cancel_order_on_payment_failure(o)
  <2> DEFINE g == "order/payments"
  <2>1. /\ UNCHANGED <<reservation, ledger>> /\ status'[o] = "Cancelled"
        /\ hand[g][o] # None /\ hand'[g][o] = None
        /\ hand'["order/catalog"][o] = hand["order/catalog"][o]
        /\ queue[g][o] # <<>> /\ Head(queue[g][o]).type # "PaymentAuthorized" /\ Popped(o, g)
    BY Zenon, <1>3, <1>6, <1>11 DEF cancel_order_on_payment_failure
  <2>2. Posted(o, "orders.events", Ev("OrderCancelled"))
    BY Zenon, <1>8, <1>9, <1>11, <2>1, PostFlow DEF cancel_order_on_payment_failure
  <2>3. /\ queue'[g][o] = <<>> /\ \A h \in Subscriptions \ {g} : queue'[h][o] = queue[h][o]
        /\ outbox'["orders.events"][o] = <<Ev("OrderCancelled")>>
        /\ \A u \in Topics \ {"orders.events"} : outbox'[u][o] = outbox[u][o]
    BY Zenon, <2>1, <2>2 DEF Popped, Posted
  <2>4. ~ Charged(o)
    BY Zenon, <1>1, <2>1 DEF Charged, Only, Subscriptions
  <2>5. ASSUME Declined(o) PROVE Flow(o)'
    <3>0. Only(o, {}, {"order/catalog", "order/payments"})
      BY Zenon, <1>9, <2>1, <2>5
    <3>1. Only(o, {"orders.events"}, {"order/catalog", "catalog/orders", "payment/orders"})'
      <4>1. \A u \in Topics \ {"orders.events"} : outbox'[u][o] = <<>>
        BY Zenon, <2>3, <3>0 DEF Only
      <4>2. \A h \in Subscriptions \ {"order/catalog", "catalog/orders", "payment/orders"} : queue'[h][o] = <<>>
        BY Zenon, <2>3, <3>0 DEF Only
      <4> QED  BY Zenon, <4>1, <4>2 DEF Only
    <3>2. /\ queue'["catalog/orders"][o] = <<>> /\ queue'["payment/orders"][o] = <<>>
          /\ queue'["order/catalog"][o] = queue["order/catalog"][o]
      BY <2>3, <3>0 DEF Only, Subscriptions
    <3>3. Undoing(o)'
      BY Zenon, <2>1, <2>3, <2>5, <3>2 DEF Declined, Undoing
    <3>4. Abandoned(o)'
      BY Zenon, <2>1, <2>5, <3>1, <3>2, <3>3 DEF Declined, OrderInformed, Abandoned, New
    <3> QED  BY <3>4 DEF Flow
  <2>6. ASSUME Capturing(o) PROVE Flow(o)'
    <3>0. Only(o, {}, {"order/payments"})
      BY Zenon, <1>9, <2>1, <2>6
    <3>1. Only(o, {"orders.events", "payments.events"}, {"catalog/orders", "payment/orders"})'
      <4>1. \A u \in Topics \ {"orders.events", "payments.events"} : outbox'[u][o] = <<>>
        BY Zenon, <2>3, <3>0 DEF Only
      <4>2. \A h \in Subscriptions \ {"catalog/orders", "payment/orders"} : queue'[h][o] = <<>>
        BY Zenon, <2>3, <3>0 DEF Only
      <4> QED  BY Zenon, <4>1, <4>2 DEF Only
    <3>2. /\ queue'["catalog/orders"][o] = <<>> /\ queue'["payment/orders"][o] = <<>>
          /\ outbox'["payments.events"][o] = <<>>
      BY <2>3, <3>0 DEF Only, Subscriptions, Topics
    <3>3. Undoing(o)'
      BY Zenon, <2>1, <2>3, <2>6, <3>2 DEF Capturing, Undoing
    <3>4. Refunded(o)'
      BY Zenon, <1>3, <2>1, <2>3, <2>6, <3>1, <3>2, <3>3 DEF Capturing, Refunded, Authorized, NoHand
    <3> QED  BY Zenon, <3>4 DEF Flow
  <2> QED  BY Zenon, <2>1, <2>4, <2>5, <2>6, Whereabouts
<1> QED  BY <1>4, <1>5, <1>7, <1>10, <1>11 DEF OrderConsumer

\* The consumers of the catalog service.
LEMMA CatalogKeepsFlow ==
    ASSUME Typed, NEW o \in Orders, Flow(o), CatalogConsumer(o), faults' = 0
    PROVE  Flow(o)'
<1> USE DEF orderDb, catalogDb, paymentDb, requests, bus
<1> DEFINE g == "catalog/orders"
<1>1. \A type : <<Ev(type)>> # <<>> /\ Head(<<Ev(type)>>).type = type
  BY Zenon, Single
<1>2. /\ g \in Subscriptions /\ "catalog.events" \in Topics
      /\ Ev("InventoryReserved") \in Event /\ Ev("InventoryReservationFailed") \in Event
  BY FlowEvents DEF Subscriptions, Topics, EventTypes
<1>3. \A kind : ~ Fault(kind)
  BY DEF Fault, Typed
<1>4. queue[g][o] # <<>> /\ UNCHANGED <<status, ledger, hand>>
  BY DEF CatalogConsumer, catalog_order_created, catalog_order_cancelled, Pending
<1>5. Popped(o, g)
  <2>1. Ack(g, o) \/ GiveUp(g, o)
    BY <1>3 DEF CatalogConsumer, catalog_order_created, catalog_order_cancelled
  <2> QED  BY <1>2, <1>4, <2>1, PopFlow
<1>6. queue'[g][o] = <<>> /\ \A h \in Subscriptions \ {g} : queue'[h][o] = queue[h][o]
  BY <1>5 DEF Popped
<1>7. CASE catalog_order_created(o)
  <2>1. Head(queue[g][o]).type = "OrderCreated"
    BY Zenon, <1>7 DEF catalog_order_created, Pending
  <2>2. ~ Abandoned(o)
    BY Zenon, <1>1, <1>4, <2>1 DEF Abandoned, Undoing
  <2>3. ~ Refunded(o)
    BY Zenon, <1>1, <1>4, <2>1 DEF Refunded, Undoing
  <2>4. Created(o) /\ Only(o, {}, {g})
    BY Zenon, <1>2, <1>4, <2>2, <2>3, Whereabouts DEF Created, Only
  <2>5. outbox["catalog.events"][o] = <<>>
    BY <1>2, <2>4 DEF Only
  <2>6. CASE /\ reservation' = [reservation EXCEPT ![o] = "reserved"]
             /\ WriteOutbox("catalog.events", o, Ev("InventoryReserved"))
    <3>1. Posted(o, "catalog.events", Ev("InventoryReserved")) /\ reservation'[o] = "reserved"
      BY Zenon, <1>2, <2>5, <2>6, PostFlow DEF Typed
    <3>2. Only(o, {"catalog.events"}, {})'
      BY Zenon, <1>6, <2>4, <3>1 DEF Only, Posted
    <3>3. Reserved(o)'
      BY <1>4, <2>4, <3>1, <3>2 DEF Created, Reserved, NoHand, New, Posted
    <3> QED  BY <3>3 DEF Flow
  <2>7. CASE /\ reservation' = reservation
             /\ WriteOutbox("catalog.events", o, Ev("InventoryReservationFailed"))
    <3>1. Posted(o, "catalog.events", Ev("InventoryReservationFailed"))
      BY Zenon, <1>2, <2>5, <2>7, PostFlow
    <3>2. Only(o, {"catalog.events"}, {})'
      BY Zenon, <1>6, <2>4, <3>1 DEF Only, Posted
    <3>3. OutOfStock(o)'
      BY <1>4, <2>4, <2>7, <3>1, <3>2
         DEF Created, OutOfStock, NoHand, New, Posted, OrderSubscriptions
    <3> QED  BY <3>3 DEF Flow
  <2> QED  BY <1>7, <2>6, <2>7 DEF catalog_order_created
<1>8. CASE catalog_order_cancelled(o)
  <2>1. Head(queue[g][o]).type = "OrderCancelled" /\ UNCHANGED outbox
    BY Zenon, <1>8 DEF catalog_order_cancelled, Pending
  <2>2. ~ Created(o)
    BY Zenon, <1>1, <1>2, <1>4, <2>1 DEF Created, Only
  <2>3. Abandoned(o) \/ Refunded(o)
    BY Zenon, <1>4, <2>2, Whereabouts
  <2>4. Undoing(o) /\ reservation[o] = "reserved" /\ outbox["orders.events"][o] = <<>>
    BY Zenon, <1>4, <2>3 DEF Abandoned, Refunded, Undoing
  <2>5. reservation'[o] = "released"
    BY Zenon, <1>8, <2>4 DEF catalog_order_cancelled, Typed
  <2>6. Undoing(o)'
    BY Zenon, <1>6, <2>1, <2>4, <2>5 DEF Undoing
  <2>7. /\ queue'["payment/orders"][o] = queue["payment/orders"][o]
        /\ queue'["order/catalog"][o] = queue["order/catalog"][o]
    BY Zenon, <1>6 DEF Subscriptions
  <2>8. ASSUME Abandoned(o) PROVE Flow(o)'
    <3>1. Only(o, {"orders.events"}, {"order/catalog", "catalog/orders", "payment/orders"})'
      BY Zenon, <1>6, <2>1, <2>8 DEF Abandoned, Only
    <3>2. Abandoned(o)'
      BY Zenon, <1>4, <2>6, <2>7, <2>8, <3>1 DEF Abandoned, New
    <3> QED  BY <3>2 DEF Flow
  <2>9. ASSUME Refunded(o) PROVE Flow(o)'
    <3>1. Only(o, {"orders.events", "payments.events"}, {"catalog/orders", "payment/orders"})'
      BY Zenon, <1>6, <2>1, <2>9 DEF Refunded, Only
    <3>2. Refunded(o)'
      BY <1>4, <2>1, <2>6, <2>7, <2>9, <3>1 DEF Refunded, NoHand, Authorized, Voided
    <3> QED  BY <3>2 DEF Flow
  <2> QED  BY <2>3, <2>8, <2>9
<1> QED  BY <1>7, <1>8 DEF CatalogConsumer

\* The consumers of the payment service.
LEMMA PaymentKeepsFlow ==
    ASSUME Typed, NEW o \in Orders, Flow(o), PaymentConsumer(o), faults' = 0
    PROVE  Flow(o)'
<1> USE DEF orderDb, catalogDb, paymentDb, requests, bus
<1>1. \A type : <<Ev(type)>> # <<>> /\ Head(<<Ev(type)>>).type = type
  BY Zenon, Single
<1>2. \A e : <<e>> # <<>> /\ Head(<<e>>) = e
  BY Zenon, Single
<1>3. /\ {"payment/catalog", "payment/orders", "payment/payments"} \subseteq Subscriptions
      /\ "payments.events" \in Topics
      /\ \A type \in {"PaymentAuthorized", "PaymentFailed", "PaymentCaptured", "PaymentVoided"} :
             Ev(type) \in Event /\ Ev(type).type = type
  BY EvTyped DEF Subscriptions, Topics, EventTypes
<1>4. \A kind : ~ Fault(kind)
  BY DEF Fault, Typed
<1>5. UNCHANGED <<status, reservation, hand>> /\ ledger[o] \in LedgerRow
  BY Zenon, PaymentStep DEF Typed
<1>6. ASSUME NEW g \in Subscriptions, queue[g][o] # <<>>, PaymentError(g, o) \/ PaymentOk(g, o)
      PROVE  /\ UNCHANGED <<ledger, outbox>> /\ queue'[g][o] = <<>>
             /\ \A h \in Subscriptions \ {g} : queue'[h][o] = queue[h][o]
  <2>1. UNCHANGED <<ledger, outbox>> /\ (Ack(g, o) \/ GiveUp(g, o))
    BY Zenon, <1>6 DEF PaymentError, PaymentOk
  <2> QED  BY Zenon, <1>6, <2>1, PopFlow DEF Popped
<1>7. ASSUME NEW g \in Subscriptions, queue[g][o] # <<>>, NEW row, NEW e \in Event,
             outbox["payments.events"][o] = <<>>, PaymentTx(g, o, row, e)
      PROVE  /\ ledger'[o] = row /\ queue'[g][o] = <<>>
             /\ \A h \in Subscriptions \ {g} : queue'[h][o] = queue[h][o]
             /\ outbox'["payments.events"][o] = <<e>>
             /\ \A u \in Topics \ {"payments.events"} : outbox'[u][o] = outbox[u][o]
  <2>1. Ack(g, o) /\ WriteOutbox("payments.events", o, e) /\ ledger'[o] = row
    BY Zenon, <1>7 DEF PaymentTx, Typed
  <2>2. Popped(o, g)
    BY Zenon, <1>7, <2>1, PopFlow
  <2>3. Posted(o, "payments.events", e)
    BY Zenon, <1>3, <1>7, <2>1, PostFlow
  <2> QED  BY <2>1, <2>2, <2>3 DEF Popped, Posted
<1>8. /\ New(o) => derive_payment_state(o) = "New" /\ ledger[o].auth # "posted"
      /\ Authorized(o) => derive_payment_state(o) = "Authorized"
  BY DEF New, Authorized, derive_payment_state, None
<1>9. CASE payment_inventory_reserved(o)
  <2> DEFINE g == "payment/catalog"
  <2>1. queue[g][o] # <<>>
    BY Zenon, <1>9 DEF payment_inventory_reserved, Pending
  <2>2. Payable(o)
    BY Zenon, <2>1, Whereabouts
  <2>3. outbox["payments.events"][o] = <<>> /\ New(o)
    BY <1>3, <2>2 DEF Payable, Only
  <2>4. CASE PaymentError(g, o)
    <3>1. /\ UNCHANGED <<ledger, outbox>> /\ queue'[g][o] = <<>>
          /\ \A h \in Subscriptions \ {g} : queue'[h][o] = queue[h][o]
      BY Zenon, <1>3, <1>6, <2>1, <2>4
    <3>2. Only(o, {}, {"order/catalog", "payment/catalog"})'
          /\ queue'["order/catalog"][o] = queue["order/catalog"][o]
      BY Zenon, <2>2, <3>1 DEF Payable, Only, Subscriptions
    <3>3. Payable(o)'
      BY Zenon, <1>5, <2>2, <3>1, <3>2 DEF Payable, OrderInformed, New
    <3> QED  BY Zenon, <3>3 DEF Flow
  <2>5. CASE PaymentTx(g, o, [ledger[o] EXCEPT !.auth = "posted"], Ev("PaymentAuthorized"))
    <3> DEFINE row == [ledger[o] EXCEPT !.auth = "posted"]
    <3>1. row.auth = "posted" /\ row.capture = None /\ row.void = None
      BY <1>5, <2>3 DEF LedgerRow, New
    <3>2. /\ ledger'[o] = row /\ queue'[g][o] = <<>>
          /\ \A h \in Subscriptions \ {g} : queue'[h][o] = queue[h][o]
          /\ outbox'["payments.events"][o] = <<Ev("PaymentAuthorized")>>
          /\ \A u \in Topics \ {"payments.events"} : outbox'[u][o] = outbox[u][o]
      BY Zenon, <1>3, <1>7, <2>1, <2>3, <2>5
    <3> HIDE DEF row
    <3>3. Only(o, {"payments.events"}, {"order/catalog"})'
          /\ queue'["order/catalog"][o] = queue["order/catalog"][o]
      BY Zenon, <2>2, <3>2 DEF Payable, Only, Subscriptions
    <3>4. OrderInformed(o)'
      BY Zenon, <1>5, <2>2, <3>3 DEF Payable, OrderInformed
    <3>5. Charged(o)'
      BY <1>5, <2>2, <3>1, <3>2, <3>3, <3>4 DEF Payable, Charged, Authorized
    <3> QED  BY <3>5 DEF Flow
  <2>6. CASE PaymentTx(g, o, ledger[o], Ev("PaymentFailed"))
    <3>1. /\ ledger'[o] = ledger[o] /\ queue'[g][o] = <<>>
          /\ \A h \in Subscriptions \ {g} : queue'[h][o] = queue[h][o]
          /\ outbox'["payments.events"][o] = <<Ev("PaymentFailed")>>
          /\ \A u \in Topics \ {"payments.events"} : outbox'[u][o] = outbox[u][o]
      BY Zenon, <1>3, <1>7, <2>1, <2>3, <2>6
    <3>2. Only(o, {"payments.events"}, {"order/catalog"})'
          /\ queue'["order/catalog"][o] = queue["order/catalog"][o]
      BY Zenon, <2>2, <3>1 DEF Payable, Only, Subscriptions
    <3>3. OrderInformed(o)'
      BY Zenon, <1>5, <2>2, <3>2 DEF Payable, OrderInformed
    <3>4. Declined(o)'
      BY Zenon, <1>5, <2>2, <3>1, <3>2, <3>3 DEF Payable, Declined, New
    <3> QED  BY Zenon, <3>4 DEF Flow
  <2> QED  BY <1>4, <1>8, <1>9, <2>3, <2>4, <2>5, <2>6 DEF payment_inventory_reserved
<1>10. ASSUME NEW g \in {"payment/orders", "payment/payments"}, Capturing(o), Only(o, {}, {g}),
              queue[g][o] # <<>>, NEW row, NEW e \in Event, PaymentTx(g, o, row, e),
              NoHand(o)
       PROVE  /\ ledger'[o] = row /\ outbox'["payments.events"][o] = <<e>>
              /\ Only(o, {"payments.events"}, {})' /\ NoHand(o)'
              /\ status'[o] = "Confirmed" /\ reservation'[o] = "reserved"
              /\ hand'["order/catalog"][o] = None
  <2>1. g \in Subscriptions /\ outbox["payments.events"][o] = <<>>
    BY Zenon, <1>3, <1>10 DEF Only
  <2>2. /\ ledger'[o] = row /\ queue'[g][o] = <<>>
        /\ \A h \in Subscriptions \ {g} : queue'[h][o] = queue[h][o]
        /\ outbox'["payments.events"][o] = <<e>>
        /\ \A u \in Topics \ {"payments.events"} : outbox'[u][o] = outbox[u][o]
    BY Zenon, <1>7, <1>10, <2>1
  <2>3. Only(o, {"payments.events"}, {})'
    BY <1>10, <2>2 DEF Only
  <2> QED  BY Zenon, <1>5, <1>10, <2>2, <2>3 DEF Capturing, NoHand
<1>11. ASSUME NEW g \in {"payment/orders", "payment/payments"}, Capturing(o), Only(o, {}, {g}),
              queue[g][o] # <<>>, NoHand(o), NEW e \in Event, PaymentTx(g, o, ledger[o], e),
              e.type \in {"PaymentCaptureRetryRequested", "PaymentFailed"}
       PROVE  Flow(o)'
  <2>1. /\ ledger'[o] = ledger[o] /\ outbox'["payments.events"][o] = <<e>>
        /\ Only(o, {"payments.events"}, {})' /\ NoHand(o)'
        /\ status'[o] = "Confirmed" /\ reservation'[o] = "reserved"
        /\ hand'["order/catalog"][o] = None
    BY Zenon, <1>10, <1>11
  <2>2. Capturing(o)'
    BY Zenon, <1>11, <2>1 DEF Capturing, Authorized
  <2> QED  BY <2>2 DEF Flow
<1>12. ASSUME NEW g \in {"payment/orders", "payment/payments"}, Capturing(o), Only(o, {}, {g}),
              queue[g][o] # <<>>, NoHand(o), NEW retry \in 0..(MaxCaptureRetries - 1),
              Capture(g, o, retry)
       PROVE  Flow(o)'
  <2> DEFINE row == [ledger[o] EXCEPT !.capture = "posted"]
             again == [type |-> "PaymentCaptureRetryRequested", retry |-> retry + 1]
  <2>1. again \in Event /\ again.type = "PaymentCaptureRetryRequested"
    BY SagaAssumption DEF Event, EventTypes
  <2>2. row.auth = "posted" /\ row.capture = "posted" /\ row.void = None
    BY <1>5, <1>12 DEF Capturing, Authorized, LedgerRow
  <2> HIDE DEF row, again
  <2>3. CASE PaymentTx(g, o, row, Ev("PaymentCaptured"))
    <3>1. /\ ledger'[o] = row /\ outbox'["payments.events"][o] = <<Ev("PaymentCaptured")>>
          /\ Only(o, {"payments.events"}, {})' /\ NoHand(o)'
          /\ status'[o] = "Confirmed" /\ reservation'[o] = "reserved"
      BY Zenon, <1>3, <1>10, <1>12, <2>3
    <3>2. Captured(o)'
      BY <2>2, <3>1 DEF Captured
    <3> QED  BY <3>2 DEF Flow
  <2>4. CASE PaymentTx(g, o, ledger[o], again)
    BY Zenon, <1>11, <1>12, <2>1, <2>4
  <2>5. CASE PaymentTx(g, o, ledger[o], Ev("PaymentFailed"))
    BY Zenon, <1>3, <1>11, <1>12, <2>5
  <2>6. derive_payment_state(o) = "Authorized"
    BY Zenon, <1>8, <1>12 DEF Capturing
  <2> QED  BY <1>12, <2>3, <2>4, <2>5, <2>6 DEF Capture, row, again
<1>13. CASE payment_order_confirmed(o)
  <2> DEFINE g == "payment/orders"
  <2>1. /\ queue[g][o] # <<>> /\ Head(queue[g][o]).type = "OrderConfirmed" /\ Capture(g, o, 0)
        /\ 0 \in 0..(MaxCaptureRetries - 1)
    BY <1>13, SagaAssumption DEF payment_order_confirmed, Pending
  <2>2. ~ Abandoned(o)
    BY Zenon, <1>1, <2>1 DEF Abandoned
  <2>3. ~ Refunded(o)
    BY Zenon, <1>1, <2>1 DEF Refunded, Undoing
  <2>4. Capturing(o)
    BY Zenon, <2>1, <2>2, <2>3, Whereabouts
  <2>5. Only(o, {}, {g}) /\ NoHand(o)
    BY Zenon, <1>3, <2>1, <2>4 DEF Capturing, Only
  <2> QED  BY Zenon, <1>12, <2>1, <2>4, <2>5
<1>14. CASE handle_capture_retry(o)
  <2> DEFINE g == "payment/payments"
             retry == Head(queue[g][o]).retry
  <2>1. queue[g][o] # <<>> /\ queue[g][o] \in Seq(Event)
    BY <1>3, <1>14 DEF handle_capture_retry, Pending, Typed
  <2>2. Head(queue[g][o]) \in Event
    BY <2>1
  <2>3. retry \in 0..MaxCaptureRetries
    BY Zenon, <2>2 DEF Event
  <2>4. Capturing(o)
    BY Zenon, <2>1, Whereabouts
  <2>5. Only(o, {}, {g}) /\ NoHand(o)
    BY Zenon, <1>3, <2>1, <2>4 DEF Capturing, Only
  <2>6. CASE PaymentTx(g, o, ledger[o], Ev("PaymentFailed"))
    BY Zenon, <1>3, <1>11, <2>1, <2>4, <2>5, <2>6
  <2>7. CASE ~ (retry >= MaxCaptureRetries) /\ Capture(g, o, retry)
    <3>1. retry \in 0..(MaxCaptureRetries - 1)
      BY <2>3, <2>7, SagaAssumption
    <3> QED  BY <1>12, <2>1, <2>4, <2>5, <2>7, <3>1
  <2> QED  BY Zenon, <1>14, <2>6, <2>7 DEF handle_capture_retry
<1>15. CASE payment_order_cancelled(o)
  <2> DEFINE g == "payment/orders"
             row == [ledger[o] EXCEPT !.auth = "discarded", !.void = "posted"]
  <2>1. queue[g][o] # <<>> /\ Head(queue[g][o]).type = "OrderCancelled"
    BY Zenon, <1>15 DEF payment_order_cancelled, Pending
  <2>2. ~ Capturing(o)
    BY Zenon, <1>1, <1>3, <2>1 DEF Capturing, Only
  <2>3. Abandoned(o) \/ Refunded(o)
    BY Zenon, <2>1, <2>2, Whereabouts
  <2>4. row.capture = ledger[o].capture /\ row.void = "posted"
    BY <1>5 DEF LedgerRow
  <2> HIDE DEF row
  <2>5. ASSUME Abandoned(o) PROVE Flow(o)'
    <3>1. PaymentOk(g, o)
      BY Zenon, <1>8, <1>15, <2>5 DEF payment_order_cancelled, Abandoned
    <3>2. /\ UNCHANGED <<ledger, outbox>> /\ queue'[g][o] = <<>>
          /\ \A h \in Subscriptions \ {g} : queue'[h][o] = queue[h][o]
      BY Zenon, <1>3, <1>6, <2>1, <3>1
    <3>3. /\ queue'["order/catalog"][o] = queue["order/catalog"][o]
          /\ queue'["catalog/orders"][o] = queue["catalog/orders"][o]
      BY Zenon, <3>2 DEF Subscriptions
    <3>4. Only(o, {"orders.events"}, {"order/catalog", "catalog/orders", "payment/orders"})'
      BY Zenon, <2>5, <3>2 DEF Abandoned, Only
    <3>5. Undoing(o)'
      BY Zenon, <1>5, <2>5, <3>2, <3>3 DEF Abandoned, Undoing
    <3>6. Abandoned(o)'
      BY Zenon, <1>5, <2>5, <3>2, <3>3, <3>4, <3>5 DEF Abandoned, New
    <3> QED  BY <3>6 DEF Flow
  <2>6. ASSUME Refunded(o) PROVE Flow(o)'
    <3>1. /\ Authorized(o) /\ outbox["payments.events"][o] = <<>>
          /\ outbox["orders.events"][o] = <<>>
      BY Zenon, <2>1, <2>6 DEF Refunded, Undoing
    <3>2. PaymentTx(g, o, row, Ev("PaymentVoided"))
      BY Zenon, <1>4, <1>8, <1>15, <3>1 DEF payment_order_cancelled, row
    <3>3. /\ ledger'[o] = row /\ queue'[g][o] = <<>>
          /\ \A h \in Subscriptions \ {g} : queue'[h][o] = queue[h][o]
          /\ outbox'["payments.events"][o] = <<Ev("PaymentVoided")>>
          /\ \A u \in Topics \ {"payments.events"} : outbox'[u][o] = outbox[u][o]
      BY Zenon, <1>3, <1>7, <2>1, <3>1, <3>2
    <3>4. /\ queue'["catalog/orders"][o] = queue["catalog/orders"][o]
          /\ outbox'["orders.events"][o] = <<>>
      BY Zenon, <3>1, <3>3 DEF Subscriptions, Topics
    <3>5. Only(o, {"orders.events", "payments.events"}, {"catalog/orders", "payment/orders"})'
      BY Zenon, <2>6, <3>3 DEF Refunded, Only
    <3>6. Undoing(o)'
      BY Zenon, <1>5, <2>6, <3>1, <3>3, <3>4 DEF Refunded, Undoing
    <3>7. Refunded(o)'
      BY Zenon, <1>5, <2>4, <2>6, <3>1, <3>3, <3>4, <3>5, <3>6 DEF Refunded, Authorized, Voided, NoHand
    <3> QED  BY <3>7 DEF Flow
  <2> QED  BY <2>3, <2>5, <2>6
<1> QED  BY <1>9, <1>13, <1>14, <1>15 DEF PaymentConsumer

\* Nothing changes for the other orders.
LEMMA SameFlow ==
    ASSUME NEW p \in Orders, Flow(p), Same(p)
    PROVE  Flow(p)'
<1>1. /\ status'[p] = status[p] /\ reservation'[p] = reservation[p] /\ ledger'[p] = ledger[p]
      /\ hand'["order/catalog"][p] = hand["order/catalog"][p]
      /\ hand'["order/payments"][p] = hand["order/payments"][p]
      /\ \A t \in Topics : outbox'[t][p] = outbox[t][p]
      /\ \A g \in Subscriptions : queue'[g][p] = queue[g][p]
  BY Zenon DEF Same, OrderSubscriptions
<1>2. /\ outbox'["orders.events"][p] = outbox["orders.events"][p]
      /\ outbox'["catalog.events"][p] = outbox["catalog.events"][p]
      /\ outbox'["payments.events"][p] = outbox["payments.events"][p]
  BY Zenon, <1>1 DEF Topics
<1>3. \A g \in {"order/catalog", "order/payments", "catalog/orders", "payment/catalog",
                "payment/orders", "payment/payments"} : queue'[g][p] = queue[g][p]
  BY Zenon, <1>1 DEF Subscriptions
<1>4. /\ New(p)' <=> New(p)
      /\ Authorized(p)' <=> Authorized(p)
      /\ Voided(p)' <=> Voided(p)
      /\ NoHand(p)' <=> NoHand(p)
  BY Zenon, <1>1 DEF New, Authorized, Voided, NoHand, OrderSubscriptions
<1>5. (OrderInformed(p)' <=> OrderInformed(p)) /\ (Undoing(p)' <=> Undoing(p))
  BY Zenon, <1>1, <1>2, <1>3 DEF OrderInformed, Undoing
<1> USE DEF Only
<1>6. NotCreated(p) \/ Created(p) \/ Reserved(p) => (NotCreated(p) \/ Created(p) \/ Reserved(p))'
  BY Zenon, <1>1, <1>2, <1>3, <1>4 DEF NotCreated, Created, Reserved
<1>7. OutOfStock(p) => OutOfStock(p)'
  BY Zenon, <1>1, <1>2, <1>3, <1>4 DEF OutOfStock
<1>8. Payable(p) => Payable(p)'
  BY Zenon, <1>1, <1>2, <1>3, <1>4, <1>5 DEF Payable
<1>9. Charged(p) => Charged(p)'
  BY Zenon, <1>1, <1>2, <1>3, <1>4, <1>5 DEF Charged
<1>10. Declined(p) => Declined(p)'
  BY Zenon, <1>1, <1>2, <1>3, <1>4, <1>5 DEF Declined
<1>11. Abandoned(p) => Abandoned(p)'
  BY Zenon, <1>1, <1>2, <1>3, <1>4, <1>5 DEF Abandoned
<1>12. Capturing(p) => Capturing(p)'
  BY Zenon, <1>1, <1>2, <1>3, <1>4 DEF Capturing
<1>13. Captured(p) => Captured(p)'
  BY Zenon, <1>1, <1>2, <1>3, <1>4 DEF Captured
<1>14. Refunded(p) => Refunded(p)'
  BY Zenon, <1>1, <1>2, <1>3, <1>4, <1>5 DEF Refunded
<1> QED
  BY Zenon, <1>6, <1>7, <1>8, <1>9, <1>10, <1>11, <1>12, <1>13, <1>14 DEF Flow

\* Without a fault, every saga that is left to itself follows Flow.
THEOREM FlowInvariant == Spec => []FlowInv
<1>1. Init => FlowInv
  <2> SUFFICES ASSUME Init, NEW o \in Orders PROVE o \notin cancelling /\ Flow(o)
    BY DEF FlowInv
  <2>1. /\ \A t \in Topics : outbox[t][o] = <<>>
        /\ \A g \in Subscriptions : queue[g][o] = <<>>
        /\ \A g \in OrderSubscriptions : hand[g][o] = None
        /\ status[o] = None /\ reservation[o] = None
        /\ ledger[o] = [auth |-> None, capture |-> None, void |-> None]
    BY Zenon DEF Init
  <2>2. NotCreated(o)
    BY <2>1 DEF NotCreated, Only, NoHand, New
  <2> QED  BY <2>2 DEF Init, Flow
<1>2. Typed /\ FlowInv /\ [Next]_vars => FlowInv'
  <2> SUFFICES ASSUME Typed, FlowInv, [Next]_vars, faults' = 0, NEW p \in Orders
               PROVE  /\ p \in cancelling' => cancels'[p] # 0
                      /\ cancels'[p] = 0 /\ p \notin timedOut' => Flow(p)'
    BY Zenon DEF FlowInv, Undisturbed
  <2> DEFINE Goal == /\ p \in cancelling' => cancels'[p] # 0
                     /\ cancels'[p] = 0 /\ p \notin timedOut' => Flow(p)'
  <2>1. ASSUME Same(p), faults = 0 PROVE Goal
    BY <2>1, SameFlow DEF FlowInv, Undisturbed, Same
  <2>2. CASE Next
    <3>1. PICK o \in Orders : Step(o)
      BY <2>2 DEF Next, Step
    <3>2. Framed(o) /\ faults = 0
      BY Zenon, <3>1, StepFramed DEF Framed
    <3>3. CASE p # o
      BY Zenon, <2>1, <3>2, <3>3 DEF Framed
    <3>4. CASE p = o
      <4> USE DEF orderDb, catalogDb, paymentDb, requests, bus
      <4>1. (o \in cancelling => cancels[o] # 0) /\ (cancels[o] = 0 /\ o \notin timedOut => Flow(o))
        BY <3>2 DEF FlowInv, Undisturbed
      <4>2. ASSUME UNCHANGED <<cancelling, cancels, timedOut>>,
                   Flow(o) => Flow(o)'
            PROVE  Goal
        BY <3>4, <4>1, <4>2
      <4>3. CASE create_order(o)
        BY Zenon, <4>2, <4>3, CreateFlow DEF create_order, Flow
      <4>4. CASE cancel_order_check(o)
        <5>1. cancels[o] \in Nat /\ cancels'[o] = cancels[o] + 1
          BY <4>4 DEF cancel_order_check, Typed
        <5>2. cancels'[o] # 0
          BY <5>1
        <5> QED  BY <3>4, <5>2
      <4>5. CASE cancel_order(o)
        <5>1. o \in cancelling /\ cancels' = cancels
          BY <4>5 DEF cancel_order
        <5> QED  BY <3>4, <4>1, <5>1
      <4>6. CASE OrderConsumer(o)
        <5>1. UNCHANGED <<cancelling, cancels, timedOut>>
          BY <4>6 DEF OrderConsumer, read_order, reject_order_event, order_inventory_reserved,
                      order_inventory_reservation_failed, order_payment_authorized,
                      cancel_order_on_payment_failure, Update
        <5> QED  BY Zenon, <4>2, <4>6, <5>1, OrderKeepsFlow
      <4>7. CASE CatalogConsumer(o)
        <5>1. UNCHANGED <<cancelling, cancels, timedOut>>
          BY Zenon, <4>7 DEF CatalogConsumer, catalog_order_created, catalog_order_cancelled
        <5> QED  BY <4>2, <4>7, <5>1, CatalogKeepsFlow
      <4>8. CASE PaymentConsumer(o)
        <5>1. UNCHANGED <<cancelling, cancels, timedOut>>
          BY <4>8, PaymentStep
        <5> QED  BY <4>2, <4>8, <5>1, PaymentKeepsFlow
      <4>9. CASE payment_timed_out(o)
        <5>1. o \in timedOut' /\ UNCHANGED <<cancelling, cancels>>
          BY <4>9 DEF payment_timed_out
        <5> QED  BY Zenon, <3>4, <4>1, <5>1
      <4>10. ASSUME NEW t \in Topics, relay(t, o) PROVE Goal
        <5>1. UNCHANGED <<cancelling, cancels, timedOut>>
          BY Zenon, <4>10 DEF relay
        <5> QED  BY <4>2, <4>10, <5>1, RelayKeepsFlow
      <4>11. ASSUME NEW g \in Subscriptions, skip(g, o) PROVE FALSE
        BY <4>11 DEF skip, Fault, Typed
      <4>12. CASE \E t \in Topics : relay(t, o)
        BY <4>10, <4>12
      <4>13. CASE \E g \in Subscriptions : skip(g, o)
        BY <4>11, <4>13
      <4> QED
        BY Zenon, <3>1, <4>3, <4>4, <4>5, <4>6, <4>7, <4>8, <4>9, <4>12, <4>13 DEF Step
    <3> QED  BY <3>3, <3>4
  <2>3. CASE UNCHANGED vars
    <3>1. Same(p) /\ faults = 0
      BY <2>3 DEF vars, orderDb, catalogDb, paymentDb, requests, bus, Same
    <3> QED  BY Zenon, <2>1, <3>1
  <2> QED  BY <2>2, <2>3
<1> QED  BY <1>1, <1>2, MoneyInvariant, PTL DEF Spec

\* A saga that is left to itself, on a bus that loses, repeats and reorders
\* nothing, comes to rest with the three databases in agreement: for any number of
\* orders that compete for the stock.
THEOREM SagaConsistent == Spec => [](faults = 0 => ConsistentOutcome)
<1>1. FlowInv => (faults = 0 => ConsistentOutcome)
  <2> SUFFICES ASSUME NEW o \in Orders, Flow(o), Quiescent(o)
               PROVE  /\ status[o] = "Confirmed" =>
                             reservation[o] = "reserved" /\ derive_payment_state(o) = "Captured"
                      /\ status[o] = "Cancelled" =>
                             reservation[o] # "reserved" /\ derive_payment_state(o) \in {"New", "Voided"}
    BY DEF FlowInv, ConsistentOutcome
  <2>1. \A e : <<e>> # <<>>
    BY Zenon, Single
  <2>2. /\ outbox["orders.events"][o] = <<>> /\ outbox["payments.events"][o] = <<>>
        /\ \A g \in Subscriptions : queue[g][o] = <<>>
    BY DEF Quiescent, Topics
  <2>3. /\ queue["payment/orders"][o] = <<>> /\ queue["payment/payments"][o] = <<>>
        /\ queue["order/payments"][o] = <<>> /\ queue["catalog/orders"][o] = <<>>
    BY Zenon, <2>2 DEF Subscriptions
  <2>4. ~ Capturing(o)
    BY Zenon, <2>1, <2>2, <2>3 DEF Capturing
  <2>5. status[o] = "Confirmed" => Captured(o)
    BY Zenon, <2>4 DEF Flow, NotCreated, None, Created, OutOfStock, Reserved, Payable, Charged, Declined,
                OrderInformed, Abandoned, Refunded
  <2>6. Captured(o) => reservation[o] = "reserved" /\ derive_payment_state(o) = "Captured"
    BY Zenon DEF Captured, derive_payment_state, None
  <2>7. status[o] = "Cancelled" => OutOfStock(o) \/ Abandoned(o) \/ Refunded(o)
    BY Zenon, <2>4 DEF Flow, NotCreated, None, Created, Reserved, Payable, Charged, Declined,
                OrderInformed, Captured
  <2>8. New(o) => derive_payment_state(o) = "New"
    BY DEF New, derive_payment_state, None
  <2>9. Voided(o) => derive_payment_state(o) = "Voided"
    BY DEF Voided, derive_payment_state
  <2>10. OutOfStock(o) => reservation[o] # "reserved" /\ New(o)
    BY DEF OutOfStock, None
  <2>11. Undoing(o) => reservation[o] # "reserved"
    BY Zenon, <2>1, <2>2, <2>3 DEF Undoing
  <2>12. Refunded(o) => Voided(o) /\ Undoing(o)
    BY Zenon, <2>1, <2>2, <2>3 DEF Refunded
  <2>13. Abandoned(o) => New(o) /\ Undoing(o)
    BY DEF Abandoned
  <2> QED  BY Zenon, <2>5, <2>6, <2>7, <2>8, <2>9, <2>10, <2>11, <2>12, <2>13
<1> QED  BY <1>1, FlowInvariant, PTL

=============================================================================
