-------------------------- MODULE OrderSagaProofs --------------------------
(***************************************************************************)
(* For any orders, stock, retries, instances and faults: the money follows *)
(* the goods and only a stale handler revives a cancelled order.           *)
(***************************************************************************)
EXTENDS OrderSaga, TLAPS

\* The types that the proofs need.
Typed ==
    /\ status \in [Orders -> OrderStatus \cup {None}]
    /\ reservation \in [Orders -> {None, "reserved", "released"}]
    /\ ledger \in [Orders -> LedgerRow]
    /\ hand \in [OrderSubscriptions -> [Orders -> OrderStatus \cup {None}]]
    /\ cancels \in [Orders -> Nat]
    /\ outbox \in [Topics -> [Orders -> Seq(Event)]]
    /\ queue \in [Subscriptions -> [Orders -> Seq(Event)]]
    /\ sent \in [Orders -> SUBSET EventTypes]
    /\ faults \in Nat

\* What is on its way was written to an outbox before.
InTransitIsSent(o) ==
    /\ \A t \in Topics : \A i \in DOMAIN outbox[t][o] : outbox[t][o][i].type \in sent[o]
    /\ \A g \in Subscriptions : \A i \in DOMAIN queue[g][o] : queue[g][o][i].type \in sent[o]

\* What an event that was ever written says about the databases.
EventsTellTruth(o) ==
    /\ "InventoryReserved" \in sent[o] => reservation[o] # None
    /\ "PaymentAuthorized" \in sent[o] => ledger[o].auth # None
    /\ "OrderConfirmed" \in sent[o] => ledger[o].auth # None
    /\ "PaymentCaptureRetryRequested" \in sent[o] => "OrderConfirmed" \in sent[o]

\* The rows of one ledger: an authorization on reserved goods, discarded exactly by
\* a void, and not captured then.
LedgerSound(o) ==
    /\ ledger[o].auth # None => reservation[o] # None
    /\ ledger[o].capture = "posted" => ledger[o].auth = "posted" /\ "OrderConfirmed" \in sent[o]
    /\ ledger[o].void = "posted" => "OrderCancelled" \in sent[o]
    /\ ledger[o].void = "posted" <=> ledger[o].auth = "discarded"

MoneyInv == \A o \in Orders : InTransitIsSent(o) /\ EventsTellTruth(o) /\ LedgerSound(o)

\* No handler has read a cancelled order: transition_to leads nowhere from there.
HandsOff == \A g \in OrderSubscriptions : \A o \in Orders : hand[g][o] # "Cancelled"

-----------------------------------------------------------------------------
(* The bus *)

\* The elements of two sequences put together.
LEMMA ConcatElements ==
    ASSUME NEW S, NEW a \in Seq(S), NEW b \in Seq(S)
    PROVE  /\ a \o b \in Seq(S) /\ Len(a \o b) = Len(a) + Len(b)
           /\ \A k \in 1..(Len(a) + Len(b)) : (a \o b)[k] = IF k <= Len(a) THEN a[k] ELSE b[k - Len(a)]
OBVIOUS

\* RemoveRow of the relay takes one event out and adds none.
LEMMA RemoveRowKeeps ==
    ASSUME NEW S, NEW s \in Seq(S), NEW i \in DOMAIN s
    PROVE  /\ RemoveRow(s, i) \in Seq(S)
           /\ \A k \in DOMAIN RemoveRow(s, i) : \E m \in DOMAIN s : RemoveRow(s, i)[k] = s[m]
           /\ Len(s) = 1 => RemoveRow(s, i) = <<>>
<1> DEFINE a == SubSeq(s, 1, i - 1)
           b == SubSeq(s, i + 1, Len(s))
<1>1. i \in 1..Len(s) /\ Len(s) \in Nat
  OBVIOUS
<1>2. a \in Seq(S) /\ Len(a) = i - 1 /\ \A k \in 1..(i - 1) : a[k] = s[k]
  BY <1>1
<1>3. /\ b \in Seq(S) /\ Len(b) = Len(s) - i
      /\ \A k \in 1..(Len(s) - i) : b[k] = s[i + k]
  BY <1>1
<1>4. RemoveRow(s, i) = a \o b
  BY DEF RemoveRow
<1> HIDE DEF a, b
<1>5. /\ a \o b \in Seq(S) /\ Len(a \o b) = Len(s) - 1
      /\ \A k \in 1..(Len(s) - 1) : (a \o b)[k] = IF k <= i - 1 THEN a[k] ELSE b[k - (i - 1)]
  <2>1. Len(a) = i - 1 /\ Len(a) + Len(b) = Len(s) - 1
    BY <1>1, <1>2, <1>3
  <2>2. /\ a \o b \in Seq(S) /\ Len(a \o b) = Len(a) + Len(b)
        /\ \A k \in 1..(Len(a) + Len(b)) : (a \o b)[k] = IF k <= Len(a) THEN a[k] ELSE b[k - Len(a)]
    BY <1>2, <1>3, ConcatElements, Zenon
  <2> QED  BY <2>1, <2>2
<1>6. \A k \in 1..(Len(s) - 1) : (a \o b)[k] = IF k <= i - 1 THEN s[k] ELSE s[k + 1]
  <2> TAKE k \in 1..(Len(s) - 1)
  <2>1. CASE k <= i - 1
    <3>1. k \in 1..(i - 1)
      BY <1>1, <2>1
    <3> QED  BY <1>2, <1>5, <2>1, <3>1
  <2>2. CASE ~ (k <= i - 1)
    <3>1. k - (i - 1) \in 1..(Len(s) - i) /\ i + (k - (i - 1)) = k + 1
      BY <1>1, <2>2
    <3>2. b[k - (i - 1)] = s[i + (k - (i - 1))]
      BY <1>3, <3>1
    <3> QED  BY <1>5, <2>2, <3>1, <3>2
  <2> QED  BY Zenon, <2>1, <2>2
<1>7. DOMAIN (a \o b) = 1..(Len(s) - 1) /\ DOMAIN s = 1..Len(s)
  BY <1>5
<1>8. \A k \in 1..(Len(s) - 1) : \E m \in 1..Len(s) : (a \o b)[k] = s[m]
  <2> TAKE k \in 1..(Len(s) - 1)
  <2>1. k \in 1..Len(s) /\ k + 1 \in 1..Len(s)
    BY <1>1
  <2> QED  BY Zenon, <1>6, <2>1
<1>9. Len(s) = 1 => a \o b = <<>>
  BY <1>5
<1> QED  BY Zenon, <1>4, <1>5, <1>7, <1>8, <1>9

\* The elements of a queue after Tail and after Append.
LEMMA TailElements ==
    ASSUME NEW S, NEW s \in Seq(S), s # <<>>, NEW i \in DOMAIN Tail(s)
    PROVE  i + 1 \in DOMAIN s /\ Tail(s)[i] = s[i + 1]
OBVIOUS

\* A publication adds its event and no other.
LEMMA AppendElements ==
    ASSUME NEW S, NEW s \in Seq(S), NEW e \in S, NEW i \in DOMAIN Append(s, e)
    PROVE  \/ Append(s, e)[i] = e
           \/ i \in DOMAIN s /\ Append(s, e)[i] = s[i]
<1>1. CASE i = Len(s) + 1
  BY <1>1
<1>2. CASE i # Len(s) + 1
  BY <1>2
<1> QED  BY <1>1, <1>2

\* An outbox row of order o is appended and remembered; nothing else changes.
LEMMA WriteOutboxEffect ==
    ASSUME Typed, NEW t \in Topics, NEW o \in Orders, NEW e \in Event, WriteOutbox(t, o, e)
    PROVE  /\ outbox' \in [Topics -> [Orders -> Seq(Event)]]
           /\ sent' \in [Orders -> SUBSET EventTypes]
           /\ outbox'[t][o] = Append(outbox[t][o], e)
           /\ \A u \in Topics, p \in Orders : u # t \/ p # o => outbox'[u][p] = outbox[u][p]
           /\ sent'[o] = sent[o] \cup {e.type}
           /\ \A p \in Orders \ {o} : sent'[p] = sent[p]
<1>1. e.type \in EventTypes
  BY DEF Event
<1>2. sent' \in [Orders -> SUBSET EventTypes] /\ sent'[o] = sent[o] \cup {e.type}
      /\ \A p \in Orders \ {o} : sent'[p] = sent[p]
  BY <1>1 DEF WriteOutbox, Typed
<1>3. Append(outbox[t][o], e) \in Seq(Event)
  BY DEF Typed
<1>4. /\ outbox' \in [Topics -> [Orders -> Seq(Event)]]
      /\ outbox'[t][o] = Append(outbox[t][o], e)
      /\ \A u \in Topics, p \in Orders : u # t \/ p # o => outbox'[u][p] = outbox[u][p]
  BY <1>3 DEF WriteOutbox, Typed
<1> QED  BY <1>2, <1>4

\* The event at the head of a subscription is done with.
LEMMA PopEffect ==
    ASSUME Typed, NEW g \in Subscriptions, NEW o \in Orders, queue[g][o] # <<>>, Pop(g, o)
    PROVE  /\ queue' \in [Subscriptions -> [Orders -> Seq(Event)]]
           /\ queue'[g][o] = Tail(queue[g][o])
           /\ \A h \in Subscriptions, p \in Orders : h # g \/ p # o => queue'[h][p] = queue[h][p]
<1>1. Tail(queue[g][o]) \in Seq(Event)
  BY DEF Typed
<1> QED  BY <1>1 DEF Pop, Typed

\* Ack and GiveUp: the event is done with, or stays by a fault.
LEMMA DoneWithEffect ==
    ASSUME Typed, NEW g \in Subscriptions, NEW o \in Orders, queue[g][o] # <<>>,
           Ack(g, o) \/ GiveUp(g, o)
    PROVE  /\ queue' \in [Subscriptions -> [Orders -> Seq(Event)]]
           /\ faults' \in Nat /\ (faults' = 0 => faults = 0)
           /\ \/ queue'[g][o] = Tail(queue[g][o])
              \/ queue'[g][o] = queue[g][o] /\ faults' # 0
           /\ \A h \in Subscriptions, p \in Orders : h # g \/ p # o => queue'[h][p] = queue[h][p]
<1>1. CASE Pop(g, o) /\ UNCHANGED faults
  BY <1>1, PopEffect DEF Typed
<1>2. CASE (\E kind \in FaultKinds : Fault(kind)) /\ UNCHANGED queue
  BY <1>2 DEF Fault, Typed
<1> QED  BY <1>1, <1>2 DEF Ack, GiveUp, Fault

\* A published event is appended for the subscriptions that handle it.
LEMMA DeliverEffect ==
    ASSUME Typed, NEW t \in Topics, NEW o \in Orders, NEW e \in Event, Deliver(t, o, e)
    PROVE  /\ queue' \in [Subscriptions -> [Orders -> Seq(Event)]]
           /\ \A g \in Subscriptions :
                 queue'[g][o] = IF TopicOf(g) = t /\ e.type \in Dispatch(g)
                                THEN Append(queue[g][o], e) ELSE queue[g][o]
           /\ \A g \in Subscriptions, p \in Orders : p # o => queue'[g][p] = queue[g][p]
<1>1. \A g \in Subscriptions : Append(queue[g][o], e) \in Seq(Event)
  BY DEF Typed
<1>2. \A g \in Subscriptions : queue'[g] = IF TopicOf(g) = t /\ e.type \in Dispatch(g)
                THEN [queue[g] EXCEPT ![o] = Append(@, e)]
                ELSE queue[g]
  BY DEF Deliver
<1>3. ASSUME NEW g \in Subscriptions PROVE queue'[g] \in [Orders -> Seq(Event)]
  <2>1. queue[g] \in [Orders -> Seq(Event)] /\ Append(queue[g][o], e) \in Seq(Event)
    BY <1>1 DEF Typed
  <2>2. [queue[g] EXCEPT ![o] = Append(@, e)] \in [Orders -> Seq(Event)]
    BY <2>1
  <2> QED  BY Zenon, <1>2, <2>1, <2>2
<1>4. queue' \in [Subscriptions -> [Orders -> Seq(Event)]]
  BY <1>3 DEF Deliver
<1> QED  BY Zenon, <1>2, <1>4 DEF Typed

\* The types of an event, and of its copy at the head of a queue.
LEMMA EvTyped ==
    \A type \in EventTypes : Ev(type) \in Event /\ Ev(type).type = type
BY SagaAssumption DEF Ev, Event

-----------------------------------------------------------------------------
(* A step is about one order *)

Step(o) ==
    \/ create_order(o)
    \/ cancel_order_check(o)
    \/ cancel_order(o)
    \/ OrderConsumer(o)
    \/ CatalogConsumer(o)
    \/ PaymentConsumer(o)
    \/ payment_timed_out(o)
    \/ \E t \in Topics : relay(t, o)
    \/ \E g \in Subscriptions : skip(g, o)

\* Nothing of order p changes.
Same(p) ==
    /\ status'[p] = status[p] /\ reservation'[p] = reservation[p] /\ ledger'[p] = ledger[p]
    /\ \A g \in OrderSubscriptions : hand'[g][p] = hand[g][p]
    /\ p \in cancelling' <=> p \in cancelling
    /\ cancels'[p] = cancels[p]
    /\ p \in timedOut' <=> p \in timedOut
    /\ \A t \in Topics : outbox'[t][p] = outbox[t][p]
    /\ \A g \in Subscriptions : queue'[g][p] = queue[g][p]
    /\ sent'[p] = sent[p]

\* What every step on order o has in common.
Framed(o) ==
    /\ Typed'
    /\ \A p \in Orders \ {o} : Same(p)
    /\ sent[o] \subseteq sent'[o]
    /\ faults' = 0 => faults = 0

\* The HTTP API of the order service.
LEMMA ApiFramed ==
    ASSUME Typed, NEW o \in Orders, create_order(o) \/ cancel_order_check(o) \/ cancel_order(o)
    PROVE  Framed(o)
<1> USE DEF orderDb, catalogDb, paymentDb, requests, bus
<1>1. /\ "orders.events" \in Topics
      /\ Ev("OrderCreated") \in Event /\ Ev("OrderCancelled") \in Event
  BY EvTyped DEF Topics, EventTypes
<1>2. ASSUME NEW e \in Event, WriteOutbox("orders.events", o, e)
      PROVE  /\ outbox' \in [Topics -> [Orders -> Seq(Event)]]
             /\ sent' \in [Orders -> SUBSET EventTypes]
             /\ sent[o] \subseteq sent'[o]
             /\ \A p \in Orders \ {o} : /\ sent'[p] = sent[p]
                                        /\ \A t \in Topics : outbox'[t][p] = outbox[t][p]
  <2>1. /\ outbox' \in [Topics -> [Orders -> Seq(Event)]]
        /\ sent' \in [Orders -> SUBSET EventTypes]
        /\ \A u \in Topics, p \in Orders : u # "orders.events" \/ p # o => outbox'[u][p] = outbox[u][p]
        /\ sent'[o] = sent[o] \cup {e.type}
        /\ \A p \in Orders \ {o} : sent'[p] = sent[p]
    BY <1>1, <1>2, WriteOutboxEffect
  <2> QED  BY <2>1
<1>3. CASE create_order(o)
  <2>1. WriteOutbox("orders.events", o, Ev("OrderCreated"))
    BY <1>3 DEF create_order
  <2>2. status' \in [Orders -> OrderStatus \cup {None}]
    BY <1>3 DEF create_order, Typed, OrderStatus
  <2>3. Typed'
    BY <1>1, <1>2, <1>3, <2>1, <2>2 DEF create_order, Typed
  <2>4. \A p \in Orders \ {o} : Same(p)
    BY <1>1, <1>2, <1>3, <2>1 DEF create_order, Typed, Same
  <2> QED  BY <1>1, <1>2, <1>3, <2>1, <2>3, <2>4 DEF create_order, Framed
<1>4. CASE cancel_order_check(o)
  BY <1>4 DEF cancel_order_check, Framed, Same, Typed
<1>5. CASE cancel_order(o)
  <2>1. WriteOutbox("orders.events", o, Ev("OrderCancelled"))
    BY <1>5 DEF cancel_order
  <2>2. status' \in [Orders -> OrderStatus \cup {None}]
    BY <1>5 DEF cancel_order, Typed, OrderStatus
  <2>3. Typed'
    BY <1>1, <1>2, <1>5, <2>1, <2>2 DEF cancel_order, Typed
  <2>4. \A p \in Orders \ {o} : Same(p)
    BY <1>1, <1>2, <1>5, <2>1 DEF cancel_order, Typed, Same
  <2> QED  BY <1>1, <1>2, <1>5, <2>1, <2>3, <2>4 DEF cancel_order, Framed
<1> QED  BY <1>3, <1>4, <1>5

\* The bus: publication, a skipped event and the external monitor.
LEMMA BusFramed ==
    ASSUME Typed, NEW o \in Orders,
           \/ \E t \in Topics : relay(t, o)
           \/ \E g \in Subscriptions : skip(g, o)
           \/ payment_timed_out(o)
    PROVE  Framed(o)
<1> USE DEF orderDb, catalogDb, paymentDb, requests, bus
<1>1. ASSUME NEW t \in Topics, relay(t, o) PROVE Framed(o)
  <2>1. PICK i \in DOMAIN outbox[t][o] :
          /\ outbox' = [outbox EXCEPT ![t][o] = RemoveRow(@, i)]
          /\ \/ (UNCHANGED faults \/ Fault("overtake")) /\ Deliver(t, o, outbox[t][o][i])
             \/ Fault("lost") /\ UNCHANGED queue
    BY Zenon, <1>1 DEF relay
  <2>2. outbox[t][o] \in Seq(Event) /\ outbox[t][o][i] \in Event
    BY DEF Typed
  <2>3. RemoveRow(outbox[t][o], i) \in Seq(Event)
    BY <2>2, RemoveRowKeeps
  <2>4. /\ outbox' \in [Topics -> [Orders -> Seq(Event)]]
        /\ \A u \in Topics, p \in Orders : p # o => outbox'[u][p] = outbox[u][p]
    BY <2>1, <2>3 DEF Typed
  <2>5. /\ queue' \in [Subscriptions -> [Orders -> Seq(Event)]]
        /\ \A g \in Subscriptions, p \in Orders : p # o => queue'[g][p] = queue[g][p]
    <3>1. CASE Deliver(t, o, outbox[t][o][i])
      BY <2>2, <3>1, DeliverEffect
    <3>2. CASE UNCHANGED queue
      BY <3>2 DEF Typed
    <3> QED  BY <2>1, <3>1, <3>2
  <2>6. faults' \in Nat /\ (faults' = 0 => faults = 0)
    BY <2>1 DEF Fault, Typed
  <2>7. Typed'
    BY <1>1, <2>4, <2>5, <2>6 DEF relay, Typed
  <2> QED  BY <1>1, <2>4, <2>5, <2>6, <2>7 DEF relay, Framed, Same
<1>2. ASSUME NEW g \in Subscriptions, skip(g, o) PROVE Framed(o)
  <2>1. /\ queue' \in [Subscriptions -> [Orders -> Seq(Event)]]
        /\ \A h \in Subscriptions, p \in Orders : p # o => queue'[h][p] = queue[h][p]
    <3>1. queue[g][o] # <<>> /\ Pop(g, o)
      BY <1>2 DEF skip, Ready
    <3> QED  BY <3>1, PopEffect
  <2>2. faults' \in Nat /\ (faults' = 0 => faults = 0)
    BY <1>2 DEF skip, Fault, Typed
  <2>3. Typed'
    BY <1>2, <2>1, <2>2 DEF skip, Typed
  <2> QED  BY <1>2, <2>1, <2>2, <2>3 DEF skip, Framed, Same
<1>3. CASE payment_timed_out(o)
  <2>1. "payments.events" \in Topics /\ "PaymentTimedOut" \in EventTypes
    BY DEF Topics, EventTypes
  <2>2. /\ queue' \in [Subscriptions -> [Orders -> Seq(Event)]]
        /\ \A g \in Subscriptions, p \in Orders : p # o => queue'[g][p] = queue[g][p]
    BY <1>3, <2>1, EvTyped, DeliverEffect DEF payment_timed_out
  <2>3. /\ sent' \in [Orders -> SUBSET EventTypes] /\ sent[o] \subseteq sent'[o]
        /\ \A p \in Orders \ {o} : sent'[p] = sent[p]
    BY <1>3, <2>1 DEF payment_timed_out, Typed
  <2>4. Typed'
    BY <1>3, <2>2, <2>3 DEF payment_timed_out, Typed
  <2> QED  BY <1>3, <2>2, <2>3, <2>4 DEF payment_timed_out, Framed, Same
<1> QED  BY <1>1, <1>2, <1>3

\* An outbox row, or none, on the transaction of a handler.
Writes(o) == (\E t \in Topics, e \in Event : WriteOutbox(t, o, e)) \/ NoEvent

\* It concerns no other order.
LEMMA WritesFramed ==
    ASSUME Typed, NEW o \in Orders, Writes(o)
    PROVE  /\ outbox' \in [Topics -> [Orders -> Seq(Event)]]
           /\ sent' \in [Orders -> SUBSET EventTypes]
           /\ sent[o] \subseteq sent'[o]
           /\ \A p \in Orders \ {o} : /\ sent'[p] = sent[p]
                                      /\ \A t \in Topics : outbox'[t][p] = outbox[t][p]
<1>1. ASSUME NEW t \in Topics, NEW e \in Event, WriteOutbox(t, o, e)
      PROVE  /\ outbox' \in [Topics -> [Orders -> Seq(Event)]]
             /\ sent' \in [Orders -> SUBSET EventTypes]
             /\ sent'[o] = sent[o] \cup {e.type}
             /\ \A p \in Orders \ {o} : /\ sent'[p] = sent[p]
                                        /\ \A u \in Topics : outbox'[u][p] = outbox[u][p]
  BY <1>1, WriteOutboxEffect
<1>2. CASE NoEvent
  BY <1>2 DEF NoEvent, Typed
<1> QED  BY <1>1, <1>2 DEF Writes

\* The event at the head of a subscription is handled, given up, or skipped.
Handled(o) ==
    \E g \in Subscriptions :
        /\ queue[g][o] # <<>>
        /\ \/ Ack(g, o)
           \/ GiveUp(g, o)
           \/ (\E kind \in FaultKinds : Fault(kind)) /\ Pop(g, o)

\* Nor does that concern another order.
LEMMA HandledFramed ==
    ASSUME Typed, NEW o \in Orders, Handled(o)
    PROVE  /\ queue' \in [Subscriptions -> [Orders -> Seq(Event)]]
           /\ faults' \in Nat /\ (faults' = 0 => faults = 0)
           /\ \A g \in Subscriptions, p \in Orders : p # o => queue'[g][p] = queue[g][p]
<1>1. PICK g \in Subscriptions :
        /\ queue[g][o] # <<>>
        /\ \/ Ack(g, o)
           \/ GiveUp(g, o)
           \/ (\E kind \in FaultKinds : Fault(kind)) /\ Pop(g, o)
  BY DEF Handled
<1>2. CASE Ack(g, o) \/ GiveUp(g, o)
  BY <1>1, <1>2, DoneWithEffect
<1>3. CASE (\E kind \in FaultKinds : Fault(kind)) /\ Pop(g, o)
  <2>1. faults' \in Nat /\ faults' # 0
    BY <1>3 DEF Fault, Typed
  <2> QED  BY <1>1, <1>3, <2>1, PopEffect
<1> QED  BY <1>1, <1>2, <1>3

\* The ways to be done with the event at the head of subscription g.
LEMMA HandledBy ==
    ASSUME NEW o \in Orders, NEW g \in Subscriptions, queue[g][o] # <<>>,
           \/ Ack(g, o)
           \/ GiveUp(g, o)
           \/ (\E kind \in FaultKinds : Fault(kind)) /\ Pop(g, o)
    PROVE  Handled(o)
BY Zenon DEF Handled

\* A handler's transaction, given what it does to its own database.
LEMMA HandlerFramed ==
    ASSUME Typed, NEW o \in Orders, Writes(o), Handled(o),
           UNCHANGED <<cancelling, cancels, timedOut>>,
           status' \in [Orders -> OrderStatus \cup {None}],
           \A p \in Orders \ {o} : status'[p] = status[p],
           reservation' \in [Orders -> {None, "reserved", "released"}],
           \A p \in Orders \ {o} : reservation'[p] = reservation[p],
           ledger' \in [Orders -> LedgerRow],
           \A p \in Orders \ {o} : ledger'[p] = ledger[p],
           hand' \in [OrderSubscriptions -> [Orders -> OrderStatus \cup {None}]],
           \A g \in OrderSubscriptions, p \in Orders : p # o => hand'[g][p] = hand[g][p]
    PROVE  Framed(o)
<1>1. /\ outbox' \in [Topics -> [Orders -> Seq(Event)]]
      /\ sent' \in [Orders -> SUBSET EventTypes]
      /\ sent[o] \subseteq sent'[o]
      /\ \A p \in Orders \ {o} : /\ sent'[p] = sent[p]
                                 /\ \A t \in Topics : outbox'[t][p] = outbox[t][p]
  BY WritesFramed
<1>2. /\ queue' \in [Subscriptions -> [Orders -> Seq(Event)]]
      /\ faults' \in Nat /\ (faults' = 0 => faults = 0)
      /\ \A g \in Subscriptions, p \in Orders : p # o => queue'[g][p] = queue[g][p]
  BY HandledFramed
<1>3. Typed'
  BY <1>1, <1>2 DEF Typed
<1>4. \A p \in Orders \ {o} : Same(p)
  BY <1>1, <1>2 DEF Same
<1> QED  BY <1>1, <1>2, <1>3, <1>4 DEF Framed

\* A handler that leaves its database alone.
LEMMA IdleHandlerFramed ==
    ASSUME Typed, NEW o \in Orders, Writes(o), Handled(o),
           UNCHANGED <<status, reservation, ledger, hand, cancelling, cancels, timedOut>>
    PROVE  Framed(o)
<1>1. Typed
  OBVIOUS
<1>2. /\ status' \in [Orders -> OrderStatus \cup {None}]
      /\ reservation' \in [Orders -> {None, "reserved", "released"}]
      /\ ledger' \in [Orders -> LedgerRow]
      /\ hand' \in [OrderSubscriptions -> [Orders -> OrderStatus \cup {None}]]
  BY DEF Typed
<1> QED  BY <1>2, HandlerFramed

\* The consumers of the order service.
LEMMA OrderConsumerFramed ==
    ASSUME Typed, NEW o \in Orders, OrderConsumer(o)
    PROVE  Framed(o)
<1> USE DEF orderDb, catalogDb, paymentDb, requests, bus
<1>1. /\ OrderSubscriptions \subseteq Subscriptions /\ "orders.events" \in Topics
      /\ "order/catalog" \in OrderSubscriptions /\ "order/payments" \in OrderSubscriptions
      /\ Ev("OrderConfirmed") \in Event /\ Ev("OrderCancelled") \in Event
      /\ {"InventoryReserved", "Cancelled", "Confirmed"} \subseteq OrderStatus
  BY EvTyped DEF OrderSubscriptions, Subscriptions, Topics, EventTypes, OrderStatus
<1>2. ASSUME NEW g \in OrderSubscriptions, read_order(g, o) PROVE Framed(o)
  <2>1. /\ hand' \in [OrderSubscriptions -> [Orders -> OrderStatus \cup {None}]]
        /\ \A h \in OrderSubscriptions, p \in Orders : p # o => hand'[h][p] = hand[h][p]
    BY <1>2 DEF read_order, Typed
  <2>2. Typed'
    BY <1>2, <2>1 DEF read_order, Typed
  <2> QED  BY <1>2, <2>1, <2>2 DEF read_order, Framed, Same
<1>3. ASSUME NEW g \in OrderSubscriptions, reject_order_event(g, o) PROVE Framed(o)
  <2>1. Handled(o) /\ Writes(o)
    <3>1. queue[g][o] # <<>> /\ GiveUp(g, o) /\ UNCHANGED <<outbox, sent>>
      BY <1>3 DEF reject_order_event, Ready
    <3> QED  BY <1>1, <3>1, HandledBy DEF Writes, NoEvent
  <2> QED  BY <1>3, <2>1, IdleHandlerFramed DEF reject_order_event
<1>4. ASSUME NEW g \in OrderSubscriptions, NEW type,
             NEW to \in {"InventoryReserved", "Cancelled", "Confirmed"},
             Update(g, o, type, to), Writes(o)
      PROVE  Framed(o)
  <2>1. Handled(o)
    <3>1. queue[g][o] # <<>> /\ Ack(g, o)
      BY <1>4 DEF Update, Pending
    <3> QED  BY <1>1, <3>1, HandledBy
  <2>2. /\ status' \in [Orders -> OrderStatus \cup {None}]
        /\ \A p \in Orders \ {o} : status'[p] = status[p]
    BY <1>1, <1>4 DEF Update, Typed
  <2>3. /\ hand' \in [OrderSubscriptions -> [Orders -> OrderStatus \cup {None}]]
        /\ \A h \in OrderSubscriptions, p \in Orders : p # o => hand'[h][p] = hand[h][p]
    BY <1>4 DEF Update, Typed
  <2>4. /\ UNCHANGED <<cancelling, cancels, timedOut, reservation, ledger>>
        /\ reservation \in [Orders -> {None, "reserved", "released"}]
        /\ ledger \in [Orders -> LedgerRow]
    BY <1>4 DEF Update, Typed
  <2> QED  BY <1>4, <2>1, <2>2, <2>3, <2>4, HandlerFramed
<1>5. CASE order_inventory_reserved(o) \/ order_inventory_reservation_failed(o)
  BY <1>1, <1>4, <1>5 DEF order_inventory_reserved, order_inventory_reservation_failed, Writes
<1>6. CASE order_payment_authorized(o)
  BY <1>1, <1>4, <1>6 DEF order_payment_authorized, Writes
<1>7. CASE cancel_order_on_payment_failure(o)
  BY <1>1, <1>4, <1>7 DEF cancel_order_on_payment_failure, Writes
<1> QED  BY <1>2, <1>3, <1>5, <1>6, <1>7 DEF OrderConsumer

\* The consumers of the catalog service.
LEMMA CatalogConsumerFramed ==
    ASSUME Typed, NEW o \in Orders, CatalogConsumer(o)
    PROVE  Framed(o)
<1> USE DEF orderDb, catalogDb, paymentDb, requests, bus
<1>1. /\ "catalog/orders" \in Subscriptions /\ "catalog.events" \in Topics
      /\ Ev("InventoryReserved") \in Event /\ Ev("InventoryReservationFailed") \in Event
  BY EvTyped DEF Subscriptions, Topics, EventTypes
<1>2. Handled(o) /\ Writes(o)
  <2> DEFINE g == "catalog/orders"
  <2>1. CASE catalog_order_created(o)
    <3>1. queue[g][o] # <<>>
      BY <2>1 DEF catalog_order_created, Pending
    <3>2. Ack(g, o) \/ GiveUp(g, o) \/ (Fault("db_error") /\ Pop(g, o))
      BY <2>1 DEF catalog_order_created
    <3>3. Fault("db_error") => \E kind \in FaultKinds : Fault(kind)
      BY DEF Fault
    <3>4. \/ WriteOutbox("catalog.events", o, Ev("InventoryReserved"))
          \/ WriteOutbox("catalog.events", o, Ev("InventoryReservationFailed"))
      BY <2>1 DEF catalog_order_created
    <3>5. Writes(o)
      BY Zenon, <1>1, <3>4 DEF Writes
    <3> QED  BY <1>1, <3>1, <3>2, <3>3, <3>5, HandledBy
  <2>2. CASE catalog_order_cancelled(o)
    <3>1. queue[g][o] # <<>> /\ Ack(g, o) /\ UNCHANGED <<outbox, sent>>
      BY <2>2 DEF catalog_order_cancelled, Pending
    <3> QED  BY <1>1, <3>1, HandledBy DEF Writes, NoEvent
  <2> QED  BY <2>1, <2>2 DEF CatalogConsumer
<1>3. /\ reservation' \in [Orders -> {None, "reserved", "released"}]
      /\ \A p \in Orders \ {o} : reservation'[p] = reservation[p]
  BY Zenon DEF CatalogConsumer, catalog_order_created, catalog_order_cancelled, Typed
<1>4. /\ UNCHANGED <<status, ledger, hand, cancelling, cancels, timedOut>>
      /\ status \in [Orders -> OrderStatus \cup {None}]
      /\ ledger \in [Orders -> LedgerRow]
      /\ hand \in [OrderSubscriptions -> [Orders -> OrderStatus \cup {None}]]
  BY DEF CatalogConsumer, catalog_order_created, catalog_order_cancelled, Typed
<1> QED  BY <1>2, <1>3, <1>4, HandlerFramed

\* What the payment handlers do: nothing to the ledger and the outbox, or one
\* transaction on the event at the head of their subscription.
LEMMA PaymentStep ==
    ASSUME Typed, NEW o \in Orders, PaymentConsumer(o)
    PROVE  /\ UNCHANGED <<status, reserved, reservation, hand, cancelling, cancels, timedOut>>
           /\ Handled(o)
           /\ \/ UNCHANGED <<ledger, outbox, sent>>
              \/ \E g \in Subscriptions : \E row \in LedgerRow, e \in Event :
                     /\ queue[g][o] # <<>>
                     /\ ledger' = [ledger EXCEPT ![o] = row]
                     /\ WriteOutbox("payments.events", o, e)
<1> USE DEF orderDb, catalogDb, paymentDb, requests, bus
<1> DEFINE Unchanged == UNCHANGED <<status, reserved, reservation, hand, cancelling, cancels, timedOut>>
           Tx(g) == \E row \in LedgerRow, e \in Event : /\ queue[g][o] # <<>>
                                                        /\ ledger' = [ledger EXCEPT ![o] = row]
                                                        /\ WriteOutbox("payments.events", o, e)
           Nothing == UNCHANGED <<ledger, outbox, sent>>
<1>1. {"payment/catalog", "payment/orders", "payment/payments"} \subseteq Subscriptions
  BY DEF Subscriptions
<1>2. ASSUME NEW g \in Subscriptions, queue[g][o] # <<>>, NEW row \in LedgerRow, NEW e \in Event,
             PaymentTx(g, o, row, e)
      PROVE  Unchanged /\ Handled(o) /\ Tx(g)
  <2>1. Handled(o)
    BY Zenon, <1>2, HandledBy DEF PaymentTx
  <2> QED  BY Zenon, <1>2, <2>1 DEF PaymentTx
<1>3. ASSUME NEW g \in Subscriptions, queue[g][o] # <<>>, PaymentError(g, o) \/ PaymentOk(g, o)
      PROVE  Unchanged /\ Handled(o) /\ Nothing
  <2>1. Handled(o)
    BY <1>3, HandledBy DEF PaymentError, PaymentOk
  <2> QED  BY Zenon, <1>3, <2>1 DEF PaymentError, PaymentOk
<1>4. ASSUME NEW g \in Subscriptions, queue[g][o] # <<>>, Fault("gateway_error"), Pop(g, o),
             UNCHANGED <<orderDb, catalogDb, paymentDb, requests, outbox, sent>>
      PROVE  Unchanged /\ Handled(o) /\ Nothing
  <2>1. \E kind \in FaultKinds : Fault(kind)
    BY <1>4 DEF Fault
  <2>2. Handled(o)
    BY <1>4, <2>1, HandledBy
  <2> QED  BY <1>4, <2>2
<1>5. /\ ledger[o] \in LedgerRow
      /\ [ledger[o] EXCEPT !.auth = "posted"] \in LedgerRow
      /\ [ledger[o] EXCEPT !.capture = "posted"] \in LedgerRow
      /\ [ledger[o] EXCEPT !.auth = "discarded", !.void = "posted"] \in LedgerRow
  BY Zenon DEF Typed, LedgerRow
<1>6. \A type \in {"PaymentAuthorized", "PaymentFailed", "PaymentCaptured", "PaymentVoided"} :
          Ev(type) \in Event
  BY EvTyped DEF EventTypes
<1>7. ASSUME NEW retry \in 0..(MaxCaptureRetries - 1)
      PROVE  [type |-> "PaymentCaptureRetryRequested", retry |-> retry + 1] \in Event
  BY SagaAssumption DEF Event, EventTypes
<1> HIDE DEF Unchanged, Tx, Nothing
<1>8. ASSUME NEW g \in Subscriptions, queue[g][o] # <<>>, NEW retry \in 0..(MaxCaptureRetries - 1),
             Capture(g, o, retry)
      PROVE  Unchanged /\ Handled(o) /\ (Nothing \/ Tx(g))
  BY <1>2, <1>3, <1>5, <1>6, <1>7, <1>8 DEF Capture
<1>9. CASE payment_inventory_reserved(o)
  <2>1. queue["payment/catalog"][o] # <<>>
    BY <1>9 DEF payment_inventory_reserved, Pending
  <2>2. Unchanged /\ Handled(o) /\ (Nothing \/ Tx("payment/catalog"))
    BY <1>1, <1>2, <1>3, <1>4, <1>5, <1>6, <1>9, <2>1 DEF payment_inventory_reserved
  <2> QED  BY <1>1, <2>2 DEF Unchanged, Nothing, Tx
<1>10. CASE payment_order_confirmed(o)
  <2>1. queue["payment/orders"][o] # <<>> /\ 0 \in 0..(MaxCaptureRetries - 1)
    BY <1>10, SagaAssumption DEF payment_order_confirmed, Pending
  <2>2. Unchanged /\ Handled(o) /\ (Nothing \/ Tx("payment/orders"))
    BY <1>1, <1>8, <1>10, <2>1 DEF payment_order_confirmed
  <2> QED  BY <1>1, <2>2 DEF Unchanged, Nothing, Tx
<1>11. CASE handle_capture_retry(o)
  <2> DEFINE g == "payment/payments"
             retry == Head(queue[g][o]).retry
  <2>1. queue[g][o] # <<>> /\ queue[g][o] \in Seq(Event)
    BY <1>1, <1>11 DEF handle_capture_retry, Pending, Typed
  <2>2. Head(queue[g][o]) \in Event
    BY <2>1
  <2>3. retry \in 0..MaxCaptureRetries
    BY <2>2 DEF Event
  <2>4. CASE retry >= MaxCaptureRetries
    <3>1. PaymentTx(g, o, ledger[o], Ev("PaymentFailed"))
      BY <1>11, <2>4 DEF handle_capture_retry
    <3>2. Unchanged /\ Handled(o) /\ Tx(g)
      BY <1>1, <1>2, <1>5, <1>6, <2>1, <3>1
    <3> QED  BY Zenon, <1>1, <3>2 DEF Unchanged, Tx
  <2>5. CASE ~ (retry >= MaxCaptureRetries)
    <3>1. retry \in 0..(MaxCaptureRetries - 1) /\ Capture(g, o, retry)
      BY <1>11, <2>3, <2>5, SagaAssumption DEF handle_capture_retry
    <3>2. Unchanged /\ Handled(o) /\ (Nothing \/ Tx(g))
      BY <1>1, <1>8, <2>1, <3>1
    <3> QED  BY <1>1, <3>2 DEF Unchanged, Nothing, Tx
  <2> QED  BY <2>4, <2>5
<1>12. CASE payment_order_cancelled(o)
  <2>1. queue["payment/orders"][o] # <<>>
    BY <1>12 DEF payment_order_cancelled, Pending
  <2>2. Unchanged /\ Handled(o) /\ (Nothing \/ Tx("payment/orders"))
    BY <1>1, <1>2, <1>3, <1>4, <1>5, <1>6, <1>12, <2>1 DEF payment_order_cancelled
  <2> QED  BY <1>1, <2>2 DEF Unchanged, Nothing, Tx
<1> QED  BY <1>9, <1>10, <1>11, <1>12 DEF PaymentConsumer

\* The consumers of the payment service.
LEMMA PaymentConsumerFramed ==
    ASSUME Typed, NEW o \in Orders, PaymentConsumer(o)
    PROVE  Framed(o) /\ Writes(o) /\ Handled(o)
<1>1. /\ UNCHANGED <<status, reserved, reservation, hand, cancelling, cancels, timedOut>>
      /\ Handled(o)
  BY PaymentStep
<1>2. /\ status' \in [Orders -> OrderStatus \cup {None}]
      /\ reservation' \in [Orders -> {None, "reserved", "released"}]
      /\ hand' \in [OrderSubscriptions -> [Orders -> OrderStatus \cup {None}]]
  BY <1>1 DEF Typed
<1>3. /\ Writes(o)
      /\ ledger' \in [Orders -> LedgerRow]
      /\ \A p \in Orders \ {o} : ledger'[p] = ledger[p]
  <2>1. CASE UNCHANGED <<ledger, outbox, sent>>
    BY <2>1 DEF Writes, NoEvent, Typed
  <2>2. CASE \E row \in LedgerRow, e \in Event : /\ ledger' = [ledger EXCEPT ![o] = row]
                                                /\ WriteOutbox("payments.events", o, e)
    <3>1. PICK row \in LedgerRow, e \in Event : /\ ledger' = [ledger EXCEPT ![o] = row]
                                                /\ WriteOutbox("payments.events", o, e)
      BY Zenon, <2>2
    <3>2. "payments.events" \in Topics
      BY DEF Topics
    <3>3. Writes(o)
      BY Zenon, <3>1, <3>2 DEF Writes
    <3> QED  BY <3>1, <3>3 DEF Typed
  <2> QED  BY <2>1, <2>2, PaymentStep
<1> QED  BY <1>1, <1>2, <1>3, HandlerFramed

\* Every step on an order.
LEMMA StepFramed ==
    ASSUME Typed, NEW o \in Orders, Step(o)
    PROVE  Framed(o)
BY ApiFramed, BusFramed, OrderConsumerFramed, CatalogConsumerFramed, PaymentConsumerFramed DEF Step

-----------------------------------------------------------------------------
(* The money follows the goods *)

\* Nothing changes for the other orders.
LEMMA SameMoney ==
    ASSUME NEW p \in Orders, Same(p), InTransitIsSent(p), EventsTellTruth(p), LedgerSound(p)
    PROVE  (InTransitIsSent(p) /\ EventsTellTruth(p) /\ LedgerSound(p))'
<1>1. InTransitIsSent(p)'
  BY DEF Same, InTransitIsSent
<1>2. (EventsTellTruth(p) /\ LedgerSound(p))'
  BY Zenon DEF Same, EventsTellTruth, LedgerSound
<1> QED  BY Zenon, <1>1, <1>2

\* The outbox keeps to what was sent when a handler writes to it.
LEMMA WritesSent ==
    ASSUME Typed, NEW o \in Orders, Writes(o), InTransitIsSent(o)
    PROVE  \A t \in Topics : \A i \in DOMAIN outbox'[t][o] : outbox'[t][o][i].type \in sent'[o]
<1>1. CASE NoEvent
  BY <1>1 DEF NoEvent, InTransitIsSent
<1>2. ASSUME NEW t \in Topics, NEW e \in Event, WriteOutbox(t, o, e)
      PROVE  \A u \in Topics : \A i \in DOMAIN outbox'[u][o] : outbox'[u][o][i].type \in sent'[o]
  <2>1. /\ outbox'[t][o] = Append(outbox[t][o], e)
        /\ \A u \in Topics : u # t => outbox'[u][o] = outbox[u][o]
        /\ sent'[o] = sent[o] \cup {e.type}
    BY <1>2, WriteOutboxEffect
  <2>2. outbox[t][o] \in Seq(Event)
    BY Zenon DEF Typed
  <2>3. \A i \in DOMAIN Append(outbox[t][o], e) :
            Append(outbox[t][o], e)[i].type \in sent[o] \cup {e.type}
    <3> TAKE i \in DOMAIN Append(outbox[t][o], e)
    <3>1. \/ Append(outbox[t][o], e)[i] = e
          \/ i \in DOMAIN outbox[t][o] /\ Append(outbox[t][o], e)[i] = outbox[t][o][i]
      BY <2>2, AppendElements
    <3> QED  BY <3>1 DEF InTransitIsSent
  <2> QED  BY Zenon, <2>1, <2>3 DEF InTransitIsSent
<1> QED  BY <1>1, <1>2 DEF Writes

\* So do the queues when an event is done with.
LEMMA HandledSent ==
    ASSUME Typed, NEW o \in Orders, Handled(o), InTransitIsSent(o), sent[o] \subseteq sent'[o]
    PROVE  \A g \in Subscriptions : \A i \in DOMAIN queue'[g][o] : queue'[g][o][i].type \in sent'[o]
<1>1. PICK g \in Subscriptions :
        /\ queue[g][o] # <<>>
        /\ \/ Ack(g, o)
           \/ GiveUp(g, o)
           \/ (\E kind \in FaultKinds : Fault(kind)) /\ Pop(g, o)
  BY DEF Handled
<1>2. /\ queue'[g][o] = Tail(queue[g][o]) \/ queue'[g][o] = queue[g][o]
      /\ \A h \in Subscriptions : h # g => queue'[h][o] = queue[h][o]
  <2>1. CASE Ack(g, o) \/ GiveUp(g, o)
    BY <1>1, <2>1, DoneWithEffect
  <2>2. CASE Pop(g, o)
    BY <1>1, <2>2, PopEffect
  <2> QED  BY <1>1, <2>1, <2>2
<1>3. queue[g][o] \in Seq(Event)
  BY DEF Typed
<1>4. \A i \in DOMAIN Tail(queue[g][o]) : Tail(queue[g][o])[i].type \in sent[o]
  <2> TAKE i \in DOMAIN Tail(queue[g][o])
  <2>1. i + 1 \in DOMAIN queue[g][o] /\ Tail(queue[g][o])[i] = queue[g][o][i + 1]
    BY <1>1, <1>3, TailElements
  <2> QED  BY <2>1 DEF InTransitIsSent
<1> QED  BY Zenon, <1>2, <1>4 DEF InTransitIsSent

\* What a handler finds at the head of its subscription was sent.
LEMMA HeadSent ==
    ASSUME Typed, NEW o \in Orders, NEW g \in Subscriptions, InTransitIsSent(o), NEW type,
           Pending(g, o, type)
    PROVE  type \in sent[o]
<1>1. queue[g][o] \in Seq(Event) /\ queue[g][o] # <<>>
  BY DEF Typed, Pending
<1>2. 1 \in DOMAIN queue[g][o] /\ Head(queue[g][o]) = queue[g][o][1]
  BY <1>1
<1> QED  BY <1>2 DEF InTransitIsSent, Pending

\* The event types that say something about the databases.
Telling == {"InventoryReserved", "PaymentAuthorized", "OrderConfirmed", "PaymentCaptureRetryRequested"}

\* A step that leaves ledger and reservation of o alone and writes no telling event.
LEMMA QuietStep ==
    ASSUME NEW o \in Orders, EventsTellTruth(o), LedgerSound(o), NEW X, X \cap Telling = {},
           sent'[o] = sent[o] \cup X, ledger'[o] = ledger[o], reservation'[o] = reservation[o]
    PROVE  (EventsTellTruth(o) /\ LedgerSound(o))'
BY DEF EventsTellTruth, LedgerSound, Telling

\* The events that the API and the order consumers write: only OrderConfirmed is
\* telling, and it follows a PaymentAuthorized.
LEMMA OrderMoney ==
    ASSUME Typed, NEW o \in Orders, InTransitIsSent(o), EventsTellTruth(o), LedgerSound(o),
           create_order(o) \/ cancel_order_check(o) \/ cancel_order(o) \/ OrderConsumer(o)
    PROVE  (InTransitIsSent(o) /\ EventsTellTruth(o) /\ LedgerSound(o))'
<1> USE DEF orderDb, catalogDb, paymentDb, requests, bus
<1>1. /\ "orders.events" \in Topics /\ OrderSubscriptions \subseteq Subscriptions
      /\ "order/payments" \in Subscriptions /\ "order/catalog" \in Subscriptions
      /\ \A type \in {"OrderCreated", "OrderConfirmed", "OrderCancelled"} :
             Ev(type) \in Event /\ Ev(type).type = type
  BY Zenon, EvTyped DEF Topics, OrderSubscriptions, Subscriptions, EventTypes
<1>2. ASSUME NEW type \in {"OrderCreated", "OrderCancelled"},
             WriteOutbox("orders.events", o, Ev(type)),
             Handled(o) \/ UNCHANGED queue, UNCHANGED <<ledger, reservation>>
      PROVE  (InTransitIsSent(o) /\ EventsTellTruth(o) /\ LedgerSound(o))'
  <2>1. sent'[o] = sent[o] \cup {type}
    BY <1>1, <1>2, WriteOutboxEffect
  <2>2. {type} \cap Telling = {}
    BY DEF Telling
  <2>3. (EventsTellTruth(o) /\ LedgerSound(o))'
    BY Zenon, <1>2, <2>1, <2>2, QuietStep
  <2>4. Writes(o)
    BY Zenon, <1>1, <1>2 DEF Writes
  <2>5. \A t \in Topics : \A i \in DOMAIN outbox'[t][o] : outbox'[t][o][i].type \in sent'[o]
    BY <2>4, WritesSent
  <2>6. \A g \in Subscriptions : \A i \in DOMAIN queue'[g][o] : queue'[g][o][i].type \in sent'[o]
    <3>1. CASE Handled(o)
      BY <2>1, <3>1, HandledSent
    <3>2. CASE UNCHANGED queue
      BY <2>1, <3>2 DEF InTransitIsSent
    <3> QED  BY <1>2, <3>1, <3>2
  <2> QED  BY Zenon, <2>3, <2>5, <2>6 DEF InTransitIsSent
<1>3. ASSUME UNCHANGED <<outbox, sent>>, Handled(o) \/ UNCHANGED queue,
             UNCHANGED <<ledger, reservation>>
      PROVE  (InTransitIsSent(o) /\ EventsTellTruth(o) /\ LedgerSound(o))'
  <2>1. (EventsTellTruth(o) /\ LedgerSound(o))'
    BY <1>3 DEF EventsTellTruth, LedgerSound
  <2>2. \A g \in Subscriptions : \A i \in DOMAIN queue'[g][o] : queue'[g][o][i].type \in sent'[o]
    <3>1. CASE Handled(o)
      BY <1>3, <3>1, HandledSent
    <3>2. CASE UNCHANGED queue
      BY <1>3, <3>2 DEF InTransitIsSent
    <3> QED  BY <1>3, <3>1, <3>2
  <2> QED  BY Zenon, <1>3, <2>1, <2>2 DEF InTransitIsSent
<1>4. CASE create_order(o)
  BY <1>2, <1>4 DEF create_order
<1>5. CASE cancel_order_check(o)
  BY Zenon, <1>3, <1>5 DEF cancel_order_check
<1>6. CASE cancel_order(o)
  BY <1>2, <1>6 DEF cancel_order
<1>7. CASE \E g \in OrderSubscriptions : read_order(g, o)
  BY <1>3, <1>7 DEF read_order
<1>8. ASSUME NEW g \in OrderSubscriptions, reject_order_event(g, o)
      PROVE  (InTransitIsSent(o) /\ EventsTellTruth(o) /\ LedgerSound(o))'
  <2>1. Handled(o)
    <3>1. queue[g][o] # <<>> /\ GiveUp(g, o)
      BY Zenon, <1>8 DEF reject_order_event, Ready
    <3> QED  BY Zenon, <1>1, <3>1, HandledBy
  <2> QED  BY <1>3, <1>8, <2>1 DEF reject_order_event
<1>9. ASSUME NEW g \in Subscriptions, NEW type, NEW to, Update(g, o, type, to)
      PROVE  Handled(o) /\ UNCHANGED <<ledger, reservation>> /\ Pending(g, o, type)
  <2>1. queue[g][o] # <<>> /\ Ack(g, o)
    BY <1>9 DEF Update, Pending
  <2>2. Handled(o)
    BY <2>1, HandledBy
  <2> QED  BY <1>9, <2>2 DEF Update
<1>10. CASE order_inventory_reserved(o) \/ order_inventory_reservation_failed(o)
  BY <1>1, <1>3, <1>9, <1>10
     DEF order_inventory_reserved, order_inventory_reservation_failed, NoEvent
<1>11. CASE order_payment_authorized(o)
  <2>1. /\ Handled(o) /\ UNCHANGED <<ledger, reservation>>
        /\ Pending("order/payments", o, "PaymentAuthorized")
        /\ WriteOutbox("orders.events", o, Ev("OrderConfirmed"))
    BY <1>1, <1>9, <1>11 DEF order_payment_authorized
  <2>2. sent'[o] = sent[o] \cup {"OrderConfirmed"}
    BY <1>1, <2>1, WriteOutboxEffect
  <2>3. "PaymentAuthorized" \in sent[o]
    BY Zenon, <1>1, <2>1, HeadSent
  <2>4. (EventsTellTruth(o) /\ LedgerSound(o))'
    BY <2>1, <2>2, <2>3 DEF EventsTellTruth, LedgerSound
  <2>5. Writes(o)
    BY Zenon, <1>1, <2>1 DEF Writes
  <2> QED  BY Zenon, <2>1, <2>2, <2>4, <2>5, WritesSent, HandledSent DEF InTransitIsSent
<1>12. CASE cancel_order_on_payment_failure(o)
  BY <1>1, <1>2, <1>9, <1>12 DEF cancel_order_on_payment_failure
<1> QED
  BY <1>4, <1>5, <1>6, <1>7, <1>8, <1>10, <1>11, <1>12 DEF OrderConsumer

\* The bus moves what was sent; the monitor's PaymentTimedOut tells nothing.
LEMMA BusMoney ==
    ASSUME Typed, NEW o \in Orders, InTransitIsSent(o), EventsTellTruth(o), LedgerSound(o),
           \/ \E t \in Topics : relay(t, o)
           \/ \E g \in Subscriptions : skip(g, o)
           \/ payment_timed_out(o)
    PROVE  (InTransitIsSent(o) /\ EventsTellTruth(o) /\ LedgerSound(o))'
<1> USE DEF orderDb, catalogDb, paymentDb, requests, bus
<1>1. ASSUME NEW t \in Topics, NEW e \in Event, Deliver(t, o, e), e.type \in sent'[o],
             sent[o] \subseteq sent'[o]
      PROVE  \A g \in Subscriptions : \A i \in DOMAIN queue'[g][o] : queue'[g][o][i].type \in sent'[o]
  <2> TAKE g \in Subscriptions
  <2>1. queue[g][o] \in Seq(Event) /\ queue'[g][o] \in {queue[g][o], Append(queue[g][o], e)}
    <3>1. queue'[g][o] = IF TopicOf(g) = t /\ e.type \in Dispatch(g)
                         THEN Append(queue[g][o], e) ELSE queue[g][o]
      BY <1>1, DeliverEffect
    <3>2. queue[g][o] \in Seq(Event)
      BY Zenon DEF Typed
    <3> QED  BY Zenon, <3>1, <3>2
  <2>2. \A i \in DOMAIN queue[g][o] : queue[g][o][i].type \in sent'[o]
    BY Zenon, <1>1 DEF InTransitIsSent
  <2>3. \A i \in DOMAIN Append(queue[g][o], e) : Append(queue[g][o], e)[i].type \in sent'[o]
    <3> TAKE i \in DOMAIN Append(queue[g][o], e)
    <3>1. \/ Append(queue[g][o], e)[i] = e
          \/ i \in DOMAIN queue[g][o] /\ Append(queue[g][o], e)[i] = queue[g][o][i]
      <4>1. queue[g][o] \in Seq(Event) /\ e \in Event
        BY Zenon, <1>1, <2>1
      <4> QED  BY <4>1, AppendElements
    <3> QED  BY Zenon, <1>1, <2>2, <3>1
  <2> QED  BY Zenon, <2>1, <2>2, <2>3
<1>2. ASSUME NEW t \in Topics, relay(t, o)
      PROVE  (InTransitIsSent(o) /\ EventsTellTruth(o) /\ LedgerSound(o))'
  <2>1. PICK i \in DOMAIN outbox[t][o] :
          /\ outbox' = [outbox EXCEPT ![t][o] = RemoveRow(@, i)]
          /\ Deliver(t, o, outbox[t][o][i]) \/ UNCHANGED queue
    BY Zenon, <1>2 DEF relay
  <2>2. outbox[t][o] \in Seq(Event) /\ outbox[t][o][i] \in Event /\ outbox[t][o][i].type \in sent[o]
    <3>1. outbox[t][o] \in Seq(Event)
      BY DEF Typed
    <3>2. outbox[t][o][i] \in Event
      BY <3>1
    <3> QED  BY <3>1, <3>2 DEF InTransitIsSent
  <2>3. /\ outbox'[t][o] = RemoveRow(outbox[t][o], i)
        /\ \A u \in Topics : u # t => outbox'[u][o] = outbox[u][o]
    BY Zenon, <2>1 DEF Typed
  <2>4. \A k \in DOMAIN RemoveRow(outbox[t][o], i) : RemoveRow(outbox[t][o], i)[k].type \in sent[o]
    <3> TAKE k \in DOMAIN RemoveRow(outbox[t][o], i)
    <3>1. \E m \in DOMAIN outbox[t][o] : RemoveRow(outbox[t][o], i)[k] = outbox[t][o][m]
      BY <2>2, RemoveRowKeeps
    <3> QED  BY <3>1 DEF InTransitIsSent
  <2>5. sent' = sent /\ ledger' = ledger /\ reservation' = reservation
    BY Zenon, <1>2 DEF relay
  <2>6. \A u \in Topics : \A k \in DOMAIN outbox'[u][o] : outbox'[u][o][k].type \in sent'[o]
    BY <2>3, <2>4, <2>5 DEF InTransitIsSent
  <2>7. \A g \in Subscriptions : \A k \in DOMAIN queue'[g][o] : queue'[g][o][k].type \in sent'[o]
    <3>1. CASE Deliver(t, o, outbox[t][o][i])
      BY Zenon, <1>1, <2>2, <2>5, <3>1
    <3>2. CASE UNCHANGED queue
      BY <2>5, <3>2 DEF InTransitIsSent
    <3> QED  BY Zenon, <2>1, <3>1, <3>2
  <2>8. (EventsTellTruth(o) /\ LedgerSound(o))'
    BY Zenon, <2>5 DEF EventsTellTruth, LedgerSound
  <2> QED  BY <2>6, <2>7, <2>8 DEF InTransitIsSent
<1>3. ASSUME NEW g \in Subscriptions, skip(g, o)
      PROVE  (InTransitIsSent(o) /\ EventsTellTruth(o) /\ LedgerSound(o))'
  <2>1. Handled(o)
    <3>1. queue[g][o] # <<>> /\ Pop(g, o) /\ Fault("skipped")
      BY Zenon, <1>3 DEF skip, Ready
    <3>2. \E kind \in FaultKinds : Fault(kind)
      BY <3>1 DEF Fault
    <3> QED  BY Zenon, <3>1, <3>2, HandledBy
  <2>2. UNCHANGED <<ledger, reservation, outbox, sent>>
    BY <1>3 DEF skip
  <2>3. (EventsTellTruth(o) /\ LedgerSound(o))'
    BY Zenon, <2>2 DEF EventsTellTruth, LedgerSound
  <2> QED  BY Zenon, <2>1, <2>2, <2>3, HandledSent DEF InTransitIsSent
<1>4. CASE payment_timed_out(o)
  <2>1. "payments.events" \in Topics /\ "PaymentTimedOut" \in EventTypes
    BY DEF Topics, EventTypes
  <2>2. /\ sent'[o] = sent[o] \cup {"PaymentTimedOut"}
        /\ UNCHANGED <<ledger, reservation, outbox>>
        /\ Deliver("payments.events", o, Ev("PaymentTimedOut"))
    BY <1>4 DEF payment_timed_out, Typed
  <2>3. Ev("PaymentTimedOut") \in Event /\ Ev("PaymentTimedOut").type = "PaymentTimedOut"
    BY <2>1, EvTyped
  <2>4. \A g \in Subscriptions : \A k \in DOMAIN queue'[g][o] : queue'[g][o][k].type \in sent'[o]
    BY Zenon, <1>1, <2>1, <2>2, <2>3
  <2>5. {"PaymentTimedOut"} \cap Telling = {}
    BY DEF Telling
  <2>6. (EventsTellTruth(o) /\ LedgerSound(o))'
    BY Zenon, <2>2, <2>5, QuietStep
  <2>7. \A u \in Topics : \A k \in DOMAIN outbox'[u][o] : outbox'[u][o][k].type \in sent'[o]
    BY Zenon, <2>2 DEF InTransitIsSent
  <2> QED  BY Zenon, <2>4, <2>6, <2>7 DEF InTransitIsSent
<1> QED  BY <1>2, <1>3, <1>4

\* InventoryReserved is written in the transaction that makes the reservation.
LEMMA CatalogMoney ==
    ASSUME Typed, NEW o \in Orders, InTransitIsSent(o), EventsTellTruth(o), LedgerSound(o),
           CatalogConsumer(o)
    PROVE  (InTransitIsSent(o) /\ EventsTellTruth(o) /\ LedgerSound(o))'
<1> USE DEF orderDb, catalogDb, paymentDb, requests, bus
<1>1. /\ "catalog/orders" \in Subscriptions /\ "catalog.events" \in Topics
      /\ \A type \in {"InventoryReserved", "InventoryReservationFailed"} :
             Ev(type) \in Event /\ Ev(type).type = type
  BY Zenon, EvTyped DEF Subscriptions, Topics, EventTypes
<1>2. ASSUME Writes(o), Handled(o), sent[o] \subseteq sent'[o] PROVE InTransitIsSent(o)'
  BY <1>2, WritesSent, HandledSent DEF InTransitIsSent
<1>3. CASE catalog_order_created(o)
  <2>1. Handled(o)
    <3>1. queue["catalog/orders"][o] # <<>>
      BY <1>3 DEF catalog_order_created, Pending
    <3>2. \/ Ack("catalog/orders", o) \/ GiveUp("catalog/orders", o)
          \/ Fault("db_error") /\ Pop("catalog/orders", o)
      BY <1>3 DEF catalog_order_created
    <3>3. Fault("db_error") => \E kind \in FaultKinds : Fault(kind)
      BY DEF Fault
    <3> QED  BY <1>1, <3>1, <3>2, <3>3, HandledBy
  <2>2. ledger' = ledger
    BY <1>3 DEF catalog_order_created
  <2>3. CASE /\ reservation' = [reservation EXCEPT ![o] = "reserved"]
             /\ WriteOutbox("catalog.events", o, Ev("InventoryReserved"))
    <3>1. sent'[o] = sent[o] \cup {"InventoryReserved"}
      BY <1>1, <2>3, WriteOutboxEffect
    <3>2. reservation'[o] = "reserved"
      BY <2>3 DEF Typed
    <3>3. Writes(o)
      BY Zenon, <1>1, <2>3 DEF Writes
    <3>4. (EventsTellTruth(o) /\ LedgerSound(o))'
      BY Zenon, <2>2, <3>1, <3>2 DEF EventsTellTruth, LedgerSound, None
    <3> QED  BY Zenon, <1>2, <2>1, <3>1, <3>3, <3>4
  <2>4. CASE /\ reservation' = reservation
             /\ WriteOutbox("catalog.events", o, Ev("InventoryReservationFailed"))
    <3>1. sent'[o] = sent[o] \cup {"InventoryReservationFailed"}
      BY <1>1, <2>4, WriteOutboxEffect
    <3>2. Writes(o)
      BY Zenon, <1>1, <2>4 DEF Writes
    <3>3. {"InventoryReservationFailed"} \cap Telling = {}
      BY DEF Telling
    <3>4. (EventsTellTruth(o) /\ LedgerSound(o))'
      BY Zenon, <2>2, <2>4, <3>1, <3>3, QuietStep
    <3> QED  BY Zenon, <1>2, <2>1, <3>1, <3>2, <3>4
  <2> QED  BY <1>3, <2>3, <2>4 DEF catalog_order_created
<1>4. CASE catalog_order_cancelled(o)
  <2>1. queue["catalog/orders"][o] # <<>> /\ Ack("catalog/orders", o)
    BY <1>4 DEF catalog_order_cancelled, Pending
  <2>2. Handled(o)
    BY <1>1, <2>1, HandledBy
  <2>3. UNCHANGED <<ledger, outbox, sent>> /\ (reservation[o] # None => reservation'[o] # None)
    BY Zenon, <1>4 DEF catalog_order_cancelled, Typed, None
  <2>4. (EventsTellTruth(o) /\ LedgerSound(o))'
    BY <2>3 DEF EventsTellTruth, LedgerSound
  <2> QED  BY <1>2, <2>2, <2>3, <2>4 DEF Writes, NoEvent
<1> QED  BY <1>3, <1>4 DEF CatalogConsumer

\* The ledger rows and the event that a payment handler writes together fit.
PaymentFits(o, row, e) ==
    \/ /\ row = [ledger[o] EXCEPT !.auth = "posted"] /\ e = Ev("PaymentAuthorized")
       /\ derive_payment_state(o) \in {"New", "Failed"} /\ ledger[o].auth # "posted"
       /\ "InventoryReserved" \in sent[o]
    \/ /\ row = [ledger[o] EXCEPT !.capture = "posted"] /\ e = Ev("PaymentCaptured")
       /\ derive_payment_state(o) = "Authorized" /\ "OrderConfirmed" \in sent[o]
    \/ /\ row = [ledger[o] EXCEPT !.auth = "discarded", !.void = "posted"] /\ e = Ev("PaymentVoided")
       /\ derive_payment_state(o) = "Authorized" /\ "OrderCancelled" \in sent[o]
    \/ row = ledger[o] /\ e = Ev("PaymentFailed")
    \/ /\ row = ledger[o] /\ e.type = "PaymentCaptureRetryRequested" /\ e \in Event
       /\ "OrderConfirmed" \in sent[o]

\* Each of these writes keeps the ledger sound and what was announced true.
LEMMA PaymentFitsMoney ==
    ASSUME Typed, NEW o \in Orders, InTransitIsSent(o), EventsTellTruth(o), LedgerSound(o),
           NEW row, NEW e, PaymentFits(o, row, e), ledger' = [ledger EXCEPT ![o] = row],
           WriteOutbox("payments.events", o, e), reservation' = reservation
    PROVE  (EventsTellTruth(o) /\ LedgerSound(o))'
<1>1. ledger'[o] = row /\ ledger[o] \in LedgerRow
  BY DEF Typed
<1>2. \A type \in {"PaymentAuthorized", "PaymentFailed", "PaymentCaptured", "PaymentVoided"} :
          Ev(type) \in Event /\ Ev(type).type = type
  BY EvTyped DEF EventTypes
<1>3. e \in Event /\ "payments.events" \in Topics
  BY Zenon, <1>2 DEF PaymentFits, Topics
<1>4. sent'[o] = sent[o] \cup {e.type}
  BY <1>3, WriteOutboxEffect
<1>5. CASE /\ row = [ledger[o] EXCEPT !.auth = "posted"] /\ e.type = "PaymentAuthorized"
           /\ derive_payment_state(o) \in {"New", "Failed"} /\ ledger[o].auth # "posted"
           /\ "InventoryReserved" \in sent[o]
  <2>1. row.auth = "posted" /\ row.capture = ledger[o].capture /\ row.void = ledger[o].void
    BY <1>1, <1>5 DEF LedgerRow
  <2>2. ledger[o].void # "posted" /\ ledger[o].capture # "posted"
    BY <1>1, <1>5 DEF derive_payment_state, LedgerRow
  <2>3. reservation[o] # None
    BY <1>5 DEF EventsTellTruth
  <2>4. "posted" # None /\ "posted" # "discarded"
    BY DEF None
  <2>5. EventsTellTruth(o)'
    BY Zenon, <1>1, <1>4, <1>5, <2>1, <2>3, <2>4 DEF EventsTellTruth
  <2>6. LedgerSound(o)'
    BY <1>1, <1>4, <1>5, <2>1, <2>2, <2>3, <2>4 DEF LedgerSound
  <2> QED  BY <2>5, <2>6
<1>6. CASE /\ row = [ledger[o] EXCEPT !.capture = "posted"] /\ e.type = "PaymentCaptured"
           /\ derive_payment_state(o) = "Authorized" /\ "OrderConfirmed" \in sent[o]
  <2>1. row.auth = ledger[o].auth /\ row.capture = "posted" /\ row.void = ledger[o].void
    BY <1>1, <1>6 DEF LedgerRow
  <2>2. ledger[o].auth = "posted" /\ ledger[o].void # "posted"
    BY <1>1, <1>6 DEF derive_payment_state, LedgerRow
  <2> QED  BY <1>1, <1>4, <1>6, <2>1, <2>2 DEF EventsTellTruth, LedgerSound
<1>7. CASE /\ row = [ledger[o] EXCEPT !.auth = "discarded", !.void = "posted"]
           /\ e.type = "PaymentVoided"
           /\ derive_payment_state(o) = "Authorized" /\ "OrderCancelled" \in sent[o]
  <2>1. row.auth = "discarded" /\ row.capture = ledger[o].capture /\ row.void = "posted"
    BY <1>1, <1>7 DEF LedgerRow
  <2>2. ledger[o].auth = "posted" /\ ledger[o].capture # "posted"
    BY <1>1, <1>7 DEF derive_payment_state, LedgerRow
  <2>3. "discarded" # None /\ "posted" # None
    BY DEF None
  <2>4. EventsTellTruth(o)'
    BY <1>1, <1>4, <1>7, <2>1, <2>2, <2>3 DEF EventsTellTruth
  <2>5. LedgerSound(o)'
    BY <1>1, <1>4, <1>7, <2>1, <2>2, <2>3 DEF LedgerSound
  <2> QED  BY <2>4, <2>5
<1>8. CASE row = ledger[o] /\ e.type = "PaymentFailed"
  BY <1>1, <1>4, <1>8 DEF EventsTellTruth, LedgerSound
<1>9. CASE row = ledger[o] /\ e.type = "PaymentCaptureRetryRequested" /\ "OrderConfirmed" \in sent[o]
  BY <1>1, <1>4, <1>9 DEF EventsTellTruth, LedgerSound
<1> QED  BY <1>2, <1>5, <1>6, <1>7, <1>8, <1>9 DEF PaymentFits

\* Every payment handler keeps the ledger sound.
LEMMA PaymentMoney ==
    ASSUME Typed, NEW o \in Orders, InTransitIsSent(o), EventsTellTruth(o), LedgerSound(o),
           PaymentConsumer(o)
    PROVE  (InTransitIsSent(o) /\ EventsTellTruth(o) /\ LedgerSound(o))'
<1> USE DEF orderDb, catalogDb, paymentDb, requests, bus
<1>1. {"payment/catalog", "payment/orders", "payment/payments"} \subseteq Subscriptions
  BY DEF Subscriptions
<1>2. Writes(o) /\ Handled(o) /\ sent[o] \subseteq sent'[o]
  BY PaymentConsumerFramed DEF Framed
<1>3. InTransitIsSent(o)'
  BY Zenon, <1>2, WritesSent, HandledSent DEF InTransitIsSent
<1>4. reservation' = reservation
  BY PaymentStep
<1> DEFINE Fits(g) == \E row, e : PaymentFits(o, row, e) /\ PaymentTx(g, o, row, e)
           Nothing == UNCHANGED <<ledger, outbox, sent>>
<1>5. ASSUME NEW g, Fits(g) PROVE (EventsTellTruth(o) /\ LedgerSound(o))'
  <2>1. PICK row, e : PaymentFits(o, row, e) /\ PaymentTx(g, o, row, e)
    BY <1>5
  <2>2. ledger' = [ledger EXCEPT ![o] = row] /\ WriteOutbox("payments.events", o, e)
    BY Zenon, <2>1 DEF PaymentTx
  <2> QED  BY Zenon, <1>4, <2>1, <2>2, PaymentFitsMoney
<1>6. ASSUME Nothing PROVE (EventsTellTruth(o) /\ LedgerSound(o))'
  BY <1>4, <1>6 DEF EventsTellTruth, LedgerSound
<1>7. ASSUME NEW g, PaymentError(g, o) \/ PaymentOk(g, o) PROVE Nothing
  BY <1>7 DEF PaymentError, PaymentOk
<1>8. ASSUME NEW g, NEW retry \in 0..(MaxCaptureRetries - 1), Capture(g, o, retry),
             "OrderConfirmed" \in sent[o]
      PROVE  Nothing \/ Fits(g)
  <2>1. CASE derive_payment_state(o) # "Authorized" /\ PaymentError(g, o)
    BY <1>7, <2>1
  <2>2. CASE derive_payment_state(o) = "Authorized" /\
             PaymentTx(g, o, [ledger[o] EXCEPT !.capture = "posted"], Ev("PaymentCaptured"))
    BY <1>8, <2>2 DEF PaymentFits
  <2>3. CASE PaymentTx(g, o, ledger[o], [type |-> "PaymentCaptureRetryRequested", retry |-> retry + 1])
    <3>1. [type |-> "PaymentCaptureRetryRequested", retry |-> retry + 1] \in Event
      BY SagaAssumption DEF Event, EventTypes
    <3>2. PaymentFits(o, ledger[o], [type |-> "PaymentCaptureRetryRequested", retry |-> retry + 1])
      BY <1>8, <3>1 DEF PaymentFits
    <3> QED  BY <2>3, <3>2
  <2>4. CASE PaymentTx(g, o, ledger[o], Ev("PaymentFailed"))
    BY <2>4 DEF PaymentFits
  <2> QED  BY <1>8, <2>1, <2>2, <2>3, <2>4 DEF Capture
<1>9. CASE payment_inventory_reserved(o)
  <2> DEFINE g == "payment/catalog"
  <2>1. "InventoryReserved" \in sent[o]
    <3>1. Pending(g, o, "InventoryReserved")
      BY <1>9 DEF payment_inventory_reserved
    <3> QED  BY <1>1, <3>1, HeadSent
  <2>2. CASE PaymentError(g, o) \/ PaymentOk(g, o) \/ UNCHANGED <<ledger, outbox, sent>>
    BY <1>3, <1>6, <1>7, <2>2
  <2>3. CASE /\ ledger[o].auth # "posted" /\ derive_payment_state(o) \in {"New", "Failed"}
             /\ PaymentTx(g, o, [ledger[o] EXCEPT !.auth = "posted"], Ev("PaymentAuthorized"))
    <3>1. PaymentFits(o, [ledger[o] EXCEPT !.auth = "posted"], Ev("PaymentAuthorized"))
      BY <2>1, <2>3 DEF PaymentFits
    <3>2. Fits(g)
      BY <2>3, <3>1
    <3> QED  BY <1>3, <1>5, <3>2
  <2>4. CASE PaymentTx(g, o, ledger[o], Ev("PaymentFailed"))
    <3>1. PaymentFits(o, ledger[o], Ev("PaymentFailed"))
      BY DEF PaymentFits
    <3>2. Fits(g)
      BY <2>4, <3>1
    <3> QED  BY <1>3, <1>5, <3>2
  <2> QED  BY <1>9, <2>2, <2>3, <2>4 DEF payment_inventory_reserved
<1>10. CASE payment_order_confirmed(o)
  <2>1. /\ Pending("payment/orders", o, "OrderConfirmed") /\ Capture("payment/orders", o, 0)
        /\ 0 \in 0..(MaxCaptureRetries - 1)
    BY <1>10, SagaAssumption DEF payment_order_confirmed
  <2>2. "OrderConfirmed" \in sent[o]
    BY Zenon, <1>1, <2>1, HeadSent
  <2> QED  BY Zenon, <1>3, <1>5, <1>6, <1>8, <2>1, <2>2
<1>11. CASE handle_capture_retry(o)
  <2> DEFINE g == "payment/payments"
             retry == Head(queue[g][o]).retry
  <2>1. Pending(g, o, "PaymentCaptureRetryRequested")
    BY <1>11 DEF handle_capture_retry
  <2>2. "OrderConfirmed" \in sent[o]
    <3>1. "PaymentCaptureRetryRequested" \in sent[o]
      BY <1>1, <2>1, HeadSent
    <3> QED  BY <3>1 DEF EventsTellTruth
  <2>3. CASE PaymentTx(g, o, ledger[o], Ev("PaymentFailed"))
    <3>1. PaymentFits(o, ledger[o], Ev("PaymentFailed"))
      BY DEF PaymentFits
    <3>2. Fits(g)
      BY Zenon, <2>3, <3>1
    <3> QED  BY <1>3, <1>5, <3>2
  <2>4. CASE ~ (retry >= MaxCaptureRetries) /\ Capture(g, o, retry)
    <3>1. queue[g][o] # <<>> /\ queue[g][o] \in Seq(Event)
      BY <1>1, <2>1 DEF Pending, Typed
    <3>2. Head(queue[g][o]) \in Event
      BY <3>1
    <3>3. retry \in 0..MaxCaptureRetries
      BY <3>2 DEF Event
    <3>4. retry \in 0..(MaxCaptureRetries - 1)
      BY <2>4, <3>3, SagaAssumption
    <3> QED  BY <1>3, <1>5, <1>6, <1>8, <2>2, <2>4, <3>4
  <2> QED  BY <1>11, <2>3, <2>4 DEF handle_capture_retry
<1>12. CASE payment_order_cancelled(o)
  <2> DEFINE g == "payment/orders"
  <2>1. "OrderCancelled" \in sent[o]
    <3>1. Pending(g, o, "OrderCancelled")
      BY <1>12 DEF payment_order_cancelled
    <3> QED  BY <1>1, <3>1, HeadSent
  <2>2. CASE PaymentOk(g, o) \/ UNCHANGED <<ledger, outbox, sent>>
    BY <1>3, <1>6, <1>7, <2>2
  <2>3. CASE /\ derive_payment_state(o) = "Authorized"
             /\ PaymentTx(g, o, [ledger[o] EXCEPT !.auth = "discarded", !.void = "posted"],
                          Ev("PaymentVoided"))
    <3>1. PaymentFits(o, [ledger[o] EXCEPT !.auth = "discarded", !.void = "posted"], Ev("PaymentVoided"))
      BY <2>1, <2>3 DEF PaymentFits
    <3>2. Fits(g)
      BY <2>3, <3>1
    <3> QED  BY <1>3, <1>5, <3>2
  <2> QED  BY <1>12, <2>2, <2>3 DEF payment_order_cancelled
<1> QED  BY <1>9, <1>10, <1>11, <1>12 DEF PaymentConsumer

\* A step on one order keeps the types and MoneyInv of all orders.
LEMMA StepKeepsMoney ==
    ASSUME Typed, MoneyInv, NEW o \in Orders, Step(o)
    PROVE  Typed' /\ MoneyInv'
<1>1. Framed(o)
  BY StepFramed
<1>2. InTransitIsSent(o) /\ EventsTellTruth(o) /\ LedgerSound(o)
  BY DEF MoneyInv
<1>3. (InTransitIsSent(o) /\ EventsTellTruth(o) /\ LedgerSound(o))'
  BY Zenon, <1>2, OrderMoney, BusMoney, CatalogMoney, PaymentMoney DEF Step
<1>4. ASSUME NEW p \in Orders \ {o}
      PROVE  (InTransitIsSent(p) /\ EventsTellTruth(p) /\ LedgerSound(p))'
  BY <1>1, SameMoney DEF Framed, MoneyInv
<1> QED  BY <1>1, <1>3, <1>4 DEF Framed, MoneyInv

\* Types, events and ledgers of any number of orders, whatever faults happen.
THEOREM MoneyInvariant == Spec => [](Typed /\ MoneyInv)
<1>1. Init => Typed /\ MoneyInv
  <2> SUFFICES ASSUME Init PROVE Typed /\ MoneyInv
    OBVIOUS
  <2>1. <<>> \in Seq(Event) /\ DOMAIN <<>> = {}
    OBVIOUS
  <2>2. \A t \in Topics, o \in Orders : outbox[t][o] = <<>>
    BY DEF Init
  <2>3. \A g \in Subscriptions, o \in Orders : queue[g][o] = <<>>
    BY DEF Init
  <2>4. ledger \in [Orders -> LedgerRow]
    BY DEF Init, LedgerRow
  <2>5. Typed
    BY <2>1, <2>4 DEF Init, Typed
  <2>6. \A o \in Orders : InTransitIsSent(o)
    BY <2>1, <2>2, <2>3 DEF InTransitIsSent
  <2>7. "posted" # None /\ "discarded" # None
    BY DEF None
  <2>8. \A o \in Orders : EventsTellTruth(o) /\ LedgerSound(o)
    BY <2>7 DEF Init, EventsTellTruth, LedgerSound
  <2> QED  BY <2>5, <2>6, <2>8 DEF MoneyInv
<1>2. Typed /\ MoneyInv /\ [Next]_vars => (Typed /\ MoneyInv)'
  <2> SUFFICES ASSUME Typed, MoneyInv, [Next]_vars PROVE Typed' /\ MoneyInv'
    OBVIOUS
  <2>1. CASE Next
    <3>1. PICK o \in Orders : Step(o)
      BY <2>1 DEF Next, Step
    <3> QED  BY <3>1, StepKeepsMoney
  <2>2. CASE UNCHANGED vars
    <3> USE <2>2 DEF vars, orderDb, catalogDb, paymentDb, requests, bus
    <3>1. Typed'
      BY Zenon DEF Typed
    <3>2. MoneyInv'
      BY DEF MoneyInv, InTransitIsSent, EventsTellTruth, LedgerSound
    <3> QED  BY <3>1, <3>2
  <2> QED  BY <2>1, <2>2
<1> QED  BY <1>1, <1>2, PTL DEF Spec

\* An authorization needs reserved goods, a confirmation an authorization, a
\* capture a confirmation and a void a cancellation, and a payment is not both
\* captured and voided: in every order of events and under every fault of the bus.
THEOREM MoneyIsSafe == Spec => []MoneyFollowsGoods
<1>1. MoneyInv => MoneyFollowsGoods
  <2>1. "posted" # "discarded" /\ "posted" # None
    BY DEF None
  <2> QED  BY <2>1 DEF MoneyInv, EventsTellTruth, LedgerSound, MoneyFollowsGoods
<1> QED  BY <1>1, MoneyInvariant, PTL

\* A handler of the order service never holds a cancelled order, so that the only
\* way out of Cancelled is the write of a handler that read the order before.
THEOREM CancelledStays == Spec => CancelledLeftOnlyByStaleHandler
<1> DEFINE Stale(o) == \E g \in OrderSubscriptions :
                           hand[g][o] \notin {None, "Cancelled"} /\ hand'[g][o] = None
           Left == \A o \in Orders : status[o] = "Cancelled" /\ status'[o] # "Cancelled" => Stale(o)
<1>1. Init => HandsOff
  BY DEF Init, HandsOff, None
<1>2. Typed /\ HandsOff /\ [Next]_vars => HandsOff' /\ [Left]_vars
  <2> SUFFICES ASSUME Typed, HandsOff, [Next]_vars PROVE HandsOff' /\ (Left \/ UNCHANGED vars)
    BY Zenon
  <2> USE DEF orderDb, catalogDb, paymentDb, requests, bus
  <2>1. ASSUME NEW o \in Orders, Step(o), UNCHANGED hand, status[o] # "Cancelled" \/ UNCHANGED status
        PROVE  HandsOff' /\ Left
    <3>1. \A p \in Orders \ {o} : status'[p] = status[p]
      BY Zenon, <2>1, StepFramed DEF Framed, Same
    <3> QED  BY <2>1, <3>1 DEF HandsOff
  <2>2. ASSUME NEW o \in Orders, create_order(o) PROVE HandsOff' /\ Left
    <3>1. status[o] # "Cancelled" /\ UNCHANGED hand
      BY Zenon, <2>2 DEF create_order, None
    <3> QED  BY Zenon, <2>1, <2>2, <3>1 DEF Step
  <2>3. ASSUME NEW o \in Orders, cancel_order_check(o) PROVE HandsOff' /\ Left
    BY Zenon, <2>1, <2>3 DEF Step, cancel_order_check
  <2>4. ASSUME NEW o \in Orders, cancel_order(o) PROVE HandsOff' /\ Left
    <3>1. UNCHANGED hand /\ \A p \in Orders : status'[p] # "Cancelled" => status'[p] = status[p]
      BY <2>4 DEF cancel_order, Typed
    <3> QED  BY <3>1 DEF HandsOff
  <2>5. ASSUME NEW o \in Orders, NEW g \in OrderSubscriptions, read_order(g, o)
        PROVE  HandsOff' /\ Left
    <3>1. status[o] # "Cancelled"
      BY <2>5 DEF read_order, transition_to
    <3>2. hand' = [hand EXCEPT ![g][o] = status[o]] /\ status' = status
      BY <2>5 DEF read_order
    <3>3. HandsOff'
      BY <3>1, <3>2 DEF HandsOff, Typed
    <3> QED  BY <3>2, <3>3
  <2>6. ASSUME NEW o \in Orders, NEW g \in OrderSubscriptions, reject_order_event(g, o)
        PROVE  HandsOff' /\ Left
    BY <2>6 DEF reject_order_event, HandsOff
  <2>7. ASSUME NEW o \in Orders, NEW g \in OrderSubscriptions, NEW type, NEW to, Update(g, o, type, to)
        PROVE  HandsOff' /\ Left
    <3>1. /\ hand[g][o] # None /\ hand' = [hand EXCEPT ![g][o] = None]
          /\ status' = [status EXCEPT ![o] = to]
      BY <2>7 DEF Update
    <3>2. HandsOff'
      BY <3>1 DEF HandsOff, Typed, None
    <3>3. hand'[g][o] = None /\ hand[g][o] # "Cancelled"
      BY <3>1 DEF Typed, HandsOff
    <3>4. Stale(o)
      BY <3>1, <3>3
    <3>5. \A p \in Orders \ {o} : status'[p] = status[p]
      BY <3>1 DEF Typed
    <3> QED  BY <3>2, <3>4, <3>5
  <2>8. ASSUME NEW o \in Orders, OrderConsumer(o) PROVE HandsOff' /\ Left
    <3>1. "order/catalog" \in OrderSubscriptions /\ "order/payments" \in OrderSubscriptions
      BY DEF OrderSubscriptions
    <3> HIDE DEF Left
    <3> QED
      BY <2>5, <2>6, <2>7, <2>8, <3>1
         DEF OrderConsumer, order_inventory_reserved, order_inventory_reservation_failed,
             order_payment_authorized, cancel_order_on_payment_failure
  <2>9. ASSUME NEW o \in Orders, CatalogConsumer(o) PROVE HandsOff' /\ Left
    BY <2>9 DEF CatalogConsumer, catalog_order_created, catalog_order_cancelled, HandsOff
  <2>10. ASSUME NEW o \in Orders, PaymentConsumer(o) PROVE HandsOff' /\ Left
    <3>1. status' = status /\ hand' = hand
      BY Zenon, <2>10, PaymentStep
    <3> QED  BY Zenon, <3>1 DEF HandsOff
  <2>11. ASSUME NEW o \in Orders, payment_timed_out(o) PROVE HandsOff' /\ Left
    BY <2>11 DEF payment_timed_out, HandsOff
  <2>12. ASSUME NEW o \in Orders, NEW t \in Topics, relay(t, o) PROVE HandsOff' /\ Left
    BY Zenon, <2>12 DEF relay, HandsOff
  <2>13. ASSUME NEW o \in Orders, NEW g \in Subscriptions, skip(g, o) PROVE HandsOff' /\ Left
    BY Zenon, <2>13 DEF skip, HandsOff
  <2>14. CASE UNCHANGED vars
    BY Zenon, <2>14 DEF vars, HandsOff
  <2> HIDE DEF Left
  <2> QED
    BY <2>2, <2>3, <2>4, <2>8, <2>9, <2>10, <2>11, <2>12, <2>13, <2>14 DEF Next
<1>3. Spec => [][Left]_vars
  BY <1>1, <1>2, MoneyInvariant, PTL DEF Spec
<1> QED  BY <1>3 DEF CancelledLeftOnlyByStaleHandler

=============================================================================
