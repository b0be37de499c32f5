-------------------------- MODULE CatalogInventory --------------------------
(***************************************************************************)
(* Inventory of the catalog service (catalog/src/inventory and consumers,  *)
(* and the SKU operations of catalog/src/products), statement by statement: *)
(* orders that compete for SKUs, each in a PostgreSQL transaction at READ  *)
(* COMMITTED.  An UPDATE whose WHERE clause the committed row of the SKU   *)
(* satisfies waits for the row lock and judges the row again; the lock is  *)
(* held to the end of the transaction.  A transaction thus touches each    *)
(* SKU once, on a row nobody else can change, and its writes are applied   *)
(* here when it commits.                                                   *)
(*                                                                         *)
(* OrderCreated and OrderCancelled come through the shared consumer        *)
(* (EventConsumer): an event may be delivered again, late, out of order,   *)
(* and to a second member while a first one, which has lost the partition, *)
(* is still at work on it.  Both have then found no processed_events row,  *)
(* and mark_event_processed, ON CONFLICT DO NOTHING, lets both commit.     *)
(* confirm_for_order is called from outside and may overlap with anything. *)
(***************************************************************************)
EXTENDS Integers, Sequences, FiniteSets

CONSTANTS
    Orders, Skus,
    ItemsOf,            \* ItemsOf[o]: the SKUs of the order, in its order
    Quantity,           \* Quantity[o][s]: how many of them
    InitialStock,       \* InitialStock[s]
    StockSettings,      \* values update_sku stores
    Deltas,             \* arguments of adjust_stock
    AdminLimit,         \* bound on the administrator's writes
    MaxStock,           \* bound on the stock adjust_stock reaches
    SessionsOf,         \* SessionsOf[o]: database sessions that may work on the order at once
    NoTx

Lines(o) == {ItemsOf[o][i] : i \in DOMAIN ItemsOf[o]}
Txs      == UNION {{o} \X SessionsOf[o] : o \in Orders}

\* No order names a SKU twice: its second INSERT would violate
\* uq_reservation_order_sku and fail the reservation.
ASSUME InventoryAssumption ==
    /\ ItemsOf \in [Orders -> Seq(Skus)]
    /\ \A o \in Orders : Lines(o) # {} /\ Cardinality(Lines(o)) = Len(ItemsOf[o])
    /\ Quantity \in [Orders -> [Skus -> Nat \ {0}]]
    /\ InitialStock \in [Skus -> Nat]
    /\ StockSettings \subseteq Nat
    /\ Deltas \subseteq Int
    /\ {AdminLimit, MaxStock} \subseteq Nat
    /\ DOMAIN SessionsOf = Orders
    /\ NoTx \notin Txs

VARIABLES
    \* the committed rows
    stock, reserved,    \* skus.stock_quantity, skus.reserved_quantity
    deleted,            \* SKUs with deleted_at set
    reservation,        \* status of the inventory_reservations row, or "none"
    announced,          \* events about the order in the outbox
    \* the transactions
    holder,             \* row lock of each SKU
    job,                \* what the transaction is for
    pc,                 \* its next statement
    sku,                \* the SKU of the reservation it has read
    todo,               \* SKUs it still has to deal with
    done,               \* SKUs it has dealt with
    \* the consumer
    processed,          \* events of the orders with a processed_events row
    \* history
    admin,              \* writes by administrators
    overlapped,         \* orders with two releases or confirmations at the same time
    redelivered         \* orders whose OrderCreated was handled again, after a
                        \* failure or during another handling

rows    == <<stock, reserved, deleted, reservation, announced>>
tx      == <<holder, job, pc, sku, todo, done>>
history == <<admin, overlapped, redelivered>>
vars    == <<rows, tx, processed, history>>

Statuses == {"none", "reserved", "released", "confirmed"}
Settling == {"release", "confirm"}

TypeOK ==
    /\ stock \in [Skus -> Nat] /\ reserved \in [Skus -> Nat]
    /\ deleted \subseteq Skus
    /\ reservation \in [Orders -> [Skus -> Statuses]]
    /\ announced \in [Orders -> SUBSET {"InventoryReserved", "InventoryReservationFailed"}]
    /\ holder \in [Skus -> Txs \cup {NoTx}]
    /\ \A s \in Skus : holder[s] # NoTx => s \in done[holder[s]]
    /\ job \in [Txs -> {"none", "reserve", "release", "confirm"}]
    /\ pc \in [Txs -> {"idle", "select", "read", "update", "failed", "commit"}]
    /\ \A t \in Txs : sku[t] \in Lines(t[1]) /\ todo[t] \subseteq Lines(t[1]) /\ done[t] \subseteq Lines(t[1])
    /\ processed \subseteq Orders \X {"OrderCreated", "OrderCancelled"}
    /\ admin \in 0..AdminLimit
    /\ overlapped \subseteq Orders /\ redelivered \subseteq Orders

Init ==
    /\ stock = InitialStock /\ reserved = [s \in Skus |-> 0]
    /\ deleted = {}
    /\ reservation = [o \in Orders |-> [s \in Skus |-> "none"]]
    /\ announced = [o \in Orders |-> {}]
    /\ holder = [s \in Skus |-> NoTx]
    /\ job = [t \in Txs |-> "none"]
    /\ pc = [t \in Txs |-> "idle"]
    /\ sku = [t \in Txs |-> ItemsOf[t[1]][1]]
    /\ todo = [t \in Txs |-> {}]
    /\ done = [t \in Txs |-> {}]
    /\ processed = {}
    /\ admin = 0
    /\ overlapped = {} /\ redelivered = {}

-----------------------------------------------------------------------------
(* Beginning and ending a transaction *)

Rivals(t, jobs) == {u \in Txs : u # t /\ u[1] = t[1] /\ job[u] \in jobs}

Begin(t, what, first, items) ==
    /\ pc[t] = "idle"
    /\ job' = [job EXCEPT ![t] = what]
    /\ pc' = [pc EXCEPT ![t] = first]
    /\ todo' = [todo EXCEPT ![t] = items]
    /\ done' = [done EXCEPT ![t] = {}]
    /\ overlapped' = IF what \in Settling /\ Rivals(t, Settling) # {}
                     THEN overlapped \cup {t[1]} ELSE overlapped
    /\ redelivered' = IF what = "reserve" /\ (announced[t[1]] # {} \/ Rivals(t, {"reserve"}) # {})
                      THEN redelivered \cup {t[1]} ELSE redelivered
    /\ UNCHANGED <<rows, holder, sku, processed, admin>>

\* The row locks go with the transaction.
End(t) ==
    /\ pc' = [pc EXCEPT ![t] = "idle"]
    /\ job' = [job EXCEPT ![t] = "none"]
    /\ holder' = [s \in Skus |-> IF holder[s] = t THEN NoTx ELSE holder[s]]
    /\ todo' = [todo EXCEPT ![t] = {}]
    /\ done' = [done EXCEPT ![t] = {}]
    /\ sku' = [sku EXCEPT ![t] = ItemsOf[t[1]][1]]

\* try_process_once finds no processed_events row and calls the handler:
\* handle_order_created or handle_order_cancelled.
handle_order_created(t) ==
    /\ <<t[1], "OrderCreated">> \notin processed
    /\ Begin(t, "reserve", "update", Lines(t[1]))

handle_order_cancelled(t) ==
    /\ <<t[1], "OrderCancelled">> \notin processed
    /\ Begin(t, "release", "select", {})

\* confirm_for_order, of an order that the catalog has reserved
confirm_for_order(t) ==
    /\ "InventoryReserved" \in announced[t[1]]
    /\ Begin(t, "confirm", "read", Lines(t[1]))

-----------------------------------------------------------------------------
(* The statements *)

\* Items are dealt with in the order's sequence; a release takes them as the
\* SELECT returns them, in any order.
InTurn(t, s) ==
    /\ s \in todo[t]
    /\ job[t] # "release" =>
        s = ItemsOf[t[1]][Len(ItemsOf[t[1]]) - Cardinality(todo[t]) + 1]

\* An UPDATE of a deleted SKU matches no row and takes no lock.
Locked(t, s) ==
    IF s \in deleted THEN UNCHANGED holder
    ELSE holder[s] = NoTx /\ holder' = [holder EXCEPT ![s] = t]

Dealt(t, s, next) ==
    /\ todo' = [todo EXCEPT ![t] = @ \ {s}]
    /\ done' = [done EXCEPT ![t] = @ \cup {s}]
    /\ pc' = [pc EXCEPT ![t] = IF todo[t] = {s} THEN "commit" ELSE next]

\* Seeded defect: stock that is reserved already is given away again.
AvailableIgnoresReserved(o, s) == s \notin deleted /\ stock[s] >= Quantity[o][s]

\* The WHERE clause of reserve_inventory.
Available(o, s) == s \notin deleted /\ stock[s] - reserved[s] >= Quantity[o][s]

\* write_reservation_failed_on_pool, in a transaction of its own that may fail
\* as well.
FailureWritten(o) ==
    announced' \in {announced, [announced EXCEPT ![o] = @ \cup {"InventoryReservationFailed"}]}

\* PostgreSQL aborts a reservation at a statement that fails: its locks go at
\* once, before the failure event is written.
Aborted(t) ==
    /\ holder' = [s \in Skus |-> IF holder[s] = t THEN NoTx ELSE holder[s]]
    /\ todo' = [todo EXCEPT ![t] = {}]
    /\ done' = [done EXCEPT ![t] = {}]
    /\ pc' = [pc EXCEPT ![t] = "failed"]
    /\ FailureWritten(t[1])

\* reserve_inventory: the UPDATE and the INSERT both succeed; or the INSERT finds
\* the row of another delivery (uq_reservation_order_sku); or the UPDATE matches
\* no row, which is no error to PostgreSQL, and the locks stay.
reserve_inventory(t) ==
    /\ job[t] = "reserve" /\ pc[t] = "update"
    /\ \E s \in Skus :
        /\ InTurn(t, s)
        /\ \/ /\ Available(t[1], s) /\ reservation[t[1]][s] = "none"
              /\ Locked(t, s) /\ Dealt(t, s, "update")
              /\ UNCHANGED announced
           \/ /\ Available(t[1], s) /\ reservation[t[1]][s] # "none"
              /\ holder[s] = NoTx
              /\ Aborted(t)
           \/ /\ ~ Available(t[1], s)
              /\ pc' = [pc EXCEPT ![t] = "failed"]
              /\ FailureWritten(t[1])
              /\ UNCHANGED <<holder, todo, done>>
    /\ UNCHANGED <<stock, reserved, deleted, reservation, job, sku, processed, history>>

\* Seeded defect: the failed transaction is left open.
RollbackForgotten(t) ==
    /\ pc[t] = "failed"
    /\ pc' = [pc EXCEPT ![t] = "idle"]
    /\ job' = [job EXCEPT ![t] = "none"]
    /\ UNCHANGED <<rows, holder, todo, done, sku, processed, history>>

\* The consumer rolls back and sends OrderCreated to the dead-letter topic; after
\* a crash, a failed publish or a duplicate of the event it is delivered again.
rollback_failed(t) ==
    /\ pc[t] = "failed"
    /\ End(t)
    /\ UNCHANGED <<rows, processed, history>>

\* Seeded defect: the SELECT does not ask for status = 'reserved'.
SelectAnyStatus(t) ==
    /\ pc[t] = "read"
    /\ \E s \in Skus :
        /\ InTurn(t, s)
        /\ sku' = [sku EXCEPT ![t] = s]
        /\ pc' = [pc EXCEPT ![t] = "update"]
    /\ UNCHANGED <<rows, holder, job, todo, done, processed, history>>

\* release_all_reservations: the list of the reservations.
release_all_reservations(t) ==
    /\ pc[t] = "select"
    /\ LET open == {s \in Lines(t[1]) : reservation[t[1]][s] = "reserved"} IN
        /\ todo' = [todo EXCEPT ![t] = open]
        /\ pc' = [pc EXCEPT ![t] = IF open = {} THEN "commit" ELSE "read"]
    /\ UNCHANGED <<rows, holder, job, sku, done, processed, history>>

\* The SELECT of release_reservation and confirm_reservation.  Finding nothing
\* makes confirm_for_order roll back; handle_order_cancelled only logs it, and
\* commits what was released before.
select_reservation(t) ==
    /\ pc[t] = "read"
    /\ \E s \in Skus :
        /\ InTurn(t, s)
        /\ IF reservation[t[1]][s] = "reserved"
           THEN /\ sku' = [sku EXCEPT ![t] = s]
                /\ pc' = [pc EXCEPT ![t] = "update"]
                /\ UNCHANGED <<holder, job, todo, done>>
           ELSE IF job[t] = "release"
           THEN /\ pc' = [pc EXCEPT ![t] = "commit"]
                /\ UNCHANGED <<holder, job, todo, done, sku>>
           ELSE End(t)
    /\ UNCHANGED <<rows, processed, history>>

\* chk_reserved_quantity and chk_skus_stock
ChecksHold(t, s) ==
    \/ s \in deleted
    \/ /\ reserved[s] >= Quantity[t[1]][s]
       /\ job[t] = "confirm" => stock[s] >= Quantity[t[1]][s]

\* The UPDATEs of release_reservation and confirm_reservation.  A violated
\* check aborts the transaction: the release is not marked processed, so it
\* may be delivered again.
settle_reservation(t) ==
    /\ job[t] \in {"release", "confirm"} /\ pc[t] = "update"
    /\ sku[t] \notin deleted => holder[sku[t]] = NoTx
    /\ IF ChecksHold(t, sku[t])
       THEN Locked(t, sku[t]) /\ Dealt(t, sku[t], "read") /\ UNCHANGED <<job, sku>>
       ELSE End(t)
    /\ UNCHANGED <<rows, processed, history>>

-----------------------------------------------------------------------------
(* Commit *)

\* What the transaction adds to a column of the SKUs it has dealt with.
Moved(t, column, sign) ==
    [s \in Skus |-> IF s \in done[t] \ deleted THEN column[s] + sign * Quantity[t[1]][s] ELSE column[s]]

Marked(t, value) ==
    [reservation EXCEPT ![t[1]] = [s \in Skus |-> IF s \in done[t] THEN value ELSE @[s]]]

\* Seeded defect: the reservation rows keep their status.
ReleaseForgetsStatus(t) ==
    /\ job[t] = "release"
    /\ reserved' = Moved(t, reserved, -1)
    /\ processed' = processed \cup {<<t[1], "OrderCancelled">>}
    /\ UNCHANGED <<stock, reservation, announced>>

\* Seeded defect: the failure event is written with the reservation.
ReserveAnnouncesFailure(t) ==
    /\ job[t] = "reserve"
    /\ reserved' = Moved(t, reserved, 1)
    /\ reservation' = Marked(t, "reserved")
    /\ announced' = [announced EXCEPT ![t[1]] = @ \cup {"InventoryReserved", "InventoryReservationFailed"}]
    /\ processed' = processed \cup {<<t[1], "OrderCreated">>}
    /\ UNCHANGED stock

\* do_reserve_and_write_event ends with the InventoryReserved event.
CommitReserve(t) ==
    /\ job[t] = "reserve"
    /\ reserved' = Moved(t, reserved, 1)
    /\ reservation' = Marked(t, "reserved")
    /\ announced' = [announced EXCEPT ![t[1]] = @ \cup {"InventoryReserved"}]
    /\ processed' = processed \cup {<<t[1], "OrderCreated">>}
    /\ UNCHANGED stock

CommitRelease(t) ==
    /\ job[t] = "release"
    /\ reserved' = Moved(t, reserved, -1)
    /\ reservation' = Marked(t, "released")
    /\ processed' = processed \cup {<<t[1], "OrderCancelled">>}
    /\ UNCHANGED <<stock, announced>>

CommitConfirm(t) ==
    /\ job[t] = "confirm"
    /\ reserved' = Moved(t, reserved, -1)
    /\ stock' = Moved(t, stock, -1)
    /\ reservation' = Marked(t, "confirmed")
    /\ UNCHANGED <<announced, processed>>

commit(t) ==
    /\ pc[t] = "commit"
    /\ CommitReserve(t) \/ CommitRelease(t) \/ CommitConfirm(t)
    /\ End(t)
    /\ UNCHANGED <<deleted, history>>

-----------------------------------------------------------------------------
(* PostgreSQL's deadlock detection, and crashes *)

\* The live SKU whose row lock the next UPDATE waits for.  A reservation whose
\* WHERE clause the committed row does not satisfy does not wait.
Wanted(t) ==
    IF pc[t] # "update" THEN {}
    ELSE IF job[t] = "reserve" THEN {s \in Skus : InTurn(t, s) /\ Available(t[1], s)}
    ELSE {sku[t]} \ deleted

WaitsFor(t, u) == \E s \in Wanted(t) : holder[s] = u

\* A transaction in a cycle of waits gets an error from its UPDATE and is
\* aborted.  A reservation reports it as a failed reservation; a release is
\* left unprocessed; a confirmation returns the error.
deadlock_detected(t) ==
    /\ \E D \in SUBSET Txs :
        t \in D /\ \A u \in D : \E v \in D : WaitsFor(u, v)
    /\ IF job[t] = "reserve"
       THEN Aborted(t) /\ UNCHANGED <<job, sku>>
       ELSE End(t) /\ UNCHANGED announced
    /\ UNCHANGED <<stock, reserved, deleted, reservation, processed, history>>

\* A crash between two statements; the event may be delivered again.
crash(t) ==
    /\ pc[t] # "idle"
    /\ End(t)
    /\ UNCHANGED <<rows, processed, history>>

-----------------------------------------------------------------------------
(* Administrators: one UPDATE each, which waits for the row lock *)

Administer(s) ==
    /\ admin < AdminLimit /\ admin' = admin + 1
    /\ s \notin deleted /\ holder[s] = NoTx
    /\ UNCHANGED <<reserved, reservation, announced, tx, processed, overlapped, redelivered>>

adjust_stock(s) ==
    /\ Administer(s)
    /\ \E delta \in Deltas :
        /\ stock[s] + delta \in 0..MaxStock
        /\ stock' = [stock EXCEPT ![s] = @ + delta]
    /\ UNCHANGED deleted

update_sku(s) ==
    /\ Administer(s)
    /\ \E quantity \in StockSettings : stock' = [stock EXCEPT ![s] = quantity]
    /\ UNCHANGED deleted

delete_sku(s) ==
    /\ Administer(s)
    /\ deleted' = deleted \cup {s}
    /\ UNCHANGED stock

-----------------------------------------------------------------------------

Statement(t) ==
    \/ reserve_inventory(t)
    \/ rollback_failed(t)
    \/ release_all_reservations(t)
    \/ select_reservation(t)
    \/ settle_reservation(t)
    \/ commit(t)

Next ==
    \/ \E t \in Txs :
        \/ handle_order_created(t) \/ handle_order_cancelled(t) \/ confirm_for_order(t)
        \/ Statement(t) \/ deadlock_detected(t) \/ crash(t)
    \/ \E s \in Skus : adjust_stock(s) \/ update_sku(s) \/ delete_sku(s)

Spec == Init /\ [][Next]_vars

-----------------------------------------------------------------------------
(* Properties *)

\* The units of a SKU that open reservations hold.
OpenUnits(s) ==
    UNION {{o} \X (1..Quantity[o][s]) : o \in {o \in Orders : reservation[o][s] = "reserved"}}

\* reserved_quantity of a live SKU is what the open reservations add up to,
\* through competing orders, redeliveries, overlapping reservations, rollbacks
\* and deadlocks.  Only two releases, or a release and a confirmation, of one
\* order at the same time can upset it, for the SKUs of that order: both have
\* read the reservation as reserved, without a lock, when each takes its turn
\* on the SKU.
ReservedBacked ==
    \A s \in Skus \ deleted :
        (\A o \in overlapped : s \notin Lines(o)) => reserved[s] = Cardinality(OpenUnits(s))

\* The order service gets one answer, and InventoryReserved exactly if the whole
\* order was reserved.  Both answers come only if OrderCreated is handled again:
\* after InventoryReservationFailed was written, since that event is committed
\* apart from the consumer's transaction, or by two members at once, one of which
\* finds the other's reservation rows and reports a failure.
OneAnswer ==
    \A o \in Orders :
        /\ Cardinality(announced[o]) > 1 => o \in redelivered
        /\ "InventoryReserved" \in announced[o] <=> \A s \in Lines(o) : reservation[o][s] # "none"

\* No step of the orders takes reserved_quantity above the stock: that happens
\* only when an administrator lowers the stock under standing reservations.
OversoldOnlyByAdmin ==
    [][\A s \in Skus :
        reserved[s] <= stock[s] /\ reserved'[s] > stock'[s] => admin' = admin + 1]_vars

\* The status of a settled reservation stays, whatever comes again or late, unless
\* two transactions that settle the order overlap: the later of a release and a
\* confirmation then overwrites the earlier.  (The later of two releases writes
\* 'released' over 'released'; what it does to the SKU is ReservedBacked's.)
SettledOnce ==
    [][\A o \in Orders : \A s \in Skus :
        reservation[o][s] \in {"released", "confirmed"} /\ reservation'[o][s] # reservation[o][s]
            => o \in overlapped]_vars

\* Transactions never all wait for row locks, whatever the order in which
\* orders name their SKUs: the one that is waited for goes on, or PostgreSQL
\* has a deadlock to resolve.
SomeTransactionMoves ==
    (\E t, u \in Txs : WaitsFor(t, u)) => \E t \in Txs : ENABLED (Statement(t) \/ deadlock_detected(t))

=============================================================================
