----------------------- MODULE CatalogInventoryProofs -----------------------
(***************************************************************************)
(* For any orders, items, stock, administrators' writes and any number of  *)
(* sessions that handle one order's events at once: what the row locks,    *)
(* the WHERE clauses and the reservation rows of the catalog guarantee     *)
(* about reserved stock and about the answer to the order service.         *)
(***************************************************************************)
EXTENDS CatalogInventory, TLAPS

Answers == {"InventoryReserved", "InventoryReservationFailed"}

\* The types.  stock and reserved stay natural numbers: no commit violates
\* chk_reserved_quantity or chk_skus_stock.
Typed ==
    /\ stock \in [Skus -> Nat] /\ reserved \in [Skus -> Nat]
    /\ deleted \subseteq Skus
    /\ reservation \in [Orders -> [Skus -> Statuses]]
    /\ announced \in [Orders -> SUBSET Answers]
    /\ holder \in [Skus -> Txs \cup {NoTx}]
    /\ job \in [Txs -> {"none", "reserve", "release", "confirm"}]
    /\ pc \in [Txs -> {"idle", "select", "read", "update", "failed", "commit"}]
    /\ sku \in [Txs -> Skus]
    /\ todo \in [Txs -> SUBSET Skus] /\ done \in [Txs -> SUBSET Skus]
    /\ admin \in Nat
    /\ overlapped \subseteq Orders /\ redelivered \subseteq Orders

\* The SKUs whose reservation transaction t has read or dealt with.
Seen(t) == done[t] \cup (IF pc[t] = "update" THEN {sku[t]} ELSE {})

\* What transaction t is at.  It holds the locks of the live SKUs it has dealt
\* with, and no others.
AtWork(t) ==
    /\ job[t] = "none" <=> pc[t] = "idle"
    /\ pc[t] = "failed" => job[t] = "reserve"
    /\ job[t] = "reserve" => pc[t] \in {"update", "failed", "commit"}
    /\ pc[t] = "idle" => done[t] = {}
    /\ \A s \in Skus : holder[s] = t <=> s \in done[t] /\ s \notin deleted

\* A reservation that has not failed.  It takes the order's first SKU first, whose
\* lock keeps every other reservation of the order from having dealt with any; so
\* the rows it has inserted are still missing from the table.
Reserving(t) ==
    job[t] = "reserve" /\ pc[t] # "failed" =>
        /\ todo[t] \cup done[t] = Lines(t[1])
        /\ pc[t] = "commit" => todo[t] = {}
        /\ done[t] # {} => ItemsOf[t[1]][1] \in done[t]
        /\ \A s \in done[t] : s \notin deleted /\ reservation[t[1]][s] = "none"

\* No answer is out while the only reservation of the order is under way, until it
\* has failed.
Awaited(t) ==
    job[t] = "reserve" /\ t[1] \notin redelivered =>
        /\ "InventoryReserved" \notin announced[t[1]]
        /\ pc[t] # "failed" => "InventoryReservationFailed" \notin announced[t[1]]

\* The reservations that a release or a confirmation goes by are still open, unless
\* two of them are under way or were.
ReadsStand(t) ==
    job[t] \in Settling =>
        /\ \A s \in Seen(t) : reservation[t[1]][s] # "none"
        /\ t[1] \notin overlapped => \A s \in Seen(t) : reservation[t[1]][s] = "reserved"

\* The conditions under which transaction t updated its rows still hold.
RowsChecked(t) ==
    \A s \in done[t] \ deleted :
        /\ job[t] = "reserve" => stock[s] - reserved[s] >= Quantity[t[1]][s]
        /\ job[t] \in Settling => reserved[s] >= Quantity[t[1]][s]
        /\ job[t] = "confirm" => stock[s] >= Quantity[t[1]][s]

\* What was announced about order o.
AnswersStand(o) ==
    /\ "InventoryReserved" \in announced[o] => \A s \in Lines(o) : reservation[o][s] # "none"
    /\ "InventoryReserved" \notin announced[o] => \A s \in Skus : reservation[o][s] = "none"
    /\ \A s \in Skus \ Lines(o) : reservation[o][s] = "none"
    /\ "InventoryReserved" \in announced[o] /\ "InventoryReservationFailed" \in announced[o]
           => o \in redelivered

\* Two transactions of one order that are under way and may upset each other.
Noted(t, u) ==
    t # u /\ t[1] = u[1] =>
        /\ job[t] \in Settling /\ job[u] \in Settling => t[1] \in overlapped
        /\ job[t] = "reserve" /\ job[u] = "reserve" => t[1] \in redelivered

\* What transaction t needs to keep.
Sound(t) == AtWork(t) /\ Reserving(t) /\ Awaited(t) /\ ReadsStand(t) /\ RowsChecked(t)

Inv ==
    /\ Typed
    /\ \A t \in Txs : Sound(t)
    /\ \A o \in Orders : AnswersStand(o)
    /\ \A t, u \in Txs : Noted(t, u)

Backed ==
    /\ \A s \in Skus : IsFiniteSet(OpenUnits(s))
    /\ ReservedBacked

-----------------------------------------------------------------------------
(* Transactions *)

\* A transaction belongs to an order.
LEMMA TxIs == NoTx \notin Txs /\ \A t \in Txs : t[1] \in Orders
BY InventoryAssumption DEF Txs

\* An order's items name SKUs, at least one; the first of them is the one in turn
\* when all are still to be dealt with.
LEMMA LinesAre ==
    \A o \in Orders : /\ Lines(o) # {} /\ Lines(o) \subseteq Skus
                      /\ ItemsOf[o][1] \in Skus /\ ItemsOf[o][1] \in Lines(o)
                      /\ Len(ItemsOf[o]) - Cardinality(Lines(o)) + 1 = 1
<1> TAKE o \in Orders
<1>1. ItemsOf[o] \in Seq(Skus) /\ Lines(o) # {} /\ Cardinality(Lines(o)) = Len(ItemsOf[o])
  BY Zenon, InventoryAssumption
<1>2. 1 \in DOMAIN ItemsOf[o]
  BY <1>1 DEF Lines
<1>3. Lines(o) \subseteq Skus
  BY <1>1 DEF Lines
<1>4. ItemsOf[o][1] \in Skus /\ ItemsOf[o][1] \in Lines(o)
  BY <1>1, <1>2 DEF Lines
<1>5. Len(ItemsOf[o]) \in Nat
  BY <1>1
<1>6. Len(ItemsOf[o]) - Len(ItemsOf[o]) + 1 = 1
  BY <1>5
<1> QED  BY Zenon, <1>1, <1>3, <1>4, <1>6

\* A step of transaction t leaves the others alone.
Alone(t) ==
    /\ \A u \in Txs \ {t} : /\ job'[u] = job[u] /\ pc'[u] = pc[u] /\ sku'[u] = sku[u]
                            /\ todo'[u] = todo[u] /\ done'[u] = done[u]
    /\ \A s \in Skus : \A u \in Txs \ {t} : holder'[s] = u <=> holder[s] = u

TxTyped ==
    /\ holder \in [Skus -> Txs \cup {NoTx}]
    /\ job \in [Txs -> {"none", "reserve", "release", "confirm"}]
    /\ pc \in [Txs -> {"idle", "select", "read", "update", "failed", "commit"}]
    /\ sku \in [Txs -> Skus]
    /\ todo \in [Txs -> SUBSET Skus] /\ done \in [Txs -> SUBSET Skus]

\* While the committed rows stay, and answers come only where they are noted.
LEMMA OthersSound ==
    ASSUME Inv, NEW t \in Txs, Alone(t), NEW u \in Txs \ {t},
           UNCHANGED <<stock, reserved, deleted, reservation>>,
           overlapped \subseteq overlapped', redelivered \subseteq redelivered',
           job[u] = "reserve" => announced'[u[1]] = announced[u[1]] \/ u[1] \in redelivered'
    PROVE  Sound(u)'
<1>1. AtWork(u) /\ Reserving(u) /\ Awaited(u) /\ ReadsStand(u) /\ RowsChecked(u)
  BY Zenon DEF Inv, Sound
<1>2. /\ job'[u] = job[u] /\ pc'[u] = pc[u] /\ sku'[u] = sku[u]
      /\ todo'[u] = todo[u] /\ done'[u] = done[u] /\ Seen(u)' = Seen(u)
      /\ \A s \in Skus : holder'[s] = u <=> holder[s] = u
  BY Zenon DEF Alone, Seen
<1>3. AtWork(u)'
  BY Zenon, <1>1, <1>2 DEF AtWork
<1>4. Reserving(u)'
  BY Zenon, <1>1, <1>2 DEF Reserving
<1>5. Awaited(u)'
  BY Zenon, <1>1, <1>2 DEF Awaited
<1>6. ReadsStand(u)'
  BY Zenon, <1>1, <1>2 DEF ReadsStand
<1>7. RowsChecked(u)'
  BY Zenon, <1>1, <1>2 DEF RowsChecked
<1> QED  BY Zenon, <1>3, <1>4, <1>5, <1>6, <1>7 DEF Sound

\* The end of a transaction.
LEMMA EndEffect ==
    ASSUME Typed, NEW t \in Txs, End(t)
    PROVE  /\ TxTyped' /\ Alone(t)
           /\ job'[t] = "none" /\ pc'[t] = "idle" /\ done'[t] = {} /\ todo'[t] = {}
           /\ \A s \in Skus : holder'[s] # t
<1>1. t[1] \in Orders /\ NoTx # t
  BY Zenon, TxIs
<1>2. ItemsOf[t[1]][1] \in Skus
  BY Zenon, <1>1, LinesAre
<1>3. TxTyped'
  BY <1>2 DEF Typed, End, TxTyped
<1>4. /\ job'[t] = "none" /\ pc'[t] = "idle" /\ done'[t] = {} /\ todo'[t] = {}
      /\ \A u \in Txs \ {t} : /\ job'[u] = job[u] /\ pc'[u] = pc[u] /\ sku'[u] = sku[u]
                              /\ todo'[u] = todo[u] /\ done'[u] = done[u]
  BY DEF Typed, End
<1>5. \A s \in Skus : holder'[s] # t /\ \A u \in Txs \ {t} : holder'[s] = u <=> holder[s] = u
  BY <1>1, TxIs DEF End
<1> QED  BY <1>3, <1>4, <1>5 DEF Alone

\* After its end a transaction owes nothing.
LEMMA EndSound ==
    ASSUME NEW t \in Txs, job'[t] = "none", pc'[t] = "idle", done'[t] = {},
           \A s \in Skus : holder'[s] # t
    PROVE  Sound(t)'
BY DEF Sound, AtWork, Reserving, Awaited, ReadsStand, RowsChecked, Settling

\* The answers stand while the reservations do.
LEMMA AnswersKept ==
    ASSUME Inv, UNCHANGED <<reservation, announced>>, redelivered \subseteq redelivered'
    PROVE  \A o \in Orders : AnswersStand(o)'
BY Zenon DEF Inv, AnswersStand

\* Transactions that overlap stay noted when none begins.
LEMMA NotedKept ==
    ASSUME Inv, NEW t \in Txs, Alone(t), overlapped' = overlapped, redelivered' = redelivered,
           job'[t] \in {job[t], "none"}
    PROVE  \A v, u \in Txs : Noted(v, u)'
<1> SUFFICES ASSUME NEW v \in Txs, NEW u \in Txs PROVE Noted(v, u)'
  OBVIOUS
<1>1. job'[v] \in {job[v], "none"} /\ job'[u] \in {job[u], "none"}
  BY Zenon DEF Alone
<1>2. Noted(v, u)
  BY Zenon DEF Inv
<1> QED  BY <1>1, <1>2 DEF Noted, Settling

\* A statement that commits nothing.
LEMMA TxStep ==
    ASSUME Inv, NEW t \in Txs, TxTyped', Alone(t), Sound(t)',
           UNCHANGED <<stock, reserved, deleted, reservation, announced, admin, overlapped, redelivered>>,
           job'[t] \in {job[t], "none"}
    PROVE  Inv'
<1>1. Typed'
  BY Zenon DEF Inv, Typed, TxTyped
<1>2. \A u \in Txs : Sound(u)'
  BY Zenon, OthersSound
<1>3. (\A o \in Orders : AnswersStand(o)') /\ \A v, u \in Txs : Noted(v, u)'
  BY Zenon, AnswersKept, NotedKept
<1> QED  BY Zenon, <1>1, <1>2, <1>3 DEF Inv

\* A transaction that ends without a commit.
LEMMA AbortKeepsInv ==
    ASSUME Inv, NEW t \in Txs, End(t),
           UNCHANGED <<stock, reserved, deleted, reservation, announced, admin, overlapped, redelivered>>
    PROVE  Inv'
<1>1. /\ TxTyped' /\ Alone(t)
      /\ job'[t] = "none" /\ pc'[t] = "idle" /\ done'[t] = {} /\ todo'[t] = {}
      /\ \A s \in Skus : holder'[s] # t
  BY Zenon, EndEffect DEF Inv
<1>2. Sound(t)'
  BY Zenon, <1>1, EndSound
<1> QED  BY Zenon, <1>1, <1>2, TxStep

\* A lock that is taken, on a row that is there and free.
LEMMA LockEffect ==
    ASSUME Inv, NEW t \in Txs, NEW s \in Skus, Locked(t, s)
    PROVE  /\ holder' \in [Skus -> Txs \cup {NoTx}]
           /\ \A r \in Skus : \A u \in Txs \ {t} : holder'[r] = u <=> holder[r] = u
           /\ \A r \in Skus : holder'[r] = t <=> r \in done[t] \cup {s} /\ r \notin deleted
<1>1. holder \in [Skus -> Txs \cup {NoTx}] /\ NoTx # t /\ \A u \in Txs : NoTx # u
  BY Zenon, TxIs DEF Inv, Typed
<1>2. \A r \in Skus : holder[r] = t <=> r \in done[t] /\ r \notin deleted
  BY Zenon DEF Inv, Sound, AtWork
<1>3. CASE s \in deleted /\ UNCHANGED holder
  BY <1>1, <1>2, <1>3
<1>4. CASE s \notin deleted /\ holder[s] = NoTx /\ holder' = [holder EXCEPT ![s] = t]
  BY <1>1, <1>2, <1>4
<1> QED  BY <1>3, <1>4 DEF Locked

\* A SKU is dealt with.
LEMMA DealtEffect ==
    ASSUME Inv, NEW t \in Txs, NEW s \in Skus, NEW next \in {"update", "read"}, Locked(t, s),
           Dealt(t, s, next), UNCHANGED <<job, sku>>
    PROVE  /\ TxTyped' /\ Alone(t)
           /\ done'[t] = done[t] \cup {s} /\ todo'[t] = todo[t] \ {s}
           /\ pc'[t] = IF todo[t] = {s} THEN "commit" ELSE next
           /\ \A r \in Skus : holder'[r] = t <=> r \in done'[t] /\ r \notin deleted
<1>1. Typed
  BY DEF Inv
<1>2. /\ todo' \in [Txs -> SUBSET Skus] /\ done' \in [Txs -> SUBSET Skus]
      /\ done'[t] = done[t] \cup {s} /\ todo'[t] = todo[t] \ {s}
      /\ \A u \in Txs \ {t} : todo'[u] = todo[u] /\ done'[u] = done[u]
  BY <1>1 DEF Typed, Dealt
<1>3. /\ pc' \in [Txs -> {"idle", "select", "read", "update", "failed", "commit"}]
      /\ pc'[t] = IF todo[t] = {s} THEN "commit" ELSE next
      /\ \A u \in Txs \ {t} : pc'[u] = pc[u]
  BY <1>1 DEF Typed, Dealt
<1>4. /\ holder' \in [Skus -> Txs \cup {NoTx}]
      /\ \A r \in Skus : \A u \in Txs \ {t} : holder'[r] = u <=> holder[r] = u
      /\ \A r \in Skus : holder'[r] = t <=> r \in done[t] \cup {s} /\ r \notin deleted
  BY LockEffect
<1>5. TxTyped'
  BY <1>1, <1>2, <1>3, <1>4 DEF Typed, TxTyped
<1> QED  BY <1>2, <1>3, <1>4, <1>5 DEF Alone

\* A reservation that fails, with or without the event that says so.
LEMMA FailKeepsInv ==
    ASSUME Inv, NEW t \in Txs, job[t] = "reserve", pc[t] = "update",
           TxTyped', Alone(t), job' = job, pc'[t] = "failed", done'[t] \subseteq done[t],
           \A s \in Skus : holder'[s] = t <=> s \in done'[t] /\ s \notin deleted,
           FailureWritten(t[1]),
           UNCHANGED <<stock, reserved, deleted, reservation, admin, overlapped, redelivered>>
    PROVE  Inv'
<1>1. t[1] \in Orders /\ Typed /\ AtWork(t) /\ Awaited(t) /\ RowsChecked(t)
  BY Zenon, TxIs DEF Inv, Sound
<1>2. /\ announced' \in [Orders -> SUBSET Answers]
      /\ \A o \in Orders : "InventoryReserved" \in announced'[o] <=> "InventoryReserved" \in announced[o]
      /\ \A o \in Orders \ {t[1]} : announced'[o] = announced[o]
  <2>1. announced \in [Orders -> SUBSET Answers] /\ "InventoryReservationFailed" \in Answers
    BY <1>1 DEF Typed, Answers
  <2>2. CASE announced' = announced
    BY <2>1, <2>2
  <2>3. CASE announced' = [announced EXCEPT ![t[1]] = @ \cup {"InventoryReservationFailed"}]
    BY <1>1, <2>1, <2>3
  <2> QED  BY <2>2, <2>3 DEF FailureWritten
<1>3. Typed'
  BY Zenon, <1>1, <1>2 DEF Typed, TxTyped
<1>4. Sound(t)'
  <2>1. job'[t] = "reserve" /\ pc'[t] = "failed"
    BY Zenon
  <2>2. AtWork(t)'
    BY <1>1, <2>1 DEF AtWork
  <2>3. Reserving(t)' /\ Awaited(t)'
    BY Zenon, <1>1, <1>2, <2>1 DEF Reserving, Awaited
  <2>4. ReadsStand(t)'
    BY <2>1 DEF ReadsStand, Settling
  <2>5. RowsChecked(t)'
    BY Zenon, <1>1 DEF RowsChecked
  <2> QED  BY Zenon, <2>2, <2>3, <2>4, <2>5 DEF Sound
<1>5. ASSUME NEW u \in Txs \ {t} PROVE Sound(u)'
  <2>1. Noted(u, t) /\ u[1] \in Orders
    BY Zenon, TxIs DEF Inv
  <2>2. job[u] = "reserve" => announced'[u[1]] = announced[u[1]] \/ u[1] \in redelivered
    BY Zenon, <1>2, <2>1 DEF Noted
  <2> QED  BY Zenon, <2>2, OthersSound
<1>6. ASSUME NEW o \in Orders PROVE AnswersStand(o)'
  <2>1. AnswersStand(o)
    BY Zenon DEF Inv
  <2>2. "InventoryReserved" \in announced[o] =>
          announced'[o] = announced[o] \/ o \in redelivered
    BY Zenon, <1>1, <1>2 DEF Awaited
  <2> QED  BY Zenon, <1>2, <2>1, <2>2 DEF AnswersStand
<1>7. \A v, u \in Txs : Noted(v, u)'
  BY Zenon, NotedKept
<1> QED  BY Zenon, <1>3, <1>4, <1>5, <1>6, <1>7 DEF Inv

-----------------------------------------------------------------------------
(* The statements *)

\* PostgreSQL aborts a reservation: the locks go, the failure is reported.
LEMMA AbortedKeepsInv ==
    ASSUME Inv, NEW t \in Txs, job[t] = "reserve", pc[t] = "update", Aborted(t),
           UNCHANGED <<stock, reserved, deleted, reservation, job, sku, admin, overlapped, redelivered>>
    PROVE  Inv'
<1>1. Typed /\ t[1] \in Orders
  BY Zenon, TxIs DEF Inv
<1>2. TxTyped' /\ pc'[t] = "failed" /\ done'[t] = {} /\ FailureWritten(t[1])
  BY <1>1 DEF Typed, TxTyped, Aborted
<1>3. /\ \A u \in Txs \ {t} : pc'[u] = pc[u] /\ todo'[u] = todo[u] /\ done'[u] = done[u]
      /\ \A s \in Skus : holder'[s] # t /\ \A u \in Txs \ {t} : holder'[s] = u <=> holder[s] = u
  BY <1>1, TxIs DEF Typed, Aborted
<1>4. Alone(t)
  BY Zenon, <1>3 DEF Alone
<1> QED  BY Zenon, <1>2, <1>3, <1>4, FailKeepsInv

\* The first SKU that a reservation takes is the first of the order.
LEMMA FirstInTurn ==
    ASSUME Inv, NEW t \in Txs, NEW s \in Skus, job[t] = "reserve", pc[t] = "update", InTurn(t, s)
    PROVE  ItemsOf[t[1]][1] \in done[t] \cup {s}
<1>1. t[1] \in Orders /\ Reserving(t)
  BY Zenon, TxIs DEF Inv, Sound
<1>2. todo[t] \cup done[t] = Lines(t[1]) /\ (done[t] # {} => ItemsOf[t[1]][1] \in done[t])
  BY <1>1 DEF Reserving
<1>3. s = ItemsOf[t[1]][Len(ItemsOf[t[1]]) - Cardinality(todo[t]) + 1]
  BY DEF InTurn
<1>4. CASE done[t] = {}
  <2>1. todo[t] = Lines(t[1])
    BY <1>2, <1>4
  <2>2. s = ItemsOf[t[1]][Len(ItemsOf[t[1]]) - Cardinality(Lines(t[1])) + 1]
    BY Zenon, <1>3, <2>1
  <2>3. s = ItemsOf[t[1]][1]
    BY Zenon, <1>1, <2>2, LinesAre
  <2> QED  BY Zenon, <2>3
<1> QED  BY Zenon, <1>2, <1>4

\* reserve_inventory takes the row and finds enough stock, or fails.
LEMMA ReserveKeepsInv ==
    ASSUME Inv, NEW t \in Txs, reserve_inventory(t)
    PROVE  Inv'
<1>1. /\ Typed /\ AtWork(t) /\ Reserving(t) /\ Awaited(t) /\ RowsChecked(t)
      /\ t[1] \in Orders
  BY Zenon, TxIs DEF Inv, Sound
<1>2. /\ job[t] = "reserve" /\ pc[t] = "update"
      /\ UNCHANGED <<stock, reserved, deleted, reservation>>
      /\ UNCHANGED <<job, sku, admin, overlapped, redelivered>>
  BY Zenon DEF reserve_inventory, history
<1>3. PICK s \in Skus :
        /\ InTurn(t, s)
        /\ \/ /\ Available(t[1], s) /\ reservation[t[1]][s] = "none"
              /\ Locked(t, s) /\ Dealt(t, s, "update")
              /\ UNCHANGED announced
           \/ Aborted(t)
           \/ /\ pc' = [pc EXCEPT ![t] = "failed"]
              /\ FailureWritten(t[1])
              /\ UNCHANGED <<holder, todo, done>>
  BY Zenon DEF reserve_inventory
<1>4. CASE /\ Available(t[1], s) /\ reservation[t[1]][s] = "none"
           /\ Locked(t, s) /\ Dealt(t, s, "update") /\ UNCHANGED announced
  <2>1. /\ TxTyped' /\ Alone(t)
        /\ done'[t] = done[t] \cup {s} /\ todo'[t] = todo[t] \ {s}
        /\ pc'[t] = IF todo[t] = {s} THEN "commit" ELSE "update"
        /\ \A r \in Skus : holder'[r] = t <=> r \in done'[t] /\ r \notin deleted
    BY Zenon, <1>2, <1>4, DealtEffect
  <2>2. s \in todo[t] /\ s \notin deleted /\ stock[s] - reserved[s] >= Quantity[t[1]][s]
    BY Zenon, <1>3, <1>4 DEF InTurn, Available
  <2>3. pc'[t] \in {"commit", "update"} /\ job'[t] = "reserve"
    BY Zenon, <1>2, <2>1
  <2>4. AtWork(t)'
    BY Zenon, <1>1, <1>2, <2>1, <2>3 DEF AtWork
  <2>5. Reserving(t)'
    <3>1. todo[t] \cup done[t] = Lines(t[1]) /\ \A r \in done[t] : r \notin deleted /\ reservation[t[1]][r] = "none"
      BY Zenon, <1>1, <1>2 DEF Reserving
    <3>2. todo'[t] \cup done'[t] = Lines(t[1]) /\ (pc'[t] = "commit" => todo'[t] = {})
      BY <2>1, <2>2, <3>1
    <3>3. ItemsOf[t[1]][1] \in done'[t]
      BY Zenon, <1>2, <1>3, <2>1, FirstInTurn
    <3>4. \A r \in done'[t] : r \notin deleted' /\ reservation'[t[1]][r] = "none"
      BY Zenon, <1>2, <1>4, <2>1, <2>2, <3>1
    <3> QED  BY Zenon, <3>2, <3>3, <3>4 DEF Reserving
  <2>6. Awaited(t)'
    BY Zenon, <1>1, <1>2, <1>4 DEF Awaited
  <2>7. ReadsStand(t)'
    BY <2>3 DEF ReadsStand, Settling
  <2>8. RowsChecked(t)'
    <3>1. \A r \in done'[t] : r \notin deleted => stock[r] - reserved[r] >= Quantity[t[1]][r]
      BY Zenon, <1>1, <1>2, <2>1, <2>2 DEF RowsChecked
    <3>2. job'[t] \notin Settling /\ job'[t] # "confirm"
      BY <2>3 DEF Settling
    <3> QED  BY Zenon, <1>2, <3>1, <3>2 DEF RowsChecked
  <2>9. Sound(t)'
    BY Zenon, <2>4, <2>5, <2>6, <2>7, <2>8 DEF Sound
  <2> QED  BY Zenon, <1>2, <1>4, <2>1, <2>9, TxStep
<1>5. CASE /\ pc' = [pc EXCEPT ![t] = "failed"]
           /\ FailureWritten(t[1])
           /\ UNCHANGED <<holder, todo, done>>
  <2>1. TxTyped' /\ Alone(t) /\ pc'[t] = "failed"
    BY <1>1, <1>2, <1>5 DEF TxTyped, Typed, Alone
  <2>2. \A r \in Skus : holder'[r] = t <=> r \in done'[t] /\ r \notin deleted
    BY Zenon, <1>1, <1>5 DEF AtWork
  <2> QED  BY Zenon, <1>2, <1>5, <2>1, <2>2, FailKeepsInv
<1>6. CASE Aborted(t)
  BY Zenon, <1>2, <1>6, AbortedKeepsInv
<1> QED  BY Zenon, <1>3, <1>4, <1>5, <1>6

\* A release or a confirmation that has gone on, with the reservations it has read.
LEMMA SettlingStep ==
    ASSUME Inv, NEW t \in Txs, job[t] \in Settling, job' = job, TxTyped', Alone(t),
           pc'[t] \in {"read", "update", "commit"},
           \A s \in Skus : holder'[s] = t <=> s \in done'[t] /\ s \notin deleted,
           \A s \in Seen(t)' : s \in Seen(t) \/ reservation[t[1]][s] = "reserved",
           RowsChecked(t)',
           UNCHANGED <<stock, reserved, deleted, reservation, announced, admin, overlapped, redelivered>>
    PROVE  Inv'
<1>1. AtWork(t) /\ ReadsStand(t)
  BY Zenon DEF Inv, Sound
<1>2. job'[t] = job[t] /\ job[t] # "none" /\ job[t] # "reserve"
  BY DEF Settling
<1>3. AtWork(t)'
  BY <1>2 DEF AtWork
<1>4. Reserving(t)' /\ Awaited(t)'
  BY Zenon, <1>2 DEF Reserving, Awaited
<1>5. ReadsStand(t)'
  <2>1. ASSUME NEW s \in Seen(t)'
        PROVE  /\ reservation[t[1]][s] # "none"
               /\ t[1] \notin overlapped => reservation[t[1]][s] = "reserved"
    <3>1. CASE s \in Seen(t)
      BY Zenon, <1>1, <3>1 DEF ReadsStand
    <3>2. CASE reservation[t[1]][s] = "reserved"
      BY <3>2
    <3> QED  BY Zenon, <2>1, <3>1, <3>2
  <2> QED  BY Zenon, <2>1 DEF ReadsStand
<1>6. Sound(t)'
  BY Zenon, <1>3, <1>4, <1>5 DEF Sound
<1> QED  BY Zenon, <1>2, <1>6, TxStep

\* release_all_reservations looks for the reservations of the order.
LEMMA ReleaseAllKeepsInv ==
    ASSUME Inv, NEW t \in Txs, release_all_reservations(t)
    PROVE  Inv'
<1>1. Typed /\ AtWork(t) /\ RowsChecked(t) /\ t[1] \in Orders
  BY Zenon, TxIs DEF Inv, Sound
<1>2. /\ pc[t] = "select" /\ UNCHANGED <<stock, reserved, deleted, reservation, announced>>
      /\ UNCHANGED <<holder, job, sku, done, admin, overlapped, redelivered>>
  BY Zenon DEF release_all_reservations, rows, history
<1>3. Lines(t[1]) \subseteq Skus
  BY Zenon, <1>1, LinesAre
<1>4. /\ todo' \in [Txs -> SUBSET Skus] /\ \A u \in Txs \ {t} : todo'[u] = todo[u]
      /\ pc' \in [Txs -> {"idle", "select", "read", "update", "failed", "commit"}]
      /\ pc'[t] \in {"commit", "read"} /\ \A u \in Txs \ {t} : pc'[u] = pc[u]
  BY <1>1, <1>3 DEF release_all_reservations, Typed
<1>5. TxTyped' /\ Alone(t)
  BY <1>1, <1>2, <1>4 DEF TxTyped, Typed, Alone
<1>6. job[t] \in Settling
  BY <1>1, <1>2 DEF AtWork, Typed, Settling
<1>7. Seen(t)' \subseteq Seen(t) /\ pc'[t] \in {"read", "update", "commit"}
  BY <1>2, <1>4 DEF Seen
<1>8. RowsChecked(t)' /\ \A s \in Skus : holder'[s] = t <=> s \in done'[t] /\ s \notin deleted
  BY Zenon, <1>1, <1>2 DEF RowsChecked, AtWork
<1> QED  BY Zenon, <1>2, <1>5, <1>6, <1>7, <1>8, SettlingStep

\* The SELECT of one reservation, without a lock.
LEMMA SelectKeepsInv ==
    ASSUME Inv, NEW t \in Txs, select_reservation(t)
    PROVE  Inv'
<1>1. Typed /\ AtWork(t) /\ RowsChecked(t) /\ t[1] \in Orders
  BY Zenon, TxIs DEF Inv, Sound
<1>2. /\ pc[t] = "read" /\ UNCHANGED <<stock, reserved, deleted, reservation, announced>>
      /\ UNCHANGED <<admin, overlapped, redelivered>>
  BY Zenon DEF select_reservation, rows, history
<1>3. job[t] \in Settling
  BY <1>1, <1>2 DEF AtWork, Typed, Settling
<1>4. CASE End(t)
  BY Zenon, <1>2, <1>4, AbortKeepsInv
<1>5. ASSUME NEW s \in Skus, reservation[t[1]][s] = "reserved", sku' = [sku EXCEPT ![t] = s],
             pc' = [pc EXCEPT ![t] = "update"], UNCHANGED <<holder, job, todo, done>>
      PROVE  Inv'
  <2>1. TxTyped' /\ Alone(t) /\ pc'[t] = "update" /\ Seen(t)' = done[t] \cup {s}
    BY Zenon, <1>1, <1>5 DEF TxTyped, Typed, Alone, Seen
  <2>2. \A r \in Seen(t)' : r \in Seen(t) \/ reservation[t[1]][r] = "reserved"
    BY Zenon, <1>5, <2>1 DEF Seen
  <2>3. RowsChecked(t)' /\ \A r \in Skus : holder'[r] = t <=> r \in done'[t] /\ r \notin deleted
    BY Zenon, <1>1, <1>2, <1>5 DEF RowsChecked, AtWork
  <2>4. pc'[t] \in {"read", "update", "commit"}
    BY Zenon, <2>1
  <2> QED  BY Zenon, <1>2, <1>3, <1>5, <2>1, <2>2, <2>3, <2>4, SettlingStep
<1>6. CASE pc' = [pc EXCEPT ![t] = "commit"] /\ UNCHANGED <<holder, job, todo, done, sku>>
  <2>1. TxTyped' /\ Alone(t) /\ pc'[t] = "commit" /\ Seen(t)' = done[t]
    BY Zenon, <1>1, <1>6 DEF TxTyped, Typed, Alone, Seen
  <2>2. \A r \in Seen(t)' : r \in Seen(t) \/ reservation[t[1]][r] = "reserved"
    BY Zenon, <2>1 DEF Seen
  <2>3. RowsChecked(t)' /\ \A r \in Skus : holder'[r] = t <=> r \in done'[t] /\ r \notin deleted
    BY Zenon, <1>1, <1>2, <1>6 DEF RowsChecked, AtWork
  <2>4. pc'[t] \in {"read", "update", "commit"}
    BY Zenon, <2>1
  <2> QED  BY Zenon, <1>2, <1>3, <1>6, <2>1, <2>2, <2>3, <2>4, SettlingStep
<1> QED  BY Zenon, <1>4, <1>5, <1>6 DEF select_reservation

\* The UPDATE of the SKU row by a release or a confirmation.
LEMMA SettleKeepsInv ==
    ASSUME Inv, NEW t \in Txs, settle_reservation(t)
    PROVE  Inv'
<1>1. Typed /\ AtWork(t) /\ RowsChecked(t) /\ t[1] \in Orders
  BY Zenon, TxIs DEF Inv, Sound
<1>2. /\ pc[t] = "update" /\ job[t] \in Settling
      /\ UNCHANGED <<stock, reserved, deleted, reservation, announced>>
      /\ UNCHANGED <<admin, overlapped, redelivered>>
  BY Zenon DEF settle_reservation, Settling, rows, history
<1>3. sku[t] \in Skus /\ Seen(t) = done[t] \cup {sku[t]}
  BY Zenon, <1>1, <1>2 DEF Typed, Seen
<1>4. CASE End(t)
  BY Zenon, <1>2, <1>4, AbortKeepsInv
<1>5. CASE /\ ChecksHold(t, sku[t]) /\ Locked(t, sku[t]) /\ Dealt(t, sku[t], "read")
           /\ UNCHANGED <<job, sku>>
  <2>1. /\ TxTyped' /\ Alone(t)
        /\ done'[t] = done[t] \cup {sku[t]} /\ todo'[t] = todo[t] \ {sku[t]}
        /\ pc'[t] = IF todo[t] = {sku[t]} THEN "commit" ELSE "read"
        /\ \A r \in Skus : holder'[r] = t <=> r \in done'[t] /\ r \notin deleted
    BY <1>3, <1>5, DealtEffect
  <2>2. pc'[t] \in {"read", "update", "commit"} /\ pc'[t] # "update"
    BY <2>1
  <2>3. \A r \in Seen(t)' : r \in Seen(t) \/ reservation[t[1]][r] = "reserved"
    BY Zenon, <1>3, <2>1, <2>2 DEF Seen
  <2>4. RowsChecked(t)'
    <3>1. job[t] # "reserve" /\ job'[t] = job[t]
      BY <1>2, <1>5 DEF Settling
    <3> QED  BY Zenon, <1>1, <1>2, <1>5, <2>1, <3>1 DEF RowsChecked, ChecksHold
  <2> QED  BY Zenon, <1>2, <1>5, <2>1, <2>2, <2>3, <2>4, SettlingStep
<1> QED  BY Zenon, <1>4, <1>5 DEF settle_reservation

\* A failed reservation is rolled back; a process that dies leaves no trace.
LEMMA RollbackKeepsInv ==
    ASSUME Inv, NEW t \in Txs, rollback_failed(t) \/ crash(t)
    PROVE  Inv'
<1>1. /\ End(t) /\ UNCHANGED <<stock, reserved, deleted, reservation, announced>>
      /\ UNCHANGED <<admin, overlapped, redelivered>>
  BY Zenon DEF rollback_failed, crash, rows, history
<1> QED  BY Zenon, <1>1, AbortKeepsInv

-----------------------------------------------------------------------------
(* Commits *)

\* Of the reservations of one order under way, only one has dealt with a SKU.
LEMMA OneReserves ==
    ASSUME Inv, NEW t \in Txs, NEW u \in Txs \ {t}, t[1] = u[1],
           job[t] = "reserve", pc[t] # "failed", job[u] = "reserve", pc[u] # "failed"
    PROVE  done[t] = {} \/ done[u] = {}
<1>1. /\ AtWork(t) /\ AtWork(u) /\ Reserving(t) /\ Reserving(u) /\ t[1] \in Orders
  BY Zenon, TxIs DEF Inv, Sound
<1>2. ItemsOf[t[1]][1] \in Skus
  BY Zenon, <1>1, LinesAre
<1>3. ASSUME NEW v \in {t, u}, done[v] # {} PROVE holder[ItemsOf[t[1]][1]] = v
  <2>1. AtWork(v) /\ ItemsOf[t[1]][1] \in done[v] /\ ItemsOf[t[1]][1] \notin deleted
    BY Zenon, <1>1, <1>3 DEF Reserving
  <2> QED  BY Zenon, <1>2, <2>1 DEF AtWork
<1> QED  BY Zenon, <1>3

\* What the three kinds of commit have in common: the rows that change are
\* locked, so no other transaction has checked them.
LEMMA CommitCommon ==
    ASSUME Inv, NEW t \in Txs, pc[t] = "commit", End(t),
           UNCHANGED <<deleted, admin, overlapped, redelivered>>,
           NEW value \in Statuses \ {"none"}, reservation' = Marked(t, value),
           stock' \in [Skus -> Nat], reserved' \in [Skus -> Nat],
           \A s \in Skus : ~(s \in done[t] /\ s \notin deleted) => stock'[s] = stock[s] /\ reserved'[s] = reserved[s],
           announced' \in [Orders -> SUBSET Answers],
           \A o \in Orders \ {t[1]} : announced'[o] = announced[o],
           AnswersStand(t[1])',
           \A u \in Txs \ {t} : u[1] = t[1] =>
               /\ job[u] = "reserve" => announced'[u[1]] = announced[u[1]] \/ u[1] \in redelivered
               /\ job[u] = "reserve" /\ pc[u] # "failed" => done[t] \cap done[u] = {}
               /\ job[u] \in Settling => t[1] \in overlapped \/ done[t] \cap Seen(u) = {}
    PROVE  Inv'
<1>1. Typed /\ AtWork(t) /\ t[1] \in Orders
  BY Zenon, TxIs DEF Inv, Sound
<1>2. /\ TxTyped' /\ Alone(t)
      /\ job'[t] = "none" /\ pc'[t] = "idle" /\ done'[t] = {} /\ todo'[t] = {}
      /\ \A s \in Skus : holder'[s] # t
  BY Zenon, <1>1, EndEffect
<1>3. /\ reservation' \in [Orders -> [Skus -> Statuses]]
      /\ \A o \in Orders \ {t[1]} : reservation'[o] = reservation[o]
      /\ \A s \in Skus : reservation'[t[1]][s] = IF s \in done[t] THEN value ELSE reservation[t[1]][s]
  BY <1>1 DEF Typed, Marked
<1>4. Typed'
  BY Zenon, <1>1, <1>2, <1>3 DEF Typed, TxTyped
<1>5. Sound(t)'
  BY Zenon, <1>2, EndSound
<1>6. ASSUME NEW u \in Txs \ {t} PROVE Sound(u)'
  <2>1. AtWork(u) /\ Reserving(u) /\ Awaited(u) /\ ReadsStand(u) /\ RowsChecked(u) /\ u[1] \in Orders
    BY Zenon, TxIs DEF Inv, Sound
  <2>2. /\ job'[u] = job[u] /\ pc'[u] = pc[u] /\ sku'[u] = sku[u]
        /\ todo'[u] = todo[u] /\ done'[u] = done[u] /\ Seen(u)' = Seen(u)
        /\ \A s \in Skus : holder'[s] = u <=> holder[s] = u
    <3>1. /\ job'[u] = job[u] /\ pc'[u] = pc[u] /\ sku'[u] = sku[u]
          /\ todo'[u] = todo[u] /\ done'[u] = done[u]
          /\ \A s \in Skus : holder'[s] = u <=> holder[s] = u
      BY Zenon, <1>2 DEF Alone
    <3> QED  BY Zenon, <3>1 DEF Seen
  <2>3. AtWork(u)'
    BY Zenon, <2>1, <2>2 DEF AtWork
  <2>4. Awaited(u)'
    <3>1. job[u] = "reserve" => announced'[u[1]] = announced[u[1]] \/ u[1] \in redelivered
      BY Zenon, <2>1
    <3> QED  BY Zenon, <2>1, <2>2, <3>1 DEF Awaited
  <2>5. Seen(u) \subseteq Skus /\ done[u] \subseteq Skus /\ done[u] \subseteq Seen(u)
    BY <1>1 DEF Typed, Seen
  <2>6. \A s \in Skus : ~(u[1] = t[1] /\ s \in done[t]) => reservation'[u[1]][s] = reservation[u[1]][s]
    BY Zenon, <1>3, <2>1
  <2>7. Reserving(u)'
    <3>1. job[u] = "reserve" /\ pc[u] # "failed" =>
            \A s \in done[u] : reservation'[u[1]][s] = reservation[u[1]][s]
      BY Zenon, <2>5, <2>6
    <3> QED  BY Zenon, <2>1, <2>2, <3>1 DEF Reserving
  <2>8. ReadsStand(u)'
    <3>1. \A s \in Skus : reservation[u[1]][s] # "none" => reservation'[u[1]][s] # "none"
      BY <1>3, <2>1
    <3>2. job[u] \in Settling /\ u[1] \notin overlapped =>
            \A s \in Seen(u) : reservation'[u[1]][s] = reservation[u[1]][s]
      BY Zenon, <2>5, <2>6
    <3> QED  BY Zenon, <2>1, <2>2, <2>5, <3>1, <3>2 DEF ReadsStand
  <2>9. RowsChecked(u)'
    <3>1. \A s \in Skus : /\ s \in done[u] /\ s \notin deleted => holder[s] = u
                          /\ s \in done[t] /\ s \notin deleted => holder[s] = t
      BY Zenon, <1>1, <2>1 DEF AtWork
    <3>2. \A s \in done[u] \ deleted : stock'[s] = stock[s] /\ reserved'[s] = reserved[s]
      BY Zenon, <2>5, <3>1
    <3> QED  BY Zenon, <2>1, <2>2, <3>2 DEF RowsChecked
  <2> QED  BY Zenon, <2>3, <2>4, <2>7, <2>8, <2>9 DEF Sound
<1>7. ASSUME NEW o \in Orders PROVE AnswersStand(o)'
  <2>1. CASE o # t[1]
    <3>1. AnswersStand(o) /\ o \in Orders \ {t[1]}
      BY Zenon, <2>1 DEF Inv
    <3>2. reservation'[o] = reservation[o] /\ announced'[o] = announced[o] /\ redelivered' = redelivered
      BY Zenon, <1>3, <3>1
    <3> QED  BY Zenon, <3>1, <3>2 DEF AnswersStand
  <2> QED  BY Zenon, <2>1
<1>8. \A v, u \in Txs : Noted(v, u)'
  BY Zenon, <1>2, NotedKept
<1> QED  BY Zenon, <1>4, <1>5, <1>6, <1>7, <1>8 DEF Inv

\* What a commit writes to the column of a SKU.
LEMMA MovedIs ==
    ASSUME NEW t \in Txs, Typed, RowsChecked(t), t[1] \in Orders
    PROVE  /\ \A s \in Skus : Quantity[t[1]][s] \in Nat \ {0}
           /\ \A s \in Skus : ~(s \in done[t] /\ s \notin deleted) =>
                /\ Moved(t, reserved, 1)[s] = reserved[s]
                /\ Moved(t, reserved, -1)[s] = reserved[s]
                /\ Moved(t, stock, -1)[s] = stock[s]
           /\ \A s \in Skus : s \in done[t] /\ s \notin deleted =>
                /\ Moved(t, reserved, 1)[s] = reserved[s] + Quantity[t[1]][s]
                /\ Moved(t, reserved, -1)[s] = reserved[s] - Quantity[t[1]][s]
                /\ Moved(t, stock, -1)[s] = stock[s] - Quantity[t[1]][s]
           /\ Moved(t, reserved, 1) \in [Skus -> Nat]
           /\ job[t] \in Settling => Moved(t, reserved, -1) \in [Skus -> Nat]
           /\ job[t] = "confirm" => Moved(t, stock, -1) \in [Skus -> Nat]
<1>1. \A s \in Skus : Quantity[t[1]][s] \in Nat \ {0}
  BY InventoryAssumption
<1>2. \A s \in Skus : ~(s \in done[t] /\ s \notin deleted) =>
                /\ Moved(t, reserved, 1)[s] = reserved[s]
                /\ Moved(t, reserved, -1)[s] = reserved[s]
                /\ Moved(t, stock, -1)[s] = stock[s]
  BY DEF Moved
<1>3. \A s \in Skus : s \in done[t] /\ s \notin deleted =>
                /\ Moved(t, reserved, 1)[s] = reserved[s] + Quantity[t[1]][s]
                /\ Moved(t, reserved, -1)[s] = reserved[s] - Quantity[t[1]][s]
                /\ Moved(t, stock, -1)[s] = stock[s] - Quantity[t[1]][s]
  BY <1>1 DEF Moved, Typed
<1>4. Moved(t, reserved, 1) \in [Skus -> Nat]
  BY <1>1 DEF Moved, Typed
<1>5. job[t] \in Settling => Moved(t, reserved, -1) \in [Skus -> Nat]
  <2> SUFFICES ASSUME job[t] \in Settling, NEW s \in Skus
               PROVE  Moved(t, reserved, -1)[s] \in Nat
    BY Zenon DEF Moved
  <2>1. s \in done[t] /\ s \notin deleted => reserved[s] >= Quantity[t[1]][s]
    BY Zenon DEF RowsChecked
  <2>2. reserved[s] \in Nat
    BY Zenon DEF Typed
  <2> QED  BY <1>1, <1>2, <1>3, <2>1, <2>2
<1>6. job[t] = "confirm" => Moved(t, stock, -1) \in [Skus -> Nat]
  <2> SUFFICES ASSUME job[t] = "confirm", NEW s \in Skus PROVE Moved(t, stock, -1)[s] \in Nat
    BY Zenon DEF Moved
  <2>1. s \in done[t] /\ s \notin deleted => stock[s] >= Quantity[t[1]][s]
    BY Zenon DEF RowsChecked
  <2>2. stock[s] \in Nat
    BY Zenon DEF Typed
  <2> QED  BY <1>1, <1>2, <1>3, <2>1, <2>2
<1> QED  BY <1>1, <1>2, <1>3, <1>4, <1>5, <1>6

\* The commit of a reservation announces InventoryReserved.
LEMMA CommitReserveKeepsInv ==
    ASSUME Inv, NEW t \in Txs, pc[t] = "commit", CommitReserve(t), End(t), UNCHANGED <<deleted, history>>
    PROVE  Inv'
<1>1. /\ Typed /\ AtWork(t) /\ Reserving(t) /\ Awaited(t) /\ RowsChecked(t) /\ t[1] \in Orders
      /\ AnswersStand(t[1]) /\ UNCHANGED <<admin, overlapped, redelivered>>
  BY Zenon, TxIs DEF Inv, Sound, history
<1>2. /\ job[t] = "reserve" /\ reserved' = Moved(t, reserved, 1) /\ reservation' = Marked(t, "reserved")
      /\ announced' = [announced EXCEPT ![t[1]] = @ \cup {"InventoryReserved"}] /\ stock' = stock
  BY Zenon DEF CommitReserve
<1>3. /\ todo[t] \cup done[t] = Lines(t[1]) /\ todo[t] = {}
      /\ \A s \in done[t] : s \notin deleted /\ reservation[t[1]][s] = "none"
  BY Zenon, <1>1, <1>2 DEF Reserving
<1>4. done[t] = Lines(t[1]) /\ Lines(t[1]) # {} /\ Lines(t[1]) \subseteq Skus
  <2>1. done[t] = Lines(t[1])
    BY <1>3
  <2> QED  BY Zenon, <1>1, <2>1, LinesAre
<1>5. /\ announced' \in [Orders -> SUBSET Answers]
      /\ announced'[t[1]] = announced[t[1]] \cup {"InventoryReserved"}
      /\ \A p \in Orders \ {t[1]} : announced'[p] = announced[p]
  BY <1>1, <1>2 DEF Typed, Answers
<1>6. \A s \in Skus : reservation'[t[1]][s] = IF s \in done[t] THEN "reserved" ELSE reservation[t[1]][s]
  BY <1>1, <1>2 DEF Marked, Typed
<1>7. AnswersStand(t[1])'
  <2>1. \A s \in Lines(t[1]) : reservation'[t[1]][s] # "none"
    BY <1>4, <1>6
  <2>2. \A s \in Skus \ Lines(t[1]) : reservation'[t[1]][s] = "none"
    <3>1. \A s \in Skus \ Lines(t[1]) : reservation[t[1]][s] = "none"
      BY Zenon, <1>1 DEF AnswersStand
    <3> QED  BY <1>4, <1>6, <3>1
  <2>3. "InventoryReserved" \in announced'[t[1]]
    BY Zenon, <1>5
  <2>4. "InventoryReservationFailed" \in announced'[t[1]] => t[1] \in redelivered
    <3>1. "InventoryReservationFailed" \in announced[t[1]] => t[1] \in redelivered
      BY Zenon, <1>1, <1>2 DEF Awaited
    <3> QED  BY <1>5, <3>1
  <2> QED  BY Zenon, <1>1, <2>1, <2>2, <2>3, <2>4 DEF AnswersStand
<1>8. ASSUME NEW u \in Txs \ {t}, u[1] = t[1]
      PROVE  /\ job[u] = "reserve" => announced'[u[1]] = announced[u[1]] \/ u[1] \in redelivered
             /\ job[u] = "reserve" /\ pc[u] # "failed" => done[t] \cap done[u] = {}
             /\ job[u] \in Settling => t[1] \in overlapped \/ done[t] \cap Seen(u) = {}
  <2>1. Noted(t, u) /\ ReadsStand(u)
    BY Zenon DEF Inv, Sound
  <2>2. job[u] = "reserve" => u[1] \in redelivered
    BY Zenon, <1>2, <1>8, <2>1 DEF Noted
  <2>3. job[u] = "reserve" /\ pc[u] # "failed" => done[u] = {}
    <3>1. pc[t] # "failed" /\ done[t] # {}
      BY <1>4
    <3> QED  BY Zenon, <1>2, <1>8, <3>1, OneReserves
  <2>4. job[u] \in Settling => \A s \in Seen(u) : s \notin done[t]
    BY Zenon, <1>3, <1>8, <2>1 DEF ReadsStand
  <2> QED  BY Zenon, <2>2, <2>3, <2>4
<1>9. /\ stock' \in [Skus -> Nat] /\ reserved' \in [Skus -> Nat]
      /\ \A s \in Skus : ~(s \in done[t] /\ s \notin deleted) => stock'[s] = stock[s] /\ reserved'[s] = reserved[s]
  BY Zenon, <1>1, <1>2, MovedIs DEF Typed
<1>10. "reserved" \in Statuses \ {"none"}
  BY Zenon DEF Statuses
<1> QED  BY Zenon, <1>1, <1>2, <1>5, <1>7, <1>8, <1>9, <1>10, CommitCommon

\* The commit of a release, and of a confirmation, which takes the units out of the
\* stock as well.
LEMMA CommitSettlingKeepsInv ==
    ASSUME Inv, NEW t \in Txs, pc[t] = "commit", CommitRelease(t) \/ CommitConfirm(t), End(t),
           UNCHANGED <<deleted, history>>
    PROVE  Inv'
<1>1. /\ Typed /\ ReadsStand(t) /\ RowsChecked(t) /\ t[1] \in Orders
      /\ AnswersStand(t[1]) /\ UNCHANGED <<admin, overlapped, redelivered>>
  BY Zenon, TxIs DEF Inv, Sound, history
<1>2. /\ job[t] \in Settling /\ reserved' = Moved(t, reserved, -1) /\ announced' = announced
      /\ stock' = stock \/ (job[t] = "confirm" /\ stock' = Moved(t, stock, -1))
  BY Zenon DEF CommitRelease, CommitConfirm, Settling
<1>3. PICK value \in Statuses \ {"none"} : reservation' = Marked(t, value)
  BY Zenon DEF CommitRelease, CommitConfirm, Statuses
<1>4. \A s \in Skus : reservation'[t[1]][s] = IF s \in done[t] THEN value ELSE reservation[t[1]][s]
  BY Zenon, <1>1, <1>3 DEF Marked, Typed
<1>5. \A s \in done[t] : reservation[t[1]][s] # "none"
  BY Zenon, <1>1, <1>2 DEF ReadsStand, Seen
<1>6. \A s \in Skus : reservation'[t[1]][s] = "none" <=> reservation[t[1]][s] = "none"
  BY <1>3, <1>4, <1>5
<1>7. AnswersStand(t[1])'
  <2>1. Lines(t[1]) \subseteq Skus
    BY Zenon, <1>1, LinesAre
  <2> QED  BY Zenon, <1>1, <1>2, <1>6, <2>1 DEF AnswersStand
<1>8. ASSUME NEW u \in Txs \ {t}, u[1] = t[1]
      PROVE  /\ job[u] = "reserve" => announced'[u[1]] = announced[u[1]] \/ u[1] \in redelivered
             /\ job[u] = "reserve" /\ pc[u] # "failed" => done[t] \cap done[u] = {}
             /\ job[u] \in Settling => t[1] \in overlapped \/ done[t] \cap Seen(u) = {}
  <2>1. Noted(t, u) /\ Reserving(u)
    BY Zenon DEF Inv, Sound
  <2>2. job[u] = "reserve" /\ pc[u] # "failed" => \A s \in done[u] : s \notin done[t]
    BY Zenon, <1>5, <1>8, <2>1 DEF Reserving
  <2>3. job[u] \in Settling => t[1] \in overlapped
    BY Zenon, <1>2, <1>8, <2>1 DEF Noted
  <2> QED  BY Zenon, <1>2, <2>2, <2>3
<1>9. /\ stock' \in [Skus -> Nat] /\ reserved' \in [Skus -> Nat]
      /\ \A s \in Skus : ~(s \in done[t] /\ s \notin deleted) => stock'[s] = stock[s] /\ reserved'[s] = reserved[s]
  BY Zenon, <1>1, <1>2, MovedIs DEF Typed
<1>10. announced' \in [Orders -> SUBSET Answers]
  BY Zenon, <1>1, <1>2 DEF Typed
<1> QED  BY Zenon, <1>1, <1>2, <1>3, <1>7, <1>8, <1>9, <1>10, CommitCommon

-----------------------------------------------------------------------------
(* Deadlocks, new transactions and administrators *)

\* PostgreSQL aborts a transaction of a cycle.
LEMMA DeadlockKeepsInv ==
    ASSUME Inv, NEW t \in Txs, deadlock_detected(t)
    PROVE  Inv'
<1>1. UNCHANGED <<stock, reserved, deleted, reservation, admin, overlapped, redelivered>>
  BY Zenon DEF deadlock_detected, history
<1>2. pc[t] = "update"
  BY Zenon DEF deadlock_detected, WaitsFor, Wanted
<1>3. CASE job[t] = "reserve" /\ Aborted(t) /\ UNCHANGED <<job, sku>>
  BY Zenon, <1>1, <1>2, <1>3, AbortedKeepsInv
<1>4. CASE End(t) /\ UNCHANGED announced
  BY Zenon, <1>1, <1>4, AbortKeepsInv
<1> QED  BY Zenon, <1>3, <1>4 DEF deadlock_detected

\* A transaction begins.  One that meets another of its kind is noted, which weakens
\* what both may rely on.
LEMMA BeginKeepsInv ==
    ASSUME Inv, NEW t \in Txs, NEW what \in {"reserve", "release", "confirm"},
           NEW first \in {"select", "read", "update"}, NEW items \in SUBSET Skus,
           Begin(t, what, first, items),
           what = "reserve" => first = "update" /\ items = Lines(t[1]),
           what # "reserve" => first # "update"
    PROVE  Inv'
<1>1. Typed /\ AtWork(t) /\ t[1] \in Orders
  BY Zenon, TxIs DEF Inv, Sound
<1>2. /\ pc[t] = "idle" /\ UNCHANGED <<stock, reserved, deleted, reservation, announced>>
      /\ UNCHANGED <<holder, sku, admin>>
  BY Zenon DEF Begin, rows
<1>3. /\ job' \in [Txs -> {"none", "reserve", "release", "confirm"}]
      /\ pc' \in [Txs -> {"idle", "select", "read", "update", "failed", "commit"}]
      /\ todo' \in [Txs -> SUBSET Skus] /\ done' \in [Txs -> SUBSET Skus]
      /\ job'[t] = what /\ pc'[t] = first /\ todo'[t] = items /\ done'[t] = {}
      /\ \A u \in Txs \ {t} : job'[u] = job[u] /\ pc'[u] = pc[u] /\ todo'[u] = todo[u] /\ done'[u] = done[u]
  BY <1>1 DEF Typed, Begin
<1>4. Alone(t) /\ TxTyped'
  BY Zenon, <1>1, <1>2, <1>3 DEF Typed, Alone, TxTyped
<1>5. /\ overlapped \subseteq overlapped' /\ overlapped' \subseteq Orders
      /\ redelivered \subseteq redelivered' /\ redelivered' \subseteq Orders
  BY Zenon, <1>1 DEF Typed, Begin
<1>6. /\ what \in Settling /\ Rivals(t, Settling) # {} => t[1] \in overlapped'
      /\ what = "reserve" /\ announced[t[1]] # {} => t[1] \in redelivered'
      /\ what = "reserve" /\ Rivals(t, {"reserve"}) # {} => t[1] \in redelivered'
  BY Zenon DEF Begin
<1>7. Typed'
  BY Zenon, <1>1, <1>2, <1>4, <1>5 DEF Typed, TxTyped
<1>8. Sound(t)'
  <2>1. AtWork(t)'
    BY Zenon, <1>1, <1>2, <1>3 DEF AtWork
  <2>2. Reserving(t)'
    <3>1. what = "reserve" => todo'[t] \cup done'[t] = Lines(t[1]) /\ pc'[t] # "commit"
      BY <1>3
    <3> QED  BY Zenon, <1>3, <3>1 DEF Reserving
  <2>3. Awaited(t)' /\ RowsChecked(t)'
    BY Zenon, <1>2, <1>3, <1>6 DEF Awaited, RowsChecked
  <2>4. ReadsStand(t)'
    <3>1. what \in Settling => what # "reserve"
      BY DEF Settling
    <3> QED  BY Zenon, <1>3, <3>1 DEF ReadsStand, Seen
  <2> QED  BY Zenon, <2>1, <2>2, <2>3, <2>4 DEF Sound
<1>9. ASSUME NEW u \in Txs \ {t} PROVE Sound(u)'
  BY Zenon, <1>2, <1>4, <1>5, OthersSound
<1>10. \A o \in Orders : AnswersStand(o)'
  BY Zenon, <1>2, <1>5, AnswersKept
<1>11. ASSUME NEW v \in Txs, NEW u \in Txs PROVE Noted(v, u)'
  <2>1. Noted(v, u)
    BY Zenon DEF Inv
  <2>2. ASSUME NEW w \in Txs \ {t}, w[1] = t[1]
        PROVE  /\ job'[t] \in Settling /\ job'[w] \in Settling => t[1] \in overlapped'
               /\ job'[t] = "reserve" /\ job'[w] = "reserve" => t[1] \in redelivered'
    <3>1. /\ job[w] \in Settling => w \in Rivals(t, Settling)
          /\ job[w] = "reserve" => w \in Rivals(t, {"reserve"})
      BY Zenon, <2>2 DEF Rivals
    <3> QED  BY Zenon, <1>3, <1>6, <3>1
  <2>3. CASE v = t
    BY Zenon, <2>2, <2>3 DEF Noted
  <2>4. CASE u = t
    BY Zenon, <2>2, <2>4 DEF Noted
  <2>5. CASE v # t /\ u # t
    BY Zenon, <1>3, <1>5, <2>1, <2>5 DEF Noted
  <2> QED  BY Zenon, <2>3, <2>4, <2>5
<1> QED  BY Zenon, <1>7, <1>8, <1>9, <1>10, <1>11 DEF Inv

\* Events and confirmations begin transactions.
LEMMA HandlersKeepInv ==
    ASSUME Inv, NEW t \in Txs,
           handle_order_created(t) \/ handle_order_cancelled(t) \/ confirm_for_order(t)
    PROVE  Inv'
<1>1. Lines(t[1]) \in SUBSET Skus /\ {} \in SUBSET Skus
  BY Zenon, LinesAre, TxIs
<1>2. CASE handle_order_created(t)
  BY <1>1, <1>2, BeginKeepsInv DEF handle_order_created
<1>3. CASE handle_order_cancelled(t)
  BY <1>1, <1>3, BeginKeepsInv DEF handle_order_cancelled
<1>4. CASE confirm_for_order(t)
  BY <1>1, <1>4, BeginKeepsInv DEF confirm_for_order
<1> QED  BY Zenon, <1>2, <1>3, <1>4

\* An administrator waits for the row lock, so no open transaction has checked the row.
LEMMA AdminKeepsInv ==
    ASSUME Inv, NEW s \in Skus, adjust_stock(s) \/ update_sku(s) \/ delete_sku(s)
    PROVE  Inv'
<1>1. Typed
  BY Zenon DEF Inv
<1>2. /\ admin < AdminLimit /\ admin' = admin + 1 /\ s \notin deleted /\ holder[s] = NoTx
      /\ UNCHANGED <<reserved, reservation, announced, overlapped, redelivered>>
      /\ UNCHANGED <<holder, job, pc, sku, todo, done>>
  BY DEF adjust_stock, update_sku, delete_sku, Administer, tx
<1>3. /\ stock' \in [Skus -> Nat] /\ \A r \in Skus \ {s} : stock'[r] = stock[r]
      /\ deleted' \subseteq Skus /\ deleted \subseteq deleted' /\ deleted' \subseteq deleted \cup {s}
  <2>1. CASE adjust_stock(s)
    <3>1. PICK delta \in Deltas : stock[s] + delta \in 0..MaxStock /\ stock' = [stock EXCEPT ![s] = @ + delta]
      BY Zenon, <2>1 DEF adjust_stock
    <3>2. stock[s] + delta \in Nat /\ deleted' = deleted
      BY <2>1, <3>1, InventoryAssumption DEF adjust_stock
    <3> QED  BY <1>1, <3>1, <3>2 DEF Typed
  <2>2. CASE update_sku(s)
    <3>1. PICK quantity \in StockSettings : stock' = [stock EXCEPT ![s] = quantity]
      BY Zenon, <2>2 DEF update_sku
    <3>2. quantity \in Nat /\ deleted' = deleted
      BY <2>2, <3>1, InventoryAssumption DEF update_sku
    <3> QED  BY <1>1, <3>1, <3>2 DEF Typed
  <2>3. CASE delete_sku(s)
    BY <1>1, <2>3 DEF delete_sku, Typed
  <2> QED  BY <2>1, <2>2, <2>3
<1>4. Typed'
  BY <1>1, <1>2, <1>3 DEF Typed
<1>5. ASSUME NEW u \in Txs PROVE Sound(u)'
  <2>1. /\ AtWork(u) /\ Reserving(u) /\ Awaited(u) /\ ReadsStand(u) /\ RowsChecked(u)
        /\ u # NoTx /\ done[u] \subseteq Skus
    BY Zenon, <1>1, TxIs DEF Inv, Sound, Typed
  <2>2. s \notin done[u] /\ \A r \in done[u] : r \in deleted' <=> r \in deleted
    BY Zenon, <1>2, <1>3, <2>1 DEF AtWork
  <2>3. AtWork(u)'
    BY Zenon, <1>2, <1>3, <2>1, <2>2 DEF AtWork
  <2>4. RowsChecked(u)'
    BY Zenon, <1>2, <1>3, <2>1, <2>2 DEF RowsChecked
  <2>5. Reserving(u)' /\ Awaited(u)'
    BY Zenon, <1>2, <2>1, <2>2 DEF Reserving, Awaited
  <2>6. ReadsStand(u)'
    BY Zenon, <1>2, <2>1 DEF ReadsStand, Seen
  <2> QED  BY Zenon, <2>3, <2>4, <2>5, <2>6 DEF Sound
<1>6. (\A o \in Orders : AnswersStand(o)') /\ \A v, u \in Txs : Noted(v, u)'
  BY Zenon, <1>2 DEF Inv, AnswersStand, Noted
<1> QED  BY Zenon, <1>4, <1>5, <1>6 DEF Inv

-----------------------------------------------------------------------------
(* Theorems *)

\* Nothing is reserved at first.
LEMMA InitInv == Init => Inv
<1> SUFFICES ASSUME Init PROVE Inv
  OBVIOUS
<1>1. \A t \in Txs : t[1] \in Orders /\ ItemsOf[t[1]][1] \in Skus
  BY Zenon, TxIs, LinesAre
<1>2. Typed
  BY Zenon, <1>1, InventoryAssumption DEF Init, Typed, Statuses, Answers
<1>3. ASSUME NEW t \in Txs PROVE job[t] = "none" /\ Sound(t)
  <2>1. job[t] = "none" /\ pc[t] = "idle" /\ done[t] = {} /\ \A s \in Skus : holder[s] # t
    BY Zenon, TxIs DEF Init
  <2> QED  BY <2>1 DEF Sound, AtWork, Reserving, Awaited, ReadsStand, RowsChecked, Settling
<1>4. \A o \in Orders : AnswersStand(o)
  <2>1. \A o \in Orders : Lines(o) \subseteq Skus
    BY Zenon, LinesAre
  <2> QED  BY <2>1 DEF Init, AnswersStand
<1>5. \A t, u \in Txs : Noted(t, u)
  BY <1>3 DEF Noted, Settling
<1> QED  BY Zenon, <1>2, <1>3, <1>4, <1>5 DEF Inv

\* The invariant is inductive.
LEMMA StepKeepsInv == Inv /\ [Next]_vars => Inv'
<1> SUFFICES ASSUME Inv, [Next]_vars PROVE Inv'
  OBVIOUS
<1>1. CASE UNCHANGED vars
  <2>1. /\ UNCHANGED <<stock, reserved, deleted, reservation, announced>>
        /\ UNCHANGED <<holder, job, pc, sku, todo, done, admin, overlapped, redelivered>>
    BY Zenon, <1>1 DEF vars, rows, tx, history
  <2>2. Typed'
    BY Zenon, <2>1 DEF Inv, Typed
  <2>3. ASSUME NEW t \in Txs PROVE Sound(t)'
    <3>1. AtWork(t) /\ Reserving(t) /\ Awaited(t) /\ ReadsStand(t) /\ RowsChecked(t)
      BY Zenon DEF Inv, Sound
    <3>2. AtWork(t)'
      BY Zenon, <2>1, <3>1 DEF AtWork
    <3>3. Reserving(t)' /\ Awaited(t)'
      BY Zenon, <2>1, <3>1 DEF Reserving, Awaited
    <3>4. ReadsStand(t)'
      BY Zenon, <2>1, <3>1 DEF ReadsStand, Seen
    <3>5. RowsChecked(t)'
      BY Zenon, <2>1, <3>1 DEF RowsChecked
    <3> QED  BY Zenon, <3>2, <3>3, <3>4, <3>5 DEF Sound
  <2>4. (\A o \in Orders : AnswersStand(o)') /\ \A v, u \in Txs : Noted(v, u)'
    BY Zenon, <2>1 DEF Inv, AnswersStand, Noted
  <2> QED  BY Zenon, <2>2, <2>3, <2>4 DEF Inv
<1>2. ASSUME NEW t \in Txs, commit(t) PROVE Inv'
  BY Zenon, <1>2, CommitReserveKeepsInv, CommitSettlingKeepsInv DEF commit
<1>3. ASSUME NEW t \in Txs,
             \/ handle_order_created(t) \/ handle_order_cancelled(t) \/ confirm_for_order(t)
             \/ Statement(t) \/ deadlock_detected(t) \/ crash(t)
      PROVE  Inv'
  BY Zenon, <1>2, <1>3, HandlersKeepInv, ReserveKeepsInv, RollbackKeepsInv, ReleaseAllKeepsInv,
     SelectKeepsInv, SettleKeepsInv, DeadlockKeepsInv DEF Statement
<1>4. ASSUME NEW s \in Skus, adjust_stock(s) \/ update_sku(s) \/ delete_sku(s) PROVE Inv'
  BY Zenon, <1>4, AdminKeepsInv
<1> QED  BY Zenon, <1>1, <1>3, <1>4 DEF Next

\* The inductive invariant: locks, reads and answers, for any number of orders that
\* compete for any SKUs and of sessions that handle one order's events at once.
THEOREM InventoryInvariant == Spec => []Inv
BY InitInv, StepKeepsInv, PTL DEF Spec

\* What each step does to the columns that count.
LEMMA ColumnSteps ==
    ASSUME Inv, [Next]_vars
    PROVE  \/ \E t \in Txs : commit(t)
           \/ \E s \in Skus : /\ adjust_stock(s) \/ update_sku(s) \/ delete_sku(s)
                              /\ admin' = admin + 1 /\ deleted \subseteq deleted'
                              /\ UNCHANGED <<reserved, reservation, overlapped>>
           \/ UNCHANGED <<stock, reserved, reservation, deleted>> /\ overlapped \subseteq overlapped'
<1>1. CASE UNCHANGED vars
  BY Zenon, <1>1 DEF vars, rows, history
<1>2. ASSUME NEW t \in Txs, handle_order_created(t) \/ handle_order_cancelled(t) \/ confirm_for_order(t)
      PROVE  UNCHANGED <<stock, reserved, reservation, deleted>> /\ overlapped \subseteq overlapped'
  <2>1. ASSUME NEW what, NEW first, NEW items, Begin(t, what, first, items)
        PROVE  UNCHANGED <<stock, reserved, reservation, deleted>> /\ overlapped \subseteq overlapped'
    BY Zenon, <2>1 DEF Begin, rows
  <2> QED  BY Zenon, <1>2, <2>1 DEF handle_order_created, handle_order_cancelled, confirm_for_order
<1>3. ASSUME NEW t \in Txs, Statement(t) \/ deadlock_detected(t) \/ crash(t), ~commit(t)
      PROVE  UNCHANGED <<stock, reserved, reservation, deleted, overlapped>>
  BY Zenon, <1>3 DEF Statement, reserve_inventory, rollback_failed, release_all_reservations, select_reservation,
     settle_reservation, deadlock_detected, crash, rows, history
<1>4. ASSUME NEW s \in Skus, adjust_stock(s) \/ update_sku(s) \/ delete_sku(s)
      PROVE  admin' = admin + 1 /\ deleted \subseteq deleted' /\ UNCHANGED <<reserved, reservation, overlapped>>
  BY Zenon, <1>4 DEF adjust_stock, update_sku, delete_sku, Administer
<1> QED  BY <1>1, <1>2, <1>3, <1>4 DEF Next

\* The commit of a reservation, and of a release or a confirmation.
Opens(t) ==
    /\ \A s \in done[t] : reservation[t[1]][s] = "none" /\ reservation'[t[1]][s] = "reserved"
    /\ \A s \in done[t] \ deleted : /\ stock'[s] = stock[s]
                                    /\ reserved'[s] = reserved[s] + Quantity[t[1]][s]
                                    /\ reserved'[s] <= stock'[s]

Closes(t) ==
    /\ \A s \in done[t] : /\ s \in Lines(t[1])
                          /\ t[1] \notin overlapped => reservation[t[1]][s] = "reserved"
                          /\ reservation'[t[1]][s] \in {"released", "confirmed"}
    /\ \A s \in done[t] \ deleted : /\ reserved'[s] = reserved[s] - Quantity[t[1]][s]
                                    /\ stock'[s] = stock[s] \/ stock'[s] = stock[s] - Quantity[t[1]][s]

\* What a commit finds and what it leaves.
LEMMA CommitRows ==
    ASSUME Inv, NEW t \in Txs, commit(t)
    PROVE  /\ t[1] \in Orders /\ done[t] \subseteq Skus
           /\ UNCHANGED <<deleted, overlapped>>
           /\ \A s \in Skus : Quantity[t[1]][s] \in Nat \ {0}
           /\ \A o \in Orders : \A s \in Skus :
                ~(o = t[1] /\ s \in done[t]) => reservation'[o][s] = reservation[o][s]
           /\ \A s \in Skus : ~(s \in done[t] /\ s \notin deleted) =>
                stock'[s] = stock[s] /\ reserved'[s] = reserved[s]
           /\ Opens(t) \/ Closes(t)
<1>1. /\ Typed /\ Reserving(t) /\ ReadsStand(t) /\ RowsChecked(t) /\ t[1] \in Orders
      /\ AnswersStand(t[1]) /\ done[t] \subseteq Skus
  BY Zenon, TxIs DEF Inv, Sound, Typed
<1>2. pc[t] = "commit" /\ UNCHANGED <<deleted, overlapped>>
  BY Zenon DEF commit, history
<1>3. \A s \in Skus : Quantity[t[1]][s] \in Nat \ {0}
  BY Zenon, <1>1, MovedIs
<1>4. ASSUME NEW value, reservation' = Marked(t, value)
      PROVE  /\ \A s \in done[t] : reservation'[t[1]][s] = value
             /\ \A o \in Orders : \A s \in Skus :
                  ~(o = t[1] /\ s \in done[t]) => reservation'[o][s] = reservation[o][s]
  BY Zenon, <1>1, <1>4 DEF Marked, Typed
<1>5. CASE CommitReserve(t)
  <2>1. /\ job[t] = "reserve" /\ reserved' = Moved(t, reserved, 1) /\ reservation' = Marked(t, "reserved")
        /\ stock' = stock
    BY Zenon, <1>5 DEF CommitReserve
  <2>2. \A s \in done[t] : reservation[t[1]][s] = "none"
    BY Zenon, <1>1, <1>2, <2>1 DEF Reserving
  <2>3. \A s \in done[t] \ deleted : /\ reserved'[s] = reserved[s] + Quantity[t[1]][s]
                                     /\ reserved'[s] <= stock'[s]
    <3> TAKE s \in done[t] \ deleted
    <3>1. reserved'[s] = reserved[s] + Quantity[t[1]][s]
      BY Zenon, <1>1, <2>1, MovedIs
    <3>2. stock[s] - reserved[s] >= Quantity[t[1]][s]
      BY Zenon, <1>1, <2>1 DEF RowsChecked
    <3>3. stock[s] \in Nat /\ reserved[s] \in Nat /\ Quantity[t[1]][s] \in Nat
      BY Zenon, <1>1, <1>3 DEF Typed
    <3> QED  BY <2>1, <3>1, <3>2, <3>3
  <2>4. \A s \in Skus : ~(s \in done[t] /\ s \notin deleted) =>
                stock'[s] = stock[s] /\ reserved'[s] = reserved[s]
    BY Zenon, <1>1, <2>1, MovedIs
  <2>5. Opens(t)
    BY Zenon, <1>4, <2>1, <2>2, <2>3 DEF Opens
  <2> QED  BY Zenon, <1>1, <1>2, <1>3, <1>4, <2>1, <2>4, <2>5
<1>6. CASE CommitRelease(t) \/ CommitConfirm(t)
  <2>1. /\ job[t] \in Settling /\ reserved' = Moved(t, reserved, -1)
        /\ stock' \in {stock, Moved(t, stock, -1)}
        /\ \E value \in {"released", "confirmed"} : reservation' = Marked(t, value)
    BY Zenon, <1>6 DEF CommitRelease, CommitConfirm, Settling
  <2>2. \A s \in done[t] : /\ s \in Lines(t[1])
                           /\ t[1] \notin overlapped => reservation[t[1]][s] = "reserved"
    BY Zenon, <1>1, <2>1 DEF ReadsStand, Seen, AnswersStand
  <2>3. \A s \in done[t] \ deleted : /\ reserved'[s] = reserved[s] - Quantity[t[1]][s]
                                     /\ \/ stock'[s] = stock[s]
                                        \/ stock'[s] = stock[s] - Quantity[t[1]][s]
    BY Zenon, <1>1, <2>1, MovedIs
  <2>4. \A s \in Skus : ~(s \in done[t] /\ s \notin deleted) =>
                stock'[s] = stock[s] /\ reserved'[s] = reserved[s]
    BY Zenon, <1>1, <2>1, MovedIs
  <2>5. /\ \A s \in done[t] : reservation'[t[1]][s] \in {"released", "confirmed"}
        /\ \A o \in Orders : \A s \in Skus :
             ~(o = t[1] /\ s \in done[t]) => reservation'[o][s] = reservation[o][s]
    BY <1>4, <2>1
  <2>6. \A s \in done[t] : /\ s \in Lines(t[1])
                           /\ t[1] \notin overlapped => reservation[t[1]][s] = "reserved"
                           /\ reservation'[t[1]][s] \in {"released", "confirmed"}
    BY Zenon, <2>2, <2>5
  <2>7. \A o \in Orders : \A s \in Skus :
          ~(o = t[1] /\ s \in done[t]) => reservation'[o][s] = reservation[o][s]
    BY Zenon, <2>5
  <2>8. Closes(t)
    BY Zenon, <2>3, <2>6 DEF Closes
  <2> QED  BY Zenon, <1>1, <1>2, <1>3, <2>4, <2>7, <2>8
<1> QED  BY Zenon, <1>5, <1>6 DEF commit

\* Only an administrator's write takes reserved_quantity above the stock.
THEOREM NeverOversold == Spec => OversoldOnlyByAdmin
<1>1. ASSUME Inv, [Next]_vars, NEW s \in Skus, reserved[s] <= stock[s], reserved'[s] > stock'[s]
      PROVE  admin' = admin + 1
  <2>1. reserved[s] \in Nat /\ stock[s] \in Nat /\ reserved[s] <= stock[s] /\ reserved'[s] > stock'[s]
    BY Zenon, <1>1 DEF Inv, Typed
  <2>2. ASSUME NEW t \in Txs, commit(t) PROVE FALSE
    <3>1. /\ ~(s \in done[t] /\ s \notin deleted) => stock'[s] = stock[s] /\ reserved'[s] = reserved[s]
          /\ s \in done[t] /\ s \notin deleted =>
               \/ reserved'[s] <= stock'[s]
               \/ /\ reserved'[s] = reserved[s] - Quantity[t[1]][s]
                  /\ \/ stock'[s] = stock[s]
                     \/ stock'[s] = stock[s] - Quantity[t[1]][s]
          /\ Quantity[t[1]][s] \in Nat
      BY Zenon, <1>1, <2>2, CommitRows DEF Opens, Closes
    <3>2. stock'[s] \in Nat /\ reserved'[s] \in Nat
      BY Zenon, <1>1, StepKeepsInv DEF Inv, Typed
    <3>3. ~(reserved[s] > stock[s]) /\ ~(reserved'[s] <= stock'[s])
      BY <2>1, <3>2
    <3>4. s \in done[t] /\ s \notin deleted
      <4>1. SUFFICES ASSUME stock'[s] = stock[s], reserved'[s] = reserved[s] PROVE FALSE
        BY Zenon, <3>1
      <4> QED  BY Zenon, <2>1, <3>3, <4>1
    <3>5. /\ reserved'[s] = reserved[s] - Quantity[t[1]][s]
          /\ stock'[s] = stock[s] \/ stock'[s] = stock[s] - Quantity[t[1]][s]
          /\ Quantity[t[1]][s] \in Nat
      BY Zenon, <3>1, <3>3, <3>4
    <3> QED  BY <2>1, <3>5
  <2>3. ~(UNCHANGED <<stock, reserved, reservation, deleted>>)
    BY <2>1
  <2> QED  BY Zenon, <1>1, <2>2, <2>3, ColumnSteps
<1>2. Inv /\ [Next]_vars =>
        [\A s \in Skus : reserved[s] <= stock[s] /\ reserved'[s] > stock'[s] => admin' = admin + 1]_vars
  BY <1>1
<1> QED  BY <1>2, InventoryInvariant, PTL DEF Spec, OversoldOnlyByAdmin

\* The status of a released or confirmed reservation stays, unless two transactions
\* that settle its order overlapped.
THEOREM SettledForGood == Spec => SettledOnce
<1>1. ASSUME Inv, [Next]_vars, NEW o \in Orders, NEW s \in Skus,
             reservation[o][s] \in {"released", "confirmed"}, reservation'[o][s] # reservation[o][s]
      PROVE  o \in overlapped
  <2>1. PICK t \in Txs : commit(t)
    BY Zenon, <1>1, ColumnSteps
  <2>2. o = t[1] /\ s \in done[t]
    BY <1>1, <2>1, CommitRows
  <2> QED  BY Zenon, <1>1, <2>1, <2>2, CommitRows DEF Opens, Closes
<1>2. Inv /\ [Next]_vars =>
        [\A o \in Orders : \A s \in Skus :
            reservation[o][s] \in {"released", "confirmed"} /\ reservation'[o][s] # reservation[o][s]
                => o \in overlapped]_vars
  BY <1>1
<1> QED  BY <1>2, InventoryInvariant, PTL DEF Spec, SettledOnce

-----------------------------------------------------------------------------
(* Counting: the answers, and the units that open reservations hold *)

\* A count of none or one is at most one.
LEMMA NoneOrOne == \A n \in {0, 1} : ~(n > 1)
OBVIOUS

INSTANCE FiniteSetTheorems

\* The order service gets both answers only if OrderCreated was handled again, after a
\* failure or at the same time, and InventoryReserved exactly if the whole order was
\* reserved.
THEOREM OneAnswerGiven == Spec => []OneAnswer
<1>1. Inv => OneAnswer
  <2> SUFFICES ASSUME Inv, NEW o \in Orders
               PROVE  /\ Cardinality(announced[o]) > 1 => o \in redelivered
                      /\ "InventoryReserved" \in announced[o] <=> \A s \in Lines(o) : reservation[o][s] # "none"
    BY DEF OneAnswer
  <2>1. AnswersStand(o) /\ announced[o] \in SUBSET Answers
    BY DEF Inv, Typed
  <2>2. Lines(o) # {} /\ Lines(o) \subseteq Skus
    BY Zenon, LinesAre
  <2>3. "InventoryReserved" \in announced[o] <=> \A s \in Lines(o) : reservation[o][s] # "none"
    BY Zenon, <2>1, <2>2 DEF AnswersStand
  <2>4. ASSUME o \notin redelivered PROVE ~(Cardinality(announced[o]) > 1)
    <3>1. ~("InventoryReserved" \in announced[o] /\ "InventoryReservationFailed" \in announced[o])
      BY Zenon, <2>1, <2>4 DEF AnswersStand
    <3>2. announced[o] = {} \/ announced[o] = {"InventoryReserved"} \/ announced[o] = {"InventoryReservationFailed"}
      BY <2>1, <3>1 DEF Answers
    <3>3. Cardinality(announced[o]) \in {0, 1}
      BY Zenon, <3>2, FS_EmptySet, FS_Singleton
    <3> QED  BY Zenon, <3>3, NoneOrOne
  <2> QED  BY Zenon, <2>3, <2>4
<1> QED  BY <1>1, InventoryInvariant, PTL

\* One reservation of q units.
LEMMA UnitsOf ==
    ASSUME NEW o, NEW q \in Nat
    PROVE  IsFiniteSet({o} \X (1..q)) /\ Cardinality({o} \X (1..q)) = q
<1>1. IsFiniteSet({o}) /\ Cardinality({o}) = 1
  BY Zenon, FS_Singleton
<1>2. IsFiniteSet(1..q) /\ Cardinality(1..q) = q
  BY FS_Interval
<1>3. /\ IsFiniteSet({o} \X (1..q))
      /\ Cardinality({o} \X (1..q)) = Cardinality({o}) * Cardinality(1..q)
  BY Zenon, <1>1, <1>2, FS_Product
<1>4. 1 * q = q
  OBVIOUS
<1> QED  BY Zenon, <1>1, <1>2, <1>3, <1>4

\* A reservation that is opened adds its units to those of the others.
LEMMA UnitsAdd ==
    ASSUME NEW S, IsFiniteSet(S), NEW o, NEW q \in Nat, \A x \in S : x[1] # o
    PROVE  /\ IsFiniteSet(S \cup ({o} \X (1..q)))
           /\ Cardinality(S \cup ({o} \X (1..q))) = Cardinality(S) + q
<1>1. IsFiniteSet({o} \X (1..q)) /\ Cardinality({o} \X (1..q)) = q
  BY Zenon, UnitsOf
<1>2. S \cap ({o} \X (1..q)) = {}
  OBVIOUS
<1>3. Cardinality(S) \in Nat /\ Cardinality({}) = 0
  BY FS_CardinalityType, FS_EmptySet
<1> DEFINE T == {o} \X (1..q)
<1>4. /\ IsFiniteSet(S \cup T)
      /\ Cardinality(S \cup T) = Cardinality(S) + Cardinality(T) - Cardinality(S \cap T)
  BY Zenon, <1>1, FS_Union
<1>5. Cardinality(S \cup T) = Cardinality(S) + q - 0
  BY Zenon, <1>1, <1>2, <1>3, <1>4
<1> HIDE DEF T
<1>6. Cardinality(S \cup T) = Cardinality(S) + q
  BY <1>3, <1>5
<1> QED  BY Zenon, <1>4, <1>6 DEF T

\* The units, as a set of pairs.
LEMMA OpenUnitsAre ==
    ASSUME NEW s
    PROVE  /\ \A x : x \in OpenUnits(s) <=>
                \E o \in Orders : reservation[o][s] = "reserved" /\ x \in {o} \X (1..Quantity[o][s])
           /\ \A x \in OpenUnits(s) : x[1] \in Orders /\ reservation[x[1]][s] = "reserved"
BY DEF OpenUnits

\* A commit keeps reserved_quantity equal to the open units, row by row.
LEMMA CommitKeepsBacked ==
    ASSUME Inv, Backed, NEW t \in Txs, commit(t)
    PROVE  Backed'
<1> DEFINE o == t[1]
           units(s) == {o} \X (1..Quantity[o][s])
<1>0. /\ o \in Orders /\ done[t] \subseteq Skus /\ UNCHANGED <<deleted, overlapped>>
      /\ \A s \in Skus : Quantity[o][s] \in Nat \ {0}
      /\ \A p \in Orders : \A s \in Skus :
           ~(p = o /\ s \in done[t]) => reservation'[p][s] = reservation[p][s]
  BY Zenon, CommitRows
<1>1. /\ o \in Orders /\ done[t] \subseteq Skus /\ UNCHANGED <<deleted, overlapped>>
      /\ \A s \in Skus : Quantity[o][s] \in Nat
      /\ \A s \in done[t] : \A p \in Orders \ {o} : reservation'[p][s] = reservation[p][s]
  BY Zenon, <1>0
<1>a. \A s : \A x : x \in OpenUnits(s)' <=>
          \E p \in Orders : reservation'[p][s] = "reserved" /\ x \in {p} \X (1..Quantity[p][s])
  BY Zenon DEF OpenUnits
<1>2. ASSUME NEW s \in Skus \ done[t] PROVE OpenUnits(s)' = OpenUnits(s) /\ reserved'[s] = reserved[s]
  <2>1. \A p \in Orders : reservation'[p][s] = reservation[p][s]
    BY Zenon, CommitRows
  <2>2. reserved'[s] = reserved[s]
    BY Zenon, CommitRows
  <2> QED  BY Zenon, <2>1, <2>2 DEF OpenUnits
<1>3. ASSUME NEW s \in done[t], reservation[o][s] = "none", reservation'[o][s] = "reserved"
      PROVE  /\ OpenUnits(s)' = OpenUnits(s) \cup units(s)
             /\ \A x \in OpenUnits(s) : x[1] # o
  <2>1. \A p \in Orders \ {o} : reservation'[p][s] = reservation[p][s]
    BY <1>1
  <2>2. \A x : x \in OpenUnits(s)' <=>
            \E p \in Orders : reservation'[p][s] = "reserved" /\ x \in {p} \X (1..Quantity[p][s])
    BY Zenon, <1>a
  <2>3. \A x : x \in OpenUnits(s)' <=> x \in OpenUnits(s) \/ x \in units(s)
    BY Zenon, <1>1, <1>3, <2>1, <2>2, OpenUnitsAre
  <2>4. \A x \in OpenUnits(s) : x[1] # o
    BY Zenon, <1>3, OpenUnitsAre
  <2> QED  BY Zenon, <2>3, <2>4
<1>4. ASSUME NEW s \in done[t], reservation'[o][s] \in {"released", "confirmed"}
      PROVE  /\ OpenUnits(s)' \subseteq OpenUnits(s)
             /\ \A x \in OpenUnits(s)' : x[1] # o
             /\ reservation[o][s] = "reserved" => OpenUnits(s) = OpenUnits(s)' \cup units(s)
  <2>1. \A p \in Orders \ {o} : reservation'[p][s] = reservation[p][s]
    BY <1>1
  <2>2. \A x : x \in OpenUnits(s)' <=>
            \E p \in Orders : reservation'[p][s] = "reserved" /\ x \in {p} \X (1..Quantity[p][s])
    BY <1>a
  <2>3. \A x \in OpenUnits(s)' : x \in OpenUnits(s) /\ x[1] # o
    <3> TAKE x \in OpenUnits(s)'
    <3>1. PICK p \in Orders : reservation'[p][s] = "reserved" /\ x \in {p} \X (1..Quantity[p][s])
      BY Zenon, <2>2
    <3>2. p # o /\ x[1] = p
      BY <1>4, <3>1
    <3>3. x \in OpenUnits(s)
      BY Zenon, <2>1, <3>1, <3>2, OpenUnitsAre
    <3> QED  BY Zenon, <3>2, <3>3
  <2>4. ASSUME reservation[o][s] = "reserved"
        PROVE  \A x : x \in OpenUnits(s) <=> x \in OpenUnits(s)' \/ x \in units(s)
    BY Zenon, <1>1, <1>4, <2>1, <2>2, <2>4, OpenUnitsAre
  <2> QED  BY Zenon, <2>3, <2>4
<1> HIDE DEF o, units
<1> DEFINE untouched(s) == \A p \in overlapped : s \notin Lines(p)
<1>5. \/ /\ \A s \in done[t] : reservation[o][s] = "none" /\ reservation'[o][s] = "reserved"
         /\ \A s \in done[t] \ deleted : reserved'[s] = reserved[s] + Quantity[o][s]
      \/ /\ \A s \in done[t] : /\ s \in Lines(o) /\ (o \notin overlapped => reservation[o][s] = "reserved")
                               /\ reservation'[o][s] \in {"released", "confirmed"}
         /\ \A s \in done[t] \ deleted : reserved'[s] = reserved[s] - Quantity[o][s]
  BY Zenon, CommitRows DEF o, Opens, Closes
<1>6. ASSUME NEW s \in Skus
      PROVE  /\ IsFiniteSet(OpenUnits(s)')
             /\ untouched(s) /\ s \notin deleted => reserved'[s] = Cardinality(OpenUnits(s)')
  <2>1. IsFiniteSet(OpenUnits(s)) /\ reserved[s] \in Nat /\ Quantity[o][s] \in Nat
    BY Zenon, <1>1 DEF Backed, Inv, Typed
  <2>2. untouched(s) /\ s \notin deleted => reserved[s] = Cardinality(OpenUnits(s))
    BY Zenon DEF Backed, ReservedBacked
  <2>3. CASE s \notin done[t]
    BY Zenon, <1>2, <2>1, <2>2, <2>3
  <2>4. CASE /\ s \in done[t] /\ reservation[o][s] = "none" /\ reservation'[o][s] = "reserved"
             /\ s \notin deleted => reserved'[s] = reserved[s] + Quantity[o][s]
    <3>1. OpenUnits(s)' = OpenUnits(s) \cup ({o} \X (1..Quantity[o][s])) /\ \A x \in OpenUnits(s) : x[1] # o
      BY Zenon, <1>3, <2>4 DEF units
    <3>2. /\ IsFiniteSet(OpenUnits(s)')
          /\ Cardinality(OpenUnits(s)') = Cardinality(OpenUnits(s)) + Quantity[o][s]
      <4>1. /\ IsFiniteSet(OpenUnits(s) \cup ({o} \X (1..Quantity[o][s])))
            /\ Cardinality(OpenUnits(s) \cup ({o} \X (1..Quantity[o][s])))
                  = Cardinality(OpenUnits(s)) + Quantity[o][s]
        BY Zenon, <2>1, <3>1, UnitsAdd
      <4> QED  BY Zenon, <3>1, <4>1
    <3> QED  BY Zenon, <2>2, <2>4, <3>2
  <2>5. CASE /\ s \in done[t] /\ s \in Lines(o) /\ (o \notin overlapped => reservation[o][s] = "reserved")
             /\ reservation'[o][s] \in {"released", "confirmed"}
             /\ s \notin deleted => reserved'[s] = reserved[s] - Quantity[o][s]
    <3>1. OpenUnits(s)' \subseteq OpenUnits(s) /\ \A x \in OpenUnits(s)' : x[1] # o
      BY <1>4, <2>5
    <3>2. IsFiniteSet(OpenUnits(s)') /\ Cardinality(OpenUnits(s)') \in Nat
      <4>1. OpenUnits(s)' \in SUBSET OpenUnits(s)
        BY <3>1
      <4>2. IsFiniteSet(OpenUnits(s)')
        BY Zenon, <2>1, <4>1, FS_Subset
      <4> QED  BY Zenon, <4>2, FS_CardinalityType
    <3>3. ASSUME untouched(s) PROVE Cardinality(OpenUnits(s)) = Cardinality(OpenUnits(s)') + Quantity[o][s]
      <4>1. s \in done[t] /\ reservation[o][s] = "reserved" /\ reservation'[o][s] \in {"released", "confirmed"}
        BY <2>5, <3>3
      <4>2. OpenUnits(s) = OpenUnits(s)' \cup ({o} \X (1..Quantity[o][s]))
        BY Zenon, <1>4, <4>1 DEF units
      <4>3. Cardinality(OpenUnits(s)' \cup ({o} \X (1..Quantity[o][s]))) = Cardinality(OpenUnits(s)') + Quantity[o][s]
        BY Zenon, <2>1, <3>1, <3>2, UnitsAdd
      <4> QED  BY Zenon, <4>2, <4>3
    <3>4. ASSUME untouched(s), s \notin deleted PROVE reserved'[s] = Cardinality(OpenUnits(s)')
      <4>1. /\ reserved'[s] = reserved[s] - Quantity[o][s] /\ reserved[s] = Cardinality(OpenUnits(s))
            /\ Cardinality(OpenUnits(s)) = Cardinality(OpenUnits(s)') + Quantity[o][s]
        BY Zenon, <2>2, <2>5, <3>3, <3>4
      <4> QED  BY <2>1, <3>2, <4>1
    <3> QED  BY Zenon, <3>2, <3>4
  <2> QED  BY Zenon, <1>5, <2>3, <2>4, <2>5
<1> QED  BY <1>1, <1>6 DEF Backed, ReservedBacked

\* reserved_quantity of a live SKU is what the open reservations add up to, as long as no
\* two transactions that settle one order with that SKU overlap.
THEOREM ReservationsBacked == Spec => []ReservedBacked
<1>1. Init => Backed
  <2> SUFFICES ASSUME Init PROVE Backed
    OBVIOUS
  <2>1. ASSUME NEW s \in Skus PROVE OpenUnits(s) = {} /\ reserved[s] = 0
    BY Zenon DEF Init, OpenUnits
  <2> QED  BY Zenon, <2>1, FS_EmptySet DEF Backed, ReservedBacked
<1>2. Inv /\ Backed /\ [Next]_vars => Backed'
  <2> SUFFICES ASSUME Inv, Backed, [Next]_vars PROVE Backed'
    OBVIOUS
  <2>1. ASSUME NEW t \in Txs, commit(t) PROVE Backed'
    BY <2>1, CommitKeepsBacked
  <2>2. ASSUME UNCHANGED <<reserved, reservation>>, deleted \subseteq deleted', overlapped \subseteq overlapped'
        PROVE  Backed'
    <3>1. \A s : OpenUnits(s)' = OpenUnits(s)
      BY <2>2 DEF OpenUnits
    <3> QED  BY <2>2, <3>1 DEF Backed, ReservedBacked
  <2> QED  BY <2>1, <2>2, ColumnSteps
<1>3. Backed => ReservedBacked
  BY DEF Backed
<1> QED  BY <1>1, <1>2, <1>3, InventoryInvariant, PTL DEF Spec

=============================================================================
