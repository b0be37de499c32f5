--------------------------------- MODULE Cart ---------------------------------
(***************************************************************************)
(* The cart of one user (cart/src/cart): a Redis hash from SKU to item     *)
(* with a time to live, changed by concurrent requests.  Each Redis        *)
(* command is one step; a request is several commands with no transaction  *)
(* around them.                                                            *)
(***************************************************************************)
EXTENDS Naturals, FiniteSets

CONSTANTS
    Skus,
    Requests,           \* concurrent requests of the user
    MaxQuantity,        \* 99 in Quantity::new
    MaxCartItems,       \* MAX_CART_ITEMS
    Disconnects         \* how many times Redis does not answer

ASSUME CartAssumption ==
    /\ IsFiniteSet(Skus) /\ Skus # {}
    /\ IsFiniteSet(Requests)
    /\ {MaxQuantity, MaxCartItems} \subseteq Nat \ {0}
    /\ Disconnects \in Nat

VARIABLES
    items,      \* the hash: quantity of each SKU, 0 if it is not a field
    ttl,        \* the key has a time to live
    pc, sku,    \* step and SKU of each request
    quantity,   \* quantity the request is about to store
    lost        \* disconnections so far

vars == <<items, ttl, pc, sku, quantity, lost>>

Carts == [Skus -> 0..MaxQuantity]
Steps == {"idle", "add_exists", "add_count", "update_get", "hset", "hdel", "del", "expire"}

TypeOK ==
    /\ items \in Carts
    /\ ttl \in BOOLEAN
    /\ pc \in [Requests -> Steps]
    /\ sku \in [Requests -> Skus]
    /\ quantity \in [Requests -> 1..MaxQuantity]
    /\ lost \in 0..Disconnects

EmptyCart == [s \in Skus |-> 0]
Fields(cart) == {s \in Skus : cart[s] > 0}

\* cart_item_count: HLEN
item_count == Cardinality(Fields(items))

Init ==
    /\ items = EmptyCart
    /\ ttl = FALSE
    /\ pc = [r \in Requests |-> "idle"]
    /\ sku \in [Requests -> {CHOOSE s \in Skus : TRUE}]
    /\ quantity = [r \in Requests |-> 1]
    /\ lost = 0

Goto(r, step) == pc' = [pc EXCEPT ![r] = step]

-----------------------------------------------------------------------------
(* Requests *)

\* Quantity::new
ValidQuantity(n) == n \in 1..MaxQuantity

\* A request of the user: add_item and update_item_quantity validate the
\* quantity first; a request that is not valid changes nothing.
request(r) ==
    /\ pc[r] = "idle"
    /\ \E s \in Skus, step \in {"add_exists", "update_get", "hdel", "del"} :
        /\ sku' = [sku EXCEPT ![r] = s]
        /\ \/ /\ step \in {"add_exists", "update_get"}
              /\ \E n \in 0..(MaxQuantity + 1) :
                    /\ ValidQuantity(n)
                    /\ quantity' = [quantity EXCEPT ![r] = n]
           \/ /\ step \in {"hdel", "del"}
              /\ UNCHANGED quantity
        /\ Goto(r, step)
    /\ UNCHANGED <<items, ttl, lost>>

\* add_item: item_exists, HEXISTS
item_exists(r) ==
    /\ pc[r] = "add_exists"
    /\ Goto(r, IF items[sku[r]] > 0 THEN "hset" ELSE "add_count")
    /\ UNCHANGED <<items, ttl, sku, quantity, lost>>

\* Seeded defect: the last item is one too many.
CountOffByOne == item_count > MaxCartItems

\* CartError::CartFull
CartFull == item_count >= MaxCartItems

\* add_item: cart_item_count, HLEN
cart_item_count(r) ==
    /\ pc[r] = "add_count"
    /\ Goto(r, IF CartFull THEN "idle" ELSE "hset")
    /\ UNCHANGED <<items, ttl, sku, quantity, lost>>

\* update_item_quantity: get_cart_item, HGET; ItemNotFound if there is none
get_cart_item(r) ==
    /\ pc[r] = "update_get"
    /\ Goto(r, IF items[sku[r]] > 0 THEN "hset" ELSE "idle")
    /\ UNCHANGED <<items, ttl, sku, quantity, lost>>

\* set_cart_item: HSET, which creates the key without a time to live
set_cart_item(r) ==
    /\ pc[r] = "hset"
    /\ items' = [items EXCEPT ![sku[r]] = quantity[r]]
    /\ Goto(r, "expire")
    /\ UNCHANGED <<ttl, sku, quantity, lost>>

\* Redis deletes a hash, and its time to live, with its last field.
TtlOf(cart) == ttl /\ cart # EmptyCart

\* remove_cart_item: HDEL
remove_cart_item(r) ==
    /\ pc[r] = "hdel"
    /\ items' = [items EXCEPT ![sku[r]] = 0]
    /\ ttl' = TtlOf(items')
    /\ Goto(r, "expire")
    /\ UNCHANGED <<sku, quantity, lost>>

\* EXPIRE has no effect on a key that is gone.
Expire == items # EmptyCart

\* EXPIRE, the last command of set_cart_item and remove_cart_item
expire(r) ==
    /\ pc[r] = "expire"
    /\ ttl' = Expire
    /\ Goto(r, "idle")
    /\ UNCHANGED <<items, sku, quantity, lost>>

\* clear_cart: DEL
clear_cart(r) ==
    /\ pc[r] = "del"
    /\ items' = EmptyCart
    /\ ttl' = FALSE
    /\ Goto(r, "idle")
    /\ UNCHANGED <<sku, quantity, lost>>

\* A command fails: the request answers with an error where it stands.
disconnect(r) ==
    /\ pc[r] # "idle"
    /\ lost < Disconnects
    /\ lost' = lost + 1
    /\ Goto(r, "idle")
    /\ UNCHANGED <<items, ttl, sku, quantity>>

\* The time to live runs out.
expires ==
    /\ ttl
    /\ items' = EmptyCart
    /\ ttl' = FALSE
    /\ UNCHANGED <<pc, sku, quantity, lost>>

-----------------------------------------------------------------------------

Next ==
    \/ \E r \in Requests :
        \/ request(r) \/ item_exists(r) \/ cart_item_count(r) \/ get_cart_item(r)
        \/ set_cart_item(r) \/ remove_cart_item(r) \/ expire(r) \/ clear_cart(r) \/ disconnect(r)
    \/ expires

Spec == Init /\ [][Next]_vars

-----------------------------------------------------------------------------
(* Properties *)

\* SKUs of the requests that are past their check and about to store.
Storing == {sku[r] : r \in {q \in Requests : pc[q] = "hset"}}

\* MAX_CART_ITEMS is checked before, not with, the insertion: concurrent
\* requests overfill the cart, but by less than one item for each of them.
\* This is inductive with the items about to be stored counted in.
CartBound == Cardinality(Fields(items) \cup Storing) <= MaxCartItems - 1 + Cardinality(Requests)

=============================================================================
