----------------------------- MODULE CartProofs -----------------------------
(***************************************************************************)
(* For any number of requests, SKUs and disconnections, and any limit: how *)
(* far concurrent requests can overfill a cart.                            *)
(***************************************************************************)
EXTENDS Cart, FiniteSetTheorems, TLAPS

-----------------------------------------------------------------------------
(* Counting *)

\* What the cart will hold once every request that is past its check has stored.
Load == Fields(items) \cup Storing

\* The SKUs that requests are about to store are no more than the requests.
LEMMA StoringBound ==
    IsFiniteSet(Storing) /\ Cardinality(Storing) \in Nat /\ Cardinality(Storing) <= Cardinality(Requests)
<1> DEFINE H == {q \in Requests : pc[q] = "hset"}
           f == [r \in H |-> sku[r]]
<1>1. IsFiniteSet(H) /\ Cardinality(H) <= Cardinality(Requests)
  BY CartAssumption, FS_Subset
<1>2. f \in Surjection(H, Storing)
  BY DEF Surjection, Storing
<1>3. IsFiniteSet(Storing) /\ Cardinality(Storing) <= Cardinality(H)
  BY <1>1, <1>2, FS_Surjection
<1> QED  BY <1>1, <1>3, CartAssumption, FS_CardinalityType

\* Everything here is finite and can be counted.
LEMMA LoadIsFinite ==
    /\ IsFiniteSet(Load) /\ Cardinality(Load) \in Nat
    /\ IsFiniteSet(Fields(items)) /\ Cardinality(Fields(items)) \in Nat
    /\ Cardinality(Requests) \in Nat
<1>1. IsFiniteSet(Fields(items))
  BY CartAssumption, FS_Subset DEF Fields
<1> QED  BY <1>1, StoringBound, CartAssumption, FS_Union, FS_CardinalityType DEF Load

-----------------------------------------------------------------------------
(* The invariant *)

\* A cart may be empty.
LEMMA EmptyCartTyped == EmptyCart \in Carts
  BY CartAssumption DEF EmptyCart, Carts

\* The domains of the variables, for the requests and the hash.
THEOREM CartTyped == Spec => []TypeOK
<1>1. Init => TypeOK
  <2>1. (CHOOSE s \in Skus : TRUE) \in Skus
    BY CartAssumption
  <2>2. Init => sku \in [Requests -> Skus]
    BY <2>1 DEF Init
  <2>3. Init => items \in Carts /\ ttl \in BOOLEAN
    BY EmptyCartTyped DEF Init
  <2>4. Init => pc \in [Requests -> Steps]
    BY DEF Init, Steps
  <2>5. Init => quantity \in [Requests -> 1..MaxQuantity] /\ lost \in 0..Disconnects
    BY CartAssumption DEF Init
  <2> QED  BY <2>2, <2>3, <2>4, <2>5 DEF TypeOK
<1>2. TypeOK /\ [Next]_vars => TypeOK'
  <2> SUFFICES ASSUME TypeOK, [Next]_vars PROVE TypeOK'
    OBVIOUS
  <2> USE CartAssumption DEF TypeOK, Carts, Steps, Goto
  <2>1. ASSUME NEW r \in Requests, request(r) PROVE TypeOK'
    BY <2>1 DEF request, ValidQuantity
  <2>2. ASSUME NEW r \in Requests, item_exists(r) PROVE TypeOK'
    BY <2>2 DEF item_exists
  <2>3. ASSUME NEW r \in Requests, cart_item_count(r) PROVE TypeOK'
    BY <2>3 DEF cart_item_count
  <2>4. ASSUME NEW r \in Requests, get_cart_item(r) PROVE TypeOK'
    BY <2>4 DEF get_cart_item
  <2>5. ASSUME NEW r \in Requests, set_cart_item(r) PROVE TypeOK'
    BY <2>5 DEF set_cart_item
  <2>6. ASSUME NEW r \in Requests, remove_cart_item(r) PROVE TypeOK'
    BY <2>6 DEF remove_cart_item, TtlOf
  <2>7. ASSUME NEW r \in Requests, expire(r) PROVE TypeOK'
    BY <2>7 DEF expire, Expire
  <2>8. ASSUME NEW r \in Requests, clear_cart(r) PROVE TypeOK'
    BY <2>8, EmptyCartTyped DEF clear_cart
  <2>9. ASSUME NEW r \in Requests, disconnect(r) PROVE TypeOK'
    BY <2>9 DEF disconnect
  <2>10. CASE expires
    BY <2>10, EmptyCartTyped DEF expires
  <2>11. CASE UNCHANGED vars
    BY <2>11 DEF vars
  <2> QED  BY <2>1, <2>2, <2>3, <2>4, <2>5, <2>6, <2>7, <2>8, <2>9, <2>10, <2>11 DEF Next
<1> QED  BY <1>1, <1>2, PTL DEF Spec

\* A step adds nothing to the load but where cart_item_count lets a request
\* pass: what HEXISTS and HGET let pass is in the cart already, and HSET stores
\* what was counted.
LEMMA LoadGrowsOnlyByCount ==
    ASSUME TypeOK, [Next]_vars, ~ \E r \in Requests : cart_item_count(r)
    PROVE  Load' \subseteq Load
<1> USE DEF Load, Storing, Fields, TypeOK, Carts, Goto
<1>1. ASSUME NEW r \in Requests, request(r) PROVE Load' \subseteq Load
  BY <1>1 DEF request
<1>2. ASSUME NEW r \in Requests, item_exists(r) PROVE Load' \subseteq Load
  BY <1>2 DEF item_exists
<1>3. ASSUME NEW r \in Requests, get_cart_item(r) PROVE Load' \subseteq Load
  BY <1>3 DEF get_cart_item
<1>4. ASSUME NEW r \in Requests, set_cart_item(r) PROVE Load' \subseteq Load
  BY <1>4 DEF set_cart_item
<1>5. ASSUME NEW r \in Requests, remove_cart_item(r) PROVE Load' \subseteq Load
  BY <1>5 DEF remove_cart_item
<1>6. ASSUME NEW r \in Requests, expire(r) PROVE Load' \subseteq Load
  BY <1>6 DEF expire
<1>7. ASSUME NEW r \in Requests, clear_cart(r) PROVE Load' \subseteq Load
  BY <1>7 DEF clear_cart, EmptyCart
<1>8. ASSUME NEW r \in Requests, disconnect(r) PROVE Load' \subseteq Load
  BY <1>8 DEF disconnect
<1>9. CASE expires
  BY <1>9 DEF expires, EmptyCart
<1>10. CASE UNCHANGED vars
  BY <1>10 DEF vars
<1> QED  BY <1>1, <1>2, <1>3, <1>4, <1>5, <1>6, <1>7, <1>8, <1>9, <1>10 DEF Next

\* However many requests overlap, wherever connections are lost, the cart holds
\* less than one item above MAX_CART_ITEMS for each request.
THEOREM CartIsBounded == Spec => []CartBound
<1>1. Init => CartBound
  <2> SUFFICES ASSUME Init PROVE CartBound
    OBVIOUS
  <2>1. Load = {}
    BY DEF Init, Load, Storing, Fields, EmptyCart
  <2> QED  BY <2>1, CartAssumption, LoadIsFinite, FS_EmptySet DEF CartBound, Load
<1>2. TypeOK /\ CartBound /\ [Next]_vars => CartBound'
  <2> SUFFICES ASSUME TypeOK, CartBound, [Next]_vars PROVE CartBound'
    OBVIOUS
  <2>1. CASE ~ \E r \in Requests : cart_item_count(r)
    <3>1. Load' \subseteq Load
      BY <2>1, LoadGrowsOnlyByCount
    <3>2. Cardinality(Load') <= Cardinality(Load) /\ Cardinality(Load') \in Nat
      BY <3>1, LoadIsFinite, FS_Subset, FS_CardinalityType
    <3> QED  BY <3>2, CartAssumption, LoadIsFinite DEF CartBound, Load
  <2>2. ASSUME NEW r \in Requests, cart_item_count(r) PROVE CartBound'
    <3>1. CASE CartFull
      <4>1. Load' = Load
        BY <2>2, <3>1 DEF cart_item_count, Goto, Load, Storing, Fields, TypeOK
      <4> QED  BY <4>1 DEF CartBound, Load
    <3>2. CASE ~ CartFull
      <4>1. Cardinality(Fields(items')) <= MaxCartItems - 1 /\ Cardinality(Fields(items')) \in Nat
        BY <2>2, <3>2, CartAssumption, LoadIsFinite DEF cart_item_count, CartFull, item_count
      <4>2. (IsFiniteSet(Storing) /\ Cardinality(Storing) \in Nat /\ Cardinality(Storing) <= Cardinality(Requests))'
        BY StoringBound, PTL
      <4>3. IsFiniteSet(Fields(items'))
        BY CartAssumption, FS_Subset DEF Fields
      <4> DEFINE both == Fields(items') \cap Storing'
      <4>4. Cardinality(both) \in Nat
        BY <4>2, FS_Subset, FS_CardinalityType
      <4>5. Cardinality(Load') = Cardinality(Fields(items')) + Cardinality(Storing') - Cardinality(both)
        BY <4>2, <4>3, FS_Union DEF Load
      <4> QED  BY <4>1, <4>2, <4>4, <4>5, CartAssumption, LoadIsFinite DEF CartBound, Load
    <3> QED  BY <3>1, <3>2
  <2> QED  BY <2>1, <2>2
<1> QED  BY <1>1, <1>2, CartTyped, PTL DEF Spec

=============================================================================
