------------------------- MODULE MCCatalogInventory -------------------------
(***************************************************************************)
(* An instance of CatalogInventory: two orders that name the same two SKUs *)
(* in opposite order, so that they can block each other, with stock for    *)
(* both of one SKU and for only one of the other.  Two sessions may work   *)
(* on the first order at once, in any combination of handlers.             *)
(***************************************************************************)
EXTENDS CatalogInventory, TLC

CONSTANTS o1, o2, s1, s2, a, b, c

MCItemsOf      == o1 :> <<s1, s2>> @@ o2 :> <<s2, s1>>
MCQuantity     == o1 :> (s1 :> 1 @@ s2 :> 1) @@ o2 :> (s1 :> 1 @@ s2 :> 2)
MCInitialStock == s1 :> 2 @@ s2 :> 2
MCDeltas       == {-1, 1}
MCSessionsOf   == o1 :> {a, b} @@ o2 :> {c}

\* The two sessions of o1 are interchangeable, and only safety is checked.
SessionSymmetry == Permutations({a, b})

=============================================================================
