-------------------------------- MODULE MCCart --------------------------------
(* A small instance of OrderPlacement: four SKUs, of which one is free, and room
   for two.  Amounts are in units of half a dollar; the limits are scaled down and
   keep the order they have in the code: MIN_PAYMENT_AMOUNT < MIN_CART_VALUE =
   MIN_ORDER_AMOUNT, MAX_CART_VALUE < MAX_PAYMENT_AMOUNT, MAX_CART_ITEMS <
   MAX_ITEMS_PER_ORDER, MAX_CART_QUANTITY < MAX_ORDER_QUANTITY. *)
EXTENDS OrderPlacement

CONSTANTS s1, s2, s3, s4, r1, r2

MCPriceOf == s1 :> 2 @@ s2 :> 2 @@ s3 :> 4 @@ s4 :> 0
=============================================================================
