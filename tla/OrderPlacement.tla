--------------------------- MODULE OrderPlacement ---------------------------
(***************************************************************************)
(* What becomes of the cart: the order service validates the request made  *)
(* of it (order/src/orders/{dtos,value_objects,rules}.rs) and the payment  *)
(* service the amount (payment/src/payments/rules.rs).  The three services *)
(* keep their own thresholds; nothing in the code relates them.            *)
(*                                                                         *)
(* A text of the request is "blank", "too_long" or "fits".                 *)
(***************************************************************************)
EXTENDS CartCheckout

CONSTANTS
    MinOrderAmount, MaxItemsPerOrder, MaxOrderQuantity,
    MinPaymentAmount, MaxPaymentAmount

ASSUME PlacementAssumption ==
    {MinOrderAmount, MaxItemsPerOrder, MaxOrderQuantity,
     MinPaymentAmount, MaxPaymentAmount} \subseteq Nat

-----------------------------------------------------------------------------
(* The request *)

\* ShippingAddressReq without the optional state; one text at a time is bad.
AddressFields == {"street", "city", "postal_code", "country"}
Addresses ==
    {[f \in AddressFields |-> IF f = bad THEN text ELSE "fits"] :
        bad \in AddressFields, text \in {"blank", "too_long", "fits"}}

\* CreateOrderReq: the header, the optional currency and the address.
CreateOrderReq ==
    [key      : {"blank", "too_long", "fits"},
     currency : {"absent", "usd", "KRW", "XXX", "dollars"},
     address  : Addresses]

IdempotencyKey(text) == text = "fits"

\* Currency::new trims, converts to upper case and wants three letters.
Currency(text) ==
    CASE text \in {"absent", "usd"} -> "USD"
      [] text = "dollars"           -> "malformed"
      [] OTHER                      -> text

ShippingAddress(address) ==
    /\ \A f \in AddressFields : address[f] # "blank"
    /\ \A f \in AddressFields : address[f] # "too_long"

is_complete(address) == \A f \in AddressFields : address[f] # "blank"

\* Quantity::new of the order service.
OrderQuantity(n) == n \in 1..MaxOrderQuantity

\* ValidCreateOrderReq::new; prices are natural numbers, so Price::new succeeds.
ValidCreateOrderReq(req, cart) ==
    /\ IdempotencyKey(req.key)
    /\ Currency(req.currency) # "malformed"
    /\ ShippingAddress(req.address)
    /\ Fields(cart) # {}
    /\ \A s \in Fields(cart) : OrderQuantity(cart[s])

-----------------------------------------------------------------------------
(* The order service *)

SUPPORTED_CURRENCIES == {"USD", "KRW", "EUR", "GBP", "JPY"}

OrderCheck == {"NonEmptyItems", "MaxItemsPerOrder", "MinOrderAmount", "SupportedCurrency",
               "ShippingAddressComplete", "PositiveItemPrices", "StatusAllowsCancellation"}

creation_rules ==
    all(<<check("NonEmptyItems"), check("MaxItemsPerOrder"), check("MinOrderAmount"),
          check("SupportedCurrency"), check("ShippingAddressComplete"), check("PositiveItemPrices")>>)

eval_creation(req, cart) ==
    {c \in OrderCheck :
        CASE c = "NonEmptyItems"            -> Cardinality(Fields(cart)) > 0
          [] c = "MaxItemsPerOrder"         -> Cardinality(Fields(cart)) <= MaxItemsPerOrder
          [] c = "MinOrderAmount"           -> total(cart) >= MinOrderAmount
          [] c = "SupportedCurrency"        -> Currency(req.currency) \in SUPPORTED_CURRENCIES
          [] c = "ShippingAddressComplete"  -> is_complete(req.address)
          [] c = "PositiveItemPrices"       -> \A s \in Fields(cart) : PriceOf[s] > 0
          [] c = "StatusAllowsCancellation" -> FALSE}

\* create_order gets past its checks; otherwise it has no effect.
create_order(req, cart) ==
    /\ ValidCreateOrderReq(req, cart)
    /\ evaluate_detailed(creation_rules, eval_creation(req, cart)).passed

-----------------------------------------------------------------------------
(* The payment service *)

PAYMENT_CURRENCIES == {"USD", "KRW", "EUR", "GBP", "JPY"}

PaymentCheck == {"MinAmount", "MaxAmount", "SupportedCurrency", "ValidStateForOperation",
                 "CaptureAmountConsistent"}

authorization_rules ==
    all(<<check("MinAmount"), check("MaxAmount"), check("SupportedCurrency"),
          check("ValidStateForOperation")>>)

eval_authorization(amount, currency, state) ==
    {c \in PaymentCheck :
        CASE c = "MinAmount"               -> amount >= MinPaymentAmount
          [] c = "MaxAmount"               -> amount <= MaxPaymentAmount
          [] c = "SupportedCurrency"       -> currency \in PAYMENT_CURRENCIES
          [] c = "ValidStateForOperation"  -> state \in {"New", "Failed"}
          [] c = "CaptureAmountConsistent" -> TRUE}

\* validate_authorization of the event InventoryReserved, which carries the total
\* and the currency of the order; no payment of the order has been tried.
Payable(req, cart) ==
    evaluate_detailed(authorization_rules,
                      eval_authorization(total(cart), Currency(req.currency), "New")).passed

-----------------------------------------------------------------------------
(* Properties *)

\* The three services agree.  A cart that validate_cart lets through, however it
\* was filled, is refused by create_order only for its header, currency or
\* address, never for what is in it; and the order can then be paid.  Without
\* checkout the one order that is created and can never be authorized is one
\* above MAX_PAYMENT_AMOUNT, which only the rules of the cart keep away.
CheckedOutIsPayable ==
    AtRest => \A req \in CreateOrderReq :
        LET currency == Currency(req.currency) IN
        /\ validate_cart(items) =>
            /\ create_order(req, items) <=>
                    /\ req.key = "fits" /\ currency \in SUPPORTED_CURRENCIES
                    /\ \A f \in AddressFields : req.address[f] = "fits"
            /\ create_order(req, items) => Payable(req, items)
        /\ create_order(req, items) /\ ~ Payable(req, items) => total(items) > MaxPaymentAmount

=============================================================================
