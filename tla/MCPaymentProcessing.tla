------------------------ MODULE MCPaymentProcessing ------------------------
(* Instances of PaymentProcessing for TLC. *)
EXTENDS PaymentProcessing

CONSTANTS w1, w2

\* Every kind of fault.
EveryFault == AllFaults

\* Only the gateway misbehaves.
GatewayTimeout == {"timeout"}
=============================================================================
