---------------------------- MODULE MCOrderSaga ----------------------------
(* Small instances of OrderSaga. *)
EXTENDS OrderSaga, TLC

CONSTANTS o1, o2, s1, s2

\* One order of two units of s1, cancelled up to twice.
OneDemand  == (o1 :> (s1 :> 2))
OneStock   == (s1 :> 2)
OneCancels == (o1 :> 2)

\* Two orders that compete for s1; o2 also asks for s2.  Only o1 is cancelled.
TwoDemand  == (o1 :> (s1 :> 1 @@ s2 :> 0)) @@ (o2 :> (s1 :> 2 @@ s2 :> 1))
TwoStock   == (s1 :> 2 @@ s2 :> 1)
TwoCancels == (o1 :> 1 @@ o2 :> 0)

=============================================================================
