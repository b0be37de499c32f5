--------------------------- MODULE EventDelivery ---------------------------
(***************************************************************************)
(* What the outbox promises to a service that writes an event in its       *)
(* business transaction: no phantom events, at-least-once delivery, and an *)
(* event is given up only in the open.  Nothing is promised about order or *)
(* about the number of copies.                                             *)
(***************************************************************************)
CONSTANT Events

VARIABLES
    stored,     \* events whose transaction committed
    open,       \* stored events the outbox still has to deliver
    sent,       \* events with a copy in Kafka
    abandoned   \* events given up, on record as failed

vars == <<stored, open, sent, abandoned>>

Init == stored = {} /\ open = {} /\ sent = {} /\ abandoned = {}

Store(e) ==
    /\ e \notin stored
    /\ stored' = stored \cup {e}
    /\ open' = open \cup {e}
    /\ UNCHANGED <<sent, abandoned>>

\* A copy may reach Kafka at any time after the commit, even late.
Send(e) ==
    /\ e \in stored
    /\ sent' = sent \cup {e}
    /\ UNCHANGED <<stored, open, abandoned>>

Settle(e) ==
    /\ e \in open /\ e \in sent
    /\ open' = open \ {e}
    /\ UNCHANGED <<stored, sent, abandoned>>

Abandon(e) ==
    /\ e \in open
    /\ open' = open \ {e}
    /\ abandoned' = abandoned \cup {e}
    /\ UNCHANGED <<stored, sent>>

\* An event on record as failed is taken off the record once it is in Kafka.
Recover(e) ==
    /\ e \in abandoned /\ e \in sent
    /\ abandoned' = abandoned \ {e}
    /\ UNCHANGED <<stored, open, sent>>

Next == \E e \in Events : Store(e) \/ Send(e) \/ Settle(e) \/ Abandon(e) \/ Recover(e)

Spec == Init /\ [][Next]_vars
=============================================================================
