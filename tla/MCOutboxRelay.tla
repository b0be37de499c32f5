--------------------------- MODULE MCOutboxRelay ---------------------------
(***************************************************************************)
(* An instance of OutboxRelay: two events of one aggregate, whose order    *)
(* matters, and two relays, one of which deletes what it has published.    *)
(* The proofs of OutboxRelayProofs are for any number of aggregates and    *)
(* batches of any size.                                                    *)
(***************************************************************************)
EXTENDS OutboxRelay

MCAggregateOf == [e \in Events |-> "A"]

=============================================================================
