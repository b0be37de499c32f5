---------------------------- MODULE MCJobRunner ----------------------------
(* A small instance of JobRunner. *)
EXTENDS JobRunner, TLC

CONSTANTS j1, c1, c2, c3, r1, r2, t1, t2

\* j1 runs once; the others are rows of one recurring job.
MCKeyOf == [j \in Jobs |-> IF j = j1 THEN j1 ELSE c1]

\* Each runner may have one task in flight.
OneTaskEach == (t1 :> r1) @@ (t2 :> r2)

\* Two services share the one-off job and a recurring row; three rows of the
\* recurring job; one recurring row whose lock is recovered too early.  In the
\* last workload a service is shut down.
MCWorkloads ==
    LET Mishaps == {"timeout", "crash", "db_error", "no_handler", "bind"} IN
    {[old |-> {c2, c3}, services |-> {r1, r2}, faults |-> Mishaps, shutdowns |-> 0],
     [old |-> {j1}, services |-> {r1, r2}, faults |-> Mishaps, shutdowns |-> 0],
     [old |-> {j1, c2, c3}, services |-> {r1, r2}, faults |-> {"slow"}, shutdowns |-> 0],
     [old |-> {c2, c3}, services |-> {r1}, faults |-> AllFaults, shutdowns |-> 1]}

\* r2 runs a build that does not know j1.
SomeHandled == (r1 :> Jobs) @@ (r2 :> Recurring)

=============================================================================
