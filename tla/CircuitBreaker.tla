--------------------------- MODULE CircuitBreaker ---------------------------
(***************************************************************************)
(* The circuit breaker (shared/src/circuit_breaker.rs) around a payment    *)
(* gateway (payment/src/gateway/circuit_breaker.rs).  The mutex makes each *)
(* method one step; between the check before a call and the record after   *)
(* it, the mutex is free and other callers go on.  A result is therefore   *)
(* recorded in whatever status the breaker has by then.                    *)
(*                                                                         *)
(* A window entry is "success" or "failure".  opened_at is abstracted to   *)
(* what check asks of it: None, less than a cooldown ago ("recent") or     *)
(* more ("old").  rested is no field of the code: it says that a cooldown  *)
(* has gone by since the breaker last became Open.                         *)
(***************************************************************************)
EXTENDS Naturals, Sequences, FiniteSets

CONSTANTS
    Callers,
    WindowSize,
    Num, Den            \* failure_threshold = Num / Den

ASSUME BreakerAssumption ==
    /\ WindowSize \in Nat \ {0}
    /\ Num \in Nat
    /\ Den \in Nat \ {0}

VARIABLES
    status, window, opened_at,  \* BreakerState
    calling,                    \* callers between check and record
    rested,
    healthy                     \* the gateway answers from now on

vars == <<status, window, opened_at, calling, rested, healthy>>

Results  == {"success", "failure"}
Statuses == {"Closed", "Open", "HalfOpen"}

TypeOK ==
    /\ status \in Statuses
    /\ window \in Seq(Results)
    /\ Len(window) <= WindowSize
    /\ opened_at \in {"None", "recent", "old"}
    /\ opened_at = "None" <=> status = "Closed"
    /\ calling \subseteq Callers
    /\ rested \in BOOLEAN
    /\ healthy \in BOOLEAN

Init ==
    /\ status = "Closed"
    /\ window = <<>>
    /\ opened_at = "None"
    /\ calling = {}
    /\ rested = FALSE
    /\ healthy = FALSE

-----------------------------------------------------------------------------
(* The sliding window *)

push_result(w, result) == Append(IF Len(w) >= WindowSize THEN Tail(w) ELSE w, result)

should_trip(w) ==
    /\ Len(w) >= WindowSize
    /\ Cardinality({i \in DOMAIN w : w[i] = "failure"}) * Den >= Num * Len(w)

-----------------------------------------------------------------------------
(* The methods of the breaker.  A call that check rejects changes nothing. *)

check(c) ==
    /\ c \notin calling
    /\ status = "Open" => opened_at # "recent"
    /\ calling' = calling \cup {c}
    /\ status' = IF status = "Open" THEN "HalfOpen" ELSE status
    /\ UNCHANGED <<window, opened_at, rested, healthy>>

\* Seeded defect: a success is recorded and the probe is forgotten.
SuccessNeverCloses ==
    /\ window' = push_result(window, "success")
    /\ UNCHANGED <<status, opened_at, rested>>

record_success ==
    /\ window' = push_result(window, "success")
    /\ IF status = "HalfOpen"
       THEN status' = "Closed" /\ opened_at' = "None"
       ELSE UNCHANGED <<status, opened_at>>
    /\ UNCHANGED rested

\* Seeded defect: a failed probe re-opens the breaker and keeps the old time.
ReopenKeepsTime ==
    /\ window' = push_result(window, "failure")
    /\ IF status = "HalfOpen" \/ (status = "Closed" /\ should_trip(window'))
       THEN /\ status' = "Open"
            /\ opened_at' = IF status = "HalfOpen" THEN opened_at ELSE "recent"
            /\ rested' = FALSE
       ELSE UNCHANGED <<status, opened_at, rested>>

record_retryable_failure ==
    /\ window' = push_result(window, "failure")
    /\ IF status = "HalfOpen" \/ (status = "Closed" /\ should_trip(window'))
       THEN status' = "Open" /\ opened_at' = "recent" /\ rested' = FALSE
       ELSE UNCHANGED <<status, opened_at, rested>>

\* A business decline is recorded nowhere; a call whose task is dropped at the
\* await looks the same.
record_nothing == UNCHANGED <<window, status, opened_at, rested>>

\* record_outcome: an unhealthy gateway may answer in any way.
record_outcome(c) ==
    /\ c \in calling
    /\ calling' = calling \ {c}
    /\ \/ record_success
       \/ ~ healthy /\ record_retryable_failure
       \/ record_nothing
    /\ UNCHANGED healthy

-----------------------------------------------------------------------------
(* The environment *)

\* The cooldown has gone by since opened_at.
cooldown ==
    /\ opened_at = "recent"
    /\ opened_at' = "old"
    /\ rested' = TRUE
    /\ UNCHANGED <<status, window, calling, healthy>>

\* From here on the gateway has no more infrastructure failures.
recover ==
    /\ ~ healthy
    /\ healthy' = TRUE
    /\ UNCHANGED <<status, window, opened_at, calling, rested>>

Next ==
    \/ \E c \in Callers : check(c) \/ record_outcome(c)
    \/ cooldown
    \/ recover

Spec == Init /\ [][Next]_vars

succeeds(c) == record_outcome(c) /\ window' = push_result(window, "success")

\* Callers keep coming, the cooldown ends, and not every call is declined.
FairSpec ==
    /\ Spec
    /\ \A c \in Callers : WF_vars(check(c)) /\ SF_vars(succeeds(c))
    /\ WF_vars(cooldown)

-----------------------------------------------------------------------------
(* Properties *)

\* The breaker stays open for a whole cooldown whenever it opens, however many
\* results of older calls come in meanwhile.
CooldownRespected ==
    [][status = "Open" /\ status' # "Open" => rested]_vars

\* Once the gateway is healthy the breaker ends up closed for good.
RecoversWhenHealthy == []<>healthy => <>[](status = "Closed")

=============================================================================
