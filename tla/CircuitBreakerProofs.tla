------------------------ MODULE CircuitBreakerProofs ------------------------
(***************************************************************************)
(* For any number of callers, any window and any threshold: the breaker    *)
(* stays open for a whole cooldown whenever it opens.                      *)
(***************************************************************************)
EXTENDS CircuitBreaker, TLAPS

-----------------------------------------------------------------------------
(* The window *)

\* push_result drops the oldest entry of a full window before it appends: the
\* window stays a sequence of results and never grows past WindowSize.
LEMMA PushResult ==
    ASSUME NEW w \in Seq(Results), Len(w) <= WindowSize, NEW result \in Results
    PROVE  /\ push_result(w, result) \in Seq(Results)
           /\ Len(push_result(w, result)) <= WindowSize
<1>1. CASE Len(w) >= WindowSize
  <2>1. Len(w) = WindowSize /\ w # <<>>
    BY <1>1, BreakerAssumption
  <2>2. Tail(w) \in Seq(Results) /\ Len(Tail(w)) = Len(w) - 1
    BY <2>1
  <2> QED  BY <1>1, <2>1, <2>2, BreakerAssumption DEF push_result
<1>2. CASE ~ Len(w) >= WindowSize
  BY <1>2, BreakerAssumption DEF push_result
<1> QED  BY <1>1, <1>2

-----------------------------------------------------------------------------
(* The breaker *)

\* While the breaker is open, opened_at counts as old only if a cooldown has
\* gone by since it opened: no record moves the time of an open breaker, and
\* every way to open it takes the time anew.
OpenSince == status = "Open" /\ opened_at = "old" => rested

\* Init and every step keep the types and OpenSince, among them that opened_at
\* is set exactly while the breaker is not closed.
THEOREM BreakerInvariant == Spec => [](TypeOK /\ OpenSince)
<1>1. Init => TypeOK /\ OpenSince
  <2>1. <<>> \in Seq(Results) /\ Len(<<>>) <= WindowSize
    BY BreakerAssumption
  <2> QED  BY <2>1 DEF Init, TypeOK, OpenSince, Statuses
<1>2. TypeOK /\ OpenSince /\ [Next]_vars => (TypeOK /\ OpenSince)'
  <2> SUFFICES ASSUME TypeOK, OpenSince, [Next]_vars PROVE (TypeOK /\ OpenSince)'
    OBVIOUS
  <2> USE DEF TypeOK, OpenSince, Statuses
  <2>1. ASSUME NEW c \in Callers, check(c) PROVE (TypeOK /\ OpenSince)'
    BY <2>1 DEF check
  <2>2. ASSUME NEW c \in Callers, record_outcome(c) PROVE (TypeOK /\ OpenSince)'
    <3>1. calling' \subseteq Callers /\ healthy' \in BOOLEAN
      BY <2>2 DEF record_outcome
    <3>2. ASSUME NEW result \in Results, window' = push_result(window, result)
          PROVE  window' \in Seq(Results) /\ Len(window') <= WindowSize
      BY <3>2, PushResult
    <3>3. CASE record_success
      BY <3>1, <3>2, <3>3 DEF record_success, Results
    <3>4. CASE record_retryable_failure
      BY <3>1, <3>2, <3>4 DEF record_retryable_failure, Results
    <3>5. CASE record_nothing
      BY <3>1, <3>5 DEF record_nothing
    <3> QED  BY <2>2, <3>3, <3>4, <3>5 DEF record_outcome
  <2>3. CASE cooldown
    BY <2>3 DEF cooldown
  <2>4. CASE recover
    BY <2>4 DEF recover
  <2>5. CASE UNCHANGED vars
    BY <2>5 DEF vars
  <2> QED  BY <2>1, <2>2, <2>3, <2>4, <2>5 DEF Next
<1> QED  BY <1>1, <1>2, PTL DEF Spec

\* However many results of older calls come in while it is open, the breaker
\* leaves Open only through check, after a whole cooldown.
THEOREM Cooldown == Spec => CooldownRespected
<1> DEFINE Respected == status = "Open" /\ status' # "Open" => rested
<1>1. TypeOK /\ OpenSince /\ [Next]_vars => [Respected]_vars
  <2> SUFFICES ASSUME TypeOK, OpenSince, Next, status = "Open", status' # "Open" PROVE rested
    BY DEF vars
  <2>1. ASSUME NEW c \in Callers, check(c) PROVE rested
    BY <2>1 DEF check, TypeOK, OpenSince
  <2>2. ASSUME NEW c \in Callers, record_outcome(c) PROVE FALSE
    BY <2>2 DEF record_outcome, record_success, record_retryable_failure, record_nothing
  <2> QED  BY <2>1, <2>2 DEF Next, cooldown, recover
<1> QED  BY <1>1, BreakerInvariant, PTL DEF Spec, CooldownRespected

=============================================================================
