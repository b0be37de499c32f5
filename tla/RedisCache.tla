----------------------------- MODULE RedisCache -----------------------------
(***************************************************************************)
(* RedisCache of shared/src/cache: the optional Redis in front of a table. *)
(* Every command may fail to reach Redis (no connection, a timeout, a      *)
(* value that does not parse), and the error is swallowed: a GET answers   *)
(* "miss", a SET or a DEL does nothing.  A process that dies between the   *)
(* commit of a write and the DEL that follows is a DEL that does nothing.  *)
(*                                                                         *)
(* suspect is a history variable: the keys whose entry somebody may        *)
(* rightly suspect to be out of date, because a DEL was lost, because a    *)
(* SET stored what had been read before a write, or because the user of    *)
(* the cache says so.                                                      *)
(***************************************************************************)
CONSTANTS
    Keys,
    Nil                 \* no entry

VARIABLES
    cache,              \* cache[k]: the entry of k that has not expired
    suspect             \* history, see above

CacheInit ==
    /\ cache = [k \in Keys |-> Nil]
    /\ suspect = {}

\* What a GET of k may answer.
get(k) == {cache[k], Nil}

\* SET of v, read when the table said v; now is what it says by now.
set(k, v, now) ==
    \/ /\ cache' = [cache EXCEPT ![k] = v]
       /\ suspect' = IF v = now THEN suspect \ {k} ELSE suspect \cup {k}
    \/ UNCHANGED <<cache, suspect>>

\* DEL of k
evict(k) ==
    \/ /\ cache' = [cache EXCEPT ![k] = Nil]
       /\ suspect' = suspect \ {k}
    \/ /\ cache[k] # Nil
       /\ suspect' = suspect \cup {k}
       /\ UNCHANGED cache

\* Seeded defect: a plain SET, and no entry ever leaves by itself.
expire_Never(k) == FALSE /\ UNCHANGED <<cache, suspect>>

\* The entry is default_ttl seconds old.  set_ex gives every entry its time
\* to live, so Redis drops it whatever else happens.
expire(k) ==
    /\ cache[k] # Nil
    /\ cache' = [cache EXCEPT ![k] = Nil]
    /\ suspect' = suspect \ {k}

\* A write that changes what these keys stand for, and is followed by no DEL.
Suspect(ks) == suspect' = suspect \cup {k \in ks : cache[k] # Nil}

=============================================================================
