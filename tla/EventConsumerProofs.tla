------------------------- MODULE EventConsumerProofs -------------------------
(***************************************************************************)
(* For any log, any number of members, retries and faults: the group moves *)
(* past a message only when it is settled or was left uncommitted, and the *)
(* effects of an event are committed once, and once more at most for every *)
(* member that lost the partition at work.                                 *)
(***************************************************************************)
EXTENDS EventConsumer, FiniteSetTheorems, TLAPS

-----------------------------------------------------------------------------
(* The inductive invariant *)

\* TypeOK without the count of faults, which no step looks at but to stop.
Typed ==
    /\ owner \in Members \cup {NoMember}
    /\ committed \in 1..Len(Log) + 1
    /\ processed \subseteq Events
    /\ effects \in [Events -> Nat]
    /\ pc \in [Members -> Steps]
    /\ position \in [Members -> 1..Len(Log) + 1]
    /\ msg \in [Members -> 0..Len(Log)]
    /\ \A m \in Members : pc[m] \in Working => msg[m] # 0
    /\ \A m \in Members : pc[m] \in {"attempt", "handle", "backoff"} => Event(m) # Garbage

\* Nothing more need be done about o, or nothing more will be.
Passed(o) == Settled(o) \/ o \in unacked

\* processed_events holds events whose effects were committed.
MarkedInv == \A e \in processed : effects[e] > 0

\* Who is about to commit an offset has settled its message.
CommitInv == \A m \in Members : pc[m] = "commit" => Settled(msg[m])

\* Whoever works on a message, with or without the partition, has everything
\* before it behind: a late commit of a former owner that owns the partition
\* again skips nothing.
WorkInv == \A m \in Members : pc[m] \in Working => \A o \in Offsets : o < msg[m] => Passed(o)

\* The owner has fetched only messages that are passed, but for the one in hand.
FetchInv ==
    owner # NoMember => \A o \in Offsets : o < position[owner] =>
        Passed(o) \/ (pc[owner] \in Working /\ msg[owner] = o)

ConsumerInv == Typed /\ MarkedInv /\ CommitInv /\ WorkInv /\ FetchInv /\ PassedOnlyIfSettled

-----------------------------------------------------------------------------
(* The steps *)

\* What the log holds at an offset is an event unless it is Garbage.
LEMMA LogEntry ==
    /\ Len(Log) \in Nat
    /\ \A o \in Offsets : Log[o] # Garbage => Log[o] \in Events
<1>1. Log \in Seq(Events \cup {Garbage})
  BY ConsumerAssumption
<1>2. Len(Log) \in Nat
  BY <1>1
<1> QED  BY <1>2 DEF Events

\* The handler is given an event, and its commit counts one more effect of it.
LEMMA HandledEvent ==
    ASSUME Typed, NEW m \in Members, pc[m] \in {"attempt", "handle"}
    PROVE  /\ msg[m] \in Offsets /\ Event(m) \in Events /\ Event(m) = Log[msg[m]]
           /\ CommitEffects(Event(m)) =>
                /\ processed' = processed \cup {Event(m)}
                /\ effects' \in [Events -> Nat]
                /\ \A e \in Events : effects'[e] = IF e = Event(m) THEN effects[e] + 1 ELSE effects[e]
<1>1. msg[m] \in Offsets /\ Log[msg[m]] # Garbage
  BY LogEntry DEF Typed, Working, Offsets, Event
<1>2. Event(m) \in Events /\ Event(m) = Log[msg[m]]
  BY <1>1, LogEntry DEF Event
<1> HIDE DEF Event
<1> QED  BY <1>1, <1>2 DEF CommitEffects, Typed

\* Every step keeps the domains of the variables, and only messages that
\* deserialize reach the handler.
LEMMA StepTyped ==
    ASSUME Typed, [Next]_vars
    PROVE  Typed'
<1> USE LogEntry, ConsumerAssumption DEF Typed, Steps, Working, Offsets, kafka, database, member, history
<1>1. ASSUME NEW m \in Members, recv(m) PROVE Typed'
  BY <1>1 DEF recv, Event
<1>2. ASSUME NEW m \in Members, is_event_processed(m) PROVE Typed'
  BY <1>2 DEF is_event_processed, Unacked, Event
<1>3. ASSUME NEW m \in Members, handle(m) PROVE Typed'
  <2>1. processed' \subseteq Events /\ effects' \in [Events -> Nat]
    BY <1>3, HandledEvent DEF handle
  <2>2. pc' \in [Members -> Steps] /\ \A n \in Members : n # m => pc'[n] = pc[n]
    BY <1>3 DEF handle, Unacked
  <2>3. pc'[m] \in {"commit", "dlq", "backoff", "poll"} /\ UNCHANGED <<kafka, position, msg>>
    BY <1>3 DEF handle, Unacked
  <2> QED  BY <1>3, <2>1, <2>2, <2>3 DEF handle, Event
<1>4. ASSUME NEW m \in Members, backoff_or_shutdown(m) PROVE Typed'
  BY <1>4 DEF backoff_or_shutdown, Event
<1>5. ASSUME NEW m \in Members, send_to_dlq(m) PROVE Typed'
  BY <1>5 DEF send_to_dlq, Unacked, Event
<1>6. ASSUME NEW m \in Members, commit_offset(m) PROVE Typed'
  BY <1>6 DEF commit_offset, Event
<1>7. ASSUME NEW m \in Members, stop(m) \/ crash(m) PROVE Typed'
  <2>1. Leave(m)
    BY <1>7 DEF stop, crash
  <2> QED  BY <2>1 DEF Leave, Event
<1>8. ASSUME NEW m \in Members, rebalance(m) PROVE Typed'
  BY <1>8 DEF rebalance, Live, Event
<1>9. ASSUME NEW m \in Members, shutdown(m) \/ restart(m) PROVE Typed'
  BY <1>9 DEF shutdown, restart, Event
<1>10. CASE cleanup_processed_events \/ UNCHANGED vars
  BY <1>10 DEF cleanup_processed_events, vars, Event
<1> QED  BY <1>1, <1>2, <1>3, <1>4, <1>5, <1>6, <1>7, <1>8, <1>9, <1>10 DEF Next, process_message

\* What is settled stays settled, and what was left uncommitted stays so: the
\* dead-letter topic is only written, effects are never taken back.
LEMMA Monotone ==
    ASSUME Typed, [Next]_vars, NEW o \in Offsets
    PROVE  (Settled(o) => Settled(o)') /\ (Passed(o) => Passed(o)')
<1>1. dlq \subseteq dlq' /\ unacked \subseteq unacked'
  BY DEF Next, vars, process_message, recv, is_event_processed, handle, backoff_or_shutdown, send_to_dlq,
         commit_offset, shutdown, stop, crash, Leave, restart, rebalance, cleanup_processed_events,
         Unacked, kafka, history
<1>2. \A e \in Events : effects'[e] >= effects[e]
  <2>1. ASSUME NEW m \in Members, handle(m) PROVE \A e \in Events : effects'[e] >= effects[e]
    <3>1. CASE CommitEffects(Event(m))
      <4>1. pc[m] = "handle"
        BY <2>1 DEF handle
      <4>2. \A e \in Events : effects'[e] = IF e = Event(m) THEN effects[e] + 1 ELSE effects[e]
        BY <3>1, <4>1, HandledEvent
      <4>3. \A e \in Events : effects[e] \in Nat
        BY DEF Typed
      <4> QED  BY <4>2, <4>3
    <3>2. CASE UNCHANGED effects
      BY <3>2 DEF Typed
    <3> QED  BY <2>1, <3>1, <3>2 DEF handle, database
  <2>2. CASE UNCHANGED effects
    BY <2>2 DEF Typed
  <2>3. UNCHANGED effects \/ \E m \in Members : handle(m)
    BY DEF Next, vars, process_message, recv, is_event_processed, backoff_or_shutdown, send_to_dlq,
           commit_offset, shutdown, stop, crash, Leave, restart, rebalance, cleanup_processed_events, database
  <2> QED  BY <2>1, <2>2, <2>3
<1>3. \A e \in Events : effects[e] > 0 => effects'[e] > 0
  BY <1>2, StepTyped DEF Typed
<1> QED  BY <1>1, <1>3, LogEntry DEF Settled, Passed

\* processed_events and the effects are written in one transaction.
LEMMA StepMarked ==
    ASSUME Typed, MarkedInv, [Next]_vars
    PROVE  MarkedInv'
<1>1. ASSUME NEW m \in Members, handle(m) PROVE MarkedInv'
  <2>1. CASE CommitEffects(Event(m))
    BY <1>1, <2>1, HandledEvent DEF handle, Typed, MarkedInv
  <2>2. CASE UNCHANGED database
    BY <2>2 DEF MarkedInv, database
  <2> QED  BY <1>1, <2>1, <2>2 DEF handle
<1>2. CASE cleanup_processed_events
  BY <1>2 DEF cleanup_processed_events, MarkedInv
<1>3. CASE UNCHANGED database
  BY <1>3 DEF MarkedInv, database
<1>4. UNCHANGED database \/ cleanup_processed_events \/ \E m \in Members : handle(m)
  BY DEF Next, vars, process_message, recv, is_event_processed, backoff_or_shutdown, send_to_dlq,
         commit_offset, shutdown, stop, crash, Leave, restart, rebalance
<1> QED  BY <1>1, <1>2, <1>3, <1>4

\* A member comes to the commit of an offset only from a processed_events row,
\* its own commit or the dead-letter topic.
LEMMA StepCommit ==
    ASSUME Typed, MarkedInv, CommitInv, [Next]_vars
    PROVE  CommitInv'
<1> SUFFICES ASSUME NEW n \in Members, pc'[n] = "commit" PROVE Settled(msg[n])' 
  BY DEF CommitInv
<1>1. CASE pc[n] = "commit" /\ msg'[n] = msg[n]
  <2>1. msg[n] \in Offsets
    BY <1>1, LogEntry DEF Typed, Working, Offsets
  <2>2. Settled(msg[n]) => Settled(msg[n])'
    BY <1>1, <2>1, Monotone DEF Settled
  <2> QED  BY <1>1, <2>2 DEF CommitInv
<1>2. CASE is_event_processed(n) /\ Event(n) \in processed
  BY <1>2, HandledEvent DEF is_event_processed, MarkedInv, Settled, Typed, database
<1>3. CASE handle(n) /\ CommitEffects(Event(n))
  BY <1>3, HandledEvent DEF handle, Settled, Typed
<1>4. CASE send_to_dlq(n) /\ msg[n] \in dlq'
  BY <1>4 DEF send_to_dlq, Settled
<1>5. ASSUME NEW m \in Members, process_message(m)
      PROVE  \/ pc[n] = "commit" /\ msg'[n] = msg[n]
             \/ is_event_processed(n) /\ Event(n) \in processed
             \/ handle(n) /\ CommitEffects(Event(n))
             \/ send_to_dlq(n) /\ msg[n] \in dlq'
  <2> USE DEF Typed
  <2>1. CASE recv(m) \/ backoff_or_shutdown(m) \/ commit_offset(m)
    BY <2>1 DEF recv, backoff_or_shutdown, commit_offset
  <2>2. CASE is_event_processed(m)
    BY <2>2 DEF is_event_processed, Unacked
  <2>3. CASE handle(m)
    BY <2>3 DEF handle, Unacked
  <2>4. CASE send_to_dlq(m)
    BY <2>4 DEF send_to_dlq, Unacked
  <2> QED  BY <1>5, <2>1, <2>2, <2>3, <2>4 DEF process_message
<1>6. ASSUME NEW m \in Members, shutdown(m) \/ stop(m) \/ crash(m) \/ restart(m) \/ rebalance(m)
      PROVE  pc[n] = "commit" /\ msg'[n] = msg[n]
  BY <1>6 DEF Typed, shutdown, stop, crash, Leave, restart, rebalance
<1>7. CASE cleanup_processed_events \/ UNCHANGED vars
  BY <1>1, <1>7 DEF cleanup_processed_events, vars, member
<1> QED  BY <1>1, <1>2, <1>3, <1>4, <1>5, <1>6, <1>7 DEF Next

\* A member that works on a message fetched it as the owner, when everything
\* before it was passed.
LEMMA StepWork ==
    ASSUME Typed, WorkInv, FetchInv, [Next]_vars
    PROVE  WorkInv'
<1> SUFFICES ASSUME NEW n \in Members, pc'[n] \in Working, NEW o \in Offsets, o < msg'[n] PROVE Passed(o)'
  BY DEF WorkInv
<1>1. CASE pc[n] \in Working /\ msg'[n] = msg[n]
  BY <1>1, Monotone DEF WorkInv
<1>2. CASE recv(n)
  <2>1. owner = n /\ pc[n] = "poll" /\ msg'[n] = position[n]
    BY <1>2 DEF recv, Typed
  <2>2. Passed(o)
    BY <2>1, ConsumerAssumption DEF FetchInv, Working
  <2> QED  BY <2>2, Monotone
<1>3. ASSUME NEW m \in Members, process_message(m), ~ recv(n)
      PROVE  pc[n] \in Working /\ msg'[n] = msg[n]
  BY <1>3 DEF Typed, Working, process_message, recv, is_event_processed, handle, Unacked,
              backoff_or_shutdown, send_to_dlq, commit_offset
<1>4. ASSUME NEW m \in Members, shutdown(m) \/ stop(m) \/ crash(m) \/ restart(m) \/ rebalance(m)
      PROVE  pc[n] \in Working /\ msg'[n] = msg[n]
  BY <1>4 DEF Typed, Working, shutdown, stop, crash, Leave, restart, rebalance
<1>5. CASE cleanup_processed_events \/ UNCHANGED vars
  BY <1>1, <1>5 DEF cleanup_processed_events, vars, member
<1> QED  BY <1>1, <1>2, <1>3, <1>4, <1>5 DEF Next

\* The message in hand stays there until it is settled or left uncommitted, or
\* the member loses the partition with it.
LEMMA StepInHand ==
    ASSUME Typed, CommitInv, [Next]_vars, NEW n \in Members, pc[n] \in Working, owner' = n,
           NEW o \in Offsets, msg[n] = o
    PROVE  Passed(o)' \/ (pc'[n] \in Working /\ msg'[n] = o)
<1>1. CASE pc'[n] \in Working /\ msg'[n] = msg[n]
  BY <1>1
<1>2. CASE commit_offset(n)
  <2>1. Settled(o)
    BY <1>2 DEF commit_offset, CommitInv
  <2> QED  BY <2>1, Monotone DEF Passed
<1>3. CASE msg[n] \in unacked'
  BY <1>3 DEF Passed
<1>4. ASSUME NEW m \in Members, process_message(m), ~ commit_offset(n)
      PROVE  (pc'[n] \in Working /\ msg'[n] = msg[n]) \/ msg[n] \in unacked'
  BY <1>4 DEF Typed, Working, process_message, recv, is_event_processed, handle, Unacked,
              backoff_or_shutdown, send_to_dlq, commit_offset
<1>5. ASSUME NEW m \in Members, shutdown(m) \/ stop(m) \/ crash(m) \/ restart(m) \/ rebalance(m)
      PROVE  pc'[n] \in Working /\ msg'[n] = msg[n]
  BY <1>5, ConsumerAssumption DEF Typed, Working, shutdown, stop, crash, Leave, restart, rebalance
<1>6. CASE cleanup_processed_events \/ UNCHANGED vars
  BY <1>1, <1>6 DEF cleanup_processed_events, vars, member
<1> QED  BY <1>1, <1>2, <1>3, <1>4, <1>5, <1>6 DEF Next

\* The owner fetches from the committed offset on, one message after another.
LEMMA StepFetch ==
    ASSUME Typed, CommitInv, FetchInv, PassedOnlyIfSettled, [Next]_vars
    PROVE  FetchInv'
<1> SUFFICES ASSUME NEW n \in Members, owner' = n, NEW o \in Offsets, o < position'[n]
             PROVE  Passed(o)' \/ (pc'[n] \in Working /\ msg'[n] = o)
  <2>1. owner' \in Members \cup {NoMember}
    BY StepTyped DEF Typed
  <2> QED  BY <2>1 DEF FetchInv
<1>1. CASE rebalance(n)
  <2>1. position'[n] = committed
    BY <1>1 DEF rebalance, Typed
  <2> QED  BY <2>1, Monotone DEF PassedOnlyIfSettled, Passed
<1>2. CASE owner = n /\ recv(n)
  <2>1. pc[n] = "poll" /\ msg'[n] = position[n] /\ position'[n] = position[n] + 1 /\ pc'[n] \in Working
    BY <1>2 DEF recv, Typed, Working
  <2>2. CASE o = position[n]
    BY <2>1, <2>2
  <2>3. CASE o < position[n]
    BY <1>2, <2>1, <2>3, Monotone, ConsumerAssumption DEF FetchInv, Working
  <2> QED  BY <2>1, <2>2, <2>3, LogEntry DEF Typed, Offsets
<1>3. CASE owner = n /\ position'[n] = position[n]
  <2>1. Passed(o) \/ (pc[n] \in Working /\ msg[n] = o)
    BY <1>3, ConsumerAssumption DEF FetchInv
  <2> QED  BY <2>1, Monotone, StepInHand
<1>4. ASSUME NEW m \in Members, process_message(m)
      PROVE  owner = n /\ (recv(n) \/ position'[n] = position[n])
  BY <1>4 DEF Typed, process_message, recv, is_event_processed, handle,
              backoff_or_shutdown, send_to_dlq, commit_offset, kafka
<1>5. ASSUME NEW m \in Members, shutdown(m) \/ stop(m) \/ crash(m) \/ restart(m) \/ rebalance(m)
      PROVE  rebalance(n) \/ (owner = n /\ position'[n] = position[n])
  BY <1>5, ConsumerAssumption DEF Typed, shutdown, stop, crash, Leave, restart, rebalance, kafka
<1>6. CASE cleanup_processed_events \/ UNCHANGED vars
  BY <1>3, <1>6 DEF cleanup_processed_events, vars, member, kafka
<1> QED  BY <1>1, <1>2, <1>3, <1>4, <1>5, <1>6 DEF Next

\* The committed offset moves to the message after one that a working member
\* has settled.
LEMMA StepPassed ==
    ASSUME Typed, CommitInv, WorkInv, PassedOnlyIfSettled, [Next]_vars
    PROVE  PassedOnlyIfSettled'
<1> SUFFICES ASSUME NEW o \in Offsets, o < committed' PROVE Passed(o)'
  BY DEF PassedOnlyIfSettled, Passed
<1> SUFFICES Passed(o)
  BY Monotone
<1>1. CASE committed' = committed
  BY <1>1 DEF PassedOnlyIfSettled, Passed
<1>2. ASSUME NEW m \in Members, commit_offset(m), committed' = msg[m] + 1 PROVE Passed(o)
  <2>1. pc[m] = "commit" /\ msg[m] \in 0..Len(Log)
    BY <1>2 DEF commit_offset, Typed
  <2>2. o < msg[m] \/ o = msg[m]
    BY <1>2, <2>1, LogEntry DEF Offsets
  <2> QED  BY <2>1, <2>2 DEF CommitInv, WorkInv, Working, Passed
<1>3. committed' = committed \/ \E m \in Members : commit_offset(m) /\ committed' = msg[m] + 1
  BY DEF Next, vars, process_message, recv, is_event_processed, handle, backoff_or_shutdown, send_to_dlq,
         commit_offset, shutdown, stop, crash, Leave, restart, rebalance, cleanup_processed_events, kafka
<1> QED  BY <1>1, <1>2, <1>3

-----------------------------------------------------------------------------
(* How often an event is handled: every member that lost the partition at   *)
(* work pays for at most one repetition, be it that it commits the event    *)
(* itself or that it moves the committed offset back.                       *)

Counted == faults \in [AllFaults -> Nat]

\* The member owns the partition and fetches next no later than after the
\* message in hand: its offset commit brings nothing up for reading again.
InPlace(m) == owner = m /\ position[m] <= msg[m] + 1

\* Members at work on a message the partition has moved away from, that may yet
\* add an effect of e.  One that holds e and is past the handler, or will find
\* the processed_events row, adds none: the row stays while it is at work.
Spare(e) ==
    {m \in Members : /\ pc[m] \in Working /\ ~ InPlace(m)
                     /\ ~ (Event(m) = e /\ e \in processed /\ pc[m] # "handle")}

\* Offsets the owner, or the next one, will read.
Ahead(o) == o >= committed \/ (owner # NoMember /\ o >= position[owner])

\* The owner may yet add an effect of e.
Unread(e) == e \notin processed /\ \E o \in Offsets : Log[o] = e /\ Ahead(o)
InHand(e) ==
    \E m \in Members : /\ pc[m] \in Working /\ InPlace(m) /\ Event(m) = e
                       /\ e \notin processed \/ pc[m] = "handle"
Due(e) == IF Unread(e) \/ InHand(e) THEN 1 ELSE 0

\* Effects of e that were committed or may yet be.
Within(e) ==
    /\ IsFiniteSet(Spare(e))
    /\ effects[e] + Cardinality(Spare(e)) + Due(e) <= 1 + faults["zombie"]

BudgetInv == Counted /\ \A e \in Events : Within(e)

\* Faults are only counted up.
LEMMA StepCounted ==
    ASSUME Counted, [Next]_vars
    PROVE  Counted' /\ faults'["zombie"] >= faults["zombie"]
<1>1. UNCHANGED faults \/ \E kind \in AllFaults : faults' = [faults EXCEPT ![kind] = @ + 1]
  BY ConsumerAssumption DEF Next, vars, process_message, recv, is_event_processed, handle, backoff_or_shutdown,
         send_to_dlq, commit_offset, shutdown, stop, crash, restart, rebalance, cleanup_processed_events,
         Fault, history
<1> QED  BY <1>1 DEF Counted, AllFaults

\* How the size of a set bounds that of the next one.
LEMMA SetSizes ==
    ASSUME NEW T, IsFiniteSet(T), NEW S
    PROVE  /\ Cardinality(T) \in Nat
           /\ S \subseteq T => IsFiniteSet(S) /\ Cardinality(S) \in Nat /\ Cardinality(S) <= Cardinality(T)
           /\ \A m \in T : S \subseteq T \ {m} =>
                IsFiniteSet(S) /\ Cardinality(S) \in Nat /\ Cardinality(S) + 1 <= Cardinality(T)
           /\ \A x : S \subseteq T \cup {x} =>
                IsFiniteSet(S) /\ Cardinality(S) \in Nat /\ Cardinality(S) <= Cardinality(T) + 1
           /\ \A x : \A m \in T : S \subseteq (T \ {m}) \cup {x} =>
                IsFiniteSet(S) /\ Cardinality(S) \in Nat /\ Cardinality(S) <= Cardinality(T)
<1>1. Cardinality(T) \in Nat
  BY FS_CardinalityType
<1>2. ASSUME NEW R, IsFiniteSet(R), S \subseteq R
      PROVE  IsFiniteSet(S) /\ Cardinality(S) \in Nat /\ Cardinality(S) <= Cardinality(R)
  BY <1>2, FS_Subset, FS_CardinalityType
<1>3. ASSUME NEW R, IsFiniteSet(R), NEW x
      PROVE  IsFiniteSet(R \cup {x}) /\ Cardinality(R \cup {x}) \in Nat /\ Cardinality(R \cup {x}) <= Cardinality(R) + 1
  <2>1. IsFiniteSet(R \cup {x}) /\ Cardinality(R \cup {x}) = IF x \in R THEN Cardinality(R) ELSE Cardinality(R) + 1
    BY <1>3, FS_AddElement, Zenon
  <2>2. Cardinality(R) \in Nat
    BY <1>3, FS_CardinalityType, Zenon
  <2> QED  BY <2>1, <2>2
<1>4. ASSUME NEW m \in T
      PROVE  IsFiniteSet(T \ {m}) /\ Cardinality(T \ {m}) \in Nat /\ Cardinality(T \ {m}) + 1 = Cardinality(T)
  <2>1. IsFiniteSet(T \ {m}) /\ Cardinality(T \ {m}) = Cardinality(T) - 1
    BY FS_RemoveElement, Zenon
  <2>2. Cardinality(T \ {m}) \in Nat
    BY <2>1, FS_CardinalityType, Zenon
  <2> QED  BY <1>1, <2>1, <2>2
<1>5. ASSUME NEW m \in T, S \subseteq T \ {m}
      PROVE  IsFiniteSet(S) /\ Cardinality(S) \in Nat /\ Cardinality(S) + 1 <= Cardinality(T)
  <2>1. IsFiniteSet(S) /\ Cardinality(S) \in Nat /\ Cardinality(S) <= Cardinality(T \ {m})
    BY <1>5, <1>4, <1>2, Zenon
  <2>2. Cardinality(T \ {m}) \in Nat /\ Cardinality(T \ {m}) + 1 = Cardinality(T)
    BY <1>4, Zenon
  <2> QED  BY <1>1, <2>1, <2>2
<1>6. ASSUME NEW x, S \subseteq T \cup {x}
      PROVE  IsFiniteSet(S) /\ Cardinality(S) \in Nat /\ Cardinality(S) <= Cardinality(T) + 1
  <2>1. /\ IsFiniteSet(T \cup {x}) /\ Cardinality(T \cup {x}) \in Nat
        /\ Cardinality(T \cup {x}) <= Cardinality(T) + 1
    BY <1>3, Zenon
  <2>2. IsFiniteSet(S) /\ Cardinality(S) \in Nat /\ Cardinality(S) <= Cardinality(T \cup {x})
    BY <1>6, <2>1, <1>2, Zenon
  <2> QED  BY <1>1, <2>1, <2>2
<1>7. ASSUME NEW x, NEW m \in T, S \subseteq (T \ {m}) \cup {x}
      PROVE  IsFiniteSet(S) /\ Cardinality(S) \in Nat /\ Cardinality(S) <= Cardinality(T)
  <2>1. /\ IsFiniteSet((T \ {m}) \cup {x}) /\ Cardinality((T \ {m}) \cup {x}) \in Nat
        /\ Cardinality((T \ {m}) \cup {x}) <= Cardinality(T \ {m}) + 1
    BY <1>4, <1>3
  <2>2. IsFiniteSet(S) /\ Cardinality(S) \in Nat /\ Cardinality(S) <= Cardinality((T \ {m}) \cup {x})
    BY <1>7, <2>1, <1>2
  <2> QED  BY <1>1, <1>4, <2>1, <2>2
<1> QED  BY <1>1, <1>2, <1>5, <1>6, <1>7

\* The ways a step may change the account of an event: nothing is added; a spare
\* member becomes the owner's turn; the owner's turn, or a spare member, becomes
\* an effect; a zombie pays for one more spare member.
Kept(e)     == effects'[e] = effects[e] /\ Spare(e)' \subseteq Spare(e) /\ Due(e)' <= Due(e)
Returned(e) == effects'[e] = effects[e] /\ \E m \in Spare(e) : Spare(e)' \subseteq Spare(e) \ {m}
Taken(e)    == effects'[e] = effects[e] + 1 /\ Spare(e)' \subseteq Spare(e) /\ Due(e) = 1 /\ Due(e)' = 0
Repeated(e) ==
    /\ effects'[e] = effects[e] + 1 /\ Due(e)' <= Due(e)
    /\ \E m \in Spare(e) : Spare(e)' \subseteq Spare(e) \ {m}
Paid(e) ==
    /\ effects'[e] = effects[e] /\ faults'["zombie"] = faults["zombie"] + 1
    /\ \E x : \/ Spare(e)' \subseteq Spare(e) \cup {x} /\ Due(e)' <= Due(e)
              \/ \E m \in Spare(e) : Spare(e)' \subseteq (Spare(e) \ {m}) \cup {x}

\* None of them goes over the budget.
LEMMA WithinKept ==
    ASSUME Typed, Counted, Counted', faults'["zombie"] >= faults["zombie"], NEW e \in Events, Within(e),
           Kept(e) \/ Returned(e) \/ Taken(e) \/ Repeated(e) \/ Paid(e)
    PROVE  Within(e)'
<1> DEFINE T == Spare(e)  S == Spare(e)'
<1>1. IsFiniteSet(T) /\ effects[e] + Cardinality(T) + Due(e) <= 1 + faults["zombie"]
  BY Zenon DEF Within
<1>2. /\ effects[e] \in Nat /\ faults["zombie"] \in Nat /\ faults'["zombie"] \in Nat
      /\ Due(e) \in {0, 1} /\ Due(e)' \in {0, 1}
  BY DEF Typed, Counted, AllFaults, Due
<1>3. SUFFICES IsFiniteSet(S) /\ effects'[e] + Cardinality(S) + Due(e)' <= 1 + faults'["zombie"]
  BY Zenon DEF Within
<1> HIDE DEF T, S
<1>4. CASE Kept(e)
  <2>1. effects'[e] = effects[e] /\ S \subseteq T /\ Due(e)' <= Due(e)
    BY <1>4, Zenon DEF Kept, S, T
  <2>2. IsFiniteSet(S) /\ Cardinality(S) \in Nat /\ Cardinality(T) \in Nat /\ Cardinality(S) <= Cardinality(T)
    BY <1>1, <2>1, SetSizes, Zenon
  <2> QED  BY <1>1, <1>2, <2>1, <2>2
<1>5. CASE Returned(e)
  <2>1. PICK m \in T : effects'[e] = effects[e] /\ S \subseteq T \ {m}
    BY <1>5, Zenon DEF Returned, S, T
  <2>2. IsFiniteSet(S) /\ Cardinality(S) \in Nat /\ Cardinality(T) \in Nat /\ Cardinality(S) + 1 <= Cardinality(T)
    BY <1>1, <2>1, SetSizes, Zenon
  <2> QED  BY <1>1, <1>2, <2>1, <2>2
<1>6. CASE Taken(e)
  <2>1. effects'[e] = effects[e] + 1 /\ S \subseteq T /\ Due(e) = 1 /\ Due(e)' = 0
    BY <1>6, Zenon DEF Taken, S, T
  <2>2. IsFiniteSet(S) /\ Cardinality(S) \in Nat /\ Cardinality(T) \in Nat /\ Cardinality(S) <= Cardinality(T)
    BY <1>1, <2>1, SetSizes, Zenon
  <2> QED  BY <1>1, <1>2, <2>1, <2>2
<1>7. CASE Repeated(e)
  <2>1. PICK m \in T : effects'[e] = effects[e] + 1 /\ Due(e)' <= Due(e) /\ S \subseteq T \ {m}
    BY <1>7, Zenon DEF Repeated, S, T
  <2>2. IsFiniteSet(S) /\ Cardinality(S) \in Nat /\ Cardinality(T) \in Nat /\ Cardinality(S) + 1 <= Cardinality(T)
    BY <1>1, <2>1, SetSizes, Zenon
  <2> QED  BY <1>1, <1>2, <2>1, <2>2
<1>8. CASE Paid(e)
  <2>1. PICK x : /\ effects'[e] = effects[e] /\ faults'["zombie"] = faults["zombie"] + 1
                 /\ \/ S \subseteq T \cup {x} /\ Due(e)' <= Due(e)
                    \/ \E m \in T : S \subseteq (T \ {m}) \cup {x}
    BY <1>8, Zenon DEF Paid, S, T
  <2>2. CASE S \subseteq T \cup {x} /\ Due(e)' <= Due(e)
    <3>1. IsFiniteSet(S) /\ Cardinality(S) \in Nat /\ Cardinality(T) \in Nat /\ Cardinality(S) <= Cardinality(T) + 1
      BY <1>1, <2>2, SetSizes, Zenon
    <3> QED  BY <1>1, <1>2, <2>1, <2>2, <3>1
  <2>3. CASE \E m \in T : S \subseteq (T \ {m}) \cup {x}
    <3>1. IsFiniteSet(S) /\ Cardinality(S) \in Nat /\ Cardinality(T) \in Nat /\ Cardinality(S) <= Cardinality(T)
      BY <1>1, <2>3, SetSizes, Zenon
    <3> QED  BY <1>1, <1>2, <2>1, <3>1
  <2> QED  BY <2>1, <2>2, <2>3
<1> QED  BY <1>4, <1>5, <1>6, <1>7, <1>8

\* The owner's turns are compared as conditions.
LEMMA DueKept ==
    ASSUME NEW e, (Unread(e)' \/ InHand(e)') => (Unread(e) \/ InHand(e))
    PROVE  Due(e)' <= Due(e)
BY DEF Due

\* Steps of process_message that leave Kafka and the database alone: the handler
\* is entered only without a processed_events row.
LEMMA MovesKept ==
    ASSUME NEW e \in Events, UNCHANGED <<owner, committed, position, msg, database>>,
           \A n \in Members : /\ pc'[n] \in Working => pc[n] \in Working
                              /\ pc'[n] = "handle" => pc[n] = "handle" \/ Event(n) \notin processed
    PROVE  Kept(e)
<1>1. Spare(e)' \subseteq Spare(e)
  BY DEF Spare, InPlace, Event, database
<1>2. Unread(e)' => Unread(e)
  BY DEF Unread, Ahead, database
<1>3. InHand(e)' => InHand(e)
  BY DEF InHand, InPlace, Event, database
<1>4. Due(e)' <= Due(e)
  BY <1>2, <1>3, DueKept, Zenon
<1> QED  BY <1>1, <1>4 DEF Kept, database

\* What those steps are.
LEMMA MovesAre ==
    ASSUME Typed, NEW m \in Members,
           \/ is_event_processed(m) \/ backoff_or_shutdown(m) \/ send_to_dlq(m) \/ shutdown(m) \/ restart(m)
           \/ handle(m) /\ UNCHANGED database
           \/ commit_offset(m) /\ UNCHANGED committed
    PROVE  /\ UNCHANGED <<owner, committed, position, msg, database>>
           /\ \A n \in Members : /\ pc'[n] \in Working => pc[n] \in Working
                                 /\ pc'[n] = "handle" => pc[n] = "handle" \/ Event(n) \notin processed
<1> USE DEF Typed, Working, Unacked, kafka
<1>1. CASE is_event_processed(m)
  BY <1>1 DEF is_event_processed
<1>2. CASE backoff_or_shutdown(m)
  BY <1>2 DEF backoff_or_shutdown
<1>3. CASE send_to_dlq(m)
  BY <1>3 DEF send_to_dlq
<1>4. CASE shutdown(m) \/ restart(m)
  BY <1>4 DEF shutdown, restart
<1>5. CASE handle(m) /\ UNCHANGED database
  BY <1>5 DEF handle
<1>6. CASE commit_offset(m) /\ UNCHANGED committed
  BY <1>6 DEF commit_offset
<1> QED  BY <1>1, <1>2, <1>3, <1>4, <1>5, <1>6

\* recv takes the next message in place: its event was ahead.
LEMMA RecvKept ==
    ASSUME Typed, NEW e \in Events, NEW m \in Members, recv(m)
    PROVE  Kept(e)
<1>1. /\ owner = m /\ pc[m] = "poll" /\ position[m] \in Offsets
      /\ msg'[m] = position[m] /\ position'[m] = position[m] + 1
      /\ UNCHANGED <<kafka, database>>
      /\ \A n \in Members : n # m => pc'[n] = pc[n] /\ msg'[n] = msg[n] /\ position'[n] = position[n]
  BY LogEntry DEF recv, Typed, Offsets
<1>2. InPlace(m)' /\ m \in Members /\ m # NoMember
  BY <1>1, ConsumerAssumption DEF InPlace, kafka, Offsets
<1>3. Spare(e)' \subseteq Spare(e)
  BY <1>1, <1>2 DEF Spare, InPlace, Event, database, kafka
<1>4. Unread(e)' => Unread(e)
  <2>1. ASSUME NEW o \in Offsets, Ahead(o)' PROVE Ahead(o)
    BY <1>1, <1>2, <2>1, LogEntry DEF Ahead, kafka, Offsets
  <2> QED  BY <1>1, <2>1 DEF Unread, database
<1>5. InHand(e)' => Unread(e)
  <2> SUFFICES ASSUME NEW n \in Members, pc'[n] \in Working, InPlace(n)', Event(n)' = e,
                      e \notin processed' \/ pc'[n] = "handle"
               PROVE  Unread(e)
    BY Zenon DEF InHand
  <2>1. n = m
    BY <1>1 DEF InPlace, kafka
  <2>2. pc'[m] # "handle"
    BY DEF recv, Typed
  <2>3. Ahead(position[m])
    BY <1>1, <1>2 DEF Ahead, Offsets
  <2> QED  BY <1>1, <2>1, <2>2, <2>3 DEF Unread, Event, database
<1>6. Due(e)' <= Due(e)
  BY <1>4, <1>5, DueKept, Zenon
<1> QED  BY <1>1, <1>3, <1>6 DEF Kept, database

\* A member that goes down takes its message along; the next owner starts from
\* the committed offset.
LEMMA LeaveKept ==
    ASSUME Typed, NEW e \in Events, NEW m \in Members, Leave(m)
    PROVE  Kept(e)
<1>1. /\ pc'[m] \notin Working /\ UNCHANGED <<committed, position, database>>
      /\ owner' # m /\ (owner # m => owner' = owner) /\ (owner = m => owner' = NoMember)
      /\ \A n \in Members : n # m => pc'[n] = pc[n] /\ msg'[n] = msg[n]
  BY ConsumerAssumption DEF Leave, Typed, Working
<1>2. Spare(e)' \subseteq Spare(e)
  BY <1>1, ConsumerAssumption DEF Spare, InPlace, Event, database
<1>3. Unread(e)' => Unread(e)
  BY <1>1, ConsumerAssumption DEF Unread, Ahead, database
<1>4. InHand(e)' => InHand(e)
  BY <1>1, ConsumerAssumption DEF InHand, InPlace, Event, database
<1>5. Due(e)' <= Due(e)
  BY <1>3, <1>4, DueKept, Zenon
<1> QED  BY <1>1, <1>2, <1>5 DEF Kept, database

\* The row of an event is removed when no copy is ahead or in hand.
LEMMA CleanupKept ==
    ASSUME Typed, NEW e \in Events, cleanup_processed_events
    PROVE  Kept(e)
<1>1. PICK d \in processed :
        /\ \A o \in Offsets : Log[o] = d => o < committed
        /\ \A m \in Members : pc[m] \in Working => Event(m) # d
        /\ owner # NoMember => \A o \in Offsets : Log[o] = d => o < position[owner]
        /\ processed' = processed \ {d}
  BY DEF cleanup_processed_events
<1>2. UNCHANGED <<kafka, effects, member>>
  BY DEF cleanup_processed_events
<1>3. Spare(e)' \subseteq Spare(e)
  BY <1>1, <1>2 DEF Spare, InPlace, Event, kafka, member
<1>4. Unread(e)' => Unread(e)
  <2>1. \A o \in Offsets : Log[o] = d => ~ Ahead(o)
    BY <1>1, LogEntry DEF Ahead, Offsets, Typed
  <2> QED  BY <1>1, <1>2, <2>1 DEF Unread, Ahead, kafka, member
<1>5. InHand(e)' => InHand(e)
  BY <1>1, <1>2 DEF InHand, InPlace, Event, kafka, member
<1>6. Due(e)' <= Due(e)
  BY <1>4, <1>5, DueKept, Zenon
<1> QED  BY <1>2, <1>3, <1>6 DEF Kept

\* The owner's offset commit: in place it brings nothing back; otherwise the
\* member was spare, and the events after its message may be read once more.
LEMMA CommitAccount ==
    ASSUME Typed, NEW e \in Events, NEW m \in Members, commit_offset(m), owner = m, committed' = msg[m] + 1
    PROVE  Kept(e) \/ Returned(e)
<1>1. /\ pc[m] = "commit" /\ pc'[m] = "poll" /\ UNCHANGED <<owner, position, msg, database>>
      /\ \A n \in Members : n # m => pc'[n] = pc[n]
  BY DEF commit_offset, Typed
<1>2. Spare(e)' \subseteq Spare(e) \ {m}
  BY <1>1 DEF Spare, InPlace, Event, database, Working
<1>3. InHand(e)' => InHand(e)
  BY <1>1 DEF InHand, InPlace, Event, database, Working
<1>4. effects' = effects
  BY <1>1 DEF database
<1>5. CASE m \in Spare(e)
  BY <1>2, <1>4, <1>5, Zenon DEF Returned
<1>6. CASE InPlace(m)
  <2>1. ASSUME NEW o \in Offsets, Ahead(o)' PROVE Ahead(o)
    <3>1. position[m] \in Nat /\ msg[m] \in Nat /\ m # NoMember /\ o \in Nat
      BY LogEntry, ConsumerAssumption DEF Typed, Offsets
    <3> QED  BY <1>1, <1>6, <2>1, <3>1 DEF Ahead, InPlace
  <2>2. Unread(e)' => Unread(e)
    BY <1>1, <2>1 DEF Unread, database
  <2>3. Due(e)' <= Due(e)
    BY <1>3, <2>2, DueKept, Zenon
  <2> QED  BY <1>2, <1>4, <2>3 DEF Kept
<1>7. CASE e \in processed
  <2>1. ~ Unread(e)'
    BY <1>1, <1>7 DEF Unread, database
  <2>2. Due(e)' <= Due(e)
    BY <1>3, <2>1, DueKept, Zenon
  <2> QED  BY <1>2, <1>4, <2>2 DEF Kept
<1> QED  BY <1>1, <1>5, <1>6, <1>7 DEF Spare, Working

\* The handler's commit is the owner's turn or that of a spare member.
LEMMA HandleAccount ==
    ASSUME Typed, NEW e \in Events, NEW m \in Members, handle(m), CommitEffects(Event(m))
    PROVE  Kept(e) \/ Taken(e) \/ Repeated(e)
<1>1. /\ pc[m] = "handle" /\ pc'[m] \in {"commit", "poll"} /\ UNCHANGED <<owner, committed, position, msg>>
      /\ \A n \in Members : n # m => pc'[n] = pc[n]
  <2>1. pc[m] = "handle" /\ UNCHANGED <<owner, committed, position, msg>>
    BY DEF handle, kafka
  <2>2. processed' # processed \/ effects' # effects
    BY <2>1, HandledEvent DEF Typed
  <2> QED  BY <2>1, <2>2 DEF handle, Typed, Unacked, database
<1>2. /\ Event(m) \in Events /\ processed' = processed \cup {Event(m)}
      /\ effects'[e] = IF e = Event(m) THEN effects[e] + 1 ELSE effects[e]
  BY <1>1, HandledEvent
<1>3. Spare(e)' \subseteq Spare(e)
  BY <1>1, <1>2 DEF Spare, InPlace, Event, Working
<1>4. Unread(e)' => Unread(e)
  BY <1>1, <1>2 DEF Unread, Ahead
<1>5. InHand(e)' => InHand(e)
  BY <1>1, <1>2 DEF InHand, InPlace, Event, Working
<1>6. Due(e)' <= Due(e)
  BY <1>4, <1>5, DueKept, Zenon
<1>7. CASE e # Event(m)
  BY <1>2, <1>3, <1>6, <1>7 DEF Kept
<1>8. CASE e = Event(m) /\ InPlace(m)
  <2>1. InHand(e)
    BY <1>1, <1>8 DEF InHand, Working
  <2>2. ~ Unread(e)'
    BY <1>2, <1>8 DEF Unread
  <2>3. ~ InHand(e)'
    BY <1>1, <1>2, <1>8 DEF InHand, InPlace, Working
  <2>4. Due(e) = 1 /\ Due(e)' = 0
    BY <2>1, <2>2, <2>3 DEF Due
  <2> QED  BY <1>2, <1>3, <1>8, <2>4 DEF Taken
<1>9. CASE e = Event(m) /\ ~ InPlace(m)
  <2>1. m \in Spare(e)
    BY <1>1, <1>9 DEF Spare, Working
  <2>2. m \notin Spare(e)'
    BY <1>1, <1>2, <1>9 DEF Spare, Event, Working
  <2> QED  BY <1>2, <1>3, <1>6, <1>9, <2>1, <2>2 DEF Repeated
<1> QED  BY <1>7, <1>8, <1>9

\* The owner that is taken the partition from at work is a zombie and becomes
\* spare; the one that gets it, if it was spare, may have the turn now.
LEMMA RebalanceAccount ==
    ASSUME Typed, Counted, NEW e \in Events, NEW m \in Members, rebalance(m)
    PROVE  Kept(e) \/ Returned(e) \/ Paid(e)
<1>1. /\ owner # m /\ owner' = m /\ position'[m] = committed /\ m # NoMember
      /\ UNCHANGED <<committed, database, pc, msg>>
      /\ \A n \in Members : n # m => position'[n] = position[n]
  BY ConsumerAssumption DEF rebalance, Typed
<1>2. Spare(e)' \subseteq Spare(e) \cup {owner}
  BY <1>1 DEF Spare, InPlace, Event, database
<1>3. owner \notin Members \/ pc[owner] \notin Working => owner \notin Spare(e)'
  BY <1>1 DEF Spare
<1>4. owner \in Members /\ pc[owner] \in Working => faults'["zombie"] = faults["zombie"] + 1
  BY ConsumerAssumption DEF rebalance, Fault, Counted, AllFaults
<1>5. Unread(e)' => Unread(e)
  BY <1>1 DEF Unread, Ahead, database
<1>6. InHand(e)' => m \in Spare(e) /\ m \notin Spare(e)'
  BY <1>1 DEF InHand, InPlace, Spare, Event, database
<1>7. effects'[e] = effects[e]
  BY <1>1 DEF database
<1>8. CASE InHand(e)'
  <2>1. Spare(e)' \subseteq (Spare(e) \ {m}) \cup {owner}
    BY <1>2, <1>6, <1>8
  <2>2. CASE owner \in Members /\ pc[owner] \in Working
    BY <1>4, <1>6, <1>7, <1>8, <2>1, <2>2, Zenon DEF Paid
  <2>3. CASE owner \notin Members \/ pc[owner] \notin Working
    <3>1. Spare(e)' \subseteq Spare(e) \ {m}
      BY <1>3, <2>1, <2>3
    <3> QED  BY <1>6, <1>7, <1>8, <3>1, Zenon DEF Returned
  <2> QED  BY <2>2, <2>3
<1>9. CASE ~ InHand(e)'
  <2>1. Due(e)' <= Due(e)
    BY <1>5, <1>9, DueKept, Zenon
  <2>2. CASE owner \in Members /\ pc[owner] \in Working
    BY <1>2, <1>4, <1>7, <2>1, <2>2, Zenon DEF Paid
  <2>3. CASE owner \notin Members \/ pc[owner] \notin Working
    <3>1. Spare(e)' \subseteq Spare(e)
      BY <1>2, <1>3, <2>3
    <3> QED  BY <1>7, <2>1, <3>1, Zenon DEF Kept
  <2> QED  BY <2>2, <2>3
<1> QED  BY <1>8, <1>9

\* Every step changes the account of an event in one of the five ways.
LEMMA StepAccount ==
    ASSUME Typed, Counted, [Next]_vars, NEW e \in Events
    PROVE  Kept(e) \/ Returned(e) \/ Taken(e) \/ Repeated(e) \/ Paid(e)
<1>1. ASSUME NEW m \in Members, recv(m) PROVE Kept(e)
  BY <1>1, RecvKept
<1>2. ASSUME NEW m \in Members,
             \/ is_event_processed(m) \/ backoff_or_shutdown(m) \/ send_to_dlq(m) \/ shutdown(m) \/ restart(m)
             \/ handle(m) /\ UNCHANGED database
             \/ commit_offset(m) /\ UNCHANGED committed
      PROVE  Kept(e)
  BY <1>2, MovesAre, MovesKept, Zenon
<1>3. ASSUME NEW m \in Members, handle(m) PROVE UNCHANGED database \/ CommitEffects(Event(m))
  BY <1>3, Zenon DEF handle
<1>4. ASSUME NEW m \in Members, handle(m), CommitEffects(Event(m)) PROVE Kept(e) \/ Taken(e) \/ Repeated(e)
  BY <1>4, HandleAccount, Zenon
<1>5. ASSUME NEW m \in Members, commit_offset(m)
      PROVE  UNCHANGED committed \/ (owner = m /\ committed' = msg[m] + 1)
  BY <1>5 DEF commit_offset
<1>6. ASSUME NEW m \in Members, commit_offset(m), owner = m, committed' = msg[m] + 1
      PROVE  Kept(e) \/ Returned(e)
  BY <1>6, CommitAccount, Zenon
<1>7. ASSUME NEW m \in Members, stop(m) \/ crash(m) PROVE Kept(e)
  BY <1>7, LeaveKept, Zenon DEF stop, crash
<1>8. ASSUME NEW m \in Members, rebalance(m) PROVE Kept(e) \/ Returned(e) \/ Paid(e)
  BY <1>8, RebalanceAccount, Zenon
<1>9. CASE cleanup_processed_events
  BY <1>9, CleanupKept, Zenon
<1>10. CASE UNCHANGED vars
  BY <1>10, MovesKept DEF vars, kafka, member
<1>11. ASSUME NEW m \in Members, process_message(m)
       PROVE  Kept(e) \/ Returned(e) \/ Taken(e) \/ Repeated(e)
  BY <1>11, <1>1, <1>2, <1>3, <1>4, <1>5, <1>6, Zenon DEF process_message
<1> QED  BY <1>2, <1>7, <1>8, <1>9, <1>10, <1>11, Zenon DEF Next

-----------------------------------------------------------------------------
(* The theorems *)

\* The inductive invariant of the consumer group.
THEOREM ConsumerInvariant == Spec => []ConsumerInv
<1>1. Init => ConsumerInv
  <2> SUFFICES ASSUME Init PROVE ConsumerInv
    OBVIOUS
  <2>1. Typed
    BY LogEntry DEF Init, Typed, Steps, Working
  <2> QED  BY <2>1, LogEntry, ConsumerAssumption
           DEF Init, ConsumerInv, MarkedInv, CommitInv, WorkInv, FetchInv, PassedOnlyIfSettled, Working, Offsets
<1>2. ConsumerInv /\ [Next]_vars => ConsumerInv'
  BY StepTyped, StepMarked, StepCommit, StepWork, StepFetch, StepPassed DEF ConsumerInv
<1> QED  BY <1>1, <1>2, PTL DEF Spec

\* With any crashes, shutdowns, rebalances, zombies, lost commits and database
\* or dead-letter errors, the group's offset moves past a message only when its
\* event was processed, a copy is in the dead-letter topic, or process_message
\* left it uncommitted.
THEOREM NothingPassedUnsettled == Spec => []PassedOnlyIfSettled
<1>1. ConsumerInv => PassedOnlyIfSettled
  BY DEF ConsumerInv
<1> QED  BY <1>1, ConsumerInvariant, PTL

\* The budget of every event is kept, with the members' steps interleaved in any
\* way: the second inductive invariant of the consumer group.
THEOREM BudgetInvariant == Spec => []BudgetInv
<1>1. Init => BudgetInv
  <2> SUFFICES ASSUME Init PROVE BudgetInv
    OBVIOUS
  <2>1. Counted /\ faults["zombie"] = 0
    BY DEF Init, Counted, AllFaults
  <2>2. ASSUME NEW e \in Events PROVE Within(e)
    <3>1. Spare(e) = {} /\ effects[e] = 0
      BY DEF Init, Spare, Working
    <3>2. IsFiniteSet(Spare(e)) /\ Cardinality(Spare(e)) = 0
      BY <3>1, FS_EmptySet, Zenon
    <3>3. Due(e) \in {0, 1}
      BY DEF Due
    <3> QED  BY <2>1, <3>1, <3>2, <3>3 DEF Within
  <2> QED  BY <2>1, <2>2, Zenon DEF BudgetInv
<1>2. ConsumerInv /\ BudgetInv /\ [Next]_vars => BudgetInv'
  <2> SUFFICES ASSUME Typed, BudgetInv, [Next]_vars PROVE BudgetInv'
    BY Zenon DEF ConsumerInv
  <2>1. Counted /\ Counted' /\ faults'["zombie"] >= faults["zombie"]
    BY StepCounted, Zenon DEF BudgetInv
  <2>2. ASSUME NEW e \in Events PROVE Within(e)'
    <3>1. Within(e)
      BY Zenon DEF BudgetInv
    <3>2. Kept(e) \/ Returned(e) \/ Taken(e) \/ Repeated(e) \/ Paid(e)
      BY <2>1, StepAccount, Zenon
    <3> QED  BY <2>1, <3>1, <3>2, WithinKept, Zenon
  <2> QED  BY <2>1, <2>2, Zenon DEF BudgetInv
<1> QED  BY <1>1, <1>2, ConsumerInvariant, PTL DEF Spec

\* Transactional idempotency for any log, group and faults: the handler's writes
\* for an event are committed once (try_process_once), and once more at most for
\* every rebalance that takes the partition from a member at work.
THEOREM HandledOnce == Spec => []EffectsOnce
<1>1. ConsumerInv /\ BudgetInv => EffectsOnce
  <2> SUFFICES ASSUME Typed, Counted, NEW e \in Events, Within(e)
               PROVE  effects[e] <= 1 + faults["zombie"]
    BY Zenon DEF ConsumerInv, BudgetInv, EffectsOnce
  <2>1. Cardinality(Spare(e)) \in Nat
    BY FS_CardinalityType, Zenon DEF Within
  <2>2. Due(e) \in {0, 1} /\ effects[e] \in Nat /\ faults["zombie"] \in Nat
    BY DEF Due, Typed, Counted, AllFaults
  <2> QED  BY <2>1, <2>2 DEF Within
<1> QED  BY <1>1, ConsumerInvariant, BudgetInvariant, PTL

=============================================================================
