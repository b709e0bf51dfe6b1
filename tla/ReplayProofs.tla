---------------------------- MODULE ReplayProofs ----------------------------
(***************************************************************************)
(* Proofs that the broker serves no request twice (NoReplay), and that its *)
(* store drops a nonce only when it is full, for every value of the        *)
(* constants of module Broker.                                             *)
(***************************************************************************)
EXTENDS BrokerProofs, FiniteSetTheorems, WellFoundedInduction

-----------------------------------------------------------------------------
(* What loading the nonce file keeps.                                      *)

\* Loading returns no time but those in the file.
LEMMA LoadReplayBound ==
    ASSUME NEW recs \in [Nonces -> Times], NEW t, NEW bound \in Nat,
           \A n \in Nonces : recs[n] <= bound
    PROVE  \A n \in Nonces : LoadReplay(recs, t)[n] <= bound
<1>1. NoTime <= bound
  BY DEF NoTime
<1> QED
  BY <1>1 DEF LoadReplay

\* Loading keeps the record of a request until the request is stale, or evicts
\* it: the retention is at least twice the freshness window.
LEMMA LoadReplayKeeps ==
    ASSUME NEW recs \in [Nonces -> Times], NEW t \in Nat, NEW e \in Envelopes,
           Recorded(recs, e), e.nonce \notin EvictedNonces(recs, t)
    PROVE  t > e.issued + Window \/ Recorded(LoadReplay(recs, t), e)
<1>1. e.nonce \in Nonces /\ e.issued \in Nat
  BY EnvelopesAssumption DEF EnvelopeType
<1>2. recs[e.nonce] \in Nat /\ Window \in Nat /\ Retention \in Nat
  BY <1>1, WindowAssumption, RetentionAssumption DEF Recorded, Times, NoTime
<1>3. CASE e.nonce \in Survivors(recs, t)
  BY <1>1, <1>3 DEF LoadReplay, Recorded
<1>4. CASE e.nonce \notin Survivors(recs, t)
  <2>1. ~Retained(recs[e.nonce], t)
    BY <1>1, <1>4 DEF EvictedNonces, RetainedNonces
  <2>2. t - recs[e.nonce] > Retention
    BY <1>2, <2>1 DEF Retained, Recorded
  <2> QED
    BY <1>1, <1>2, <2>2, WindowAssumption DEF Recorded
<1> QED
  BY <1>3, <1>4

\* A record that has just been written is kept or evicted.
LEMMA LoadReplayNew ==
    ASSUME NEW recs \in [Nonces -> Times], NEW n \in Nonces, recs[n] \in Nat,
           n \notin EvictedNonces(recs, recs[n])
    PROVE  LoadReplay(recs, recs[n])[n] = recs[n]
<1>1. Retained(recs[n], recs[n])
  BY RetentionAssumption DEF Retained, NoTime
<1> QED
  BY <1>1 DEF LoadReplay, EvictedNonces, RetainedNonces

-----------------------------------------------------------------------------
(* What a full store drops.                                                *)

\* A set of natural numbers that is not empty has a least one.
LEMMA LeastNumber ==
    ASSUME NEW T, T \subseteq Nat, T # {}
    PROVE  \E x \in T : \A y \in T : x <= y
<1>1. PICK x \in T : \A y \in T : <<y, x>> \notin OpToRel(<, Nat)
  BY NatLessThanWellFounded, WFMin
<1>2. ASSUME NEW y \in T PROVE x <= y
  <2>1. x \in Nat /\ y \in Nat
    OBVIOUS
  <2>2. ~(y < x)
    BY <1>1, <2>1 DEF OpToRel
  <2> QED
    BY <2>1, <2>2
<1> QED
  BY <1>2

\* The order of eviction is total and transitive on the retained nonces.
LEMMA EvictionOrder ==
    ASSUME NEW recs \in [Nonces -> Times], NEW t
    PROVE  LET kept == RetainedNonces(recs, t) IN
           /\ kept \subseteq Nat /\ \A n \in kept : recs[n] \in Nat
           /\ \A n \in kept : ~EvictedAfter(recs, n, n)
           /\ \A m, n \in kept : m # n => EvictedAfter(recs, m, n) \/ EvictedAfter(recs, n, m)
           /\ \A l, m, n \in kept : EvictedAfter(recs, l, m) /\ EvictedAfter(recs, m, n)
                                     => EvictedAfter(recs, l, n)
<1>1. \A n \in RetainedNonces(recs, t) : n \in Nat /\ recs[n] \in Nat
  BY NoncesAssumption DEF RetainedNonces, Retained, Times
<1> QED
  BY <1>1 DEF EvictedAfter

\* Of some nonces there is one that is evicted first.
LEMMA FirstEvicted ==
    ASSUME NEW recs \in [Nonces -> Times], NEW t,
           NEW T, T \subseteq RetainedNonces(recs, t), T # {}
    PROVE  \E n \in T : \A m \in T : m # n => EvictedAfter(recs, m, n)
<1>1. \A n \in T : n \in Nat /\ recs[n] \in Nat
  BY EvictionOrder
<1>2. PICK oldest \in T : \A m \in T : recs[oldest] <= recs[m]
  <2> DEFINE times == {recs[m] : m \in T}
  <2>1. times \subseteq Nat /\ times # {}
    BY <1>1
  <2>2. PICK x \in times : \A y \in times : x <= y
    <3> HIDE DEF times
    <3> QED
      BY <2>1, LeastNumber
  <2> QED
    BY <2>2
<1>3. PICK n \in T : recs[n] = recs[oldest] /\ \A m \in T : recs[m] = recs[oldest] => n <= m
  <2> DEFINE ties == {m \in T : recs[m] = recs[oldest]}
  <2>1. ties \subseteq Nat /\ ties # {}
    BY <1>1
  <2>2. PICK x \in ties : \A y \in ties : x <= y
    <3> HIDE DEF ties
    <3> QED
      BY <2>1, LeastNumber
  <2> QED
    BY <2>2
<1>4. ASSUME NEW m \in T, m # n PROVE EvictedAfter(recs, m, n)
  <2>1. m \in Nat /\ n \in Nat /\ recs[m] \in Nat /\ recs[n] \in Nat
    BY <1>1
  <2>2. recs[n] <= recs[m] /\ (recs[m] = recs[n] => n <= m)
    BY <1>2, <1>3
  <2> QED
    BY <1>4, <2>1, <2>2 DEF EvictedAfter
<1> QED
  BY <1>4

\* Loading keeps at most as many records as the store may have.
LEMMA SurvivorsBounded ==
    ASSUME NEW recs \in [Nonces -> Times], NEW t, IsFiniteSet(RetainedNonces(recs, t))
    PROVE  /\ IsFiniteSet(Survivors(recs, t))
           /\ Cardinality(Survivors(recs, t)) <= MaxRecords
<1> DEFINE kept == RetainedNonces(recs, t)
           after(n) == {m \in kept : EvictedAfter(recs, m, n)}
           S == Survivors(recs, t)
<1>1. S \subseteq kept /\ \A n \in S : Cardinality(after(n)) < MaxRecords
  BY DEF Survivors
<1>2. IsFiniteSet(S)
  BY <1>1, FS_Subset
<1>3. CASE S = {}
  BY <1>2, <1>3, FS_EmptySet, MaxRecordsAssumption
<1>4. CASE S # {}
  <2>1. PICK n \in S : \A m \in S : m # n => EvictedAfter(recs, m, n)
    BY <1>1, <1>4, FirstEvicted
  <2>2. S \ {n} \subseteq after(n)
    BY <1>1, <2>1
  <2>3. IsFiniteSet(after(n)) /\ Cardinality(after(n)) \in Nat
    BY FS_Subset, FS_CardinalityType
  <2>4. Cardinality(S \ {n}) <= Cardinality(after(n))
    BY <2>2, <2>3, FS_Subset
  <2>5. Cardinality(S \ {n}) = Cardinality(S) - 1 /\ Cardinality(S) \in Nat
    BY <1>2, FS_RemoveElement, FS_CardinalityType
  <2>6. Cardinality(after(n)) < MaxRecords
    BY <1>1
  <2> HIDE DEF S, after
  <2>7. Cardinality(S) <= MaxRecords
    BY <2>3, <2>4, <2>5, <2>6, MaxRecordsAssumption
  <2> QED
    BY <1>2, <2>7 DEF S
<1> QED
  BY <1>3, <1>4

\* A store that is full keeps as many records as it may have, the latest ones: whatever
\* load_replay_nonces evicts is older than all that it keeps.
THEOREM OnlyTheOldestAreEvicted ==
    ASSUME NEW recs \in [Nonces -> Times], NEW t, IsFiniteSet(RetainedNonces(recs, t))
    PROVE  /\ \A s \in Survivors(recs, t), e \in EvictedNonces(recs, t) : EvictedAfter(recs, s, e)
           /\ EvictedNonces(recs, t) # {} => Cardinality(Survivors(recs, t)) = MaxRecords
<1> DEFINE kept == RetainedNonces(recs, t)
           after(n) == {m \in kept : EvictedAfter(recs, m, n)}
           S == Survivors(recs, t)
           E == EvictedNonces(recs, t)
<1>1. /\ S = {n \in kept : Cardinality(after(n)) < MaxRecords}
      /\ E = {n \in kept : ~(Cardinality(after(n)) < MaxRecords)}
  BY DEF Survivors, EvictedNonces
<1>2. \A n \in kept : IsFiniteSet(after(n)) /\ Cardinality(after(n)) \in Nat
  BY FS_Subset, FS_CardinalityType
<1>3. ASSUME NEW m \in kept, NEW n \in kept, EvictedAfter(recs, m, n)
      PROVE  Cardinality(after(m)) < Cardinality(after(n))
  <2>1. after(m) \subseteq after(n) /\ m \in after(n) /\ m \notin after(m)
    BY <1>3, EvictionOrder
  <2>2. Cardinality(after(m)) <= Cardinality(after(n)) /\ Cardinality(after(n)) # Cardinality(after(m))
    BY <1>2, <2>1, FS_Subset
  <2> HIDE DEF after
  <2> QED
    BY <1>2, <2>2
<1>4. ASSUME NEW s \in S, NEW e \in E PROVE EvictedAfter(recs, s, e)
  <2> SUFFICES ASSUME ~EvictedAfter(recs, s, e) PROVE FALSE
    OBVIOUS
  <2>1. s \in kept /\ e \in kept /\ s # e
    BY <1>1
  <2>2. EvictedAfter(recs, e, s)
    BY <2>1, EvictionOrder
  <2>3. Cardinality(after(e)) < Cardinality(after(s))
    BY <1>3, <2>1, <2>2
  <2>4. Cardinality(after(s)) < MaxRecords /\ ~(Cardinality(after(e)) < MaxRecords)
    BY <1>1
  <2> HIDE DEF after
  <2> QED
    BY <1>2, <2>1, <2>3, <2>4, MaxRecordsAssumption
<1>5. ASSUME E # {} PROVE Cardinality(S) = MaxRecords
  <2> DEFINE counts == {Cardinality(after(n)) : n \in E}
  <2>1. counts \subseteq Nat /\ counts # {}
    <3>1. \A n \in E : Cardinality(after(n)) \in Nat
      BY <1>1, <1>2
    <3> HIDE DEF after, E
    <3> QED
      BY <1>5, <3>1
  <2>2. PICK x \in counts : \A y \in counts : x <= y
    <3> HIDE DEF counts
    <3> QED
      BY <2>1, LeastNumber
  <2>3. PICK e \in E : \A n \in E : Cardinality(after(e)) <= Cardinality(after(n))
    BY <2>2
  <2>4. after(e) \subseteq S
    <3> SUFFICES ASSUME NEW m \in after(e), m \notin S PROVE FALSE
      OBVIOUS
    <3>1. m \in E /\ m \in kept /\ e \in kept /\ EvictedAfter(recs, m, e)
      BY <1>1
    <3>2. Cardinality(after(m)) < Cardinality(after(e))
      BY <1>3, <3>1
    <3>3. Cardinality(after(e)) <= Cardinality(after(m))
      BY <2>3, <3>1
    <3> HIDE DEF after
    <3> QED
      BY <1>2, <3>1, <3>2, <3>3
  <2>5. IsFiniteSet(S) /\ Cardinality(S) <= MaxRecords /\ Cardinality(S) \in Nat
    BY SurvivorsBounded, FS_CardinalityType
  <2>6. Cardinality(after(e)) <= Cardinality(S)
    BY <2>4, <2>5, FS_Subset
  <2>7. e \in kept /\ ~(Cardinality(after(e)) < MaxRecords)
    BY <1>1
  <2> HIDE DEF after, S
  <2> QED
    BY <1>2, <2>5, <2>6, <2>7, MaxRecordsAssumption
<1> QED
  BY <1>4, <1>5

\* A store that is not full drops nothing.
LEMMA EvictsOnlyWhenFull ==
    ASSUME NEW recs \in [Nonces -> Times], NEW t, IsFiniteSet(RetainedNonces(recs, t)),
           EvictedNonces(recs, t) # {}
    PROVE  Cardinality(RetainedNonces(recs, t)) > MaxRecords
<1> DEFINE kept == RetainedNonces(recs, t)
           S == Survivors(recs, t)
<1>1. S \subseteq kept /\ S # kept
  BY DEF EvictedNonces, Survivors
<1>2. Cardinality(S) = MaxRecords
  BY OnlyTheOldestAreEvicted
<1>3. Cardinality(S) <= Cardinality(kept) /\ Cardinality(kept) # Cardinality(S)
  BY <1>1, FS_Subset
<1>4. Cardinality(kept) \in Nat
  BY FS_CardinalityType
<1> HIDE DEF S, kept
<1>5. Cardinality(kept) > MaxRecords
  BY <1>2, <1>3, <1>4, MaxRecordsAssumption
<1> QED
  BY <1>5 DEF kept

-----------------------------------------------------------------------------
(* With the file store.                                                    *)

USE DEF Durable, process, auditFiles, replayFile, history

\* DurableReplayInv is inductive.
LEMMA DurableReplayInductive ==
    ASSUME TypeOK, DurableReplayInv, [Next]_vars
    PROVE  DurableReplayInv'
<1> SUFFICES ASSUME Durable PROVE DurableReplayInv'
  BY DEF DurableReplayInv
<1>0. /\ now \in Nat /\ replay \in [Nonces -> Times] /\ seen \in [Nonces -> Times]
      /\ \A n \in Nonces : replay[n] <= now /\ seen[n] <= now
      /\ served \in [Envelopes -> 0..2] /\ Window \in Nat
      /\ \A e \in Envelopes : e.nonce \in Nonces /\ e.issued \in Nat
  BY EnvelopesAssumption, WindowAssumption DEF DurableReplayInv, TypeOK, EnvelopeType
<1>1. ASSUME UNCHANGED <<now, replay, seen, evicted, served>>,
             pc' \notin {"nonce", "nonce_compact"},
             pc' \in {"down", "load"} \/ pc \notin {"down", "load"}
      PROVE  DurableReplayInv'
  BY <1>1 DEF DurableReplayInv, Recorded
<1>2. ASSUME Down, UNCHANGED <<now, replay, evicted, served>>
      PROVE  DurableReplayInv'
  <2>1. \A n \in Nonces : seen'[n] <= now
    BY <1>0, <1>2 DEF Down, NoRecords, NoTime
  <2> QED
    BY <1>2, <2>1 DEF DurableReplayInv, Recorded, Down
<1>3. CASE StartInMemory
  BY <1>3 DEF StartInMemory
<1>4. CASE OpenKey
  BY <1>4, <1>1 DEF OpenKey
<1>5. CASE OpenKeyFails
  BY <1>5, <1>1 DEF OpenKeyFails
<1>6. CASE OpenLoad
  <2>1. \A n \in Nonces : replay'[n] <= now' /\ seen'[n] <= now'
    BY <1>0, <1>6, LoadReplayBound DEF OpenLoad
  <2>2. ASSUME NEW e \in Envelopes, e.nonce \notin evicted'
        PROVE  /\ served'[e] <= 1
               /\ served'[e] = 1 => \/ now' > e.issued + Window
                                    \/ Recorded(replay', e) /\ Recorded(seen', e)
    <3>1. e.nonce \notin evicted /\ e.nonce \notin EvictedNonces(replay, now)
      BY <1>6, <2>2 DEF OpenLoad
    <3>2. Recorded(replay, e) => now > e.issued + Window \/ Recorded(seen', e)
      BY <1>0, <1>6, <3>1, LoadReplayKeeps DEF OpenLoad
    <3> QED
      BY <1>6, <3>1, <3>2 DEF OpenLoad, DurableReplayInv
  <2> QED
    BY <1>6, <2>1, <2>2 DEF OpenLoad, DurableReplayInv, Recorded
<1>7. CASE OpenCompact
  <2>1. \A n \in Nonces : replay'[n] <= now' /\ seen'[n] <= now'
    BY <1>0, <1>7 DEF OpenCompact
  <2> QED
    BY <1>7, <2>1 DEF OpenCompact, DurableReplayInv, Recorded
<1>8. CASE OpenSession
  BY <1>8, <1>1 DEF OpenSession
<1>9. CASE OpenRefused
  BY <1>9, <1>2 DEF OpenRefused
<1>10. CASE Crash
  BY <1>10, <1>2 DEF Crash
<1>11. ASSUME NEW e \in Envelopes, ReceiveRejected(e) PROVE DurableReplayInv'
  BY <1>11, <1>1 DEF ReceiveRejected, Deliverable
<1>12. ASSUME NEW e \in Envelopes, ReceiveAdmitted(e) PROVE DurableReplayInv'
  <2>1. Fresh(e) /\ seen[e.nonce] = NoTime /\ pc = "idle"
    BY <1>12 DEF ReceiveAdmitted, FirstFailure, Deliverable
  <2>2. e.issued - Window <= now /\ ~(now > e.issued + Window)
    BY <1>0, <2>1 DEF Fresh
  <2>3. e.nonce \in evicted \/ served[e] = 0
    <3>1. e.nonce \notin evicted => served[e] <= 1 /\ served[e] # 1
      BY <2>1, <2>2 DEF DurableReplayInv, Recorded
    <3>2. served[e] \in 0..2
      BY <1>0
    <3> QED
      BY <3>1, <3>2
  <2> QED
    BY <1>12, <2>1, <2>2, <2>3 DEF ReceiveAdmitted, DurableReplayInv, Recorded
<1>13. ASSUME NEW code \in IpcCodes, RejectIpc(code) PROVE DurableReplayInv'
  BY <1>13, <1>1 DEF RejectIpc
<1>14. ASSUME NEW o \in AppendOutcomes, NonceAppend(o) PROVE DurableReplayInv'
  <2>1. /\ pc = "nonce" /\ cur \in Envelopes /\ cur.issued - Window <= now
        /\ UNCHANGED <<now, seen, evicted, served, cur>> /\ recAt' = now
        /\ pc' \in {"nonce_compact", "respond", "audit"}
    BY <1>14 DEF NonceAppend, NonceFailed, DurableReplayInv
  <2>2. replay' = Insert(replay, cur.nonce, now) \/ replay' = replay
    BY <1>14 DEF NonceAppend
  <2>3. \A n \in Nonces : replay'[n] <= now /\ (replay'[n] = replay[n] \/ replay'[n] = now)
    BY <1>0, <2>2 DEF Insert
  <2>4. ASSUME NEW e \in Envelopes, Recorded(replay, e) PROVE Recorded(replay', e)
    BY <1>0, <2>3, <2>4 DEF Recorded, NoTime, Times
  <2>5. ASSUME pc' = "nonce_compact", Readable(replayTail') PROVE replay'[cur.nonce] = recAt'
    <3>1. o = "ok"
      BY <1>14, <2>5 DEF NonceAppend, NonceFailed
    <3>2. replay' = Insert(replay, cur.nonce, now)
      BY <1>14, <2>5, <3>1 DEF NonceAppend, ReplayTailAfter, TailAfter, Readable, LineWritten
    <3> QED
      BY <1>0, <2>1, <3>2 DEF Insert
  <2> QED
    BY <1>0, <2>1, <2>3, <2>4, <2>5 DEF DurableReplayInv, Recorded
<1>15. CASE NonceCompact
  <2>1. /\ cur \in Envelopes /\ (cur.nonce \in evicted \/ served[cur] = 0)
        /\ recAt \in Nat /\ recAt <= now /\ cur.issued - Window <= recAt
        /\ replay[cur.nonce] = recAt
    BY <1>15 DEF NonceCompact, DurableReplayInv
  <2>2. /\ seen' = LoadReplay(replay, recAt) /\ replay' = LoadReplay(replay, recAt)
        /\ evicted' = evicted \union EvictedNonces(replay, recAt)
        /\ pc = "nonce_compact" /\ pc' = "audit" /\ now' = now
    BY <1>15 DEF NonceCompact, Dispatch
  <2>3. \A n \in Nonces : replay'[n] <= now' /\ seen'[n] <= now'
    BY <1>0, <2>2, LoadReplayBound
  <2>4. served' = [served EXCEPT ![cur] = IF served[cur] = 0 THEN 1 ELSE 2]
    BY <1>15 DEF NonceCompact, Dispatch
  <2>5. ASSUME NEW e \in Envelopes, e.nonce \notin evicted'
        PROVE  /\ served'[e] <= 1
               /\ served'[e] = 1 => \/ now' > e.issued + Window
                                    \/ Recorded(replay', e) /\ Recorded(seen', e)
    <3>1. e.nonce \notin evicted /\ e.nonce \notin EvictedNonces(replay, recAt)
      BY <2>2, <2>5
    <3>2. CASE e = cur
      <4>1. served'[e] = 1
        BY <1>0, <2>1, <2>4, <3>1, <3>2
      <4>2. LoadReplay(replay, recAt)[e.nonce] = recAt
        BY <1>0, <2>1, <3>1, <3>2, LoadReplayNew
      <4> QED
        BY <2>1, <2>2, <3>2, <4>1, <4>2 DEF Recorded, NoTime
    <3>3. CASE e # cur
      <4>1. served'[e] = served[e]
        BY <1>0, <2>4, <3>3
      <4>2. served[e] <= 1
            /\ (served[e] = 1 => now > e.issued + Window \/ Recorded(replay, e))
        BY <3>1 DEF DurableReplayInv
      <4>3. Recorded(replay, e) =>
              recAt > e.issued + Window \/ Recorded(LoadReplay(replay, recAt), e)
        BY <1>0, <2>1, <3>1, LoadReplayKeeps
      <4>4. recAt > e.issued + Window => now > e.issued + Window
        BY <1>0, <2>1
      <4> QED
        BY <2>2, <4>1, <4>2, <4>3, <4>4
    <3> QED
      BY <3>2, <3>3
  <2> QED
    BY <2>2, <2>3, <2>5 DEF DurableReplayInv, Recorded
<1>16. CASE NonceCompactFails
  BY <1>16, <1>1 DEF NonceCompactFails, NonceFailed
<1>17. CASE NonceInMemory
  BY <1>17 DEF NonceInMemory
<1>18. ASSUME NEW o \in AppendOutcomes, AuditAppend(o) PROVE DurableReplayInv'
  BY <1>18, <1>1 DEF AuditAppend, AuditFailed
<1>19. CASE AuditAnchor \/ AuditAnchorFails \/ AuditInMemory
  BY <1>19, <1>1 DEF AuditAnchor, AuditAnchorFails, AuditFailed, AuditInMemory
<1>20. CASE Respond
  BY <1>20, <1>1 DEF Respond
<1>21. CASE Tick
  <2>1. now' = now + 1 /\ UNCHANGED <<pc, cur, recAt, seen, replay, replayTail, served, evicted>>
    BY <1>21 DEF Tick
  <2>2. \A n \in Nonces : replay'[n] <= now' /\ seen'[n] <= now'
    BY <1>0, <2>1 DEF Times, NoTime
  <2>3. \A e \in Envelopes : now > e.issued + Window => now' > e.issued + Window
    BY <1>0, <2>1
  <2>4. pc = "nonce" => cur.issued - Window <= now'
    BY <1>0, <2>1 DEF DurableReplayInv
  <2>5. pc = "nonce_compact" => recAt \in Nat /\ recAt <= now'
    BY <1>0, <2>1 DEF DurableReplayInv
  <2> QED
    BY <2>1, <2>2, <2>3, <2>4, <2>5 DEF DurableReplayInv, Recorded
<1>22. CASE TailLoss
  BY <1>22, <1>1 DEF TailLoss
<1>23. CASE UNCHANGED vars
  BY <1>23 DEF vars, DurableReplayInv, Recorded
<1> QED
  BY <1>3, <1>4, <1>5, <1>6, <1>7, <1>8, <1>9, <1>10, <1>11, <1>12, <1>13, <1>14,
     <1>15, <1>16, <1>17, <1>18, <1>19, <1>20, <1>21, <1>22, <1>23
  DEF Next, Open, Receive, RecordNonce, AppendAudit

-----------------------------------------------------------------------------
(* Without the file store.                                                 *)

\* SessionReplayInv is inductive.
LEMMA SessionReplayInductive ==
    ASSUME TypeOK, SessionReplayInv, [Next]_vars
    PROVE  SessionReplayInv'
<1> SUFFICES ASSUME ~Durable PROVE SessionReplayInv'
  BY DEF SessionReplayInv
<1>0. /\ now \in Nat /\ seen \in [Nonces -> Times]
      /\ served \in [Envelopes -> 0..2]
      /\ \A e \in Envelopes : e.nonce \in Nonces
      /\ pc \in {"down", "idle", "nonce", "audit", "respond"}
  BY EnvelopesAssumption DEF TypeOK, EnvelopeType, SessionReplayInv
<1>1. ASSUME UNCHANGED <<seen, served>>,
             pc' \in {"idle", "audit", "respond"}, pc # "down"
      PROVE  SessionReplayInv'
  BY <1>1 DEF SessionReplayInv
<1>2. CASE StartInMemory
  <2>1. pc' = "idle" /\ \A e \in Envelopes : served'[e] = 0
    BY <1>2 DEF StartInMemory
  <2> QED
    BY <2>1 DEF SessionReplayInv
<1>3. CASE \/ OpenKey \/ OpenKeyFails \/ OpenLoad \/ OpenCompact \/ OpenSession
           \/ OpenRefused \/ NonceCompact \/ NonceCompactFails \/ AuditAnchor
           \/ AuditAnchorFails
           \/ \E o \in AppendOutcomes : NonceAppend(o) \/ AuditAppend(o)
  BY <1>0, <1>3 DEF OpenKey, OpenKeyFails, OpenLoad, OpenCompact, OpenSession,
     OpenRefused, NonceAppend, NonceCompact, NonceCompactFails, AuditAppend,
     AuditAnchor, AuditAnchorFails
<1>4. CASE Crash
  BY <1>4 DEF Crash, Down, SessionReplayInv
<1>5. ASSUME NEW e \in Envelopes, ReceiveRejected(e) PROVE SessionReplayInv'
  BY <1>5, <1>1 DEF ReceiveRejected, Deliverable
<1>6. ASSUME NEW e \in Envelopes, ReceiveAdmitted(e) PROVE SessionReplayInv'
  <2>1. seen[e.nonce] = NoTime /\ pc = "idle"
    BY <1>6 DEF ReceiveAdmitted, FirstFailure, Deliverable
  <2>2. served[e] = 0
    <3>1. served[e] <= 1 /\ served[e] # 1
      BY <1>0, <2>1 DEF SessionReplayInv
    <3>2. served[e] \in 0..2
      BY <1>0
    <3> QED
      BY <3>1, <3>2
  <2> QED
    BY <1>6, <2>1, <2>2 DEF ReceiveAdmitted, SessionReplayInv
<1>7. ASSUME NEW code \in IpcCodes, RejectIpc(code) PROVE SessionReplayInv'
  BY <1>7, <1>1 DEF RejectIpc
<1>8. CASE NonceInMemory
  <2>1. pc = "nonce" /\ pc' = "audit" /\ cur \in Envelopes /\ served[cur] = 0
    BY <1>8 DEF NonceInMemory, Dispatch, SessionReplayInv
  <2>2. seen' = [seen EXCEPT ![cur.nonce] = now]
    BY <1>8 DEF NonceInMemory, Insert
  <2>3. served' = [served EXCEPT ![cur] = IF served[cur] = 0 THEN 1 ELSE 2]
    BY <1>8 DEF NonceInMemory, Dispatch
  <2>4. ASSUME NEW n \in Nonces, n = cur.nonce \/ seen[n] # NoTime
        PROVE  seen'[n] # NoTime
    BY <1>0, <2>2, <2>4 DEF NoTime
  <2>5. ASSUME NEW e \in Envelopes
        PROVE  served'[e] <= 1 /\ (served'[e] = 1 => seen'[e.nonce] # NoTime)
    <3>1. CASE e = cur
      BY <1>0, <2>1, <2>3, <2>4, <3>1
    <3>2. CASE e # cur
      <4>1. served'[e] = served[e]
        BY <1>0, <2>3, <3>2
      <4> QED
        BY <1>0, <2>1, <2>4, <4>1 DEF SessionReplayInv
    <3> QED
      BY <3>1, <3>2
  <2> QED
    BY <2>1, <2>5 DEF SessionReplayInv
<1>9. CASE AuditInMemory
  BY <1>9, <1>1 DEF AuditInMemory
<1>10. CASE Respond
  BY <1>10, <1>1 DEF Respond
<1>11. CASE Tick \/ TailLoss \/ UNCHANGED vars
  BY <1>11 DEF Tick, TailLoss, vars, SessionReplayInv
<1> QED
  BY <1>2, <1>3, <1>4, <1>5, <1>6, <1>7, <1>8, <1>9, <1>10, <1>11
  DEF Next, Open, Receive, RecordNonce, AppendAudit

-----------------------------------------------------------------------------

\* The two invariants hold in every reachable state.
LEMMA ReplayInvariants == Spec => [](DurableReplayInv /\ SessionReplayInv)
<1>1. Init => DurableReplayInv /\ SessionReplayInv
  <2> SUFFICES ASSUME Init PROVE DurableReplayInv /\ SessionReplayInv
    OBVIOUS
  <2>1. \A n \in Nonces : replay[n] <= now /\ seen[n] <= now
    BY DEF Init, NoRecords, NoTime
  <2>2. \A e \in Envelopes : served[e] = 0
    BY DEF Init
  <2> QED
    BY <2>1, <2>2 DEF Init, DurableReplayInv, SessionReplayInv
<1>2. TypeOK /\ DurableReplayInv /\ [Next]_vars => DurableReplayInv'
  BY DurableReplayInductive
<1>3. TypeOK /\ SessionReplayInv /\ [Next]_vars => SessionReplayInv'
  BY SessionReplayInductive
<1> QED
  BY <1>1, <1>2, <1>3, TypeCorrect, PTL DEF Spec

\* The file of nonces in durable mode: what was served and has not expired is in the
\* file or in memory, whatever crash or failed write came between.
THEOREM DurableReplayHolds == Spec => []DurableReplayInv
BY ReplayInvariants, PTL

\* The same for the session's memory, when the broker runs without a store.
THEOREM SessionReplayHolds == Spec => []SessionReplayInv
BY ReplayInvariants, PTL

\* No request reaches its operation twice, in any mode, unless its nonce was
\* evicted from a full store: across crashes between the append of the nonce and
\* its compaction, restarts, failed writes and the expiry of records.
THEOREM NothingIsReplayed == Spec => []NoReplay
<1>1. DurableReplayInv /\ SessionReplayInv => NoReplay
  BY DEF DurableReplayInv, SessionReplayInv, NoReplay
<1> QED
  BY <1>1, ReplayInvariants, PTL

-----------------------------------------------------------------------------
(* The size of the store.                                                  *)

\* The nonces that have a record.
RecordedIn(recs) == {n \in Nonces : recs[n] # NoTime}

\* The records on disk are always finitely many, also when compaction fails after every
\* append; and what a process holds in memory is never more than the store may have.
StoreInv ==
    /\ IsFiniteSet(RecordedIn(replay)) /\ IsFiniteSet(RecordedIn(seen))
    /\ Durable => Cardinality(RecordedIn(seen)) <= MaxRecords

\* What is retained is recorded, and what loading returns is what survives.
LEMMA LoadedRecords ==
    ASSUME NEW recs \in [Nonces -> Times], NEW t, IsFiniteSet(RecordedIn(recs))
    PROVE  /\ IsFiniteSet(RetainedNonces(recs, t))
           /\ Cardinality(RetainedNonces(recs, t)) <= Cardinality(RecordedIn(recs))
           /\ IsFiniteSet(RecordedIn(LoadReplay(recs, t)))
           /\ Cardinality(RecordedIn(LoadReplay(recs, t))) <= MaxRecords
<1>1. RetainedNonces(recs, t) \subseteq RecordedIn(recs)
  BY DEF RetainedNonces, Retained, RecordedIn
<1>2. /\ IsFiniteSet(RetainedNonces(recs, t))
      /\ Cardinality(RetainedNonces(recs, t)) <= Cardinality(RecordedIn(recs))
  BY <1>1, FS_Subset
<1>3. RecordedIn(LoadReplay(recs, t)) = Survivors(recs, t)
  BY DEF RecordedIn, LoadReplay, Survivors, RetainedNonces, Retained
<1> QED
  BY <1>2, <1>3, SurvivorsBounded

\* One line more is one record more, or none.
LEMMA InsertedRecord ==
    ASSUME NEW recs \in [Nonces -> Times], NEW n, NEW at, IsFiniteSet(RecordedIn(recs))
    PROVE  IsFiniteSet(RecordedIn(Insert(recs, n, at)))
<1>1. RecordedIn(Insert(recs, n, at)) \subseteq RecordedIn(recs) \union {n}
  BY DEF RecordedIn, Insert
<1>2. IsFiniteSet(RecordedIn(recs) \union {n})
  BY FS_AddElement
<1> QED
  BY <1>1, <1>2, FS_Subset

\* Nothing is recorded at first.
LEMMA NothingRecorded ==
    IsFiniteSet(RecordedIn(NoRecords)) /\ Cardinality(RecordedIn(NoRecords)) <= MaxRecords
<1>1. RecordedIn(NoRecords) = {}
  BY DEF RecordedIn, NoRecords
<1> QED
  BY <1>1, FS_EmptySet, MaxRecordsAssumption

\* No step of Broker breaks StoreInv, and only a full store evicts.
LEMMA StoreStep ==
    ASSUME TypeOK, SessionReplayInv, StoreInv, [Next]_vars
    PROVE  /\ StoreInv'
           /\ evicted' # evicted => Durable /\ Cardinality(RecordedIn(replay)) > MaxRecords
<1> DEFINE Goal == /\ StoreInv'
                   /\ evicted' # evicted =>
                          Durable /\ Cardinality(RecordedIn(replay)) > MaxRecords
<1>0. replay \in [Nonces -> Times] /\ seen \in [Nonces -> Times]
  BY DEF TypeOK
<1>1. ASSUME UNCHANGED <<replay, seen, evicted>> PROVE Goal
  BY <1>1 DEF StoreInv
<1>2. ASSUME Down, UNCHANGED <<replay, evicted>> PROVE Goal
  BY <1>2, NothingRecorded DEF Down, StoreInv
<1>3. ASSUME NEW t, Durable, seen' = LoadReplay(replay, t), replay' \in {replay, seen'},
             evicted' = evicted \union EvictedNonces(replay, t)
      PROVE  Goal
  <2>1. /\ IsFiniteSet(RecordedIn(seen')) /\ Cardinality(RecordedIn(seen')) <= MaxRecords
        /\ IsFiniteSet(RecordedIn(replay'))
    BY <1>0, <1>3, LoadedRecords DEF StoreInv
  <2>2. ASSUME evicted' # evicted PROVE Cardinality(RecordedIn(replay)) > MaxRecords
    <3>1. EvictedNonces(replay, t) # {}
      BY <1>3, <2>2
    <3>2. /\ IsFiniteSet(RetainedNonces(replay, t))
          /\ Cardinality(RetainedNonces(replay, t)) <= Cardinality(RecordedIn(replay))
      BY <1>0, LoadedRecords DEF StoreInv
    <3>3. Cardinality(RetainedNonces(replay, t)) > MaxRecords
      BY <1>0, <3>1, <3>2, EvictsOnlyWhenFull
    <3>4. Cardinality(RetainedNonces(replay, t)) \in Nat /\ Cardinality(RecordedIn(replay)) \in Nat
      BY <3>2, FS_CardinalityType DEF StoreInv
    <3> QED
      BY <3>2, <3>3, <3>4, MaxRecordsAssumption
  <2> QED
    BY <1>3, <2>1, <2>2 DEF StoreInv
<1>4. CASE StartInMemory
  BY <1>1, <1>4 DEF StartInMemory
<1>5. CASE OpenKey \/ OpenKeyFails \/ OpenSession
  BY <1>1, <1>5 DEF OpenKey, OpenKeyFails, OpenSession
<1>6. CASE OpenLoad
  BY <1>3, <1>6 DEF OpenLoad, SessionReplayInv
<1>7. CASE OpenCompact
  BY <1>7 DEF OpenCompact, StoreInv
<1>8. CASE OpenRefused \/ Crash
  BY <1>2, <1>8 DEF OpenRefused, Crash
<1>9. CASE Receive
  BY <1>1, <1>9 DEF Receive, ReceiveRejected, ReceiveAdmitted, RejectIpc
<1>10. ASSUME NEW o \in AppendOutcomes, NonceAppend(o) PROVE Goal
  <2>1. replay' = Insert(replay, cur.nonce, now) \/ replay' = replay
    BY <1>10 DEF NonceAppend
  <2>2. UNCHANGED <<seen, evicted>>
    BY <1>10 DEF NonceAppend, NonceFailed
  <2>3. IsFiniteSet(RecordedIn(replay'))
    BY <1>0, <2>1, InsertedRecord DEF StoreInv
  <2> QED
    BY <2>2, <2>3 DEF StoreInv
<1>11. CASE NonceCompact
  BY <1>3, <1>11 DEF NonceCompact, SessionReplayInv
<1>12. CASE NonceCompactFails
  BY <1>1, <1>12 DEF NonceCompactFails, NonceFailed
<1>13. CASE NonceInMemory
  <2>1. ~Durable /\ seen' = Insert(seen, cur.nonce, now) /\ UNCHANGED <<replay, evicted>>
    BY <1>13 DEF NonceInMemory
  <2>2. IsFiniteSet(RecordedIn(seen'))
    BY <1>0, <2>1, InsertedRecord DEF StoreInv
  <2> QED
    BY <2>1, <2>2 DEF StoreInv
<1>14. CASE AppendAudit
  BY <1>1, <1>14 DEF AppendAudit, AuditAppend, AuditFailed, AuditAnchor,
     AuditAnchorFails, AuditInMemory
<1>15. CASE Respond \/ Tick \/ TailLoss \/ UNCHANGED vars
  BY <1>1, <1>15 DEF Respond, Tick, TailLoss, vars
<1> QED
  BY <1>4, <1>5, <1>6, <1>7, <1>8, <1>9, <1>10, <1>11, <1>12, <1>13, <1>14, <1>15
  DEF Next, Open, RecordNonce

\* StoreInv holds in every reachable state.
LEMMA StoreInvariant == Spec => []StoreInv
<1>1. Init => StoreInv
  BY NothingRecorded DEF Init, StoreInv
<1>2. TypeOK /\ SessionReplayInv /\ StoreInv /\ [Next]_vars => StoreInv'
  BY StoreStep
<1> QED
  BY <1>1, <1>2, TypeCorrect, ReplayInvariants, PTL DEF Spec

\* A process never holds more nonces than MAX_REPLAY_NONCE_RECORDS, however many it is
\* sent: it holds what load_replay_nonces returned.
THEOREM StoreIsBounded == Spec => [](Durable => Cardinality(RecordedIn(seen)) <= MaxRecords)
<1>1. StoreInv => (Durable => Cardinality(RecordedIn(seen)) <= MaxRecords)
  BY DEF StoreInv
<1> QED
  BY <1>1, StoreInvariant, PTL

\* A nonce is evicted, which is the one way to serve a request again (NoReplay), only by a
\* broker with a file store that holds more records than it may have.
THEOREM OnlyFullStoresEvict ==
    Spec => [][evicted' # evicted => Durable /\ Cardinality(RecordedIn(replay)) > MaxRecords]_vars
<1>1. TypeOK /\ SessionReplayInv /\ StoreInv /\ [Next]_vars
      => [evicted' # evicted => Durable /\ Cardinality(RecordedIn(replay)) > MaxRecords]_vars
  BY StoreStep
<1> QED
  BY <1>1, TypeCorrect, ReplayInvariants, StoreInvariant, PTL DEF Spec

\* No more nonces are in play than the store may have records.
FewNonces == IsFiniteSet(Nonces) /\ Cardinality(Nonces) <= MaxRecords

\* So a broker that is sent no more nonces than its store may have serves no request
\* twice, in any mode: nothing is ever evicted.
THEOREM FewNoncesAreServedOnce ==
    Spec => [](FewNonces => \A e \in Envelopes : served[e] <= 1)
<1> DEFINE Inv == FewNonces => evicted = {}
           Once == FewNonces => \A e \in Envelopes : served[e] <= 1
<1>1. Init => Inv
  BY DEF Init
<1>2. TypeOK /\ SessionReplayInv /\ StoreInv /\ Inv /\ [Next]_vars => Inv'
  <2> SUFFICES ASSUME TypeOK, SessionReplayInv, StoreInv, Inv, [Next]_vars,
                      FewNonces, evicted' # {}
               PROVE  FALSE
    BY DEF FewNonces
  <2>1. Cardinality(RecordedIn(replay)) > MaxRecords
    BY StoreStep
  <2>2. RecordedIn(replay) \subseteq Nonces
    BY DEF RecordedIn
  <2>3. Cardinality(RecordedIn(replay)) <= Cardinality(Nonces)
    BY <2>2, FS_Subset DEF FewNonces
  <2>4. Cardinality(Nonces) \in Nat /\ Cardinality(RecordedIn(replay)) \in Nat
    BY FS_CardinalityType DEF StoreInv, FewNonces
  <2> QED
    BY <2>1, <2>3, <2>4, MaxRecordsAssumption DEF FewNonces
<1>3. Inv /\ NoReplay => Once
  BY DEF NoReplay
<1> HIDE DEF Inv, Once
<1>4. Spec => []Once
  BY <1>1, <1>2, <1>3, TypeCorrect, ReplayInvariants, StoreInvariant, NothingIsReplayed, PTL
  DEF Spec
<1> QED
  BY <1>4 DEF Once

=============================================================================
