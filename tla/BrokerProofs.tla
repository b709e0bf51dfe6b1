---------------------------- MODULE BrokerProofs ----------------------------
(***************************************************************************)
(* Proofs about module Broker, for every value of its constants.           *)
(***************************************************************************)
EXTENDS Broker, TLAPS

-----------------------------------------------------------------------------
(* Types of the values that the actions build.                             *)

\* HeadHash yields the sequence of the bodies of a log.
LEMMA HeadHashType ==
    ASSUME NEW L \in Seq(Events)
    PROVE  /\ HeadHash(L) \in Seq(Bodies)
           /\ Len(HeadHash(L)) = Len(L)
           /\ \A i \in 1..Len(L) : HeadHash(L)[i] = L[i].body
<1>1. Len(L) \in Nat
  OBVIOUS
<1>a. \A i \in 1..Len(L) : L[i] \in Events
  OBVIOUS
<1>b. \A e \in Events : e.body \in Bodies
  BY DEF Events
<1>2. \A i \in 1..Len(L) : L[i].body \in Bodies
  BY <1>a, <1>b
<1>3. HeadHash(L) \in [1..Len(L) -> Bodies]
  BY <1>2 DEF HeadHash
<1> QED
  BY <1>1, <1>3 DEF HeadHash

\* The event built from the current request is an event.
LEMMA BuildNextType ==
    ASSUME NEW L \in Seq(Events), NEW b \in Bodies
    PROVE  BuildNext(L, b) \in Events
<1>1. Len(L) + 1 \in Nat
  OBVIOUS
<1> QED
  BY <1>1, HeadHashType DEF BuildNext, Events

\* The anchor of a log is an anchor.
LEMMA BuildAnchorType ==
    ASSUME NEW L \in Seq(Events)
    PROVE  BuildAnchor(L) \in [count : Nat, head : Seq(Bodies)]
BY HeadHashType DEF BuildAnchor

\* What loading the nonce file returns, and which nonces it drops.
LEMMA LoadReplayType ==
    ASSUME NEW recs \in [Nonces -> Times], NEW t
    PROVE  /\ LoadReplay(recs, t) \in [Nonces -> Times]
           /\ EvictedNonces(recs, t) \subseteq Nonces
<1>1. NoTime \in Times
  BY DEF Times
<1> QED
  BY <1>1 DEF LoadReplay, EvictedNonces, RetainedNonces

-----------------------------------------------------------------------------

USE DEF process, auditFiles, replayFile, history

\* The process ending leaves a state of the right type.
LEMMA DownType ==
    ASSUME TypeOK, Down,
           UNCHANGED <<now, boot, auditFiles, replayFile, history>>
    PROVE  TypeOK'
<1>1. NoTime \in Times /\ NoRequest \in Requests /\ "down" \in Pcs
  BY DEF Times, Requests, Pcs
<1>2. <<>> \in Seq(Events) /\ NoRecords \in [Nonces -> Times]
  BY <1>1 DEF NoRecords
<1>3. NoFin \in FinType
  BY DEF NoFin, FinType, Statuses, Decisions, Reasons
<1>4. NoResp \in RespType
  BY DEF NoResp, RespType, Statuses, Reasons
<1> QED
  BY <1>1, <1>2, <1>3, <1>4 DEF Down, TypeOK

\* The body of the current event and what becomes of a request have their types.
LEMMA FinTypes ==
    /\ \A e : FirstFailure(e) \in Reasons
    /\ \A code \in Reasons : Rejected(code) \in FinType
    /\ SuspendedHealth \in FinType
    /\ \A e : Decision(e) \in FinType
<1>1. \A e : FirstFailure(e) \in Reasons
  BY DEF FirstFailure, Reasons
<1>2. \A code \in Reasons : Rejected(code) \in FinType
  BY DEF Rejected, FinType, Statuses, Decisions
<1>3. SuspendedHealth \in FinType
  BY DEF SuspendedHealth, FinType, Statuses, Decisions, Reasons
<1>4. \A e : Decision(e) \in FinType
  <2>1. /\ Rejected("broker_authority_metadata_rejected") \in FinType
        /\ Rejected("broker_authority_state_rejected") \in FinType
    BY <1>2 DEF Reasons
  <2> QED
    BY <2>1 DEF Decision, FinType, Statuses, Decisions, Reasons
<1> QED
  BY <1>1, <1>2, <1>3, <1>4

\* The answers and the event that the current request leads to have their types.
LEMMA RespTypes ==
    ASSUME TypeOK
    PROVE  /\ \A code \in Reasons : Unaudited(code) \in RespType
           /\ Answer \in RespType
           /\ CurrentEvent \in Events
           /\ Append(mem, CurrentEvent) \in Seq(Events)
           /\ Append(log, CurrentEvent) \in Seq(Events)
<1>1. \A code \in Reasons : Unaudited(code) \in RespType
  BY DEF Unaudited, RespType, TypeOK, Statuses
<1>2. Len(mem) + 1 \in Nat
  BY DEF TypeOK
<1>3. Answer \in RespType
  <2>1. Announces \in BOOLEAN
    BY DEF Announces
  <2> QED
    BY <1>2, <2>1 DEF Answer, RespType, TypeOK, FinType
<1>4. CurrentEvent \in Events
  <2>1. [env |-> cur, decision |-> fin.decision, reason |-> fin.reason] \in Bodies
    BY DEF TypeOK, FinType, Bodies
  <2> QED
    BY <2>1, BuildNextType DEF CurrentEvent, TypeOK
<1>5. /\ Append(mem, CurrentEvent) \in Seq(Events)
      /\ Append(log, CurrentEvent) \in Seq(Events)
  BY <1>4 DEF TypeOK
<1> QED
  BY <1>1, <1>3, <1>4, <1>5

-----------------------------------------------------------------------------

\* Type correctness: every reachable state has the types of TypeOK.
THEOREM TypeCorrect == Spec => []TypeOK
<1>1. Init => TypeOK
  <2> SUFFICES ASSUME Init PROVE TypeOK
    OBVIOUS
  <2>1. NoTime \in Times /\ NoRequest \in Requests /\ pc \in Pcs
    BY DEF Times, Requests, Pcs, Init
  <2>2. <<>> \in Seq(Events) /\ NoRecords \in [Nonces -> Times]
    BY <2>1 DEF NoRecords
  <2>3. NoFin \in FinType
    BY DEF NoFin, FinType, Statuses, Decisions, Reasons
  <2>4. NoResp \in RespType
    BY DEF NoResp, RespType, Statuses, Reasons
  <2>5. BuildAnchor(<<>>) \in [count : Nat, head : Seq(Bodies)]
    BY <2>2, BuildAnchorType
  <2>6. served \in [Envelopes -> 0..2] /\ evicted \in SUBSET Nonces
    BY DEF Init
  <2>7. shutdown \in BOOLEAN
    BY DEF Init
  <2> QED
    BY <2>1, <2>2, <2>3, <2>4, <2>5, <2>6, <2>7 DEF Init, TypeOK, Tails
<1>2. TypeOK /\ [Next]_vars => TypeOK'
  <2> SUFFICES ASSUME TypeOK, [Next]_vars PROVE TypeOK'
    OBVIOUS
  <2>0. NoTime \in Times /\ now \in Times
    BY DEF Times, TypeOK
  <2>1. CASE StartInMemory
    BY <2>1 DEF StartInMemory, TypeOK, Pcs
  <2>2. CASE OpenKey
    BY <2>2 DEF OpenKey, TypeOK, Pcs
  <2>3. CASE OpenKeyFails
    BY <2>3 DEF OpenKeyFails, TypeOK, Pcs
  <2>4. CASE OpenLoad
    <3>1. seen' \in [Nonces -> Times] /\ evicted' \in SUBSET Nonces
      BY <2>4, LoadReplayType DEF OpenLoad, TypeOK
    <3> QED
      BY <2>4, <3>1 DEF OpenLoad, TypeOK, Pcs
  <2>5. CASE OpenCompact
    BY <2>5 DEF OpenCompact, TypeOK, Pcs, Tails
  <2>6. CASE OpenSession
    BY <2>6 DEF OpenSession, TypeOK, Pcs
  <2>7. CASE OpenRefused
    BY <2>7, DownType DEF OpenRefused
  <2>8. CASE Crash
    BY <2>8, DownType DEF Crash
  <2>9. ASSUME NEW e \in Envelopes, ReceiveRejected(e) PROVE TypeOK'
    <3>1. fin' \in FinType
      BY <2>9, FinTypes DEF ReceiveRejected
    <3> QED
      BY <2>9, <3>1 DEF ReceiveRejected, TypeOK, Pcs, Requests
  <2>10. ASSUME NEW e \in Envelopes, ReceiveAdmitted(e) PROVE TypeOK'
    BY <2>10 DEF ReceiveAdmitted, TypeOK, Pcs, Requests
  <2>11. ASSUME NEW code \in IpcCodes, RejectIpc(code) PROVE TypeOK'
    <3>1. fin' \in FinType
      BY <2>11, FinTypes DEF RejectIpc, Reasons
    <3> QED
      BY <2>11, <3>1 DEF RejectIpc, TypeOK, Pcs
  <2>12. ASSUME NonceFailed,
                recAt' \in Times, replay' \in [Nonces -> Times], replayTail' \in Tails
         PROVE  TypeOK'
    <3>1. fin' \in FinType /\ resp' \in RespType /\ pc' \in Pcs
      BY <2>12, FinTypes, RespTypes DEF NonceFailed, TypeOK, Pcs, Reasons
    <3> QED
      BY <2>12, <3>1 DEF NonceFailed, TypeOK
  <2>13. ASSUME NEW o \in AppendOutcomes, NonceAppend(o) PROVE TypeOK'
    <3>1. replay' \in [Nonces -> Times]
      BY <2>13, <2>0 DEF NonceAppend, TypeOK, Insert
    <3>2. replayTail' \in Tails /\ recAt' \in Times
      BY <2>13, <2>0 DEF NonceAppend, ReplayTailAfter, TypeOK, TailAfter, Tails
    <3>3. CASE o = "ok"
      BY <2>13, <3>1, <3>2, <3>3 DEF NonceAppend, TypeOK, Pcs
    <3>4. CASE o # "ok"
      BY <2>13, <3>1, <3>2, <3>4, <2>12 DEF NonceAppend
    <3> QED
      BY <3>3, <3>4
  <2>14. ASSUME Dispatch PROVE
           /\ fin' \in FinType /\ shutdown' \in BOOLEAN
           /\ served' \in [Envelopes -> 0..2] /\ pc' \in Pcs
    <3>1. fin' \in FinType /\ pc' \in Pcs
      BY <2>14, FinTypes DEF Dispatch, Pcs
    <3>2. served' \in [Envelopes -> 0..2]
      <4>1. served' = [served EXCEPT ![cur] = IF served[cur] = 0 THEN 1 ELSE 2]
        BY <2>14 DEF Dispatch
      <4>2. served \in [Envelopes -> 0..2] /\ {1, 2} \subseteq 0..2
        BY DEF TypeOK
      <4> QED
        BY <4>1, <4>2
    <3>3. shutdown' \in BOOLEAN
      <4>1. shutdown' = (shutdown \/ (cur.op = "shutdown" /\ cur.flaw # "authority_metadata"))
        BY <2>14 DEF Dispatch
      <4>2. CASE shutdown \/ (cur.op = "shutdown" /\ cur.flaw # "authority_metadata")
        BY <4>1, <4>2
      <4>3. CASE ~(shutdown \/ (cur.op = "shutdown" /\ cur.flaw # "authority_metadata"))
        BY <4>1, <4>3
      <4> QED
        BY <4>2, <4>3
    <3> QED
      BY <3>1, <3>2, <3>3
  <2>15. CASE NonceCompact
    <3>1. seen' \in [Nonces -> Times] /\ evicted' \in SUBSET Nonces
      BY <2>15, LoadReplayType DEF NonceCompact, TypeOK
    <3> QED
      BY <2>15, <2>14, <3>1 DEF NonceCompact, TypeOK, Tails
  <2>16. CASE NonceCompactFails
    BY <2>16, <2>12 DEF NonceCompactFails, TypeOK
  <2>17. CASE NonceInMemory
    <3>1. seen' \in [Nonces -> Times] /\ recAt' \in Times
      BY <2>17, <2>0 DEF NonceInMemory, TypeOK, Insert
    <3> QED
      BY <2>17, <2>14, <3>1 DEF NonceInMemory, TypeOK
  <2>18. ASSUME AuditFailed, log' \in Seq(Events), logTail' \in Tails PROVE TypeOK'
    <3>1. resp' \in RespType /\ pc' \in Pcs
      BY <2>18, RespTypes DEF AuditFailed, Pcs, Reasons
    <3> QED
      BY <2>18, <3>1 DEF AuditFailed, TypeOK
  <2>19. ASSUME NEW o \in AppendOutcomes, AuditAppend(o) PROVE TypeOK'
    <3>1. log' \in Seq(Events)
      BY <2>19, RespTypes DEF AuditAppend, TypeOK
    <3>2. logTail' \in Tails
      BY <2>19 DEF AuditAppend, TypeOK, TailAfter, Tails
    <3>3. CASE o = "ok"
      BY <2>19, <3>1, <3>2, <3>3 DEF AuditAppend, TypeOK, Pcs
    <3>4. CASE o # "ok"
      BY <2>19, <3>1, <3>2, <3>4, <2>18 DEF AuditAppend
    <3> QED
      BY <3>3, <3>4
  <2>20. CASE AuditAnchor
    <3>1. anchor' \in [count : Nat, head : Seq(Bodies)]
      BY <2>20, BuildAnchorType DEF AuditAnchor, TypeOK
    <3>2. mem' \in Seq(Events) /\ resp' \in RespType
      BY <2>20, RespTypes DEF AuditAnchor
    <3> QED
      BY <2>20, <3>1, <3>2 DEF AuditAnchor, TypeOK, Pcs
  <2>21. CASE AuditAnchorFails
    BY <2>21, <2>18 DEF AuditAnchorFails, TypeOK
  <2>22. CASE AuditInMemory
    <3>1. mem' \in Seq(Events) /\ resp' \in RespType
      BY <2>22, RespTypes DEF AuditInMemory
    <3> QED
      BY <2>22, <3>1 DEF AuditInMemory, TypeOK, Pcs
  <2>23. CASE Respond
    <3>1. NoFin \in FinType /\ NoRequest \in Requests
      BY DEF NoFin, FinType, Statuses, Decisions, Reasons, Requests
    <3>2. NoResp \in RespType
      BY DEF NoResp, RespType, Statuses, Reasons
    <3> QED
      BY <2>23, <2>0, <3>1, <3>2 DEF Respond, TypeOK, Pcs
  <2>24. CASE Tick
    BY <2>24 DEF Tick, TypeOK
  <2>25. CASE TailLoss
    <3>1. SubSeq(log, 1, Len(log) - 1) \in Seq(Events)
      BY <2>25 DEF TailLoss, TypeOK
    <3> QED
      BY <2>25, <3>1 DEF TailLoss, TypeOK
  <2>26. CASE UNCHANGED vars
    BY <2>26 DEF vars, TypeOK
  <2> QED
    BY <2>1, <2>2, <2>3, <2>4, <2>5, <2>6, <2>7, <2>8, <2>9, <2>10, <2>11, <2>13,
       <2>15, <2>16, <2>17, <2>19, <2>20, <2>21, <2>22, <2>23, <2>24, <2>25, <2>26
    DEF Next, Open, Receive, RecordNonce, AppendAudit
<1> QED
  BY <1>1, <1>2, PTL DEF Spec

-----------------------------------------------------------------------------
(* Facts about chains.                                                     *)

\* An event of a verified log is determined by its place and by the bodies up
\* to it.
LEMMA VerifiedEvent ==
    ASSUME NEW L \in Seq(Events), Verified(L), NEW i \in 1..Len(L)
    PROVE  L[i] = [id |-> i, prev |-> [j \in 1..(i - 1) |-> L[j].body],
                   body |-> L[i].body]
<1> DEFINE P == SubSeq(L, 1, i - 1)
<1>1. L[i] = BuildNext(P, L[i].body)
  BY DEF Verified, Extends
<1>2. Len(P) = i - 1 /\ \A j \in 1..(i - 1) : P[j] = L[j]
  OBVIOUS
<1>3. HeadHash(P) = [j \in 1..(i - 1) |-> L[j].body]
  BY <1>2 DEF HeadHash
<1>4. Len(P) + 1 = i
  BY <1>2
<1> QED
  BY <1>1, <1>3, <1>4 DEF BuildNext

\* The anchor determines the log: what makes it worth keeping.
LEMMA AnchorDeterminesLog ==
    ASSUME NEW L1 \in Seq(Events), NEW L2 \in Seq(Events),
           Verified(L1), Verified(L2), BuildAnchor(L1) = BuildAnchor(L2)
    PROVE  L1 = L2
<1>1. Len(L1) = Len(L2) /\ HeadHash(L1) = HeadHash(L2)
  BY DEF BuildAnchor
<1>2. \A i \in 1..Len(L1) : L1[i].body = L2[i].body
  BY <1>1, HeadHashType
<1>3. ASSUME NEW i \in 1..Len(L1) PROVE L1[i] = L2[i]
  <2>1. [j \in 1..(i - 1) |-> L1[j].body] = [j \in 1..(i - 1) |-> L2[j].body]
    BY <1>2
  <2>2. i \in 1..Len(L2)
    BY <1>1
  <2>3. L1[i] = [id |-> i, prev |-> [j \in 1..(i - 1) |-> L1[j].body], body |-> L1[i].body]
    BY VerifiedEvent
  <2>4. L2[i] = [id |-> i, prev |-> [j \in 1..(i - 1) |-> L2[j].body], body |-> L2[i].body]
    BY <2>2, VerifiedEvent
  <2> QED
    BY <1>2, <2>1, <2>3, <2>4
<1> QED
  BY <1>1, <1>3

\* A verified log that ends in an event extends the verified log before it.
LEMMA VerifiedAppend ==
    ASSUME NEW L \in Seq(Events), NEW e \in Events, Verified(Append(L, e))
    PROVE  Verified(L) /\ e = BuildNext(L, e.body)
<1> DEFINE M == Append(L, e)
<1>1. Len(M) = Len(L) + 1 /\ M[Len(L) + 1] = e
  OBVIOUS
<1>2. \A i \in 1..Len(L) : M[i] = L[i]
  OBVIOUS
<1>3. \A i \in 1..(Len(L) + 1) : SubSeq(M, 1, i - 1) = SubSeq(L, 1, i - 1)
  OBVIOUS
<1>4. SubSeq(L, 1, Len(L)) = L
  OBVIOUS
<1>5. Verified(L)
  <2>1. ASSUME NEW i \in 1..Len(L) PROVE Extends(SubSeq(L, 1, i - 1), L[i])
    <3>1. i \in 1..Len(M) /\ i \in 1..(Len(L) + 1)
      BY <1>1
    <3>2. Extends(SubSeq(M, 1, i - 1), M[i])
      BY <3>1 DEF Verified
    <3> QED
      BY <3>1, <3>2, <1>2, <1>3
  <2> QED
    BY <2>1 DEF Verified
<1>6. Extends(SubSeq(M, 1, Len(L)), e)
  <2>1. Len(L) + 1 \in 1..Len(M) /\ (Len(L) + 1) - 1 = Len(L)
    BY <1>1
  <2> QED
    BY <2>1, <1>1 DEF Verified
<1>7. SubSeq(M, 1, Len(L)) = L
  <2>1. Len(L) + 1 \in 1..(Len(L) + 1) /\ (Len(L) + 1) - 1 = Len(L)
    OBVIOUS
  <2> QED
    BY <2>1, <1>3, <1>4
<1> QED
  BY <1>5, <1>6, <1>7 DEF Extends

\* A log to which the next event of a verified log was appended is verified only
\* if it was that log.
LEMMA NextOfAnother ==
    ASSUME NEW L \in Seq(Events), NEW M \in Seq(Events), Verified(M),
           NEW b \in Bodies, Verified(Append(L, BuildNext(M, b)))
    PROVE  L = M
<1>1. BuildNext(M, b) \in Events
  BY BuildNextType
<1>2. Verified(L) /\ BuildNext(M, b) = BuildNext(L, BuildNext(M, b).body)
  BY <1>1, VerifiedAppend
<1>3. Len(M) + 1 = Len(L) + 1 /\ HeadHash(M) = HeadHash(L)
  BY <1>2 DEF BuildNext
<1>4. BuildAnchor(M) = BuildAnchor(L)
  BY <1>3 DEF BuildAnchor
<1> QED
  BY <1>2, <1>4, AnchorDeterminesLog

-----------------------------------------------------------------------------
(* The audit log.                                                          *)

\* AuditInv is inductive: only AuditAnchor changes what is acknowledged and what
\* is anchored, and it changes both to the log that it has just read back.
LEMMA AuditInvInductive ==
    ASSUME TypeOK, AuditInv, [Next]_vars
    PROVE  AuditInv'
<1> SUFFICES ASSUME Durable PROVE AuditInv'
  BY DEF AuditInv, Durable
<1> USE DEF Durable
<1>0. /\ Verified(acked) /\ anchor = BuildAnchor(acked)
      /\ pc \notin {"down", "load"} => mem = acked
      /\ log \in Seq(Events) /\ mem \in Seq(Events) /\ acked \in Seq(Events)
  BY DEF AuditInv, TypeOK
<1>1. ASSUME UNCHANGED <<log, logTail, anchor, acked, mem>>,
             pc' \notin {"anchor", "respond"},
             pc' \in {"down", "load"} \/ pc \notin {"down", "load"}
      PROVE  AuditInv'
  BY <1>0, <1>1 DEF AuditInv
<1>2. ASSUME UNCHANGED <<log, logTail, anchor, acked, mem, cur, fin, resp, pc>>
      PROVE  AuditInv'
  BY <1>2 DEF AuditInv, CurrentEvent, UnauditedCode
<1>3. ASSUME Down, UNCHANGED <<log, logTail, anchor, acked>>
      PROVE  AuditInv'
  BY <1>0, <1>3 DEF AuditInv, Down
<1>4. CASE StartInMemory
  BY <1>4 DEF StartInMemory
<1>5. CASE OpenKey
  BY <1>5, <1>1 DEF OpenKey
<1>6. CASE OpenKeyFails
  BY <1>6, <1>2 DEF OpenKeyFails
<1>7. CASE OpenLoad
  <2>1. log = acked
    BY <1>7, <1>0, AnchorDeterminesLog DEF OpenLoad, AuditLoads, AnchorMatches
  <2> QED
    BY <1>7, <1>0, <2>1 DEF OpenLoad, AuditInv
<1>8. CASE OpenCompact
  BY <1>8, <1>1 DEF OpenCompact
<1>9. CASE OpenSession
  BY <1>9, <1>1 DEF OpenSession
<1>10. CASE OpenRefused
  BY <1>10, <1>3 DEF OpenRefused
<1>11. CASE Crash
  BY <1>11, <1>3 DEF Crash
<1>12. ASSUME NEW e \in Envelopes, ReceiveRejected(e) PROVE AuditInv'
  BY <1>12, <1>1 DEF ReceiveRejected, Deliverable
<1>13. ASSUME NEW e \in Envelopes, ReceiveAdmitted(e) PROVE AuditInv'
  BY <1>13, <1>1 DEF ReceiveAdmitted, Deliverable
<1>14. ASSUME NEW code \in IpcCodes, RejectIpc(code) PROVE AuditInv'
  BY <1>14, <1>1 DEF RejectIpc
<1>15. ASSUME NonceFailed, pc \notin {"down", "load"} PROVE AuditInv'
  <2>1. CASE cur.flaw = "authority_metadata"
    <3>1. /\ resp'.event = 0 /\ pc' = "respond"
          /\ resp'.status = "suspended" /\ resp'.code \in UnauditedCode(cur')
      BY <1>15, <2>1 DEF NonceFailed, Unaudited, UnauditedCode
    <3> QED
      BY <1>15, <1>0, <3>1 DEF NonceFailed, AuditInv
  <2>2. CASE cur.flaw # "authority_metadata"
    BY <1>15, <1>1, <2>2 DEF NonceFailed
  <2> QED
    BY <2>1, <2>2
<1>16. ASSUME NEW o \in AppendOutcomes, NonceAppend(o) PROVE AuditInv'
  <2>1. CASE o = "ok"
    BY <1>16, <1>1, <2>1 DEF NonceAppend
  <2>2. CASE o # "ok"
    BY <1>16, <1>15, <2>2 DEF NonceAppend
  <2> QED
    BY <2>1, <2>2
<1>17. CASE NonceCompact
  BY <1>17, <1>1 DEF NonceCompact, Dispatch
<1>18. CASE NonceCompactFails
  BY <1>18, <1>15 DEF NonceCompactFails
<1>19. CASE NonceInMemory
  BY <1>19 DEF NonceInMemory
<1>20. ASSUME AuditFailed, pc \notin {"down", "load"} PROVE AuditInv'
  <2>1. /\ resp'.event = 0 /\ pc' = "respond"
        /\ resp'.status = "suspended" /\ resp'.code \in UnauditedCode(cur')
    BY <1>20 DEF AuditFailed, Unaudited, UnauditedCode
  <2> QED
    BY <1>20, <1>0, <2>1 DEF AuditFailed, AuditInv
<1>21. ASSUME NEW o \in AppendOutcomes, AuditAppend(o) PROVE AuditInv'
  <2>1. CASE o = "ok"
    <3> SUFFICES ASSUME AuditLoads(log', logTail')
                 PROVE  log' = Append(mem, CurrentEvent) /\ logTail' = "clean"
      <4>1. CurrentEvent' = CurrentEvent
        BY <1>21, <2>1 DEF AuditAppend, CurrentEvent
      <4> QED
        BY <1>21, <2>1, <1>0, <4>1 DEF AuditAppend, AuditInv
    <3>1. logTail = "clean" /\ logTail' = "clean"
      BY <1>21, <2>1 DEF AuditAppend, TailAfter, AuditLoads, Readable
    <3>2. log' = Append(log, CurrentEvent)
      BY <1>21, <2>1, <3>1 DEF AuditAppend, LineWritten
    <3>3. PICK b \in Bodies : CurrentEvent = BuildNext(mem, b)
      BY DEF TypeOK, FinType, Bodies, CurrentEvent
    <3>4. Verified(Append(log, BuildNext(mem, b)))
      BY <3>2, <3>3 DEF AuditLoads
    <3>5. log = mem
      BY <1>0, <1>21, <3>4, NextOfAnother DEF AuditAppend
    <3> QED
      BY <3>1, <3>2, <3>5
  <2>2. CASE o # "ok"
    BY <1>21, <1>20, <2>2 DEF AuditAppend
  <2> QED
    BY <2>1, <2>2
<1>22. CASE AuditAnchor
  <2>1. log = Append(mem, CurrentEvent) /\ logTail = "clean" /\ Verified(log)
    BY <1>22 DEF AuditAnchor, AuditInv, AuditLoads
  <2>2. mem' = log /\ acked' = log /\ anchor' = BuildAnchor(log) /\ log' = log
        /\ logTail' = "clean" /\ pc' = "respond" /\ cur' = cur
    BY <1>22, <2>1 DEF AuditAnchor
  <2>3. resp'.event = Len(mem) + 1
    BY <1>22 DEF AuditAnchor, Answer
  <2>4. Len(log) = Len(mem) + 1 /\ log[Len(mem) + 1] = CurrentEvent
    BY <2>1, <1>0, RespTypes
  <2>5. CurrentEvent.body.env = cur
    BY DEF CurrentEvent, BuildNext
  <2> QED
    BY <2>1, <2>2, <2>3, <2>4, <2>5 DEF AuditInv
<1>23. CASE AuditAnchorFails
  BY <1>23, <1>20 DEF AuditAnchorFails
<1>24. CASE AuditInMemory
  BY <1>24 DEF AuditInMemory
<1>25. CASE Respond
  BY <1>25, <1>1 DEF Respond
<1>26. CASE Tick
  BY <1>26, <1>2 DEF Tick
<1>27. CASE TailLoss
  BY <1>27, <1>0 DEF TailLoss, AuditInv
<1>28. CASE UNCHANGED vars
  BY <1>28, <1>2 DEF vars
<1> QED
  BY <1>4, <1>5, <1>6, <1>7, <1>8, <1>9, <1>10, <1>11, <1>12, <1>13, <1>14, <1>16,
     <1>17, <1>18, <1>19, <1>21, <1>22, <1>23, <1>24, <1>25, <1>26, <1>27, <1>28
  DEF Next, Open, Receive, RecordNonce, AppendAudit

\* AuditInv holds in every reachable state.
THEOREM AuditInvariant == Spec => []AuditInv
<1>1. Init => AuditInv
  <2> SUFFICES ASSUME Init PROVE AuditInv
    OBVIOUS
  <2>1. Verified(<<>>)
    BY DEF Verified
  <2> QED
    BY <2>1 DEF Init, AuditInv
<1>2. TypeOK /\ AuditInv /\ [Next]_vars => AuditInv'
  BY AuditInvInductive
<1> QED
  BY <1>1, <1>2, TypeCorrect, PTL DEF Spec

\* An answer that names an audit event is given only when that event is the last
\* of the log in memory and on disk and the anchor on disk covers it
\* (append_audit_event returns before push_verified and the answer); any other answer
\* is suspended and says which write failed.
THEOREM AuditedAnswersAreDurable == Spec => []AuditedAnswerIsDurable
<1>1. AuditInv => AuditedAnswerIsDurable
  BY DEF AuditInv, AuditedAnswerIsDurable
<1> QED
  BY <1>1, AuditInvariant, PTL

\* A broker only ever runs on the log that was last acknowledged: verify_audit_anchor
\* refuses every other one, whatever was lost or left behind.
THEOREM AcknowledgedEventsSurvive == Spec => []AckedSurvives
<1>1. AuditInv => AckedSurvives
  BY DEF AuditInv, AckedSurvives, Serving
<1> QED
  BY <1>1, AuditInvariant, PTL

\* A store whose log and anchor disagree acknowledges nothing any more, until a
\* line is lost from the file: append_audit_event reads the whole log back, and a
\* line appended behind another one than the last acknowledged does not verify.
THEOREM StuckStaysStuck == Spec => StuckForever
<1>1. ASSUME TypeOK, AuditInv, [Next]_vars, Durable, Stuck, ~TailLoss
      PROVE  Stuck' /\ acked' = acked
  <2>0. /\ Verified(acked) /\ anchor = BuildAnchor(acked)
        /\ pc \notin {"down", "load"} => mem = acked
        /\ log \in Seq(Events) /\ mem \in Seq(Events) /\ acked \in Seq(Events)
    BY <1>1 DEF AuditInv, TypeOK
  <2>1. ASSUME UNCHANGED <<log, logTail, acked>>, pc' # "anchor" \/ pc' = pc
        PROVE  Stuck' /\ acked' = acked
    BY <1>1, <2>1 DEF Stuck
  <2>2. ASSUME NEW o \in AppendOutcomes, NonceAppend(o)
        PROVE  Stuck' /\ acked' = acked
    BY <2>2, <2>1 DEF NonceAppend, NonceFailed
  <2>3. ASSUME NEW o \in AppendOutcomes, AuditAppend(o)
        PROVE  Stuck' /\ acked' = acked
    <3>1. acked' = acked /\ pc = "audit"
      BY <2>3 DEF AuditAppend, AuditFailed
    <3>2. CASE logTail' = "torn"
      BY <3>1, <3>2 DEF Stuck
    <3>3. CASE logTail' # "torn" /\ LineWritten(logTail, o)
      <4>1. logTail = "clean" /\ log' = Append(log, CurrentEvent)
        BY <2>3, <3>3 DEF AuditAppend, LineWritten
      <4>2. PICK b \in Bodies : CurrentEvent = BuildNext(mem, b)
        BY <1>1 DEF TypeOK, FinType, Bodies, CurrentEvent
      <4>3. CurrentEvent \in Events
        BY <1>1, RespTypes
      <4>4. ~Verified(log')
        <5> SUFFICES ASSUME Verified(log') PROVE FALSE
          OBVIOUS
        <5>1. Verified(log)
          BY <2>0, <4>1, <4>3, VerifiedAppend
        <5>2. log = mem
          <6>1. Verified(Append(log, BuildNext(mem, b))) /\ Verified(mem)
            BY <4>1, <4>2, <2>0, <3>1
          <6> QED
            BY <6>1, <2>0, NextOfAnother
        <5> QED
          BY <1>1, <2>0, <3>1, <4>1, <5>1, <5>2 DEF Stuck
      <4> QED
        BY <3>1, <4>4 DEF Stuck
    <3>4. CASE logTail' # "torn" /\ ~LineWritten(logTail, o)
      <4>1. log' = log /\ o # "ok"
        BY <2>3, <3>4 DEF AuditAppend, LineWritten, TailAfter
      <4>2. pc' = "respond"
        BY <2>3, <4>1 DEF AuditAppend, AuditFailed
      <4>3. logTail # "torn"
        BY <2>3, <3>4 DEF AuditAppend, TailAfter
      <4> QED
        BY <1>1, <3>1, <4>1, <4>2, <4>3 DEF Stuck
    <3> QED
      BY <3>2, <3>3, <3>4
  <2>4. ~AuditAnchor
    BY <1>1 DEF AuditAnchor, AuditLoads, Readable, Stuck
  <2>5. CASE Open
    BY <2>5, <2>1 DEF Open, StartInMemory, OpenKey, OpenKeyFails, OpenLoad,
       OpenCompact, OpenSession, OpenRefused, Down
  <2>6. CASE Receive
    BY <2>6, <2>1 DEF Receive, ReceiveRejected, ReceiveAdmitted, RejectIpc
  <2>7. CASE NonceCompact \/ NonceCompactFails \/ NonceInMemory
    BY <2>7, <2>1 DEF NonceCompact, NonceCompactFails, NonceFailed, NonceInMemory,
       Dispatch
  <2>8. CASE AuditAnchorFails \/ AuditInMemory
    BY <2>8, <2>1 DEF AuditAnchorFails, AuditFailed, AuditInMemory
  <2>9. CASE Respond \/ Crash \/ Tick
    BY <2>9, <2>1 DEF Respond, Crash, Down, Tick
  <2>10. CASE UNCHANGED vars
    BY <2>10, <2>1 DEF vars
  <2> QED
    BY <1>1, <2>2, <2>3, <2>4, <2>5, <2>6, <2>7, <2>8, <2>9, <2>10
    DEF Next, RecordNonce, AppendAudit
<1>2. TypeOK /\ AuditInv /\ [Next]_vars
      => [Durable /\ Stuck => (Stuck' /\ acked' = acked) \/ TailLoss]_vars
  BY <1>1
<1> QED
  BY <1>2, TypeCorrect, AuditInvariant, PTL DEF Spec, StuckForever

-----------------------------------------------------------------------------
(* Files that cannot be read.                                              *)

\* Only a store has a key, and a process that is up on one has read or made it.
KeyInv == key = "malformed" => Durable /\ pc = "down"

\* What a start is about to compact it has loaded.
LoadedInv == pc = "compact" => Readable(replayTail)

\* No step of Broker breaks KeyInv, and no step leaves a key that cannot be read.
LEMMA KeyStep ==
    ASSUME KeyInv, [Next]_vars
    PROVE  /\ KeyInv'
           /\ key = "malformed" =>
                  key' = "malformed" /\ pc' = "down" /\ UNCHANGED <<acked, served>>
<1>1. ASSUME UNCHANGED <<key, acked, served, pc>>
      PROVE  /\ KeyInv'
             /\ key = "malformed" =>
                    key' = "malformed" /\ pc' = "down" /\ UNCHANGED <<acked, served>>
  BY <1>1 DEF KeyInv
<1>2. ASSUME pc # "down", key' = key
      PROVE  /\ KeyInv'
             /\ key = "malformed" =>
                    key' = "malformed" /\ pc' = "down" /\ UNCHANGED <<acked, served>>
  BY <1>2 DEF KeyInv
<1>3. CASE StartInMemory
  BY <1>3 DEF StartInMemory, KeyInv
<1>4. CASE OpenKey
  BY <1>4 DEF OpenKey, KeyInv
<1>5. CASE OpenKeyFails
  BY <1>5 DEF OpenKeyFails, KeyInv
<1>6. CASE OpenLoad \/ OpenCompact \/ OpenSession \/ OpenRefused \/ Crash
  BY <1>2, <1>6 DEF OpenLoad, OpenCompact, OpenSession, OpenRefused, Crash
<1>7. CASE Receive
  BY <1>2, <1>7 DEF Receive, ReceiveRejected, ReceiveAdmitted, RejectIpc, Deliverable
<1>8. CASE RecordNonce
  BY <1>2, <1>8 DEF RecordNonce, NonceAppend, NonceFailed, NonceCompact,
     NonceCompactFails, NonceInMemory
<1>9. CASE AppendAudit
  BY <1>2, <1>9 DEF AppendAudit, AuditAppend, AuditFailed, AuditAnchor,
     AuditAnchorFails, AuditInMemory
<1>10. CASE Respond
  BY <1>2, <1>10 DEF Respond
<1>11. CASE Tick \/ TailLoss \/ UNCHANGED vars
  BY <1>1, <1>11 DEF Tick, TailLoss, vars
<1> QED
  BY <1>3, <1>4, <1>5, <1>6, <1>7, <1>8, <1>9, <1>10, <1>11 DEF Next, Open

\* No step of Broker breaks LoadedInv, and no step with the store gets past a nonce file
\* that cannot be read: none rewrites it, and none serves a request.
LEMMA NonceFileStep ==
    ASSUME LoadedInv, [Next]_vars
    PROVE  /\ LoadedInv'
           /\ Durable /\ ~Readable(replayTail) =>
                  ~Readable(replayTail') /\ UNCHANGED <<served, evicted>>
<1> DEFINE Shut == Durable /\ ~Readable(replayTail) =>
                      ~Readable(replayTail') /\ UNCHANGED <<served, evicted>>
<1>1. ASSUME UNCHANGED <<replayTail, served, evicted>>, pc' # "compact" \/ pc' = pc
      PROVE  LoadedInv' /\ Shut
  BY <1>1 DEF LoadedInv
<1>2. CASE StartInMemory
  BY <1>2 DEF StartInMemory, LoadedInv
<1>3. CASE OpenKey \/ OpenKeyFails \/ OpenSession \/ OpenRefused \/ Crash
  BY <1>1, <1>3 DEF OpenKey, OpenKeyFails, OpenSession, OpenRefused, Crash, Down, process
<1>4. CASE OpenLoad
  BY <1>4 DEF OpenLoad, LoadedInv, replayFile
<1>5. CASE OpenCompact
  BY <1>5 DEF OpenCompact, LoadedInv
<1>6. CASE Receive
  BY <1>1, <1>6 DEF Receive, ReceiveRejected, ReceiveAdmitted, RejectIpc, replayFile, history
<1>7. CASE RecordNonce
  <2>1. ASSUME NEW o \in AppendOutcomes, NonceAppend(o) PROVE LoadedInv' /\ Shut
    BY <2>1 DEF NonceAppend, NonceFailed, ReplayTailAfter, TailAfter, Readable, LoadedInv,
       history, AppendOutcomes
  <2>2. CASE NonceCompact \/ NonceInMemory
    BY <2>2 DEF NonceCompact, NonceInMemory, Dispatch, LoadedInv, Readable, replayFile
  <2>3. CASE NonceCompactFails
    BY <1>1, <2>3 DEF NonceCompactFails, NonceFailed, replayFile, history
  <2> QED
    BY <1>7, <2>1, <2>2, <2>3 DEF RecordNonce
<1>8. CASE AppendAudit
  BY <1>1, <1>8 DEF AppendAudit, AuditAppend, AuditFailed, AuditAnchor,
     AuditAnchorFails, AuditInMemory, replayFile, history
<1>9. CASE Respond \/ Tick \/ TailLoss \/ UNCHANGED vars
  BY <1>1, <1>9 DEF Respond, Tick, TailLoss, vars, process, replayFile, history
<1> QED
  BY <1>2, <1>3, <1>4, <1>5, <1>6, <1>7, <1>8, <1>9 DEF Next, Open

\* A key that was written only in part, and does not decode, closes the store for good:
\* load_or_create_anchor_key makes a new one only when there is no file.  So does a nonce
\* file with a line that load_replay_nonces refuses: both who starts and who records a
\* nonce read the file before they replace it.
THEOREM BrokenStoreStays == Spec => BrokenStoreIsFinal
<1>1. Init => KeyInv /\ LoadedInv
  BY DEF Init, KeyInv, LoadedInv
<1>2. KeyInv /\ LoadedInv /\ [Next]_vars => (KeyInv /\ LoadedInv)'
  BY KeyStep, NonceFileStep
<1>3. KeyInv /\ LoadedInv /\ [Next]_vars
      => [/\ key = "malformed" =>
                 key' = "malformed" /\ pc' = "down" /\ UNCHANGED <<acked, served>>
          /\ Durable /\ ~Readable(replayTail) =>
                 ~Readable(replayTail') /\ UNCHANGED <<served, evicted>>]_vars
  BY KeyStep, NonceFileStep
<1> QED
  BY <1>1, <1>2, <1>3, PTL DEF Spec, BrokenStoreIsFinal

-----------------------------------------------------------------------------
(* A broker without the store that it requires.                            *)

\* Such a broker never gets as far as recording a nonce, so nothing is dispatched; and
\* it has nothing but rejections and suspensions to answer.
UnavailableInv ==
    Mode = "persistent_required_unavailable" =>
        /\ pc \in {"down", "idle", "audit", "respond"}
        /\ \A e \in Envelopes : served[e] = 0
        /\ fin.status # "accepted" /\ resp.status # "accepted"

\* No step of Broker breaks UnavailableInv: an unavailable store serves nothing.
LEMMA UnavailableInvStep == UnavailableInv /\ [Next]_vars => UnavailableInv'
<1> SUFFICES ASSUME UnavailableInv, [Next]_vars,
                    Mode = "persistent_required_unavailable"
             PROVE  /\ pc' \in {"down", "idle", "audit", "respond"}
                    /\ \A e \in Envelopes : served'[e] = 0
                    /\ fin'.status # "accepted" /\ resp'.status # "accepted"
  BY DEF UnavailableInv
<1>0. /\ pc \in {"down", "idle", "audit", "respond"}
      /\ \A e \in Envelopes : served[e] = 0
      /\ fin.status # "accepted" /\ resp.status # "accepted"
      /\ ~Durable
  BY DEF UnavailableInv, Durable
<1>a. NoFin.status # "accepted" /\ NoResp.status # "accepted"
  BY DEF NoFin, NoResp
<1>b. \A code : Rejected(code).status # "accepted"
  BY DEF Rejected
<1>c. \A e : FirstFailure(e) # "none"
  BY DEF FirstFailure
<1>1. CASE Open
  BY <1>1, <1>0, <1>a DEF Open, StartInMemory, OpenKey, OpenKeyFails, OpenLoad,
     OpenCompact, OpenSession, OpenRefused, Down
<1>2. CASE Receive
  <2>1. ASSUME NEW e \in Envelopes, ReceiveRejected(e)
        PROVE  pc' = "audit" /\ fin'.status # "accepted" /\ UNCHANGED <<resp, served>>
    <3>1. SuspendedHealth.status # "accepted"
      BY DEF SuspendedHealth
    <3>2. fin' = SuspendedHealth \/ fin' = Rejected(FirstFailure(e))
      BY <2>1 DEF ReceiveRejected
    <3> QED
      BY <2>1, <3>1, <3>2, <1>b DEF ReceiveRejected
  <2>2. ASSUME NEW e \in Envelopes, ReceiveAdmitted(e) PROVE FALSE
    BY <2>2, <1>c DEF ReceiveAdmitted
  <2>3. ASSUME NEW code \in IpcCodes, RejectIpc(code)
        PROVE  pc' = "audit" /\ fin'.status # "accepted" /\ UNCHANGED <<resp, served>>
    BY <2>3, <1>b DEF RejectIpc
  <2> QED
    BY <1>2, <1>0, <2>1, <2>2, <2>3 DEF Receive
<1>3. CASE RecordNonce
  BY <1>3, <1>0 DEF RecordNonce, NonceAppend, NonceCompact, NonceCompactFails,
     NonceInMemory
<1>4. CASE AppendAudit
  <2>1. AuditInMemory
    BY <1>4, <1>0 DEF AppendAudit, AuditAppend, AuditAnchor, AuditAnchorFails
  <2>2. Answer.status = fin.status
    BY DEF Answer
  <2> QED
    BY <1>0, <2>1, <2>2 DEF AuditInMemory
<1>5. CASE Respond \/ Crash \/ Tick \/ TailLoss
  BY <1>5, <1>0, <1>a DEF Respond, Crash, Down, Tick, TailLoss
<1>6. CASE UNCHANGED vars
  BY <1>6, <1>0 DEF vars
<1> QED
  BY <1>1, <1>2, <1>3, <1>4, <1>5, <1>6 DEF Next

\* A broker that requires a store and has none reaches no operation and accepts
\* nothing, whatever it is sent (UnavailableServesNothing): the check of handle for
\* broker_persistence_unavailable comes before everything that has an effect.
THEOREM UnavailableIsInert == Spec => []UnavailableServesNothing
<1>1. Init => UnavailableInv
  BY DEF Init, UnavailableInv, NoFin, NoResp
<1>2. UnavailableInv => UnavailableServesNothing
  BY DEF UnavailableInv, UnavailableServesNothing
<1> QED
  BY <1>1, <1>2, UnavailableInvStep, PTL DEF Spec

-----------------------------------------------------------------------------
(* The shutdown flag.                                                      *)

\* A request that has passed the checks of handle, unless it asks for the broker's
\* health, names the session of the running process; and a process that has ended has
\* no flag raised.
ShutdownInv ==
    /\ ShutdownOfThisSession
    /\ pc = "down" => ~shutdown
    /\ pc \in {"nonce", "nonce_compact"} =>
           cur \in Envelopes /\ (cur.op # "health" => cur.session = SessionId)

\* No step of Broker breaks ShutdownInv.
LEMMA ShutdownInvStep == TypeOK /\ ShutdownInv /\ [Next]_vars => ShutdownInv'
<1> SUFFICES ASSUME TypeOK, ShutdownInv, [Next]_vars
             PROVE  ShutdownInv'
  OBVIOUS
<1>1. ASSUME UNCHANGED <<boot, shutdown, served>>,
             pc' \notin {"down", "nonce", "nonce_compact"} \/ UNCHANGED <<pc, cur>>
      PROVE  ShutdownInv'
  BY <1>1 DEF ShutdownInv, ShutdownOfThisSession, SessionId
<1>2. ASSUME pc' = "down", ~shutdown'
      PROVE  ShutdownInv'
  BY <1>2 DEF ShutdownInv, ShutdownOfThisSession
<1>3. CASE Open
  <2>1. CASE StartInMemory \/ OpenKey
    <3>1. ~shutdown' /\ pc' \in {"idle", "load"}
      BY <2>1 DEF StartInMemory, OpenKey, ShutdownInv
    <3> QED
      BY <3>1 DEF ShutdownInv, ShutdownOfThisSession
  <2>2. CASE OpenKeyFails
    BY <2>2, <1>2 DEF OpenKeyFails, ShutdownInv
  <2>3. CASE OpenLoad \/ OpenCompact \/ OpenSession
    BY <2>3, <1>1 DEF OpenLoad, OpenCompact, OpenSession
  <2>4. CASE OpenRefused
    BY <2>4, <1>2 DEF OpenRefused, Down
  <2> QED
    BY <1>3, <2>1, <2>2, <2>3, <2>4 DEF Open
<1>4. CASE Receive
  <2>1. ASSUME NEW e \in Envelopes, ReceiveAdmitted(e)
        PROVE  ShutdownInv'
    <3>1. e.op # "health" => e.session = SessionId
      BY <2>1 DEF ReceiveAdmitted, FirstFailure
    <3>2. /\ cur' = e /\ pc' = "nonce" /\ UNCHANGED <<boot, shutdown, served>>
      BY <2>1 DEF ReceiveAdmitted
    <3> QED
      BY <3>1, <3>2 DEF ShutdownInv, ShutdownOfThisSession, SessionId
  <2>2. ASSUME NEW e \in Envelopes, ReceiveRejected(e)
        PROVE  ShutdownInv'
    BY <2>2, <1>1 DEF ReceiveRejected
  <2>3. ASSUME NEW code \in IpcCodes, RejectIpc(code)
        PROVE  ShutdownInv'
    BY <2>3, <1>1 DEF RejectIpc
  <2> QED
    BY <1>4, <2>1, <2>2, <2>3 DEF Receive
<1>5. CASE RecordNonce
  <2>1. ASSUME Dispatch, UNCHANGED boot, pc \in {"nonce", "nonce_compact"}
        PROVE  ShutdownInv'
    <3>1. cur \in Envelopes /\ (cur.op # "health" => cur.session = SessionId)
      BY <2>1 DEF ShutdownInv
    <3>2. served \in [Envelopes -> 0..2]
      BY DEF TypeOK
    <3>3. served'[cur] # 0 /\ \A e \in Envelopes : served[e] # 0 => served'[e] # 0
      BY <2>1, <3>1, <3>2 DEF Dispatch
    <3>4. ShutdownOfThisSession'
      <4>1. CASE shutdown
        BY <2>1, <3>3, <4>1 DEF ShutdownInv, ShutdownOfThisSession, SessionId
      <4>2. CASE ~shutdown
        <5>1. shutdown' => cur.op = "shutdown"
          BY <2>1, <4>2 DEF Dispatch
        <5> QED
          BY <2>1, <3>1, <3>3, <5>1 DEF ShutdownOfThisSession, SessionId
      <4> QED
        BY <4>1, <4>2
    <3> QED
      BY <2>1, <3>4 DEF Dispatch, ShutdownInv
  <2>2. CASE NonceCompact \/ NonceInMemory
    BY <2>1, <2>2 DEF NonceCompact, NonceInMemory
  <2>3. ASSUME NonceFailed PROVE ShutdownInv'
    BY <2>3, <1>1 DEF NonceFailed
  <2>4. ASSUME NEW o \in AppendOutcomes, NonceAppend(o)
        PROVE  ShutdownInv'
    <3>1. CASE o = "ok"
      <4>1. /\ pc = "nonce" /\ pc' = "nonce_compact"
            /\ UNCHANGED <<boot, cur, shutdown, served>>
        BY <2>4, <3>1 DEF NonceAppend
      <4> QED
        BY <4>1 DEF ShutdownInv, ShutdownOfThisSession, SessionId
    <3>2. CASE o # "ok"
      BY <2>3, <2>4, <3>2 DEF NonceAppend
    <3> QED
      BY <3>1, <3>2
  <2>5. CASE NonceCompactFails
    BY <2>3, <2>5 DEF NonceCompactFails
  <2> QED
    BY <1>5, <2>2, <2>4, <2>5 DEF RecordNonce
<1>6. CASE AppendAudit
  <2>1. pc' \in {"anchor", "respond"} /\ UNCHANGED <<boot, shutdown, served>>
    BY <1>6 DEF AppendAudit, AuditAppend, AuditAnchor, AuditAnchorFails, AuditFailed,
       AuditInMemory
  <2> QED
    BY <2>1, <1>1
<1>7. CASE Respond
  BY <1>1, <1>7 DEF Respond
<1>8. CASE Crash
  BY <1>2, <1>8 DEF Crash, Down
<1>9. CASE Tick \/ TailLoss \/ UNCHANGED vars
  BY <1>1, <1>9 DEF Tick, TailLoss, vars
<1> QED
  BY <1>3, <1>4, <1>5, <1>6, <1>7, <1>8, <1>9 DEF Next

\* Only a shutdown that was sent to the running process, and reached its operation there,
\* raises its flag: handle compares the session before it records the nonce, and the
\* flag and the session end together.
THEOREM ShutdownIsOfThisSession == Spec => []ShutdownOfThisSession
<1>1. Init => ShutdownInv
  BY DEF Init, ShutdownInv, ShutdownOfThisSession
<1>2. ShutdownInv => ShutdownOfThisSession
  BY DEF ShutdownInv
<1> QED
  BY <1>1, <1>2, ShutdownInvStep, TypeCorrect, PTL DEF Spec

=============================================================================
