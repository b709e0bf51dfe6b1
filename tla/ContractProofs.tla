--------------------------- MODULE ContractProofs ---------------------------
(***************************************************************************)
(* Proof that the broker with its file store implements BrokerContract,    *)
(* and that the loopback server implements the broker.                     *)
(***************************************************************************)
EXTENDS IpcServer, ReplayProofs

USE DEF Durable, process, auditFiles, replayFile, history

\* The bodies of a log to which an event was appended.
LEMMA HeadHashAppend ==
    ASSUME NEW L \in Seq(Events), NEW e \in Events
    PROVE  HeadHash(Append(L, e)) = Append(HeadHash(L), e.body)
<1> DEFINE M == Append(L, e)
<1>1. M \in Seq(Events) /\ Len(M) = Len(L) + 1 /\ M[Len(L) + 1] = e
      /\ \A i \in 1..Len(L) : M[i] = L[i]
  OBVIOUS
<1>2. HeadHash(L) \in Seq(Bodies) /\ Len(HeadHash(L)) = Len(L)
      /\ \A i \in 1..Len(L) : HeadHash(L)[i] = L[i].body
  BY HeadHashType
<1>3. HeadHash(M) \in Seq(Bodies) /\ Len(HeadHash(M)) = Len(M)
      /\ \A i \in 1..Len(M) : HeadHash(M)[i] = M[i].body
  BY <1>1, HeadHashType
<1>4. e.body \in Bodies
  BY DEF Events
<1> DEFINE A == Append(HeadHash(L), e.body)
<1>5. A \in Seq(Bodies) /\ Len(A) = Len(L) + 1 /\ A[Len(L) + 1] = e.body
      /\ \A i \in 1..Len(L) : A[i] = HeadHash(L)[i]
  BY <1>2, <1>4
<1>6. \A i \in 1..(Len(L) + 1) : HeadHash(M)[i] = A[i]
  <2>1. \A i \in 1..(Len(L) + 1) : i \in 1..Len(L) \/ i = Len(L) + 1
    OBVIOUS
  <2>2. \A i \in 1..Len(L) : i \in 1..Len(M) /\ HeadHash(M)[i] = A[i]
    BY <1>1, <1>2, <1>3, <1>5
  <2>3. HeadHash(M)[Len(L) + 1] = A[Len(L) + 1]
    <3>1. Len(L) + 1 \in 1..Len(M)
      BY <1>1
    <3> QED
      BY <1>1, <1>3, <1>5, <3>1
  <2> QED
    BY <2>1, <2>2, <2>3
<1> HIDE DEF A, M
<1>7. HeadHash(M) = A
  BY <1>1, <1>3, <1>5, <1>6
<1> QED
  BY <1>7 DEF A, M

\* The broker with its file store keeps its contract: every step of record_nonce
\* that dispatches is a Serve, every anchored audit event an Acknowledge, and no
\* other step, crash or failure changes what the client can see but the loss of
\* the answer.
THEOREM ContractKept ==
    ASSUME Durable
    PROVE  Spec => ImplementsContract
<1> DEFINE Ans == IF pc = "respond" /\ resp.event # 0
                  THEN [event |-> resp.event, request |-> cur] ELSE [event |-> 0]
<1>1. Init => Contract!Init
  <2> SUFFICES ASSUME Init PROVE Contract!Init
    OBVIOUS
  <2>1. HeadHash(<<>>) = <<>>
    BY DEF HeadHash
  <2> QED
    BY <2>1 DEF Init, Contract!Init, Contract!NoAnswer
<1>2. ASSUME TypeOK, AuditInv, DurableReplayInv, [Next]_vars
      PROVE  [Contract!Next]_<<HeadHash(acked), Ans, served, evicted>>
  <2>1. ASSUME UNCHANGED <<acked, served, evicted>>, pc' # "respond" \/ resp'.event = 0
        PROVE  Contract!Done
    BY <2>1 DEF Contract!Done, Contract!NoAnswer
  <2>2. ASSUME UNCHANGED <<acked, served, evicted, pc, resp, cur>>
        PROVE  UNCHANGED <<HeadHash(acked), Ans, served, evicted>>
    BY <2>2
  <2>3. ASSUME NonceFailed PROVE Contract!Done
    BY <2>3, <2>1 DEF NonceFailed, Unaudited
  <2>4. ASSUME AuditFailed PROVE Contract!Done
    BY <2>4, <2>1 DEF AuditFailed, Unaudited
  <2>5. CASE OpenLoad
    BY <2>5 DEF OpenLoad, Contract!Next, Contract!Forget, Contract!Forgetting
  <2>6. CASE NonceCompact
    <3>1. cur \in Envelopes /\ (cur.nonce \in evicted \/ served[cur] = 0)
      BY <1>2, <2>6 DEF NonceCompact, DurableReplayInv
    <3>2. UNCHANGED acked /\ pc = "nonce_compact" /\ pc' = "audit"
          /\ served' = [served EXCEPT ![cur] = IF served[cur] = 0 THEN 1 ELSE 2]
          /\ evicted \subseteq evicted'
      BY <2>6 DEF NonceCompact, Dispatch
    <3>3. Contract!Serve(cur)
      BY <3>1, <3>2 DEF Contract!Serve, Contract!Forgetting
    <3> QED
      BY <3>1, <3>3 DEF Contract!Next
  <2>7. CASE AuditAnchor
    <3> DEFINE body == [env |-> cur, decision |-> fin.decision, reason |-> fin.reason]
    <3>1. mem = acked /\ acked \in Seq(Events)
      BY <1>2, <2>7 DEF AuditAnchor, AuditInv, TypeOK
    <3>2. CurrentEvent \in Events /\ CurrentEvent.body = body
      BY <1>2, RespTypes DEF CurrentEvent, BuildNext
    <3>3. body \in Bodies
      BY <1>2 DEF TypeOK, FinType, Bodies
    <3>4. HeadHash(acked') = Append(HeadHash(acked), body)
      BY <2>7, <3>1, <3>2, HeadHashAppend DEF AuditAnchor
    <3>5. /\ Ans = [event |-> 0] /\ UNCHANGED <<served, evicted>>
          /\ pc' = "respond" /\ cur' = cur /\ resp'.event = Len(acked) + 1
      BY <2>7, <3>1 DEF AuditAnchor, Answer
    <3>6. Len(HeadHash(acked)) = Len(acked) /\ Len(acked) + 1 # 0
      BY <3>1, HeadHashType
    <3>7. Ans' = [event |-> Len(HeadHash(acked)) + 1, request |-> body.env]
      BY <3>5, <3>6
    <3>8. Contract!Acknowledge(body)
      BY <3>4, <3>5, <3>7 DEF Contract!Acknowledge, Contract!NoAnswer
    <3> QED
      BY <3>3, <3>8 DEF Contract!Next
  <2>8. CASE StartInMemory \/ NonceInMemory \/ AuditInMemory
    BY <2>8 DEF StartInMemory, NonceInMemory, AuditInMemory
  <2>9. CASE OpenKey \/ OpenCompact \/ OpenSession \/ OpenRefused \/ Crash \/ Receive
             \/ Respond
    <3>1. Contract!Done
      BY <2>9, <2>1 DEF OpenKey, OpenCompact, OpenSession, OpenRefused, Crash, Down,
         Receive, ReceiveRejected, ReceiveAdmitted, RejectIpc, Respond
    <3> QED
      BY <3>1 DEF Contract!Next
  <2>10. CASE OpenKeyFails \/ Tick \/ TailLoss \/ UNCHANGED vars
    BY <2>10, <2>2 DEF OpenKeyFails, Tick, TailLoss, vars
  <2>11. CASE NonceCompactFails \/ \E o \in AppendOutcomes : NonceAppend(o)
    <3>1. Contract!Done
      BY <2>11, <2>1, <2>3 DEF NonceCompactFails, NonceAppend
    <3> QED
      BY <3>1 DEF Contract!Next
  <2>12. CASE AuditAnchorFails \/ \E o \in AppendOutcomes : AuditAppend(o)
    <3>1. Contract!Done
      BY <2>12, <2>1, <2>4 DEF AuditAnchorFails, AuditAppend
    <3> QED
      BY <3>1 DEF Contract!Next
  <2> QED
    BY <1>2, <2>5, <2>6, <2>7, <2>8, <2>9, <2>10, <2>11, <2>12
    DEF Next, Open, RecordNonce, AppendAudit
<1>3. Spec => [](TypeOK /\ AuditInv /\ DurableReplayInv)
  BY TypeCorrect, AuditInvariant, ReplayInvariants, PTL
<1> QED
  BY <1>1, <1>2, <1>3, PTL DEF Spec, ImplementsContract, Contract!Spec

-----------------------------------------------------------------------------
(* The loopback server.                                                    *)

\* Each step of the server is a step of the broker or leaves its state alone.
LEMMA ServerStepIsBrokerStep ==
    ASSUME [ServerNext]_svars
    PROVE  [Next]_vars
<1>1. CASE Opening
  BY <1>1 DEF Opening, Next
<1>2. CASE Publish \/ Accept \/ Stall
  BY <1>2 DEF Publish, Accept, Stall
<1>3. CASE PublishFails \/ ServerCrash
  BY <1>3 DEF PublishFails, ServerCrash, Next
<1>4. ASSUME NEW code \in IpcCodes, Reject(code) PROVE [Next]_vars
  BY <1>4 DEF Reject, Next, Receive
<1>5. CASE Read
  <2>1. CASE \E n \in Pieces : ReadPiece(n)
    BY <2>1 DEF ReadPiece
  <2>2. CASE (\E n \in Pieces : ReadOversized(n)) \/ ReadNothing
             \/ \E secret \in 0..boot : AuthLineRejected(secret)
    BY <2>2, <1>4, ServedCodesAssumption DEF ReadOversized, ReadNothing, AuthLineRejected
  <2>3. CASE ReadNotUtf8 \/ ReadFails \/ \E secret \in 0..boot : AuthLine(secret)
    BY <2>3 DEF ReadNotUtf8, ReadFails, AuthLine
  <2>4. CASE \E e \in Envelopes : RequestLine(e)
    BY <2>4 DEF RequestLine, Next, Receive
  <2> QED
    BY <1>5, <2>1, <2>2, <2>3, <2>4 DEF Read
<1>6. CASE Handle
  BY <1>6 DEF Handle, Next
<1>7. CASE Write
  BY <1>7 DEF Write, WriteAnswer, WriteAnswerAndStop, WriteFails, Next
<1>8. CASE (Tick \/ TailLoss) /\ UNCHANGED server
  BY <1>8 DEF Next
<1>9. CASE UNCHANGED svars
  BY <1>9 DEF svars
<1> QED
  BY <1>1, <1>2, <1>3, <1>5, <1>6, <1>7, <1>8, <1>9 DEF ServerNext, ServerStep

\* The server implements the broker, so that all that is proved about the broker
\* holds of the process with its socket: run_loopback_server calls it for one
\* connection at a time and never changes its state otherwise.
THEOREM ServerImplementsBroker == ServerSpec => ImplementsBroker
<1>1. ServerInit => Init
  BY DEF ServerInit
<1>2. [ServerNext]_svars => [Next]_vars
  BY ServerStepIsBrokerStep
<1> QED
  BY <1>1, <1>2, PTL DEF ServerSpec, Spec, ImplementsBroker

\* So the server keeps the broker's contract with its clients, whatever happens to its
\* connections: it is killed, a peer stalls, or an answer cannot be written.
THEOREM ServerKeepsContract ==
    ASSUME Durable
    PROVE  ServerSpec => ImplementsContract
BY ContractKept, ServerImplementsBroker, PTL DEF ImplementsBroker

\* No request is served twice by the processes behind the socket.
THEOREM ServerReplaysNothing == ServerSpec => []NoReplay
BY ServerImplementsBroker, NothingIsReplayed, PTL DEF ImplementsBroker

\* The steps of handle, for which there is a connection.
Busy == {"nonce", "nonce_compact", "audit", "anchor", "respond"}

\* OnlyAuthenticPeers, and that a process that does not handle a request has none, and
\* accepts connections only when it has its state loaded.
ConnInv ==
    /\ OnlyAuthenticPeers
    /\ pc \notin Busy => cur = NoRequest
    /\ pc \notin Busy \union {"idle"} => conn = "none"

\* No step of the server breaks ConnInv.
LEMMA ConnInvStep == ConnInv /\ [ServerNext]_svars => ConnInv'
<1> SUFFICES ASSUME ConnInv, [ServerNext]_svars
             PROVE  ConnInv'
  OBVIOUS
<1> USE DEF Busy
<1>1. CASE Opening
  BY <1>1 DEF Opening, Open, StartInMemory, OpenKey, OpenKeyFails, OpenLoad,
     OpenCompact, OpenSession, OpenRefused, Down, ConnInv, OnlyAuthenticPeers, server
<1>2. CASE Publish
  BY <1>2 DEF Publish, ConnInv, OnlyAuthenticPeers, vars
<1>3. CASE PublishFails \/ ServerCrash \/ WriteAnswerAndStop
  BY <1>3 DEF PublishFails, ServerCrash, WriteAnswerAndStop, Closed, Crash, Down,
     ConnInv, OnlyAuthenticPeers, server
<1>4. CASE Accept
  BY <1>4 DEF Accept, ConnInv, OnlyAuthenticPeers, vars
<1>5. CASE Stall
  BY <1>5 DEF Stall, ConnInv, OnlyAuthenticPeers, vars
<1>6. ASSUME NEW code, Reject(code), Reading PROVE ConnInv'
  BY <1>6 DEF Reject, RejectIpc, Reading, ConnInv, OnlyAuthenticPeers
<1>7. ASSUME NEW n, ReadPiece(n) PROVE ConnInv'
  BY <1>7 DEF ReadPiece, Reading, ConnInv, OnlyAuthenticPeers, vars
<1>8. CASE (\E n \in Pieces : ReadOversized(n)) \/ ReadNothing
           \/ \E secret \in 0..boot : AuthLineRejected(secret)
  BY <1>8, <1>6 DEF ReadOversized, ReadNothing, AuthLineRejected, LineComplete
<1>9. CASE ReadNotUtf8 \/ ReadFails
  BY <1>9 DEF ReadNotUtf8, ReadFails, LineComplete, Closed, Reading,
     ConnInv, OnlyAuthenticPeers, vars
<1>10. ASSUME NEW secret, AuthLine(secret) PROVE ConnInv'
  BY <1>10 DEF AuthLine, Authentic, ConnInv, OnlyAuthenticPeers, vars
<1>11. ASSUME NEW e \in Envelopes, RequestLine(e) PROVE ConnInv'
  BY <1>11 DEF RequestLine, ReceiveRejected, ReceiveAdmitted, ConnInv, OnlyAuthenticPeers
<1>12. CASE Handle
  <2>1. /\ pc \in Busy /\ pc' \in Busy /\ UNCHANGED <<cur, boot>> /\ UNCHANGED server
    BY <1>12 DEF Handle, RecordNonce, NonceAppend, NonceCompact, NonceCompactFails,
       NonceInMemory, NonceFailed, Dispatch, AppendAudit, AuditAppend, AuditAnchor,
       AuditAnchorFails, AuditFailed, AuditInMemory
  <2> QED
    BY <2>1 DEF ConnInv, OnlyAuthenticPeers, server
<1>13. CASE WriteAnswer \/ WriteFails
  BY <1>13 DEF WriteAnswer, WriteFails, Respond, Closed, ConnInv, OnlyAuthenticPeers
<1>14. CASE (Tick \/ TailLoss) /\ UNCHANGED server
  BY <1>14 DEF Tick, TailLoss, ConnInv, OnlyAuthenticPeers, server
<1>15. CASE UNCHANGED svars
  BY <1>15 DEF svars, vars, server, ConnInv, OnlyAuthenticPeers
<1> QED
  BY <1>1, <1>2, <1>3, <1>4, <1>5, <1>7, <1>8, <1>9, <1>10, <1>11, <1>12,
     <1>13, <1>14, <1>15 DEF ServerNext, ServerStep, Read, Write

\* The broker works only for the connection being served, and only for a peer
\* that presented the secret of this process: the comparison with session_secret
\* cannot be passed with what an earlier endpoint file said.
THEOREM PeersAreAuthentic == ServerSpec => []OnlyAuthenticPeers
<1>1. ServerInit => ConnInv
  BY DEF ServerInit, Init, ConnInv, OnlyAuthenticPeers, Busy
<1>2. ConnInv => OnlyAuthenticPeers
  BY DEF ConnInv
<1> QED
  BY <1>1, <1>2, ConnInvStep, PTL DEF ServerSpec

\* The buffer of read_limited_line never exceeds the limit of its line, and the
\* other variables of the server keep their types.
THEOREM ServerTypes == ServerSpec => []ServerTypeOK
<1> DEFINE Inv == ServerTypeOK /\ (~Reading => got = 0)
<1>1. ServerInit => Inv
  <2>1. ServerInit => stalled \in BOOLEAN /\ dropped \in BOOLEAN
    BY DEF ServerInit
  <2> QED
    BY <2>1 DEF ServerInit, ServerTypeOK, Reading
<1>2. ASSUME Inv, TypeOK, [ServerNext]_svars PROVE Inv'
  <2>0. boot \in Nat /\ AuthMax \in Nat /\ RequestMax \in Nat /\ LineLimit \in Nat
        /\ got \in Nat
    BY <1>2, LimitsAssumption DEF TypeOK, LineLimit, ServerTypeOK
  <2>1. ASSUME UNCHANGED server PROVE Inv'
    BY <1>2, <2>1 DEF server, ServerTypeOK, Reading, LineLimit
  <2>2. ASSUME NEW next \in {"none", "accept"}, Closed(next), endpoint' = endpoint,
               dropped' \in BOOLEAN
        PROVE  Inv'
    BY <1>2, <2>2 DEF Closed, ServerTypeOK, Reading
  <2>a. CASE Publish
    BY <1>2, <2>0, <2>a DEF Publish, ServerTypeOK, Reading
  <2>b. CASE Accept
    <3>1. got' = 0 /\ conn' = "auth" /\ UNCHANGED <<stalled, peer, endpoint, dropped>>
      BY <1>2, <2>b DEF Accept, Reading
    <3> QED
      BY <1>2, <2>0, <3>1 DEF ServerTypeOK, Reading, LineLimit
  <2>c. CASE Stall
    <3>1. stalled' = TRUE /\ UNCHANGED <<conn, got, peer, endpoint, dropped>>
      BY <2>c DEF Stall
    <3> QED
      BY <1>2, <3>1 DEF ServerTypeOK, Reading, LineLimit
  <2>4. ASSUME NEW n \in Pieces, ReadPiece(n) PROVE Inv'
    <3>1. got' \in Nat /\ got' <= LineLimit /\ conn' = conn /\ Reading
          /\ UNCHANGED <<stalled, peer, endpoint, dropped>>
      BY <2>0, <2>4 DEF ReadPiece, Pieces
    <3> QED
      BY <1>2, <3>1 DEF ServerTypeOK, Reading, LineLimit
  <2>5. ASSUME NEW code, Reject(code) PROVE Inv'
    BY <1>2, <2>5 DEF Reject, ServerTypeOK, Reading
  <2>6. CASE (\E n \in Pieces : ReadOversized(n)) \/ ReadNothing
             \/ \E secret \in 0..boot : AuthLineRejected(secret)
    BY <2>6, <2>5 DEF ReadOversized, ReadNothing, AuthLineRejected
  <2>7. CASE ReadNotUtf8
    BY <2>7, <2>2 DEF ReadNotUtf8
  <2>8. CASE ReadFails \/ ServerCrash \/ WriteAnswer \/ WriteAnswerAndStop \/ WriteFails
    BY <1>2, <2>8, <2>2 DEF ReadFails, ServerCrash, WriteAnswer, WriteAnswerAndStop,
       WriteFails, ServerTypeOK
  <2>9. ASSUME NEW secret \in 0..boot, AuthLine(secret) PROVE Inv'
    BY <1>2, <2>0, <2>9 DEF AuthLine, ServerTypeOK, Reading, LineLimit
  <2>10. ASSUME NEW e \in Envelopes, RequestLine(e) PROVE Inv'
    BY <1>2, <2>10 DEF RequestLine, ServerTypeOK, Reading
  <2>11. CASE Opening \/ PublishFails \/ Handle \/ ((Tick \/ TailLoss) /\ UNCHANGED server)
    BY <2>11, <2>1 DEF Opening, PublishFails, Handle
  <2>12. CASE UNCHANGED svars
    BY <2>12, <2>1 DEF svars
  <2> QED
    BY <1>2, <2>a, <2>b, <2>c, <2>4, <2>6, <2>7, <2>8, <2>9, <2>10, <2>11, <2>12
    DEF ServerNext, ServerStep, Read, Write
<1>3. ServerSpec => []TypeOK
  BY ServerImplementsBroker, TypeCorrect, PTL DEF ImplementsBroker
<1> QED
  BY <1>1, <1>2, <1>3, PTL DEF ServerSpec

\* The endpoint file names the running process only once its store is open and it accepts
\* connections: what an earlier process left there names that process.
THEOREM EndpointsAreServed == ServerSpec => []EndpointIsServed
<1> DEFINE Inv == EndpointIsServed /\ endpoint \in Nat /\ endpoint <= boot
<1>1. ServerInit => Inv
  BY DEF ServerInit, Init, EndpointIsServed
<1>2. ASSUME Inv, TypeOK, [ServerNext]_svars PROVE Inv'
  <2>0. boot \in Nat /\ endpoint \in Nat /\ endpoint <= boot
    BY <1>2 DEF TypeOK
  <2>1. ASSUME UNCHANGED <<boot, endpoint>>, pc' = "down" \/ conn' # "none"
        PROVE  Inv'
    BY <1>2, <2>1 DEF EndpointIsServed
  <2>2. ASSUME UNCHANGED <<boot, endpoint, conn>>, pc # "down"
        PROVE  Inv'
    BY <1>2, <2>2 DEF EndpointIsServed
  <2>3. CASE Opening
    <3>1. CASE StartInMemory \/ OpenKey \/ OpenKeyFails
      <4>1. boot' = boot + 1 /\ UNCHANGED server
        BY <2>3, <3>1 DEF Opening, StartInMemory, OpenKey, OpenKeyFails
      <4>2. endpoint' = endpoint /\ endpoint' # boot' /\ endpoint' <= boot'
        BY <2>0, <4>1 DEF server
      <4> QED
        BY <2>0, <4>2 DEF EndpointIsServed
    <3>2. CASE OpenLoad \/ OpenCompact \/ OpenSession
      BY <2>2, <2>3, <3>2 DEF Opening, OpenLoad, OpenCompact, OpenSession, server
    <3>3. CASE OpenRefused
      BY <2>1, <2>3, <3>3 DEF Opening, OpenRefused, Down, server
    <3> QED
      BY <2>3, <3>1, <3>2, <3>3 DEF Opening, Open
  <2>4. CASE Publish
    BY <2>0, <2>4 DEF Publish, vars, EndpointIsServed
  <2>5. CASE PublishFails \/ ServerCrash \/ WriteAnswerAndStop
    BY <2>1, <2>5 DEF PublishFails, ServerCrash, WriteAnswerAndStop, Crash, Down, server
  <2>6. CASE Accept
    BY <2>1, <2>6 DEF Accept, vars
  <2>7. CASE Stall
    BY <2>1, <2>7 DEF Stall, vars, Reading
  <2>8. ASSUME NEW code, Reject(code) PROVE Inv'
    BY <2>1, <2>8 DEF Reject, RejectIpc
  <2>9. CASE Read
    <3>1. ASSUME NEW n, ReadPiece(n) PROVE Inv'
      BY <2>1, <3>1 DEF ReadPiece, Reading, vars
    <3>2. CASE (\E n \in Pieces : ReadOversized(n)) \/ ReadNothing
               \/ \E secret \in 0..boot : AuthLineRejected(secret)
      BY <3>2, <2>8 DEF ReadOversized, ReadNothing, AuthLineRejected
    <3>3. CASE ReadNotUtf8 \/ ReadFails
      BY <2>1, <3>3 DEF ReadNotUtf8, ReadFails, Closed, vars
    <3>4. ASSUME NEW secret, AuthLine(secret) PROVE Inv'
      BY <2>1, <3>4 DEF AuthLine, vars
    <3>5. ASSUME NEW e \in Envelopes, RequestLine(e) PROVE Inv'
      BY <2>1, <3>5 DEF RequestLine, ReceiveRejected, ReceiveAdmitted
    <3> QED
      BY <2>9, <3>1, <3>2, <3>3, <3>4, <3>5 DEF Read
  <2>10. CASE Handle
    <3>1. pc # "down" /\ UNCHANGED boot /\ UNCHANGED server
      BY <2>10 DEF Handle, RecordNonce, NonceAppend, NonceCompact, NonceCompactFails,
         NonceInMemory, NonceFailed, Dispatch, AppendAudit, AuditAppend, AuditAnchor,
         AuditAnchorFails, AuditFailed, AuditInMemory
    <3> QED
      BY <2>2, <3>1 DEF server
  <2>11. CASE WriteAnswer \/ WriteFails
    BY <2>1, <2>11 DEF WriteAnswer, WriteFails, Respond, Closed
  <2>12. CASE ((Tick \/ TailLoss) /\ UNCHANGED server) \/ UNCHANGED svars
    <3>1. UNCHANGED <<boot, pc>> /\ UNCHANGED <<endpoint, conn>>
      BY <2>12 DEF Tick, TailLoss, svars, vars, server
    <3> QED
      BY <1>2, <3>1 DEF EndpointIsServed
  <2> QED
    BY <1>2, <2>3, <2>4, <2>5, <2>6, <2>7, <2>9, <2>10, <2>11, <2>12
    DEF ServerNext, ServerStep, Write
<1>3. ServerSpec => []TypeOK
  BY ServerImplementsBroker, TypeCorrect, PTL DEF ImplementsBroker
<1> QED
  BY <1>1, <1>2, <1>3, PTL DEF ServerSpec

=============================================================================
