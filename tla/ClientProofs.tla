---------------------------- MODULE ClientProofs ----------------------------
(***************************************************************************)
(* Proofs about the start of the product against the server: whose answers *)
(* a snapshot shows, and that the audit events it lists exist.             *)
(***************************************************************************)
EXTENDS ProductClient, ContractProofs

-----------------------------------------------------------------------------
(* Sequences of answers, of whatever form.                                 *)

Sequence(s) == \E S : s \in Seq(S)

\* What appending an answer keeps and adds.
LEMMA AnswerAppended ==
    ASSUME NEW s, NEW x, Sequence(s)
    PROVE  /\ Sequence(Append(s, x)) /\ Len(s) \in Nat /\ Len(Append(s, x)) = Len(s) + 1
           /\ \A k \in 1..Len(s) : Append(s, x)[k] = s[k]
           /\ Append(s, x)[Len(s) + 1] = x
<1>1. PICK S : s \in Seq(S)
  BY DEF Sequence
<1>2. s \in Seq(S \union {x}) /\ x \in S \union {x}
  BY <1>1
<1>3. Append(s, x) \in Seq(S \union {x})
  BY <1>2
<1> QED
  BY <1>2, <1>3 DEF Sequence

\* There are five probes.
LEMMA FiveProbes == Len(Probes) = 5
BY DEF Probes

-----------------------------------------------------------------------------
(* The client among the bounds of the model.                               *)

\* Times and process starts stay within their bounds; the client has read a session that
\* there was before it sends anything; and its answers are counted.
BoundsInv ==
    /\ now \in 0..MaxTime /\ boot \in 0..MaxBoots
    /\ endpoint \in 0..boot /\ ep \in 0..boot
    /\ ui \in {"start", "open", "wait", "broker", "unavailable"}
    /\ ui \in {"open", "wait"} => ep # 0
    /\ ui = "start" => answers = <<>>
    /\ Sequence(answers) /\ Len(answers) <= 5
    /\ ui = "broker" <=> Len(answers) = 5
    /\ link \in {"none", "queued", "served"}
    /\ link # "none" => ui \in {"wait", "unavailable"}
    /\ inbox # Nothing => ui \in {"wait", "unavailable"} /\ link = "none"

\* What a step of the server does to the clock, to the process's number and to the
\* endpoint file.
LEMMA ServerBounds ==
    ASSUME ServerSteps, boot \in Nat
    PROVE  /\ now' = now
           /\ \/ boot' = boot /\ endpoint' \in {endpoint, boot}
              \/ boot' = boot + 1 /\ boot < MaxBoots /\ endpoint' = endpoint
<1> USE DEF vars, server
<1>1. CASE AcceptClient \/ (Accept /\ UNCHANGED client)
  BY <1>1 DEF AcceptClient, Accept
<1>2. ASSUME NEW code, Reject(code) PROVE UNCHANGED <<now, boot, endpoint>>
  BY <1>2 DEF Reject, RejectIpc
<1>3. ASSUME NEW s, AuthLine(s) \/ AuthLineRejected(s) PROVE UNCHANGED <<now, boot, endpoint>>
  BY <1>2, <1>3 DEF AuthLine, AuthLineRejected
<1>4. ASSUME NEW e, RequestLine(e) PROVE UNCHANGED <<now, boot, endpoint>>
  BY <1>4 DEF RequestLine, ReceiveRejected, ReceiveAdmitted
<1>5. CASE Handle
  BY <1>5 DEF Handle, RecordNonce, NonceAppend, NonceCompact, NonceCompactFails,
     NonceInMemory, NonceFailed, Dispatch, AppendAudit, AuditAppend, AuditAnchor,
     AuditAnchorFails, AuditFailed, AuditInMemory
<1>6. CASE WriteAnswer \/ WriteFails \/ WriteAnswerAndStop \/ ServerCrash \/ PublishFails
  BY <1>6 DEF WriteAnswer, WriteFails, WriteAnswerAndStop, Respond, ServerCrash, PublishFails,
     Crash, Down
<1>7. CASE ReadFails \/ Stall \/ Accept
  BY <1>7 DEF ReadFails, Stall, Accept
<1>8. CASE Publish
  BY <1>8 DEF Publish
<1>9. CASE Opening
  BY <1>9 DEF Opening, Open, StartInMemory, OpenKey, OpenKeyFails, OpenLoad, OpenCompact,
     OpenSession, OpenRefused, Down
<1>10. CASE ServeClient
  BY <1>10, <1>3, <1>4, <1>5 DEF ServeClient
<1>11. CASE AnswerClient \/ DropClient \/ CrashClient \/ OtherStops
  BY <1>11, <1>6, <1>7 DEF AnswerClient, DropClient, CrashClient, OtherStops
<1>12. CASE OtherSteps
  BY <1>12, <1>3, <1>4, <1>5, <1>6, <1>7, <1>8, <1>9 DEF OtherSteps
<1> QED
  BY <1>1, <1>10, <1>11, <1>12 DEF ServerSteps

\* No step of the client or the server breaks BoundsInv.
LEMMA BoundsInvStep == BoundsInv /\ [ClientNext]_cvars => BoundsInv'
<1> SUFFICES ASSUME BoundsInv, [ClientNext]_cvars
             PROVE  BoundsInv'
  OBVIOUS
<1> USE DEF svars, vars, server
<1>0. boot \in Nat /\ MaxBoots \in Nat /\ endpoint \in 0..boot /\ ep \in 0..boot
  BY BoundsAssumption DEF BoundsInv
<1>1. CASE UNCHANGED cvars
  BY <1>1 DEF cvars, client, BoundsInv
<1>2. CASE ReadEndpoint
  BY <1>2 DEF ReadEndpoint, BoundsInv
<1>3. CASE OpenSocket \/ Fail \/ TakeRefusal
  BY <1>3 DEF OpenSocket, Fail, TakeRefusal, BoundsInv
<1>4. CASE TakeAnswer
  <2>1. /\ ui = "wait" /\ answers' = Append(answers, inbox) /\ inbox' = Nothing
        /\ ui' = NextProbe /\ UNCHANGED <<now, boot, endpoint, ep, link>> /\ link = "none"
    BY <1>4 DEF TakeAnswer, BoundsInv
  <2>2. Sequence(answers') /\ Len(answers) \in Nat /\ Len(answers') = Len(answers) + 1
    BY <2>1, AnswerAppended DEF BoundsInv
  <2>3. Len(answers) < 5
    <3>1. Len(answers) <= 5 /\ Len(answers) # 5
      BY <2>1 DEF BoundsInv
    <3>2. Len(answers) \in Nat
      BY <2>2
    <3>3. ASSUME NEW n \in Nat, n <= 5, n # 5
          PROVE  n < 5
      BY <3>3
    <3> QED
      BY <3>1, <3>2, <3>3, Zenon
  <2>4. ui' = IF Len(answers) + 1 = 5 THEN "broker" ELSE "open"
    BY <2>1, FiveProbes DEF NextProbe, Step
  <2> QED
    BY <2>1, <2>2, <2>3, <2>4 DEF BoundsInv
<1>5. CASE ui # "unavailable" /\ ServerSteps
  <2>1. /\ now' = now
        /\ \/ boot' = boot /\ endpoint' \in {endpoint, boot}
           \/ boot' = boot + 1 /\ boot < MaxBoots /\ endpoint' = endpoint
    BY <1>0, <1>5, ServerBounds
  <2>2. UNCHANGED <<ui, ep, answers>>
    BY <1>5 DEF ServerSteps, AcceptClient, ServeClient, AnswerClient, DropClient, CrashClient,
       OtherSteps, OtherStops, Arrives, client
  <2>3. boot' \in 0..MaxBoots /\ endpoint' \in 0..boot' /\ ep' \in 0..boot'
    BY <1>0, <2>1, <2>2 DEF BoundsInv
  <2>4. \/ UNCHANGED <<link, inbox>>
        \/ link' = "served" /\ link = "queued" /\ inbox' = inbox
        \/ link' = "none" /\ (inbox' = inbox \/ ui = "wait")
    BY <1>5 DEF ServerSteps, AcceptClient, ServeClient, AnswerClient, DropClient, CrashClient,
       OtherSteps, OtherStops, Arrives, client
  <2> QED
    BY <2>1, <2>2, <2>3, <2>4 DEF BoundsInv
<1> QED
  BY <1>1, <1>2, <1>3, <1>4, <1>5 DEF ClientNext, ClientStep

\* Within them, a step of the product against its server is a step of the server.
LEMMA ClientStepIsServerStep ==
    ASSUME BoundsInv, [ClientNext]_cvars
    PROVE  [ServerNext]_svars
<1>1. CASE UNCHANGED cvars \/ ClientStep
  BY <1>1 DEF cvars, ClientStep, ReadEndpoint, OpenSocket, Fail, TakeAnswer, TakeRefusal
<1>2. CASE ServeClient /\ ui # "unavailable"
  <2>1. ui = "wait" /\ ep \in 0..boot
    BY <1>2 DEF ServeClient, BoundsInv
  <2>2. Probe(Step, ep) \in Envelopes
    <3>1. Len(answers) \in Nat
      BY AnswerAppended DEF BoundsInv
    <3>2. Step \in 1..Len(Probes)
      BY <2>1, <3>1, FiveProbes DEF Step, BoundsInv
    <3>3. now \in 0..MaxTime /\ ep \in 1..MaxBoots
      BY <2>1, BoundsAssumption DEF BoundsInv
    <3> QED
      BY <3>2, <3>3, ProbesAssumption DEF Probe
  <2> QED
    BY <1>2, <2>1, <2>2 DEF ServeClient, ServerNext, ServerStep, Read
<1>3. CASE AcceptClient \/ AnswerClient \/ DropClient \/ CrashClient \/ OtherStops
  BY <1>3 DEF AcceptClient, AnswerClient, DropClient, CrashClient, OtherStops, ServerNext,
     ServerStep, Read, Write
<1>4. CASE OtherSteps
  BY <1>4 DEF OtherSteps, Others, ServerNext, ServerStep, Read, Write
<1> QED
  BY <1>1, <1>2, <1>3, <1>4 DEF ClientNext, ServerSteps

\* BoundsInv holds in every reachable state.
LEMMA BoundsHold == ClientSpec => []BoundsInv
<1>1. ClientInit => BoundsInv
  <2> SUFFICES ASSUME ClientInit PROVE BoundsInv
    OBVIOUS
  <2>1. /\ now = 0 /\ boot = 0 /\ endpoint = 0 /\ ep = 0 /\ ui = "start" /\ answers = <<>>
        /\ link = "none" /\ inbox = Nothing
    BY DEF ClientInit, ServerInit, Init
  <2>2. MaxTime \in Nat /\ MaxBoots \in Nat
    BY BoundsAssumption
  <2>3. <<>> \in Seq({})
    OBVIOUS
  <2>4. Sequence(answers) /\ Len(answers) = 0
    BY <2>1, <2>3 DEF Sequence
  <2> QED
    BY <2>1, <2>2, <2>4 DEF BoundsInv
<1> QED
  BY <1>1, BoundsInvStep, PTL DEF ClientSpec

\* What is proved about the server and its broker holds with the product as their client.
LEMMA ClientIsServer == ClientSpec => Spec /\ []ConnInv
<1>1. ClientInit => Init /\ ConnInv
  BY DEF ClientInit, ServerInit, Init, ConnInv, OnlyAuthenticPeers, Busy
<1>2. BoundsInv /\ [ClientNext]_cvars => [ServerNext]_svars
  BY ClientStepIsServerStep
<1>3. [ServerNext]_svars => [Next]_vars
  BY ServerStepIsBrokerStep
<1> QED
  BY <1>1, <1>2, <1>3, ConnInvStep, BoundsHold, PTL DEF ClientSpec, Spec

-----------------------------------------------------------------------------
(* Answers to what was not read.                                           *)

\* A broker that handles no request has none; and what it audits and answers without
\* one is a rejection.
UnreadInv ==
    /\ pc \notin Busy => cur = NoRequest
    /\ pc \in {"nonce", "nonce_compact"} => cur # NoRequest
    /\ cur = NoRequest /\ pc \in {"audit", "anchor"} => fin.status = "rejected"
    /\ cur = NoRequest /\ pc = "respond" /\ resp.event # 0 => resp.status = "rejected"

\* No step of the broker breaks UnreadInv.
LEMMA UnreadInvStep == UnreadInv /\ [Next]_vars => UnreadInv'
<1> SUFFICES ASSUME UnreadInv, [Next]_vars
             PROVE  UnreadInv'
  OBVIOUS
<1> USE DEF Busy, process
<1>1. CASE Open
  BY <1>1 DEF Open, StartInMemory, OpenKey, OpenKeyFails, OpenLoad, OpenCompact, OpenSession,
     OpenRefused, Down, UnreadInv
<1>2. CASE Receive
  <2>1. \A e \in Envelopes : e # NoRequest
    BY EnvelopesAssumption DEF EnvelopeType, NoRequest, Flaws
  <2>2. ASSUME NEW e \in Envelopes, ReceiveRejected(e) \/ ReceiveAdmitted(e)
        PROVE  UnreadInv'
    BY <2>1, <2>2 DEF ReceiveRejected, ReceiveAdmitted, UnreadInv
  <2>3. ASSUME NEW code \in IpcCodes, RejectIpc(code)
        PROVE  UnreadInv'
    BY <2>3 DEF RejectIpc, Rejected, UnreadInv
  <2> QED
    BY <1>2, <2>2, <2>3 DEF Receive
<1>3. CASE RecordNonce
  <2>1. pc \in {"nonce", "nonce_compact"} /\ cur # NoRequest /\ cur' = cur /\ pc' \in Busy
    BY <1>3 DEF RecordNonce, NonceAppend, NonceCompact, NonceCompactFails, NonceInMemory,
       NonceFailed, Dispatch, UnreadInv
  <2> QED
    BY <2>1 DEF UnreadInv
<1>4. CASE AppendAudit
  <2>1. CASE AuditAnchor \/ AuditInMemory
    <3>1. /\ pc \in {"audit", "anchor"} /\ pc' = "respond" /\ UNCHANGED <<cur, fin>>
          /\ resp'.status = fin.status
      BY <2>1 DEF AuditAnchor, AuditInMemory, Answer
    <3> QED
      BY <3>1 DEF UnreadInv
  <2>2. ASSUME AuditFailed PROVE UnreadInv'
    BY <2>2 DEF AuditFailed, Unaudited, UnreadInv
  <2>3. ASSUME NEW o \in AppendOutcomes, AuditAppend(o) PROVE UnreadInv'
    <3>1. CASE o = "ok"
      BY <2>3, <3>1 DEF AuditAppend, UnreadInv
    <3>2. CASE o # "ok"
      BY <2>2, <2>3, <3>2 DEF AuditAppend
    <3> QED
      BY <3>1, <3>2
  <2> QED
    BY <1>4, <2>1, <2>2, <2>3 DEF AppendAudit, AuditAnchorFails
<1>5. CASE Respond \/ Crash
  BY <1>5 DEF Respond, Crash, Down, UnreadInv
<1>6. CASE Tick \/ TailLoss \/ UNCHANGED vars
  BY <1>6 DEF Tick, TailLoss, vars, UnreadInv
<1> QED
  BY <1>1, <1>2, <1>3, <1>4, <1>5, <1>6 DEF Next

-----------------------------------------------------------------------------
(* The answers and the process that gave them.                             *)

\* While the server has the client's connection, it is of the session that the client
\* has read as soon as the secret was accepted; and what arrived with the number of an
\* event, and is no rejection, is of that session.
SessionInv ==
    /\ link = "served" => conn \in {"auth", "request", "busy"}
    /\ link = "served" /\ (conn = "request" \/ cur # NoRequest) => boot = ep
    /\ inbox.event # 0 /\ inbox.status # "rejected" => inbox.by = ep
    /\ SnapshotOfOneSession

\* No step of the client or the server breaks SessionInv.
LEMMA SessionInvStep ==
    ASSUME BoundsInv, ConnInv, UnreadInv, SessionInv, [ClientNext]_cvars
    PROVE  SessionInv'
<1> USE DEF svars, vars, server, process
<1>a. Nothing.event = 0 /\ EndOfStream.event = 0
  BY DEF Nothing, EndOfStream
<1>1. CASE UNCHANGED cvars
  BY <1>1 DEF cvars, client, SessionInv, SnapshotOfOneSession
<1>2. CASE ReadEndpoint
  <2>1. /\ ui = "start" /\ answers = <<>> /\ inbox = Nothing /\ link = "none"
        /\ UNCHANGED <<conn, cur, boot, link, inbox, answers>>
    BY <1>2 DEF ReadEndpoint, BoundsInv
  <2> QED
    BY <2>1, <1>a DEF SessionInv, SnapshotOfOneSession
<1>3. CASE OpenSocket \/ Fail \/ TakeRefusal
  <2>1. /\ UNCHANGED <<conn, cur, boot, ep, inbox, answers>>
        /\ link' = link \/ link' = "queued"
    BY <1>3 DEF OpenSocket, Fail, TakeRefusal
  <2> QED
    BY <2>1 DEF SessionInv, SnapshotOfOneSession
<1>4. CASE TakeAnswer
  <2>1. /\ answers' = Append(answers, inbox) /\ inbox' = Nothing
        /\ UNCHANGED <<conn, cur, boot, ep, link>>
        /\ Satisfies(inbox, Probes[Step])
    BY <1>4 DEF TakeAnswer
  <2>a. inbox.status # "rejected"
    BY <2>1 DEF Satisfies
  <2>2. /\ Len(answers) \in Nat /\ Len(answers') = Len(answers) + 1
        /\ \A k \in 1..Len(answers) : answers'[k] = answers[k]
        /\ answers'[Len(answers) + 1] = inbox
    BY <2>1, AnswerAppended DEF BoundsInv
  <2>3. SnapshotOfOneSession'
    <3> SUFFICES ASSUME NEW k \in 1..Len(answers'), answers'[k].event # 0
                 PROVE  answers'[k].by = ep
      BY <2>1 DEF SnapshotOfOneSession
    <3>1. CASE k \in 1..Len(answers)
      BY <2>2, <3>1 DEF SessionInv, SnapshotOfOneSession
    <3>2. CASE k = Len(answers) + 1
      BY <2>1, <2>a, <2>2, <3>2 DEF SessionInv
    <3> QED
      BY <2>2, <3>1, <3>2
  <2> QED
    BY <2>1, <2>3, <1>a DEF SessionInv
<1>5. CASE ServerSteps
  <2>0. UNCHANGED <<ui, ep, answers>>
    BY <1>5 DEF ServerSteps, AcceptClient, ServeClient, AnswerClient, DropClient, CrashClient,
       OtherSteps, OtherStops, Arrives, client
  <2>1. ASSUME link' # "served", \/ inbox' = inbox
                                 \/ inbox'.event = 0 
                                 \/ inbox'.status = "rejected"
                                 \/ inbox'.by = ep
        PROVE  SessionInv'
    BY <2>0, <2>1 DEF SessionInv, SnapshotOfOneSession
  <2>2. CASE AcceptClient
    <3>1. /\ link' = "served" /\ conn = "accept" /\ conn' = "auth"
          /\ UNCHANGED <<cur, boot, inbox>>
      BY <2>2 DEF AcceptClient, Accept
    <3>2. cur = NoRequest
      BY <3>1 DEF ConnInv, OnlyAuthenticPeers, Busy
    <3> QED
      BY <2>0, <3>1, <3>2 DEF SessionInv, SnapshotOfOneSession
  <2>3. CASE ServeClient
    <3>0. link = "served" /\ UNCHANGED <<link, inbox>>
      BY <2>3 DEF ServeClient, client
    <3>1. CASE AuthLine(ep)
      BY <2>0, <3>0, <3>1 DEF AuthLine, Authentic, SessionInv, SnapshotOfOneSession
    <3>2. CASE AuthLineRejected(ep)
      <4>1. conn = "auth" /\ conn' = "busy" /\ UNCHANGED <<cur, boot>>
        BY <3>2 DEF AuthLineRejected, Reject, RejectIpc
      <4> QED
        BY <2>0, <3>0, <4>1 DEF SessionInv, SnapshotOfOneSession
    <3>3. CASE RequestLine(Probe(Step, ep))
      <4>1. conn = "request" /\ conn' = "busy" /\ UNCHANGED boot
        BY <3>3 DEF RequestLine, ReceiveRejected, ReceiveAdmitted
      <4> QED
        BY <2>0, <3>0, <4>1 DEF SessionInv, SnapshotOfOneSession
    <3>4. CASE Handle
      <4>1. UNCHANGED <<cur, boot, conn>>
        BY <3>4 DEF Handle, RecordNonce, NonceAppend, NonceCompact, NonceCompactFails,
           NonceInMemory, NonceFailed, Dispatch, AppendAudit, AuditAppend, AuditAnchor,
           AuditAnchorFails, AuditFailed, AuditInMemory
      <4> QED
        BY <2>0, <3>0, <4>1 DEF SessionInv, SnapshotOfOneSession
    <3> QED
      BY <2>3, <3>1, <3>2, <3>3, <3>4 DEF ServeClient
  <2>4. CASE AnswerClient
    <3>1. /\ link = "served" /\ pc = "respond" /\ link' = "none"
          /\ inbox' = inbox \/ inbox' = Received(resp)
      BY <2>4 DEF AnswerClient, WriteAnswer, WriteAnswerAndStop, Respond, Arrives
    <3>2. Received(resp).event = 0 \/ Received(resp).status = "rejected" \/ Received(resp).by = ep
      BY <3>1 DEF Received, UnreadInv, SessionInv
    <3> QED
      BY <2>1, <3>1, <3>2
  <2>5. CASE DropClient \/ CrashClient
    <3>1. link' = "none" /\ (inbox' = inbox \/ inbox' = EndOfStream)
      BY <2>5 DEF DropClient, CrashClient, Arrives
    <3> QED
      BY <2>1, <3>1, <1>a
  <2>6. CASE OtherSteps \/ OtherStops
    <3>1. link' # "served" /\ (inbox' = inbox \/ inbox' = EndOfStream)
      BY <2>6 DEF OtherSteps, OtherStops, Arrives, client
    <3> QED
      BY <2>1, <3>1, <1>a
  <2> QED
    BY <1>5, <2>2, <2>3, <2>4, <2>5, <2>6 DEF ServerSteps
<1> QED
  BY <1>1, <1>2, <1>3, <1>4, <1>5 DEF ClientNext, ClientStep

\* UnreadInv and SessionInv hold in every reachable state.
LEMMA SessionsHold == ClientSpec => [](UnreadInv /\ SessionInv)
<1>1. ClientInit => UnreadInv /\ SessionInv
  <2> SUFFICES ASSUME ClientInit PROVE UnreadInv /\ SessionInv
    OBVIOUS
  <2>1. /\ pc = "down" /\ cur = NoRequest /\ link = "none" /\ inbox = Nothing /\ answers = <<>>
    BY DEF ClientInit, ServerInit, Init
  <2> QED
    BY <2>1 DEF UnreadInv, SessionInv, SnapshotOfOneSession, Nothing
<1>2. UnreadInv /\ BoundsInv /\ [ClientNext]_cvars => UnreadInv'
  BY UnreadInvStep, ClientStepIsServerStep, ServerStepIsBrokerStep
<1>3. BoundsInv /\ ConnInv /\ UnreadInv /\ SessionInv /\ [ClientNext]_cvars => SessionInv'
  BY SessionInvStep
<1> QED
  BY <1>1, <1>2, <1>3, BoundsHold, ClientIsServer, PTL DEF ClientSpec

\* No answer of another process than the one whose endpoint file was read is part of a
\* snapshot, unless it names no audit event: the secret is compared on each connection.
THEOREM SnapshotsAreOfOneSession == ClientSpec => []SnapshotOfOneSession
<1>1. SessionInv => SnapshotOfOneSession
  BY DEF SessionInv
<1> QED
  BY <1>1, SessionsHold, PTL

-----------------------------------------------------------------------------
(* The answers and what the client requires of them.                       *)

\* What the client shows fits the answers that it has.
THEOREM ClientTypes == ClientSpec => []ClientTypeOK
<1> DEFINE Inv == \A k \in 1..Len(answers) : Satisfies(answers[k], Probes[k])
<1>1. ClientInit => Inv
  BY DEF ClientInit
<1>2. ASSUME Inv, BoundsInv, [ClientNext]_cvars PROVE Inv'
  <2>1. CASE TakeAnswer
    <3>1. answers' = Append(answers, inbox) /\ Satisfies(inbox, Probes[Len(answers) + 1])
      BY <2>1 DEF TakeAnswer, Step
    <3>2. /\ Len(answers) \in Nat /\ Len(answers') = Len(answers) + 1
          /\ \A k \in 1..Len(answers) : answers'[k] = answers[k]
          /\ answers'[Len(answers) + 1] = inbox
      BY <1>2, <3>1, AnswerAppended DEF BoundsInv
    <3> SUFFICES ASSUME NEW k \in 1..Len(answers')
                 PROVE  Satisfies(answers'[k], Probes[k])
      BY DEF Satisfies
    <3>3. CASE k \in 1..Len(answers)
      BY <1>2, <3>2, <3>3 DEF Satisfies
    <3>4. CASE k = Len(answers) + 1
      BY <3>1, <3>2, <3>4
    <3> QED
      BY <3>2, <3>3, <3>4
  <2>2. CASE UNCHANGED answers
    BY <1>2, <2>2
  <2>3. UNCHANGED answers \/ TakeAnswer
    BY <1>2 DEF ClientNext, ClientStep, ReadEndpoint, OpenSocket, Fail, TakeRefusal, ServerSteps,
       AcceptClient, ServeClient, AnswerClient, DropClient, CrashClient, OtherSteps, OtherStops,
       Arrives, client, cvars
  <2> QED
    BY <2>1, <2>2, <2>3
<1>3. BoundsInv /\ Inv => ClientTypeOK
  <2> SUFFICES ASSUME BoundsInv, Inv PROVE ClientTypeOK
    OBVIOUS
  <2>1. boot \in Nat /\ MaxBoots \in Nat
    BY BoundsAssumption DEF BoundsInv
  <2>2. ep \in Nat
    BY <2>1 DEF BoundsInv
  <2> QED
    BY <2>2, FiveProbes DEF BoundsInv, ClientTypeOK
<1> QED
  BY <1>1, <1>2, <1>3, BoundsHold, PTL DEF ClientSpec

-----------------------------------------------------------------------------
(* The answers and the journal.                                            *)

\* What an answer with the number n of an event says: it is in the journal, for that
\* probe, and behind the events of all answers before it.
Journaled(n, op, before) ==
    /\ n \in 1..Len(acked) /\ acked[n].body.env.op = op
    /\ \A i \in 1..before : answers[i].event < n

\* The answers, what has arrived and what the server is about to answer are journaled;
\* and the server handles the probe that the client waits for.
JournalInv ==
    /\ \A k \in 1..Len(answers) : answers[k].event \in Nat
    /\ \A k \in 1..Len(answers) :
           answers[k].event # 0 => Journaled(answers[k].event, Probes[k], k - 1)
    /\ inbox.event \in Nat
    /\ inbox.event # 0 /\ inbox.status # "rejected" =>
           Journaled(inbox.event, Probes[Step], Len(answers))
    /\ link = "served" /\ cur # NoRequest => cur.op = Probes[Step]
    /\ link = "served" /\ pc = "respond" /\ resp.event # 0 /\ cur # NoRequest =>
           Journaled(resp.event, Probes[Step], Len(answers))

\* A journal only grows.
LEMMA JournalGrows ==
    ASSUME Durable, TypeOK, AuditInv, [Next]_vars
    PROVE  /\ Len(acked') \in Nat /\ Len(acked) <= Len(acked')
           /\ \A n \in 1..Len(acked) : acked'[n] = acked[n]
<1>1. acked \in Seq(Events)
  BY DEF TypeOK
<1>2. CASE UNCHANGED acked
  BY <1>1, <1>2
<1>3. CASE AuditAnchor
  <2>1. acked' = Append(acked, CurrentEvent) /\ CurrentEvent \in Events
    BY <1>3, RespTypes DEF AuditAnchor, AuditInv
  <2> QED
    BY <1>1, <2>1
<1>4. AuditAnchor \/ UNCHANGED acked
  BY DEF Next, Open, StartInMemory, OpenKey, OpenKeyFails, OpenLoad, OpenCompact, OpenSession,
     OpenRefused, Receive, ReceiveRejected, ReceiveAdmitted, RejectIpc, RecordNonce, NonceAppend,
     NonceCompact, NonceCompactFails, NonceInMemory, NonceFailed, Dispatch, AppendAudit,
     AuditAppend, AuditAnchorFails, AuditFailed, AuditInMemory, Respond, Crash, Down, Tick,
     TailLoss, vars, history
<1> QED
  BY <1>2, <1>3, <1>4

\* What is journaled stays so.
LEMMA JournaledStays ==
    ASSUME Durable, TypeOK, AuditInv, [Next]_vars, UNCHANGED answers
    PROVE  \A n, op, before :
               Journaled(n, op, before) =>
                   /\ n \in 1..Len(acked') /\ acked'[n].body.env.op = op
                   /\ \A i \in 1..before : answers'[i].event < n
<1> SUFFICES ASSUME NEW n, NEW op, NEW before, Journaled(n, op, before)
             PROVE  /\ n \in 1..Len(acked') /\ acked'[n].body.env.op = op
                    /\ \A i \in 1..before : answers'[i].event < n
  OBVIOUS
<1>1. /\ Len(acked) \in Nat /\ Len(acked') \in Nat /\ Len(acked) <= Len(acked')
      /\ n \in 1..Len(acked) /\ acked'[n] = acked[n]
  BY JournalGrows DEF Journaled, TypeOK
<1> QED
  BY <1>1 DEF Journaled

\* An answer that AuditAnchor gives is journaled behind all that there was.
LEMMA AnchorJournals ==
    ASSUME Durable, TypeOK, AuditInv, BoundsInv, JournalInv, AuditAnchor,
           UNCHANGED answers
    PROVE  Journaled(resp.event, cur.op, Len(answers))'
<1>1. /\ mem = acked /\ acked \in Seq(Events) /\ CurrentEvent \in Events
      /\ acked' = Append(acked, CurrentEvent) /\ resp' = Answer /\ cur' = cur
  BY RespTypes DEF AuditAnchor, AuditInv, TypeOK
<1>2. resp'.event = Len(acked) + 1
  BY <1>1 DEF Answer
<1>3. acked'[resp'.event].body.env = cur
  <2>1. acked'[resp'.event] = CurrentEvent
    BY <1>1, <1>2
  <2> QED
    BY <2>1 DEF CurrentEvent, BuildNext
<1>4. resp'.event \in 1..Len(acked')
  BY <1>1, <1>2
<1>5. ASSUME NEW i \in 1..Len(answers) PROVE answers[i].event < resp'.event
  <2>1. answers[i].event \in Nat
    BY DEF JournalInv
  <2>2. answers[i].event = 0 \/ answers[i].event \in 1..Len(acked)
    BY DEF JournalInv, Journaled
  <2> QED
    BY <1>1, <1>2, <2>1, <2>2
<1> QED
  BY <1>1, <1>3, <1>4, <1>5 DEF Journaled

\* No step of the client or the server breaks JournalInv.
LEMMA JournalInvStep ==
    ASSUME Durable, TypeOK, AuditInv, BoundsInv, ConnInv, UnreadInv, JournalInv,
           [ClientNext]_cvars
    PROVE  JournalInv'
<1>a. /\ Nothing.event = 0 /\ EndOfStream.event = 0
  BY DEF Nothing, EndOfStream
<1>1. CASE UNCHANGED cvars \/ ReadEndpoint \/ OpenSocket \/ Fail \/ TakeRefusal
  <2>1. /\ UNCHANGED <<acked, pc, cur, resp, inbox, answers>>
        /\ link' = link \/ link' = "queued"
    BY <1>1 DEF ReadEndpoint, OpenSocket, Fail, TakeRefusal, cvars, client, svars, vars, process,
       history
  <2> QED
    BY <2>1 DEF JournalInv, Journaled, Step
<1>2. CASE TakeAnswer
  <2>1. /\ answers' = Append(answers, inbox) /\ inbox' = Nothing
        /\ link' = "none" /\ acked' = acked
        /\ Satisfies(inbox, Probes[Step])
    BY <1>2 DEF TakeAnswer, BoundsInv, svars, vars, history
  <2>2. inbox.status # "rejected"
    BY <2>1 DEF Satisfies
  <2>3. /\ Len(answers) \in Nat /\ Len(answers') = Len(answers) + 1
        /\ \A k \in 1..Len(answers) : answers'[k] = answers[k]
        /\ answers'[Len(answers) + 1] = inbox
    BY <2>1, AnswerAppended DEF BoundsInv
  <2>4. ASSUME NEW k \in 1..Len(answers')
        PROVE  /\ answers'[k].event \in Nat
               /\ answers'[k].event # 0 => Journaled(answers[k].event, Probes[k], k - 1)'
    <3>1. CASE k \in 1..Len(answers)
      <4>1. answers'[k] = answers[k] /\ k - 1 \in Nat /\ 1..(k - 1) \subseteq 1..Len(answers)
        BY <2>3, <3>1
      <4>2. \A i \in 1..(k - 1) : answers'[i] = answers[i]
        BY <2>3, <4>1
      <4>3. answers[k].event \in Nat
            /\ (answers[k].event # 0 => Journaled(answers[k].event, Probes[k], k - 1))
        BY <3>1 DEF JournalInv
      <4> QED
        BY <2>1, <4>1, <4>2, <4>3 DEF Journaled
    <3>2. CASE k = Len(answers) + 1
      <4>1. answers'[k] = inbox /\ k - 1 = Len(answers) /\ Step = k
        BY <2>3, <3>2 DEF Step
      <4>2. inbox.event \in Nat
            /\ (inbox.event # 0 => Journaled(inbox.event, Probes[k], k - 1))
        BY <2>2, <4>1 DEF JournalInv
      <4>3. \A i \in 1..(k - 1) : answers'[i] = answers[i]
        BY <2>3, <4>1
      <4> QED
        BY <2>1, <4>1, <4>2, <4>3 DEF Journaled
    <3> QED
      BY <2>3, <3>1, <3>2
  <2> QED
    BY <2>1, <2>4, <1>a DEF JournalInv
<1>3. CASE ServerSteps
  <2>1. /\ [Next]_vars /\ UNCHANGED answers /\ Step' = Step
    <3>1. UNCHANGED answers
      BY <1>3 DEF ServerSteps, AcceptClient, ServeClient, AnswerClient, DropClient, CrashClient,
         OtherSteps, OtherStops, Arrives, client
    <3> QED
      BY <3>1, ClientStepIsServerStep, ServerStepIsBrokerStep DEF Step
  <2>2. \A k \in 1..Len(answers) : answers'[k].event # 0 =>
            Journaled(answers[k].event, Probes[k], k - 1)'
    <3> SUFFICES ASSUME NEW k \in 1..Len(answers), answers'[k].event # 0
                 PROVE  Journaled(answers[k].event, Probes[k], k - 1)'
      OBVIOUS
    <3>1. Journaled(answers[k].event, Probes[k], k - 1)
      BY <2>1 DEF JournalInv
    <3>2. /\ answers[k].event \in 1..Len(acked')
          /\ acked'[answers[k].event].body.env.op = Probes[k]
          /\ \A i \in 1..(k - 1) : answers'[i].event < answers[k].event
      BY <2>1, <3>1, JournaledStays
    <3> QED
      BY <2>1, <3>2 DEF Journaled
  <2>3. \/ inbox' = inbox \/ inbox' = EndOfStream
        \/ /\ inbox' = Received(resp) /\ link = "served" /\ pc = "respond"
    BY <1>3 DEF ServerSteps, AcceptClient, ServeClient, AnswerClient, DropClient, CrashClient,
       OtherSteps, OtherStops, Arrives, client, WriteAnswer, WriteAnswerAndStop, Respond
  <2>4. /\ inbox'.event \in Nat
        /\ inbox'.event # 0 /\ inbox'.status # "rejected" =>
               Journaled(inbox.event, Probes[Step], Len(answers))'
    <3>1. CASE inbox' = inbox
      <4>1. inbox.event # 0 /\ inbox.status # "rejected" =>
                Journaled(inbox.event, Probes[Step], Len(answers))
        BY DEF JournalInv
      <4>2. inbox.event # 0 /\ inbox.status # "rejected" =>
                /\ inbox.event \in 1..Len(acked')
                /\ acked'[inbox.event].body.env.op = Probes[Step]
                /\ \A i \in 1..Len(answers) : answers'[i].event < inbox.event
        BY <2>1, <4>1, JournaledStays
      <4>3. inbox.event \in Nat
        BY DEF JournalInv
      <4> QED
        BY <2>1, <3>1, <4>2, <4>3 DEF Journaled
    <3>2. CASE inbox' = EndOfStream
      BY <3>2, <1>a
    <3>3. CASE inbox' = Received(resp) /\ link = "served" /\ pc = "respond"
      <4>1. inbox'.event = resp.event /\ inbox'.status = resp.status
        BY <3>3 DEF Received
      <4>2. resp.event \in Nat
        BY DEF TypeOK, RespType
      <4>3. resp.event # 0 /\ resp.status # "rejected" =>
                Journaled(resp.event, Probes[Step], Len(answers))
        BY <3>3 DEF UnreadInv, JournalInv
      <4>4. resp.event # 0 /\ resp.status # "rejected" =>
                /\ resp.event \in 1..Len(acked')
                /\ acked'[resp.event].body.env.op = Probes[Step]
                /\ \A i \in 1..Len(answers) : answers'[i].event < resp.event
        BY <2>1, <4>3, JournaledStays
      <4> QED
        BY <2>1, <4>1, <4>2, <4>4 DEF Journaled
    <3> QED
      BY <2>3, <3>1, <3>2, <3>3
  <2>5. /\ link' = "served" /\ cur' # NoRequest => cur'.op = Probes[Step]
        /\ link' = "served" /\ pc' = "respond" /\ resp'.event # 0 /\ cur' # NoRequest =>
               Journaled(resp.event, Probes[Step], Len(answers))'
    <3>1. CASE AcceptClient
      <4>1. conn = "accept" /\ UNCHANGED <<pc, cur>>
        BY <3>1 DEF AcceptClient, Accept, vars, process
      <4> QED
        BY <4>1 DEF ConnInv, OnlyAuthenticPeers, Busy
    <3>2. CASE ServeClient
      <4>0. link = "served"
        BY <3>2 DEF ServeClient
      <4>1. CASE AuthLine(ep)
        <5>1. conn = "auth" /\ UNCHANGED <<pc, cur>>
          BY <4>1 DEF AuthLine, vars, process
        <5> QED
          BY <5>1 DEF ConnInv, OnlyAuthenticPeers, Busy
      <4>2. CASE AuthLineRejected(ep)
        <5>1. conn = "auth" /\ pc' = "audit" /\ UNCHANGED cur
          BY <4>2 DEF AuthLineRejected, Reject, RejectIpc
        <5> QED
          BY <5>1 DEF ConnInv, OnlyAuthenticPeers, Busy
      <4>3. CASE RequestLine(Probe(Step, ep))
        <5>1. cur' = Probe(Step, ep) /\ pc' \in {"audit", "nonce"}
          BY <4>3 DEF RequestLine, ReceiveRejected, ReceiveAdmitted
        <5> QED
          BY <5>1 DEF Probe, ProbeAt
      <4>4. CASE Handle
        <5>1. UNCHANGED cur
          BY <4>4 DEF Handle, RecordNonce, NonceAppend, NonceCompact, NonceCompactFails,
             NonceInMemory, NonceFailed, Dispatch, AppendAudit, AuditAppend, AuditAnchor,
             AuditAnchorFails, AuditFailed, AuditInMemory
        <5>2. AuditAnchor \/ pc' # "respond" \/ resp'.event = 0
          BY <4>4 DEF Handle, RecordNonce, NonceAppend, NonceCompact, NonceCompactFails,
             NonceInMemory, NonceFailed, Dispatch, AppendAudit, AuditAppend, AuditAnchorFails,
             AuditFailed, AuditInMemory, Unaudited
        <5>3. CASE AuditAnchor
          <6>1. Journaled(resp.event, cur.op, Len(answers))'
            BY <2>1, <5>3, AnchorJournals
          <6>2. cur # NoRequest => cur.op = Probes[Step]
            BY <4>0 DEF JournalInv
          <6> QED
            BY <2>1, <5>1, <6>1, <6>2 DEF Journaled
        <5> QED
          BY <4>0, <5>1, <5>2, <5>3 DEF JournalInv
      <4> QED
        BY <3>2, <4>1, <4>2, <4>3, <4>4 DEF ServeClient
    <3>3. link' # "served" \/ AcceptClient \/ ServeClient
      BY <1>3 DEF ServerSteps, AnswerClient, DropClient, CrashClient, OtherSteps, OtherStops,
         Arrives, client
    <3> QED
      BY <3>1, <3>2, <3>3
  <2>6. \A k \in 1..Len(answers) : answers'[k].event \in Nat
    BY <2>1 DEF JournalInv
  <2> QED
    BY <2>1, <2>2, <2>4, <2>5, <2>6 DEF JournalInv
<1> QED
  BY <1>1, <1>2, <1>3 DEF ClientNext, ClientStep

\* With the file store of the product, each event that a snapshot lists is in the
\* journal, for the probe it answers and in the order of the probes, also when the broker
\* has died or was restarted since.
THEOREM SnapshotsAreJournaled ==
    ASSUME Durable
    PROVE  ClientSpec => []SnapshotIsJournaled
<1>1. ClientInit => JournalInv
  <2> SUFFICES ASSUME ClientInit PROVE JournalInv
    OBVIOUS
  <2>1. /\ cur = NoRequest /\ inbox = Nothing /\ answers = <<>>
    BY DEF ClientInit, ServerInit, Init
  <2> QED
    BY <2>1 DEF JournalInv, Nothing
<1>2. TypeOK /\ AuditInv /\ BoundsInv /\ ConnInv /\ UnreadInv /\ JournalInv /\ [ClientNext]_cvars
      => JournalInv'
  BY JournalInvStep
<1>3. JournalInv => SnapshotIsJournaled
  BY DEF JournalInv, Journaled, SnapshotIsJournaled
<1> QED
  BY <1>1, <1>2, <1>3, BoundsHold, ClientIsServer, SessionsHold, TypeCorrect, AuditInvariant, PTL
  DEF ClientSpec

=============================================================================
