--------------------------- MODULE ProductClient ----------------------------
(***************************************************************************)
(* The start of the Flutter product (services/shell_core_client.dart and   *)
(* services/broker_client.dart) against the loopback server.  It reads the *)
(* endpoint file once, sends five probes, each on a connection of its own, *)
(* and shows a snapshot of their answers; any error on the way makes it    *)
(* show that the broker is unavailable.                                    *)
(*                                                                         *)
(* Other peers use the server at the same time: they present a secret, the *)
(* right one or that of an earlier process, send a request, stall or leave;*)
(* what else a peer may send is left to module IpcServer, as are the pieces*)
(* of a line.  The port of a broker that is gone may be that of the next   *)
(* one.  The client's timeouts may expire at any moment, also when the     *)
(* answer is on its way.  The clock does not matter to it: its probes take *)
(* seconds, and the freshness window is minutes.                           *)
(***************************************************************************)
EXTENDS IpcServer

\* ShellCoreClient.product: the operations of its probes, in order.
Probes == <<"health", "normalize_payload", "content_projection", "approval_edit",
            "command_envelope">>

CONSTANT MaxOthers   \* bound: audit events of other peers

ASSUME MaxOthersAssumption == MaxOthers \in Nat

VARIABLES
    ui,          \* what the client does or, at the end, shows
    ep,          \* the session of the endpoint file as it was read, 0 before
    link,        \* the client's connection, as the server sees it
    inbox,       \* what has arrived at the client on its connection
    answers      \* the answers to its probes so far

client == <<ui, ep, link, inbox, answers>>
cvars == <<svars, client>>

\* An answer as the client has it; who gave it is history.
Received(r) == [status |-> r.status, event |-> r.event, by |-> boot]
Nothing == [status |-> "nothing", event |-> 0, by |-> 0]
EndOfStream == [status |-> "end", event |-> 0, by |-> 0]

ClientInit ==
    /\ ServerInit
    /\ ui = "start" /\ ep = 0 /\ link = "none" /\ inbox = Nothing /\ answers = <<>>

\* The number of the probe that is being sent or answered.
Step == Len(answers) + 1

\* request: the envelope of a probe.  Its nonce is fresh and its issued_at current;
\* health names no session.
ProbeAt(k, time, session) ==
    [nonce |-> k, issued |-> time, op |-> Probes[k],
     session |-> IF Probes[k] = "health" THEN 0 ELSE session, flaw |-> "none"]

Probe(k, session) == ProbeAt(k, now, session)

\* The probes are among the requests that clients may send.
ASSUME ProbesAssumption ==
    \A k \in 1..Len(Probes), time \in 0..MaxTime, session \in 1..MaxBoots :
        ProbeAt(k, time, session) \in Envelopes

\* What other clients send: they draw nonces of their own.
Others == {e \in Envelopes : e.nonce > Len(Probes)}

-----------------------------------------------------------------------------
(* BrokerClient.connect and request, up to the answer.                     *)

ReadEndpoint ==
    /\ ui = "start" /\ endpoint # 0
    /\ ep' = endpoint
    /\ ui' = "open"
    /\ UNCHANGED <<svars, link, inbox, answers>>

\* Socket.connect succeeds and the two lines are in the socket.
OpenSocket ==
    /\ ui = "open" /\ conn # "none"
    /\ ui' = "wait"
    /\ link' = "queued"
    /\ UNCHANGED <<svars, ep, inbox, answers>>

\* A mutant: the wait for an answer has no timeout.
FailUnlessWaiting ==
    /\ \/ ui = "start" /\ endpoint = 0
       \/ ui = "open"
       \/ ui = "wait" /\ inbox = EndOfStream
    /\ ui' = "unavailable"
    /\ UNCHANGED <<svars, ep, link, inbox, answers>>

\* No endpoint file; the connection is refused or times out; the answer is empty;
\* or the wait for it times out, whatever the server does with the request.
Fail ==
    /\ \/ ui = "start" /\ endpoint = 0
       \/ ui = "open"
       \/ ui = "wait"
    /\ ui' = "unavailable"
    /\ UNCHANGED <<svars, ep, link, inbox, answers>>

-----------------------------------------------------------------------------
(* ShellCoreClient.product: what it requires of an answer.                 *)

\* _requireAccepted for the first four probes, then the check of the last one.
Satisfies(r, op) ==
    r.status = (IF op = "command_envelope" THEN "suspended" ELSE "accepted")

\* A mutant: the last probe is left out.
NextProbeEarly == IF Step = Len(Probes) - 1 THEN "broker" ELSE "open"

\* A snapshot is shown once the last probe is answered.
NextProbe == IF Step = Len(Probes) THEN "broker" ELSE "open"

\* A mutant: the endpoint file is read anew for every probe.
TakeAnswerReread ==
    /\ ui = "wait" /\ inbox # Nothing
    /\ Satisfies(inbox, Probes[Step])
    /\ answers' = Append(answers, inbox)
    /\ inbox' = Nothing
    /\ ui' = NextProbe
    /\ ep' = endpoint
    /\ UNCHANGED <<svars, link>>

TakeAnswer ==
    /\ ui = "wait" /\ inbox # Nothing
    /\ Satisfies(inbox, Probes[Step])
    /\ answers' = Append(answers, inbox)
    /\ inbox' = Nothing
    /\ ui' = NextProbe
    /\ UNCHANGED <<svars, ep, link>>

TakeRefusal ==
    /\ ui = "wait" /\ inbox # Nothing
    /\ ~Satisfies(inbox, Probes[Step])
    /\ ui' = "unavailable"
    /\ UNCHANGED <<svars, ep, link, inbox, answers>>

-----------------------------------------------------------------------------
(* The server with the client among its peers.                             *)

\* What reaches the client when the server is done with its connection.
Arrives(r) ==
    /\ link' = "none"
    /\ inbox' = IF ui = "wait" THEN r ELSE inbox
    /\ UNCHANGED <<ui, ep, answers>>

AcceptClient ==
    /\ link = "queued" /\ Accept
    /\ link' = "served"
    /\ UNCHANGED <<ui, ep, inbox, answers>>

\* The server reads what the client sent.
ServeClient ==
    /\ link = "served"
    /\ \/ AuthLine(ep) \/ AuthLineRejected(ep)
       \/ RequestLine(Probe(Step, ep))
       \/ Handle
    /\ UNCHANGED client

\* The answer, or the end of the stream when reading or writing failed.
AnswerClient == link = "served" /\ (WriteAnswer \/ WriteAnswerAndStop) /\ Arrives(Received(resp))
DropClient == link = "served" /\ (ReadFails \/ WriteFails) /\ Arrives(EndOfStream)

\* A connection that is open or queued is reset with the process.
CrashClient == link # "none" /\ ServerCrash /\ Arrives(EndOfStream)

\* The server without the client, or with another peer.
OtherSteps ==
    /\ link # "served"
    /\ \/ Opening \/ Publish \/ PublishFails \/ Stall
       \/ Accept /\ Len(log) < Len(answers) + MaxOthers
       \/ ReadFails
       \/ \E secret \in 0..boot : AuthLine(secret) \/ AuthLineRejected(secret)
       \/ \E e \in Others : RequestLine(e)
       \/ Handle \/ WriteAnswer \/ WriteFails
    /\ UNCHANGED client

\* The server stops, or dies, with the client's connection still in its queue.
OtherStops ==
    /\ link # "served"
    /\ WriteAnswerAndStop \/ (link = "none" /\ ServerCrash)
    /\ IF link = "queued" THEN Arrives(EndOfStream) ELSE UNCHANGED client

ClientStep == ReadEndpoint \/ OpenSocket \/ Fail \/ TakeAnswer \/ TakeRefusal

ServerSteps ==
    AcceptClient \/ ServeClient \/ AnswerClient \/ DropClient \/ CrashClient
    \/ OtherSteps \/ OtherStops

\* A bound: the server is not followed any further once the client has given up.
ClientNext == ClientStep \/ (ui # "unavailable" /\ ServerSteps)

\* The client does not stop in the middle: each of its waits has a timeout.
ClientSpec == ClientInit /\ [][ClientNext]_cvars /\ WF_cvars(ClientStep)

-----------------------------------------------------------------------------
(* Properties.                                                             *)

\* The types of the client's state: in particular a snapshot of the broker is shown
\* exactly when every probe has an answer that was accepted.
ClientTypeOK ==
    /\ ui \in {"start", "open", "wait", "broker", "unavailable"}
    /\ ep \in Nat
    /\ link \in {"none", "queued", "served"}
    /\ \A k \in 1..Len(answers) : Satisfies(answers[k], Probes[k])
    /\ ui = "broker" <=> Len(answers) = Len(Probes)

\* Every answer that the client has accepted and that names an audit event was given
\* by one process, the one of the endpoint it read: a broker that was restarted in
\* between, even on the same port, does not contribute to the snapshot.  Without the
\* condition this is false: see SuspensionIsAudited.
SnapshotOfOneSession ==
    \A k \in 1..Len(answers) : answers[k].event # 0 => answers[k].by = ep

\* The event that an accepted answer names is in the journal of the store, for that
\* probe and behind those of the earlier probes, also after the broker is gone.
SnapshotIsJournaled ==
    \A k \in 1..Len(answers) :
        answers[k].event # 0 =>
            /\ answers[k].event <= Len(acked)
            /\ acked[answers[k].event].body.env.op = Probes[k]
            /\ \A i \in 1..(k - 1) : answers[i].event < answers[k].event

\* What the threat model asks of a command before the migration: it is suspended and
\* audited.  The client takes any suspended answer for that, also the one of a broker
\* that could not audit the command, or could not audit that it refused the secret of
\* an earlier session, so this does not hold.
SuspensionIsAudited ==
    ui = "broker" => answers[Len(Probes)].event # 0

\* The start of the product ends, with a snapshot or without the broker.
ClientFinishes == <>(ui \in {"broker", "unavailable"})

=============================================================================
