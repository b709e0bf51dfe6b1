----------------------------- MODULE IpcServer ------------------------------
(***************************************************************************)
(* The loopback server of the broker process (broker/ipc_server.rs), around*)
(* the broker of module Broker.  One thread accepts a connection, reads the*)
(* line with the session secret and the line with the request, hands it to *)
(* the broker, writes the answer and accepts the next connection.          *)
(*                                                                         *)
(* The secret of a session is the number of the process start that drew it,*)
(* as its id is.  The peer of a connection may present any secret, send its*)
(* bytes in any pieces, close the connection, or stall for ever; what it   *)
(* does with an answer is its own business.                                *)
(***************************************************************************)
EXTENDS Broker

CONSTANTS
    AuthMax,     \* AUTH_LINE_MAX_BYTES
    RequestMax   \* max_request_bytes

ASSUME LimitsAssumption == AuthMax \in Nat \ {0} /\ RequestMax \in Nat \ {0}
ASSUME ServedCodesAssumption ==
    {"broker_ipc_malformed", "broker_request_oversized",
     "broker_authentication_failed"} \subseteq IpcCodes

VARIABLES
    conn,        \* what the thread does with its connection, or "none"
    got,         \* bytes of the current line that are in the buffer
    stalled,     \* the peer sends nothing any more
    peer,        \* history: the secret that the peer presented, 0 if none
    endpoint,    \* the session in the endpoint file, 0 if there is no file
    dropped      \* history: a complete line was dropped without an answer

server == <<conn, got, stalled, peer, endpoint, dropped>>
svars == <<vars, server>>

ServerInit ==
    /\ Init
    /\ conn = "none" /\ got = 0 /\ stalled = FALSE /\ peer = 0 /\ endpoint = 0
    /\ dropped = FALSE

-----------------------------------------------------------------------------
(* Starting and stopping.                                                  *)

\* The connection ends and the thread accepts the next one, or is gone.
Closed(next) == conn' = next /\ got' = 0 /\ stalled' = FALSE /\ peer' = 0

\* Broker::new_persistent: no socket and no endpoint file yet.
Opening == Open /\ UNCHANGED server

\* A mutant: the endpoint file is written before the store is opened.
PublishEarly ==
    /\ pc \in {"load", "idle"} /\ conn = "none"
    /\ endpoint' = boot
    /\ conn' = IF pc = "idle" THEN "accept" ELSE "none"
    /\ UNCHANGED <<vars, got, stalled, peer, dropped>>

\* The socket is bound, then write_endpoint_file replaces the file.
Publish ==
    /\ pc = "idle" /\ conn = "none"
    /\ endpoint' = boot
    /\ conn' = "accept"
    /\ UNCHANGED <<vars, got, stalled, peer, dropped>>

\* The socket is not bound or the file not replaced: the process ends.
PublishFails ==
    /\ pc = "idle" /\ conn = "none"
    /\ Crash
    /\ UNCHANGED server

ServerCrash == Crash /\ Closed("none") /\ UNCHANGED <<endpoint, dropped>>

-----------------------------------------------------------------------------
(* handle_stream and read_limited_line.                                    *)

Accept ==
    /\ conn = "accept"
    /\ conn' = "auth"
    /\ UNCHANGED <<vars, got, stalled, peer, endpoint, dropped>>

Reading == conn \in {"auth", "request"}
LineLimit == IF conn = "auth" THEN AuthMax ELSE RequestMax

\* What one read may return, up to the first size that exceeds every limit.
Pieces == 1..(LineLimit + 1)

\* The peer sends nothing more: from here only the read timeout ends the read.
Stall ==
    /\ Reading /\ ~stalled
    /\ stalled' = TRUE
    /\ UNCHANGED <<vars, conn, got, peer, endpoint, dropped>>

\* A mutant: the limit is applied to what one read returns, not to the line.
ReadPieceUnbounded(n) ==
    /\ Reading /\ ~stalled
    /\ n <= LineLimit
    /\ got' = n
    /\ UNCHANGED <<vars, conn, stalled, peer, endpoint, dropped>>

\* A mutant: the limit is compared with what was read before this piece.
ReadPieceLate(n) ==
    /\ Reading /\ ~stalled
    /\ got < LineLimit
    /\ got' = got + n
    /\ UNCHANGED <<vars, conn, stalled, peer, endpoint, dropped>>

\* A part of a line.
ReadPiece(n) ==
    /\ Reading /\ ~stalled
    /\ got + n <= LineLimit
    /\ got' = got + n
    /\ UNCHANGED <<vars, conn, stalled, peer, endpoint, dropped>>

\* The answer to reject_ipc is on its way.
Reject(code) ==
    /\ RejectIpc(code)
    /\ conn' = "busy"
    /\ got' = 0
    /\ UNCHANGED <<stalled, peer, endpoint, dropped>>

\* The line, with its newline or without, exceeds the limit.
ReadOversized(n) ==
    /\ Reading /\ ~stalled
    /\ got + n > LineLimit
    /\ Reject("broker_request_oversized")

\* The peer closed the connection and no byte of the line is there.
ReadNothing ==
    /\ Reading /\ ~stalled
    /\ got = 0
    /\ Reject("broker_ipc_malformed")

\* The line is complete: a newline arrived within the limit, or the peer closed
\* the connection behind at least one byte.
LineComplete == Reading /\ ~stalled /\ (got < LineLimit \/ got > 0)

\* A complete line that is not UTF-8 is an error like the others: no answer.
ReadNotUtf8 ==
    /\ LineComplete
    /\ Closed("accept")
    /\ dropped' = TRUE
    /\ UNCHANGED <<vars, endpoint>>

\* A mutant: reads have no timeout.
ReadFailsUnlessStalled ==
    /\ Reading /\ ~stalled
    /\ Closed("accept")
    /\ UNCHANGED <<vars, endpoint, dropped>>

\* The read timeout, a reset connection, or a socket that cannot be set up.
ReadFails ==
    /\ Reading
    /\ Closed("accept")
    /\ UNCHANGED <<vars, endpoint, dropped>>

\* A mutant: any secret that a broker once drew is accepted.
Remembered(secret) == secret # 0

\* auth_line = session_secret
Authentic(secret) == secret = boot

AuthLine(secret) ==
    /\ conn = "auth" /\ LineComplete
    /\ Authentic(secret)
    /\ conn' = "request"
    /\ got' = 0
    /\ peer' = secret
    /\ UNCHANGED <<vars, stalled, endpoint, dropped>>

AuthLineRejected(secret) ==
    /\ conn = "auth" /\ LineComplete
    /\ ~Authentic(secret)
    /\ Reject("broker_authentication_failed")

\* handle_json is called with the request line.
RequestLine(e) ==
    /\ conn = "request" /\ LineComplete
    /\ ReceiveRejected(e) \/ ReceiveAdmitted(e)
    /\ conn' = "busy"
    /\ got' = 0
    /\ UNCHANGED <<stalled, peer, endpoint, dropped>>

\* The broker works on the request, or on its rejection.
Handle == (RecordNonce \/ AppendAudit) /\ UNCHANGED server

-----------------------------------------------------------------------------
(* write_response, and what the loop of run_loopback_server does next.     *)

\* The value that handle_stream returns: what handle_json's answer announces.
StopRequested == cur # NoRequest /\ resp.shutdown

WriteAnswer ==
    /\ conn = "busy"
    /\ ~StopRequested
    /\ Respond
    /\ Closed("accept")
    /\ UNCHANGED <<endpoint, dropped>>

\* The loop ends and the process with it; the endpoint file stays.
WriteAnswerAndStop ==
    /\ conn = "busy" /\ pc = "respond"
    /\ StopRequested
    /\ Crash
    /\ Closed("none")
    /\ UNCHANGED <<endpoint, dropped>>

\* A mutant: a shutdown whose answer is lost is taken back.
WriteFailsTakesBack ==
    /\ conn = "busy" /\ pc = "respond"
    /\ pc' = "idle" /\ shutdown' = FALSE
    /\ cur' = NoRequest /\ recAt' = NoTime /\ fin' = NoFin /\ resp' = NoResp
    /\ UNCHANGED <<now, boot, mem, seen, auditFiles, replayFile, history>>
    /\ Closed("accept")
    /\ UNCHANGED <<endpoint, dropped>>

\* The peer is gone: the loop goes on, even if a shutdown was requested.
WriteFails ==
    /\ conn = "busy"
    /\ Respond
    /\ Closed("accept")
    /\ UNCHANGED <<endpoint, dropped>>

-----------------------------------------------------------------------------

Read == \/ \E n \in Pieces : ReadPiece(n) \/ ReadOversized(n)
        \/ ReadNothing \/ ReadNotUtf8 \/ ReadFails
        \/ \E secret \in 0..boot : AuthLine(secret) \/ AuthLineRejected(secret)
        \/ \E e \in Envelopes : RequestLine(e)

Write == WriteAnswer \/ WriteAnswerAndStop \/ WriteFails

\* The steps of the thread while it has a connection.
ServerStep == Read \/ Handle \/ Write

ServerNext ==
    \/ Opening \/ Publish \/ PublishFails \/ ServerCrash
    \/ Accept \/ Stall \/ ServerStep
    \/ (Tick \/ TailLoss) /\ UNCHANGED server

\* Every call of the thread returns: reads and writes have a timeout.
ServerSpec == ServerInit /\ [][ServerNext]_svars /\ WF_svars(ServerStep)

-----------------------------------------------------------------------------
(* Properties.                                                             *)

\* The types of the server's state: in particular the buffer never holds more
\* than the limit of the line that is being read.
ServerTypeOK ==
    /\ conn \in {"none", "accept", "auth", "request", "busy"}
    /\ got \in Nat /\ (Reading => got <= LineLimit)
    /\ stalled \in BOOLEAN /\ peer \in Nat /\ endpoint \in Nat
    /\ dropped \in BOOLEAN

\* The broker and its connection agree: it works on a request only for the
\* connection being served, and only if the peer presented the secret of this
\* very process, not that of one that ran before.
OnlyAuthenticPeers ==
    /\ (cur # NoRequest \/ conn = "request") => peer = boot
    /\ pc \in {"nonce", "nonce_compact", "audit", "anchor", "respond"} <=> conn = "busy"

\* The endpoint file names the running process only once its store is open and
\* it accepts connections.
EndpointIsServed == (endpoint = boot /\ pc # "down") => conn # "none"

\* No connection holds the thread for ever: whatever the peer sends or does not
\* send, its line reaches the limit or a read times out.
ConnectionEnds == (conn \in {"auth", "request", "busy"}) ~> (conn \in {"none", "accept"})

\* What the threat model asks of a malformed request: it is rejected and audited.  It
\* does not hold: a complete line that is not UTF-8 is dropped.
MalformedIsAudited == ~dropped

\* The steps of the server are steps of module Broker or leave its state alone.
ImplementsBroker == Spec

=============================================================================
