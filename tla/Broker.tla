------------------------------- MODULE Broker -------------------------------
(***************************************************************************)
(* The Rust security broker: Broker::handle and the state it keeps         *)
(* (broker/protocol.rs) over the file store it writes to (broker/store.rs).*)
(*                                                                         *)
(* The broker is one thread that serves one request at a time.  Between    *)
(* any two of its writes the process may die, the clock may advance, and   *)
(* each write may fail, having written nothing, a part of the line, or the *)
(* line.  A step is therefore one write to one file, with every computation*)
(* up to the next write.                                                   *)
(*                                                                         *)
(* Not modelled: the wording of reasons and messages, the bodies of the    *)
(* answers, and a power cut that undoes a rename whose directory was not   *)
(* synced.                                                                 *)
(***************************************************************************)
EXTENDS AuditChain, JsonLines, ReplayStore

CONSTANTS
    Envelopes,   \* the requests that clients may send, any number of times
    Mode,        \* BrokerPersistenceMode
    Window,      \* REQUEST_FRESHNESS_WINDOW_SECONDS
    IpcCodes,    \* the codes with which the server rejects an unread request
    MaxTime,     \* bound: the clock stops here
    MaxBoots,    \* bound: process starts
    MaxEvents    \* bound: events in the audit log

Modes == {"in_memory_skeleton", "persistent_required_unavailable",
          "durable_file_store"}

Operations == {"health", "shutdown", "command_envelope", "authority_evaluate",
               "authority_fixture_evaluate", "approval_edit",
               "content_projection", "audit_verify", "normalize_payload"}

\* What may be wrong with a request besides its session, its age and its nonce.
Flaws == {"none", "malformed", "payload_hash_invalid", "payload_hash_mismatch",
          "issued_at_malformed", "authority_metadata", "caller_state"}

\* BrokerRequestEnvelope.  A session id is the number of the process start that
\* drew it, 0 standing for a missing or unknown one.
EnvelopeType == [nonce : Nonces, issued : Nat, op : Operations,
                 session : Nat, flaw : Flaws]

ASSUME EnvelopesAssumption == Envelopes \subseteq EnvelopeType
ASSUME ModeAssumption == Mode \in Modes
ASSUME IpcCodesAssumption ==
    IpcCodes \subseteq {"broker_ipc_malformed", "broker_request_oversized",
                        "broker_authentication_failed"}
ASSUME WindowAssumption == Window \in Nat /\ 2 * Window <= Retention
ASSUME BoundsAssumption == MaxTime \in Nat /\ MaxBoots \in Nat /\ MaxEvents \in Nat

Durable == Mode = "durable_file_store"

VARIABLES
    now,         \* the system clock, in seconds
    boot,        \* number of the current process start, which is its session id
    pc,          \* where the process is
    cur,         \* the request being handled
    recAt,       \* recorded_at of the nonce being recorded
    fin,         \* what is to be audited and answered: status, decision, reason
    resp,        \* the answer, while it is being delivered
    mem,         \* audit_log, in memory
    seen,        \* seen_nonces, in memory
    shutdown,    \* shutdown_requested
    key,         \* audit_anchor.key
    log,         \* audit.jsonl: its readable lines
    logTail,     \* audit.jsonl: how its last line ends
    anchor,      \* audit_anchor.json
    replay,      \* replay_nonces.jsonl: its readable lines
    replayTail,  \* replay_nonces.jsonl: how its last line ends
    acked,       \* history: the audit log as last acknowledged in an answer
    served,      \* history: how often each request reached its operation, up to 2,
                 \* in the life of the store or, without one, of the process
    evicted      \* history: the nonces dropped because the store was full

process == <<pc, cur, recAt, fin, resp, mem, seen, shutdown>>
auditFiles == <<key, log, logTail, anchor>>
replayFile == <<replay, replayTail>>
history == <<acked, served, evicted>>
vars == <<now, boot, process, auditFiles, replayFile, history>>

-----------------------------------------------------------------------------
(* Values that stand for "nothing in progress".                            *)

\* Also the request that reject_ipc audits: the server has not read an envelope.
NoRequest == [nonce |-> 0, issued |-> 0, op |-> "unknown", session |-> 0,
              flaw |-> "unread"]
NoFin == [status |-> "none", decision |-> "none", reason |-> "none"]
NoResp == [status |-> "none", event |-> 0, code |-> "none", shutdown |-> FALSE]

-----------------------------------------------------------------------------
(* What a start accepts of the audit files.                                *)

\* A mutant: the log is read without rebuilding the chain.
LoadsParsed(events, tail) == Readable(tail)

\* load_audit_log succeeds.
AuditLoads(events, tail) == Readable(tail) /\ Verified(events)

\* Mutants: the anchor is not verified; or it may be behind the log.
AnchorIgnored(events) == TRUE
AnchorBehind(events) == anchor.count <= Len(events)

\* verify_audit_anchor
AnchorMatches(events) == anchor = BuildAnchor(events)

-----------------------------------------------------------------------------
(* Starting: BrokerPersistentStore::open_or_create and Broker::new*.       *)

Init ==
    /\ now = 0 /\ boot = 0 /\ pc = "down"
    /\ cur = NoRequest /\ recAt = NoTime /\ fin = NoFin /\ resp = NoResp
    /\ mem = <<>> /\ seen = NoRecords /\ shutdown = FALSE
    /\ key = "absent" /\ log = <<>> /\ logTail = "clean"
    /\ anchor = BuildAnchor(<<>>)
    /\ replay = NoRecords /\ replayTail = "clean"
    /\ acked = <<>> /\ served = [e \in Envelopes |-> 0] /\ evicted = {}

\* Broker::new and new_requiring_persistence: nothing is read.
StartInMemory ==
    /\ pc = "down" /\ ~Durable /\ boot < MaxBoots
    /\ boot' = boot + 1
    /\ pc' = "idle"
    /\ served' = [e \in Envelopes |-> 0]
    /\ UNCHANGED <<now, cur, recAt, fin, resp, mem, seen, shutdown,
                   auditFiles, replayFile, acked, evicted>>

\* A mutant: a key that cannot be read is made anew.
OpenKeyAnew ==
    /\ pc = "down" /\ Durable /\ boot < MaxBoots
    /\ boot' = boot + 1
    /\ key' = "whole"
    /\ pc' = "load"
    /\ UNCHANGED <<now, cur, recAt, fin, resp, mem, seen, shutdown,
                   log, logTail, anchor, replayFile, history>>

\* load_or_create_anchor_key finds a key, or writes one.
OpenKey ==
    /\ pc = "down" /\ Durable /\ boot < MaxBoots
    /\ key # "malformed"
    /\ boot' = boot + 1
    /\ key' = "whole"
    /\ pc' = "load"
    /\ UNCHANGED <<now, cur, recAt, fin, resp, mem, seen, shutdown,
                   log, logTail, anchor, replayFile, history>>

\* The key file is written in place: an error or a crash leaves no file, a part
\* of it (which may or may not decode), or all of it.
OpenKeyFails ==
    /\ pc = "down" /\ Durable /\ boot < MaxBoots
    /\ key = "absent"
    /\ boot' = boot + 1
    /\ key' \in {"absent", "malformed", "whole"}
    /\ UNCHANGED <<now, process, log, logTail, anchor, replayFile, history>>

\* load_audit_log, verify_audit_anchor and load_replay_nonces all succeed.
OpenLoad ==
    /\ pc = "load"
    /\ AuditLoads(log, logTail)
    /\ AnchorMatches(log)
    /\ Readable(replayTail)
    /\ mem' = log
    /\ seen' = LoadReplay(replay, now)
    /\ evicted' = evicted \union EvictedNonces(replay, now)
    /\ pc' = "compact"
    /\ UNCHANGED <<now, boot, cur, recAt, fin, resp, shutdown,
                   auditFiles, replayFile, acked, served>>

\* compact_replay_nonces replaces the file atomically.
OpenCompact ==
    /\ pc = "compact"
    /\ replay' = seen
    /\ replayTail' = "clean"
    /\ pc' = "session"
    /\ UNCHANGED <<now, boot, cur, recAt, fin, resp, mem, seen, shutdown,
                   auditFiles, history>>

\* load_existing_session_if_present and write_session: the session file is only
\* ever replaced atomically by a valid record, so it always passes its check.
OpenSession ==
    /\ pc = "session"
    /\ pc' = "idle"
    /\ UNCHANGED <<now, boot, cur, recAt, fin, resp, mem, seen, shutdown,
                   auditFiles, replayFile, history>>

\* The process ends and its memory is gone.
Down ==
    /\ pc' = "down"
    /\ cur' = NoRequest /\ recAt' = NoTime /\ fin' = NoFin /\ resp' = NoResp
    /\ mem' = <<>> /\ seen' = NoRecords /\ shutdown' = FALSE

\* An early return of open_or_create because of what the files hold.
OpenRefused ==
    /\ pc = "load"
    /\ \/ ~AuditLoads(log, logTail)
       \/ ~AnchorMatches(log)
       \/ ~Readable(replayTail)
    /\ Down
    /\ UNCHANGED <<now, boot, auditFiles, replayFile, history>>

\* A crash at any point; an I/O error while opening ends the process alike.
Crash ==
    /\ pc # "down"
    /\ Down
    /\ UNCHANGED <<now, boot, auditFiles, replayFile, history>>

-----------------------------------------------------------------------------
(* Broker::handle up to its first write.                                   *)

\* The server draws the id of its session anew at every start; the loop over
\* standard input, the only user of a broker without a store, has a fixed one.
SessionId == IF Durable THEN boot ELSE 1

\* issued_at_is_fresh
Fresh(e) == e.issued - now <= Window /\ now - e.issued <= Window

\* A mutant: neither the session nor the mode of the store is checked.
FirstFailureAnySession(e) ==
    IF e.flaw = "malformed" THEN "broker_request_malformed"
    ELSE IF e.flaw = "payload_hash_invalid" THEN "broker_payload_hash_invalid"
    ELSE IF e.flaw = "payload_hash_mismatch" THEN "broker_payload_hash_mismatch"
    ELSE IF e.flaw = "issued_at_malformed" \/ ~Fresh(e) THEN "broker_issued_at_invalid"
    ELSE IF seen[e.nonce] # NoTime THEN "broker_replay_detected"
    ELSE "none"

\* The checks of handle in the order of its early returns.
FirstFailure(e) ==
    IF e.flaw = "malformed" THEN "broker_request_malformed"
    ELSE IF e.flaw = "payload_hash_invalid" THEN "broker_payload_hash_invalid"
    ELSE IF e.flaw = "payload_hash_mismatch" THEN "broker_payload_hash_mismatch"
    ELSE IF e.flaw = "issued_at_malformed" \/ ~Fresh(e) THEN "broker_issued_at_invalid"
    ELSE IF Mode = "persistent_required_unavailable" THEN "broker_persistence_unavailable"
    ELSE IF e.op # "health" /\ e.session # SessionId THEN "broker_stale_session"
    ELSE IF seen[e.nonce] # NoTime THEN "broker_replay_detected"
    ELSE "none"

\* reject_with_payload_hash: what it audits and answers.
Rejected(code) == [status |-> "rejected", decision |-> "rejected", reason |-> code]

\* suspend_health
SuspendedHealth == [status |-> "suspended", decision |-> "suspended",
                    reason |-> "broker_persistence_unavailable"]

\* A request can only name a session that was drawn; the bounds are those of the model.
Deliverable(e) ==
    /\ pc = "idle"
    /\ e.session <= boot
    /\ Len(log) < MaxEvents /\ Len(mem) < MaxEvents

\* handle returns before the nonce is recorded.
ReceiveRejected(e) ==
    /\ Deliverable(e)
    /\ FirstFailure(e) # "none"
    /\ cur' = e
    /\ fin' = IF FirstFailure(e) = "broker_persistence_unavailable" /\ e.op = "health"
              THEN SuspendedHealth
              ELSE Rejected(FirstFailure(e))
    /\ pc' = "audit"
    /\ UNCHANGED <<now, boot, recAt, resp, mem, seen, shutdown,
                   auditFiles, replayFile, history>>

\* reject_ipc: the server has no envelope to hand to handle.
RejectIpc(code) ==
    /\ pc = "idle"
    /\ Len(log) < MaxEvents /\ Len(mem) < MaxEvents
    /\ fin' = Rejected(code)
    /\ pc' = "audit"
    /\ UNCHANGED <<now, boot, cur, recAt, resp, mem, seen, shutdown,
                   auditFiles, replayFile, history>>

\* All checks pass; the nonce is to be recorded.
ReceiveAdmitted(e) ==
    /\ Deliverable(e)
    /\ FirstFailure(e) = "none"
    /\ cur' = e
    /\ pc' = "nonce"
    /\ UNCHANGED <<now, boot, recAt, fin, resp, mem, seen, shutdown,
                   auditFiles, replayFile, history>>

-----------------------------------------------------------------------------
(* record_nonce, and the operation it leads to.                            *)

\* audit_store_failed_response
Unaudited(code) == [status |-> "suspended", event |-> 0, code |-> code,
                    shutdown |-> shutdown]

\* A nonce that could not be recorded: a request that carries authority metadata
\* is answered at once, any other is rejected with an audit event.
NonceFailed ==
    /\ IF cur.flaw = "authority_metadata"
       THEN resp' = Unaudited("broker_persistence_unavailable") /\ pc' = "respond"
            /\ UNCHANGED fin
       ELSE fin' = Rejected("broker_persistence_unavailable") /\ pc' = "audit"
            /\ UNCHANGED resp
    /\ UNCHANGED <<now, boot, cur, mem, seen, shutdown, auditFiles, history>>

\* What the operation of a request decides: the match of handle.
Decision(e) ==
    IF e.flaw = "authority_metadata" THEN Rejected("broker_authority_metadata_rejected")
    ELSE IF e.op = "command_envelope"
    THEN [status |-> "suspended", decision |-> "suspended",
          reason |-> "broker_command_dispatch_disabled"]
    ELSE IF e.op = "authority_evaluate"
    THEN IF e.flaw = "caller_state" THEN Rejected("broker_authority_state_rejected")
         ELSE [status |-> "accepted", decision |-> "denied", reason |-> "none"]
    ELSE [status |-> "accepted", decision |-> "accepted", reason |-> "none"]

\* The request reaches its operation, or the rejection of its metadata.
\* accept_shutdown raises its flag before anything is audited.
Dispatch ==
    /\ fin' = Decision(cur)
    /\ shutdown' = (shutdown \/ (cur.op = "shutdown" /\ cur.flaw # "authority_metadata"))
    /\ served' = [served EXCEPT ![cur] = IF @ = 0 THEN 1 ELSE 2]
    /\ pc' = "audit"

\* A line whose nonce is blank parses, but is refused like one that does not.
ReplayTailAfter(nonce, outcome) ==
    IF nonce \in Blank /\ outcome # "nothing" THEN "torn" ELSE TailAfter(replayTail, outcome)

\* append_replay_nonce appends its line; the clock is read anew for it.
NonceAppend(outcome) ==
    /\ pc = "nonce" /\ Durable
    /\ recAt' = now
    /\ replay' = IF LineWritten(replayTail, outcome)
                 THEN Insert(replay, cur.nonce, now) ELSE replay
    /\ replayTail' = ReplayTailAfter(cur.nonce, outcome)
    /\ IF outcome = "ok"
       THEN /\ pc' = "nonce_compact"
            /\ UNCHANGED <<now, boot, cur, fin, resp, mem, seen, shutdown,
                           auditFiles, history>>
       ELSE NonceFailed

\* It reads the file back, as of recorded_at, and replaces it by what it read.
NonceCompact ==
    /\ pc = "nonce_compact"
    /\ Readable(replayTail)
    /\ seen' = LoadReplay(replay, recAt)
    /\ evicted' = evicted \union EvictedNonces(replay, recAt)
    /\ replay' = seen'
    /\ replayTail' = "clean"
    /\ Dispatch
    /\ UNCHANGED <<now, boot, cur, recAt, resp, mem, auditFiles, acked>>

\* The file does not parse, or reading or replacing it fails.
NonceCompactFails ==
    /\ pc = "nonce_compact"
    /\ NonceFailed
    /\ UNCHANGED <<recAt, replayFile>>

\* A mutant: only the last nonce is kept.
NonceInMemoryLast ==
    /\ pc = "nonce" /\ ~Durable
    /\ recAt' = now
    /\ seen' = Insert(NoRecords, cur.nonce, now)
    /\ Dispatch
    /\ UNCHANGED <<now, boot, cur, resp, mem, auditFiles, replayFile, acked, evicted>>

\* Without a store the nonce is kept in memory, and never dropped.
NonceInMemory ==
    /\ pc = "nonce" /\ ~Durable
    /\ recAt' = now
    /\ seen' = Insert(seen, cur.nonce, now)
    /\ Dispatch
    /\ UNCHANGED <<now, boot, cur, resp, mem, auditFiles, replayFile, acked, evicted>>

-----------------------------------------------------------------------------
(* append_audit and the answer.                                            *)

\* The event that the request being handled leaves.
CurrentEvent ==
    BuildNext(mem, [env |-> cur, decision |-> fin.decision, reason |-> fin.reason])

\* accept_health and suspend_health never announce a shutdown; the others do.
Announces == shutdown /\ ~(cur.op = "health" /\ fin.status # "rejected")

\* The answer with the event's id.
Answer == [status |-> fin.status, event |-> Len(mem) + 1, code |-> fin.reason,
           shutdown |-> Announces]

AuditFailed ==
    /\ resp' = Unaudited("broker_audit_append_failed")
    /\ pc' = "respond"
    /\ UNCHANGED <<now, boot, cur, recAt, fin, mem, seen, shutdown,
                   key, anchor, replayFile, history>>

\* append_audit_event appends its line.
AuditAppend(outcome) ==
    /\ pc = "audit" /\ Durable
    /\ log' = IF LineWritten(logTail, outcome) THEN Append(log, CurrentEvent) ELSE log
    /\ logTail' = TailAfter(logTail, outcome)
    /\ IF outcome = "ok"
       THEN /\ pc' = "anchor"
            /\ UNCHANGED <<now, boot, cur, recAt, fin, resp, mem, seen, shutdown,
                           key, anchor, replayFile, history>>
       ELSE AuditFailed

\* The log reads back, the anchor is replaced, the event is pushed in memory.
AuditAnchor ==
    /\ pc = "anchor"
    /\ AuditLoads(log, logTail)
    /\ anchor' = BuildAnchor(log)
    /\ mem' = Append(mem, CurrentEvent)
    /\ acked' = mem'
    /\ resp' = Answer
    /\ pc' = "respond"
    /\ UNCHANGED <<now, boot, cur, recAt, fin, seen, shutdown, key, log, logTail,
                   replayFile, served, evicted>>

\* A mutant: the failure to read the log back or to anchor it is swallowed.
AuditAnchorSwallowed ==
    /\ pc = "anchor"
    /\ mem' = Append(mem, CurrentEvent)
    /\ resp' = Answer
    /\ pc' = "respond"
    /\ UNCHANGED <<now, boot, cur, recAt, fin, seen, shutdown, auditFiles,
                   replayFile, history>>

\* The log does not read back, or the anchor cannot be written.
AuditAnchorFails ==
    /\ pc = "anchor"
    /\ AuditFailed
    /\ UNCHANGED <<log, logTail>>

AuditInMemory ==
    /\ pc = "audit" /\ ~Durable
    /\ mem' = Append(mem, CurrentEvent)
    /\ resp' = Answer
    /\ pc' = "respond"
    /\ UNCHANGED <<now, boot, cur, recAt, fin, seen, shutdown, auditFiles,
                   replayFile, history>>

\* The answer leaves handle.
Respond ==
    /\ pc = "respond"
    /\ pc' = "idle"
    /\ cur' = NoRequest /\ recAt' = NoTime /\ fin' = NoFin /\ resp' = NoResp
    /\ UNCHANGED <<now, boot, mem, seen, shutdown, auditFiles, replayFile, history>>

-----------------------------------------------------------------------------
(* The environment.                                                        *)

Tick ==
    /\ now < MaxTime
    /\ now' = now + 1
    /\ UNCHANGED <<boot, process, auditFiles, replayFile, history>>

\* The audit file loses its last line while no broker runs: what the anchor is for.
TailLoss ==
    /\ pc = "down" /\ logTail = "clean" /\ log # <<>>
    /\ log' = SubSeq(log, 1, Len(log) - 1)
    /\ UNCHANGED <<now, boot, process, key, logTail, anchor, replayFile, history>>

Open == StartInMemory \/ OpenKey \/ OpenKeyFails \/ OpenLoad \/ OpenCompact
        \/ OpenSession \/ OpenRefused

Receive == (\E e \in Envelopes : ReceiveRejected(e) \/ ReceiveAdmitted(e))
           \/ (\E code \in IpcCodes : RejectIpc(code))

RecordNonce == (\E o \in AppendOutcomes : NonceAppend(o))
               \/ NonceCompact \/ NonceCompactFails \/ NonceInMemory

AppendAudit == (\E o \in AppendOutcomes : AuditAppend(o))
               \/ AuditAnchor \/ AuditAnchorFails \/ AuditInMemory

Next == Open \/ Receive \/ RecordNonce \/ AppendAudit \/ Respond
        \/ Crash \/ Tick \/ TailLoss

Spec == Init /\ [][Next]_vars

-----------------------------------------------------------------------------
(* Properties.                                                             *)

Pcs == {"down", "load", "compact", "session", "idle", "nonce", "nonce_compact",
        "audit", "anchor", "respond"}

Times == Nat \union {NoTime}
Statuses == {"none", "accepted", "rejected", "suspended"}
Decisions == {"none", "accepted", "rejected", "suspended", "denied"}
Reasons == {"none", "broker_request_malformed", "broker_payload_hash_invalid",
            "broker_payload_hash_mismatch", "broker_issued_at_invalid",
            "broker_persistence_unavailable", "broker_stale_session",
            "broker_replay_detected", "broker_authority_metadata_rejected",
            "broker_authority_state_rejected", "broker_command_dispatch_disabled",
            "broker_audit_append_failed"} \union IpcCodes
FinType == [status : Statuses, decision : Decisions, reason : Reasons]
RespType == [status : Statuses, event : Nat, code : Reasons, shutdown : BOOLEAN]
Requests == Envelopes \union {NoRequest}
Bodies == [env : Requests, decision : Decisions, reason : Reasons]
Events == [id : Nat, prev : Seq(Bodies), body : Bodies]

\* The types of the state: in particular a nonce always has a time or NoTime,
\* in memory and on disk, whatever loading and compaction dropped.
TypeOK ==
    /\ now \in Nat /\ boot \in Nat /\ pc \in Pcs
    /\ cur \in Requests /\ recAt \in Times
    /\ fin \in FinType
    /\ resp \in RespType
    /\ mem \in Seq(Events) /\ seen \in [Nonces -> Times] /\ shutdown \in BOOLEAN
    /\ key \in {"absent", "malformed", "whole"}
    /\ log \in Seq(Events) /\ logTail \in Tails
    /\ anchor \in [count : Nat, head : Seq(Bodies)]
    /\ replay \in [Nonces -> Times] /\ replayTail \in Tails
    /\ acked \in Seq(Events) /\ served \in [Envelopes -> 0..2]
    /\ evicted \in SUBSET Nonces

\* The process has its state loaded and may answer requests.
Serving == pc \in {"idle", "nonce", "nonce_compact", "audit", "anchor", "respond"}

\* A request reaches its operation at most once in the life of the store, whatever
\* crashes, restarts, failed writes, expiry and compaction of nonces happen in
\* between, unless its nonce was evicted from a full store.  Without a store it
\* does so at most once in the life of the process.
NoReplay ==
    \A e \in Envelopes : e.nonce \notin evicted => served[e] <= 1

\* Only a shutdown request of the running process raises its shutdown flag: one
\* that was sent to an earlier process, or is replayed after a restart, does not.
ShutdownOfThisSession ==
    shutdown => \E e \in Envelopes :
        e.op = "shutdown" /\ e.session = SessionId /\ served[e] # 0

\* A broker that requires a store and has none reaches no operation and accepts
\* nothing, whatever it is sent.
UnavailableServesNothing ==
    (Mode = "persistent_required_unavailable") =>
        /\ \A e \in Envelopes : served[e] = 0
        /\ resp.status # "accepted"

\* The code of an answer without an audit event: the event could not be appended, or the
\* nonce of a request that carries authority metadata could not be recorded.
UnauditedCode(e) ==
    {"broker_audit_append_failed"}
    \union IF e.flaw = "authority_metadata" THEN {"broker_persistence_unavailable"} ELSE {}

\* An answer that names an audit event is given only when that event is the last
\* of the log in memory and on disk and the anchor on disk covers it; and any other
\* answer is suspended and says that the store failed, so that nothing that took effect
\* is answered as if it had been audited, whichever of the writes failed.
AuditedAnswerIsDurable ==
    (Durable /\ pc = "respond") =>
        IF resp.event # 0
        THEN /\ log = mem /\ logTail = "clean"
             /\ resp.event = Len(mem)
             /\ mem[resp.event].body.env = cur
             /\ anchor = BuildAnchor(mem)
        ELSE resp.status = "suspended" /\ resp.code \in UnauditedCode(cur)

\* No acknowledged audit event is ever missing from the log a broker runs on,
\* even when the file lost lines while no broker was running.
AckedSurvives == (Durable /\ Serving) => mem = acked

\* The log is not what was last acknowledged: a line was written and the answer
\* failed or the process died before the anchor, or a line is torn or lost.
Stuck ==
    \/ logTail = "torn"
    \/ ~Verified(log)
    \/ pc # "anchor" /\ log # acked

\* Once the log and its anchor disagree the store fails closed for good: no later
\* step of a broker acknowledges an event, only the loss of the extra line can
\* make them agree again.
StuckForever ==
    [][Durable /\ Stuck => (Stuck' /\ acked' = acked) \/ TailLoss]_vars

\* A file that cannot be read closes the store for good.  On a broken key no process
\* comes up, none makes a new one, and nothing is acknowledged or served any more.  On a
\* broken nonce file (a torn line, or the nonce of a request that was blank) the broker
\* that is running serves nothing more, nor does any later one, and none repairs it.
BrokenStoreIsFinal ==
    [][/\ key = "malformed" =>
              key' = "malformed" /\ pc' = "down" /\ UNCHANGED <<acked, served>>
       /\ Durable /\ ~Readable(replayTail) =>
              ~Readable(replayTail') /\ UNCHANGED <<served, evicted>>]_vars

\* The strengthening that makes the audit properties inductive: the anchor is
\* always that of the acknowledged log, which is the log in memory of a process
\* that has loaded it; and between the append and the anchor a log that loads is
\* the one in memory with the current event.
AuditInv ==
    Durable =>
        /\ Verified(acked)
        /\ anchor = BuildAnchor(acked)
        /\ pc \notin {"down", "load"} => mem = acked
        /\ (pc = "anchor" /\ AuditLoads(log, logTail)) =>
               log = Append(mem, CurrentEvent) /\ logTail = "clean"
        /\ (pc = "respond" /\ resp.event # 0) =>
               /\ log = mem /\ logTail = "clean"
               /\ resp.event = Len(mem)
               /\ mem[resp.event].body.env = cur
        /\ (pc = "respond" /\ resp.event = 0) =>
               resp.status = "suspended" /\ resp.code \in UnauditedCode(cur)

\* A record that keeps a request from being admitted for as long as it is fresh.
Recorded(recs, e) == recs[e.nonce] # NoTime /\ e.issued - Window <= recs[e.nonce]

\* The strengthening that makes NoReplay inductive with the file store: a request
\* that was served is stale, or its nonce is recorded on disk, and in the memory of
\* a process that has loaded it, at a time no earlier than the request could be
\* admitted; so the record is not dropped before the request is stale.
DurableReplayInv ==
    Durable =>
        /\ \A n \in Nonces : replay[n] <= now /\ seen[n] <= now
        /\ \A e \in Envelopes : e.nonce \notin evicted =>
               /\ served[e] <= 1
               /\ served[e] = 1 =>
                      \/ now > e.issued + Window
                      \/ /\ Recorded(replay, e)
                         /\ pc \notin {"down", "load"} => Recorded(seen, e)
        /\ pc \in {"nonce", "nonce_compact"} =>
               cur \in Envelopes /\ (cur.nonce \in evicted \/ served[cur] = 0)
        /\ pc = "nonce" => cur.issued - Window <= now
        /\ pc = "nonce_compact" =>
               /\ recAt \in Nat /\ recAt <= now /\ cur.issued - Window <= recAt
               /\ Readable(replayTail) => replay[cur.nonce] = recAt

\* The same without a store: the nonce of a request that the process served is in
\* its memory.
SessionReplayInv ==
    ~Durable =>
        /\ pc \in {"down", "idle", "nonce", "audit", "respond"}
        /\ \A e \in Envelopes :
               /\ served[e] <= 1
               /\ served[e] = 1 => pc = "down" \/ seen[e.nonce] # NoTime
        /\ pc = "nonce" => cur \in Envelopes /\ served[cur] = 0

\* What the protocol document asks of every rejected or suspended answer: it has
\* an audit event unless the attempt to append one failed.  It does not hold: handle
\* answers a request whose nonce it cannot record without that attempt.
UnauditedOnlyWhenAppendFailed ==
    (pc = "respond" /\ resp.event = 0) => resp.code = "broker_audit_append_failed"

\* What the threat model asks of a failed audit append: it blocks the operation.
\* A shutdown that is in force has been audited.
ShutdownIsAudited ==
    (shutdown /\ pc \in {"idle", "respond"}) =>
        \E i \in 1..Len(mem) :
            mem[i].body.env.op = "shutdown" /\ mem[i].body.decision = "accepted"

-----------------------------------------------------------------------------
(* The promise to the clients: module BrokerContract.                      *)

Contract == INSTANCE BrokerContract WITH
    Requests  <- Envelopes,
    Entries   <- Bodies,
    journal   <- HeadHash(acked),
    answer    <- IF pc = "respond" /\ resp.event # 0
                 THEN [event |-> resp.event, request |-> cur] ELSE [event |-> 0],
    forgotten <- evicted

\* With the file store the broker keeps the contract.
ImplementsContract == Contract!Spec

=============================================================================
