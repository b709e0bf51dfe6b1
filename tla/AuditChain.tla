----------------------------- MODULE AuditChain -----------------------------
(***************************************************************************)
(* The hash-chained audit log of the Rust broker (broker/audit.rs) and the *)
(* anchor that pins its head (broker/store.rs).                            *)
(*                                                                         *)
(* An event is a record of its index, of the hash of its predecessor and   *)
(* of a body, which stands for the request id, operation, decision,        *)
(* reason, evidence source and payload hash.  SHA-256 is taken to be       *)
(* collision free, so the hash of an event is what it covers: the bodies   *)
(* of the events from the first one up to it, in order.                    *)
(***************************************************************************)
EXTENDS Integers, Sequences

\* The hash of the last event of a log; the empty log has the empty hash.
HeadHash(log) == [i \in 1..Len(log) |-> log[i].body]

\* build_next and build_event: the event that extends the log with a body.
BuildNext(log, body) ==
    [id |-> Len(log) + 1, prev |-> HeadHash(log), body |-> body]

\* push_verified: an event is accepted when rebuilding it gives it back.
Extends(log, event) == event = BuildNext(log, event.body)

\* from_verified_events: every event extends the ones before it.
Verified(events) ==
    \A i \in 1..Len(events) : Extends(SubSeq(events, 1, i - 1), events[i])

\* build_audit_anchor.  A store without an anchor file accepts the empty log
\* and nothing else (verify_audit_anchor), as it would with this anchor of <<>>.
BuildAnchor(log) == [count |-> Len(log), head |-> HeadHash(log)]

=============================================================================
