------------------------------ MODULE MCBroker ------------------------------
(* Instances of Broker for TLC.                                            *)
EXTENDS Broker

Envelope(nonce, issued, op, session, flaw) ==
    [nonce |-> nonce, issued |-> issued, op |-> op, session |-> session, flaw |-> flaw]

MCNonces == {1, 2}

\* Two health probes and a session-bound request: what may be replayed later,
\* also to a restarted broker.
ReplayEnvelopes ==
    {Envelope(1, 1, "health", 0, "none"), Envelope(2, 3, "health", 0, "none"),
     Envelope(2, 1, "normalize_payload", 1, "none")}

\* One request for every way through handle.
HandleEnvelopes ==
    {Envelope(1, 1, "health", 0, flaw) : flaw \in Flaws}
    \union {Envelope(1, 1, op, 1, "none") : op \in Operations}
    \union {Envelope(2, 1, "authority_evaluate", 1, "caller_state"),
            Envelope(2, 1, "shutdown", 1, "authority_metadata")}

\* All of them: what may be replayed, through every way of handle.
MemoryEnvelopes == ReplayEnvelopes \union HandleEnvelopes

\* Crashes and failed writes around the audit of two requests, one whose metadata
\* claims authority, and one of the second process with a blank nonce.
BlankNonces == {3}
AuditNonces == MCNonces \union BlankNonces
AuditEnvelopes ==
    {Envelope(1, 0, "health", 0, "authority_metadata"),
     Envelope(2, 0, "shutdown", 1, "none"),
     Envelope(3, 0, "normalize_payload", 2, "authority_metadata")}

=============================================================================
