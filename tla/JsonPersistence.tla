-------------------------- MODULE JsonPersistence ---------------------------
(***************************************************************************)
(* The audit log of the Python shell core (packages/shell_core:            *)
(* persistence.py, audit_chain.py): a file of hash-chained events and an   *)
(* anchor, a keyed hash of their number and of the last hash.              *)
(*                                                                         *)
(* append_audit_event reads the log, appends a line, makes the key of the  *)
(* anchor if there is none, and replaces the anchor.  Any of these may     *)
(* fail or be the last thing the process does.  Nothing is kept in memory  *)
(* from one call to the next, so a restart changes nothing.  Between calls *)
(* the log may be damaged: it loses its last line, or a line is changed.   *)
(*                                                                         *)
(* An event is what the caller passes and the hash of its predecessor; the *)
(* hash of an event stands for what was passed from the first one up to it.*)
(* The state snapshot, a file of its own, is left out.                     *)
(***************************************************************************)
EXTENDS Integers, Sequences, JsonLines

CONSTANTS
    Contents,    \* what callers may append: a dict with an event_id
    MaxDamage    \* bound: how often the log is damaged

ASSUME MaxDamageAssumption == MaxDamage \in Nat

VARIABLES
    pc,          \* where append_audit_event is, "idle" outside of it
    cur,         \* what it was called with
    events,      \* the lines that it has read
    log,         \* audit.jsonl: its readable lines
    tail,        \* audit.jsonl: how it ends
    key,         \* audit_anchor.key
    anchor,      \* audit_anchor.json
    returned,    \* history: the events that append_audit_event has returned
    forgotten,   \* history: those of them that a later append did not find
    damages      \* history: how often the log was damaged

call == <<cur, events>>
files == <<log, tail, key, anchor>>
history == <<returned, forgotten, damages>>
vars == <<pc, call, files, history>>

\* A line is an event, and whether its hash is still the one of its content.
EventsIn(lines) == {lines[i].event : i \in 1..Len(lines)}
IdsIn(lines) == {lines[i].event.content.event_id : i \in 1..Len(lines)}

\* The hash of the event of the last line.
HeadHash(lines) == [i \in 1..Len(lines) |-> lines[i].event.content]

\* chain_event: the event that extends a log.
ChainEvent(lines, content) == [content |-> content, previous |-> HeadHash(lines)]
Chained(lines, content) ==
    Append(lines, [event |-> ChainEvent(lines, content), sound |-> TRUE])

\* verify_audit_chain (audit_chain.py)
ChainOk(lines) ==
    \A i \in 1..Len(lines) :
        LET before == SubSeq(lines, 1, i - 1)
            event == lines[i].event
        IN /\ lines[i].sound
           /\ event = ChainEvent(before, event.content)
           /\ event.content.event_id \notin IdsIn(before)

\* The key file holds a key, a shorter one (none at all counts as one) or something
\* that is not hexadecimal.
Usable(k) == k \in {"whole", "short"}

\* _anchor_record
AnchorRecord(lines, k) == [count |-> Len(lines), head |-> HeadHash(lines), key |-> k]
NoAnchor == [count |-> 0, head |-> <<>>, key |-> "absent"]

\* A mutant: the anchor need only exist.
AnchorPresent == log = <<>> \/ anchor # NoAnchor

\* _verify_audit_anchor
AnchorOk ==
    IF anchor = NoAnchor THEN log = <<>>
    ELSE Usable(key) /\ anchor = AnchorRecord(log, key)

\* JsonPersistence.verify_audit_chain
VerifyOk == Readable(tail) /\ ChainOk(log) /\ AnchorOk

-----------------------------------------------------------------------------
(* append_audit_event.                                                     *)

Init ==
    /\ pc = "idle" /\ cur \in Contents /\ events = <<>>
    /\ log = <<>> /\ tail = "clean" /\ key = "absent" /\ anchor = NoAnchor
    /\ returned = {} /\ forgotten = {} /\ damages = 0

\* A mutant: an id is looked for among the returned events, as a caller would.
AppendUnlessReturned(content) ==
    /\ pc = "idle"
    /\ Readable(tail) /\ ChainOk(log)
    /\ \A e \in returned : e.content.event_id # content.event_id
    /\ pc' = "write" /\ cur' = content /\ events' = log
    /\ UNCHANGED <<files, history>>

\* append_audit_event up to the write; it raises, and nothing changes, when a line
\* does not parse, the chain does not verify or the id is taken.
AppendAuditEvent(content) ==
    /\ pc = "idle"
    /\ Readable(tail) /\ ChainOk(log)
    /\ content.event_id \notin IdsIn(log)
    /\ pc' = "write" /\ cur' = content /\ events' = log
    /\ UNCHANGED <<files, history>>

\* The line is appended; an outcome other than "ok" raises.
WriteLine(outcome) ==
    /\ pc = "write" /\ outcome # "unsynced"
    /\ log' = IF LineWritten(tail, outcome) THEN Chained(events, cur) ELSE log
    /\ tail' = TailAfter(tail, outcome)
    /\ pc' = IF outcome = "ok" THEN "key" ELSE "idle"
    /\ UNCHANGED <<call, key, anchor, history>>

\* _audit_anchor_key: the key is made, in place, or was not finished.
MakeKey ==
    /\ pc = "key" /\ key = "absent"
    /\ \/ key' = "whole" /\ pc' = "anchor"
       \/ key' \in {"short", "bad"} /\ pc' = "idle"
    /\ UNCHANGED <<call, log, tail, anchor, history>>

\* A mutant: a key that is not hexadecimal is used all the same.
ReadAnyKey ==
    /\ pc = "key" /\ key # "absent"
    /\ pc' = "anchor"
    /\ UNCHANGED <<call, files, history>>

\* It is read; a key that is not hexadecimal raises.
ReadKey ==
    /\ pc = "key" /\ key # "absent"
    /\ pc' = IF Usable(key) THEN "anchor" ELSE "idle"
    /\ UNCHANGED <<call, files, history>>

\* _write_audit_anchor: the anchor of the events that were read and of the new one
\* replaces the old one, and the event is returned.
WriteAnchor ==
    /\ pc = "anchor"
    /\ anchor' = AnchorRecord(Chained(events, cur), key)
    /\ returned' = returned \union {ChainEvent(events, cur)}
    /\ forgotten' = forgotten \union (returned \ EventsIn(events))
    /\ pc' = "idle"
    /\ UNCHANGED <<call, log, tail, key, damages>>

\* An exception, or the end of the process, in the middle of append_audit_event.
Abandon ==
    /\ pc # "idle"
    /\ pc' = "idle"
    /\ UNCHANGED <<call, files, history>>

-----------------------------------------------------------------------------
(* Damage between two calls.                                               *)

LoseLastLine ==
    /\ pc = "idle" /\ damages < MaxDamage
    /\ tail = "clean" /\ log # <<>>
    /\ log' = SubSeq(log, 1, Len(log) - 1)
    /\ damages' = damages + 1
    /\ UNCHANGED <<pc, call, tail, key, anchor, returned, forgotten>>

ChangeLine ==
    /\ pc = "idle" /\ damages < MaxDamage
    /\ \E i \in 1..Len(log) : log' = [log EXCEPT ![i].sound = FALSE]
    /\ damages' = damages + 1
    /\ UNCHANGED <<pc, call, tail, key, anchor, returned, forgotten>>

Next ==
    \/ \E content \in Contents : AppendAuditEvent(content)
    \/ \E outcome \in AppendOutcomes : WriteLine(outcome)
    \/ MakeKey \/ ReadKey \/ WriteAnchor \/ Abandon
    \/ LoseLastLine \/ ChangeLine

Spec == Init /\ [][Next]_vars

-----------------------------------------------------------------------------
(* Properties.                                                             *)

Events == [content : Contents, previous : Seq(Contents)]
Lines == Seq([event : Events, sound : BOOLEAN])

\* The types of the call, the files and the history; an anchor is only ever made with
\* a key that can be read back.
JsonTypeOK ==
    /\ pc \in {"idle", "write", "key", "anchor"} /\ cur \in Contents /\ events \in Lines
    /\ log \in Lines /\ tail \in Tails /\ key \in {"absent", "short", "bad", "whole"}
    /\ anchor \in [count : Nat, head : Seq(Contents), key : {"absent", "short", "whole"}]
    /\ pc = "anchor" => Usable(key)
    /\ returned \subseteq Events /\ forgotten \subseteq returned
    /\ damages \in 0..MaxDamage

\* What verify_audit_chain vouches for: the log holds, unchanged, every event that
\* append_audit_event has returned, but for those that were missing already when a
\* later append went through; and without damage none was.
VerifiedIsComplete ==
    /\ VerifyOk => returned \subseteq EventsIn(log) \union forgotten
    /\ damages = 0 => forgotten = {}

\* No event is in the log twice, also when an append that raised behind its write is
\* tried again: the caller cannot tell whether the event is in the log.
EventsAreUnique ==
    \A i, j \in 1..Len(log) :
        log[i].event.content.event_id = log[j].event.content.event_id => i = j

\* What the conformance tests ask of a truncated log: it is not accepted with the
\* anchor of the longer one.  verify_audit_chain does not accept it; append_audit_event
\* does, and gives it an anchor of its own.
TruncatedIsRefused == forgotten = {}

=============================================================================
