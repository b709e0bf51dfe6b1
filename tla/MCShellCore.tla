---------------------------- MODULE MCShellCore -----------------------------
(* Instances of ShellCore for TLC: the reference state and the reference   *)
(* action of the release smoke, with what may differ from them.            *)
EXTENDS ShellCore

CONSTANT Unknown  \* an id that no table holds

\* Payloads that differ in the field that may be edited, and in one that is sealed.  The
\* path "tomorrow" stands for one with characters that are not ASCII.
NoteOf(path, content) == [path |-> path, content |-> content]
Note(path) == NoteOf(path, "hello")
MCPayloads == {NoteOf(path, content) : path \in {"today", "tomorrow"}, content \in {"hello", "bye"}}
MCDivergent == {p \in MCPayloads : p.path = "tomorrow"}

Text(k) == [string |-> TRUE, text |-> k]
Number == [string |-> FALSE]
Leaf(path, value) == [path |-> path, value |-> value]

Capability(runtime) ==
    [capability_id |-> "filesystem.write", runtime_id |-> runtime,
     operations |-> {"filesystem.write"}]

Permission(decision) ==
    [permission_id |-> "permission", runtime_id |-> "blue_tanuki",
     capability_id |-> "filesystem.write", operation |-> "filesystem.write",
     target_scope |-> "workspace", decision |-> decision]

Recovery(operation) ==
    [recovery_id |-> "recover-1", runtime_id |-> "blue_tanuki", operation |-> operation]

AuditEvent(id, payload) ==
    [event_id |-> id, action |-> "filesystem.write", payload_hash |-> canonical_hash(payload)]

Approval(status, payload) ==
    [approval_id |-> "approval-1", runtime_id |-> "blue_tanuki",
     operation |-> "filesystem.write", target_scope |-> "workspace", status |-> status,
     content_visibility |-> "redacted", payload_hash |-> canonical_hash(payload),
     full_payload |-> payload, redacted_payload |-> [payload EXCEPT !.content = "[redacted]"],
     editable_fields |-> {"path", "content"}, sealed_fields |-> {"content"}]

\* build_reference_state.
build_reference_state ==
    [runtimes |-> {"blue_tanuki"},
     adapters |-> [id \in {} |-> None],
     capabilities |-> [id \in {"filesystem.write"} |-> Capability("blue_tanuki")],
     permissions |-> [id \in {"permission"} |-> Permission("allow")],
     approvals |-> [id \in {"approval-1"} |-> Approval("approved", Note("today"))],
     audit_events |-> [id \in {"audit-1"} |-> AuditEvent("audit-1", Note("today"))],
     recovery_actions |-> [id \in {"recover-1"} |-> Recovery("filesystem.write")]]

MCCapabilities == {Capability("blue_tanuki"), Capability("other")}
MCPermissions == {Permission("allow"), Permission("deny")}
MCRecoveries == {Recovery("filesystem.write"), Recovery("runtime.read")}
MCAuditEvents == {AuditEvent(id, p) : id \in {"audit-1", "audit-2"}, p \in {Note("today"), Note("tomorrow")}}

\* An adapter that approved by itself, with the adapter's default hash, which is that of no payload.
Source(status, by, payload) ==
    [approval_id |-> "approval-1", operation |-> "filesystem.write",
     target_scope |-> "workspace", status |-> status, adapter_approved |-> FALSE,
     approved_by |-> by, content_visibility |-> "redacted",
     payload_hash |-> canonical_hash(Unknown), full_payload |-> payload,
     redacted_payload |-> payload, editable_fields |-> {"path"},
     sealed_fields |-> {"runtime_id"}]
MCApprovalSources == {Source("approved", "adapter", Note("tomorrow"))}

\* Keys: harmless ones in two spellings, and claims of authority by name and alias.
Safe == Key("safe", "", "label", TRUE, "plain")
SafeSnake == Snake("safe", "label")
MCKeys ==
    {Safe, SafeSnake, Word("role"), Key("trust", "zero-width", "level", FALSE, "plain"),
     Key("trust", "_", "level", FALSE, "wide"), Key("permission", "", "grant", TRUE, "plain"),
     Key("safe", ".", "label", FALSE, "plain"), Key("role", "", "", FALSE, "scored"),
     Key("permission", "", "grant", FALSE, "upper")}
MCValues == {Number, Text(Word("root")), Text(Key("approved", "", "", FALSE, "upper")),
             Text(Word("note"))}

\* Flat dicts of up to two keys, and nested ones.
MCInbound ==
    {<<Leaf(<<k>>, v)>> : k \in MCKeys, v \in MCValues}
    \union {<<Leaf(<<k>>, v), Leaf(<<l>>, w)>> :
               k \in MCKeys, v \in MCValues, l \in MCKeys, w \in {Number, Text(Word("root"))}}
    \union {<<Leaf(<<SafeSnake, k>>, Number), Leaf(<<l, m>>, v)>> :
               k \in MCKeys, l \in {Safe, SafeSnake}, m \in MCKeys, v \in MCValues}

\* A dict has a key once.
WellFormed(p) == \A i, j \in 1..Len(p) : i # j => p[i].path # p[j].path
MCInboundPayloads == {p \in MCInbound : WellFormed(p)}

MCAdapters ==
    {[adapter_id |-> "a", metadata |-> p] : p \in
        {<<Leaf(<<Safe>>, Number), Leaf(<<Word("role")>>, Text(Word("root")))>>,
         <<Leaf(<<Safe>>, Text(Word("root")))>>,
         <<Leaf(<<SafeSnake, Key("permission", "", "grant", FALSE, "upper")>>, Text(Word("note")))>>}}

\* build_sensitive_action.
build_sensitive_action ==
    [operation |-> "filesystem.write", runtime_id |-> "blue_tanuki",
     capability_id |-> "filesystem.write", permission_id |-> "permission",
     approval_id |-> "approval-1", target_scope |-> "workspace",
     payload |-> Note("today"), other_payload |-> FALSE,
     audit_event |-> [event_id |-> "audit-1", payload_hash |-> canonical_hash(Note("today"))],
     recovery_action |-> "recover-1", adapter_metadata |-> <<>>,
     authority_source |-> None, claims |-> {}]

Event(id, hash) == [event_id |-> id, payload_hash |-> hash]
Hash(path) == canonical_hash(Note(path))

MCActions ==
    LET a == build_sensitive_action IN
    {a,
     [a EXCEPT !.audit_event = Event("audit-2", Hash("today"))],
     [a EXCEPT !.payload = Note("tomorrow")],
     [a EXCEPT !.payload = Note("tomorrow"), !.audit_event = Event("audit-2", Hash("tomorrow"))],
     [a EXCEPT !.payload = None],
     [a EXCEPT !.payload = None, !.other_payload = TRUE],
     [a EXCEPT !.payload = None, !.audit_event = Event("audit-1", Hash("tomorrow"))],
     [a EXCEPT !.audit_event = None],
     [a EXCEPT !.recovery_action = None],
     [a EXCEPT !.approval_id = Unknown],
     [a EXCEPT !.runtime_id = "other"],
     [a EXCEPT !.target_scope = "home"],
     [a EXCEPT !.authority_source = "gui_state"],
     [a EXCEPT !.authority_source = "policy"],
     [a EXCEPT !.claims = {"memory"}],
     [a EXCEPT !.adapter_metadata = <<Leaf(<<Word("role")>>, Number)>>],
     [a EXCEPT !.adapter_metadata = <<Leaf(<<Key("role", "", "", FALSE, "dotted")>>, Number)>>],
     [a EXCEPT !.adapter_metadata = <<Leaf(<<Key("approved", ".", "by", FALSE, "plain")>>, Number)>>],
     [a EXCEPT !.adapter_metadata = <<Leaf(<<Key("permission", "", "", FALSE, "sharp")>>, Number)>>],
     [a EXCEPT !.adapter_metadata = <<Leaf(<<Safe>>, Text(Word("root")))>>],
     [a EXCEPT !.adapter_metadata = <<Leaf(<<Safe>>, Text(Snake("read", "role")))>>]}

=============================================================================
