----------------------------- MODULE ShellCore ------------------------------
(* packages/shell_core: the tables of RuntimeState, the ApprovalQueue      *)
(* beside them, and the router of sensitive actions, driven by any calls   *)
(* of their users; with the adapters that bring metadata and approvals     *)
(* along.  Every call copies what it takes and returns, so a record        *)
(* changes only by a call; a call that raises changes nothing.             *)
EXTENDS Authority, FiniteSets

CONSTANTS
    InitialState,   \* the tables at the start
    Capabilities, Permissions, Recoveries, AuditEvents,  \* what may be registered
    ApprovalSources,  \* what an adapter may say of an approval
    Adapters,       \* the adapters that may be registered
    Payloads,       \* payloads: functions from their fields
    InboundPayloads,  \* what may be normalised
    Actions,        \* what may be routed
    MaxRouted       \* a bound on the routed actions

VARIABLES
    state,    \* RuntimeState: a table for each kind of record
    queue,    \* ApprovalQueue._approvals
    inbound,  \* the last result of normalize_inbound_payload
    routed,   \* history: the actions that were routed
    granted   \* history: the payload hashes that an approved approval carried

vars == <<state, queue, inbound, routed, granted>>

Tables == {"runtimes", "adapters", "capabilities", "permissions", "approvals",
           "audit_events", "recovery_actions"}

ActionKeys == {"operation", "runtime_id", "capability_id", "permission_id", "approval_id",
               "target_scope", "payload", "other_payload", "audit_event", "recovery_action",
               "adapter_metadata", "authority_source", "claims"}

\* The shell core starts without adapters.
ASSUME StateAssumption == DOMAIN InitialState = Tables /\ DOMAIN InitialState.adapters = {}

ASSUME ActionAssumption == \A a \in Actions : DOMAIN a = ActionKeys

\* No record has null for its id, which is what the schemas say.
ASSUME IdAssumption ==
    /\ None \notin InitialState.runtimes /\ None \notin DOMAIN InitialState.capabilities
    /\ \A r \in Capabilities : r.capability_id # None
    /\ None \notin NON_AUTHORITY_SOURCES

\* The leaves of an adapter's metadata have a path.
ASSUME MetadataAssumption ==
    \A r \in Adapters : \A i \in 1..Len(r.metadata) : Len(r.metadata[i].path) \in Nat

\* What is normalised is a dict: a key is in it once.
ASSUME InboundAssumption ==
    \A p \in InboundPayloads :
        /\ Len(p) \in Nat
        /\ \A i \in 1..Len(p) : Len(p[i].path) \in Nat
        /\ \A i, j \in 1..Len(p) : i # j => \E d \in 1..Len(p[i].path) : Part(p, i, j, d)

Put(table, id, record) ==
    [i \in DOMAIN table \union {id} |-> IF i = id THEN record ELSE table[i]]

Statuses == {"pending", "approved", "rejected", "expired", "requires_validation"}

ApprovalKeys == {"approval_id", "runtime_id", "operation", "target_scope", "status",
                 "content_visibility", "payload_hash", "full_payload", "redacted_payload",
                 "editable_fields", "sealed_fields"}

\* The hash of an approval is that of a payload, or what an adapter said it is.
Hashes == {canonical_hash(p) : p \in Payloads} \union {s.payload_hash : s \in ApprovalSources}

\* ApprovalRecord.
IsApproval(r) ==
    /\ DOMAIN r = ApprovalKeys /\ r.status \in Statuses
    /\ r.payload_hash \in Hashes /\ r.full_payload \in Payloads

\* The records of the tables lie under their ids, and setting a field gives a payload.
ASSUME RecordsAssumption ==
    /\ \A id \in DOMAIN InitialState.approvals :
           /\ InitialState.approvals[id].approval_id = id
           /\ IsApproval(InitialState.approvals[id])
    /\ \A id \in DOMAIN InitialState.permissions : InitialState.permissions[id].permission_id = id
    /\ \A id \in DOMAIN InitialState.audit_events : InitialState.audit_events[id].event_id = id
    /\ \A s \in ApprovalSources : s.status \in Statuses /\ s.full_payload \in Payloads
    /\ \A p, q \in Payloads : \A field \in DOMAIN q : Put(p, field, q[field]) \in Payloads

Init ==
    /\ state = InitialState
    /\ queue = [id \in {} |-> None]
    /\ inbound = None
    /\ routed = {}
    /\ granted = {p.payload_hash : p \in {q \in {InitialState.approvals[id] :
                      id \in DOMAIN InitialState.approvals} : q.status = "approved"}}

-----------------------------------------------------------------------------
(* RuntimeState.  Its validation of records is that the sets of records    *)
(* hold valid ones.                                                        *)

register_capability(r) ==
    /\ state' = [state EXCEPT !.capabilities = Put(@, r.capability_id, r)]
    /\ UNCHANGED <<queue, inbound, routed, granted>>

record_permission(r) ==
    /\ state' = [state EXCEPT !.permissions = Put(@, r.permission_id, r)]
    /\ UNCHANGED <<queue, inbound, routed, granted>>

register_recovery_action(r) ==
    /\ state' = [state EXCEPT !.recovery_actions = Put(@, r.recovery_id, r)]
    /\ UNCHANGED <<queue, inbound, routed, granted>>

\* mutant: a second event with an id takes the place of the first
append_audit_event_again(r) ==
    /\ state' = [state EXCEPT !.audit_events = Put(@, r.event_id, r)]
    /\ UNCHANGED <<queue, inbound, routed, granted>>

\* The only table that refuses an id it has.
append_audit_event(r) ==
    /\ r.event_id \notin DOMAIN state.audit_events
    /\ state' = [state EXCEPT !.audit_events = Put(@, r.event_id, r)]
    /\ UNCHANGED <<queue, inbound, routed, granted>>

enqueue_approval(r) ==
    /\ state' = [state EXCEPT !.approvals = Put(@, r.approval_id, r)]
    /\ granted' = IF r.status = "approved" THEN granted \union {r.payload_hash} ELSE granted
    /\ UNCHANGED <<queue, inbound, routed>>

\* AdapterRecord: what its metadata claims by a key is stripped, and what is left must
\* not claim anything by a value.
register_adapter(r) ==
    /\ authority_values_in(r.metadata) = {}
    /\ state' = [state EXCEPT !.adapters =
                     Put(@, r.adapter_id, strip_authority_keys(r.metadata))]
    /\ UNCHANGED <<queue, inbound, routed, granted>>

-----------------------------------------------------------------------------
(* ApprovalQueue and the adapter's approvals.                              *)

PROTECTED_EDIT_FIELDS ==
    {"runtime_id", "permission_id", "audit_id", "audit_event_id", "payload_hash"}

\* sealed_fields stands for all four lists of an approval.
protected_fields(r) == r.sealed_fields \union PROTECTED_EDIT_FIELDS

can_edit(r, field) == field \in r.editable_fields \ protected_fields(r)

queue_enqueue(r) ==
    /\ queue' = Put(queue, r.approval_id, r)
    /\ UNCHANGED <<state, inbound, routed, granted>>

\* mutant: the hash is taken before the field is set
edited_hashed_first(r, field, value) ==
    [r EXCEPT !.payload_hash = canonical_hash(r.full_payload), !.status = "requires_validation",
              !.full_payload = Put(@, field, value)]

\* The payload and its hash change together, and the approval must be validated again;
\* the redacted payload stays as it is.
edited(r, field, value) ==
    LET payload == Put(r.full_payload, field, value) IN
    [r EXCEPT !.full_payload = payload, !.payload_hash = canonical_hash(payload),
              !.status = "requires_validation"]

edit(id, field, value) ==
    /\ can_edit(queue[id], field)
    /\ queue' = [queue EXCEPT ![id] = edited(@, field, value)]
    /\ UNCHANGED <<state, inbound, routed, granted>>

\* mutant: the record of an approval keeps the mark that the adapter gave it
normalize_approval_marked(s) ==
    [approval_id |-> s.approval_id, status |-> IF s.adapter_approved THEN "pending" ELSE s.approved_by,
     payload_hash |-> s.payload_hash, full_payload |-> s.full_payload,
     editable_fields |-> s.editable_fields, sealed_fields |-> s.sealed_fields]

\* The adapter's record of an approval: an approval that the adapter gave itself is
\* pending, and the hash is the one that came with it.
normalize_approval(s) ==
    [approval_id |-> s.approval_id, runtime_id |-> "blue_tanuki",
     operation |-> s.operation, target_scope |-> s.target_scope,
     status |-> IF s.adapter_approved \/ (s.status = "approved" /\ s.approved_by = "adapter")
                THEN "pending" ELSE s.status,
     content_visibility |-> s.content_visibility, payload_hash |-> s.payload_hash,
     full_payload |-> s.full_payload, redacted_payload |-> s.redacted_payload,
     editable_fields |-> s.editable_fields, sealed_fields |-> s.sealed_fields]

\* What a user interface may show of an approval.
project_approval_content(r) ==
    CASE r.content_visibility = "none"      -> [shown |-> "nothing"]
      [] r.content_visibility = "hash_only" -> [shown |-> "hash", payload_hash |-> r.payload_hash]
      [] r.content_visibility = "summary"   -> [shown |-> "summary"]
      [] r.content_visibility = "redacted"  -> [shown |-> "redacted", payload |-> r.redacted_payload]
      [] r.content_visibility = "full"      -> [shown |-> "full", payload |-> r.full_payload]
      [] OTHER                              -> [shown |-> "error"]

-----------------------------------------------------------------------------
(* SensitiveActionRouter and the normalisation of inbound data.            *)

\* The keys that route asks for before it evaluates anything.
Complete(a) ==
    \A f \in {"runtime_id", "operation", "capability_id", "permission_id", "approval_id",
              "target_scope", "audit_event", "recovery_action"} : a[f] # None

\* An action that is allowed is routed with its envelope.
route(a) ==
    /\ Complete(a)
    /\ LET result == evaluate(state, a) IN
       routed' = IF result.allowed
                 THEN routed \union {[action |-> a, envelope |-> result.action_envelope]}
                 ELSE routed
    /\ UNCHANGED <<state, queue, inbound, granted>>

Receive(p) ==
    /\ inbound' = normalize_inbound_payload(p)
    /\ UNCHANGED <<state, queue, routed, granted>>

-----------------------------------------------------------------------------
\* The user decides on what is in the queue and hands it to the state.
Decide == \E id \in DOMAIN queue, s \in Statuses \ {"pending", "expired"} :
              enqueue_approval([queue[id] EXCEPT !.status = s])

\* The queue gets a copy of the state's approval to be edited, or an adapter's.
Review == \E id \in DOMAIN state.approvals :
              queue_enqueue([state.approvals[id] EXCEPT !.status = "pending"])

Propose == \E s \in ApprovalSources : queue_enqueue(normalize_approval(s))

Edit == \E id \in DOMAIN queue, p \in Payloads :
            \E field \in DOMAIN p : edit(id, field, p[field])

Register ==
    \/ \E r \in Capabilities : register_capability(r)
    \/ \E r \in Permissions : record_permission(r)
    \/ \E r \in Recoveries : register_recovery_action(r)

AppendAudit == \E r \in AuditEvents : append_audit_event(r)

RegisterAdapter == \E r \in Adapters : register_adapter(r)

Route == /\ Cardinality(routed) < MaxRouted
         /\ \E a \in Actions : route(a)

\* A bound: data is normalised, or an adapter registered, as the only thing that happens,
\* since no other operation reads what they leave.
Next ==
    \/ vars = <<InitialState, [id \in {} |-> None], None, {}, granted>>
       /\ ((\E p \in InboundPayloads : Receive(p)) \/ RegisterAdapter)
    \/ inbound = None /\ state.adapters = InitialState.adapters
       /\ (Register \/ AppendAudit \/ Review \/ Propose \/ Edit \/ Decide \/ Route)

Spec == Init /\ [][Next]_vars

-----------------------------------------------------------------------------
(* Properties.                                                             *)

\* The types of the tables: every record lies under its own id, and whatever was edited,
\* an approval has one of the payloads and the hash of one, or an adapter's.
ShellTypeOK ==
    /\ DOMAIN state = Tables
    /\ \A id \in DOMAIN state.approvals : /\ state.approvals[id].approval_id = id
                                          /\ IsApproval(state.approvals[id])
    /\ \A id \in DOMAIN queue : queue[id].approval_id = id /\ IsApproval(queue[id])
    /\ \A id \in DOMAIN state.permissions : state.permissions[id].permission_id = id
    /\ \A id \in DOMAIN state.audit_events : state.audit_events[id].event_id = id
    /\ granted \subseteq Hashes

\* What an adapter left in the state claims no authority, by no spelling of a key and
\* by no value: register_adapter strips the keys first and then refuses the values.
AdaptersClaimNothing ==
    \A id \in DOMAIN state.adapters : \A leaf \in state.adapters[id] :
        /\ \A i \in 1..Len(leaf[1]) :
               leaf[1][i] \notin AUTHORITY_KEYS \union AUTHORITY_KEY_ALIASES
        /\ ~ClaimsByValue(leaf[2])

\* Data that is not quarantined has lost nothing by its normalisation: no two keys of a
\* dict became one, and nothing was stripped.
NothingLostUnseen ==
    inbound # None /\ ~inbound.quarantined =>
        /\ Cardinality(inbound.stripped_payload) = Len(inbound.raw_payload)
        /\ Cardinality(inbound.normalized_payload) = Len(inbound.raw_payload)

\* An action that was routed with a payload was routed with one that an approved
\* approval carried as it stood then, after every edit: what is edited in the queue, or
\* proposed by an adapter, is not routed before it was decided on.  And its audit event
\* is in the audit table for good, with that payload.
RoutedWasGranted ==
    \A r \in routed :
        LET id == r.action.audit_event.event_id IN
        /\ id \in DOMAIN state.audit_events
        /\ state.audit_events[id].payload_hash = r.action.audit_event.payload_hash
        /\ HasPayload(r.action) =>
               /\ r.envelope.payload_hash \in granted
               /\ state.audit_events[id].payload_hash = r.envelope.payload_hash

\* The approvals that did not come out of an edit.
Origins == {InitialState.approvals[id] : id \in DOMAIN InitialState.approvals}
           \union {normalize_approval(s) : s \in ApprovalSources}

\* What edits may have made of an approval o.  Its record says as before what it is
\* about; its payload has other values only where the approval may be edited; and its
\* hash is that of the payload it now has, or nothing of the two was touched.
EditedFrom(r, o) ==
    LET fixed(p) == DOMAIN p \ (o.editable_fields \ protected_fields(o)) IN
    /\ \A k \in ApprovalKeys \ {"status", "full_payload", "payload_hash"} : r[k] = o[k]
    /\ fixed(r.full_payload) = fixed(o.full_payload)
    /\ \A field \in fixed(o.full_payload) : r.full_payload[field] = o.full_payload[field]
    /\ \/ r.payload_hash = canonical_hash(r.full_payload)
       \/ r.full_payload = o.full_payload /\ r.payload_hash = o.payload_hash

\* However often an approval goes from the queue into the state and back, is decided on
\* and edited again: what ApprovalQueue.edit was not allowed to change is as it was
\* brought, and no payload goes under the hash of another than the one it came with.
EditsKeepTheRest ==
    /\ \A id \in DOMAIN queue : \E o \in Origins : EditedFrom(queue[id], o)
    /\ \A id \in DOMAIN state.approvals : \E o \in Origins : EditedFrom(state.approvals[id], o)

\* The documents' account of a sensitive action: a capability, a permission, an approval,
\* an audit event and a recovery action that are all there and all about this action.
Grounded(st, a) ==
    /\ a.runtime_id \in st.runtimes
    /\ a.capability_id \in DOMAIN st.capabilities
    /\ a.permission_id \in DOMAIN st.permissions
    /\ a.approval_id \in DOMAIN st.approvals
    /\ a.audit_event # None /\ a.audit_event.event_id \in DOMAIN st.audit_events
    /\ a.recovery_action \in DOMAIN st.recovery_actions
    /\ LET cap  == st.capabilities[a.capability_id]
           per  == st.permissions[a.permission_id]
           app  == st.approvals[a.approval_id]
           aud  == st.audit_events[a.audit_event.event_id]
           rec  == st.recovery_actions[a.recovery_action]
       IN /\ {cap.runtime_id, per.runtime_id, app.runtime_id, rec.runtime_id} = {a.runtime_id}
          /\ {per.operation, app.operation, rec.operation} = {a.operation}
          /\ {per.target_scope, app.target_scope} = {a.target_scope}
          /\ a.operation \in cap.operations /\ per.capability_id = a.capability_id
          /\ per.decision \in {"allow", "approved"} /\ app.status = "approved"
          /\ aud.payload_hash = a.audit_event.payload_hash
          /\ HasPayload(a) => app.payload_hash = canonical_hash(a.payload)
                              /\ aud.payload_hash = canonical_hash(a.payload)

\* Nothing is allowed without all its grounds.
AllowedIsGrounded ==
    \A a \in Actions : evaluate(state, a).allowed => Grounded(state, a)

\* The action without what it claims for itself.
Plain(a) == [a EXCEPT !.authority_source = None, !.claims = {}, !.adapter_metadata = <<>>]

\* What an action says of its own authority, by its metadata, its source or a claim,
\* never makes it allowed.
ClaimsNeverHelp ==
    \A a \in Actions : evaluate(state, a).allowed => evaluate(state, Plain(a)).allowed

\* The broker and Python decide alike but for these differences of the two programs.
\* Over a payload that they serialise differently they may differ in any way.  What only
\* Python allows has, in its metadata, a value with a word of authority in it, or a key
\* that claims authority once its punctuation is gone.  What only the broker allows has
\* a key with a sharp s, or no payload and an audit event whose hash the broker does not
\* compare with the stored one.
DifferencesAreKnown ==
    \A a \in Actions :
        LET python == evaluate(state, a).allowed
            broker == FixtureErrors(state, a) = {}
            leaves == a.adapter_metadata
        IN python # broker =>
               \/ a.payload \in Divergent
               \/ /\ python
                  /\ \/ \E k \in KeysOf(leaves) : Punctuated(k) /\ BrokerClaimsByKey(k)
                     \/ \E i \in 1..Len(leaves) : BrokerClaimsByValue(leaves[i].value)
               \/ /\ broker
                  /\ \/ \E k \in KeysOf(leaves) : Sharpened(k) /\ ClaimsByKey(k)
                     \/ /\ ~HasPayload(a)
                        /\ state.audit_events[a.audit_event.event_id].payload_hash
                               # a.audit_event.payload_hash

\* What the roadmap says is there: the broker and Python decide alike.
OracleParity ==
    \A a \in Actions : FixtureErrors(state, a) = {} <=> evaluate(state, a).allowed

=============================================================================
