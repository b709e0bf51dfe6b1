----------------------------- MODULE Authority ------------------------------
(* The decision whether an action may be done: PolicyEvaluator.evaluate of *)
(* the Python shell core, and the evaluation of the Rust broker, which is  *)
(* to replace it (native/rust_helper/src/broker/authority.rs), in the mode *)
(* that takes the state from its caller and in the one of the product.     *)
(*                                                                         *)
(* A state holds tables of records by their id.  An action is a record     *)
(* whose absent keys are None.  The hash of a payload is ideal.  An error  *)
(* is its code with the record and the field it is about: the code's list  *)
(* of errors, without its order.                                           *)
EXTENDS Normalization

CONSTANTS
    None,       \* an absent key, JSON's null
    Divergent   \* payloads that the two programs serialise differently

NON_AUTHORITY_SOURCES ==
    {"adapter_metadata", "cache", "diagnostics", "external_metadata", "generated_config",
     "generated_output", "gui_state", "history", "local_ui_state", "memory", "metadata",
     "model_output", "previous_state", "tool_output", "tool_response", "ui_state"}

ALLOWED_PERMISSION_DECISIONS == {"allow", "approved"}

canonical_hash(payload) == <<"sha256", payload>>

\* canonical_hash of the broker.  Python's json.dumps escapes what is not ASCII and writes
\* the exponent of a large number with a sign; canonical_json does neither.
broker_canonical_hash(payload) ==
    IF payload \in Divergent THEN <<"sha256", "broker", payload>> ELSE canonical_hash(payload)

\* The payload, or another key that only says that there is one.
HasPayload(a) == a.payload # None \/ a.other_payload

Error(code, record, field) == <<code, record, field>>

Fail(failed, code, record, field) ==
    IF failed THEN {Error(code, record, field)} ELSE {}

\* The fields of the action that a record does not repeat.
Mismatches(a, rec, record, fields) ==
    {Error("relation_mismatch", record, f) : f \in {g \in fields : rec[g] # a[g]}}

Scope == {"runtime_id", "operation", "target_scope"}

-----------------------------------------------------------------------------
(* The steps of evaluate that both programs share.                         *)

RuntimeErrors(st, a) ==
    Fail(a.runtime_id \notin st.runtimes, "unknown_runtime", "runtime", "runtime_id")

CapabilityErrors(st, a) ==
    IF a.capability_id \notin DOMAIN st.capabilities
    THEN {Error("unknown_capability", "capability", "capability_id")}
    ELSE LET c == st.capabilities[a.capability_id] IN
         Fail(a.runtime_id # None /\ c.runtime_id # a.runtime_id,
              "relation_mismatch", "capability", "runtime_id")
         \union
         Fail(a.operation \notin c.operations, "relation_mismatch", "capability", "operation")

\* mutant: an action that names the policy as its source needs no decision
PermissionErrorsBySource(st, a) ==
    IF a.permission_id \notin DOMAIN st.permissions
    THEN {Error("unknown_permission", "permission", "permission_id")}
    ELSE Fail(st.permissions[a.permission_id].decision \notin ALLOWED_PERMISSION_DECISIONS
              /\ a.authority_source # "policy", "permission_denied", "permission", "decision")

PermissionErrors(st, a) ==
    IF a.permission_id \notin DOMAIN st.permissions
    THEN {Error("unknown_permission", "permission", "permission_id")}
    ELSE LET p == st.permissions[a.permission_id] IN
         Fail(p.decision \notin ALLOWED_PERMISSION_DECISIONS,
              "permission_denied", "permission", "decision")
         \union
         Fail(a.capability_id # None /\ p.capability_id # a.capability_id,
              "permission_denied", "permission", "capability_id")
         \union
         Mismatches(a, p, "permission", Scope)

\* The hash is that of the action's payload, as the evaluating program computes it.
ApprovalErrors(st, a, hash) ==
    IF a.approval_id \notin DOMAIN st.approvals
    THEN {Error("approval_missing", "approval", "approval_id")}
    ELSE LET p == st.approvals[a.approval_id] IN
         IF p.status # "approved" THEN {Error("approval_not_valid", "approval", "status")}
         ELSE Mismatches(a, p, "approval", Scope)
              \union
              Fail(HasPayload(a) /\ p.payload_hash # hash,
                   "payload_hash_mismatch", "approval", "payload_hash")

\* mutant: a recovery action of another operation will do
RecoveryErrorsById(st, a) ==
    Fail(a.recovery_action \notin DOMAIN st.recovery_actions,
         "recovery_mapping_missing", "recovery", "recovery_id")

RecoveryErrors(st, a) ==
    IF a.recovery_action = None \/ a.recovery_action \notin DOMAIN st.recovery_actions
    THEN {Error("recovery_mapping_missing", "recovery", "recovery_id")}
    ELSE Mismatches(a, st.recovery_actions[a.recovery_action], "recovery",
                    {"runtime_id", "operation"})

SourceErrors(a) ==
    {Error("non_authority_source_attempt", "source", s) :
        s \in {t \in NON_AUTHORITY_SOURCES : a.authority_source = t \/ t \in a.claims}}

-----------------------------------------------------------------------------
(* The Python evaluation.                                                  *)

\* What the action says of its audit event must be complete, and the stored event agree
\* with it and with the payload.
AuditErrors(st, a) ==
    IF a.audit_event = None THEN {Error("audit_mapping_missing", "audit", "audit_event")}
    ELSE LET ev   == a.audit_event
             hash == IF HasPayload(a) THEN canonical_hash(a.payload) ELSE ev.payload_hash
         IN Fail(ev.event_id = None, "audit_mapping_missing", "audit", "event_id")
            \union
            Fail(HasPayload(a) /\ ev.payload_hash = None,
                 "audit_mapping_missing", "audit", "payload_hash")
            \union
            IF ev.event_id \notin DOMAIN st.audit_events
            THEN {Error("audit_mapping_missing", "audit", "stored")}
            ELSE LET stored == st.audit_events[ev.event_id] IN
                 Fail(ev.payload_hash # hash \/ stored.payload_hash # hash,
                      "payload_hash_mismatch", "audit", "payload_hash")
                 \union
                 Fail(stored.action \notin {None, a.operation},
                      "relation_mismatch", "audit", "action")

MetadataErrors(a) ==
    Fail(metadata_claims_authority(a.adapter_metadata),
         "adapter_metadata_escalation_attempt", "metadata", "adapter_metadata")

Errors(st, a) ==
    RuntimeErrors(st, a) \union CapabilityErrors(st, a) \union PermissionErrors(st, a)
    \union ApprovalErrors(st, a, canonical_hash(a.payload)) \union AuditErrors(st, a)
    \union RecoveryErrors(st, a)
    \union MetadataErrors(a) \union SourceErrors(a)

\* The envelope binds the payload, or null, to the records that allowed it.  With no
\* error before it, the code's validation of the envelope finds nothing either.
build_action_envelope(a) ==
    [runtime_id |-> a.runtime_id, operation |-> a.operation,
     capability_id |-> a.capability_id, permission_id |-> a.permission_id,
     approval_id |-> a.approval_id, recovery_id |-> a.recovery_action,
     target_scope |-> a.target_scope, payload_hash |-> canonical_hash(a.payload)]

evaluate(st, a) ==
    LET errors == Errors(st, a) IN
    [allowed |-> errors = {}, errors |-> errors,
     required_recovery |-> IF errors = {} THEN None ELSE a.recovery_action,
     action_envelope |-> IF errors = {} THEN build_action_envelope(a) ELSE None]

-----------------------------------------------------------------------------
(* The Rust evaluation.                                                    *)

\* As AuditErrors, but the hashes are compared with the payload only, and without one
\* not at all.
BrokerAuditErrors(st, a) ==
    IF a.audit_event = None THEN {Error("audit_mapping_missing", "audit", "audit_event")}
    ELSE LET ev     == a.audit_event
             known  == ev.event_id \in DOMAIN st.audit_events
             stored == st.audit_events[ev.event_id]
             hash   == broker_canonical_hash(a.payload)
         IN Fail(ev.event_id = None, "audit_mapping_missing", "audit", "event_id")
            \union
            Fail(HasPayload(a) /\ ev.payload_hash = None,
                 "audit_mapping_missing", "audit", "payload_hash")
            \union
            Fail(~known, "audit_mapping_missing", "audit", "stored")
            \union
            Fail(/\ HasPayload(a)
                 /\ ev.payload_hash # hash \/ ~known \/ stored.payload_hash # hash,
                 "payload_hash_mismatch", "audit", "payload_hash")
            \union
            Fail(known /\ stored.action \notin {None, a.operation},
                 "relation_mismatch", "audit", "action")

BrokerMetadataErrors(a) ==
    Fail(metadata_attempts_authority_value(a.adapter_metadata),
         "adapter_metadata_escalation_attempt", "metadata", "adapter_metadata")

\* evaluate_authority_from_state without the parts that only one mode has.
BrokerRecordErrors(st, a) ==
    RuntimeErrors(st, a) \union CapabilityErrors(st, a) \union PermissionErrors(st, a)
    \union ApprovalErrors(st, a, broker_canonical_hash(a.payload))
    \union RecoveryErrors(st, a) \union BrokerMetadataErrors(a)

\* authority_fixture_evaluate: the caller's state, for the comparison with Python.
FixtureErrors(st, a) ==
    BrokerRecordErrors(st, a) \union BrokerAuditErrors(st, a) \union SourceErrors(a)

\* BrokerAuthorityRegistry::production_default: one permission, which denies, and no
\* approval.
production_default ==
    LET broker == "gui_shell_rust_broker" dispatch == "command_envelope.dispatch" IN
    [runtimes |-> {broker},
     capabilities |-> [id \in {dispatch} |-> [runtime_id |-> broker, operations |-> {dispatch}]],
     permissions |-> [id \in {"permission.broker.command_envelope"} |->
         [runtime_id |-> broker, capability_id |-> dispatch, operation |-> dispatch,
          target_scope |-> "broker_command", decision |-> "deny"]],
     approvals |-> [id \in {} |-> None],
     recovery_actions |-> [id \in {"recover-command-dispatch"} |->
         [runtime_id |-> broker, operation |-> None]]]

\* authority_evaluate: the broker's own registry, and nothing that the caller could
\* bring along to be believed.
CallerErrors(a, withState) ==
    Fail(withState, "caller_state_rejected", "caller", "state")
    \union
    Fail(a.audit_event # None, "caller_audit_mapping_rejected", "caller", "audit_event")
    \union
    Fail(a.authority_source # None \/ a.claims # {},
         "caller_authority_source_rejected", "caller", "authority_source")

ProductionErrors(registry, a, withState) ==
    CallerErrors(a, withState) \union BrokerRecordErrors(registry, a)

=============================================================================
