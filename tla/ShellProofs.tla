---------------------------- MODULE ShellProofs -----------------------------
(* Proofs about Authority and ShellCore: what an evaluation that allows    *)
(* has found, what claims of authority change, how the two evaluations     *)
(* relate, and what every routed action was granted.                       *)
EXTENDS ShellCore, FiniteSetTheorems, FunctionTheorems, TLAPS

-----------------------------------------------------------------------------
(* Single checks.                                                          *)

\* A check without errors did not fail.
LEMMA FailEmpty ==
    ASSUME NEW failed, NEW code, NEW record, NEW field,
           Fail(failed, code, record, field) = {}
    PROVE  ~failed
BY DEF Fail

\* A record without mismatches repeats the fields.
LEMMA MismatchesEmpty ==
    ASSUME NEW a, NEW rec, NEW record, NEW fields, Mismatches(a, rec, record, fields) = {}
    PROVE  \A f \in fields : rec[f] = a[f]
BY DEF Mismatches

\* Each part of an evaluation, when it finds nothing.
LEMMA RuntimeFound ==
    ASSUME NEW st, NEW a, RuntimeErrors(st, a) = {}
    PROVE  a.runtime_id \in st.runtimes
BY FailEmpty DEF RuntimeErrors, Fail

\* An action without capability errors names a registered capability of its runtime that
\* offers its operation.
LEMMA CapabilityFound ==
    ASSUME NEW st, NEW a, CapabilityErrors(st, a) = {}, a.runtime_id # None
    PROVE  /\ a.capability_id \in DOMAIN st.capabilities
           /\ st.capabilities[a.capability_id].runtime_id = a.runtime_id
           /\ a.operation \in st.capabilities[a.capability_id].operations
BY DEF CapabilityErrors, Fail

\* An action without permission errors names a permission granted for just this action.
LEMMA PermissionFound ==
    ASSUME NEW st, NEW a, PermissionErrors(st, a) = {}, a.capability_id # None
    PROVE  LET p == st.permissions[a.permission_id] IN
           /\ a.permission_id \in DOMAIN st.permissions
           /\ p.decision \in ALLOWED_PERMISSION_DECISIONS
           /\ p.capability_id = a.capability_id
           /\ p.runtime_id = a.runtime_id /\ p.operation = a.operation
           /\ p.target_scope = a.target_scope
<1> DEFINE p == st.permissions[a.permission_id]
<1>1. a.permission_id \in DOMAIN st.permissions
  BY DEF PermissionErrors
<1>2. /\ Fail(p.decision \notin ALLOWED_PERMISSION_DECISIONS, "permission_denied",
              "permission", "decision") = {}
      /\ Fail(a.capability_id # None /\ p.capability_id # a.capability_id,
              "permission_denied", "permission", "capability_id") = {}
      /\ Mismatches(a, p, "permission", Scope) = {}
  BY <1>1 DEF PermissionErrors
<1> HIDE DEF p
<1>3. \A f \in Scope : p[f] = a[f]
  BY <1>2, MismatchesEmpty
<1>4. p.decision \in ALLOWED_PERMISSION_DECISIONS /\ p.capability_id = a.capability_id
  BY <1>2 DEF Fail
<1>5. p.runtime_id = a.runtime_id /\ p.operation = a.operation /\ p.target_scope = a.target_scope
  BY <1>3 DEF Scope
<1> QED
  BY <1>1, <1>4, <1>5 DEF p

\* An action without approval errors names an approved approval of just this action, with
\* the hash that was asked for.
LEMMA ApprovalFound ==
    ASSUME NEW st, NEW a, NEW hash, ApprovalErrors(st, a, hash) = {}
    PROVE  LET p == st.approvals[a.approval_id] IN
           /\ a.approval_id \in DOMAIN st.approvals
           /\ p.status = "approved"
           /\ p.runtime_id = a.runtime_id /\ p.operation = a.operation
           /\ p.target_scope = a.target_scope
           /\ HasPayload(a) => p.payload_hash = hash
<1> DEFINE p == st.approvals[a.approval_id]
<1>1. a.approval_id \in DOMAIN st.approvals /\ p.status = "approved"
  BY DEF ApprovalErrors
<1>2. /\ Mismatches(a, p, "approval", Scope) = {}
      /\ Fail(HasPayload(a) /\ p.payload_hash # hash,
              "payload_hash_mismatch", "approval", "payload_hash") = {}
  BY <1>1 DEF ApprovalErrors
<1> HIDE DEF p
<1>3. \A f \in Scope : p[f] = a[f]
  BY <1>2, MismatchesEmpty
<1>4. HasPayload(a) => p.payload_hash = hash
  BY <1>2 DEF Fail
<1>5. p.runtime_id = a.runtime_id /\ p.operation = a.operation /\ p.target_scope = a.target_scope
  BY <1>3 DEF Scope
<1> QED
  BY <1>1, <1>4, <1>5 DEF p

\* An action without recovery errors names a recovery action of its runtime and operation.
LEMMA RecoveryFound ==
    ASSUME NEW st, NEW a, RecoveryErrors(st, a) = {}
    PROVE  LET r == st.recovery_actions[a.recovery_action] IN
           /\ a.recovery_action \in DOMAIN st.recovery_actions
           /\ r.runtime_id = a.runtime_id /\ r.operation = a.operation
<1> DEFINE r == st.recovery_actions[a.recovery_action]
<1>1. a.recovery_action \in DOMAIN st.recovery_actions
  BY DEF RecoveryErrors
<1>2. Mismatches(a, r, "recovery", {"runtime_id", "operation"}) = {}
  BY <1>1 DEF RecoveryErrors
<1> HIDE DEF r
<1>3. r.runtime_id = a.runtime_id /\ r.operation = a.operation
  BY <1>2, MismatchesEmpty
<1> QED
  BY <1>1, <1>3 DEF r

\* An action without audit errors carries a stored event with the hash of its payload.
LEMMA AuditFound ==
    ASSUME NEW st, NEW a, AuditErrors(st, a) = {}
    PROVE  LET ev     == a.audit_event
               stored == st.audit_events[ev.event_id]
           IN /\ ev # None /\ ev.event_id \in DOMAIN st.audit_events
              /\ stored.payload_hash = ev.payload_hash
              /\ HasPayload(a) => stored.payload_hash = canonical_hash(a.payload)
<1> DEFINE ev     == a.audit_event
           stored == st.audit_events[ev.event_id]
           hash   == IF HasPayload(a) THEN canonical_hash(a.payload) ELSE ev.payload_hash
<1>1. ev # None
  BY DEF AuditErrors
<1>2. ev.event_id \in DOMAIN st.audit_events
  BY <1>1 DEF AuditErrors
<1>3. Fail(ev.payload_hash # hash \/ stored.payload_hash # hash,
           "payload_hash_mismatch", "audit", "payload_hash") = {}
  BY <1>1, <1>2 DEF AuditErrors
<1>4. ev.payload_hash = hash /\ stored.payload_hash = hash
  <2> HIDE DEF ev, stored, hash
  <2> QED
    BY <1>3 DEF Fail
<1> QED
  BY <1>1, <1>2, <1>4

-----------------------------------------------------------------------------
(* The evaluation.                                                         *)

\* An evaluation that allows has found all the grounds of the action.
LEMMA AllowedHasGrounds ==
    ASSUME NEW st, NEW a, None \notin st.runtimes, None \notin DOMAIN st.capabilities,
           evaluate(st, a).allowed
    PROVE  Grounded(st, a)
<1>1. Errors(st, a) = {}
  BY DEF evaluate
<1>2. /\ RuntimeErrors(st, a) = {} /\ CapabilityErrors(st, a) = {}
      /\ PermissionErrors(st, a) = {} /\ ApprovalErrors(st, a, canonical_hash(a.payload)) = {}
      /\ AuditErrors(st, a) = {} /\ RecoveryErrors(st, a) = {}
  BY <1>1 DEF Errors
<1>3. a.runtime_id \in st.runtimes /\ a.runtime_id # None
  BY <1>2, RuntimeFound
<1>4. /\ a.capability_id \in DOMAIN st.capabilities
      /\ st.capabilities[a.capability_id].runtime_id = a.runtime_id
      /\ a.operation \in st.capabilities[a.capability_id].operations
  BY <1>2, <1>3, CapabilityFound
<1>5. a.capability_id # None
  BY <1>4
<1>6. LET p == st.permissions[a.permission_id] IN
      /\ a.permission_id \in DOMAIN st.permissions
      /\ p.decision \in ALLOWED_PERMISSION_DECISIONS
      /\ p.capability_id = a.capability_id
      /\ p.runtime_id = a.runtime_id /\ p.operation = a.operation
      /\ p.target_scope = a.target_scope
  BY <1>2, <1>5, PermissionFound
<1>7. LET p == st.approvals[a.approval_id] IN
      /\ a.approval_id \in DOMAIN st.approvals
      /\ p.status = "approved"
      /\ p.runtime_id = a.runtime_id /\ p.operation = a.operation
      /\ p.target_scope = a.target_scope
      /\ HasPayload(a) => p.payload_hash = canonical_hash(a.payload)
  BY <1>2, ApprovalFound
<1>8. LET ev     == a.audit_event
          stored == st.audit_events[ev.event_id]
      IN /\ ev # None /\ ev.event_id \in DOMAIN st.audit_events
         /\ stored.payload_hash = ev.payload_hash
         /\ HasPayload(a) => stored.payload_hash = canonical_hash(a.payload)
  BY <1>2, AuditFound
<1>9. LET r == st.recovery_actions[a.recovery_action] IN
      /\ a.recovery_action \in DOMAIN st.recovery_actions
      /\ r.runtime_id = a.runtime_id /\ r.operation = a.operation
  BY <1>2, RecoveryFound
<1> QED
  BY <1>3, <1>4, <1>6, <1>7, <1>8, <1>9 DEF Grounded, ALLOWED_PERMISSION_DECISIONS

\* An action that claims nothing has no errors that it did not have before.
LEMMA ClaimsOnlyAddErrors ==
    ASSUME NEW st, NEW a, DOMAIN a = ActionKeys, evaluate(st, a).allowed
    PROVE  evaluate(st, Plain(a)).allowed
<1> DEFINE b == Plain(a)
<1>1. Errors(st, a) = {}
  BY DEF evaluate
<1>2. /\ b.operation = a.operation /\ b.runtime_id = a.runtime_id
      /\ b.capability_id = a.capability_id /\ b.permission_id = a.permission_id
      /\ b.approval_id = a.approval_id /\ b.target_scope = a.target_scope
      /\ b.payload = a.payload /\ b.other_payload = a.other_payload
      /\ b.audit_event = a.audit_event /\ b.recovery_action = a.recovery_action
      /\ b.adapter_metadata = << >> /\ b.authority_source = None /\ b.claims = {}
  BY DEF Plain, ActionKeys
<1> HIDE DEF b
<1>3. RuntimeErrors(st, b) = RuntimeErrors(st, a)
  BY <1>2 DEF RuntimeErrors
<1>4. CapabilityErrors(st, b) = CapabilityErrors(st, a)
  BY <1>2 DEF CapabilityErrors
<1>5. \A rec, record : /\ Mismatches(b, rec, record, Scope) = Mismatches(a, rec, record, Scope)
                       /\ Mismatches(b, rec, record, {"runtime_id", "operation"})
                            = Mismatches(a, rec, record, {"runtime_id", "operation"})
  BY <1>2 DEF Mismatches, Scope
<1>6. HasPayload(b) = HasPayload(a)
  BY <1>2 DEF HasPayload
<1>7. PermissionErrors(st, b) = PermissionErrors(st, a)
  BY <1>2, <1>5 DEF PermissionErrors
<1>8. \A hash : ApprovalErrors(st, b, hash) = ApprovalErrors(st, a, hash)
  BY <1>2, <1>5, <1>6 DEF ApprovalErrors
<1>9. AuditErrors(st, b) = AuditErrors(st, a)
  BY <1>2, <1>6 DEF AuditErrors
<1>10. RecoveryErrors(st, b) = RecoveryErrors(st, a)
  BY <1>2, <1>5 DEF RecoveryErrors
<1>11. MetadataErrors(b) = {}
  <2>1. Len(b.adapter_metadata) = 0
    BY <1>2
  <2>2. authority_keys_in(b.adapter_metadata) = {} /\ authority_values_in(b.adapter_metadata) = {}
    BY <2>1 DEF authority_keys_in, authority_values_in, Stripped, Kept
  <2> QED
    BY <2>2 DEF MetadataErrors, metadata_claims_authority, Fail
<1>12. SourceErrors(b) = {}
  BY <1>2, IdAssumption DEF SourceErrors
<1>13. Errors(st, b) = {}
  BY <1>1, <1>2, <1>3, <1>4, <1>7, <1>8, <1>9, <1>10, <1>11, <1>12 DEF Errors
<1> QED
  BY <1>13 DEF b, evaluate

\* The two spellings of a key are one name, unless it has punctuation or a sharp s.
LEMMA SpelledAlike ==
    ASSUME NEW k, ~Punctuated(k), ~Sharpened(k)
    PROVE  normalize_authority_token(k) = normalize_key(k)
<1> DEFINE joint == IF k.tail # "" /\ (k.sep \in {"_", "-", " "} \/ Camel(k)) THEN "_" ELSE ""
<1>1. normalize_key(k) = Spelled(k.head, joint, k.tail, "")
  BY DEF normalize_key, Punctuated
<1>2. normalize_authority_token(k) = Name(k.head, joint, k.tail)
  BY DEF normalize_authority_token, Punctuated, Sharpened, Broken
<1> QED
  BY <1>1, <1>2 DEF Name

\* The words of the tables of authority: whole ones, with nothing but an underscore
\* between two, and nothing at the end.
Heads == {"authority", "role", "approval", "approved", "permission", "scope", "trust",
          "elevated", "grant", "grants", "permissions", "privilege", "privileges", "admin",
          "all", "root"}
Tails == {"", "context", "trace", "state", "by", "grant", "override", "escalation", "level",
          "granted"}

\* Every name of the tables is made of these words.
LEMMA TableWords ==
    ASSUME NEW n \in AUTHORITY_KEYS \union AUTHORITY_KEY_ALIASES \union AUTHORITY_VALUES
    PROVE  /\ n.head \in Heads /\ n.joint \in {"", "_"} /\ n.tail \in Tails
           /\ n.end = ""
<1>1. PICK h \in Heads, j \in {"", "_"}, t \in Tails : n = Name(h, j, t)
  <2>1. CASE n \in AUTHORITY_KEYS
    BY <2>1 DEF AUTHORITY_KEYS, Heads, Tails
  <2>2. CASE n \in AUTHORITY_KEY_ALIASES
    BY <2>2 DEF AUTHORITY_KEY_ALIASES, Heads, Tails
  <2>3. CASE n \in AUTHORITY_VALUES
    BY <2>3 DEF AUTHORITY_VALUES, Heads, Tails
  <2> QED
    BY <2>1, <2>2, <2>3
<1>2. n.head = h /\ n.joint = j /\ n.tail = t /\ n.end = ""
  BY <1>1 DEF Name, Spelled
<1> QED
  BY <1>2

\* A key with punctuation is in no table of Python.
LEMMA PunctuatedIsUnknown ==
    ASSUME NEW k, Punctuated(k)
    PROVE  /\ normalize_key(k) \notin AUTHORITY_KEYS \union AUTHORITY_KEY_ALIASES
           /\ normalize_key(k) \notin AUTHORITY_VALUES
<1>1. normalize_key(k).joint = "." \/ normalize_key(k).end \in {"_", "."}
  BY DEF normalize_key, Spelled, Punctuated
<1> QED
  BY <1>1, TableWords

\* What Python takes for a claim by a value, the broker does too: no such value has a
\* sharp s.
LEMMA BrokerSeesValues ==
    ASSUME NEW v, ClaimsByValue(v)
    PROVE  BrokerClaimsByValue(v)
<1> DEFINE k == v.text
<1>1. PICK w \in {"admin", "all", "approved", "elevated", "root"} :
          normalize_key(k) = Name(w, "", "")
  BY DEF ClaimsByValue, AUTHORITY_VALUES
<1>2. ~Punctuated(k)
  BY PunctuatedIsUnknown DEF ClaimsByValue
<1>3. k.head = w /\ k.tail = ""
  BY <1>1 DEF normalize_key, Name, Spelled
<1>4. normalize_authority_token(k) = Name(w, "", "")
  BY <1>1, <1>2, <1>3, SpelledAlike DEF Sharpened
<1>5. Name(w, "", "") \in Tokens(normalize_authority_token(k))
  <2>1. Name(w, "", "").joint = ""
    BY DEF Name, Spelled
  <2> QED
    BY <1>4, <2>1 DEF Tokens
<1>6. Name(w, "", "") \in AUTHORITY_VALUES
  BY DEF AUTHORITY_VALUES
<1> QED
  BY <1>5, <1>6 DEF BrokerClaimsByValue, ClaimsByValue

\* What Python takes for a claim in metadata, the broker does too, unless the claim is a
\* key with a sharp s.
LEMMA BrokerSeesClaims ==
    ASSUME NEW p, metadata_claims_authority(p),
           ~\E k \in KeysOf(p) : Sharpened(k) /\ ClaimsByKey(k)
    PROVE  metadata_attempts_authority_value(p)
<1>1. CASE authority_keys_in(p) # {}
  <2>1. PICK i \in 1..Len(p) : \E d \in 1..Len(p[i].path) : ClaimsByKey(p[i].path[d])
    BY <1>1 DEF authority_keys_in
  <2>2. PICK d \in 1..Len(p[i].path) : ClaimsByKey(p[i].path[d])
    BY <2>1
  <2> DEFINE k == p[i].path[d]
  <2>3. k \in KeysOf(p)
    BY DEF KeysOf
  <2>4. ~Punctuated(k) /\ ~Sharpened(k)
    BY <2>2, <2>3, PunctuatedIsUnknown DEF ClaimsByKey
  <2>5. BrokerClaimsByKey(k)
    BY <2>2, <2>4, SpelledAlike DEF ClaimsByKey, BrokerClaimsByKey
  <2> QED
    BY <2>5 DEF metadata_attempts_authority_value
<1>2. CASE authority_values_in(p) # {}
  <2>1. PICK i \in 1..Len(p) : ClaimsByValue(p[i].value)
    BY <1>2 DEF authority_values_in, Stripped, Kept
  <2> QED
    BY <2>1, BrokerSeesValues DEF metadata_attempts_authority_value
<1> QED
  BY <1>1, <1>2 DEF metadata_claims_authority

\* No table of the broker has a word that a sharp s has broken.
LEMMA SharpIsNoKey ==
    ASSUME NEW k, Sharpened(k)
    PROVE  ~BrokerClaimsByKey(k)
<1> DEFINE n == normalize_authority_token(k)
<1>1. n.head = Broken(k.head) /\ n.tail = Broken(k.tail)
  BY DEF normalize_authority_token, Name, Spelled, Sharpened
<1>2. n.head \in {"permi_ion", "permi_ions"} \/ n.tail \in {"permi_ion", "permi_ions"}
  BY <1>1 DEF Broken, Sharpened
<1> HIDE DEF n
<1>3. n \notin AUTHORITY_KEYS \union AUTHORITY_KEY_ALIASES
  BY <1>2, TableWords DEF Heads, Tails
<1> QED
  BY <1>3 DEF n, BrokerClaimsByKey

\* What only the broker takes for a claim in metadata is a key with punctuation in it, or
\* a value.
LEMMA BrokerSeesMore ==
    ASSUME NEW p, metadata_attempts_authority_value(p), ~metadata_claims_authority(p)
    PROVE  \/ \E k \in KeysOf(p) : Punctuated(k) /\ BrokerClaimsByKey(k)
           \/ \E i \in 1..Len(p) : BrokerClaimsByValue(p[i].value)
<1> SUFFICES ASSUME NEW i \in 1..Len(p), NEW d \in 1..Len(p[i].path),
                    BrokerClaimsByKey(p[i].path[d])
             PROVE  \E k \in KeysOf(p) : Punctuated(k) /\ BrokerClaimsByKey(k)
  BY DEF metadata_attempts_authority_value
<1> DEFINE k == p[i].path[d]
<1>1. k \in KeysOf(p)
  BY DEF KeysOf
<1>2. ~ClaimsByKey(k)
  BY DEF metadata_claims_authority, authority_keys_in
<1>3. ~Sharpened(k)
  BY SharpIsNoKey
<1>4. Punctuated(k)
  BY <1>2, <1>3, SpelledAlike DEF ClaimsByKey, BrokerClaimsByKey
<1> QED
  BY <1>1, <1>4

\* An action that the broker's comparison mode allows is allowed, but for the differences
\* that are known.
LEMMA FixtureAllowsNoMore ==
    ASSUME NEW st, NEW a, FixtureErrors(st, a) = {}, a.payload \notin Divergent,
           ~\E k \in KeysOf(a.adapter_metadata) : Sharpened(k) /\ ClaimsByKey(k),
           HasPayload(a) \/ st.audit_events[a.audit_event.event_id].payload_hash
                                = a.audit_event.payload_hash
    PROVE  evaluate(st, a).allowed
<1>0. broker_canonical_hash(a.payload) = canonical_hash(a.payload)
  BY DEF broker_canonical_hash
<1>1. /\ BrokerRecordErrors(st, a) = {} /\ BrokerAuditErrors(st, a) = {}
      /\ SourceErrors(a) = {}
  BY DEF FixtureErrors
<1>2. /\ RuntimeErrors(st, a) = {} /\ CapabilityErrors(st, a) = {}
      /\ PermissionErrors(st, a) = {} /\ ApprovalErrors(st, a, canonical_hash(a.payload)) = {}
      /\ RecoveryErrors(st, a) = {} /\ BrokerMetadataErrors(a) = {}
  BY <1>0, <1>1 DEF BrokerRecordErrors
<1>3. MetadataErrors(a) = {}
  BY <1>2, BrokerSeesClaims DEF BrokerMetadataErrors, MetadataErrors, Fail
<1>4. AuditErrors(st, a) = {}
  <2> DEFINE ev     == a.audit_event
             stored == st.audit_events[ev.event_id]
             known  == ev.event_id \in DOMAIN st.audit_events
             hash   == canonical_hash(a.payload)
             wanted == IF HasPayload(a) THEN hash ELSE ev.payload_hash
  <2>1. ev # None
    BY <1>1 DEF BrokerAuditErrors
  <2>2. /\ Fail(ev.event_id = None, "audit_mapping_missing", "audit", "event_id") = {}
        /\ Fail(HasPayload(a) /\ ev.payload_hash = None,
                "audit_mapping_missing", "audit", "payload_hash") = {}
        /\ Fail(~known, "audit_mapping_missing", "audit", "stored") = {}
        /\ Fail(/\ HasPayload(a)
                /\ ev.payload_hash # hash \/ ~known \/ stored.payload_hash # hash,
                "payload_hash_mismatch", "audit", "payload_hash") = {}
        /\ Fail(known /\ stored.action \notin {None, a.operation},
                "relation_mismatch", "audit", "action") = {}
    BY <1>0, <1>1, <2>1 DEF BrokerAuditErrors
  <2>0. HasPayload(a) \/ stored.payload_hash = ev.payload_hash
    OBVIOUS
  <2> HIDE DEF ev, stored, known, hash
  <2>3. /\ known /\ ev.payload_hash = wanted /\ stored.payload_hash = wanted
        /\ stored.action \in {None, a.operation}
    BY <2>0, <2>2 DEF Fail
  <2> HIDE DEF wanted
  <2>4. Fail(ev.payload_hash # wanted \/ stored.payload_hash # wanted,
             "payload_hash_mismatch", "audit", "payload_hash") = {}
    BY <2>3 DEF Fail
  <2>5. Fail(stored.action \notin {None, a.operation},
             "relation_mismatch", "audit", "action") = {}
    BY <2>3 DEF Fail
  <2> QED
    BY <2>1, <2>2, <2>3, <2>4, <2>5 DEF AuditErrors, ev, stored, known, hash, wanted
<1> QED
  BY <1>1, <1>2, <1>3, <1>4 DEF evaluate, Errors

\* An action that Python allows, with a payload that both programs serialise alike, is
\* refused by the broker's comparison mode for its metadata alone.
LEMMA RefusedForMetadata ==
    ASSUME NEW st, NEW a, evaluate(st, a).allowed, a.payload \notin Divergent,
           ~metadata_attempts_authority_value(a.adapter_metadata)
    PROVE  FixtureErrors(st, a) = {}
<1>0. broker_canonical_hash(a.payload) = canonical_hash(a.payload)
  BY DEF broker_canonical_hash
<1>1. Errors(st, a) = {}
  BY DEF evaluate
<1>2. /\ RuntimeErrors(st, a) = {} /\ CapabilityErrors(st, a) = {}
      /\ PermissionErrors(st, a) = {} /\ ApprovalErrors(st, a, canonical_hash(a.payload)) = {}
      /\ RecoveryErrors(st, a) = {} /\ AuditErrors(st, a) = {} /\ SourceErrors(a) = {}
  BY <1>1 DEF Errors
<1>3. BrokerMetadataErrors(a) = {}
  BY DEF BrokerMetadataErrors, Fail
<1>4. BrokerAuditErrors(st, a) = {}
  <2> DEFINE ev     == a.audit_event
             stored == st.audit_events[ev.event_id]
             known  == ev.event_id \in DOMAIN st.audit_events
             hash   == canonical_hash(a.payload)
             wanted == IF HasPayload(a) THEN hash ELSE ev.payload_hash
  <2>1. ev # None /\ known
    BY <1>2 DEF AuditErrors
  <2>2. /\ Fail(ev.event_id = None, "audit_mapping_missing", "audit", "event_id") = {}
        /\ Fail(HasPayload(a) /\ ev.payload_hash = None,
                "audit_mapping_missing", "audit", "payload_hash") = {}
        /\ Fail(ev.payload_hash # wanted \/ stored.payload_hash # wanted,
                "payload_hash_mismatch", "audit", "payload_hash") = {}
        /\ Fail(stored.action \notin {None, a.operation},
                "relation_mismatch", "audit", "action") = {}
    BY <1>2, <2>1 DEF AuditErrors
  <2> HIDE DEF ev, stored, known, hash
  <2>3. /\ Fail(~known, "audit_mapping_missing", "audit", "stored") = {}
        /\ Fail(/\ HasPayload(a)
                /\ ev.payload_hash # hash \/ ~known \/ stored.payload_hash # hash,
                "payload_hash_mismatch", "audit", "payload_hash") = {}
        /\ Fail(known /\ stored.action \notin {None, a.operation},
                "relation_mismatch", "audit", "action") = {}
    BY <2>1, <2>2 DEF Fail
  <2> QED
    BY <1>0, <2>1, <2>2, <2>3 DEF BrokerAuditErrors, ev, stored, known, hash
<1> QED
  BY <1>0, <1>2, <1>3, <1>4 DEF FixtureErrors, BrokerRecordErrors

\* The registry that the product starts with allows nothing: its permission denies.
THEOREM ProductAllowsNothing ==
    \A a, withState : ProductionErrors(production_default, a, withState) # {}
<1> SUFFICES ASSUME NEW a, NEW withState,
                    ProductionErrors(production_default, a, withState) = {}
             PROVE  FALSE
  OBVIOUS
<1>1. PermissionErrors(production_default, a) = {}
  BY DEF ProductionErrors, BrokerRecordErrors
<1>2. a.permission_id \in DOMAIN production_default.permissions
  BY <1>1 DEF PermissionErrors
<1>3. production_default.permissions[a.permission_id].decision = "deny"
  BY <1>2 DEF production_default
<1> QED
  BY <1>1, <1>2, <1>3 DEF PermissionErrors, ALLOWED_PERMISSION_DECISIONS, Fail

-----------------------------------------------------------------------------
(* Normalisation.                                                          *)

\* A set that is listed without repetition has as many elements as the list.
LEMMA ListedOnce ==
    ASSUME NEW n \in Nat, NEW f, NEW T, f = [i \in 1..n |-> f[i]], T = {f[i] : i \in 1..n},
           \A i, j \in 1..n : f[i] = f[j] => i = j
    PROVE  Cardinality(T) = n
<1>1. f \in [1..n -> T]
  OBVIOUS
<1>2. f \in Bijection(1..n, T)
  BY <1>1, Fun_IsBij
<1>3. IsFiniteSet(1..n) /\ Cardinality(1..n) = n
  BY FS_Interval
<1> QED
  BY <1>2, <1>3, FS_Bijection, Fun_ExistsBij

\* A dict that is not quarantined keeps all its leaves, under paths that still differ.
LEMMA NothingOverwritten ==
    ASSUME NEW p \in InboundPayloads, ~Quarantined(p)
    PROVE  /\ Kept(p) = 1..Len(p) /\ Stripped(p) = 1..Len(p)
           /\ \A i, j \in 1..Len(p) :
                  Normalized(p[i].path) = Normalized(p[j].path) => i = j
<1>1. authority_keys_in(p) = {} /\ normalization_collisions_in(p) = {}
  BY DEF Quarantined, metadata_claims_authority
<1>2. ASSUME NEW i \in 1..Len(p), NEW j \in 1..Len(p), NEW d \in Nat \ {0}
      PROVE  ~Overwritten(p, i, j, d)
  <2>1. SUFFICES ASSUME Overwritten(p, i, j, d) PROVE FALSE
    OBVIOUS
  <2>2. d \in 1..Len(p[j].path)
    BY <2>1, InboundAssumption DEF Overwritten, Part
  <2>3. j \in normalization_collisions_in(p)
    BY <2>1, <2>2 DEF normalization_collisions_in
  <2> QED
    BY <1>1, <2>3
<1>3. Kept(p) = 1..Len(p)
  BY <1>2, InboundAssumption DEF Kept
<1>4. ASSUME NEW i \in 1..Len(p), NEW j \in 1..Len(p), i < j,
             Normalized(p[i].path) = Normalized(p[j].path)
      PROVE  FALSE
  <2>1. PICK d \in 1..Len(p[i].path) : Part(p, i, j, d)
    BY <1>4, InboundAssumption
  <2>2. d \in 1..Len(p[j].path) /\ d \in Nat \ {0}
    BY <2>1, InboundAssumption DEF Part
  <2>3. normalize_key(p[i].path[d]) = normalize_key(p[j].path[d])
    <3>1. Normalized(p[i].path)[d] = normalize_key(p[i].path[d])
      BY <2>1 DEF Normalized
    <3>2. Normalized(p[j].path)[d] = normalize_key(p[j].path[d])
      BY <2>2 DEF Normalized
    <3> QED
      BY <1>4, <3>1, <3>2
  <2>4. Overwritten(p, i, j, d)
    BY <1>4, <2>1, <2>3 DEF Overwritten
  <2> QED
    BY <1>2, <2>2, <2>4
<1>5. \A i, j \in 1..Len(p) : Normalized(p[i].path) = Normalized(p[j].path) => i = j
  <2> SUFFICES ASSUME NEW i \in 1..Len(p), NEW j \in 1..Len(p),
                      Normalized(p[i].path) = Normalized(p[j].path), i # j
               PROVE  FALSE
    OBVIOUS
  <2>1. i < j \/ j < i
    OBVIOUS
  <2> QED
    BY <1>4, <2>1
<1> QED
  BY <1>1, <1>3, <1>5 DEF Stripped

\* So neither what is normalised nor what is stripped has fewer leaves.
LEMMA NothingLost ==
    ASSUME NEW p \in InboundPayloads, ~Quarantined(p)
    PROVE  /\ Cardinality(strip_authority_keys(p)) = Len(p)
           /\ Cardinality(normalize_payload(p)) = Len(p)
<1> DEFINE f == [i \in 1..Len(p) |-> <<Normalized(p[i].path), p[i].value>>]
           g == [i \in 1..Len(p) |-> <<Normalized(p[i].path), Trimmed(p[i].value)>>]
<1>0. Len(p) \in Nat
  BY InboundAssumption
<1>1. /\ strip_authority_keys(p) = {f[i] : i \in 1..Len(p)}
      /\ normalize_payload(p) = {g[i] : i \in 1..Len(p)}
  BY NothingOverwritten DEF strip_authority_keys, normalize_payload
<1>2. ASSUME NEW i \in 1..Len(p), NEW j \in 1..Len(p), f[i] = f[j] \/ g[i] = g[j]
      PROVE  i = j
  <2>1. Normalized(p[i].path) = Normalized(p[j].path)
    BY <1>2
  <2> QED
    BY <2>1, NothingOverwritten
<1>3. f = [i \in 1..Len(p) |-> f[i]] /\ g = [i \in 1..Len(p) |-> g[i]]
  OBVIOUS
<1> HIDE DEF f, g
<1> QED
  BY <1>0, <1>1, <1>2, <1>3, ListedOnce

-----------------------------------------------------------------------------
(* The shell core.                                                         *)

\* What an adapter's registration leaves of its metadata.
Cleaned(leaves) ==
    \E r \in Adapters : /\ authority_values_in(r.metadata) = {}
                        /\ leaves = strip_authority_keys(r.metadata)

\* What the properties rest on: the tables that never change or only grow, approved
\* approvals whose hash was granted, and actions routed on those grounds.
ShellInv ==
    /\ DOMAIN state = Tables
    /\ state.runtimes = InitialState.runtimes
    /\ None \notin DOMAIN state.capabilities
    /\ \A id \in DOMAIN state.approvals :
           state.approvals[id].status = "approved" => state.approvals[id].payload_hash \in granted
    /\ RoutedWasGranted
    /\ \A id \in DOMAIN state.adapters : Cleaned(state.adapters[id])

\* The strengthened invariant holds when the shell core starts.
LEMMA InitShell == Init => ShellInv
<1> SUFFICES ASSUME Init PROVE ShellInv
  OBVIOUS
<1>1. state = InitialState /\ routed = {}
  BY DEF Init
<1>2. \A id \in DOMAIN state.approvals :
          state.approvals[id].status = "approved" => state.approvals[id].payload_hash \in granted
  BY DEF Init
<1> QED
  BY <1>1, <1>2, StateAssumption, IdAssumption DEF ShellInv, RoutedWasGranted

\* A step that only adds what is not yet there, and leaves the rest of the invariant alone.
LEMMA OtherTable ==
    ASSUME ShellInv, NEW field \in Tables, NEW table,
           field \notin {"runtimes", "adapters", "capabilities", "approvals", "audit_events"},
           state' = [state EXCEPT ![field] = table],
           UNCHANGED <<routed, granted>>
    PROVE  ShellInv'
<1>1. /\ DOMAIN state' = Tables
      /\ state'.runtimes = state.runtimes /\ state'.adapters = state.adapters
      /\ state'.capabilities = state.capabilities /\ state'.approvals = state.approvals
      /\ state'.audit_events = state.audit_events
  BY DEF ShellInv, Tables
<1> QED
  BY <1>1 DEF ShellInv, RoutedWasGranted

\* Registering a capability keeps the strengthened invariant.
LEMMA CapabilityKeeps ==
    ASSUME ShellInv, NEW r \in Capabilities, register_capability(r)
    PROVE  ShellInv'
<1>1. /\ DOMAIN state' = Tables
      /\ state'.runtimes = state.runtimes /\ state'.adapters = state.adapters
      /\ state'.capabilities = Put(state.capabilities, r.capability_id, r)
      /\ state'.approvals = state.approvals /\ state'.audit_events = state.audit_events
  BY DEF ShellInv, Tables, register_capability
<1>2. None \notin DOMAIN state'.capabilities
  BY <1>1, IdAssumption DEF ShellInv, Put
<1> QED
  BY <1>1, <1>2 DEF ShellInv, RoutedWasGranted, register_capability

\* Enqueuing an approval as normalised keeps the strengthened invariant.
LEMMA ApprovalKeeps ==
    ASSUME ShellInv, NEW r, enqueue_approval(r)
    PROVE  ShellInv'
<1>1. /\ DOMAIN state' = Tables
      /\ state'.runtimes = state.runtimes /\ state'.adapters = state.adapters
      /\ state'.capabilities = state.capabilities
      /\ state'.approvals = Put(state.approvals, r.approval_id, r)
      /\ state'.audit_events = state.audit_events
  BY DEF ShellInv, Tables, enqueue_approval
<1>2. granted \subseteq granted' /\ (r.status = "approved" => r.payload_hash \in granted')
  BY DEF enqueue_approval
<1>3. \A id \in DOMAIN state'.approvals :
          state'.approvals[id].status = "approved" => state'.approvals[id].payload_hash \in granted'
  BY <1>1, <1>2 DEF ShellInv, Put
<1>4. RoutedWasGranted'
  BY <1>1, <1>2 DEF ShellInv, RoutedWasGranted, enqueue_approval
<1> QED
  BY <1>1, <1>3, <1>4 DEF ShellInv

\* Appending an audit event as normalised keeps the strengthened invariant.
LEMMA AuditKeeps ==
    ASSUME ShellInv, NEW r, append_audit_event(r)
    PROVE  ShellInv'
<1>1. /\ DOMAIN state' = Tables
      /\ state'.runtimes = state.runtimes /\ state'.adapters = state.adapters
      /\ state'.capabilities = state.capabilities /\ state'.approvals = state.approvals
      /\ state'.audit_events = Put(state.audit_events, r.event_id, r)
  BY DEF ShellInv, Tables, append_audit_event
<1>2. \A id \in DOMAIN state.audit_events :
          id \in DOMAIN state'.audit_events /\ state'.audit_events[id] = state.audit_events[id]
  BY <1>1 DEF append_audit_event, Put
<1>3. RoutedWasGranted'
  BY <1>2 DEF ShellInv, RoutedWasGranted, append_audit_event
<1> QED
  BY <1>1, <1>3 DEF ShellInv, append_audit_event

\* Registering an adapter, stripped of authority keys, keeps the strengthened invariant.
LEMMA AdapterKeeps ==
    ASSUME ShellInv, NEW r \in Adapters, register_adapter(r)
    PROVE  ShellInv'
<1>1. /\ DOMAIN state' = Tables
      /\ state'.runtimes = state.runtimes /\ state'.capabilities = state.capabilities
      /\ state'.adapters = Put(state.adapters, r.adapter_id, strip_authority_keys(r.metadata))
      /\ state'.approvals = state.approvals /\ state'.audit_events = state.audit_events
  BY DEF ShellInv, Tables, register_adapter
<1>2. authority_values_in(r.metadata) = {}
  BY DEF register_adapter
<1>3. ASSUME NEW id \in DOMAIN state'.adapters
      PROVE  Cleaned(state'.adapters[id])
  <2>1. CASE id = r.adapter_id
    BY <1>1, <1>2, <2>1 DEF Put, Cleaned
  <2>2. CASE id # r.adapter_id
    <3>1. id \in DOMAIN state.adapters /\ state'.adapters[id] = state.adapters[id]
      BY <1>1, <1>3, <2>2 DEF Put
    <3> QED
      BY <3>1 DEF ShellInv
  <2> QED
    BY <2>1, <2>2
<1>4. RoutedWasGranted'
  BY <1>1 DEF ShellInv, RoutedWasGranted, register_adapter
<1>5. \A id \in DOMAIN state'.approvals :
          state'.approvals[id].status = "approved" => state'.approvals[id].payload_hash \in granted'
  BY <1>1 DEF ShellInv, register_adapter
<1> QED
  BY <1>1, <1>3, <1>4, <1>5 DEF ShellInv

\* Routing an action keeps the strengthened invariant: what is routed was granted.
LEMMA RouteKeeps ==
    ASSUME ShellInv, NEW a \in Actions, route(a)
    PROVE  ShellInv'
<1>1. UNCHANGED <<state, granted>>
  BY DEF route
<1>2. CASE ~evaluate(state, a).allowed
  BY <1>1, <1>2 DEF ShellInv, RoutedWasGranted, route
<1>3. CASE evaluate(state, a).allowed
  <2> DEFINE new == [action |-> a, envelope |-> evaluate(state, a).action_envelope]
  <2>1. routed' = routed \union {new}
    BY <1>3 DEF route
  <2>2. new.action = a /\ new.envelope.payload_hash = canonical_hash(a.payload)
    BY <1>3 DEF evaluate, build_action_envelope
  <2>3. Grounded(state, a)
    BY <1>3, IdAssumption, AllowedHasGrounds DEF ShellInv
  <2> HIDE DEF new
  <2>4. LET id == new.action.audit_event.event_id IN
        /\ id \in DOMAIN state.audit_events
        /\ state.audit_events[id].payload_hash = new.action.audit_event.payload_hash
        /\ HasPayload(new.action) =>
               /\ new.envelope.payload_hash \in granted
               /\ state.audit_events[id].payload_hash = new.envelope.payload_hash
    <3>1. HasPayload(a) => canonical_hash(a.payload) \in granted
      BY <2>3 DEF Grounded, ShellInv
    <3> QED
      BY <2>2, <2>3, <3>1 DEF Grounded
  <2>5. RoutedWasGranted'
    BY <1>1, <2>1, <2>4 DEF ShellInv, RoutedWasGranted
  <2> QED
    BY <1>1, <2>5 DEF ShellInv
<1> QED
  BY <1>2, <1>3

\* The strengthened invariant is inductive.
LEMMA ShellInductive == ShellInv /\ [Next]_vars => ShellInv'
<1> SUFFICES ASSUME ShellInv, [Next]_vars PROVE ShellInv'
  OBVIOUS
<1>1. ASSUME NEW p \in InboundPayloads, Receive(p) PROVE ShellInv'
  BY <1>1 DEF Receive, ShellInv, RoutedWasGranted
<1>2. CASE RegisterAdapter
  BY <1>2, AdapterKeeps DEF RegisterAdapter
<1>3. CASE Register
  <2>1. ASSUME NEW r \in Permissions, record_permission(r) PROVE ShellInv'
    BY <2>1, OtherTable DEF record_permission, Tables
  <2>2. ASSUME NEW r \in Recoveries, register_recovery_action(r) PROVE ShellInv'
    BY <2>2, OtherTable DEF register_recovery_action, Tables
  <2> QED
    BY <1>3, <2>1, <2>2, CapabilityKeeps DEF Register
<1>4. CASE AppendAudit
  BY <1>4, AuditKeeps DEF AppendAudit
<1>5. CASE Review \/ Propose \/ Edit
  <2>1. UNCHANGED <<state, routed, granted>>
    BY <1>5 DEF Review, Propose, Edit, queue_enqueue, edit
  <2> QED
    BY <2>1 DEF ShellInv, RoutedWasGranted
<1>6. CASE Decide
  BY <1>6, ApprovalKeeps DEF Decide
<1>7. CASE Route
  BY <1>7, RouteKeeps DEF Route
<1>8. CASE UNCHANGED vars
  BY <1>8 DEF vars, ShellInv, RoutedWasGranted
<1> QED
  BY <1>1, <1>2, <1>3, <1>4, <1>5, <1>6, <1>7, <1>8 DEF Next

\* The strengthened invariant holds in every reachable state.
LEMMA ShellInvariant == Spec => []ShellInv
BY InitShell, ShellInductive, PTL DEF Spec

-----------------------------------------------------------------------------
(* The theorems.                                                           *)

\* Every action that was routed with a payload was routed with one that an approved
\* approval carried, and its audit event stays as it was: whatever was edited, proposed
\* by an adapter, decided or registered before and behind it.
THEOREM RoutedActionsWereGranted == Spec => []RoutedWasGranted
<1>1. ShellInv => RoutedWasGranted
  BY DEF ShellInv
<1> QED
  BY <1>1, ShellInvariant, PTL

\* PolicyEvaluator allows nothing without a runtime, a capability, a permission, an
\* approval, an audit event and a recovery action that are all about the action.
THEOREM AllowedActionsAreGrounded == Spec => []AllowedIsGrounded
<1>1. ShellInv => AllowedIsGrounded
  BY AllowedHasGrounds, IdAssumption DEF ShellInv, AllowedIsGrounded
<1> QED
  BY <1>1, ShellInvariant, PTL

\* What an action claims for itself never makes it allowed.
THEOREM ClaimsHelpNobody == Spec => []ClaimsNeverHelp
<1>1. ClaimsNeverHelp
  BY ClaimsOnlyAddErrors, ActionAssumption DEF ClaimsNeverHelp
<1> QED
  BY <1>1, PTL

\* Where the two evaluations part, in whatever state and on whatever action: over what the
\* programs serialise or spell differently, over values that Python does not take for
\* claims, and over the audit hashes without a payload.
THEOREM EvaluationsPartNowhereElse == Spec => []DifferencesAreKnown
<1>1. DifferencesAreKnown
  <2> SUFFICES ASSUME NEW a \in Actions, a.payload \notin Divergent
               PROVE  LET leaves == a.adapter_metadata IN
                      /\ evaluate(state, a).allowed \in BOOLEAN
                      /\ evaluate(state, a).allowed /\ FixtureErrors(state, a) # {} =>
                             \/ \E k \in KeysOf(leaves) : Punctuated(k) /\ BrokerClaimsByKey(k)
                             \/ \E i \in 1..Len(leaves) : BrokerClaimsByValue(leaves[i].value)
                      /\ ~evaluate(state, a).allowed /\ FixtureErrors(state, a) = {} =>
                             \/ \E k \in KeysOf(leaves) : Sharpened(k) /\ ClaimsByKey(k)
                             \/ /\ ~HasPayload(a)
                                /\ state.audit_events[a.audit_event.event_id].payload_hash
                                       # a.audit_event.payload_hash
    BY DEF DifferencesAreKnown
  <2>1. ASSUME evaluate(state, a).allowed
        PROVE  ~metadata_claims_authority(a.adapter_metadata)
    <3>1. MetadataErrors(a) = {}
      BY <2>1 DEF evaluate, Errors
    <3> QED
      BY <3>1, FailEmpty DEF MetadataErrors
  <2>2. evaluate(state, a).allowed \in BOOLEAN
    BY DEF evaluate
  <2> QED
    BY <2>1, <2>2, FixtureAllowsNoMore, RefusedForMetadata, BrokerSeesMore
<1> QED
  BY <1>1, PTL

\* No adapter in the state claims authority in its metadata.
THEOREM AdaptersHaveNoClaims == Spec => []AdaptersClaimNothing
<1>1. ASSUME ShellInv, NEW id \in DOMAIN state.adapters, NEW leaf \in state.adapters[id]
      PROVE  /\ \A d \in 1..Len(leaf[1]) :
                    leaf[1][d] \notin AUTHORITY_KEYS \union AUTHORITY_KEY_ALIASES
             /\ ~ClaimsByValue(leaf[2])
  <2>1. PICK r \in Adapters : /\ authority_values_in(r.metadata) = {}
                              /\ state.adapters[id] = strip_authority_keys(r.metadata)
    BY <1>1 DEF ShellInv, Cleaned
  <2> DEFINE p == r.metadata
  <2>2. PICK i \in Stripped(p) : leaf = <<Normalized(p[i].path), p[i].value>>
    BY <1>1, <2>1 DEF strip_authority_keys
  <2>3. i \in 1..Len(p) /\ i \notin authority_keys_in(p) /\ ~ClaimsByValue(p[i].value)
    BY <2>1, <2>2 DEF Stripped, Kept, authority_values_in
  <2> DEFINE path == p[i].path
  <2>4. Len(path) \in Nat
    BY <2>3, MetadataAssumption
  <2>5. \A d \in 1..Len(path) : ~ClaimsByKey(path[d])
    BY <2>3 DEF authority_keys_in
  <2>6. leaf[1] = Normalized(path) /\ leaf[2] = p[i].value
    BY <2>2
  <2> HIDE DEF p, path
  <2>7. Len(Normalized(path)) = Len(path)
    BY <2>4 DEF Normalized
  <2>8. \A d \in 1..Len(path) : Normalized(path)[d] = normalize_key(path[d])
    BY DEF Normalized
  <2>9. \A d \in 1..Len(path) :
            Normalized(path)[d] \notin AUTHORITY_KEYS \union AUTHORITY_KEY_ALIASES
    BY <2>5, <2>8 DEF ClaimsByKey
  <2> QED
    BY <2>3, <2>6, <2>7, <2>9 DEF p
<1>2. ShellInv => AdaptersClaimNothing
  BY <1>1 DEF AdaptersClaimNothing
<1> QED
  BY <1>2, ShellInvariant, PTL

\* Inbound data that is not quarantined came through normalisation and stripping whole:
\* each leaf is there, under a path of its own.
THEOREM NothingIsLostUnseen == Spec => []NothingLostUnseen
<1> DEFINE Inv == inbound = None \/ \E p \in InboundPayloads : inbound = normalize_inbound_payload(p)
<1>1. Init => Inv
  BY DEF Init
<1>2. Inv /\ [Next]_vars => Inv'
  <2> SUFFICES ASSUME Inv, [Next]_vars PROVE Inv'
    OBVIOUS
  <2>1. ASSUME NEW p \in InboundPayloads, Receive(p) PROVE Inv'
    BY <2>1 DEF Receive
  <2>2. CASE UNCHANGED inbound
    BY <2>2
  <2> QED
    BY <2>1, <2>2 DEF Next, vars, Register, register_capability, record_permission,
       register_recovery_action, AppendAudit, append_audit_event, RegisterAdapter,
       register_adapter, Review, Propose, queue_enqueue, Edit, edit, Decide, enqueue_approval,
       Route, route
<1>3. Inv => NothingLostUnseen
  <2> SUFFICES ASSUME NEW p \in InboundPayloads, inbound = normalize_inbound_payload(p),
                      ~inbound.quarantined
               PROVE  /\ Cardinality(inbound.stripped_payload) = Len(inbound.raw_payload)
                      /\ Cardinality(inbound.normalized_payload) = Len(inbound.raw_payload)
    BY DEF NothingLostUnseen
  <2>1. /\ inbound.raw_payload = p /\ inbound.normalized_payload = normalize_payload(p)
        /\ inbound.stripped_payload = strip_authority_keys(p)
        /\ inbound.quarantined = Quarantined(p)
    BY DEF normalize_inbound_payload
  <2> QED
    BY <2>1, NothingLost
<1> QED
  BY <1>1, <1>2, <1>3, PTL DEF Spec

-----------------------------------------------------------------------------
(* The types.                                                              *)

\* An approval stays one when its status changes and when a field of its payload is edited.
LEMMA ApprovalChanged ==
    ASSUME NEW r, IsApproval(r)
    PROVE  /\ \A s \in Statuses : LET q == [r EXCEPT !.status = s] IN
                  IsApproval(q) /\ q.approval_id = r.approval_id
           /\ \A p \in Payloads : \A field \in DOMAIN p :
                  LET q == edited(r, field, p[field]) IN
                  IsApproval(q) /\ q.approval_id = r.approval_id
<1>1. ASSUME NEW s \in Statuses
      PROVE  LET q == [r EXCEPT !.status = s] IN IsApproval(q) /\ q.approval_id = r.approval_id
  BY DEF IsApproval, ApprovalKeys
<1>2. ASSUME NEW p \in Payloads, NEW field \in DOMAIN p
      PROVE  LET q == edited(r, field, p[field]) IN
             IsApproval(q) /\ q.approval_id = r.approval_id
  <2> DEFINE payload == Put(r.full_payload, field, p[field])
             q == edited(r, field, p[field])
  <2>1. payload \in Payloads
    BY RecordsAssumption DEF IsApproval
  <2>2. canonical_hash(payload) \in Hashes
    BY <2>1 DEF Hashes
  <2>3. /\ DOMAIN q = ApprovalKeys /\ q.approval_id = r.approval_id
        /\ q.status = "requires_validation"
        /\ q.payload_hash = canonical_hash(payload) /\ q.full_payload = payload
    BY DEF edited, IsApproval, ApprovalKeys
  <2> HIDE DEF q, payload
  <2> QED
    BY <2>1, <2>2, <2>3 DEF IsApproval, Statuses, q
<1> QED
  BY <1>1, <1>2

\* What an adapter says of an approval is one.
LEMMA AdapterApproval ==
    ASSUME NEW s \in ApprovalSources
    PROVE  IsApproval(normalize_approval(s))
<1>1. s.payload_hash \in Hashes /\ s.status \in Statuses /\ s.full_payload \in Payloads
  BY RecordsAssumption DEF Hashes
<1> QED
  BY <1>1 DEF normalize_approval, IsApproval, ApprovalKeys, Statuses

\* An approval that is put into the queue or into the state lies under its id there.
LEMMA ApprovalPut ==
    ASSUME NEW table, NEW r, IsApproval(r),
           \A id \in DOMAIN table : table[id].approval_id = id /\ IsApproval(table[id])
    PROVE  \A id \in DOMAIN Put(table, r.approval_id, r) :
               /\ Put(table, r.approval_id, r)[id].approval_id = id
               /\ IsApproval(Put(table, r.approval_id, r)[id])
<1> DEFINE key == r.approval_id
           new == Put(table, key, r)
<1>1. /\ DOMAIN new = DOMAIN table \union {key}
      /\ new[key] = r
      /\ \A i \in DOMAIN table : i # key => new[i] = table[i]
  BY DEF Put
<1>2. key = r.approval_id
  OBVIOUS
<1> HIDE DEF key, new
<1>3. ASSUME NEW id \in DOMAIN new PROVE new[id].approval_id = id /\ IsApproval(new[id])
  <2>1. CASE id = key
    BY <2>1, <1>1, <1>2
  <2>2. CASE id # key
    BY <2>2, <1>1
  <2> QED
    BY <2>1, <2>2
<1> QED
  BY <1>3 DEF key, new

\* No step breaks ShellTypeOK.
LEMMA ShellTypeStep == ShellTypeOK /\ [Next]_vars => ShellTypeOK'
<1> SUFFICES ASSUME ShellTypeOK, [Next]_vars PROVE ShellTypeOK'
  OBVIOUS
<1>a. DOMAIN state = Tables
  BY DEF ShellTypeOK
<1>1. CASE UNCHANGED <<state, queue, granted>>
  BY <1>1 DEF ShellTypeOK
<1>2. ASSUME NEW r \in Capabilities, register_capability(r) PROVE ShellTypeOK'
  <2>1. state' = [state EXCEPT !["capabilities"] = Put(@, r.capability_id, r)]
        /\ UNCHANGED <<queue, granted>>
    BY <1>2 DEF register_capability
  <2> QED
    BY <2>1, <1>a DEF ShellTypeOK, Tables
<1>3. ASSUME NEW r \in Permissions, record_permission(r) PROVE ShellTypeOK'
  <2>1. /\ DOMAIN state' = Tables
        /\ state'.permissions = Put(state.permissions, r.permission_id, r)
        /\ state'.approvals = state.approvals /\ state'.audit_events = state.audit_events
        /\ UNCHANGED <<queue, granted>>
    BY <1>3, <1>a DEF record_permission, Tables
  <2>2. \A id \in DOMAIN state'.permissions : state'.permissions[id].permission_id = id
    BY <2>1 DEF ShellTypeOK, Put
  <2> QED
    BY <2>1, <2>2 DEF ShellTypeOK
<1>4. ASSUME NEW r \in Recoveries, register_recovery_action(r) PROVE ShellTypeOK'
  <2>1. state' = [state EXCEPT !["recovery_actions"] = Put(@, r.recovery_id, r)]
        /\ UNCHANGED <<queue, granted>>
    BY <1>4 DEF register_recovery_action
  <2> QED
    BY <2>1, <1>a DEF ShellTypeOK, Tables
<1>5. ASSUME NEW r \in AuditEvents, append_audit_event(r) PROVE ShellTypeOK'
  <2>1. /\ DOMAIN state' = Tables
        /\ state'.audit_events = Put(state.audit_events, r.event_id, r)
        /\ state'.approvals = state.approvals /\ state'.permissions = state.permissions
        /\ UNCHANGED <<queue, granted>>
    BY <1>5, <1>a DEF append_audit_event, Tables
  <2>2. \A id \in DOMAIN state'.audit_events : state'.audit_events[id].event_id = id
    BY <2>1 DEF ShellTypeOK, Put
  <2> QED
    BY <2>1, <2>2 DEF ShellTypeOK
<1>6. ASSUME NEW r \in Adapters, register_adapter(r) PROVE ShellTypeOK'
  <2>1. state' = [state EXCEPT !["adapters"] =
                      Put(@, r.adapter_id, strip_authority_keys(r.metadata))]
        /\ UNCHANGED <<queue, granted>>
    BY <1>6 DEF register_adapter
  <2> QED
    BY <2>1, <1>a DEF ShellTypeOK, Tables
<1>7. ASSUME NEW r, IsApproval(r), queue_enqueue(r) PROVE ShellTypeOK'
  <2>1. queue' = Put(queue, r.approval_id, r) /\ UNCHANGED <<state, granted>>
    BY <1>7 DEF queue_enqueue
  <2>2. \A id \in DOMAIN queue' : queue'[id].approval_id = id /\ IsApproval(queue'[id])
    BY <2>1, <1>7, ApprovalPut DEF ShellTypeOK
  <2> QED
    BY <2>1, <2>2 DEF ShellTypeOK
<1>8. ASSUME NEW r, IsApproval(r), enqueue_approval(r) PROVE ShellTypeOK'
  <2>1. /\ DOMAIN state' = Tables
        /\ state'.approvals = Put(state.approvals, r.approval_id, r)
        /\ state'.audit_events = state.audit_events /\ state'.permissions = state.permissions
        /\ queue' = queue /\ granted' \subseteq granted \union {r.payload_hash}
    BY <1>8, <1>a DEF enqueue_approval, Tables
  <2>2. r.payload_hash \in Hashes
    BY <1>8 DEF IsApproval
  <2>3. PICK table : table = state.approvals
    OBVIOUS
  <2>4. \A id \in DOMAIN table : table[id].approval_id = id /\ IsApproval(table[id])
    BY <2>3 DEF ShellTypeOK
  <2>5. \A id \in DOMAIN Put(table, r.approval_id, r) :
            /\ Put(table, r.approval_id, r)[id].approval_id = id
            /\ IsApproval(Put(table, r.approval_id, r)[id])
    BY <2>4, <1>8, ApprovalPut
  <2>6. PICK new : new = state'.approvals
    OBVIOUS
  <2>7. \A id \in DOMAIN new : new[id].approval_id = id /\ IsApproval(new[id])
    BY <2>1, <2>3, <2>5, <2>6
  <2> QED
    BY <2>1, <2>2, <2>6, <2>7 DEF ShellTypeOK
<1>9. CASE Decide
  <2>1. PICK id \in DOMAIN queue, s \in Statuses \ {"pending", "expired"} :
            enqueue_approval([queue[id] EXCEPT !.status = s])
    BY <1>9 DEF Decide
  <2>2. IsApproval([queue[id] EXCEPT !.status = s])
    BY ApprovalChanged DEF ShellTypeOK
  <2> QED
    BY <2>1, <2>2, <1>8
<1>10. CASE Review
  <2>1. PICK id \in DOMAIN state.approvals :
            queue_enqueue([state.approvals[id] EXCEPT !.status = "pending"])
    BY <1>10 DEF Review
  <2>2. IsApproval([state.approvals[id] EXCEPT !.status = "pending"])
    BY ApprovalChanged DEF ShellTypeOK, Statuses
  <2> QED
    BY <2>1, <2>2, <1>7
<1>11. CASE Propose
  BY <1>7, <1>11, AdapterApproval DEF Propose
<1>12. CASE Edit
  <2>1. PICK id \in DOMAIN queue, p \in Payloads : \E field \in DOMAIN p : edit(id, field, p[field])
    BY <1>12 DEF Edit
  <2>2. PICK field \in DOMAIN p : edit(id, field, p[field])
    BY <2>1
  <2> DEFINE r == edited(queue[id], field, p[field])
  <2>3. IsApproval(r) /\ r.approval_id = id
    BY ApprovalChanged DEF ShellTypeOK
  <2>4. queue' = [queue EXCEPT ![id] = r] /\ UNCHANGED <<state, granted>>
    BY <2>2 DEF edit
  <2> HIDE DEF r
  <2> QED
    BY <2>3, <2>4 DEF ShellTypeOK
<1> QED
  BY <1>1, <1>2, <1>3, <1>4, <1>5, <1>6, <1>9, <1>10, <1>11, <1>12
  DEF Next, vars, Register, AppendAudit, RegisterAdapter, Route, route, Receive

\* The records of the shell core lie under their ids and are well formed, and no hash was
\* ever granted but that of a payload or of an adapter's approval.
THEOREM ShellTypes == Spec => []ShellTypeOK
<1>1. Init => ShellTypeOK
  <2> SUFFICES ASSUME Init PROVE ShellTypeOK
    OBVIOUS
  <2>1. state = InitialState /\ DOMAIN queue = {}
    BY DEF Init
  <2>2. granted \subseteq Hashes
    BY RecordsAssumption DEF Init, IsApproval
  <2> QED
    BY <2>1, <2>2, StateAssumption, RecordsAssumption DEF ShellTypeOK
<1> QED
  BY <1>1, ShellTypeStep, PTL DEF Spec

-----------------------------------------------------------------------------
(* What edits leave alone.                                                 *)

\* Deciding on an approval leaves alone what edits have made of it.
LEMMA StatusKeepsOrigin ==
    ASSUME NEW r, DOMAIN r = ApprovalKeys, NEW o, EditedFrom(r, o), NEW s
    PROVE  EditedFrom([r EXCEPT !.status = s], o)
<1> DEFINE q == [r EXCEPT !.status = s]
<1>1. \A k \in ApprovalKeys \ {"status"} : q[k] = r[k]
  OBVIOUS
<1>2. q.full_payload = r.full_payload /\ q.payload_hash = r.payload_hash
  BY <1>1 DEF ApprovalKeys
<1> HIDE DEF q
<1> QED
  BY <1>1, <1>2 DEF EditedFrom, q

\* An edit that is allowed makes of an approval what edits of its origin may have made.
LEMMA EditKeepsOrigin ==
    ASSUME NEW r, DOMAIN r = ApprovalKeys, NEW o, EditedFrom(r, o),
           NEW field, can_edit(r, field), NEW value
    PROVE  EditedFrom(edited(r, field, value), o)
<1> DEFINE payload == Put(r.full_payload, field, value)
           q == edited(r, field, value)
           free == o.editable_fields \ protected_fields(o)
<1>1. \A k \in ApprovalKeys \ {"status", "full_payload", "payload_hash"} : q[k] = r[k]
  BY DEF edited, ApprovalKeys
<1>2. q.full_payload = payload /\ q.payload_hash = canonical_hash(payload)
  BY DEF edited, ApprovalKeys
<1>3. r.editable_fields = o.editable_fields /\ r.sealed_fields = o.sealed_fields
  BY DEF EditedFrom, ApprovalKeys
<1>4. field \in free
  BY <1>3 DEF can_edit, protected_fields
<1>5. /\ DOMAIN payload = DOMAIN r.full_payload \union {field}
      /\ \A f \in DOMAIN r.full_payload : f # field => payload[f] = r.full_payload[f]
  BY DEF Put
<1>6. /\ DOMAIN r.full_payload \ free = DOMAIN o.full_payload \ free
      /\ \A f \in DOMAIN o.full_payload \ free : r.full_payload[f] = o.full_payload[f]
      /\ \A k \in ApprovalKeys \ {"status", "full_payload", "payload_hash"} : r[k] = o[k]
  BY DEF EditedFrom
<1> HIDE DEF payload, q, free
<1>7. DOMAIN q.full_payload \ free = DOMAIN o.full_payload \ free
  BY <1>2, <1>4, <1>5, <1>6
<1>8. \A f \in DOMAIN o.full_payload \ free : q.full_payload[f] = o.full_payload[f]
  BY <1>2, <1>4, <1>5, <1>6
<1>9. \A k \in ApprovalKeys \ {"status", "full_payload", "payload_hash"} : q[k] = o[k]
  BY <1>1, <1>6
<1>10. q.payload_hash = canonical_hash(q.full_payload)
  BY <1>2
<1> QED
  BY <1>7, <1>8, <1>9, <1>10 DEF EditedFrom, free, q

\* A table of approvals in which each comes from an origin.
HaveOrigins(table) == \A id \in DOMAIN table : \E o \in Origins : EditedFrom(table[id], o)

\* An approval with an origin is put beside others that have one.
LEMMA OriginPut ==
    ASSUME NEW table, HaveOrigins(table), NEW id, NEW r, NEW o \in Origins, EditedFrom(r, o)
    PROVE  HaveOrigins(Put(table, id, r))
<1> DEFINE new == Put(table, id, r)
<1>1. /\ DOMAIN new = DOMAIN table \union {id}
      /\ new[id] = r
      /\ \A i \in DOMAIN table : i # id => new[i] = table[i]
  BY DEF Put
<1> HIDE DEF new
<1>2. HaveOrigins(new)
  BY <1>1 DEF HaveOrigins
<1> QED
  BY <1>2 DEF new

\* No step brings an approval without an origin into the queue or the state.
LEMMA OriginsStep ==
    ShellTypeOK /\ EditsKeepTheRest /\ [Next]_vars => EditsKeepTheRest'
<1> SUFFICES ASSUME ShellTypeOK, EditsKeepTheRest, [Next]_vars PROVE EditsKeepTheRest'
  OBVIOUS
<1>a. DOMAIN state = Tables /\ "approvals" \in Tables
  BY DEF ShellTypeOK, Tables
<1>b. HaveOrigins(queue) /\ HaveOrigins(state.approvals)
  BY DEF EditsKeepTheRest, HaveOrigins
<1>c. /\ \A id \in DOMAIN queue : DOMAIN queue[id] = ApprovalKeys
      /\ \A id \in DOMAIN state.approvals : DOMAIN state.approvals[id] = ApprovalKeys
  BY DEF ShellTypeOK, IsApproval
<1> SUFFICES HaveOrigins(queue') /\ HaveOrigins(state'.approvals)
  BY DEF EditsKeepTheRest, HaveOrigins
<1>1. CASE queue' = queue /\ state'.approvals = state.approvals
  BY <1>1, <1>b
<1>2. ASSUME NEW r, NEW o \in Origins, EditedFrom(r, o), queue_enqueue(r)
      PROVE  HaveOrigins(queue') /\ HaveOrigins(state'.approvals)
  BY <1>2, <1>b, OriginPut DEF queue_enqueue
<1>3. CASE Decide
  <2>1. PICK id \in DOMAIN queue, s \in Statuses \ {"pending", "expired"} :
            enqueue_approval([queue[id] EXCEPT !.status = s])
    BY <1>3 DEF Decide
  <2>2. PICK o \in Origins : EditedFrom(queue[id], o)
    BY <1>b DEF HaveOrigins
  <2> DEFINE r == [queue[id] EXCEPT !.status = s]
  <2>3. EditedFrom(r, o)
    BY <2>2, <1>c, StatusKeepsOrigin
  <2>4. queue' = queue /\ state'.approvals = Put(state.approvals, r.approval_id, r)
    BY <2>1, <1>a DEF enqueue_approval
  <2> HIDE DEF r
  <2> QED
    BY <2>3, <2>4, <1>b, OriginPut
<1>4. CASE Review
  <2>1. PICK id \in DOMAIN state.approvals :
            queue_enqueue([state.approvals[id] EXCEPT !.status = "pending"])
    BY <1>4 DEF Review
  <2>2. PICK o \in Origins : EditedFrom(state.approvals[id], o)
    BY <1>b DEF HaveOrigins
  <2>3. EditedFrom([state.approvals[id] EXCEPT !.status = "pending"], o)
    BY <2>2, <1>c, StatusKeepsOrigin
  <2> QED
    BY <2>1, <2>3, <1>2
<1>5. CASE Propose
  <2>1. PICK s \in ApprovalSources : queue_enqueue(normalize_approval(s))
    BY <1>5 DEF Propose
  <2>2. normalize_approval(s) \in Origins
    BY DEF Origins
  <2>3. EditedFrom(normalize_approval(s), normalize_approval(s))
    BY DEF EditedFrom
  <2> QED
    BY <2>1, <2>2, <2>3, <1>2
<1>6. CASE Edit
  <2>1. PICK id \in DOMAIN queue, p \in Payloads : \E field \in DOMAIN p : edit(id, field, p[field])
    BY <1>6 DEF Edit
  <2>2. PICK field \in DOMAIN p : edit(id, field, p[field])
    BY <2>1
  <2>3. PICK o \in Origins : EditedFrom(queue[id], o)
    BY <1>b DEF HaveOrigins
  <2> DEFINE r == edited(queue[id], field, p[field])
  <2>4. can_edit(queue[id], field)
    BY <2>2 DEF edit
  <2>5. EditedFrom(r, o)
    BY <2>3, <2>4, <1>c, EditKeepsOrigin
  <2>6. queue' = [queue EXCEPT ![id] = r] /\ state' = state
    BY <2>2 DEF edit
  <2> HIDE DEF r
  <2>7. HaveOrigins(queue')
    BY <2>5, <2>6, <1>b DEF HaveOrigins
  <2> QED
    BY <2>6, <2>7, <1>b
<1>7. CASE Register \/ AppendAudit \/ RegisterAdapter
  <2>1. queue' = queue /\ state'.approvals = state.approvals
    BY <1>7, <1>a DEF Register, register_capability, record_permission,
       register_recovery_action, AppendAudit, append_audit_event, RegisterAdapter, register_adapter
  <2> QED
    BY <2>1, <1>1
<1> QED
  BY <1>1, <1>3, <1>4, <1>5, <1>6, <1>7 DEF Next, vars, Route, route, Receive

\* Whatever is proposed, edited, decided, reviewed and edited again: no approval has become
\* anything but its origin with other values in the fields that may be edited, under the
\* hash of the payload it has.
THEOREM EditsStayInBounds == Spec => []EditsKeepTheRest
<1>1. Init => EditsKeepTheRest
  <2> SUFFICES ASSUME Init PROVE EditsKeepTheRest
    OBVIOUS
  <2>1. state = InitialState /\ DOMAIN queue = {}
    BY DEF Init
  <2>2. \A o : EditedFrom(o, o)
    BY DEF EditedFrom
  <2> QED
    BY <2>1, <2>2 DEF EditsKeepTheRest, Origins
<1> QED
  BY <1>1, OriginsStep, ShellTypes, PTL DEF Spec

=============================================================================
