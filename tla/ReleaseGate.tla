---------------------------- MODULE ReleaseGate -----------------------------
(* tooling/release_gate_check.py: what the documents say of open work and  *)
(* of releases, the registry of release blockers, and the agreement of the *)
(* two with each other and with the Windows evidence.                      *)
(*                                                                         *)
(* The content of a document is a record: its lines, each with whether it  *)
(* speaks of open work and whether it names a classification; what it says *)
(* of a release; its claims of macOS support; and its blocks about release *)
(* blockers.                                                               *)
EXTENDS Manifest, WindowsEvidence

CONSTANTS
    SCAN_FILES,                  \* the documents that are read
    CURRENT_FACING_RELEASE_DOCS  \* those whose blocks must agree with the registry

ASSUME CurrentFacingAssumption == CURRENT_FACING_RELEASE_DOCS \subseteq SCAN_FILES

RELEASE_BLOCKERS_REGISTRY == <<"release_blockers.registry.json">>
DEFAULT_EVIDENCE_PATH == <<"release_evidence", "windows_installed_smoke.json">>
WINDOWS_EVIDENCE_STATUS_SOURCE == "windows_release_evidence"

\* The evidence in a tree; what is no JSON object counts as missing.
load_evidence(t) ==
    IF DEFAULT_EVIDENCE_PATH \in DOMAIN t.files
    THEN t.files[DEFAULT_EVIDENCE_PATH].evidence ELSE None

WindowsResults(t) == validate_windows_release_evidence(load_evidence(t))

-----------------------------------------------------------------------------
(* The documents.                                                          *)

\* Two lines before the line and three behind it.
classified_near(lines, i) ==
    \E j \in DOMAIN lines : i - 2 <= j /\ j <= i + 3 /\ lines[j].classified

scan_file(t, doc) ==
    IF doc \notin DOMAIN t.files THEN {<<"document", doc>>}
    ELSE LET lines == t.files[doc].lines IN
         {<<"unclassified", doc>> : i \in {j \in DOMAIN lines :
             lines[j].open /\ ~classified_near(lines, j)}}

Documents(t) == {t.files[doc] : doc \in SCAN_FILES \intersect DOMAIN t.files}

\* All documents are one text, so one that says "not yet" speaks for the others.
release_claim_exists_without_classification(t) ==
    LET says == UNION {d.says : d \in Documents(t)} IN
    {"completed product release", "release_blocker"} \subseteq says /\ "not yet" \notin says

macos_support_claim_errors(t) ==
    Failing(\E d \in Documents(t) : "unhedged" \in d.macos, <<"macos claim">>)

-----------------------------------------------------------------------------
(* The registry.                                                           *)

RegistryFields ==
    {"name", "status", "status_source", "active", "classification", "blocks_release",
     "reason", "required_action"}

Registry(t) ==
    IF RELEASE_BLOCKERS_REGISTRY \in DOMAIN t.files
       /\ "blockers" \in DOMAIN t.files[RELEASE_BLOCKERS_REGISTRY]
    THEN t.files[RELEASE_BLOCKERS_REGISTRY].blockers ELSE None

\* The number one passes as true.
BlockerErrors(b) ==
    {<<"registry", f>> : f \in RegistryFields \ DOMAIN b}
    \union
    IF ~RegistryFields \subseteq DOMAIN b THEN {}
    ELSE Failing(b.classification # "release_blocker", <<"registry", "classification">>)
         \union Failing(b.blocks_release # "true", <<"registry", "blocks_release">>)
         \union Failing(b.active \notin {"true", "false", "1", "0"}, <<"registry", "active">>)
         \union Failing(b.status \notin {"unresolved", "resolved"}, <<"registry", "status">>)
         \union Failing(b.status_source \notin {"manual", WINDOWS_EVIDENCE_STATUS_SOURCE},
                        <<"registry", "status_source">>)
         \union Failing(b.status_source = WINDOWS_EVIDENCE_STATUS_SOURCE
                        /\ ("evidence_result" \notin DOMAIN b \/ b.evidence_result = None),
                        <<"registry", "evidence_result">>)

registry_errors(t) ==
    LET r == Registry(t) IN
    IF r = None THEN {<<"registry", "missing">>}
    ELSE (UNION {BlockerErrors(r[i]) : i \in DOMAIN r})
         \union {<<"registry", "duplicate">> : i \in {j \in DOMAIN r :
                    \E k \in 1..(j - 1) : r[k].name = r[j].name}}

registry_blocker_names(t) ==
    {Registry(t)[i].name : i \in {j \in DOMAIN Registry(t) : "name" \in DOMAIN Registry(t)[j]}}

\* mutant: what the registry says of an evidence counts
effective_release_blocker_trusting(b, results) == b

\* A blocker that comes from the Windows evidence is resolved when its result passed,
\* whatever the registry says.
effective_release_blocker(b, results) ==
    IF b.status_source # WINDOWS_EVIDENCE_STATUS_SOURCE THEN b
    ELSE [b EXCEPT !.status = IF b.evidence_result \in DOMAIN results
                                 /\ results[b.evidence_result] = {}
                              THEN "resolved" ELSE "unresolved"]

unresolved_active_blockers(t) ==
    LET r == Registry(t) IN
    {b \in {effective_release_blocker(r[i], WindowsResults(t)) : i \in DOMAIN r} :
        /\ b.active = "true" /\ b.status = "unresolved"
        /\ b.classification = "release_blocker" /\ b.blocks_release = "true"}

-----------------------------------------------------------------------------
(* The blocks of the documents about release blockers.  A block has the    *)
(* form of an item of a list, of a row of a table, or of a rule; its       *)
(* markers with what they refer to; and the markers that are set to true.  *)

DOC_SYNC_MARKERS == {"registry_id", "aggregate_of", "superseded_by", "historical", "example"}
References == {"registry_id", "aggregate_of", "superseded_by"}

\* A block that starts with the line of a rule is left out: that line is no
\* "classification:" at the beginning of a line.
release_blocker_doc_blocks(doc) == {b \in doc.blocks : b.form \in {"item", "row"}}

BlockErrors(b, names) ==
    IF b.markers = {} THEN {<<"block", "marker">>}
    ELSE {<<"block", "unknown">> : ref \in b.refs \ names}
         \union Failing(b.markers \intersect References = {} /\ b.truthy = {},
                        <<"block", "unbound">>)

release_blocker_doc_sync_errors(t) ==
    (UNION {BlockErrors(b, registry_blocker_names(t)) :
              b \in UNION {release_blocker_doc_blocks(t.files[doc]) :
                           doc \in CURRENT_FACING_RELEASE_DOCS \intersect DOMAIN t.files}})
    \union {<<"document", doc>> : doc \in CURRENT_FACING_RELEASE_DOCS \ DOMAIN t.files}

-----------------------------------------------------------------------------
\* main: the documents are compared with a registry that is sound, and the blockers
\* counted when nothing else was found; the claims and the manifest are always checked.
release_gate(t, strict) ==
    LET scanned == (UNION {scan_file(t, doc) : doc \in SCAN_FILES}) \union registry_errors(t)
        synced  == IF scanned = {} THEN release_blocker_doc_sync_errors(t) ELSE {}
    IN scanned \union synced
       \union (IF strict /\ scanned \union synced = {}
               THEN {<<"unresolved", b.name>> : b \in unresolved_active_blockers(t)} ELSE {})
       \union Failing(release_claim_exists_without_classification(t), <<"release claim">>)
       \union macos_support_claim_errors(t)
       \union check_manifest(t)

=============================================================================
