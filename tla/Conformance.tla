---------------------------- MODULE Conformance ------------------------------
(* tooling/conformance_tests/run_conformance_skeleton.py and               *)
(* tooling/evidence_bundle.py: the tests whose outcome depends on the      *)
(* documents, the manifest, the registry and the evidence of a tree, and   *)
(* those of the evidence's validation.  A test is the set of its errors.   *)
EXTENDS ReleaseGate, RuntimeAssertions

CONSTANTS
    PolicyDocs,              \* the documents that must state the language policy
    RELEASE_HARDENING_FILES  \* the documents that must not claim too much

-----------------------------------------------------------------------------
(* A valid record of the installed Windows product, and what the tests     *)
(* change in it.                                                           *)

SurfaceMatch(label) ==
    [good |-> {"matched", "control_type"}, element_key |-> label, labels |-> {label},
     aggregate_title |-> FALSE]

ValidProvenance ==
    [good |-> {"run_id", "source_commit", "source_worktree_clean", "source_status_porcelain",
               "build_command", "build_timestamp", "staged_manifest_path",
               "installed_manifest_sha256", "broker_artifact_sha256", "evidence_bundle_sha256"},
     app_artifact_sha256 |-> "app",
     isolation |-> [good |-> IsolatedPaths \union
                        {"uses_shared_fixed_install_root", "not the legacy root"}],
     evidence_bundle_files |->
        LET kinds == Listed(BASE_REQUIRED_EVIDENCE_BUNDLE_KINDS
                              \union AUDIT_REQUIRED_EVIDENCE_BUNDLE_KINDS)
        IN [i \in DOMAIN kinds |-> [kind |-> kinds[i], good |-> {"path", "sha256"}]],
     final_evidence_sha256 |-> None]

ValidFieldProvenance ==
    LET required == BASE_REQUIRED_FIELD_PROVENANCE @@ AUDIT_REQUIRED_FIELD_PROVENANCE
    IN [group \in DOMAIN required |->
           [good |-> {"formal_release_input"}, source_type |-> required[group].source_type,
            evidence_class |-> {CHOOSE c \in required[group].evidence_class : TRUE}]]

ValidFirstRun ==
    [good |-> FirstRunFields, visible |-> REQUIRED_VISIBLE_SURFACES,
     surfaces |->
        [good |-> {"source", "path", "aggregate_surface_shortcut_detected",
                   "surface_match_requirements_met"},
         matches |-> [label \in REQUIRED_VISIBLE_SURFACES |-> SurfaceMatch(label)],
         diagnostic_tree |-> [good |-> {"tree_edges"},
                              observed |-> <<ObservedElementKeys, ObservedElementKeys>>]]]

ValidSetupDoctor ==
    [good |-> {"formal_product_evidence", "status", "ran_from_installed_app_path",
               "operator_readable", "installer_grants_authority",
               "installer_silently_approves_permissions"},
     evidence_source |-> [good |-> {"source_kind", "product_generated",
                                    "collector_derives_checks", "synthetic", "command"}],
     checks |-> LET ids == Listed(REQUIRED_SETUP_CHECKS) IN
                [i \in DOMAIN ids |->
                    [check_id |-> ids[i],
                     good |-> {"status", "grants_authority", "recovery_instruction"}]]]

ValidBroker ==
    [good |-> REQUIRED_BROKER_TRUE_FIELDS \union
              {"status", "endpoint_host", "replay_error_code", "no declarations",
               "unmeasured_declarations", "errors"},
     measured |-> REQUIRED_BROKER_TRUE_FIELDS,
     evidence_source |-> [good |-> {"collector", "collector_version", "synthetic", "command"}]]

ValidAuditAnchor ==
    [good |-> {"status", "installed_path_verified",
               "key_anchor_log_same_user_rewrite_mitigated"},
     protections |-> {"windows_acl_verified", "dpapi_verified"},
     administrator_root_resistance_claimed |-> FALSE,
     evidence_source |-> [good |-> {"source_kind", "evidence_class", "synthetic", "command",
                                    "path", "sha256"}]]

valid_windows_installed_evidence ==
    [good |-> {"platform"}, provenance |-> ValidProvenance,
     field_provenance |-> ValidFieldProvenance, unsupported_claims |-> FALSE,
     evidence_source |-> [good |-> {"collector", "collector_version", "manual_confirmation"}],
     artifact |-> [good |-> {"installed_exe_exists", "installed_exe_path"}, sha256 |-> "app"],
     first_run |-> ValidFirstRun, setup_doctor |-> ValidSetupDoctor, broker |-> ValidBroker,
     audit_anchor |-> ValidAuditAnchor]

Valid == valid_windows_installed_evidence

\* The results that a document fails.
FailedResults(d) ==
    {name \in WindowsResultNames : validate_windows_release_evidence(d)[name] # {}}

\* A test expects that these results fail, and lets the others do what they do.
MustFail(test, d, names) == {<<test, name>> : name \in names \ FailedResults(d)}

test_accepts_valid_installed_smoke == {<<"valid", name>> : name \in FailedResults(Valid)}

test_rejects_missing_provenance ==
    MustFail("provenance", [Valid EXCEPT !.provenance = None],
             {"windows_evidence_provenance_isolation"})

\* Without the proof of the audit anchor its own result fails, and not the provenance.
WithoutAnchorProof ==
    [Valid EXCEPT
        !.audit_anchor = None,
        !.field_provenance["audit_anchor.external_tamper_evidence"] = None,
        !.provenance.evidence_bundle_files =
            SelectSeq(@, LAMBDA f : f.kind \notin AUDIT_REQUIRED_EVIDENCE_BUNDLE_KINDS)]

test_preserves_audit_anchor_external_blocker ==
    MustFail("anchor", WithoutAnchorProof, {"audit_anchor_external_tamper_evidence_proof"})
    \union Failing("windows_evidence_provenance_isolation" \in FailedResults(WithoutAnchorProof),
                   <<"anchor", "provenance">>)

test_rejects_authority_and_missing_installed_path ==
    MustFail("authority",
             [Valid EXCEPT
                !.artifact.good = @ \ {"installed_exe_exists"},
                !.first_run.good = @ \ {"installer_grants_authority"},
                !.setup_doctor.checks[1].good = @ \ {"grants_authority"}],
             {"windows_installer_first_run_smoke", "windows_setup_doctor_smoke"})

test_rejects_external_setup_probe_as_product_evidence ==
    MustFail("probe",
             [Valid EXCEPT
                !.setup_doctor.good = @ \ {"formal_product_evidence"},
                !.setup_doctor.evidence_source.good =
                    @ \ {"source_kind", "product_generated", "collector_derives_checks"},
                !.field_provenance["setup_doctor"].source_type = "external_probe"],
             {"windows_setup_doctor_smoke", "windows_evidence_provenance_isolation"})

test_rejects_unmeasured_or_synthetic_evidence ==
    MustFail("synthetic",
             [Valid EXCEPT
                !.evidence_source.good = @ \ {"manual_confirmation"},
                !.first_run.good =
                    @ \ {"main_window_handle", "config_json_valid", "audit_write_probe",
                         "broker_mediated_launch", "python_commands_visible_after_scrub",
                         "visible_surfaces_complete"},
                !.first_run.surfaces = [good |-> {}, matches |-> None, diagnostic_tree |-> None],
                !.setup_doctor.evidence_source.good = @ \ {"synthetic"},
                !.setup_doctor.checks = SubSeq(@, 1, 1),
                !.broker.evidence_source.good = @ \ {"synthetic"},
                !.broker.good = @ \ {"restricted_loopback_bind", "restart_replay_rejected",
                                     "no declarations"}],
             {"windows_installer_first_run_smoke", "windows_setup_doctor_smoke",
              "windows_broker_installed_smoke"})

test_rejects_broker_top_level_unmeasured_declarations ==
    MustFail("declarations", [Valid EXCEPT !.broker.good = @ \ {"no declarations"}],
             {"windows_broker_installed_smoke"})

test_rejects_missing_surface_matches ==
    MustFail("matches",
             [Valid EXCEPT
                !.first_run.surfaces.matches = None,
                !.first_run.surfaces.good = @ \ {"aggregate_surface_shortcut_detected",
                                                 "surface_match_requirements_met"}],
             {"windows_installer_first_run_smoke"})

test_rejects_screenshot_surface_source ==
    MustFail("screenshot", [Valid EXCEPT !.first_run.surfaces.good = @ \ {"source"}],
             {"windows_installer_first_run_smoke"})

\* One element that shows everything, found for every label.
AggregateMatch ==
    [good |-> {"matched"}, element_key |-> "root", labels |-> REQUIRED_VISIBLE_SURFACES,
     aggregate_title |-> TRUE]

test_rejects_aggregate_surface_root_match ==
    MustFail("aggregate",
             [Valid EXCEPT
                !.first_run.surfaces.matches = [label \in DOMAIN @ |-> AggregateMatch],
                !.first_run.surfaces.good = @ \ {"aggregate_surface_shortcut_detected",
                                                 "surface_match_requirements_met"}],
             {"windows_installer_first_run_smoke"})

EvidenceTests ==
    test_accepts_valid_installed_smoke \union test_rejects_missing_provenance
    \union test_preserves_audit_anchor_external_blocker
    \union test_rejects_authority_and_missing_installed_path
    \union test_rejects_external_setup_probe_as_product_evidence
    \union test_rejects_unmeasured_or_synthetic_evidence
    \union test_rejects_broker_top_level_unmeasured_declarations
    \union test_rejects_missing_surface_matches
    \union test_rejects_screenshot_surface_source
    \union test_rejects_aggregate_surface_root_match

-----------------------------------------------------------------------------
(* The evidence bundle of the development.                                 *)

\* Marked stands for what a tool finds in the files that no module here models.
Marked(t, tool) == {<<tool, p>> : p \in {q \in DOMAIN t.files :
    "fails" \in DOMAIN t.files[q] /\ tool \in t.files[q].fails}}

\* It never claims to be ready, and its blockers are the results that the evidence fails.
build_evidence_bundle(t) ==
    [release_ready |-> FALSE, classification |-> "development_evidence",
     blockers |-> {name \in WindowsResultNames : WindowsResults(t)[name] # {}},
     runtime_assertions |-> release_runtime_assertions(t), smoke |-> Marked(t, "smoke")]

validate_evidence_bundle(b) ==
    Failing(b.release_ready, <<"bundle", "ready">>)
    \union Failing(b.runtime_assertions # {}, <<"bundle", "assertions">>)
    \union Failing(b.smoke # {}, <<"bundle", "smoke">>)

-----------------------------------------------------------------------------
(* The tests of a tree.                                                    *)

test_evidence_bundle_is_development_classified(t) ==
    LET b == build_evidence_bundle(t) IN
    validate_evidence_bundle(b)
    \union Failing(b.classification # "development_evidence", <<"bundle", "class">>)
    \union Failing(b.blockers = {} /\ load_evidence(t) = None, <<"bundle", "no blocker">>)
    \union Failing(load_evidence(t) = None
                   /\ "audit_anchor_external_tamper_evidence_proof" \notin b.blockers,
                   <<"bundle", "anchor">>)

\* The strict gate is expected to fail.
test_validate_all_strict_release_runs_release_gate_strict_scan(t) ==
    Failing(release_gate(t, TRUE) = {}, <<"strict gate passed">>)

\* And the registry is expected to hold a blocker that is open by its own account.
test_release_blocker_registry_controls_strict_release(t) ==
    LET r == Registry(t) IN
    IF r = None THEN {<<"no registry">>}
    ELSE LET active == {i \in DOMAIN r : /\ {"active", "status"} \subseteq DOMAIN r[i]
                                         /\ r[i].active = "true"
                                         /\ r[i].status = "unresolved"} IN
         Failing(active = {}, <<"no active blocker">>)
         \union {<<"active blocker">> : i \in {j \in active :
                    {"classification", "blocks_release"} \subseteq DOMAIN r[j] =>
                        r[j].classification # "release_blocker" \/ r[j].blocks_release # "true"}}

CanonicalBlockers == WindowsResultNames \union {"owner_go"}

test_release_facing_docs_sync_release_blockers_to_registry(t) ==
    IF Registry(t) = None THEN {<<"exception">>}
    ELSE release_blocker_doc_sync_errors(t)
         \union {<<"no blocker", name>> : name \in CanonicalBlockers \ registry_blocker_names(t)}

\* Git lists nothing where it fails.
test_packaging_portability_checker_exists(t) ==
    portable_path_errors(IF t.git THEN t.tracked \intersect DOMAIN t.files ELSE {})

test_desktop_flutter_does_not_spawn_python_or_use_ffi_authority_bridge(t) ==
    scan_files(t, desktop_lib_files(t),
               {"Process.run", "Process.start", "Process.killPid", "dart:ffi",
                "flutter_rust_bridge", "MethodChannel("})

PolicyTokens == {"rust security broker", "release_blocker", "production ipc",
                 "no-python-runtime", "no-ffi-authority"}

test_release_docs_declare_language_policy_runtime_blockers(t) ==
    {<<"document", doc>> : doc \in PolicyDocs \ DOMAIN t.files}
    \union {<<"policy", doc>> : doc \in {d \in PolicyDocs \intersect DOMAIN t.files :
               ~PolicyTokens \subseteq t.files[d].says}}

\* A claim counts unless the document denies it somewhere.
test_release_hardening_does_not_overclaim_readiness(t) ==
    {<<"claim", doc>> : doc \in {d \in RELEASE_HARDENING_FILES \intersect DOMAIN t.files :
        "production ready" \in t.files[d].says /\ "not production ready" \notin t.files[d].says}}

RequiredSources ==
    {<<"ROADMAP.md">>, <<"apps", "desktop_flutter", "windows", "runner", "main.cpp">>,
     <<"tooling", "manifest.py">>}

\* Only three of the sources that it asks for are named here.
test_manifest_integrity_tooling_exists(t) ==
    expected_files(t).errors
    \union {<<"not in the manifest", p>> : p \in RequiredSources \ expected_files(t).files}

\* main: all tests are run, and all errors are shown.
conformance(t) ==
    EvidenceTests
    \union test_evidence_bundle_is_development_classified(t)
    \union test_validate_all_strict_release_runs_release_gate_strict_scan(t)
    \union test_release_blocker_registry_controls_strict_release(t)
    \union test_release_facing_docs_sync_release_blockers_to_registry(t)
    \union test_packaging_portability_checker_exists(t)
    \union test_desktop_flutter_does_not_spawn_python_or_use_ffi_authority_bridge(t)
    \union test_release_docs_declare_language_policy_runtime_blockers(t)
    \union test_release_hardening_does_not_overclaim_readiness(t)
    \union test_manifest_integrity_tooling_exists(t)
    \union Marked(t, "conformance")

=============================================================================
