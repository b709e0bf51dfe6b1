-------------------------- MODULE WindowsEvidence ---------------------------
(* tooling/windows_release_evidence.py: the five results that the record   *)
(* of a smoke test of the installed Windows product gives.                 *)
(*                                                                         *)
(* A document is a record of its objects, None when the object is missing. *)
(* Of an object, "good" is the set of the fields that have the value they  *)
(* must have; a field that is compared with another one has its own value. *)
EXTENDS Checks, Naturals, Sequences, FiniteSets

REQUIRED_VISIBLE_SURFACES ==
    {"Dashboard", "NavigationRail", "Runtime Status", "Invariant Status"}

REQUIRED_SETUP_CHECKS ==
    {"windows.installed_app_path", "windows.artifact_hash", "first_run.config_created",
     "first_run.audit_dir_writable", "setup_doctor.ran_from_installed_app_path",
     "setup_doctor.runtime_connection", "setup_doctor.authority_boundary",
     "setup_doctor.network_public_bind", "setup_doctor.recovery_instruction",
     "setup_doctor.audit_storage"}

REQUIRED_BROKER_TRUE_FIELDS ==
    {"helper_exe_exists", "session_file_created", "restricted_loopback_bind",
     "authenticated_ipc_connection", "durable_store_ready", "restart_replay_rejected",
     "fresh_health_after_restart", "crash_fail_closed"}

BASE_REQUIRED_EVIDENCE_BUNDLE_KINDS ==
    {"setup_doctor", "broker_smoke", "visible_surfaces", "runtime_assertions"}
AUDIT_REQUIRED_EVIDENCE_BUNDLE_KINDS == {"audit_anchor_external_tamper_evidence"}

Measured == {"LIVE_RUNTIME", "EXTERNAL_EVIDENCE"}

\* How each group of fields must have been observed.
Observed(type, classes) == [source_type |-> type, evidence_class |-> classes]
BASE_REQUIRED_FIELD_PROVENANCE ==
    [group \in {"artifact", "first_run.process", "first_run.visible_surfaces",
                "first_run.config_audit", "first_run.installer_authority_boundary",
                "setup_doctor", "broker.ipc_restart_crash", "release_runtime_assertions"} |->
        CASE group = "artifact" -> Observed("directly_measured", {"EXTERNAL_EVIDENCE"})
          [] group = "first_run.installer_authority_boundary" ->
                Observed("static_assertion", {"CONFIG"})
          [] group = "setup_doctor" -> Observed("product_export", Measured)
          [] group = "release_runtime_assertions" ->
                Observed("static_assertion", {"CONFIG", "FIXTURE"})
          [] OTHER -> Observed("directly_measured", Measured)]
AUDIT_REQUIRED_FIELD_PROVENANCE ==
    [group \in {"audit_anchor.external_tamper_evidence"} |->
        Observed("directly_measured", Measured)]

WindowsResultNames ==
    {"windows_evidence_provenance_isolation", "windows_installer_first_run_smoke",
     "windows_setup_doctor_smoke", "windows_broker_installed_smoke",
     "audit_anchor_external_tamper_evidence_proof"}

\* The required fields of an object that are not as they must be, or the object itself.
Wrong(object, name, required) ==
    IF object = None THEN {<<name, "missing">>}
    ELSE {<<name, field>> : field \in required \ object.good}

Unless(holds, name, what) == Failing(~holds, <<name, what>>)

-----------------------------------------------------------------------------
(* Parts that several results share.                                       *)

ObservedElementKeys ==
    {"element_key", "runtime_id", "parent_runtime_id", "name", "automation_id",
     "control_type", "class_name", "framework_id", "supported_patterns"}

\* Each surface was found on an element that shows its label and not all labels, and
\* not all on one element: two elements that share them will do.
SurfaceErrors(s, label) ==
    LET match == s.matches[label] IN
    Wrong(match, label, {"matched", "control_type"})
    \union IF match = None THEN {}
           ELSE Unless(match.element_key # None, label, "element_key")
                \union Unless(label \in match.labels, label, "label")
                \union Unless(match.labels # REQUIRED_VISIBLE_SURFACES, label, "aggregate")
                \union Unless(~match.aggregate_title, label, "aggregate title")

TreeErrors(tree) ==
    Wrong(tree, "diagnostic_tree", {"tree_edges"})
    \union IF tree = None THEN {}
           ELSE LET shown == SubSeq(tree.observed, 1, IF Len(tree.observed) < 20
                                                      THEN Len(tree.observed) ELSE 20)
                IN Unless(shown # <<>>, "diagnostic_tree", "observed_elements")
                   \union Unless(\A i \in DOMAIN shown : ObservedElementKeys \subseteq shown[i],
                                 "diagnostic_tree", "element")

validate_surface_match_evidence(s) ==
    Wrong(s, "surfaces", {"aggregate_surface_shortcut_detected",
                          "surface_match_requirements_met"})
    \union
    IF s.matches = None THEN {<<"surfaces", "matches">>}
    ELSE (UNION {SurfaceErrors(s, label) : label \in REQUIRED_VISIBLE_SURFACES})
         \union
         LET keys == {s.matches[label].element_key :
                        label \in {l \in REQUIRED_VISIBLE_SURFACES : s.matches[l] # None}}
         IN Unless(Cardinality(keys) # 1 \/ None \in keys
                      \/ \E l \in REQUIRED_VISIBLE_SURFACES : s.matches[l] = None,
                   "surfaces", "one element")
         \union TreeErrors(s.diagnostic_tree)

validate_field_provenance(d, required, check_unsupported_claims) ==
    IF d.field_provenance = None THEN {<<"field_provenance", "missing">>}
    ELSE (UNION {LET entry == d.field_provenance[group] IN
                Wrong(entry, group, {"formal_release_input"})
                \union IF entry = None THEN {}
                       ELSE Unless(entry.source_type = required[group].source_type,
                                   group, "source_type")
                            \union Unless(entry.evidence_class
                                            \intersect required[group].evidence_class # {},
                                          group, "evidence_class")
                : group \in DOMAIN required})
         \union Unless(~check_unsupported_claims \/ ~d.unsupported_claims,
                       "field_provenance", "unsupported_claims")

\* The kinds of the files that came with the document.
BundleKinds(p) == {p.evidence_bundle_files[i].kind : i \in DOMAIN p.evidence_bundle_files}

BundleErrors(p, required) ==
    IF p = None THEN {<<"provenance", "missing">>}
    ELSE Unless(p.evidence_bundle_files # <<>> /\ required \subseteq BundleKinds(p),
                "provenance", "evidence_bundle_files")

-----------------------------------------------------------------------------
(* The five results.                                                       *)

IsolatedPaths ==
    {"isolated_install_root", "isolated_runtime_dir", "isolated_store_dir",
     "isolated_config_dir", "isolated_audit_dir"}

\* A path is as it must be when it contains the run's id.
IsolationErrors(isolation) ==
    Wrong(isolation, "isolation",
          IsolatedPaths \union {"uses_shared_fixed_install_root", "not the legacy root"})

\* The artifacts belong together; that the commit is the one of this tree is not asked.
\* A file cannot hold its own hash, so a final hash that is one is refused.
validate_provenance_and_isolation(d) ==
    LET p == d.provenance IN
    IF p = None THEN {<<"provenance", "missing">>}
    ELSE Wrong(p, "provenance",
               {"run_id", "source_commit", "source_worktree_clean", "source_status_porcelain",
                "build_command", "build_timestamp", "staged_manifest_path",
                "installed_manifest_sha256", "broker_artifact_sha256", "evidence_bundle_sha256"})
         \union Unless(p.app_artifact_sha256 # None, "provenance", "app_artifact_sha256")
         \union Unless(d.artifact = None \/ d.artifact.sha256 = None
                          \/ p.app_artifact_sha256 = d.artifact.sha256,
                       "provenance", "artifact")
         \union IsolationErrors(p.isolation)
         \union BundleErrors(p, BASE_REQUIRED_EVIDENCE_BUNDLE_KINDS)
         \union (UNION {Wrong(p.evidence_bundle_files[i], "file", {"path", "sha256"}) :
                          i \in DOMAIN p.evidence_bundle_files})
         \union validate_field_provenance(d, BASE_REQUIRED_FIELD_PROVENANCE, TRUE)
         \union Unless(p.final_evidence_sha256 = None, "provenance", "final_evidence_sha256")

FirstRunFields ==
    {"status", "launched_from_installed_path", "process_running_after_launch", "process_id",
     "main_window_handle", "first_window_visible", "broker_mediated_launch",
     "broker_helper_path", "broker_endpoint_file", "broker_endpoint_created",
     "broker_transport", "no_python_runtime_requested", "python_runtime_path_scrubbed",
     "python_path_entries_remaining_count", "python_commands_visible_after_scrub",
     "visible_surfaces_complete", "config_created", "config_json_valid", "config_path",
     "audit_dir_writable", "audit_write_probe", "audit_dir", "installer_grants_authority",
     "installer_silently_approves_permissions"}

validate_installer_first_run(d) ==
    Wrong(d, "document", {"platform"})
    \union Wrong(d.evidence_source, "evidence_source",
                 {"collector", "collector_version", "manual_confirmation"})
    \union Wrong(d.artifact, "artifact", {"installed_exe_exists", "installed_exe_path"})
    \union Unless(d.artifact # None /\ d.artifact.sha256 # None, "artifact", "sha256")
    \union Wrong(d.first_run, "first_run", FirstRunFields)
    \union
    IF d.first_run = None THEN {}
    ELSE Unless(REQUIRED_VISIBLE_SURFACES \subseteq d.first_run.visible, "first_run", "visible")
         \union
         LET s == d.first_run.surfaces IN
         Wrong(s, "surfaces", {"source", "path"})
         \union IF s = None THEN {} ELSE validate_surface_match_evidence(s)

validate_setup_doctor(d) ==
    LET s == d.setup_doctor IN
    Wrong(s, "setup_doctor",
          {"formal_product_evidence", "status", "ran_from_installed_app_path",
           "operator_readable", "installer_grants_authority",
           "installer_silently_approves_permissions"})
    \union
    IF s = None THEN {}
    ELSE Wrong(s.evidence_source, "setup_doctor source",
               {"source_kind", "product_generated", "collector_derives_checks", "synthetic",
                "command"})
         \union Unless(s.checks # <<>>, "setup_doctor", "checks")
         \union (UNION {Wrong(s.checks[i], "check",
                             {"status", "grants_authority", "recovery_instruction"}) :
                          i \in DOMAIN s.checks})
         \union Unless(REQUIRED_SETUP_CHECKS \subseteq {s.checks[i].check_id : i \in DOMAIN s.checks},
                       "setup_doctor", "required checks")

\* A field counts only when it is true and was measured.
validate_broker_smoke(d) ==
    LET b == d.broker IN
    Wrong(b, "broker", REQUIRED_BROKER_TRUE_FIELDS \union
          {"status", "endpoint_host", "replay_error_code", "no declarations",
           "unmeasured_declarations", "errors"})
    \union
    IF b = None THEN {}
    ELSE Wrong(b.evidence_source, "broker source",
               {"collector", "collector_version", "synthetic", "command"})
         \union {<<"not measured", f>> : f \in REQUIRED_BROKER_TRUE_FIELDS \ b.measured}

AnchorProtections ==
    {"windows_acl_verified", "dpapi_verified", "external_anchor_verified",
     "signed_evidence_verified"}

\* Resistance to an administrator needs something outside of the machine.
validate_audit_anchor_external_tamper_evidence(d) ==
    LET e == d.audit_anchor IN
    BundleErrors(d.provenance, AUDIT_REQUIRED_EVIDENCE_BUNDLE_KINDS)
    \union validate_field_provenance(d, AUDIT_REQUIRED_FIELD_PROVENANCE, FALSE)
    \union Wrong(e, "audit_anchor", {"status", "installed_path_verified",
                                     "key_anchor_log_same_user_rewrite_mitigated"})
    \union
    IF e = None THEN {}
    ELSE Unless(e.protections # {}, "audit_anchor", "protection")
         \union Unless(~e.administrator_root_resistance_claimed
                          \/ {"external_anchor_verified", "signed_evidence_verified"}
                                \intersect e.protections # {},
                       "audit_anchor", "administrator")
         \union Wrong(e.evidence_source, "audit_anchor source",
                      {"source_kind", "evidence_class", "synthetic", "command", "path", "sha256"})

\* The errors of each result; a document that cannot be read fails all of them.
validate_windows_release_evidence(d) ==
    [name \in WindowsResultNames |->
        IF d = None THEN {<<"document", "missing">>}
        ELSE CASE name = "windows_evidence_provenance_isolation" ->
                      validate_provenance_and_isolation(d)
               [] name = "windows_installer_first_run_smoke" -> validate_installer_first_run(d)
               [] name = "windows_setup_doctor_smoke" -> validate_setup_doctor(d)
               [] name = "windows_broker_installed_smoke" -> validate_broker_smoke(d)
               [] OTHER -> validate_audit_anchor_external_tamper_evidence(d)]

=============================================================================
