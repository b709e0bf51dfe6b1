----------------------------- MODULE Validation ------------------------------
(* tooling/validate_all.py: the validation of a tree, step by step, by the *)
(* checks of the other modules, with the parity harness and its broker as  *)
(* one of the steps; and the people who change the tree, before and while  *)
(* it runs.                                                                *)
EXTENDS Conformance, LanguageAudit, ParityHarness

CONSTANTS
    Starts,   \* trees, hosts and options to start with
    Changes   \* what people change: a path, its new content, and whether git tracks it

\* The paths that files have: none is spelled with dots, and as a bound none is that of a
\* file at one time and of a directory at another.
Paths ==
    (UNION {DOMAIN start.tree.files : start \in Starts})
    \union {change.path : change \in Changes} \union {MANIFEST}

ASSUME PathsAssumption ==
    \A p \in Paths : Plain(p) /\ ~\E q \in Paths : IsBelow(q, p)

VARIABLES
    tree,     \* the working directory
    host,     \* the machine: its platform and tools
    options,  \* the arguments of the run
    todo,     \* the steps that are left
    results,  \* of the steps that are done
    verdict,  \* the status of the release gate, none before the report
    touched   \* whether the tree was changed while the run was under way

run == <<host, options, todo, results, verdict>>
vars == <<tree, run, touched, harness, faults>>

-----------------------------------------------------------------------------
(* The steps.                                                              *)

Target(o, h, platform) ==
    o.desktop_platform \in {platform, "all"}
    \/ (o.desktop_platform = "current" /\ h.platform = platform)

Step(name, tool, in_scope) == [name |-> name, required_tool |-> tool, in_release_scope |-> in_scope]
Steps(names, tool) == [i \in DOMAIN names |-> Step(names[i], tool, TRUE)]
When(holds, steps) == IF holds THEN steps ELSE <<>>

PythonSteps ==
    <<"japanese_base_audit", "schema_check", "conformance_skeleton", "manifest_check",
      "release_gate_check", "packaging_portability_check", "release_smoke", "evidence_bundle",
      "release_runtime_assertions">>

\* Linux is built on Linux only; mobile is analysed where it is there, and counts only
\* when it was included.
build_steps(t, h, o) ==
    Steps(PythonSteps, None) \o
    When(~o.python_only,
         Steps(<<"broker_authority_parity", "rust_helper_cargo_test">>, "cargo")
         \o Steps(<<"desktop_flutter_analyze", "desktop_flutter_test">>, "flutter")
         \o When(Target(o, h, "linux") /\ h.platform = "linux",
                 Steps(<<"desktop_flutter_build_linux">>, "flutter"))
         \o When(Below(t, <<"apps", "mobile_flutter">>),
                 <<Step("mobile_flutter_analyze", "flutter", o.include_mobile_release)>>))

\* The archive must be sound, portable and releasable as it is unpacked.
packaging_portability_check(t, unzip) ==
    IF packaging_preconditions(t, unzip) # {} THEN packaging_preconditions(t, unzip)
    ELSE check_manifest(Extracted(t)) \union conformance(Extracted(t))
         \union release_gate(Extracted(t), FALSE)

find_tool(h, tool) == tool = None \/ tool \in h.tools

\* The errors that a step finds; "strict" is handed to the release gate alone.
StepErrors(name, t, h, o) ==
    CASE name = "japanese_base_audit"         -> audit_repository(t)
      [] name = "schema_check"                -> Marked(t, "schema")
      [] name = "conformance_skeleton"        -> conformance(t)
      [] name = "manifest_check"              -> check_manifest(t)
      [] name = "release_gate_check"          -> release_gate(t, o.strict_release)
      [] name = "packaging_portability_check" ->
            packaging_portability_check(t, find_tool(h, "unzip"))
      [] name = "release_smoke"               -> Marked(t, "smoke")
      [] name = "evidence_bundle"             -> validate_evidence_bundle(build_evidence_bundle(t))
      [] name = "release_runtime_assertions"  -> release_runtime_assertions(t)
      [] OTHER                                -> Marked(t, name)

\* mutant: a tool that is missing blocks a strict run only
classify_not_run_lenient(step, strict) ==
    IF step.in_release_scope THEN (IF strict THEN "release_blocker" ELSE "none") ELSE "post_v1_scope"

classify_not_run(step, strict) ==
    IF step.in_release_scope THEN "release_blocker" ELSE "post_v1_scope"

Classification(step, passed) ==
    IF ~step.in_release_scope THEN "post_v1_scope"
    ELSE IF passed THEN "none" ELSE "release_blocker"

\* mutant: a step out of scope is skipped
not_run_skipped(step, strict) ==
    [name |-> step.name, status |-> IF step.in_release_scope THEN "not_run" ELSE "skipped",
     classification |-> classify_not_run(step, strict)]

not_run(step, strict) ==
    [name |-> step.name, status |-> "not_run", classification |-> classify_not_run(step, strict)]

Outcome(step, passed) ==
    [name |-> step.name, status |-> IF passed THEN "passed" ELSE "failed",
     classification |-> Classification(step, passed)]

-----------------------------------------------------------------------------
(* The platform evidence.                                                  *)

Evidence(name, status, classification) ==
    [name |-> name, status |-> status, classification |-> classification]

LinuxEvidence ==
    {Evidence(name, "passed", "none") : name \in
        {"linux_desktop_build_smoke", "linux_desktop_launch_smoke"}}

WindowsEvidenceChecks(t) ==
    LET there == Below(t, <<"apps", "desktop_flutter", "windows">>) IN
    {Evidence("windows_desktop_project_support_exists", IF there THEN "passed" ELSE "failed",
              IF there THEN "none" ELSE "release_blocker"),
     Evidence("windows_development_toolchain_historical_smoke",
              "historical_invalid_for_current_r2", "none")}
    \union {LET passed == WindowsResults(t)[name] = {} IN
            Evidence(name, IF passed THEN "passed" ELSE "failed",
                     IF passed THEN "none" ELSE "release_blocker") : name \in WindowsResultNames}

MacosEvidence ==
    {Evidence(name, "unverified_planned", "known_limitation") : name \in
        {"macos_desktop_project_support_exists", "macos_flutter_toolchain",
         "macos_desktop_build_smoke", "macos_desktop_launch_smoke",
         "macos_packaging_notarization_plan", "macos_installer_first_run_smoke"}}

\* The owner's GO is never there.
platform_evidence_checks(t, h, o) ==
    (IF Target(o, h, "linux") THEN LinuxEvidence ELSE {})
    \union (IF Target(o, h, "windows") THEN WindowsEvidenceChecks(t) ELSE {})
    \union (IF Target(o, h, "macos") THEN MacosEvidence ELSE {})
    \union (IF o.strict_release THEN {Evidence("owner_go", "failed", "release_blocker")} ELSE {})

-----------------------------------------------------------------------------
Init ==
    /\ \E start \in Starts :
           /\ tree = start.tree /\ host = start.host /\ options = start.options
           /\ todo = build_steps(start.tree, start.host, start.options)
    /\ results = <<>> /\ verdict = "none" /\ touched = FALSE
    /\ HarnessInit /\ faults = 0

Running == results # <<>> \/ hpc # "off"

Changed(t, change) ==
    LET added == With(t, change.path, change.content) IN
    [added EXCEPT
        !.files   = IF change.content = None
                    THEN [p \in DOMAIN t.files \ {change.path} |-> t.files[p]] ELSE @,
        !.tracked = IF change.tracked THEN @ \union {change.path} ELSE @ \ {change.path}]

\* Before the run, which then is a run of the tree as it is left.
Edit ==
    /\ ~Running /\ Fault
    /\ \E change \in Changes :
           /\ Changed(tree, change) # tree
           /\ tree' = Changed(tree, change)
    /\ todo' = build_steps(tree', host, options)
    /\ UNCHANGED <<host, options, results, verdict, touched, harness>>

\* tooling/manifest.py --write.
WriteManifest ==
    /\ ~Running /\ write_manifest(tree) # tree
    /\ tree' = write_manifest(tree)
    /\ todo' = build_steps(tree', host, options)
    /\ UNCHANGED <<host, options, results, verdict, touched, harness, faults>>

\* While it runs: the steps that are still to come see another tree.  A bound: nothing
\* else goes wrong then; and the harness, which does not read the tree, is not under way.
EditDuringRun ==
    /\ Running /\ verdict = "none" /\ hpc \in {"off", "ended"} /\ faults = 0 /\ MaxFaults > 0
    /\ \E change \in Changes :
           /\ Changed(tree, change) # tree
           /\ tree' = Changed(tree, change)
    /\ touched' = TRUE /\ faults' = MaxFaults
    /\ UNCHANGED <<run, harness>>

Take(result) == todo' = Tail(todo) /\ results' = Append(results, result)

\* run_step: a step whose tool is missing is not run.
StepNotRun ==
    /\ todo # <<>> /\ hpc \in {"off", "ended"} /\ ~find_tool(host, Head(todo).required_tool)
    /\ Take(not_run(Head(todo), options.strict_release))
    /\ UNCHANGED <<tree, host, options, verdict, touched, harness, faults>>

\* A command of its own, which nothing limits.
RunStep ==
    /\ todo # <<>> /\ find_tool(host, Head(todo).required_tool)
    /\ Head(todo).name # "broker_authority_parity"
    /\ Take(Outcome(Head(todo), StepErrors(Head(todo).name, tree, host, options) = {}))
    /\ UNCHANGED <<tree, host, options, verdict, touched, harness, faults>>

\* The parity harness is a command too, with all its steps.
StartParity ==
    /\ todo # <<>> /\ Head(todo).name = "broker_authority_parity" /\ find_tool(host, "cargo")
    /\ StartBroker
    /\ UNCHANGED <<tree, run, touched>>

EndParity ==
    /\ todo # <<>> /\ Head(todo).name = "broker_authority_parity" /\ hpc = "ended"
    /\ Take(Outcome(Head(todo), HarnessPassed))
    /\ UNCHANGED <<tree, host, options, verdict, touched, harness, faults>>

\* The evidence is read, and only a strict run counts it.
Report ==
    /\ todo = <<>> /\ verdict = "none"
    /\ LET evidence == platform_evidence_checks(tree, host, options)
           blockers == {results[i].name : i \in {j \in DOMAIN results :
                          results[j].classification = "release_blocker"}}
                       \union (IF options.strict_release
                               THEN {e.name : e \in {f \in evidence :
                                       f.classification = "release_blocker"}}
                               ELSE {})
       IN verdict' = IF blockers = {} THEN "pass" ELSE "fail"
    /\ UNCHANGED <<tree, host, options, todo, results, touched, harness, faults>>

Harness == HarnessStep /\ UNCHANGED <<tree, run, touched>>
Broker == BrokerStep /\ UNCHANGED <<tree, run, touched>>
BrokerRecovers == (BrokerResumes \/ BrokerEnds) /\ UNCHANGED <<tree, run, touched>>
BrokerFails == BrokerFault /\ UNCHANGED <<tree, run, touched>>

Next ==
    \/ Edit \/ WriteManifest \/ EditDuringRun
    \/ StepNotRun \/ RunStep \/ StartParity \/ EndParity \/ Report
    \/ Harness \/ Broker \/ BrokerRecovers \/ BrokerFails

\* The harness and a broker that does not hang are processes that run on.
Spec == Init /\ [][Next]_vars /\ WF_vars(Harness) /\ WF_vars(Broker)

-----------------------------------------------------------------------------
(* Properties.                                                             *)

Passed(name) == \E i \in DOMAIN results : results[i].name = name /\ results[i].status = "passed"

\* Types, and the results with the steps that are left are the steps of the run in order.
ReleaseTypeOK ==
    /\ verdict \in {"none", "pass", "fail"} /\ faults \in 0..MaxFaults
    /\ \A i \in DOMAIN results :
           /\ results[i].status \in {"passed", "failed", "not_run"}
           /\ results[i].classification \in {"none", "release_blocker", "post_v1_scope"}
    /\ LET names(s) == [i \in DOMAIN s |-> s[i].name] IN
       ~touched => names(results) \o names(todo) = names(build_steps(tree, host, options))

\* manifest.py --check: what passed lists every file that is to be delivered with its
\* content, nothing whose path as it is spelled is excluded, and besides files as they
\* are only directories, with any hash.
ManifestIsExact ==
    Passed("manifest_check") /\ ~touched =>
        LET listed == load_manifest(tree) IN
        /\ \A p \in expected_files(tree).files :
               \E i \in DOMAIN listed : listed[i].path = p /\ listed[i].sha256 = tree.files[p]
        /\ \A i \in DOMAIN listed :
               LET at == Located(listed[i].path) IN
               /\ ~is_excluded(listed[i].path)
               /\ \/ at \in DOMAIN tree.files /\ listed[i].sha256 = tree.files[at]
                  \/ Below(tree, at)

\* release_gate_check.py --strict-release: no blocker that is to be decided by Windows
\* evidence is passed over by what the registry says of it.
EvidenceDecides ==
    Passed("release_gate_check") /\ options.strict_release /\ ~touched =>
        \A i \in DOMAIN Registry(tree) :
            LET b == Registry(tree)[i] IN
            b.active = "true" /\ b.status_source = WINDOWS_EVIDENCE_STATUS_SOURCE =>
                b.evidence_result \in WindowsResultNames
                /\ WindowsResults(tree)[b.evidence_result] = {}

\* validate_all.py: a run passes only when every step in its scope has run and passed,
\* and with a broker all comparisons were made and found no difference.
NoStepSkipped ==
    verdict = "pass" /\ ~touched =>
        LET steps == build_steps(tree, host, options) IN
        /\ \A i \in DOMAIN steps : steps[i].in_release_scope => Passed(steps[i].name)
        /\ ~options.python_only => compared = Comparisons /\ HarnessPassed

\* What the packaging check says of the archive holds of the tree it was made from: the
\* archive is not repaired on its way.
StepsAgree ==
    Passed("packaging_portability_check") /\ ~touched =>
        check_manifest(tree) = {} /\ release_gate(tree, FALSE) = {}

\* release_runtime_assertions.py: no Dart file of the desktop client, however deep, starts
\* a process, calls native code or knows the session secret outside of its broker client.
NoAuthorityShortcut ==
    Passed("release_runtime_assertions") /\ ~touched =>
        \A p \in {q \in DOMAIN tree.files :
                  /\ Len(q) > 3 /\ q[1] = "apps" /\ q[2] = "desktop_flutter" /\ q[3] = "lib"
                  /\ Suffix(q[Len(q)]) = ".dart"} :
            /\ {"Process.run", "Process.start", "dart:ffi", "flutter_rust_bridge",
                "MethodChannel("} \intersect Text(tree.files[p]) = {}
            /\ "session secret" \in Text(tree.files[p]) => p[Len(p)] = "broker_client.dart"

\* A file that an exception takes from the language audit is generated, or frozen as it is;
\* one that none takes is there and has no finding, if it is of a kind that is read.
Accounted(t, p) ==
    LET registry == t.files[REGISTRY_PATH] IN
    IF exception_for_path(t, p) # {}
    THEN \/ \E i \in DOMAIN registry.exceptions :
                registry.exceptions[i].category = "generated"
                /\ path_matches(p, registry.exceptions[i].scopes)
         \/ \E k \in DOMAIN registry.frozen_assets :
                registry.frozen_assets[k].path = p
                /\ registry.frozen_assets[k].sha256 = t.files[p]
    ELSE IsScanned(p) =>
             p \in DOMAIN t.files /\ ~HasFinding(t.files[p], lexical_terms_for_path(t, p))

\* The language audit: whatever the registry's exceptions take from it, and whatever of the
\* tree changes, nothing passes it but Japanese, what is generated or frozen, and files of
\* the kinds that it does not read.
ExclusionsAreJustified ==
    Passed("japanese_base_audit") /\ ~touched =>
        \A p \in repository_paths(tree) : Accounted(tree, p)

\* docs/RELEASE_VALIDATION.md: a release is declared after the strict validation passed.
\* So it passes when the strict gate finds nothing and every other step passed.
StrictPassesWhenResolved ==
    verdict # "none" /\ options.strict_release /\ ~touched /\ release_gate(tree, TRUE) = {}
    /\ (\A i \in DOMAIN results : results[i].name = "conformance_skeleton"
                                  \/ results[i].classification # "release_blocker")
        => verdict = "pass"

=============================================================================
