---------------------------- MODULE MCValidation -----------------------------
(* Instances of Validation for TLC: a small tree of the repository, which  *)
(* passes in development, and what people change in it.                    *)
EXTENDS Validation

README    == <<"README.md">>
CHECKLIST == <<"RELEASE_CHECKLIST.md">>
ROADMAP   == <<"ROADMAP.md">>
OVERVIEW  == <<"docs", "public", "PROJECT_OVERVIEW.md">>
LICENSE   == <<"LICENSE">>
RUNTIME     == <<"packages", "shell_core", "runtime_state.py">>
CPP       == <<"apps", "desktop_flutter", "windows", "runner", "main.cpp">>
MOBILE    == <<"apps", "mobile_flutter", "pubspec.yaml">>
LOCKFILE  == <<"apps", "desktop_flutter", "pubspec.lock">>
PROOFPACK     == <<"docs", "proof", "pack.json">>
UNPORTABLE == <<"docs", "kitei.md">>

\* A part of the client that is no Dart file by its name.
PART == <<"apps", "desktop_flutter", "lib", "services", "part.txt">>

MCExactFiles == {README, RELEASE_BLOCKERS_REGISTRY}
MCScanFiles == {README, CHECKLIST, OVERVIEW}
MCCurrentFacing == {README, CHECKLIST}
MCPolicyDocs == {CHECKLIST, OVERVIEW}
MCHardening == {CHECKLIST}
MCNotPortable == UTF8_GOVERNANCE_PATH_ALLOWLIST \union {UNPORTABLE}
MCIgnored == {DEFAULT_EVIDENCE_PATH}

\* The suffixes of the names that matter, as they are spelled.
Names ==
    [md |-> {"README.md", "RELEASE_CHECKLIST.md", "ROADMAP.md", "PROJECT_OVERVIEW.md", "kitei.md"},
     MD |-> {"NEW.MD"}, json |-> {"pack.json", "extra.json"}, txt |-> {"part.txt"},
     py |-> {"runtime_state.py", "manifest.py"},
     dart |-> {"main.dart", "shell_core_client.dart", "broker_client.dart",
               "generated_contracts.dart", "widget_test.dart", "helper.dart"},
     rs |-> {"broker_ipc.rs", "protocol.rs"}, cpp |-> {"main.cpp"}]

MCSuffix(name) ==
    IF \E s \in DOMAIN Names : name \in Names[s]
    THEN "." \o (CHOOSE s \in DOMAIN Names : name \in Names[s]) ELSE ""
MCLower(suffix) == IF suffix = ".MD" THEN ".md" ELSE suffix

Japanese == [words |-> {}, japanese |-> TRUE, machine |-> FALSE]
English  == [words |-> {"not", "yet", "verified"}, japanese |-> FALSE, machine |-> FALSE]
Line(text) == [text |-> text, fence |-> FALSE, open |-> FALSE, classified |-> FALSE]
Fence == [Line(English) EXCEPT !.fence = TRUE]

Doc(says) ==
    [lines |-> <<Line(Japanese), Fence, Line(English), Fence>>, says |-> says,
     macos |-> {"hedged"},
     blocks |-> {[form |-> "item", markers |-> {"registry_id"}, refs |-> {"owner_go"},
                  truthy |-> {}],
                 [form |-> "row", markers |-> {"historical"}, refs |-> {},
                  truthy |-> {"historical"}]}]

Code(parts) == [parts |-> parts]
Source(tokens) == Code([all |-> tokens])

Blocker(name, source, status) ==
    [name |-> name, status |-> status, status_source |-> source, active |-> "true",
     classification |-> "release_blocker", blocks_release |-> "true", reason |-> "reason",
     required_action |-> "action",
     evidence_result |-> IF source = "manual" THEN None ELSE name]

\* The registry with these blockers resolved.
RegistryWith(resolved) ==
    [blockers |-> [i \in DOMAIN Listed(CanonicalBlockers) |->
        LET name == Listed(CanonicalBlockers)[i] IN
        Blocker(name, IF name = "owner_go" THEN "manual" ELSE WINDOWS_EVIDENCE_STATUS_SOURCE,
                IF name \in resolved THEN "resolved" ELSE "unresolved")]]

Scope(path, wild, kinds) == [path |-> path, wild |-> wild, kinds |-> kinds]
Exception(id, scopes, handling, integrity, terms) ==
    [id |-> id, scopes |-> scopes, category |-> id, handling |-> handling,
     integrity |-> integrity, terms |-> terms, sound |-> TRUE]

Asset(name) == Code([all |-> {name}])

\* The exceptions of the language audit, one for each category.
LanguageRegistry ==
    [exceptions |->
        <<Exception("legal text", {Scope(LICENSE, FALSE, {"legal text"})},
                    "exclude_file", "sha256", {}),
          Exception("generated", {Scope(LOCKFILE, FALSE, {"generated"})},
                    "exclude_file", "review_on_change", {}),
          Exception("evidence", {Scope(<<"docs", "proof">>, TRUE, {"evidence", "proof pack"})},
                    "exclude_file", "sha256", {}),
          Exception("machine syntax", {Scope(<<"tooling">>, TRUE, {})}, "lexical_only",
                    "review_on_change", {}),
          Exception("name", {Scope(<<"docs">>, TRUE, {})}, "lexical_only", "review_on_change",
                    {"verified"})>>,
     frozen_assets |->
        <<[path |-> LICENSE, sha256 |-> Asset("license"), exception_id |-> "legal text"],
          [path |-> PROOFPACK, sha256 |-> Asset("proof"), exception_id |-> "evidence"]>>]

ShellClient ==
    Code([product |-> AuthorityRequests, local |-> {"local snapshot"},
          _brokerSnapshot |-> {}, _brokerUnavailableSnapshot |-> {},
          _brokerCommandProbePayload |-> {}])

Sources ==
    (MAIN :> Source({"await product"})) @@ (SHELL_CLIENT :> ShellClient)
    @@ (BROKER_CLIENT :> Source({"Socket.connect", "session secret", "127.0.0.1",
                                 "GUI_SHELL_BROKER_ENDPOINT_JSON", "payload hash",
                                 "canonical value", "sha256"}))
    @@ (CONTRACTS :> Source({}))
    @@ (WIDGET_TEST :> Source({"test unavailable", "test refused", "test stale session",
                               "test malformed answer", "broker.fail_closed"}))
    @@ (BROKER_IPC_TEST :> Source({"test launch", "test replay after restart",
                                   "test chain after restart"}))
    @@ (BROKER_PROTOCOL :> Source({"test tampered chain", "test malformed replay state"}))
    @@ [p \in LAUNCH_SCRIPTS |-> Source({"broker-server", "GUI_SHELL_BROKER_ENDPOINT_JSON"})]

Contents ==
    Sources @@ (README :> Doc({"completed product release", "not yet"}))
    @@ (CHECKLIST :> Doc(PolicyTokens)) @@ (OVERVIEW :> Doc(PolicyTokens))
    @@ (ROADMAP :> Doc({})) @@ (RELEASE_BLOCKERS_REGISTRY :> RegistryWith({}))
    @@ (POLICY_PATH :> [connected |-> TRUE]) @@ (INDEX_PATH :> [connected |-> TRUE])
    @@ (REGISTRY_PATH :> LanguageRegistry) @@ (AUDITOR_PATH :> Asset("auditor"))
    @@ (LICENSE :> Asset("license")) @@ (PROOFPACK :> Asset("proof")) @@ (LOCKFILE :> Asset("lock"))
    @@ (RUNTIME :> Asset("state")) @@ (CPP :> Asset("runner")) @@ (MOBILE :> Asset("mobile"))
    @@ (<<"tooling", "manifest.py">> :> Asset("manifest"))
    @@ (PART :> [parts |-> [all |-> {"Process.run", "session secret"}], texts |-> {English}])

Repository ==
    write_manifest([files |-> Contents, git |-> TRUE, tracked |-> DOMAIN Contents \union {MANIFEST}])

-----------------------------------------------------------------------------
Change(path, content) == [path |-> path, content |-> content, tracked |-> TRUE]
Deleted(path) == [path |-> path, content |-> None, tracked |-> FALSE]
Collected(evidence) ==
    [path |-> DEFAULT_EVIDENCE_PATH, content |-> [evidence |-> evidence], tracked |-> FALSE]

Listing(path) == [path |-> path, sha256 |-> Asset("another")]

\* What the release needs.
ReleaseChanges ==
    {Collected(Valid), Change(RELEASE_BLOCKERS_REGISTRY, RegistryWith({"owner_go"}))}

OtherChanges ==
    {Collected(WithoutAnchorProof),
     Change(RELEASE_BLOCKERS_REGISTRY, RegistryWith(CanonicalBlockers)),
     Change(README, [Doc({"completed product release"}) EXCEPT
                         !.lines = Append(@, [Line(Japanese) EXCEPT !.open = TRUE])]),
     Change(README, [Doc({}) EXCEPT !.macos = {"unhedged"}, !.blocks = {[form |-> "item",
                         markers |-> {"registry_id"}, refs |-> {"windows"}, truthy |-> {}]}]),
     Change(CHECKLIST, Doc(PolicyTokens \union {"production ready"})),
     Change(LICENSE, Asset("another license")),
     Change(<<"docs", "proof", "extra.json">>, Asset("extra")),
     Change(<<"docs", "NEW.MD">>, [lines |-> <<Line(English)>>]),
     Change(UNPORTABLE, Asset("text")),
     Change(<<"apps", "desktop_flutter", "lib", "services", "more", "helper.dart">>,
            Source({"Process.run", "session secret"})),
     Change(RUNTIME, [fails |-> {"schema", "smoke", "desktop_flutter_test",
                               "mobile_flutter_analyze"}]),
     Change(MANIFEST, [entries |-> Append(build_manifest(Repository), Listing(<<"docs">>))]),
     Change(MANIFEST, [entries |-> Append(build_manifest(Repository),
                                          Listing(<<".", "README.md">>))]),
     Deleted(MAIN), Deleted(CPP)}

MCChanges == ReleaseChanges \union OtherChanges

Host(platform, tools) == [platform |-> platform, tools |-> tools]
Options(strict, python_only, mobile, platform) ==
    [strict_release |-> strict, python_only |-> python_only, include_mobile_release |-> mobile,
     desktop_platform |-> platform]
Start(t, h, o) == [tree |-> t, host |-> h, options |-> o]

AllTools == {"cargo", "flutter", "unzip"}
Strict == Start(Repository, Host("windows", AllTools), Options(TRUE, FALSE, FALSE, "windows"))

\* A developer on Linux with everything, and the mobile client in the scope; a release on
\* Windows; a host without the toolchains; and an unpacked archive.
MCStarts ==
    {Start(Repository, Host("linux", AllTools), Options(FALSE, FALSE, TRUE, "current")),
     Strict,
     Start(Repository, Host("macos", {"unzip"}), Options(FALSE, FALSE, FALSE, "all")),
     Start(Extracted(Repository), Host("linux", {}), Options(FALSE, TRUE, FALSE, "current"))}

StrictStarts == {Strict}

=============================================================================
