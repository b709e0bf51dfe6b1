------------------------- MODULE RuntimeAssertions --------------------------
(* tooling/release_runtime_assertions.py: what the text of the product's   *)
(* code must contain and must not contain.                                 *)
(*                                                                         *)
(* The content of a code file is a record with its parts, the functions in *)
(* it, each a set of the tokens that are looked for.                       *)
EXTENDS Manifest

DesktopFile(path) == Len(path) > 2 /\ path[1] = "apps" /\ path[2] = "desktop_flutter"
DartFile(path) == Suffix(path[Len(path)]) = ".dart"
Lib(name) == <<"apps", "desktop_flutter", "lib", name>>
Service(name) == <<"apps", "desktop_flutter", "lib", "services", name>>

MAIN             == Lib("main.dart")
SHELL_CLIENT     == Service("shell_core_client.dart")
BROKER_CLIENT    == Service("broker_client.dart")
CONTRACTS        == <<"apps", "desktop_flutter", "lib", "models", "generated_contracts.dart">>
WIDGET_TEST      == <<"apps", "desktop_flutter", "test", "widget_test.dart">>
BROKER_IPC_TEST  == <<"native", "rust_helper", "tests", "broker_ipc.rs">>
BROKER_PROTOCOL  == <<"native", "rust_helper", "src", "broker", "protocol.rs">>
LAUNCH_SCRIPTS   == {<<"scripts", "launch_owner_desktop.sh">>,
                     <<"scripts", "launch_owner_desktop.ps1">>}

Text(content) == UNION {content.parts[p] : p \in DOMAIN content.parts}

\* The text of a file, and nothing of one that is not there.
TextOf(t, path) == IF path \in DOMAIN t.files THEN Text(t.files[path]) ELSE {}

\* A part of the client's text, which ends where another one starts: nothing when either
\* has another name.
Body(t, part, end) ==
    LET parts == t.files[SHELL_CLIENT].parts IN
    IF {part, end} \subseteq DOMAIN parts THEN parts[part] ELSE {}

product_body(t) == Body(t, "product", "local")
broker_snapshot_body(t) == Body(t, "_brokerSnapshot", "_brokerUnavailableSnapshot")

function_body(t, name) == Body(t, name, name)

scan_files(t, paths, tokens) ==
    {found \in paths \X tokens : found[2] \in TextOf(t, found[1])}

\* mutant: the directory itself only
desktop_lib_files_here(t) ==
    {p \in DOMAIN t.files : DesktopFile(p) /\ Len(p) = 4 /\ p[3] = "lib" /\ DartFile(p)}

\* The Dart files at any depth below lib: a part with another suffix is not looked at.
desktop_lib_files(t) ==
    {p \in DOMAIN t.files : DesktopFile(p) /\ Len(p) > 3 /\ p[3] = "lib" /\ DartFile(p)}

rust_files(t) ==
    {p \in DOMAIN t.files : /\ Len(p) > 3 /\ SubSeq(p, 1, 3) = <<"native", "rust_helper", "src">>
                            /\ Suffix(p[Len(p)]) = ".rs"}

Lacks(text, required) == {<<"lacks", token>> : token \in required \ text}
Has(text, forbidden) == {<<"has", token>> : token \in forbidden \intersect text}

-----------------------------------------------------------------------------
(* The twelve assertions.                                                  *)

assert_flutter_product_entry_uses_broker(t) ==
    Lacks(TextOf(t, MAIN), {"await product"}) \union Has(TextOf(t, MAIN), {"local snapshot"})

AuthorityRequests ==
    {"await connect", "request health", "request normalize_payload",
     "request content_projection", "request approval_edit", "request command_envelope",
     "unavailable snapshot"}

assert_flutter_authority_operations_are_broker_mediated(t) ==
    Lacks(product_body(t), AuthorityRequests)
    \union Has(product_body(t), {"local snapshot", "tooling/shell_snapshot.py"})

\* It looks for nothing but what must not be there, so nothing is found in no text.
assert_flutter_product_snapshot_does_not_promote_probe_state(t) ==
    Has(broker_snapshot_body(t), {"pending approval", "permission record", "approval record",
                                  "authority map"})
    \union Has(function_body(t, "_brokerCommandProbePayload"), {"state", "audit_event"})

assert_flutter_models_do_not_default_evidence_to_passed(t) ==
    Has(TextOf(t, CONTRACTS), {"defaults to passed", "defaults to a count"})

assert_flutter_does_not_spawn_python_product_path(t) ==
    scan_files(t, desktop_lib_files(t) \union LAUNCH_SCRIPTS,
               {"Process.run", "Process.start", "Process.killPid", "tooling/shell_snapshot.py"})

assert_launch_scripts_start_broker_without_python_snapshot(t) ==
    UNION {Lacks(TextOf(t, path), {"broker-server", "GUI_SHELL_BROKER_ENDPOINT_JSON"})
           \union Has(TextOf(t, path), {"tooling/shell_snapshot.py", "python tooling/"}) :
              path \in LAUNCH_SCRIPTS}

assert_no_ffi_or_direct_bridge_authority_path(t) ==
    scan_files(t, desktop_lib_files(t), {"dart:ffi", "flutter_rust_bridge", "MethodChannel("})
    \union scan_files(t, rust_files(t), {"extern C", "no_mangle", "cxx::bridge"})

assert_broker_client_uses_authenticated_loopback_ipc(t) ==
    Lacks(TextOf(t, BROKER_CLIENT), {"Socket.connect", "session secret",
                                     "GUI_SHELL_BROKER_ENDPOINT_JSON", "127.0.0.1"})
    \union Has(TextOf(t, BROKER_CLIENT), {"Process.run", "Process.start", "MethodChannel(",
                                          "flutter_rust_bridge", "dart:ffi"})

assert_broker_client_binds_payload_hash_to_payload(t) ==
    Lacks(TextOf(t, BROKER_CLIENT), {"payload hash", "canonical value", "sha256"})
    \union Has(TextOf(t, BROKER_CLIENT), {"fixed hash"})

assert_broker_secret_not_projected_to_ui(t) ==
    scan_files(t, {p \in desktop_lib_files(t) : p[Len(p)] # "broker_client.dart"},
               {"session secret"})

assert_flutter_fail_closed_tests_exist(t) ==
    Lacks(TextOf(t, WIDGET_TEST), {"test unavailable", "test refused", "test stale session",
                                   "test malformed answer", "broker.fail_closed"})

assert_broker_runtime_restart_and_crash_tests_exist(t) ==
    Lacks(TextOf(t, BROKER_IPC_TEST) \union TextOf(t, BROKER_PROTOCOL),
          {"test launch", "test replay after restart", "test chain after restart",
           "test tampered chain", "test malformed replay state"})

\* The files that an assertion reads without asking whether they are there.
ReadFiles ==
    {MAIN, SHELL_CLIENT, BROKER_CLIENT, CONTRACTS, WIDGET_TEST, BROKER_IPC_TEST,
     BROKER_PROTOCOL} \union LAUNCH_SCRIPTS

\* A missing file ends the run with an exception.
release_runtime_assertions(t) ==
    IF ~ReadFiles \subseteq DOMAIN t.files THEN {<<"missing", p>> : p \in ReadFiles \ DOMAIN t.files}
    ELSE assert_flutter_product_entry_uses_broker(t)
         \union assert_flutter_authority_operations_are_broker_mediated(t)
         \union assert_flutter_product_snapshot_does_not_promote_probe_state(t)
         \union assert_flutter_models_do_not_default_evidence_to_passed(t)
         \union assert_flutter_does_not_spawn_python_product_path(t)
         \union assert_launch_scripts_start_broker_without_python_snapshot(t)
         \union assert_no_ffi_or_direct_bridge_authority_path(t)
         \union assert_broker_client_uses_authenticated_loopback_ipc(t)
         \union assert_broker_client_binds_payload_hash_to_payload(t)
         \union assert_broker_secret_not_projected_to_ui(t)
         \union assert_flutter_fail_closed_tests_exist(t)
         \union assert_broker_runtime_restart_and_crash_tests_exist(t)

=============================================================================
