# A TLA+ model of GUI-Shell

GUI-Shell is a desktop shell that shows what AI runtimes want to do and never
does it on its own authority.  Its security-relevant part is a *broker*: a Rust
process on the loopback interface that authenticates its client, rejects what is
malformed, stale, replayed or claims authority it does not have, and writes a
hash-chained audit event for what it decides.  A Flutter client talks to it.  A
Python package, the shell core, holds the same policy as an oracle for the
conformance tests and keeps an audit log of its own.  The largest part of the
repository is its release tooling, which decides whether a tree may be called a
release: a dozen checks, run one after the other, one of which starts a broker.

Three kinds of question run through these modules.  What are the broker's and the
log's checks worth across time: a process that dies between two writes, a write that
leaves half a line, a restart that forgets what memory held, a peer that never
finishes its line?  What is an approval worth after any order of edits, proposals and
decisions, and do the two programs that evaluate an action agree?  And what does a
validation that passed say of the tree that it read?

## 1. Inventory

| Part (source) | State it keeps | Operations | Talks to | What is hard | What makes it correct |
|---|---|---|---|---|---|
| Request handling (`native/rust_helper/src/broker/protocol.rs`) | `seen_nonces`, `audit_log`, `shutdown_requested`, session id, persistence mode | `handle`, `reject_ipc`, `record_nonce`, `append_audit`, nine operations | the file store; the IPC server | order of the checks, two clock reads in one request, failure of either of its two writes | a request is served once; an answer that names an audit event has one |
| File store (`broker/store.rs`) | `audit.jsonl`, `audit_anchor.json`, `audit_anchor.key`, `replay_nonces.jsonl`, `session.json` | `open_or_create`, `append_audit_event`, `append_replay_nonce`, load and compact | the file system | crash between log and anchor, torn lines, expiry and eviction of nonces | nothing acknowledged is lost; it fails closed |
| Audit chain (`broker/audit.rs`) | the list of events | `build_next`, `push_verified`, `from_verified_events` | store, handling | - | a changed, missing or foreign event is detected |
| Loopback server (`broker/ipc_server.rs`, `main.rs`) | the socket, the line buffer, the endpoint file | `run_loopback_server`, `handle_stream`, `read_limited_line`, `write_response`, `write_endpoint_file` | handling; any local process | one thread, stalling and dripping peers, an endpoint file that outlives its process | only the holder of the current secret reaches the broker; nobody holds the thread |
| Product client (`apps/desktop_flutter/lib/services/*.dart`) | session read from the endpoint file, a snapshot | `connect`, `request`, the probes of a snapshot | the loopback server | timeouts against a server that is restarted | the snapshot never shows a broker that did not answer |
| Evaluation (`packages/shell_core/policy_evaluator.py`, `broker/authority.rs`) | none (pure) | `evaluate`, `evaluate_authority`, `evaluate_broker_authority` | router; handling; parity harness | two implementations of one rule set | nothing is allowed without its grounds; the product allows nothing; the two agree |
| Shell core (`runtime_state.py`, `approval_queue.py`, `sensitive_action_router.py`, `permission_ledger.py`) | seven tables, the queue of approvals | register, record, enqueue, edit, append an audit event, route | adapters; evaluation | an approval edited after it was approved, in one of two places that hold it | what is routed is what was approved |
| Normalisation and exposure (`normalization.py`, `content_exposure.py`, `authority_keys.py`) | none | `normalize_inbound_payload`, `strip_authority_keys`, `project_approval_content` | shell core, adapters | keys that become equal, claims in another spelling | no claim of authority survives; nothing is lost unseen |
| Adapters (`packages/blue_tanuki_adapter`, catalogues) | none | `normalize_approval`, registration | shell core | an adapter that approves by itself | its word is never a decision |
| Python persistence (`persistence.py`, `audit_chain.py`, `state_store.py`) | JSONL audit log and anchor, state files | append, verify, save, load | the file system | crash between the two writes; retry of an append that raised; damage | what verifies is complete; no event twice |
| Manifest, packaging, gate (`tooling/manifest.py`, `packaging_portability_check.py`, `release_gate_check.py`) | the manifest, the archive, the blocker registry | `expected_files`, `check_manifest`, `write_manifest`, `main` of each | git; the tree | a manifest older than its tree; a registry that says more than the evidence | what is listed is there and the reverse; evidence decides |
| Windows evidence (`tooling/windows_release_evidence.py`) | none | `validate_windows_release_evidence` | gate, runner, bundle | evidence that was not measured, or is of another run | five results, each with its own grounds |
| Runtime assertions (`tooling/release_runtime_assertions.py`) | none | twelve assertions | the product's sources | text that is looked for in the wrong place | no path to authority past the broker |
| Language audit (`tooling/日本語基底監査.py`) | the registry of exceptions, frozen assets | `load_registry`, `audit_repository`, scanners | git; every file | files that come to lie in a scope later | what an exception takes from it is generated or frozen |
| Validation runner (`tooling/validate_all.py`) | results, evidence, verdict | `build_steps`, `run_step`, the report | all checks, as processes | tools that are missing, a tree that changes meanwhile | a pass stands on every step in scope |
| Parity harness (`tooling/broker_parity/run_authority_parity.py`) | the broker's process, its directory, the comparisons | `start_broker`, `request`, `shutdown`, `wait_for_process_exit`, clean-up | a broker | a broker that hangs, dies, refuses, serves on | it ends, and no broker writes on behind it |
| Conformance tests, evidence bundle (`run_conformance_skeleton.py`, `evidence_bundle.py`) | none | about a hundred tests | everything in Python | tests that assert a state of the release | - |
| Screens, helper gates, launch script, remaining tooling | little or none | - | - | two brokers started on one directory | - |

Interaction: a client reads the endpoint file, opens one TCP connection per
request, sends the secret as one line and the envelope as another, and reads one
line.  The server handles connections strictly one after the other and calls
`Broker::handle_json` synchronously; the broker calls the store synchronously.
So the interleavings that matter are those of the one thread's *writes* with
crashes, restarts, the clock, failures and the peers, not of threads.  The shell
core is called by one thread and copies what it takes and returns; what matters is
the order of its calls.  The runner starts one process per check and waits for it;
what matters is what happens to the tree between them, and the two processes of the
parity step.

## 2. Modules

| Module | Models | Status |
|---|---|---|
| `AuditChain` | the broker's chain and anchor as operators | checked, proved about |
| `JsonLines` | how a line reaches a file, in both cores | checked, proved about |
| `ReplayStore` | loading, expiry, eviction and compaction of nonces as operators | checked, proved about |
| `Broker` | handling over the file store, three persistence modes | checked, proved about |
| `BrokerContract` | abstract: what a client may rely on | refined by `Broker` |
| `IpcServer` | the server around the broker | checked, refines `Broker` |
| `ProductClient` | the start of the Flutter product against the server, among other peers | checked, proved about |
| `JsonPersistence` | the audit log of the Python shell core | checked, proved about |
| `Normalization` | keys, claims of authority, stripping | checked, proved about |
| `Authority` | both evaluations of an action as operators | checked, proved about |
| `ShellCore` | tables, queue and router around `Authority` | checked, proved about |
| `Checks` | a check is the set of its errors | - |
| `Manifest` | expected files, manifest, archive | checked, proved about |
| `WindowsEvidence` | the five results of an evidence document | checked |
| `ReleaseGate` | documents, registry, evidence | checked, proved about |
| `RuntimeAssertions` | the twelve assertions | checked, proved about |
| `LanguageAudit` | exceptions, frozen assets, prose | checked, proved about |
| `Conformance` | the tests that depend on the tree, and those of the evidence | checked |
| `ParityHarness` | the harness and a broker that fails in every phase | checked, proved about |
| `Validation` | composes the eight before it: a run over a tree that changes | checked, proved about |
| `BrokerProofs`, `ReplayProofs`, `ContractProofs`, `ClientProofs`, `JsonProofs`, `ShellProofs`, `ValidationProofs` | theorems | all proved |
| `MCBroker`, `MCIpcServer`, `MCProductClient`, `MCJsonPersistence`, `MCShellCore`, `MCValidation` | instances for TLC | - |

### Broker, server and client

`Broker` has one variable per field or file and a program counter.  One action is
**one write to one file together with every computation up to the next write**,
because a crash or an error can only be observed at a write:

| `pc` | Where the code is | Actions |
|---|---|---|
| `down` | no process | `StartInMemory`, `OpenKey`, `OpenKeyFails`; `TailLoss` (a line of the log is lost while nobody watches) |
| `load`, `compact`, `session` | inside `open_or_create` | `OpenLoad`, `OpenRefused`, `OpenCompact`, `OpenSession` |
| `idle` | waiting in the server's loop | `ReceiveRejected`, `ReceiveAdmitted`, `RejectIpc` |
| `nonce`, `nonce_compact` | inside `record_nonce` | `NonceAppend`, `NonceCompact`, `NonceCompactFails`, `NonceInMemory` |
| `audit`, `anchor` | inside `append_audit` | `AuditAppend`, `AuditAnchor`, `AuditAnchorFails`, `AuditInMemory` |
| `respond` | the answer is being delivered | `Respond` |
| any | | `Crash`, `Tick` |

`FirstFailure` is the list of early returns of `handle` in the order of the code.
An append has five outcomes (`AppendOutcomes`): success, or a failure that leaves
nothing, a part of the line, the line without its newline, or the whole line
without a sync.  A line appended behind an unfinished one becomes one unreadable
line with it (`TailAfter`), as it does in the file.

Abstractions: an event's hash is the sequence of bodies it covers (SHA-256 taken
as collision free); a session id and secret are the number of the process start;
a nonce is its place in string order, which is what eviction looks at among
records of one second, and some are `Blank`: `handle` only asks that a nonce is not
empty, `load_replay_nonces` also refuses one of white space, so the line of such a
nonce makes the file unreadable as a torn one does (`ReplayTailAfter`); a request's defects other than session, age and nonce are
one of `Flaws`.  The nonce file, in which the last line for a nonce wins, is a
function.  `acked`, `served` and `evicted` are history variables that no guard reads.

`IpcServer` extends `Broker` with the connection.  A read returns some bytes
(`ReadPiece`), too many (`ReadOversized`), end of stream (`ReadNothing`), a line
(`AuthLine`, `AuthLineRejected`, `RequestLine`, `ReadNotUtf8`) or an error
(`ReadFails`); a peer may `Stall`.  Every step is a step of `Broker` or leaves its
variables alone, which is checked and proved (`ImplementsBroker`).

`ProductClient` extends `IpcServer` with one client and its connection.  The client
reads the endpoint file (`ReadEndpoint`), and for each of its five probes connects
(`OpenSocket`), waits, and takes the answer (`TakeAnswer`), refuses it (`TakeRefusal`)
or gives up (`Fail`: no file, no connection, an empty answer, a timeout).  The server's
actions are those of `IpcServer`, restricted to what this client sends when it is the
client's connection that is served (`AcceptClient`, `ServeClient`, `AnswerClient`,
`DropClient`) and to another peer otherwise (`OtherSteps`, `OtherStops`).  What the
client requires of an answer is its status; the statuses derived from the answers
for the screens, and the diagnostic snapshots, are left out.

### The Python audit log

`JsonPersistence` is a module of its own: the broker and the Python core share no
file.  `AppendAuditEvent` is `append_audit_event` up to its write, `WriteLine` the
write, `MakeKey` and `ReadKey` are `_audit_anchor_key`, `WriteAnchor` replaces the
anchor and returns; `Abandon` is an exception, or the end of the process, anywhere
between.  The log may lose its last line (`LoseLastLine`) or have a line changed
(`ChangeLine`) between calls.  `VerifyOk` is `verify_audit_chain`.  Two things differ
from the Rust store: the anchor is not verified before an append, and the log is not
read back behind it.  `returned` and `forgotten` are history.

### Shell core

In `Normalization` a key is a word or two, what stands between them (nothing, a
zero-width character, an underscore, a hyphen, a space, or "." for any other
character), whether the second is capitalised, and a dress: full-width letters,
padding, capitals, an underscore or another character at the end, a sharp s for a
double one.  Two functions bring it to a name: Python's `normalize_key`, and the
broker's `normalize_authority_token`, for which every character but ASCII letters and
digits is an underscore, and underscores at the ends are nothing.  A nested dict is the sequence of its leaves with their paths,
so a collision of keys is two leaves with one normalised path, of which the later
stands.  `Authority` has one operator per table that an evaluation looks into
(`RuntimeErrors`, `CapabilityErrors`, `PermissionErrors`, `ApprovalErrors`,
`AuditErrors`, `RecoveryErrors`, `MetadataErrors`, `SourceErrors`), for Python and, where
the Rust source differs, for the broker; an evaluation is the union of their errors.
`Divergent` are the payloads that the two programs serialise, and so hash, differently:
with a character that is not ASCII, or a large float.  Messages, and the order of
errors, are left out.

`ShellCore` has the tables of `RuntimeState` as one variable, the queue as another,
and one operator per method with the method's name: `register_capability`,
`record_permission`, `register_recovery_action`, `append_audit_event`,
`enqueue_approval`, `register_adapter`, `queue_enqueue`, `edit`, `route`.  The actions
say who calls them with what: a user who decides on what is in the queue (`Decide`), a
review of an approval that is already in the state (`Review`), an adapter's proposal
(`Propose`).  `routed` and `granted` are history; `Origins` are the approvals as they
were before anybody edited them.

### Release tooling

A *tree* is a function from paths to contents, whether git answers there, and the
paths that it tracks.  A path is the tuple of its parts.  A content is a record that
holds what some check looks for in that file, and stands for its own hash: the lines
of a document with whether they speak of open work, the tokens in each part of a
source file, the entries of a registry, an evidence document.  Every check is the set
of its errors over a tree, and passes when that is empty.  Japanese file names are
romanised.  What a check asks of a file's suffix is asked of `Suffix`, a constant
function of its name: which files are Dart or Rust sources, and which the language
audit reads.  A directory is what has a file below it.  A path that a manifest lists is
as it is spelled; `Located` says where it leads.

`Validation` has the tree, the machine, the options, and the steps that are left and
done.  `RunStep` is one command from its start to its exit; only the parity step is
taken apart, into `StartParity`, the steps of `ParityHarness` and `EndParity`.  The
tree changes before a run (`Edit`, `WriteManifest`), after which the run is one of the
tree as it is left, and while it is under way (`EditDuringRun`), which sets `touched`.
`Report` reads the platform evidence and gives the verdict.

`ParityHarness` has the harness's place in its code, the broker's process, the request
under way and the shutdown.  The broker answers, hangs in any phase and goes on again
or not (`BrokerHangs`, `BrokerResumes`), dies, disagrees or refuses, and loses the
answer to its shutdown and serves on (`BrokerServesOn`, the behaviour of `IpcServer`
when its answer cannot be written).  A process that is killed (`WaitKills`) runs nothing
more, but ends when the system ends it (`BrokerEnds`): the second wait returns then
(`WaitReturns`) or raises at its own limit (`KilledWaitTimesOut`), and in either case the
directory is removed.  The four comparisons are one request each here.

In `Conformance` the tests whose outcome depends on the documents, the manifest, the
registry and the evidence of the tree are there one by one, and so are the ten tests
that change a valid evidence document and expect its refusal.  The others test the
Python packages; one mark in a file (`Marked`) stands for the failure of any of them,
as it does for the schema check, the smoke test and the tests of cargo and Flutter.

## 3. Runs

Every run sets `CHECK_DEADLOCK FALSE`: the bounds on time, process starts, audit
events, faults and routed actions end every behaviour, and a store that refuses to
open, a log that no longer parses, or a validation that has reported is a legitimate
end of the system.

| Run | Question | Distinct states |
|---|---|---|
| `replay` | is a request ever served twice, with crashes, failed writes, expiry and a nonce store with room for one? (`NoReplay`, its strengthening, types) | 3.9 M |
| `memory` | every way through `handle` without a store: does the memory hold every request that was served? (`SessionReplayInv`, from which `NoReplay` follows) | 1.9 M |
| `audit` | crashes, failed writes, lost lines, a full nonce store, a blank nonce: is an acknowledged event ever lost, do a broken log, a broken key and a broken nonce file keep the store closed, which answers come without an event, who can raise the shutdown flag, does the broker implement `BrokerContract`? | 586 k |
| `server` | who reaches the broker through the socket, when is the endpoint file valid, is the server's use of the broker the one of `Broker`, can a peer hold the only thread? | 367 k |
| `client` | the start of the product, with a restart, failed writes, timeouts and other peers: whose answers does it show, do the events it lists exist, does the start end? | 230 k |
| `json` | the Python audit log, with appends that fail at any point, retries and damage: what does a verification vouch for? | 77 k |
| `shellcore` | any order of registrations, proposals, edits, decisions and routed actions: is what is routed what was granted, what can edits never change, does a claim of authority ever help, where do the broker's comparison mode and Python part? | 115 k |
| `release` | a validation of a tree that people change before and while it runs, on four machines, with a broker that may fail in any phase: what does a passed step say of the tree, is a step ever skipped, does the harness end and leave no broker that writes? | 101 k |
| `shutdown`, `truncated`, `parity`, `strict` | four sentences of documents and tests that the code does not keep (section 6) | violated |

Bounds, and why they are enough.
* `Window = 1`, `Retention = 2`: the smallest values with `2 * Window = Retention`,
  the tight case of the assumption the replay theorem rests on.  The code has 300 s
  and 24 h.  `MaxTime` 3 or 4 lets a request arrive from the future, be served,
  expire from the store and grow stale.
* `MaxRecords` 1 with two nonces forces eviction; 2 and 6 exclude it.
* `MaxBoots` 2 or 3: one process that leaves a file behind, one that finds it, and
  in `audit` a third that finds what the second left.
* `MaxEvents` 2 or 3: an event, its successor, and a successor built on stale memory.
* `AuthMax = RequestMax = 2` bytes: a line can be empty, at its limit and above it.
* `memory` is the run with all operations and all early returns of `handle`: they do
  not depend on the store, and without one they can be combined with a clock.
* `client`: `MaxBoots = 2` restarts the broker once behind the client's back.
  `MaxEvents = 6` is one event per probe and one of another peer (`MaxOthers = 1`); the
  clock is frozen, since the probes take seconds and the freshness window is minutes;
  lines are one byte, since pieces and limits are the subject of `server`.  The server
  is not followed any further once the client has given up: that a request is served
  late, behind its timeout and while the product already shows no broker, is a
  behaviour of the server that this run stops before.
* `audit`: two of its three requests have metadata that claims authority, so that a nonce
  which cannot be recorded is answered without an event; the nonce of one is blank, and
  it is for the second process, so that a third finds what it left.
* `json`: four events of three ids, one id for two of them, so that an append can be
  refused for its id and a chain can be rebuilt differently; two damages, a loss and a
  change or a loss of two lines.
* `shellcore` starts from the state that the conformance tests build, with two payloads
  (what was approved and what it is edited into) and `MaxRouted = 2` actions, one before
  and one after a change.  The actions that are routed and evaluated are the reference
  action, varied in one point: two deviations are refused if one of them is, since an
  evaluation is a union of errors.  Normalising a payload and registering an adapter are
  functions of their input, so the payloads are taken one at a time from a fresh state.
* `release`: `PathsAssumption` says that paths of files are spelled plainly and, as a
  bound, that no change puts a file where another has its directory.  The manifests list, in some changes, a directory and a path with `./`;
  the tree has below `lib` a file of another kind that starts a process, and a document
  whose suffix is in capitals.  It has about thirty files, one for each role that some check gives to
  a file; each change of it concerns one file.  `MaxFaults = 2` counts changes before the
  run and failures of the broker or the clean-up: two changes are what it takes for the
  evidence and the registry to be those of a release or to contradict each other, two
  failures to make the harness fail and then to disturb its clean-up; the manifest may
  be written anew at any time in between.  A change during the run is the only one that
  happens then, for one is enough to tell a touched run from another.  The
  four machines are a developer's on Linux with the mobile client in the scope, a strict
  release on Windows, macOS without the toolchains, and an unpacked archive without git.

No run has the mode `persistent_required_unavailable`: it adds one early return to
`handle`, and what follows from it is a theorem (`UnavailableIsInert`).

Clients may send each envelope any number of times, to any process, so loss,
duplication, delay and reordering of requests need no action of their own.

Fairness is assumed in three specifications.

In `ServerSpec` it is weak fairness of `ServerStep`: some step of the thread that has a
connection is eventually taken.  `handle_stream` sets a 5 s read and write timeout on
the socket before it reads, so every call of the thread returns; nothing is assumed of
the peer.  The timeout bounds one read and not one line, so a peer that drips bytes is
stopped by the byte limit alone: that is what the mutant `ReadPieceUnbounded` breaks.
`Accept` is not fair: the property is about a connection, not about clients coming.

`ClientSpec` assumes weak fairness of `ClientStep` and nothing of the server: the
client's connection attempt and its wait for an answer each have a timeout of 5 s
(`Fail`).  The flush of a request has none; the two lines of a probe fit the send
buffer of a loopback socket, so it does not wait for the server.

`Validation` assumes weak fairness of the harness and of a broker that does not hang.
Each wait of the harness has a limit: 5 s on the socket, a deadline for the session
file, a deadline for the process's exit behind which it is killed, and one for the wait
behind that.  Nothing is assumed of faults, of people, of a broker that hangs coming
back (`BrokerResumes`), or of the system ending a killed process (`BrokerEnds`).  The
commands of the other steps have no limit in `run_step`; nothing is claimed of their end.

## 4. Theorems

All proofs are checked by TLAPS to the last leaf, for every value of the constants
under the named assumptions: finite or infinite sets of envelopes and nonces, any
clock, any number of restarts, any registry state, any actions, any tree.  The bounds
`MaxTime`, `MaxBoots`, `MaxEvents`, `MaxRouted` and `MaxFaults` are arbitrary there.

* `BrokerProofs`: `TypeCorrect`; `AuditInvariant`, and from it
  `AuditedAnswersAreDurable`, `AcknowledgedEventsSurvive` and the action property
  `StuckStaysStuck`; the action property `BrokenStoreStays`; `ShutdownIsOfThisSession`;
  and `UnavailableIsInert`: a broker that requires a store and has none dispatches and
  accepts nothing.
* `ReplayProofs`: `DurableReplayHolds`, `SessionReplayHolds`, `NothingIsReplayed`.  That
  theorem excepts nonces that were evicted; what eviction does is said by
  `OnlyTheOldestAreEvicted` (of the operators of `ReplayStore`, for any finite store),
  `StoreIsBounded`, the action property `OnlyFullStoresEvict`, and, with both,
  `FewNoncesAreServedOnce`: with no more nonces than the store has room for, the
  exception is empty.
* `ContractProofs`: `ContractKept` (refinement of `BrokerContract`),
  `ServerImplementsBroker`, hence `ServerReplaysNothing` and `ServerKeepsContract`;
  `PeersAreAuthentic`, `EndpointsAreServed`, `ServerTypes`.
* `ClientProofs`: `ClientTypes`; `SnapshotsAreOfOneSession`; and, with the file store,
  `SnapshotsAreJournaled`.  They rest on the lemma `ClientIsServer`, that a step of the
  client's system is a step of the server or leaves it alone, and so on the invariants
  of the broker and the server.
* `JsonProofs`: `JsonTypeCorrect`, `VerificationIsComplete`, `NoEventTwice`; `OneHistory`,
  that of two events that were returned one is chained behind the other, unless an
  append has missed one; and the action property `AnchoredHistoryGrows`, that an anchor
  of an undamaged log is only replaced by that of a longer one.
* `ShellProofs`: `RoutedActionsWereGranted`, `AllowedActionsAreGrounded`,
  `ClaimsHelpNobody`, `EvaluationsPartNowhereElse`, `EditsStayInBounds`,
  `AdaptersHaveNoClaims`, `NothingIsLostUnseen`, `ShellTypes`; and
  `ProductAllowsNothing`: with the registry that the product starts with, whatever action
  is sent, the broker's evaluation does not allow it.
* `ValidationProofs`: `BrokerIsGone`, `ReleaseTypeCorrect`, `NothingIsSkipped`,
  `ManifestMatchesTree`, `EvidenceIsDecisive`, `ArchiveSpeaksForTree`,
  `ShortcutsAreFound`, `ExclusionsHaveGrounds`.

Why the properties are not inductive as they stand:

* *Audit.*  "The running broker's log is the acknowledged one" says nothing about the
  moment between the append and the anchor, nor about what a restart will find.
  `AuditInv` adds that the anchor on disk is at all times that of the acknowledged
  log, whatever the log file holds, and that at `pc = "anchor"` a log file that loads
  *is* the memory plus the current event.  The latter is why a successor built on
  stale memory can never be anchored: it would not verify.  Its last part is about
  answers: `AuditedAnswerIsDurable` also says that an answer *without* an event is a
  suspension, and for which of two failures.
* *Files that cannot be read.*  `BrokenStoreIsFinal` is about a step from a state in which
  the key or the nonce file cannot be read.  `KeyInv` says that no process is up on such
  a key, since a key is only left in part by the crash of the process that was writing
  it.  A process may be up on such a nonce file, for it has torn it itself; `LoadedInv`
  says that it is not about to compact one, which would repair it.
* *Replay with the store.*  That a request was served once must be remembered for as
  long as it could be admitted.  `DurableReplayInv` says: a served request is already
  stale, or its nonce is recorded, on disk and in the memory of a process that has
  loaded it, at a time not before `issued - Window`.  A record of that age expires
  after `issued - Window + Retention`, which is no earlier than
  `issued + Window` exactly when `2 * Window <= Retention` (`WindowAssumption`).
  `Recorded` is kept by loading and compaction because a loaded record is dropped
  only by age or by eviction, and eviction is recorded in `evicted`.
* *Eviction.*  `StoreInv` says that the records on disk are finitely many, which is what
  the order of eviction (`EvictedAfter`) needs for a first element (the lemmas
  `LeastNumber`, `EvictionOrder` and `FirstEvicted`; the least number comes from the
  library's well-founded induction, whose form for sets has no operator parameter), and
  that the memory never exceeds `MaxRecords`.  The file may, for as long as compaction
  fails, by any number of lines; so its size has no bound in `StoreInv`.
* *Replay without a store.*  `SessionReplayInv`: the nonce of a request that the
  running process served is in its memory.  Nothing is left of it in the next process,
  whose session has the same fixed name in this mode; the history starts anew with it.
* *Refinement.*  The journal of the contract is `HeadHash(acked)`; an `AuditAnchor`
  step is `Acknowledge`, `Dispatch` is `Serve`, a load that evicts is `Forget`, an end
  of `respond` is `Done`, everything else stutters.  It needs both invariants.
* *The client.*  That the answers of a snapshot come from one process is kept by the
  secret, which is compared on every connection: `SessionInv` says that while the
  client's connection is served past its first line, the running process is the one
  whose endpoint file was read, and that what was written for the client and not yet
  read comes from there as well.  A rejection carries the session of whoever made it
  and is excepted; the client takes it for none of its probes.  That the events of a
  snapshot are in the journal needs `JournalInv`: the answer on its way names an event
  that `AuditAnchor` acknowledged for this very probe, behind those of all earlier
  answers, and the journal only grows (`JournalGrows`), whoever dies.
  `ProbesAssumption` says that the probes are among the requests that may be sent.
* *The Python log.*  `VerifiedIsComplete` relates what was returned to the log only when
  the log verifies.  `JsonInv` says why it then holds: the anchor, whatever became of
  the log, covers every event that was returned and that no later append missed
  (`AnchorCovers`); what an append has read verifies (`ReadVerified`), so the anchor it
  writes covers the events it read; and as long as the log was not damaged those are
  all of them (`LogIsRead`, `Undamaged`).  `OneHistory` needs nothing more: all of them
  are in one anchor.  For `AnchoredHistoryGrows`, `HistoryInv` adds that without damage
  what the anchor covers starts the log, if that parses, and what an append has read.
* *The shell core.*  `RoutedWasGranted` speaks of the moment of routing; that it stays
  so needs that nobody gets an approved approval into the table whose hash was not
  granted.  `ShellInv` says just that of every approval there, whoever put it: the user's
  decision, which grants the hash it is made on; a review of what is in the state; an
  adapter, whose "approved" `normalize_approval` turns into waiting unless an approver is
  named.  It adds that no routed audit event is ever replaced, that runtimes stay as
  they were, that no capability has null for its id, and that an adapter's metadata was
  stripped.  It rests on `StateAssumption`, `ActionAssumption`, `IdAssumption` and
  `MetadataAssumption`, which say what shape a state, an action and metadata have.
  `ShellTypeOK` is the exception, inductive as it stands, since it says of the queue and the state alike
  that approvals lie under their ids and carry payloads.  `EditsKeepTheRest` speaks of the
  queue and the state alike as well, because records go from one to the other: each is
  tied to some one of `Origins`, and the proof is that `edited`, a decision and a proposal
  keep that tie.  `RecordsAssumption` says that
  setting one field of a payload to that of another gives a payload, as it does for
  dicts.  `NothingLostUnseen` rests on `InboundAssumption`: what comes in is a dict, so
  two of its leaves part at some key.  If they end under one normalised path, the keys
  where they part are two spellings of one name, which is what the collisions list.
* *The validation.*  What a passed step says of the tree is said of a tree that has
  been the same since the step ran.  `FoundNothing` carries it: in an untouched run a
  step that is recorded as passed finds no errors in the tree of *now*.  The theorems
  then only unfold what it means that a check is empty.  `ArchiveSpeaksForTree` needs
  more: the archive's expected files are the tree's, with the same contents, so its
  manifest check and gate see what the tree's would (`ArchiveIsPart`).
  `ManifestMatchesTree` needs that a listed path that leads to a file is not taken for a
  directory: `PathsInv` keeps every tree of a run within the paths of the instance, and
  so (`FilesApart`) no file lies where another has its directory.
  `NothingIsSkipped` rests on `StepsInv`, that results and what is left are together the
  steps that `build_steps` gives, in order, and `HarnessInv`, that the comparisons are
  made in order and the last is made when nothing was raised.  The assumptions are
  `FaultsAssumption`, `PathsAssumption` and `CurrentFacingAssumption`: the documents that must speak of the
  present are among those that are scanned.

Assumed by model and proofs alike: the clock does not go backwards, SHA-256 has no
collisions, one broker process per store directory, and a file keeps what was written
to it when a *process* dies.

Only model-checked, of the properties that hold: `ConnectionEnds`, `ClientFinishes` and
`HarnessEnds`, since liveness under fairness is out of the prover's reach.  No module
declares a recursive operator; the one fold, `Listed`, only puts a set into an order that
no theorem depends on.

Several of the properties of `ShellCore` and `Validation` are about pure functions of a
state: an evaluation, a check.  They are invariants because what they are about is the
state that a long sequence of calls, or of edits, leads to, and the functions are
evaluated there with every action, or every tree, of the instance.

## 5. Mutants

Each property has a mutated definition of the model that breaks it, next to the
definition it mutates: a record that expires a second early (`RetainedStrictly`), a
dropped session check (`FirstFailureAnySession`), an anchor that is not verified
(`AnchorIgnored`) or may be behind (`AnchorBehind`), a swallowed failure
(`AuditAnchorSwallowed`), a secret that stays valid (`Remembered`), an endpoint file
that is read anew for every probe (`TakeAnswerReread`); an audit event that replaces one
of its id (`append_audit_event_again`), an action's own source that serves as its
permission (`PermissionErrorsBySource`); a manifest that is checked in one direction
(`check_listed`), a registry that is believed (`effective_release_blocker_trusting`), an
archive whose manifest is written anew (`Extracted_rewritten`), a scan that does not go
into subdirectories (`desktop_lib_files_here`), a harness that gives up its wait
without killing the broker (`WaitGivesUp`), and so on.

## 6. What the code does that a document denies

* `shutdown`: `accept_shutdown` raises its flag before the audit append; a failing
  append suspends the answer but not the shutdown.
* `truncated`: a Python log that lost its last event is refused by `verify_audit_chain`
  and accepted by `append_audit_event`, which then gives the shorter log an anchor.
* `parity`: for an action without a payload Python compares the hash in its audit event
  with the stored one (`policy_evaluator.py:138-139`) and the broker does not
  (`authority.rs:345`), so the broker allows what Python refuses.  The other way round,
  the broker refuses metadata with an authority word anywhere in a value
  (`protocol.rs:1296`), and with a key that is one but for punctuation, `role.` or
  `approved.by` or `_role` (`protocol.rs:1313-1339`: every character but ASCII letters and
  digits separates), both of which Python allows.  A key with a sharp s, `permißion`, is
  a claim for Python alone, whose `casefold` makes two letters of it.  And a payload with
  a character that is not ASCII, or with a float that is written with an exponent, has
  one hash in Python, whose `json.dumps` escapes the one and signs the other, and another
  in the broker (`authority.rs:836-861`), so that each refuses what the other hashed.
  `ROADMAP.md:28` says that the parity of the policy is implemented.
  `EvaluationsPartNowhereElse` shows that, within what the model tells apart of keys and
  payloads, these five are all: on every state and action the two evaluations agree but
  for them.  The evaluation in question is the comparison mode, which the product never
  uses.
* `strict`: a strict validation cannot pass.  `validate_all.py:267-277` adds the evidence
  `owner_go` as failed whatever the registry says, and the conformance step demands
  that the strict gate fail (`run_conformance_skeleton.py:1943`) and that the registry
  hold an unresolved blocker (`:1966`).  `docs/RELEASE_VALIDATION.md:42` requires that it
  pass before a release is declared.

Three further sentences that the code does not keep are stated as properties, without a
run of their own: when the nonce of a request with authority metadata cannot be
recorded, the answer is `suspended` and no audit event is attempted, while the same
failure of any other request is audited (`UnauditedOnlyWhenAppendFailed`,
`protocol.rs:504`; that there is no third way to an answer without an event is part of
`AuditedAnswerIsDurable`); a complete line that is not UTF-8 is dropped without answer and audit
(`MalformedIsAudited`, `ipc_server.rs:218`); and the client takes any `suspended` answer to
its command for the audited suspension of the threat model, which is also the answer of
a broker whose audit append failed (`SuspensionIsAudited`, `shell_core_client.dart:59`).

Two further behaviours of the Python log show in its model.  A line that was cut off
right before its newline still parses; the next append continues it, *returns its
event*, and leaves a file that no call can read any more (the Rust store reads the log
back before it answers, and does not return the event).  And an append that raised may
have appended: the retry is refused for its id, so no event is doubled, but the caller
cannot tell.

In the shell core, `edit` brings the hash up to date and neither the redacted payload nor
the summary that the user is shown (`approval_queue.py:46-56`; compare
`docs/specs/approval-visibility-boundary.md:3`), and writes no audit event.  The expiry and
the constraints of a permission are never looked at by an evaluation.  The snapshot for
diagnostics lists all approvals as pending.

In the release tooling: a directory that the manifest lists passes with any hash
(`manifest.py:217`), as does one path listed under two spellings; the assertions scan only
`*.dart` below `lib` (`release_runtime_assertions.py:78-79`) and `*.rs` in the helper
(`:269`), so that a Dart `part` of another suffix is not seen; the language audit reads
Markdown, JSON and eight kinds of code and no other file, without any exception being
asked for (`日本語基底監査.py:1117-1124`).  A blocker whose `active` is the number 1 is valid and never
blocks (`release_gate_check.py:197-198` and `:239`); the rule form of a document's blocker
block is never checked (`:325-341`).  The commit that the Windows evidence names is only
looked at for its form, and the evidence file is in neither git nor the manifest, so
evidence of another tree, or of two runs, passes.  The runtime assertions look for the
body of a method between two markers in the text and say nothing when a marker has been
renamed; one disclaimer in any document silences the claims of all.  The language audit
needs git, so a whole validation never passes in an unpacked archive.  The parity harness may end while
the broker it killed is still there: the second wait raises after 5 s
(`run_authority_parity.py:51`), and the directory is removed all the same.

And three consequences of the design worth knowing.  `StuckStaysStuck`: a crash between the
append of an audit line and the replacement of the anchor leaves a store that no later
broker opens.  `BrokenStoreStays`: so does a crash while the anchor key is written for the
first time; and so does one request of an authenticated client whose nonce is white
space, which `handle` admits (`protocol.rs:415` asks only that it is not empty) and whose
line no reader of the nonce file accepts (`store.rs:212-217`): the running broker refuses
every request from then on, and the next one does not start.  All fail closed, as
intended, but there is no recovery.

## 7. Not modelled

* Faults: a power cut that undoes a rename whose directory was not synced; a clock that
  steps back; two processes on one store directory, which the launch script does not
  prevent; that an anchor key of which a crash left an even part is a shorter one, which
  otherwise serves as a whole one does.
* Broker: the wording of reasons, the bodies of answers, argument parsing, the
  operations that repeat Python's edit, projection and verification for the fixture.
* Shell core: runtime and update policies and the validation of records against their
  schemas; the Python state snapshot, one unconditional write; the in-memory audit
  store; the tables of Unicode.
* Client: what the server still does for a client that has given up; screens and the statuses derived for them, which keep no state; the local and
  mock snapshots.
* Adapters and catalogues beyond `normalize_approval` and registration: conversions that
  keep no state.  The helper's gates: predicates of a few lines with tests beside them.
* Release tooling: the scanners of code and JSON in the language audit, which find the
  texts that are then judged as in Markdown; the conformance tests that are unit tests
  of the Python packages; the generators and reports (`shell_snapshot.py`,
  `setup_doctor.py`, schema check, contracts), which write what they computed and
  on which nobody decides but by exit code; an interpreter that cannot be started, and
  the output of commands; directories without any file below them, and a backslash in a
  listed path, which `matches_forbidden` reads as a separator.

## 8. Plan

In this order:

1. `SharedStore`: two broker processes on one directory, each with its own memory.
2. A power cut as a fault of `ReplayStore` and the anchor, with what was synced.
3. The civil-date algorithm of `protocol.rs` against a reference.
4. The conformance tests of persistence and evaluation, one by one, as instances of
   `JsonPersistence` and `ShellCore`.

Theorems to come: `NoReplay` and the journal for two processes that use one directory in
turn, with what fails when they use it at once; a refinement of `JsonPersistence` to a
journal that forgets only what damage took; and which of the properties of `Validation`
need that the tree is left alone during the run.
