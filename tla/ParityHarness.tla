--------------------------- MODULE ParityHarness ----------------------------
(* tooling/broker_parity/run_authority_parity.py: a broker is started in a *)
(* directory of its own, asked to decide what Python decides, compared,    *)
(* shut down and waited for, and the directory is removed, whatever the    *)
(* broker does meanwhile.                                                  *)
(*                                                                         *)
(* The broker is the server of module IpcServer, seen from the outside: it *)
(* starts, answers one request at a time and stops when asked to.  It may  *)
(* end, hang and go on, refuse a request, answer in another way, and lose  *)
(* the answer to a shutdown, after which it serves on.                     *)
EXTENDS Naturals, Sequences

CONSTANT MaxFaults  \* a bound on what goes wrong

ASSUME FaultsAssumption == MaxFaults \in Nat

VARIABLES
    hpc,     \* where the harness is
    broker,  \* the process: none, up (starting), ready, hung, killed (not yet ended) or gone
    stalled, \* where a hung broker was
    link,    \* the request that is under way and its answer
    stop,    \* the shutdown request
    compared, \* the comparisons that were made
    differs, \* errors: whether a comparison found a difference
    raised,  \* an exception is on its way
    faults   \* what went wrong so far

harness == <<hpc, broker, stalled, link, stop, compared, differs, raised>>

Comparisons ==
    <<"compare_normalization", "compare_policy", "compare_approval_edit_and_projection",
      "compare_audit_chain">>

HarnessInit ==
    /\ hpc = "off" /\ broker = "none" /\ stalled = "none" /\ link = "idle" /\ stop = "none"
    /\ compared = <<>> /\ differs = FALSE /\ raised = FALSE

Fault == faults < MaxFaults /\ faults' = faults + 1

-----------------------------------------------------------------------------
(* The harness.                                                            *)

\* main, and the process that start_broker starts.
StartBroker ==
    /\ hpc = "off"
    /\ hpc' = "start" /\ broker' = "up"
    /\ stalled' = "none" /\ link' = "idle" /\ stop' = "none"
    /\ compared' = <<>> /\ differs' = FALSE /\ raised' = FALSE
    /\ UNCHANGED faults

\* The session file is there.
BrokerSeen ==
    /\ hpc = "start" /\ (broker = "ready" \/ stalled = "ready")
    /\ hpc' = "call"
    /\ UNCHANGED <<broker, stalled, link, stop, compared, differs, raised, faults>>

\* The process ended early: nothing is shut down or waited for.
BrokerDiedEarly ==
    /\ hpc = "start" /\ broker = "gone"
    /\ hpc' = "cleanup" /\ raised' = TRUE
    /\ UNCHANGED <<broker, stalled, link, stop, compared, differs, faults>>

StartTimeout ==
    /\ hpc = "start" /\ broker = "hung"
    /\ hpc' = "wait" /\ raised' = TRUE
    /\ UNCHANGED <<broker, stalled, link, stop, compared, differs, faults>>

\* BrokerClient.request for the next comparison; a broker that is gone cannot be reached.
Ask ==
    /\ hpc = "call" /\ link = "idle" /\ Len(compared) < Len(Comparisons)
    /\ IF broker = "gone"
       THEN hpc' = "shutdown" /\ raised' = TRUE /\ link' = link
       ELSE link' = "asked" /\ UNCHANGED <<hpc, raised>>
    /\ UNCHANGED <<broker, stalled, stop, compared, differs, faults>>

\* The answer; call raises when the broker refused.
Compare ==
    /\ hpc = "call" /\ link \in {"agrees", "differs", "refused"}
    /\ link' = "idle"
    /\ IF link = "refused"
       THEN hpc' = "shutdown" /\ raised' = TRUE /\ UNCHANGED <<compared, differs>>
       ELSE /\ compared' = Append(compared, Comparisons[Len(compared) + 1])
            /\ differs' = (differs \/ link = "differs")
            /\ UNCHANGED <<hpc, raised>>
    /\ UNCHANGED <<broker, stalled, stop, faults>>

\* mutant: a socket without a timeout
CallEndsWithBroker ==
    /\ hpc = "call" /\ link = "asked" /\ broker = "gone"
    /\ hpc' = "shutdown" /\ raised' = TRUE /\ link' = "idle"
    /\ UNCHANGED <<broker, stalled, stop, compared, differs, faults>>

\* The socket's timeout, and an answer that ends before its line does.
CallFails ==
    /\ hpc = "call" /\ link = "asked" /\ broker \in {"hung", "gone"}
    /\ hpc' = "shutdown" /\ raised' = TRUE /\ link' = "idle"
    /\ UNCHANGED <<broker, stalled, stop, compared, differs, faults>>

AllCompared ==
    /\ hpc = "call" /\ link = "idle" /\ Len(compared) = Len(Comparisons)
    /\ hpc' = "shutdown"
    /\ UNCHANGED <<broker, stalled, link, stop, compared, differs, raised, faults>>

\* BrokerClient.shutdown does not wait for an answer; it raises when nobody listens.
Shutdown ==
    /\ hpc = "shutdown"
    /\ hpc' = "wait"
    /\ IF broker = "gone" THEN raised' = TRUE /\ stop' = stop
                          ELSE stop' = "asked" /\ raised' = raised
    /\ UNCHANGED <<broker, stalled, link, compared, differs, faults>>

\* wait_for_process_exit: the process ended, by itself or behind its kill.
WaitReturns ==
    /\ hpc \in {"wait", "killed"} /\ broker = "gone"
    /\ hpc' = "cleanup"
    /\ UNCHANGED <<broker, stalled, link, stop, compared, differs, raised, faults>>

\* mutant: the timeout leaves the process alone
WaitGivesUp ==
    /\ hpc = "wait" /\ broker # "gone"
    /\ hpc' = "cleanup" /\ raised' = TRUE
    /\ UNCHANGED <<broker, stalled, link, stop, compared, differs, faults>>

\* The process takes too long, and is killed: it runs nothing more, but when it ends is
\* up to the system.
WaitKills ==
    /\ hpc = "wait" /\ broker # "gone"
    /\ hpc' = "killed" /\ broker' = "killed" /\ stalled' = "none"
    /\ UNCHANGED <<link, stop, compared, differs, raised, faults>>

\* The second wait has a limit of its own, and raises.
KilledWaitTimesOut ==
    /\ hpc = "killed" /\ broker = "killed"
    /\ hpc' = "cleanup" /\ raised' = TRUE
    /\ UNCHANGED <<broker, stalled, link, stop, compared, differs, faults>>

\* cleanup_temp_directory.
Cleanup ==
    /\ hpc = "cleanup"
    /\ hpc' = "ended"
    /\ UNCHANGED <<broker, stalled, link, stop, compared, differs, raised, faults>>

\* It gives up after twenty-five attempts.
CleanupFails ==
    /\ hpc = "cleanup" /\ Fault
    /\ hpc' = "ended" /\ raised' = TRUE
    /\ UNCHANGED <<broker, stalled, link, stop, compared, differs>>

HarnessStep ==
    \/ BrokerSeen \/ BrokerDiedEarly \/ StartTimeout \/ Ask \/ Compare \/ CallFails
    \/ AllCompared \/ Shutdown \/ WaitReturns \/ WaitKills \/ KilledWaitTimesOut \/ Cleanup

\* The exit code of the run.
HarnessPassed == ~raised /\ ~differs

-----------------------------------------------------------------------------
(* The broker.                                                             *)

BrokerReady ==
    /\ broker = "up"
    /\ broker' = "ready"
    /\ UNCHANGED <<hpc, stalled, link, stop, compared, differs, raised, faults>>

BrokerAnswers ==
    /\ broker = "ready" /\ link = "asked"
    /\ link' = "agrees"
    /\ UNCHANGED <<hpc, broker, stalled, stop, compared, differs, raised, faults>>

BrokerStops ==
    /\ broker = "ready" /\ stop = "asked"
    /\ broker' = "gone" /\ stop' = "answered"
    /\ UNCHANGED <<hpc, stalled, link, compared, differs, raised, faults>>

BrokerStep == BrokerReady \/ BrokerAnswers \/ BrokerStops

\* A killed process ends, or not, soon or behind the end of the run.
BrokerEnds ==
    /\ broker = "killed"
    /\ broker' = "gone"
    /\ UNCHANGED <<hpc, stalled, link, stop, compared, differs, raised, faults>>

\* A hung broker goes on, or not.
BrokerResumes ==
    /\ broker = "hung"
    /\ broker' = stalled /\ stalled' = "none"
    /\ UNCHANGED <<hpc, link, stop, compared, differs, raised, faults>>

BrokerHangs ==
    /\ broker \in {"up", "ready"} /\ hpc # "ended" /\ Fault
    /\ broker' = "hung" /\ stalled' = broker
    /\ UNCHANGED <<hpc, link, stop, compared, differs, raised>>

BrokerDies ==
    /\ broker \in {"up", "ready"} /\ hpc # "ended" /\ Fault
    /\ broker' = "gone"
    /\ UNCHANGED <<hpc, stalled, link, stop, compared, differs, raised>>

\* The answer is another one than Python's, or a refusal.
BrokerDisagrees ==
    /\ broker = "ready" /\ link = "asked" /\ Fault
    /\ \E answer \in {"differs", "refused"} : link' = answer
    /\ UNCHANGED <<hpc, broker, stalled, stop, compared, differs, raised>>

\* ipc_server.rs: the answer cannot be written, and the loop goes on.
BrokerServesOn ==
    /\ broker = "ready" /\ stop = "asked" /\ Fault
    /\ stop' = "lost"
    /\ UNCHANGED <<hpc, broker, stalled, link, compared, differs, raised>>

BrokerFault == BrokerHangs \/ BrokerDies \/ BrokerDisagrees \/ BrokerServesOn \/ CleanupFails

-----------------------------------------------------------------------------
(* Properties.                                                             *)

\* The directory is removed, and the run ends, when the broker is gone: a process that the
\* system has not ended by then was killed, so that it writes no more to its store, and
\* the run raises for it.
NoBrokerLeft ==
    hpc \in {"cleanup", "ended"} => broker = "gone" \/ (broker = "killed" /\ raised)

\* Whatever the broker does or does not do, the run ends: nothing in the harness waits
\* without a limit.
HarnessEnds == (hpc \notin {"off", "ended"}) ~> (hpc = "ended")

=============================================================================
