---------------------------- MODULE MCIpcServer -----------------------------
(* Instances of IpcServer for TLC.                                         *)
EXTENDS IpcServer

MCNonces == {1, 2}

\* A shutdown of the first process and a probe, which another process may get.
MCEnvelopes ==
    {[nonce |-> 1, issued |-> 0, op |-> "shutdown", session |-> 1, flaw |-> "none"],
     [nonce |-> 2, issued |-> 0, op |-> "health", session |-> 0, flaw |-> "none"]}

=============================================================================
