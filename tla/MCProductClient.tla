-------------------------- MODULE MCProductClient ---------------------------
(* Instances of ProductClient for TLC.                                     *)
EXTENDS ProductClient

MCNonces == 1..6

\* The probes for every session, and the shutdown request of another client.
MCEnvelopes ==
    {[nonce |-> k, issued |-> 0, op |-> Probes[k],
      session |-> IF Probes[k] = "health" THEN 0 ELSE s, flaw |-> "none"] :
        k \in 1..5, s \in 1..MaxBoots}
    \union {[nonce |-> 6, issued |-> 0, op |-> "shutdown", session |-> 1, flaw |-> "none"]}

=============================================================================
