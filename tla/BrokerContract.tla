--------------------------- MODULE BrokerContract ---------------------------
(***************************************************************************)
(* What the broker with its file store promises its clients, without       *)
(* processes, files, clocks or failures:                                   *)
(*   - a request has its effect at most once, unless its nonce was         *)
(*     forgotten because the nonce store was full;                         *)
(*   - the journal of acknowledged audit events only grows, by one event   *)
(*     for each answer that names one;                                     *)
(*   - such an answer names the event that was just journaled, and that    *)
(*     event is about the request that is answered.                        *)
(***************************************************************************)
EXTENDS Integers, Sequences

CONSTANTS
    Requests,    \* what clients may send; each has a nonce
    Entries      \* what the journal may hold; each is about a request, its env

VARIABLES
    journal,     \* the acknowledged audit events
    answer,      \* the answer on its way: the request and the event's number
    served,      \* how often each request had its effect, up to 2
    forgotten    \* the nonces that the broker no longer remembers

NoAnswer == [event |-> 0]

Init ==
    /\ journal = <<>> /\ answer = NoAnswer
    /\ served = [r \in Requests |-> 0] /\ forgotten = {}

\* Nonces may be forgotten at any time, but are never learnt again.
Forgetting == forgotten \subseteq forgotten'

Serve(r) ==
    /\ served[r] = 0 \/ r.nonce \in forgotten
    /\ served' = [served EXCEPT ![r] = IF @ = 0 THEN 1 ELSE 2]
    /\ Forgetting
    /\ UNCHANGED <<journal, answer>>

Acknowledge(entry) ==
    /\ answer = NoAnswer
    /\ journal' = Append(journal, entry)
    /\ answer' = [event |-> Len(journal) + 1, request |-> entry.env]
    /\ UNCHANGED <<served, forgotten>>

\* The answer reaches the client, or is lost with the process.
Done ==
    /\ answer' = NoAnswer
    /\ UNCHANGED <<journal, served, forgotten>>

Forget ==
    /\ Forgetting
    /\ UNCHANGED <<journal, answer, served>>

Next == \/ \E r \in Requests : Serve(r)
        \/ \E entry \in Entries : Acknowledge(entry)
        \/ Done \/ Forget

Spec == Init /\ [][Next]_<<journal, answer, served, forgotten>>

=============================================================================
