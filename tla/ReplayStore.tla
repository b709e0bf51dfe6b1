---------------------------- MODULE ReplayStore -----------------------------
(***************************************************************************)
(* The replay-nonce file of the broker (broker/store.rs): what loading it  *)
(* returns.  The file is a list of (nonce, recorded_at) lines in which the *)
(* last line for a nonce wins, so it is a function from nonces to times.   *)
(* A nonce is a number that stands for its place in the string order.      *)
(***************************************************************************)
EXTENDS Integers, FiniteSets

CONSTANTS
    Nonces,      \* the nonces of the requests considered
    Blank,       \* those of white space only: handle admits them, loading does not
    Retention,   \* REPLAY_NONCE_RETENTION_SECONDS
    MaxRecords   \* MAX_REPLAY_NONCE_RECORDS

ASSUME NoncesAssumption == Nonces \subseteq Nat /\ Blank \subseteq Nonces
ASSUME RetentionAssumption == Retention \in Nat
ASSUME MaxRecordsAssumption == MaxRecords \in Nat

\* The time of a nonce that has no record.
NoTime == -1

NoRecords == [n \in Nonces |-> NoTime]

\* The insertion of a line into the map being loaded, or its append to the file.
Insert(recs, nonce, at) == [recs EXCEPT ![nonce] = at]

\* A mutant: a record expires one second early.
RetainedStrictly(at, t) == at # NoTime /\ t - at < Retention

\* nonce_is_retained
Retained(at, t) == at # NoTime /\ t - at <= Retention

RetainedNonces(recs, t) == {n \in Nonces : Retained(recs[n], t)}

\* The eviction loop removes the oldest record first and, among records of the
\* same second, the first in key order.
EvictedAfter(recs, m, n) ==
    recs[m] > recs[n] \/ (recs[m] = recs[n] /\ m > n)

Survivors(recs, t) ==
    LET kept == RetainedNonces(recs, t)
    IN  {n \in kept :
            Cardinality({m \in kept : EvictedAfter(recs, m, n)}) < MaxRecords}

\* A mutant: the expired records are removed from the map, not marked absent.
LoadReplayPartial(recs, t) == [n \in Survivors(recs, t) |-> recs[n]]

\* load_replay_nonces
LoadReplay(recs, t) ==
    [n \in Nonces |-> IF n \in Survivors(recs, t) THEN recs[n] ELSE NoTime]

\* The retained nonces that loading drops because the store is full.
EvictedNonces(recs, t) == RetainedNonces(recs, t) \ Survivors(recs, t)

=============================================================================
