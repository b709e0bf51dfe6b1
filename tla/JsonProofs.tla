----------------------------- MODULE JsonProofs -----------------------------
(***************************************************************************)
(* Theorems about JsonPersistence, for any set of events and any number of *)
(* damages.                                                                *)
(***************************************************************************)
EXTENDS JsonPersistence, SequenceTheorems, TLAPS

\* The events whose contents an anchor's hash covers.
Anchored(head) ==
    {[content |-> head[i], previous |-> SubSeq(head, 1, i - 1)] : i \in 1..Len(head)}

\* While append_audit_event runs, what it read verifies and does not hold the new id,
ReadVerified ==
    pc # "idle" => ChainOk(events) /\ cur.event_id \notin IdsIn(events)

\* and the log is what it read, later with what it added, unless the addition has spoilt
\* a line that had no newline.
LogIsRead ==
    /\ pc = "write" => log = events
    /\ pc \in {"key", "anchor"} /\ tail # "torn" => log = Chained(events, cur)

\* The anchor covers every event that was returned and not forgotten.
AnchorCovers == returned \subseteq Anchored(anchor.head) \union forgotten

\* Without damage the log, if it parses, holds every event that was returned.
Undamaged ==
    damages = 0 => /\ forgotten = {}
                   /\ tail # "torn" => returned \subseteq EventsIn(log)
                   /\ pc # "idle" => returned \subseteq EventsIn(events)

JsonInv == ReadVerified /\ LogIsRead /\ EventsAreUnique /\ AnchorCovers /\ Undamaged

-----------------------------------------------------------------------------
(* What the operators on logs return.                                      *)

\* The head hash of a log covers the contents of its events, in order.
LEMMA HeadHashType ==
    ASSUME NEW L \in Lines
    PROVE  /\ Len(L) \in Nat
           /\ \A i \in 1..Len(L) : L[i].event \in Events /\ L[i].event.content \in Contents
           /\ HeadHash(L) \in Seq(Contents)
           /\ Len(HeadHash(L)) = Len(L)
           /\ \A i \in 1..Len(L) : HeadHash(L)[i] = L[i].event.content
<1>1. Len(L) \in Nat
  BY DEF Lines
<1>a. \A i \in 1..Len(L) : L[i] \in [event : Events, sound : BOOLEAN]
  BY ElementOfSeq DEF Lines
<1>2. \A i \in 1..Len(L) : L[i].event \in Events
  BY <1>a
<1>3. \A i \in 1..Len(L) : L[i].event.content \in Contents
  BY <1>2 DEF Events
<1>4. HeadHash(L) \in [1..Len(L) -> Contents]
  BY <1>3 DEF HeadHash
<1> QED
  BY <1>1, <1>2, <1>3, <1>4 DEF HeadHash

\* The event that extends a log is an event, and the log with it a log.
LEMMA ChainedType ==
    ASSUME NEW L \in Lines, NEW c \in Contents
    PROVE  /\ ChainEvent(L, c) \in Events
           /\ Chained(L, c) \in Lines
           /\ Len(Chained(L, c)) = Len(L) + 1
           /\ \A i \in 1..Len(L) : Chained(L, c)[i] = L[i]
           /\ Chained(L, c)[Len(L) + 1] = [event |-> ChainEvent(L, c), sound |-> TRUE]
<1>1. ChainEvent(L, c) \in Events
  BY HeadHashType DEF ChainEvent, Events
<1>2. [event |-> ChainEvent(L, c), sound |-> TRUE] \in [event : Events, sound : BOOLEAN]
  BY <1>1
<1> QED
  BY <1>1, <1>2 DEF Chained, Lines

\* Extending a log adds one event, one id and one content.
LEMMA ChainedAdds ==
    ASSUME NEW L \in Lines, NEW c \in Contents
    PROVE  /\ EventsIn(Chained(L, c)) = EventsIn(L) \union {ChainEvent(L, c)}
           /\ HeadHash(Chained(L, c)) = Append(HeadHash(L), c)
<1> DEFINE M == Chained(L, c)
<1>1. Len(L) \in Nat /\ Len(M) = Len(L) + 1
  BY HeadHashType, ChainedType
<1>2. \A i \in 1..Len(L) : M[i] = L[i]
  BY ChainedType
<1>a. M[Len(L) + 1] = [event |-> ChainEvent(L, c), sound |-> TRUE]
  BY ChainedType
<1> HIDE DEF M
<1>3. M[Len(L) + 1].event = ChainEvent(L, c)
  BY <1>a
<1> USE DEF M
<1>4. EventsIn(M) = EventsIn(L) \union {ChainEvent(L, c)}
  <2>1. ASSUME NEW e \in EventsIn(M) PROVE e \in EventsIn(L) \union {ChainEvent(L, c)}
    <3>1. PICK i \in 1..Len(M) : e = M[i].event
      BY DEF EventsIn
    <3> QED
      BY <3>1, <1>1, <1>2, <1>3 DEF EventsIn
  <2>2. EventsIn(L) \subseteq EventsIn(M)
    BY <1>1, <1>2 DEF EventsIn
  <2>3. ChainEvent(L, c) \in EventsIn(M)
    BY <1>1, <1>3 DEF EventsIn
  <2> QED
    BY <2>1, <2>2, <2>3
<1>5. HeadHash(M) = Append(HeadHash(L), c)
  <2>1. HeadHash(M) \in Seq(Contents) /\ Len(HeadHash(M)) = Len(L) + 1
    BY <1>1, ChainedType, HeadHashType
  <2>2. \A i \in 1..(Len(L) + 1) : HeadHash(M)[i] = M[i].event.content
    BY <1>1, ChainedType, HeadHashType
  <2>3. M[Len(L) + 1].event.content = c
    BY <1>3 DEF ChainEvent
  <2>4. \A i \in 1..Len(L) : HeadHash(L)[i] = M[i].event.content
    BY <1>2, HeadHashType
  <2>5. HeadHash(L) \in Seq(Contents) /\ Len(HeadHash(L)) = Len(L)
    BY HeadHashType
  <2> QED
    BY <2>1, <2>2, <2>3, <2>4, <2>5, <1>1
<1> QED
  BY <1>4, <1>5

\* The events of a chain that verifies are those that its head hash covers.
LEMMA ChainIsCovered ==
    ASSUME NEW L \in Lines, ChainOk(L)
    PROVE  EventsIn(L) = Anchored(HeadHash(L))
<1> DEFINE h == HeadHash(L)
<1>1. Len(L) \in Nat /\ Len(h) = Len(L) /\ h \in Seq(Contents)
  BY HeadHashType
<1>2. ASSUME NEW i \in 1..Len(L)
      PROVE  L[i].event = [content |-> h[i], previous |-> SubSeq(h, 1, i - 1)]
  <2> DEFINE before == SubSeq(L, 1, i - 1)
  <2>1. L[i].event = [content |-> L[i].event.content, previous |-> HeadHash(before)]
    BY DEF ChainOk, ChainEvent
  <2>2. before \in Lines /\ Len(before) = i - 1 /\ \A j \in 1..(i - 1) : before[j] = L[j]
    <3>a. \A j \in 1..Len(L) : L[j] \in [event : Events, sound : BOOLEAN]
      BY ElementOfSeq DEF Lines
    <3>1. \A j \in 1..(i - 1) : L[j] \in [event : Events, sound : BOOLEAN]
      BY <1>1, <3>a
    <3> QED
      BY <1>1, <3>1, SubSeqProperties DEF Lines
  <2>3. /\ HeadHash(before) \in Seq(Contents) /\ Len(HeadHash(before)) = i - 1
        /\ \A j \in 1..(i - 1) : HeadHash(before)[j] = L[j].event.content
    BY <2>2, HeadHashType
  <2>4. /\ SubSeq(h, 1, i - 1) \in Seq(Contents) /\ Len(SubSeq(h, 1, i - 1)) = i - 1
        /\ \A j \in 1..(i - 1) : SubSeq(h, 1, i - 1)[j] = h[j]
    BY <1>1
  <2>5. \A j \in 1..Len(L) : h[j] = L[j].event.content
    BY HeadHashType
  <2>6. HeadHash(before) = SubSeq(h, 1, i - 1)
    <3> DEFINE s == HeadHash(before)
               t == SubSeq(h, 1, i - 1)
    <3>1. s \in Seq(Contents) /\ t \in Seq(Contents) /\ Len(s) = Len(t)
      BY <2>3, <2>4
    <3>2. \A j \in 1..Len(s) : s[j] = t[j]
      BY <2>3, <2>4, <2>5, <1>1
    <3> HIDE DEF s, t
    <3>3. s = t
      BY <3>1, <3>2, SeqEqual
    <3> QED
      BY <3>3 DEF s, t
  <2> QED
    BY <2>1, <2>5, <2>6
<1> QED
  BY <1>1, <1>2 DEF EventsIn, Anchored

\* One more content covers one more event.
LEMMA CoveredByOneMore ==
    ASSUME NEW h \in Seq(Contents), NEW c \in Contents
    PROVE  Anchored(Append(h, c)) = Anchored(h) \union {[content |-> c, previous |-> h]}
<1> DEFINE g == Append(h, c)
           Covered(s, i) == [content |-> s[i], previous |-> SubSeq(s, 1, i - 1)]
<1>1. Len(g) = Len(h) + 1 /\ Len(h) \in Nat /\ g \in Seq(Contents)
  OBVIOUS
<1>2. ASSUME NEW i \in 1..Len(h) PROVE Covered(g, i) = Covered(h, i)
  <2>1. SubSeq(g, 1, i - 1) = SubSeq(h, 1, i - 1)
    BY <1>1
  <2>2. g[i] = h[i]
    BY <1>1
  <2> HIDE DEF g
  <2> QED
    BY <2>1, <2>2
<1>3. Covered(g, Len(h) + 1) = [content |-> c, previous |-> h]
  <2>1. SubSeq(g, 1, Len(h)) = h
    BY <1>1
  <2> QED
    BY <2>1, <1>1
<1>4. Anchored(g) = {Covered(g, i) : i \in 1..(Len(h) + 1)}
  BY <1>1 DEF Anchored
<1>5. Anchored(h) = {Covered(h, i) : i \in 1..Len(h)}
  BY DEF Anchored
<1> HIDE DEF Covered
<1>6. {Covered(g, i) : i \in 1..(Len(h) + 1)}
        = {Covered(h, i) : i \in 1..Len(h)} \union {[content |-> c, previous |-> h]}
  BY <1>1, <1>2, <1>3
<1> QED
  BY <1>4, <1>5, <1>6

-----------------------------------------------------------------------------
(* Types.                                                                  *)

USE DEF call, files, history

\* A log without its last line, or with one line changed, is a log.
LEMMA DamageType ==
    ASSUME NEW L \in Lines
    PROVE  /\ L # <<>> => SubSeq(L, 1, Len(L) - 1) \in Lines
           /\ \A i \in 1..Len(L) : [L EXCEPT ![i].sound = FALSE] \in Lines
<1> DEFINE Line == [event : Events, sound : BOOLEAN]
<1>1. \A i \in 1..Len(L) : L[i] \in Line
  BY ElementOfSeq DEF Lines
<1>2. Len(L) \in Nat
  BY HeadHashType
<1>3. ASSUME L # <<>> PROVE SubSeq(L, 1, Len(L) - 1) \in Lines
  <2>1. \A i \in 1..(Len(L) - 1) : L[i] \in Line
    BY <1>1, <1>2
  <2> QED
    BY <1>2, <2>1, SubSeqProperties DEF Lines
<1>4. ASSUME NEW i \in 1..Len(L) PROVE [L EXCEPT ![i].sound = FALSE] \in Lines
  <2>1. [L[i] EXCEPT !.sound = FALSE] \in Line
    BY <1>1
  <2>2. [L EXCEPT ![i] = [L[i] EXCEPT !.sound = FALSE]] \in Seq(Line)
    BY <2>1, ExceptSeq DEF Lines
  <2> QED
    BY <2>2 DEF Lines
<1> QED
  BY <1>3, <1>4

\* The type invariant of JsonPersistence holds before the first call.
LEMMA TypeInit == Init => JsonTypeOK
<1> SUFFICES ASSUME Init PROVE JsonTypeOK
  OBVIOUS
<1>1. <<>> \in Lines /\ <<>> \in Seq(Contents)
  BY DEF Lines
<1> QED
  BY <1>1, MaxDamageAssumption DEF Init, JsonTypeOK, NoAnchor, Tails

\* Every call, crash and reload keeps the type invariant.
LEMMA TypeStep == JsonTypeOK /\ [Next]_vars => JsonTypeOK'
<1> SUFFICES ASSUME JsonTypeOK, [Next]_vars PROVE JsonTypeOK'
  OBVIOUS
<1> USE DEF JsonTypeOK
<1>1. ASSUME NEW c \in Contents, AppendAuditEvent(c) PROVE JsonTypeOK'
  BY <1>1 DEF AppendAuditEvent
<1>2. ASSUME NEW o \in AppendOutcomes, WriteLine(o) PROVE JsonTypeOK'
  <2>1. Chained(events, cur) \in Lines
    BY ChainedType
  <2>2. log' \in Lines
    BY <1>2, <2>1 DEF WriteLine
  <2>3. tail' \in Tails
    BY <1>2 DEF WriteLine, TailAfter, Tails
  <2> QED
    BY <1>2, <2>2, <2>3 DEF WriteLine
<1>3. CASE MakeKey
  BY <1>3 DEF MakeKey, Usable
<1>4. CASE ReadKey
  BY <1>4 DEF ReadKey
<1>5. CASE WriteAnchor
  <2>1. Chained(events, cur) \in Lines /\ ChainEvent(events, cur) \in Events
    BY ChainedType
  <2>2. /\ Len(Chained(events, cur)) \in Nat
        /\ HeadHash(Chained(events, cur)) \in Seq(Contents)
    BY <2>1, HeadHashType
  <2>3. anchor' \in [count : Nat, head : Seq(Contents), key : {"absent", "short", "whole"}]
    BY <1>5, <2>2 DEF WriteAnchor, AnchorRecord, Usable
  <2> QED
    BY <1>5, <2>1, <2>3 DEF WriteAnchor
<1>6. CASE Abandon
  BY <1>6 DEF Abandon
<1>7. CASE LoseLastLine
  <2>1. log' \in Lines
    BY <1>7, DamageType DEF LoseLastLine
  <2>2. damages' \in 0..MaxDamage
    BY <1>7, MaxDamageAssumption DEF LoseLastLine
  <2> QED
    BY <1>7, <2>1, <2>2 DEF LoseLastLine
<1>8. CASE ChangeLine
  <2>1. log' \in Lines
    <3>1. PICK i \in 1..Len(log) : log' = [log EXCEPT ![i].sound = FALSE]
      BY <1>8 DEF ChangeLine
    <3>2. [log EXCEPT ![i].sound = FALSE] \in Lines
      BY DamageType
    <3> QED
      BY <3>1, <3>2
  <2>2. damages' \in 0..MaxDamage
    BY <1>8, MaxDamageAssumption DEF ChangeLine
  <2> QED
    BY <1>8, <2>1, <2>2 DEF ChangeLine
<1>9. CASE UNCHANGED vars
  BY <1>9 DEF vars
<1> QED
  BY <1>1, <1>2, <1>3, <1>4, <1>5, <1>6, <1>7, <1>8, <1>9 DEF Next

\* The call, the files and the history have their types (JsonTypeOK); in particular no
\* anchor is made with a key that cannot be read back (_audit_anchor_key).
THEOREM JsonTypeCorrect == Spec => []JsonTypeOK
BY TypeInit, TypeStep, PTL DEF Spec

-----------------------------------------------------------------------------
(* The invariant.                                                          *)

\* A log whose ids differ keeps that property when it is extended by a new id, when it
\* loses its last line and when a line is changed.
LEMMA UniqueKept ==
    ASSUME NEW L \in Lines, NEW c \in Contents,
           \A i, j \in 1..Len(L) :
               L[i].event.content.event_id = L[j].event.content.event_id => i = j
    PROVE  /\ c.event_id \notin IdsIn(L) =>
                \A i, j \in 1..Len(Chained(L, c)) :
                    Chained(L, c)[i].event.content.event_id
                      = Chained(L, c)[j].event.content.event_id => i = j
           /\ L # <<>> => LET S == SubSeq(L, 1, Len(L) - 1) IN
                \A i, j \in 1..Len(S) :
                    S[i].event.content.event_id = S[j].event.content.event_id => i = j
           /\ \A k \in 1..Len(L) : LET S == [L EXCEPT ![k].sound = FALSE] IN
                \A i, j \in 1..Len(S) :
                    S[i].event.content.event_id = S[j].event.content.event_id => i = j
<1>1. Len(L) \in Nat
  BY HeadHashType
<1>2. ASSUME c.event_id \notin IdsIn(L),
             NEW i \in 1..Len(Chained(L, c)), NEW j \in 1..Len(Chained(L, c)),
             Chained(L, c)[i].event.content.event_id = Chained(L, c)[j].event.content.event_id
      PROVE  i = j
  <2> DEFINE M == Chained(L, c)
  <2>1. Len(M) = Len(L) + 1 /\ \A k \in 1..Len(L) : M[k] = L[k]
    BY ChainedType
  <2>2. M[Len(L) + 1] = [event |-> ChainEvent(L, c), sound |-> TRUE]
    BY ChainedType
  <2>a. M[i].event.content.event_id = M[j].event.content.event_id
    BY <1>2
  <2>b. i \in 1..Len(M) /\ j \in 1..Len(M)
    OBVIOUS
  <2> HIDE DEF M
  <2>3. M[Len(L) + 1].event.content.event_id = c.event_id
    BY <2>2 DEF ChainEvent
  <2>4. \A k \in 1..Len(L) : M[k].event.content.event_id \in IdsIn(L)
    BY <2>1 DEF IdsIn
  <2>5. CASE i \in 1..Len(L) /\ j \in 1..Len(L)
    BY <2>1, <2>5, <2>a
  <2>6. CASE (i = Len(L) + 1) /\ (j = Len(L) + 1)
    BY <2>6
  <2>7. CASE (i = Len(L) + 1) /\ j \in 1..Len(L)
    BY <2>7, <2>3, <2>4, <2>a, <1>2
  <2>8. CASE (j = Len(L) + 1) /\ i \in 1..Len(L)
    BY <2>8, <2>3, <2>4, <2>a, <1>2
  <2> QED
    BY <2>b, <2>1, <2>5, <2>6, <2>7, <2>8, <1>1
<1>3. ASSUME L # <<>>
      PROVE  LET S == SubSeq(L, 1, Len(L) - 1) IN
             \A i, j \in 1..Len(S) :
                 S[i].event.content.event_id = S[j].event.content.event_id => i = j
  <2> DEFINE S == SubSeq(L, 1, Len(L) - 1)
  <2>1. L \in Seq([event : Events, sound : BOOLEAN])
    BY DEF Lines
  <2>a. \A i \in 1..Len(L) : L[i] \in [event : Events, sound : BOOLEAN]
    BY <2>1, ElementOfSeq
  <2>b. Len(L) > 0
    BY <1>1, <1>3, <2>1, EmptySeq
  <2>2. Len(S) = Len(L) - 1 /\ \A i \in 1..Len(S) : S[i] = L[i]
    <3>1. \A i \in 1..(Len(L) - 1) : L[i] \in [event : Events, sound : BOOLEAN]
      BY <1>1, <2>a
    <3>2. /\ Len(S) = IF 1 <= Len(L) - 1 THEN (Len(L) - 1) - 1 + 1 ELSE 0
          /\ \A i \in 1..((Len(L) - 1) - 1 + 1) : S[i] = L[1 + i - 1]
      BY <1>1, <3>1, SubSeqProperties
    <3>3. Len(S) = Len(L) - 1
      BY <1>1, <2>b, <3>2
    <3>4. ASSUME NEW i \in 1..(Len(L) - 1) PROVE S[i] = L[i]
      <4>1. i \in 1..((Len(L) - 1) - 1 + 1) /\ 1 + i - 1 = i
        BY <1>1
      <4> QED
        BY <3>2, <4>1
    <3> QED
      BY <3>3, <3>4
  <2> HIDE DEF S
  <2>3. \A i, j \in 1..Len(S) :
            S[i].event.content.event_id = S[j].event.content.event_id => i = j
    BY <2>2, <1>1
  <2> QED
    BY <2>3 DEF S
<1>4. ASSUME NEW k \in 1..Len(L)
      PROVE  LET S == [L EXCEPT ![k].sound = FALSE] IN
             \A i, j \in 1..Len(S) :
                 S[i].event.content.event_id = S[j].event.content.event_id => i = j
  <2> DEFINE S == [L EXCEPT ![k].sound = FALSE]
  <2>1. L \in Seq([event : Events, sound : BOOLEAN])
    BY DEF Lines
  <2>2. \A i \in 1..Len(L) : L[i] \in [event : Events, sound : BOOLEAN]
    BY <2>1, ElementOfSeq
  <2>3. Len(S) = Len(L)
    BY <2>1
  <2>4. \A i \in 1..Len(L) : S[i] = IF i = k THEN [L[k] EXCEPT !.sound = FALSE] ELSE L[i]
    BY <2>1
  <2>5. [L[k] EXCEPT !.sound = FALSE].event = L[k].event
    BY <2>2
  <2>6. \A i \in 1..Len(L) : S[i].event = L[i].event
    BY <2>4, <2>5
  <2> HIDE DEF S
  <2>7. \A i, j \in 1..Len(S) :
            S[i].event.content.event_id = S[j].event.content.event_id => i = j
    BY <2>3, <2>6
  <2> QED
    BY <2>7 DEF S
<1> QED
  BY <1>2, <1>3, <1>4

\* The strengthened invariant holds before the first call.
LEMMA JsonInvInit == Init => JsonInv
<1> SUFFICES ASSUME Init PROVE JsonInv
  OBVIOUS
<1> QED
  BY DEF Init, JsonInv, ReadVerified, LogIsRead, EventsAreUnique, AnchorCovers, Undamaged

\* Damage is only done between calls, and it is counted.
LEMMA DamageStep ==
    ASSUME JsonTypeOK, JsonInv,
           pc = "idle", UNCHANGED <<pc, call, tail, key, anchor, returned, forgotten>>,
           damages' = damages + 1, EventsAreUnique'
    PROVE  JsonInv'
<1>1. damages' # 0
  BY DEF JsonTypeOK
<1> QED
  BY <1>1 DEF JsonInv, ReadVerified, LogIsRead, AnchorCovers, Undamaged

\* Every call, crash and reload keeps the strengthened invariant.
LEMMA JsonInvStep == JsonTypeOK /\ JsonInv /\ [Next]_vars => JsonInv'
<1> SUFFICES ASSUME JsonTypeOK, JsonInv, [Next]_vars PROVE JsonInv'
  OBVIOUS
<1>0. cur \in Contents /\ events \in Lines /\ log \in Lines
  BY DEF JsonTypeOK
<1>1. ASSUME NEW c \in Contents, AppendAuditEvent(c) PROVE JsonInv'
  <2>1. ReadVerified'
    BY <1>1 DEF AppendAuditEvent, ReadVerified
  <2>2. LogIsRead' /\ EventsAreUnique' /\ AnchorCovers'
    BY <1>1 DEF AppendAuditEvent, JsonInv, LogIsRead, EventsAreUnique, AnchorCovers
  <2>3. Undamaged'
    BY <1>1 DEF AppendAuditEvent, JsonInv, Undamaged, Readable
  <2> QED
    BY <2>1, <2>2, <2>3 DEF JsonInv
<1>2. ASSUME NEW o \in AppendOutcomes, WriteLine(o) PROVE JsonInv'
  <2>0. log = events /\ ChainOk(events) /\ cur.event_id \notin IdsIn(events)
    BY <1>2 DEF WriteLine, JsonInv, LogIsRead, ReadVerified
  <2>1. ReadVerified' /\ AnchorCovers'
    BY <1>2 DEF WriteLine, JsonInv, ReadVerified, AnchorCovers
  <2>2. LogIsRead'
    BY <1>2 DEF WriteLine, LogIsRead, TailAfter, LineWritten
  <2>3. EventsAreUnique'
    <3>1. CASE LineWritten(tail, o)
      <4>1. log' = Chained(log, cur)
        BY <1>2, <2>0, <3>1 DEF WriteLine
      <4> QED
        BY <4>1, <1>0, <2>0, UniqueKept DEF JsonInv, EventsAreUnique
    <3>2. CASE ~LineWritten(tail, o)
      BY <1>2, <3>2 DEF WriteLine, JsonInv, EventsAreUnique
    <3> QED
      BY <3>1, <3>2
  <2>4. Undamaged'
    <3>1. tail' # "torn" => tail # "torn"
      BY <1>2 DEF WriteLine, TailAfter
    <3>2. EventsIn(log) \subseteq EventsIn(log')
      BY <1>0, <1>2, <2>0, ChainedAdds DEF WriteLine
    <3> QED
      BY <1>2, <3>1, <3>2 DEF WriteLine, JsonInv, Undamaged
  <2> QED
    BY <2>1, <2>2, <2>3, <2>4 DEF JsonInv
<1>3. CASE MakeKey
  BY <1>3 DEF MakeKey, JsonInv, ReadVerified, LogIsRead, EventsAreUnique, AnchorCovers,
              Undamaged
<1>4. CASE ReadKey
  BY <1>4 DEF ReadKey, JsonInv, ReadVerified, LogIsRead, EventsAreUnique, AnchorCovers,
              Undamaged
<1>5. CASE WriteAnchor
  <2> DEFINE new == ChainEvent(events, cur)
  <2>0. ChainOk(events) /\ pc = "anchor"
    BY <1>5 DEF WriteAnchor, JsonInv, ReadVerified
  <2>1. ReadVerified' /\ LogIsRead' /\ EventsAreUnique'
    BY <1>5 DEF WriteAnchor, JsonInv, ReadVerified, LogIsRead, EventsAreUnique
  <2>2. AnchorCovers'
    <3>1. HeadHash(events) \in Seq(Contents)
      BY <1>0, HeadHashType
    <3>2. HeadHash(Chained(events, cur)) = Append(HeadHash(events), cur)
      BY <1>0, ChainedAdds
    <3>3. anchor'.head = Append(HeadHash(events), cur)
      BY <1>5, <3>2 DEF WriteAnchor, AnchorRecord
    <3>4. Anchored(anchor'.head) = Anchored(HeadHash(events)) \union {new}
      BY <1>0, <3>1, <3>3, CoveredByOneMore DEF ChainEvent
    <3>5. Anchored(HeadHash(events)) = EventsIn(events)
      BY <1>0, <2>0, ChainIsCovered
    <3>6. /\ returned' = returned \union {new}
          /\ forgotten' = forgotten \union (returned \ EventsIn(events))
      BY <1>5 DEF WriteAnchor
    <3> HIDE DEF new
    <3>7. returned' \subseteq Anchored(anchor'.head) \union forgotten'
      BY <3>4, <3>5, <3>6
    <3> QED
      BY <3>7 DEF AnchorCovers
  <2>3. Undamaged'
    <3> SUFFICES ASSUME damages = 0
                 PROVE  forgotten' = {} /\ (tail # "torn" => returned' \subseteq EventsIn(log))
      BY <1>5 DEF WriteAnchor, Undamaged
    <3>1. forgotten = {} /\ returned \subseteq EventsIn(events)
      BY <2>0 DEF JsonInv, Undamaged
    <3>2. tail # "torn" => EventsIn(log) = EventsIn(events) \union {new}
      BY <1>0, <2>0, ChainedAdds DEF JsonInv, LogIsRead
    <3> QED
      BY <1>5, <3>1, <3>2 DEF WriteAnchor
  <2> QED
    BY <2>1, <2>2, <2>3 DEF JsonInv
<1>6. CASE Abandon
  BY <1>6 DEF Abandon, JsonInv, ReadVerified, LogIsRead, EventsAreUnique, AnchorCovers,
              Undamaged
<1>7. CASE LoseLastLine
  <2>1. EventsAreUnique'
    BY <1>0, <1>7, UniqueKept DEF LoseLastLine, JsonInv, EventsAreUnique
  <2> QED
    BY <1>7, <2>1, DamageStep DEF LoseLastLine
<1>8. CASE ChangeLine
  <2>1. PICK k \in 1..Len(log) : log' = [log EXCEPT ![k].sound = FALSE]
    BY <1>8 DEF ChangeLine
  <2>2. EventsAreUnique'
    BY <1>0, <2>1, UniqueKept DEF JsonInv, EventsAreUnique
  <2> QED
    BY <1>8, <2>2, DamageStep DEF ChangeLine
<1>9. CASE UNCHANGED vars
  BY <1>9 DEF vars, JsonInv, ReadVerified, LogIsRead, EventsAreUnique, AnchorCovers,
              Undamaged
<1> QED
  BY <1>1, <1>2, <1>3, <1>4, <1>5, <1>6, <1>7, <1>8, <1>9 DEF Next

\* A log that verifies has the anchor that covers it.
LEMMA InvGivesComplete == JsonTypeOK /\ JsonInv => VerifiedIsComplete
<1> SUFFICES ASSUME JsonTypeOK, JsonInv PROVE VerifiedIsComplete
  OBVIOUS
<1>1. damages = 0 => forgotten = {}
  BY DEF JsonInv, Undamaged
<1>2. ASSUME VerifyOk PROVE returned \subseteq EventsIn(log) \union forgotten
  <2>1. ChainOk(log) /\ AnchorOk /\ log \in Lines
    BY <1>2 DEF VerifyOk, JsonTypeOK
  <2>2. Anchored(HeadHash(log)) = EventsIn(log)
    BY <2>1, ChainIsCovered
  <2>3. CASE anchor = NoAnchor
    <3>1. anchor.head = <<>>
      BY <2>3 DEF NoAnchor
    <3>2. Anchored(anchor.head) = {}
      BY <3>1 DEF Anchored
    <3> QED
      BY <3>2 DEF JsonInv, AnchorCovers
  <2>4. CASE anchor # NoAnchor
    <3>1. anchor.head = HeadHash(log)
      BY <2>1, <2>4 DEF AnchorOk, AnchorRecord
    <3> QED
      BY <2>2, <3>1 DEF JsonInv, AnchorCovers
  <2> QED
    BY <2>3, <2>4
<1> QED
  BY <1>1, <1>2 DEF VerifiedIsComplete

\* The strengthened invariant and the types hold in every reachable state.
THEOREM JsonInvariant == Spec => [](JsonTypeOK /\ JsonInv)
BY TypeInit, TypeStep, JsonInvInit, JsonInvStep, PTL DEF Spec

\* What verify_audit_chain vouches for is there (VerifiedIsComplete): the events that
\* append_audit_event returned, but for those that a later append did not find, of
\* which there are none unless the log was damaged.
THEOREM VerificationIsComplete == Spec => []VerifiedIsComplete
<1>1. JsonTypeOK /\ JsonInv => VerifiedIsComplete
  BY InvGivesComplete
<1> QED
  BY <1>1, JsonInvariant, PTL

\* No event is in the log twice (EventsAreUnique), however often an append that raised
\* is tried again.
THEOREM NoEventTwice == Spec => []EventsAreUnique
<1>1. JsonTypeOK /\ JsonInv => EventsAreUnique
  BY DEF JsonInv
<1> QED
  BY <1>1, JsonInvariant, PTL

-----------------------------------------------------------------------------
(* One history.                                                            *)

\* An event was chained, directly or not, to another.
Follows(f, e) ==
    /\ Len(e.previous) < Len(f.previous)
    /\ SubSeq(f.previous, 1, Len(e.previous) + 1) = Append(e.previous, e.content)

\* Of any two events that were returned, and not forgotten, one follows the other.
NoFork == \A e, f \in returned \ forgotten : e # f => Follows(e, f) \/ Follows(f, e)

\* Of two events that a hash covers the later one follows the earlier one.
LEMMA CoveredFollows ==
    ASSUME NEW h \in Seq(Contents), NEW j \in 1..Len(h), NEW i \in 1..(j - 1)
    PROVE  Follows([content |-> h[j], previous |-> SubSeq(h, 1, j - 1)],
                   [content |-> h[i], previous |-> SubSeq(h, 1, i - 1)])
<1> DEFINE s == SubSeq(h, 1, j - 1)
           t == SubSeq(h, 1, i - 1)
<1>1. /\ s \in Seq(Contents) /\ Len(s) = j - 1 /\ \A k \in 1..(j - 1) : s[k] = h[k]
      /\ t \in Seq(Contents) /\ Len(t) = i - 1 /\ \A k \in 1..(i - 1) : t[k] = h[k]
      /\ i \in 1..Len(h) /\ h[i] \in Contents /\ i - 1 < j - 1
  OBVIOUS
<1> HIDE DEF s, t
<1>2. SubSeq(s, 1, i) = Append(t, h[i])
  <2>1. /\ SubSeq(s, 1, i) \in Seq(Contents) /\ Len(SubSeq(s, 1, i)) = i
        /\ \A k \in 1..i : SubSeq(s, 1, i)[k] = h[k]
    BY <1>1
  <2>2. /\ Append(t, h[i]) \in Seq(Contents) /\ Len(Append(t, h[i])) = i
        /\ \A k \in 1..i : Append(t, h[i])[k] = h[k]
    BY <1>1
  <2> QED
    BY <2>1, <2>2
<1>3. Follows([content |-> h[j], previous |-> s], [content |-> h[i], previous |-> t])
  BY <1>1, <1>2 DEF Follows
<1> QED
  BY <1>3 DEF s, t

\* append_audit_event never returns two events that were chained to the same log, unless
\* the first was missing from the log when the second was returned: it reads the log anew
\* every time, and the anchor covers one sequence.
THEOREM OneHistory == Spec => []NoFork
<1>1. JsonTypeOK /\ JsonInv => NoFork
  <2> SUFFICES ASSUME JsonTypeOK, JsonInv,
                      NEW e \in returned \ forgotten, NEW f \in returned \ forgotten, e # f
               PROVE  Follows(e, f) \/ Follows(f, e)
    BY DEF NoFork
  <2> DEFINE h == anchor.head
  <2>1. h \in Seq(Contents) /\ Len(h) \in Nat
    BY DEF JsonTypeOK
  <2>2. PICK i \in 1..Len(h) : e = [content |-> h[i], previous |-> SubSeq(h, 1, i - 1)]
    BY DEF JsonInv, AnchorCovers, Anchored
  <2>3. PICK j \in 1..Len(h) : f = [content |-> h[j], previous |-> SubSeq(h, 1, j - 1)]
    BY DEF JsonInv, AnchorCovers, Anchored
  <2> HIDE DEF h
  <2>4. i \in 1..(j - 1) \/ j \in 1..(i - 1)
    BY <2>1, <2>2, <2>3
  <2>5. CASE i \in 1..(j - 1)
    BY <2>1, <2>2, <2>3, <2>5, CoveredFollows
  <2>6. CASE j \in 1..(i - 1)
    BY <2>1, <2>2, <2>3, <2>6, CoveredFollows
  <2> QED
    BY <2>4, <2>5, <2>6
<1> QED
  BY <1>1, JsonInvariant, PTL

-----------------------------------------------------------------------------
(* What the anchor covers only grows.                                      *)

IsStartOf(s, t) == Len(s) <= Len(t) /\ \A i \in 1..Len(s) : s[i] = t[i]

\* Without damage what the anchor covers is the start of the log, if it parses, and of
\* what an append has read.
HistoryInv ==
    damages = 0 => /\ tail # "torn" => IsStartOf(anchor.head, HeadHash(log))
                   /\ pc # "idle" => IsStartOf(anchor.head, HeadHash(events))

\* The contents of a log are the start of those of the log with one more event.
LEMMA StartOfChained ==
    ASSUME NEW L \in Lines, NEW c \in Contents, NEW s \in Seq(Contents),
           IsStartOf(s, HeadHash(L))
    PROVE  IsStartOf(s, HeadHash(Chained(L, c)))
<1>1. HeadHash(L) \in Seq(Contents) /\ HeadHash(Chained(L, c)) = Append(HeadHash(L), c)
  BY HeadHashType, ChainedAdds
<1>2. PICK h \in Seq(Contents) : h = HeadHash(L)
  BY <1>1
<1>3. IsStartOf(s, Append(h, c))
  BY <1>2 DEF IsStartOf
<1> QED
  BY <1>1, <1>2, <1>3

\* No step breaks HistoryInv, and without damage none takes anything from the anchor.
LEMMA HistoryStep ==
    ASSUME JsonTypeOK, JsonInv, HistoryInv, [Next]_vars
    PROVE  HistoryInv' /\ (damages = 0 => IsStartOf(anchor.head, anchor'.head))
<1>0. /\ cur \in Contents /\ events \in Lines /\ log \in Lines
      /\ anchor.head \in Seq(Contents) /\ damages \in Nat
  BY MaxDamageAssumption DEF JsonTypeOK
<1>a. IsStartOf(anchor.head, anchor.head)
  BY <1>0 DEF IsStartOf
<1>1. ASSUME NEW c \in Contents, AppendAuditEvent(c)
      PROVE  HistoryInv' /\ anchor' = anchor
  BY <1>1 DEF AppendAuditEvent, HistoryInv, Readable
<1>2. ASSUME NEW o \in AppendOutcomes, WriteLine(o)
      PROVE  HistoryInv' /\ anchor' = anchor
  <2>1. tail' # "torn" => tail # "torn"
    BY <1>2 DEF WriteLine, TailAfter
  <2>2. log = events
    BY <1>2 DEF WriteLine, JsonInv, LogIsRead
  <2>3. log' = log \/ log' = Chained(log, cur)
    BY <1>2, <2>2 DEF WriteLine
  <2>4. IsStartOf(anchor.head, HeadHash(log)) => IsStartOf(anchor.head, HeadHash(log'))
    BY <1>0, <2>3, StartOfChained
  <2> QED
    BY <1>2, <2>1, <2>4 DEF WriteLine, HistoryInv
<1>3. CASE MakeKey \/ ReadKey \/ Abandon
  BY <1>a, <1>3 DEF MakeKey, ReadKey, Abandon, HistoryInv
<1>4. CASE WriteAnchor
  <2>1. /\ pc = "anchor" /\ pc' = "idle" /\ UNCHANGED <<log, tail, events, damages>>
        /\ anchor'.head = HeadHash(Chained(events, cur))
    BY <1>4 DEF WriteAnchor, AnchorRecord
  <2>2. damages = 0 => IsStartOf(anchor.head, anchor'.head)
    BY <1>0, <2>1, StartOfChained DEF HistoryInv
  <2>3. tail # "torn" => anchor'.head = HeadHash(log)
    BY <2>1 DEF JsonInv, LogIsRead
  <2>4. Len(HeadHash(log)) \in Nat
    BY <1>0, HeadHashType
  <2>5. tail # "torn" => IsStartOf(anchor'.head, HeadHash(log))
    BY <2>3, <2>4 DEF IsStartOf
  <2> QED
    BY <2>1, <2>2, <2>5 DEF HistoryInv
<1>5. CASE LoseLastLine \/ ChangeLine
  <2>1. damages' # 0 /\ anchor' = anchor
    BY <1>0, <1>5 DEF LoseLastLine, ChangeLine
  <2> QED
    BY <1>a, <2>1 DEF HistoryInv
<1>6. CASE UNCHANGED vars
  BY <1>a, <1>6 DEF vars, HistoryInv
<1> QED
  BY <1>a, <1>1, <1>2, <1>3, <1>4, <1>5, <1>6 DEF Next

\* Until the log is damaged, _write_audit_anchor only adds to what the anchor covers,
\* whatever raises or is cut off behind its write: an event that is in the file without
\* an answer is covered by the next append, in its place.
THEOREM AnchoredHistoryGrows ==
    Spec => [][damages = 0 => IsStartOf(anchor.head, anchor'.head)]_vars
<1>1. Init => HistoryInv
  BY DEF Init, HistoryInv, NoAnchor, IsStartOf, HeadHash
<1>2. JsonTypeOK /\ JsonInv /\ HistoryInv /\ [Next]_vars => HistoryInv'
  BY HistoryStep
<1>3. JsonTypeOK /\ JsonInv /\ HistoryInv /\ [Next]_vars
      => [damages = 0 => IsStartOf(anchor.head, anchor'.head)]_vars
  BY HistoryStep
<1> QED
  BY <1>1, <1>2, <1>3, JsonInvariant, PTL DEF Spec

=============================================================================
