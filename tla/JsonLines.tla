----------------------------- MODULE JsonLines ------------------------------
(***************************************************************************)
(* Files of one JSON value per line, to which both cores append: the audit *)
(* logs and the nonces.  An append writes the line and its newline; it may *)
(* fail, or be cut off by the end of the process, at any byte.             *)
(***************************************************************************)

\* "ok" is success.  The others are failures that leave nothing, a part of the line,
\* the line without its newline, or the line with no guarantee that it was synced.
AppendOutcomes == {"ok", "nothing", "partial", "no_newline", "unsynced"}

\* How the file ends: behind a newline, without one behind its last value, or with
\* something that is no value.
Tails == {"clean", "no_newline", "torn"}

\* The line is in the file, as a line of its own.
LineWritten(tail, outcome) ==
    tail = "clean" /\ outcome \in {"ok", "no_newline", "unsynced"}

\* What is appended behind a line that has no newline is read as one line with it.
TailAfter(tail, outcome) ==
    IF outcome = "nothing" THEN tail
    ELSE IF tail # "clean" \/ outcome = "partial" THEN "torn"
    ELSE IF outcome = "no_newline" THEN "no_newline"
    ELSE "clean"

\* Every line of the file parses.
Readable(tail) == tail # "torn"

=============================================================================
