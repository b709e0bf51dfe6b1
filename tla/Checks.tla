------------------------------- MODULE Checks -------------------------------
(* What the modules of the release tooling share: a check is the set of    *)
(* its errors.                                                             *)

CONSTANT None  \* an absent value, JSON's null

Failing(failed, error) == IF failed THEN {error} ELSE {}

=============================================================================
