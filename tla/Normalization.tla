--------------------------- MODULE Normalization ----------------------------
(* packages/shell_core/normalization.py: how keys of inbound data are      *)
(* brought to one spelling, which of them claim authority, and what is     *)
(* stripped.                                                               *)
(*                                                                         *)
(* A nested dict is the sequence of its leaves in insertion order, each    *)
(* with the keys that lead to it.  A key is a word or two, with what       *)
(* stands between them and how they are dressed; a normalised key is a     *)
(* name.  Lists are walked by the code as dicts whose keys are never       *)
(* touched, and are left out.                                              *)
EXTENDS Naturals, Sequences, SequencesExt

\* What stands between the two words of a key, "" and a zero-width character being
\* invisible, and "." standing for any character beyond the others: punctuation, or a
\* letter that is not ASCII.
Separators == {"", "zero-width", "_", "-", " ", "."}

\* The dress of the whole key: full-width letters, white space around it, capitals
\* throughout; an underscore ("scored") or another such character ("dotted") at its end;
\* a sharp s where it has a double one.
Dresses == {"plain", "wide", "padded", "upper", "scored", "dotted", "sharp"}

Key(head, sep, tail, cap, dress) ==
    [head |-> head, sep |-> sep, tail |-> tail, cap |-> cap, dress |-> dress]

\* A key of one word, and one in snake case.
Word(w) == Key(w, "", "", FALSE, "plain")
Snake(h, t) == Key(h, "_", t, FALSE, "plain")

\* A name that the tables of authority may hold has nothing at its end.
Spelled(head, joint, tail, end) ==
    [head |-> head, joint |-> joint, tail |-> tail, end |-> end]
Name(head, joint, tail) == Spelled(head, joint, tail, "")

\* A word starts where the case changes, unless the whole key is in capitals.
Camel(k) == k.cap /\ k.dress # "upper"

\* Wide letters, zero-width characters and padding go first; a capital behind a small
\* letter then starts a new word; white space and hyphens become underscores, and what
\* else there is stays.  Folding the case turns a sharp s into a double one.
normalize_key(k) ==
    Spelled(k.head,
            CASE k.tail = "" -> ""
              [] k.tail # "" /\ k.sep = "." -> "."
              [] k.tail # "" /\ (k.sep \in {"_", "-", " "} \/ (k.sep # "." /\ Camel(k))) -> "_"
              [] OTHER -> "",
            k.tail,
            CASE k.dress = "scored" -> "_" [] k.dress = "dotted" -> "." [] OTHER -> "")

AUTHORITY_KEYS ==
    {Name("authority", "", ""), Name("authority", "_", "context"), Name("authority", "_", "trace"),
     Name("approval", "_", "state"), Name("approved", "_", "by"), Name("permission", "_", "grant"),
     Name("permission", "_", "override"), Name("role", "", ""), Name("scope", "_", "escalation"),
     Name("trust", "_", "level")}

\* The keys of AUTHORITY_KEY_ALIASES; what they stand for decides nothing.
AUTHORITY_KEY_ALIASES ==
    {Name(w, "", "") : w \in {"elevated", "grant", "grants", "permission", "permissions",
                              "privilege", "privileges"}}
    \union {Name("admin", "_", "context"), Name("permissions", "_", "granted"),
            Name("permission", "", "grant")}

AUTHORITY_VALUES == {Name(w, "", "") : w \in {"admin", "all", "approved", "elevated", "root"}}

ClaimsByExactKey(k) == normalize_key(k) \in AUTHORITY_KEYS  \* mutant: no aliases

\* canonical_authority_key(k) is not None.
ClaimsByKey(k) == normalize_key(k) \in AUTHORITY_KEYS \union AUTHORITY_KEY_ALIASES

\* A string value is spelled as a key is; other values claim nothing.
ClaimsByValue(v) == v.string /\ normalize_key(v.text) \in AUTHORITY_VALUES

Normalized(path) == [i \in 1..Len(path) |-> normalize_key(path[i])]

\* Leaves i and j lie in one dict at depth d, under two of its keys.
Part(p, i, j, d) ==
    /\ d <= Len(p[i].path) /\ d <= Len(p[j].path)
    /\ SubSeq(p[i].path, 1, d - 1) = SubSeq(p[j].path, 1, d - 1)
    /\ p[i].path[d] # p[j].path[d]

\* The key at depth d of leaf i is overwritten in its dict by that of a later leaf j,
\* which is spelled in another way.
Overwritten(p, i, j, d) ==
    /\ i < j /\ Part(p, i, j, d)
    /\ normalize_key(p[i].path[d]) = normalize_key(p[j].path[d])

\* The leaves that are still there after every key got its normal spelling: of two keys
\* of one dict that become equal the later one stays.
Kept(p) ==
    {i \in 1..Len(p) :
        ~\E j \in 1..Len(p), d \in 1..Len(p[i].path) : Overwritten(p, i, j, d)}

authority_keys_in(p) ==
    {i \in 1..Len(p) : \E d \in 1..Len(p[i].path) : ClaimsByKey(p[i].path[d])}

\* mutant: only the outermost dict is looked at
TopCollisions(p) ==
    {i \in 1..Len(p) : \E j \in 1..Len(p) : Overwritten(p, j, i, 1)}

normalization_collisions_in(p) ==
    {i \in 1..Len(p) :
        \E j \in 1..Len(p), d \in 1..Len(p[i].path) : Overwritten(p, j, i, d)}

\* The indices of the leaves that strip_authority_keys leaves.
Stripped(p) == Kept(p) \ authority_keys_in(p)

\* The stripped leaves with their normal spelling, which no order matters to.
strip_authority_keys(p) == {<<Normalized(p[i].path), p[i].value>> : i \in Stripped(p)}

authority_values_in(p) == {i \in Stripped(p) : ClaimsByValue(p[i].value)}

\* PolicyEvaluator._metadata_claims_authority, metadata_attempts_authority of the
\* adapter and of the catalogue.
metadata_claims_authority(p) == authority_keys_in(p) # {} \/ authority_values_in(p) # {}

Quarantined(p) == metadata_claims_authority(p) \/ normalization_collisions_in(p) # {}

\* A string value loses its white space and full-width letters, and keeps its capitals.
Trimmed(v) ==
    IF v.string /\ v.text.dress \in {"wide", "padded"} THEN [v EXCEPT !.text.dress = "plain"] ELSE v

normalize_payload(p) == {<<Normalized(p[i].path), Trimmed(p[i].value)>> : i \in Kept(p)}

\* What normalize_inbound_payload returns.
normalize_inbound_payload(p) ==
    [raw_payload |-> p, normalized_payload |-> normalize_payload(p),
     stripped_payload |-> strip_authority_keys(p), quarantined |-> Quarantined(p)]

-----------------------------------------------------------------------------
(* The broker's own scan of metadata, metadata_attempts_authority_value:   *)
(* it looks at every leaf, and at every word of a value, in a spelling of  *)
(* its own.                                                                *)

\* What is left of a word when its sharp s is taken for no letter.
Broken(w) ==
    CASE w = "permission" -> "permi_ion" [] w = "permissions" -> "permi_ions" [] OTHER -> w

\* As normalize_key, but every character that is not an ASCII letter or digit becomes an
\* underscore, and those at the ends go.
normalize_authority_token(k) ==
    LET word(w) == IF k.dress = "sharp" THEN Broken(w) ELSE w IN
    Name(word(k.head),
         IF k.tail # "" /\ (k.sep \in {"_", "-", " ", "."} \/ Camel(k)) THEN "_" ELSE "",
         word(k.tail))

\* The parts of a name between its underscores.
Tokens(n) == IF n.joint = "_" THEN {Name(n.head, "", ""), Name(n.tail, "", "")} ELSE {n}

BrokerClaimsByKey(k) ==
    normalize_authority_token(k) \in AUTHORITY_KEYS \union AUTHORITY_KEY_ALIASES

\* mutant: values are looked up among the keys
BrokerClaimsByKeyword(v) == v.string /\ normalize_authority_token(v.text) \in AUTHORITY_KEYS

BrokerClaimsByValue(v) ==
    /\ v.string
    /\ Tokens(normalize_authority_token(v.text))
           \intersect (AUTHORITY_VALUES \union AUTHORITY_KEYS \union AUTHORITY_KEY_ALIASES) # {}

metadata_attempts_authority_value(p) ==
    \E i \in 1..Len(p) :
        \/ \E d \in 1..Len(p[i].path) : BrokerClaimsByKey(p[i].path[d])
        \/ BrokerClaimsByValue(p[i].value)

\* The spellings of a key over which the two programs part: what only the broker takes
\* for an underscore or nothing, and what only Python takes for two letters.
Punctuated(k) == (k.tail # "" /\ k.sep = ".") \/ k.dress \in {"scored", "dotted"}
Sharpened(k) == k.dress = "sharp" /\ {k.head, k.tail} \intersect {"permission", "permissions"} # {}

KeysOf(p) == UNION {{p[i].path[d] : d \in 1..Len(p[i].path)} : i \in 1..Len(p)}

=============================================================================
