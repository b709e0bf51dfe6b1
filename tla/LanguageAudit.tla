--------------------------- MODULE LanguageAudit ----------------------------
(* The audit that the repository is written in Japanese: the registry of   *)
(* the exceptions, the assets that it freezes, and the prose of all other  *)
(* files.                                                                  *)
(*                                                                         *)
(* An exception's scope is a path, or with "wild" a directory, with the    *)
(* kinds of exception that its spelling allows.  Of a file's content,      *)
(* "lines" are those of a document and "texts" the comments and messages   *)
(* of code; a text is its words, whether Japanese stands between them, and *)
(* whether it is an expression of a machine.                               *)
EXTENDS Manifest

CONSTANTS
    Ignored,       \* paths that git ignores
    MachineWords,  \* MACHINE_VALUES
    Lower(_)       \* a suffix in lower case

REQUIRED_EXCEPTION_CATEGORIES == {"legal text", "generated", "evidence", "machine syntax", "name"}
LEXICAL_EXCEPTION_CATEGORIES == {"machine syntax", "name"}
FILE_EXCEPTION_CATEGORIES == {"legal text", "generated", "evidence"}

scope_matches(path, s) ==
    IF s.wild THEN Len(path) > Len(s.path) /\ SubSeq(path, 1, Len(s.path)) = s.path
    ELSE path = s.path

path_matches(path, scopes) == \E s \in scopes : scope_matches(path, s)

\* The kinds of files that are read: documents, data and code.
SCANNED_CODE_SUFFIXES == {".py", ".dart", ".rs", ".sh", ".ps1", ".cpp", ".cc", ".h"}
IsScanned(path) ==
    Lower(Suffix(path[Len(path)])) \in {".md", ".json"} \union SCANNED_CODE_SUFFIXES

\* What git tracks, there or not, and what it does not ignore; nothing where git fails.
repository_paths(t) == IF t.git THEN t.tracked \union (DOMAIN t.files \ Ignored) ELSE {}

allowed_scope(s, category) == category \in s.kinds

-----------------------------------------------------------------------------
(* load_registry.                                                          *)

\* Which handling and which integrity a category of exceptions must have.
CategoryErrors(e) ==
    Failing(e.category \notin REQUIRED_EXCEPTION_CATEGORIES, <<"category", e.id>>)
    \union Failing(e.handling \notin {"exclude_file", "lexical_only"}, <<"handling", e.id>>)
    \union Failing(e.integrity \notin {"sha256", "review_on_change"}, <<"integrity", e.id>>)
    \union Failing(e.handling = "exclude_file" /\ e.category \notin FILE_EXCEPTION_CATEGORIES,
                   <<"handling", e.id>>)
    \union Failing(e.handling = "lexical_only" /\ e.category \notin LEXICAL_EXCEPTION_CATEGORIES,
                   <<"handling", e.id>>)
    \union Failing(e.category \in {"legal text", "evidence"}
                   /\ (e.handling # "exclude_file" \/ e.integrity # "sha256"),
                   <<"not frozen", e.id>>)
    \union Failing(e.category = "generated"
                   /\ (e.handling # "exclude_file" \/ e.integrity # "review_on_change"),
                   <<"not reviewed", e.id>>)

\* A scope must be spelled as its category asks, and match a file.
ScopeErrors(e, repository_files) ==
    Failing(e.scopes = {}, <<"scopes", e.id>>)
    \union {<<"wildcard", e.id>> : s \in {r \in e.scopes : r.wild /\
               (e.category = "legal text"
                \/ (e.category = "evidence" /\ "proof pack" \notin r.kinds))}}
    \union {<<"scope", e.id>> : s \in {r \in e.scopes :
               e.category \in FILE_EXCEPTION_CATEGORIES /\ ~allowed_scope(r, e.category)}}
    \union {<<"unused", e.id>> : s \in {r \in e.scopes : e.handling = "exclude_file"
               /\ ~\E p \in repository_files : scope_matches(p, r)}}

TermErrors(e) ==
    Failing(e.category = "machine syntax" /\ e.terms # {}, <<"terms", e.id>>)
    \union Failing(e.category = "name" /\ e.terms = {}, <<"terms", e.id>>)

\* "sound" stands for the Japanese texts of an entry and its authority_effect of none.
EntryErrors(e, repository_files) ==
    Failing(~e.sound, <<"entry", e.id>>) \union CategoryErrors(e)
    \union ScopeErrors(e, repository_files) \union TermErrors(e)

\* A frozen asset must belong to an exception that freezes it, and be unchanged.
FrozenErrors(t, entries, f) ==
    IF ~\E i \in DOMAIN entries :
           entries[i].id = f.exception_id /\ entries[i].integrity = "sha256"
           /\ path_matches(f.path, entries[i].scopes)
    THEN {<<"frozen scope", f.path>>}
    ELSE IF f.path \notin DOMAIN t.files THEN {<<"frozen missing", f.path>>}
    ELSE Failing(t.files[f.path] # f.sha256, <<"frozen changed", f.path>>)

\* Every file of an exception that freezes must be frozen.
UnfrozenErrors(entries, frozen, repository_files) ==
    {<<"not frozen", p>> : p \in {q \in repository_files :
        /\ \E i \in DOMAIN entries :
               /\ entries[i].handling = "exclude_file" /\ entries[i].integrity = "sha256"
               /\ path_matches(q, entries[i].scopes)
        /\ ~\E k \in DOMAIN frozen : frozen[k].path = q}}

Entries(t) ==
    IF REGISTRY_PATH \in DOMAIN t.files THEN t.files[REGISTRY_PATH].exceptions ELSE <<>>

\* mutant: that all files of an exception are frozen is not asked
load_registry_errors_listed(t) ==
    LET frozen == t.files[REGISTRY_PATH].frozen_assets IN
    (UNION {EntryErrors(Entries(t)[i], repository_paths(t)) : i \in DOMAIN Entries(t)})
    \union UNION {FrozenErrors(t, Entries(t), frozen[k]) : k \in DOMAIN frozen}

load_registry_errors(t) ==
    IF REGISTRY_PATH \notin DOMAIN t.files THEN {<<"registry", REGISTRY_PATH>>}
    ELSE LET entries == Entries(t)
             frozen  == t.files[REGISTRY_PATH].frozen_assets
         IN (UNION {EntryErrors(entries[i], repository_paths(t)) : i \in DOMAIN entries})
            \union {<<"duplicate", entries[i].id>> : i \in {j \in DOMAIN entries :
                       \E k \in 1..(j - 1) : entries[k].id = entries[j].id}}
            \union {<<"no exception", c>> : c \in REQUIRED_EXCEPTION_CATEGORIES
                       \ {entries[i].category : i \in DOMAIN entries}}
            \union (UNION {FrozenErrors(t, entries, frozen[k]) : k \in DOMAIN frozen})
            \union {<<"duplicate", frozen[k].path>> : k \in {j \in DOMAIN frozen :
                       \E i \in 1..(j - 1) : frozen[i].path = frozen[j].path}}
            \union UnfrozenErrors(entries, frozen, repository_paths(t))

\* The policy and the index name each other and the registry.
validate_governance(t) ==
    {<<"governance", p>> : p \in {q \in {POLICY_PATH, INDEX_PATH} :
        q \notin DOMAIN t.files \/ ~t.files[q].connected}}

exception_for_path(t, path) ==
    {Entries(t)[i].id : i \in {j \in DOMAIN Entries(t) :
        Entries(t)[j].handling = "exclude_file" /\ path_matches(path, Entries(t)[j].scopes)}}

lexical_terms_for_path(t, path) ==
    UNION {Entries(t)[i].terms : i \in {j \in DOMAIN Entries(t) :
        Entries(t)[j].handling = "lexical_only" /\ path_matches(path, Entries(t)[j].scopes)}}

-----------------------------------------------------------------------------
(* The prose.                                                              *)

machine_only(words) == Cardinality(words) = 1 /\ words \subseteq MachineWords

\* Between Japanese an English clause is four words in a row.  A word that only a term
\* has made a machine's is prose all the same.
is_non_japanese_prose(text, terms) ==
    LET words == text.words \ terms IN
    /\ ~text.machine /\ ~machine_only(text.words) /\ words # {}
    /\ text.japanese => Cardinality(words) >= 4

\* Lines between two fences are left out, and the fences.
scan_markdown(lines, terms) ==
    {i \in DOMAIN lines :
        /\ ~lines[i].fence
        /\ Cardinality({j \in 1..i : lines[j].fence}) % 2 = 0
        /\ is_non_japanese_prose(lines[i].text, terms)}

\* Whether a file that is scanned has a finding.
HasFinding(content, terms) ==
    \/ "lines" \in DOMAIN content /\ scan_markdown(content.lines, terms) # {}
    \/ "texts" \in DOMAIN content /\ \E x \in content.texts : is_non_japanese_prose(x, terms)

\* audit_repository with --strict: a tracked file that is not there is a failure, and so
\* is every finding; files of other kinds are passed over.
audit_repository(t) ==
    LET scanned == {p \in repository_paths(t) : exception_for_path(t, p) = {} /\ IsScanned(p)} IN
    Failing(~t.git, <<"git">>) \union load_registry_errors(t) \union validate_governance(t)
    \union {<<"not there", p>> : p \in scanned \ DOMAIN t.files}
    \union {<<"finding", p>> : p \in {q \in scanned \intersect DOMAIN t.files :
               HasFinding(t.files[q], lexical_terms_for_path(t, q))}}

=============================================================================
