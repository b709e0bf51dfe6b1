------------------------------ MODULE Manifest ------------------------------
(* tooling/manifest.py and tooling/packaging_portability_check.py: the     *)
(* list of the source files with their hashes, its check against a tree,   *)
(* and the archive in which everything is checked again.                   *)
(*                                                                         *)
(* A tree is a working directory: its files, whether git answers there,    *)
(* and the paths that git tracks.  A path is the tuple of its parts, and a *)
(* file's content is a record, which stands for its own hash.  A directory *)
(* is what has a file below it: there are no empty ones.                   *)
EXTENDS Checks, Naturals, Sequences, FiniteSets, SequencesExt

CONSTANTS
    EXACT_FILES,  \* files that every tree without git must have
    NotPortable,  \* paths with a character that is not ASCII or not printable
    Suffix(_)     \* of a file's name, as it is spelled: ".py", ".dart", ...

MANIFEST == <<"MANIFEST.sha256.json">>

EXCLUDED_PATHS ==
    {MANIFEST, <<"apps", "mobile_flutter", "pubspec.lock">>,
     <<"apps", "desktop_flutter", "flutter_01.log">>}

EXCLUDED_PARTS ==
    {".git", ".idea", ".dart_tool", "build", "ephemeral", "target", "__pycache__",
     "release_evidence"}

\* The governance files, whose Japanese names are romanised here.
POLICY_PATH   == <<"kitei", "00_nihongo_kitei_kitei.md">>
INDEX_PATH    == <<"kitei", "seihon_sakuin.json">>
REGISTRY_PATH == <<"kitei", "nihongo_kitei_reigai.json">>
AUDITOR_PATH  == <<"tooling", "nihongo_kitei_kansa.py">>

UTF8_GOVERNANCE_PATH_ALLOWLIST == {POLICY_PATH, INDEX_PATH, REGISTRY_PATH, AUDITOR_PATH}

\* The path as it is spelled: nothing, and what begins with a slash, have no first part.
is_excluded(path) ==
    \/ path = <<>> \/ path[1] = "" \/ path \in EXCLUDED_PATHS
    \/ \E i \in DOMAIN path : path[i] \in EXCLUDED_PARTS \union {".."}

ShellCoreFile(path) ==
    /\ Len(path) > 2 /\ path[1] = "packages" /\ path[2] = "shell_core"
    /\ Suffix(path[Len(path)]) = ".py"

\* Something is below a directory.
IsBelow(path, dir) == Len(path) > Len(dir) /\ SubSeq(path, 1, Len(dir)) = dir
Below(t, dir) == \E p \in DOMAIN t.files : IsBelow(p, dir)

\* The paths of files have no such parts, which their spellings may have.
Plain(path) == \A i \in DOMAIN path : path[i] \notin {".", ""}

\* Where a spelling leads: dots and double slashes lead nowhere.
Located(path) ==
    IF Plain(path) THEN path ELSE SelectSeq(path, LAMBDA part : part \notin {".", ""})

exists(t, path) == path \in DOMAIN t.files \/ Below(t, path)

-----------------------------------------------------------------------------
\* The tracked files that are there; without git every file, and then some must be there.
expected_files(t) ==
    LET git == {p \in t.tracked \intersect DOMAIN t.files : ~is_excluded(p)} IN
    IF t.git THEN [files |-> git, errors |-> Failing(git = {}, <<"nothing tracked">>)]
    ELSE [files  |-> {p \in DOMAIN t.files : ~is_excluded(p)},
          errors |-> {<<"required", p>> : p \in {q \in EXACT_FILES : ~exists(t, q)}}
                     \union Failing(~\E p \in DOMAIN t.files : ShellCoreFile(p),
                                    <<"no shell core">>)]

\* The members of a set in some order.
Listed(set) == FoldSet(LAMBDA x, list : Append(list, x), <<>>, set)

\* The entries of a new manifest.
build_manifest(t) ==
    LET files == Listed(expected_files(t).files) IN
    [i \in DOMAIN files |-> [path |-> files[i], sha256 |-> t.files[files[i]]]]

\* A manifest that can be read has entries.
load_manifest(t) ==
    IF MANIFEST \in DOMAIN t.files /\ "entries" \in DOMAIN t.files[MANIFEST]
    THEN t.files[MANIFEST].entries ELSE None

\* Hashes are compared for files: a directory has none, and passes with any.
hash_errors(t, actual) ==
    {<<"hash", actual[i].path>> : i \in {j \in DOMAIN actual :
        LET at == Located(actual[j].path) IN
        at \in DOMAIN t.files /\ t.files[at] # actual[j].sha256}}

\* mutant: only what is listed is compared
check_listed(t) ==
    LET actual == load_manifest(t) IN
    IF actual = None THEN {<<"manifest">>}
    ELSE hash_errors(t, actual)

\* Every entry is compared with its file, and the expected files with the entries.  What
\* is not expected may be listed, as long as it is there.
check_manifest(t) ==
    LET expected == expected_files(t)
        actual   == load_manifest(t)
    IN expected.errors \union
       IF actual = None THEN {<<"manifest">>}
       ELSE LET listed == {actual[i].path : i \in DOMAIN actual} IN
            {<<"duplicate", actual[i].path>> :
                i \in {j \in DOMAIN actual : \E k \in 1..(j - 1) : actual[k].path = actual[j].path}}
            \union {<<"forbidden", p>> : p \in {q \in listed : is_excluded(q)}}
            \union {<<"missing", p>> : p \in {q \in listed : ~exists(t, Located(q))}}
            \union hash_errors(t, actual)
            \union {<<"unlisted", p>> : p \in expected.files \ listed}
            \union Failing(~\E p \in listed : ShellCoreFile(p), <<"no shell core listed">>)

With(t, path, content) ==
    [t EXCEPT !.files = [p \in DOMAIN t.files \union {path} |->
                            IF p = path THEN content ELSE t.files[p]]]

\* Nothing is written when files are missing.
write_manifest(t) ==
    IF expected_files(t).errors # {} THEN t
    ELSE With(t, MANIFEST, [entries |-> build_manifest(t)])

-----------------------------------------------------------------------------
\* The code looks at a path twice, for the encoding and for single characters.
portable_path_errors(paths) ==
    {<<"not portable", p>> : p \in (paths \intersect NotPortable) \ UTF8_GOVERNANCE_PATH_ALLOWLIST}

\* mutant: the archive gets a manifest of its own
Extracted_rewritten(t) ==
    write_manifest([files |-> [p \in expected_files(t).files |-> t.files[p]], git |-> FALSE,
                    tracked |-> {}])

\* What is unpacked: the expected files and the manifest, in a directory without git.
Extracted(t) ==
    LET packed == expected_files(t).files \union ({MANIFEST} \intersect DOMAIN t.files) IN
    [files |-> [p \in packed |-> t.files[p]], git |-> FALSE, tracked |-> {}]

\* Nothing is packed when that fails.
packaging_preconditions(t, unzip) ==
    expected_files(t).errors \union portable_path_errors(expected_files(t).files)
    \union Failing(~unzip, <<"unzip">>)

=============================================================================
