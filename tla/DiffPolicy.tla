------------------------------- MODULE DiffPolicy -------------------------------
(***************************************************************************)
(* check_diff (aeh/gitops.py): the judgement of what the patch left in its *)
(* worktree, made of the outputs of several Git commands.                  *)
(*                                                                         *)
(* A change set says what became of each path of HEAD, or of a new path.   *)
(* The agent's sandbox cannot write the index, which stays HEAD's until    *)
(* check_diff adds the new files to it.  Allowed, denied and protected     *)
(* patterns are one notion here, an `open' area; tests/ is open too.       *)
(* Whether `git diff' takes a deleted file and a new one for a rename      *)
(* depends on their contents: `moved' is any injective choice of pairs.    *)
(***************************************************************************)
EXTENDS Integers, FiniteSets, Sequences, Functions

CONSTANTS
  Path,
  Base,        \* [Path -> {"none", "file", "link", "module"}]: what HEAD has there
  Area,        \* [Path -> {"open", "closed", "tests"}]
  MaxFiles,    \* the smaller of the policy's maxChangedFiles and Limits'
  MaxLines,    \* the smaller of the policy's maxDiffLines and Limits'
  MaxSize      \* bound on the lines one file's change adds and deletes

ASSUME PathAssumption == IsFiniteSet(Path)
ASSUME BaseAssumption == Base \in [Path -> {"none", "file", "link", "module"}]
ASSUME AreaAssumption == Area \in [Path -> {"open", "closed", "tests"}]
ASSUME DiffLimitAssumption == MaxFiles \in Nat /\ MaxLines \in Nat /\ MaxSize \in Nat

VARIABLES
  now,       \* what each path is in the worktree, "same" when it is HEAD's
  lines,     \* lines added and deleted at each path
  moved,     \* [deleted path -> new path], the renames Git detects
  flaw,      \* what is wrong with the text of the diff, once it is read
  verdict    \* "none", "accepted" or the error code
diffVars == <<now, lines, moved, flaw, verdict>>

---------------------------------------------------------------------------------
(* What Git reports. *)

\* What may become of a path.  A special path is a directory, a repository of its
\* own or, for a submodule, another commit.
Becomes(p) ==
  CASE Base[p] = "none" -> {"same", "file", "link", "binary", "special", "ignored"}
    [] Base[p] = "file" -> {"same", "file", "link", "binary", "special", "gone"}
    [] Base[p] = "link" -> {"same", "file", "link", "gone"}
    [] Base[p] = "module" -> {"same", "special", "gone"}

Changed == {p \in Path : now[p] \notin {"same", "ignored"}}

\* ls-files --others --ignored, and ls-files --others.
Ignored == {p \in Path : now[p] = "ignored"}
Untracked == {p \in Changed : Base[p] = "none"}

\* diff --name-only: of a renamed file the new name only.
Names == Changed \ DOMAIN moved

\* The mode of the path in the index: after add -N that of the worktree.
StagedMode(p) == IF Base[p] = "none" THEN now[p] ELSE Base[p]

\* diff --numstat -z: an entry per change, whose fields are counts, or "-" of a
\* binary file; a rename writes its two names as fields of their own.
Entries == {<<p>> : p \in Names \ Range(moved)} \cup {<<p, moved[p]>> : p \in DOMAIN moved}

TotalLines == SumFunctionOnSet(lines, Names)

---------------------------------------------------------------------------------
(* The checks, in the order of the code. *)

NotAddable(p) == now[p] \in {"link", "special"}

CountInvalid == Names = {} \/ Cardinality(Names) > MaxFiles

NameRefused(p) ==
  \/ Area[p] = "closed"
  \/ Area[p] = "tests" /\ p \notin Untracked
  \/ now[p] \in {"link", "special"}
  \/ StagedMode(p) \in {"link", "module"}

FaultyEntryRefused(e) == Len(e) = 1 /\ now[e[1]] = "binary"

\* An entry without two counts and a name is refused as a binary change: a binary
\* file, and the names of a rename.
EntryRefused(e) == Len(e) = 2 \/ now[e[1]] = "binary"

FaultyTooManyLines == TotalLines >= MaxLines

TooManyLines == TotalLines > MaxLines

OutOfPolicy ==
  \/ Ignored # {}
  \/ \E p \in Untracked : NotAddable(p)
  \/ CountInvalid
  \/ \E p \in Names : NameRefused(p)
  \/ \E e \in Entries : EntryRefused(e)
  \/ TooManyLines

\* diff --check fails as a Git command, undecodable text as an unexpected error,
\* an oversized diff as a policy violation.
TextVerdict(f) ==
  CASE f = "whitespace" -> "AEH-GIT-422-001"
    [] f = "encoding" -> "AEH-INTERNAL-500-001"
    [] f = "size" -> "AEH-POLICY-422-001"
    [] f = "none" -> "accepted"

CheckDiff(f) == IF OutOfPolicy THEN "AEH-POLICY-422-001" ELSE TextVerdict(f)

\* The renames Git may detect: regular files with contents in common.
Renames ==
  LET Old == {p \in Path : now[p] = "gone" /\ Base[p] = "file"}
      New == {p \in Untracked : now[p] \in {"file", "binary"}}
  IN {f \in UNION {[D -> New] : D \in SUBSET Old} : IsInjective(f)}

DiffInit ==
  /\ now \in {f \in [Path -> {"same", "file", "link", "binary", "special", "gone", "ignored"}] :
                \A p \in Path : f[p] \in Becomes(p)}
  /\ lines \in {f \in [Path -> 0..MaxSize] :
                  \A p \in Path : now[p] \notin {"file", "gone"} => f[p] = 0}
  /\ moved \in Renames
  /\ flaw = "none"
  /\ verdict = "none"

DiffNext ==
  /\ verdict = "none"
  /\ flaw' \in {"none", "whitespace", "encoding", "size"}
  /\ verdict' = CheckDiff(flaw')
  /\ UNCHANGED <<now, lines, moved>>

DiffSpec == DiffInit /\ [][DiffNext]_diffVars

---------------------------------------------------------------------------------
(* Properties.  They speak of the worktree, not of what Git reports of it. *)

Plain(p) == Base[p] \in {"none", "file"} /\ now[p] \in {"file", "gone"}

InPolicy ==
  /\ Ignored = {}
  /\ Cardinality(Changed) \in 1..MaxFiles
  /\ ~(SumFunctionOnSet(lines, Changed) > MaxLines)
  /\ \A p \in Changed : Plain(p) /\ Area[p] # "closed" /\ (Area[p] = "tests" => Base[p] = "none")

\* docs/mvp-scope.md:144: what is accepted changes few lines of few regular files
\* in the allowed areas and no test of HEAD, the old place of a file that Git
\* takes for renamed included, and the files stored with the patch are all that it
\* changes.  Nothing within the policy is refused for one, unless Git takes it for
\* a rename: limits may be reached exactly, a new test and a deleted file are fine.
PolicyDecides ==
  /\ verdict = "accepted" => InPolicy /\ Names = Changed
  /\ verdict = "AEH-POLICY-422-001" => ~InPolicy \/ moved # <<>> \/ flaw = "size"
================================================================================
