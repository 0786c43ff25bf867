------------------------------ MODULE Projects ------------------------------
(***************************************************************************)
(* How harness-mem-core.ts names projects: every input is normalised on    *)
(* its way in, against the file system and a growing list of preferred     *)
(* workspace roots; a start renames the rows of legacy aliases; a read     *)
(* expands the project its caller names into the stored names.             *)
(*                                                                         *)
(* A name is a string whose parts the properties tell apart are given by   *)
(* functions: its last component, its lower-case form, the names above it. *)
(***************************************************************************)
EXTENDS Naturals, Sequences, FiniteSets, SequencesExt

CONSTANTS
    Name,          \* project names that clients send
    Absolute,      \* the ones that are absolute paths
    Base,          \* Base[n]: the last component
    LowerCase,     \* LowerCase[n]: n, or a last component, in lower case
    Ancestors,     \* Ancestors[n]: the paths n lies under, n included
    Real,          \* Real[n]: n with its symbolic links resolved
    GitRoot,       \* GitRoot[n]: the repository n lies in, or NoRoot
    NoRoot,
    ConfigRoots,   \* codexProjectRoot, codexSessionsRoot, process.cwd()
    MaxRecords,       \* bound: rows recorded
    MaxChanges     \* bound: directories made or removed

\* A last component is no path, and what links and repositories lead to are paths.
ASSUME ProjectAssumption ==
    /\ Absolute \subseteq Name
    /\ \A n \in Absolute : /\ Base[n] \notin Absolute /\ Real[n] \in Absolute
                          /\ GitRoot[n] \in Absolute \cup {NoRoot}

VARIABLES
    dirs,          \* directories that exist
    records,          \* <<[input, project], ...>>: one entry for the rows an event writes
    roots,         \* projectNormalizationRoots, in order
    fresh,         \* no event and no change of the file system since the start
    changes

projectVars == <<dirs, records, roots, fresh, changes>>

----------------------------------------------------------------------------

StoredIn(rw) == {rw[i].project : i \in DOMAIN rw}
StoredNames == StoredIn(records)

\* resolveDirectGitWorkspaceRoot: only directories that exist are looked at.
DirectGitRoot(n) ==
    IF GitRoot[n] # NoRoot /\ GitRoot[n] \in dirs THEN GitRoot[n] ELSE NoRoot

\* resolvePreferredWorkspaceRoot: the first root that is the path or above it.
PreferredRoot(n, rs) ==
    LET above == {i \in DOMAIN rs : rs[i] \in Ancestors[n]}
    IN  IF above = {} THEN NoRoot
        ELSE rs[CHOOSE i \in above : \A j \in above : i <= j]

WorkspaceRoot(n, rs) ==
    IF DirectGitRoot(n) # NoRoot THEN DirectGitRoot(n)
    ELSE LET preferred == PreferredRoot(n, rs)
         IN  IF preferred = NoRoot \/ DirectGitRoot(preferred) = NoRoot
             THEN preferred ELSE DirectGitRoot(preferred)

\* The name of a directory that exists.
OfDirectory(n, rs) ==
    LET root == WorkspaceRoot(Real[n], rs)
    IN  IF root = NoRoot THEN Real[n] ELSE root

NormalizeProjectName(n, rs) ==
    LET named == {i \in DOMAIN rs :
                    LowerCase[Base[rs[i]]] = LowerCase[n]}
        first == rs[CHOOSE i \in named : \A j \in named : i <= j]
    IN  IF n \in dirs THEN OfDirectory(n, rs)
        ELSE IF n \in Absolute \/ named = {} THEN n
        ELSE IF first \in dirs THEN OfDirectory(first, rs)
        ELSE first

\* A Set keeps the order in which its members came.
Merged(rs, n) == IF n \in ToSet(rs) THEN rs ELSE Append(rs, n)

ExtendRoots(rs, candidates) ==
    LET Add(acc, n) ==
            LET own  == IF n \in Absolute THEN Merged(acc, n) ELSE acc
                norm == NormalizeProjectName(n, own)
            IN  IF norm \in Absolute THEN Merged(own, norm) ELSE own
    IN  FoldLeft(Add, rs, candidates)

BuildRoots ==
    LET Add(acc, n) ==
            IF n \in dirs
            THEN Merged(Merged(acc, Real[n]), NormalizeProjectName(Real[n], <<>>))
            ELSE Merged(acc, n)
    IN  FoldLeft(Add, <<>>, ConfigRoots)

\* normalizeExplicitProjectPath
ExplicitPath(n) ==
    LET resolved == IF n \in dirs THEN Real[n] ELSE n
    IN  IF DirectGitRoot(resolved) = NoRoot THEN resolved
        ELSE DirectGitRoot(resolved)

\* getCanonicalProjectName: the last component of the repository or the path.
CanonicalizeProjectName(n) == IF n \in Absolute THEN Base[ExplicitPath(n)] ELSE n

\* Mutant: the stored names are not looked through.
ExpandNormalized(n) == {NormalizeProjectName(n, roots)}

\* A path stands for itself, a bare name for every stored name it is canonical for.
ExpandProjectSelection(n) ==
    LET members == {p \in StoredNames :
                      CanonicalizeProjectName(p) = CanonicalizeProjectName(n)}
    IN  IF n \in Absolute \/ members = {}
        THEN {NormalizeProjectName(n, roots)} ELSE members

----------------------------------------------------------------------------
\* migrateLegacyProjectAliases

Weight(rw, p) == Cardinality({i \in DOMAIN rw : rw[i].project = p})

AbsoluteCandidates(rw, rs) ==
    (StoredIn(rw) \cup {NormalizeProjectName(p, rs) : p \in StoredIn(rw)}) \cap Absolute

\* Spellings that differ in case only; the heaviest wins, a path before a name.
Variants(rw, p) == {q \in StoredIn(rw) : LowerCase[q] = LowerCase[p]}
CanonicalVariants(rw, p) ==
    LET all   == Variants(rw, p)
        heavy == {q \in all : \A r \in all : Weight(rw, q) >= Weight(rw, r)}
    IN  IF heavy \cap Absolute = {} THEN heavy ELSE heavy \cap Absolute

\* aliasMap: a later rule overwrites what an earlier one set.
Alias(rw, rs, p) ==
    LET based == {q \in AbsoluteCandidates(rw, rs) :
                    LowerCase[Base[q]] = LowerCase[p]}
        \* localeCompare breaks a tie: lower case comes first.
        variant == CHOOSE q \in CanonicalVariants(rw, p) :
                     LowerCase[p] \in CanonicalVariants(rw, p) => q = LowerCase[p]
    IN  IF Cardinality(Variants(rw, p)) > 1 /\ variant # p THEN variant
        ELSE IF p \notin Absolute /\ Cardinality(based) = 1
             THEN CHOOSE q \in based : TRUE
        ELSE NormalizeProjectName(p, rs)

\* Chains of aliases are followed until one ends or meets itself.
ResolvedAlias(rw, rs, p) ==
    LET Follow(s) ==
            LET next == Alias(rw, rs, s.at)
            IN  IF s.at \notin StoredIn(rw) \ s.seen \/ next = s.at THEN s
                ELSE [at |-> next, seen |-> s.seen \cup {s.at}]
    IN  FoldLeft(LAMBDA s, i : Follow(s), [at |-> p, seen |-> {}],
                 [i \in 1..(Len(rw) + 1) |-> i]).at

Migrated(rw, rs) ==
    [i \in DOMAIN rw |->
        [rw[i] EXCEPT !.project = ResolvedAlias(rw, rs, rw[i].project)]]

----------------------------------------------------------------------------

\* A directory's parents, and what a link leads to, exist.
FileTree(d) == \A n \in d : Ancestors[n] \cup {Real[n]} \subseteq d

ProjectInit ==
    /\ dirs \in {d \in SUBSET Absolute : FileTree(d)}
    /\ records = <<>>
    /\ roots = BuildRoots
    /\ fresh = TRUE
    /\ changes = 0

\* recordEvent: the name is normalised, then a path becomes a root itself.
RecordIn(n) ==
    LET project == NormalizeProjectName(n, roots)
    IN  /\ Len(records) < MaxRecords
        /\ records' = Append(records, [input |-> n, project |-> project])
        /\ roots' = IF project \in Absolute THEN ExtendRoots(roots, <<project>>)
                    ELSE roots
        /\ fresh' = FALSE
        /\ UNCHANGED <<dirs, changes>>

\* A start: the roots are built anew and extended with the paths found, the
\* aliases are migrated in a transaction, whose failure is passed over.
StartDaemon ==
    /\ ~fresh
    /\ \E order \in SetToSeqs(AbsoluteCandidates(records, BuildRoots)) :
         roots' = ExtendRoots(BuildRoots, order)
    /\ records' \in {records, Migrated(records, BuildRoots)}
    /\ fresh' = TRUE
    /\ UNCHANGED <<dirs, changes>>

ChangeDirectory(n) ==
    /\ changes < MaxChanges
    /\ dirs' = IF n \in dirs THEN dirs \ {n} ELSE dirs \cup {n}
    /\ FileTree(dirs')
    /\ changes' = changes + 1
    /\ fresh' = FALSE
    /\ UNCHANGED <<records, roots>>

ProjectNext ==
    \/ \E n \in Name : RecordIn(n)
    \/ StartDaemon
    \/ \E n \in Absolute : ChangeDirectory(n)

ProjectSpec == ProjectInit /\ [][ProjectNext]_projectVars

----------------------------------------------------------------------------

\* Every row is found under the name its project is listed by: the project
\* list shows canonical names (getCanonicalProjectName), a client sends one
\* back, and expandProjectSelection must lead to every stored spelling, after
\* any history of inputs, starts and changes of the file system.
ListedProjectFound ==
    \A p \in StoredNames : p \in ExpandProjectSelection(CanonicalizeProjectName(p))

\* Renaming comes to an end: whatever was stored, some start is the last that
\* renames a row while the file system stays as it is. The three rules of
\* migrateLegacyProjectAliases (normalised name, unique last component, heaviest
\* spelling) feed one another and can form cycles, so that names could change
\* back and forth at every start.
MigrationSettles ==
    LET settled == FoldLeft(LAMBDA rw, i : Migrated(rw, BuildRoots), records,
                            [i \in 1..(Len(records) + 1) |-> i])
    IN  Migrated(settled, BuildRoots) = settled

\* Rows are never lost behind their project's name, whatever was renamed: each
\* is found under the name it is listed by, and renaming comes to an end.
ProjectsFound == ListedProjectFound /\ MigrationSettles
============================================================================
