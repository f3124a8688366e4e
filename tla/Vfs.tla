-------------------------------- MODULE Vfs --------------------------------
(***************************************************************************)
(* The fake shell's file tree (fakeshell/vfs): a fixed tree of embedded,   *)
(* static and generated files under a writable overlay with limits.  A     *)
(* path is the sequence of its elements, as Resolve leaves it.  A file is  *)
(* its length, a modification time is whether there is one.  An operation  *)
(* that returns an error changes nothing and is not a step, except a       *)
(* mkdir -p that made some of the directories.                             *)
(***************************************************************************)
EXTENDS Naturals, Sequences, FiniteSets, Functions

CONSTANTS
  Paths,       \* the paths that are used; closed under Dir
  BaseFiles,   \* cfg.Base: its files
  BaseDirs,    \* cfg.Base: its directories
  ExtraDirs,   \* cfg.ExtraDirs
  Computed,    \* cfg.Generated and cfg.Static
  Writable,    \* cfg.Writable
  Private,     \* cfg.Private
  IsRoot,      \* cfg.User is root
  MaxEntries,  \* cfg.MaxEntries
  MaxBytes,    \* cfg.MaxBytes
  Sizes        \* lengths of the data that is written

VARIABLES files, dirs, mtime, used

vars == <<files, dirs, mtime, used>>

Root == << >>

\* path.Dir, and under: p is dir or lies in it.
Dir(p) == [i \in 1..(Len(p) - 1) |-> p[i]]
Under(p, dir) == Len(dir) <= Len(p) /\ \A i \in 1..Len(dir) : p[i] = dir[i]

\* Stat without the overlay: a path above a computed file is a directory, too.
FixedDir(p) ==
  \/ p \in ExtraDirs
  \/ p \in BaseDirs \ Computed
  \/ p \notin Computed \cup BaseFiles /\ \E g \in Computed : g # p /\ Under(g, p)
FixedFile(p) == p \notin ExtraDirs /\ p \in Computed \cup BaseFiles
Fixed(p) == FixedDir(p) \/ FixedFile(p)

\* The configurations of newShell and of the tests: the fixed tree is a tree.
ASSUME VfsAssumption ==
  /\ Paths \subseteq Seq(STRING) /\ Root \in Paths
  /\ \A p \in Paths : p # Root => Dir(p) \in Paths
  /\ BaseFiles \cup BaseDirs \cup ExtraDirs \cup Computed \subseteq Paths
  /\ BaseFiles \cap BaseDirs = {} /\ FixedDir(Root)
  /\ \A p, d \in Paths : Fixed(p) /\ Under(p, d) /\ d # p => FixedDir(d)
  /\ Writable \cup Private \subseteq Paths /\ IsRoot \in BOOLEAN
  /\ MaxEntries \in Nat /\ MaxBytes \in Nat /\ Sizes \subseteq Nat

Overlay == DOMAIN files \cup dirs

-----------------------------------------------------------------------------
(* What the tree looks like *)

\* Stat and IsDir: an overlay file hides what is below it.
IsFile(p) == p \in DOMAIN files \/ (p \notin dirs /\ FixedFile(p))
IsDir(p) == p \notin DOMAIN files /\ (p \in dirs \/ FixedDir(p))
Exists(p) == IsFile(p) \/ IsDir(p)

private(p) == ~IsRoot /\ \E d \in Private : Under(p, d)
writable(dir) == IsRoot \/ \E d \in Writable : Under(dir, d)

\* ReadDir: the entries of the base, and the element below p of the path of
\* every other entry, as far as Stat finds them.
Listed(p) ==
  {c \in Paths \ {Root} :
     /\ Dir(c) = p /\ Exists(c)
     /\ \/ c \in BaseFiles \cup BaseDirs
        \/ \E e \in ExtraDirs \cup Computed \cup Overlay : Under(e, c)}

\* The listing Remove works with: an error of ReadDir counts as no children.
Children(p) == IF private(p) THEN {} ELSE Listed(p)

-----------------------------------------------------------------------------
(* Creation *)

\* Mutant of MayCreate: what the fixed tree has at p is not looked at.
MayCreateOver(p) ==
  /\ p # Root /\ p \notin Overlay
  /\ IsDir(Dir(p)) /\ writable(Dir(p)) /\ ~private(Dir(p))
  /\ Cardinality(DOMAIN files) + Cardinality(dirs) < MaxEntries

\* A new entry: Stat finds nothing at p, and checkCreate.
MayCreate(p) ==
  /\ p # Root /\ ~Exists(p)
  /\ IsDir(Dir(p)) /\ writable(Dir(p)) /\ ~private(Dir(p))
  /\ Cardinality(DOMAIN files) + Cardinality(dirs) < MaxEntries

OldSize(p) == IF p \in DOMAIN files THEN files[p] ELSE 0

\* WriteFile, of n bytes.
WriteFile(p, n) ==
  /\ p \in DOMAIN files \/ MayCreate(p)
  /\ used - OldSize(p) + n <= MaxBytes
  /\ used' = used - OldSize(p) + n
  /\ files' = [q \in DOMAIN files \cup {p} |-> IF q = p THEN n ELSE files[q]]
  /\ mtime' = mtime \cup {p}
  /\ UNCHANGED dirs

\* Touch: of an entry that exists it changes at most the time.
Touch(p) == ~Exists(p) /\ WriteFile(p, 0)

\* Mkdir without parents.
Mkdir(p) ==
  /\ MayCreate(p)
  /\ dirs' = dirs \cup {p} /\ mtime' = mtime \cup {p}
  /\ UNCHANGED <<files, used>>

\* The directories that mkdir -p has to make for p, from p upwards.
Missing(p) == {q \in Paths : Under(p, q) /\ ~IsDir(q)}

\* Mutant of Room: the limit is checked for the first directory only.
RoomForFirst(q, missing) == Cardinality(DOMAIN files) + Cardinality(dirs) < MaxEntries

\* checkCreate's limit when q's turn comes, after those above it.
Room(q, missing) ==
  Cardinality(DOMAIN files) + Cardinality(dirs)
    + Cardinality({r \in missing : Under(q, r) /\ r # q}) < MaxEntries

\* Mkdir with parents, top down: the first that cannot be made ends it, those
\* made before it stay.
MkdirParents(p) ==
  LET missing == Missing(p)
      made == {q \in missing :
                 \A r \in missing : Under(q, r) =>
                   /\ r # Root /\ ~IsFile(r) /\ writable(Dir(r)) /\ ~private(Dir(r))
                   /\ Room(r, missing)}
  IN  /\ made # {}
      /\ dirs' = dirs \cup made /\ mtime' = mtime \cup made
      /\ UNCHANGED <<files, used>>

-----------------------------------------------------------------------------
(* Removal *)

Delete(gone) ==
  /\ files' = Restrict(files, DOMAIN files \ gone)
  /\ dirs' = dirs \ gone
  /\ mtime' = mtime \ gone

RemoveFile(p) ==
  /\ p \in DOMAIN files
  /\ used' = used - files[p]
  /\ Delete({p})

\* What Remove goes through below p: children, their children, and so on.
Visited(p) ==
  {q \in Paths : Under(q, p) /\ \A r \in Paths :
                   (Under(q, r) /\ Under(r, p) /\ r # p) => r \in Children(Dir(r))}

\* Mutant of RemoveTree: the directory goes without its contents.
RemoveTreeShallow(p, recursive) ==
  /\ p \in dirs \ DOMAIN files
  /\ Children(p) = {} \/ recursive
  /\ UNCHANGED used
  /\ Delete({p})

\* Remove of a directory.  Every entry visited is the overlay's (OnlyOverlay),
\* so that the recursion does not stop half way.
RemoveTree(p, recursive) ==
  /\ p \in dirs \ DOMAIN files
  /\ Children(p) = {} \/ recursive
  /\ used' = used - SumFunctionOnSet(files, Visited(p) \cap DOMAIN files)
  /\ Delete(Visited(p))

RemovePath(p, recursive) == RemoveFile(p) \/ RemoveTree(p, recursive)

\* The shell's rm refuses a directory without -r; rmdir does not.
Rm(p, recursive) == (IsDir(p) => recursive) /\ RemovePath(p, recursive)
Rmdir(p) == RemovePath(p, FALSE)

Reset ==
  /\ files' = << >> /\ dirs' = {} /\ mtime' = {} /\ used' = 0

Init == files = << >> /\ dirs = {} /\ mtime = {} /\ used = 0

Next ==
  \/ \E p \in Paths :
       \/ \E n \in Sizes : WriteFile(p, n)
       \/ Touch(p) \/ Mkdir(p) \/ MkdirParents(p)
       \/ Rm(p, TRUE) \/ Rm(p, FALSE) \/ Rmdir(p)
  \/ Reset

Spec == Init /\ [][Next]_vars

-----------------------------------------------------------------------------
(* Properties *)

\* The tree is whole: whatever was removed, in whatever order, the overlay's
\* entries have only directories above them and are files or directories, not
\* both.  An entry left below a removed directory would count for ever.
TreeWhole ==
  /\ DOMAIN files \cap dirs = {}
  /\ \A p \in Overlay, d \in Paths : Under(p, d) /\ d # p => IsDir(d)

\* The overlay never shadows the fixed tree, and a user's entries stay in the
\* directories he may write to and out of the private ones.
Confined ==
  \A p \in Overlay : ~Fixed(p) /\ writable(Dir(p)) /\ ~private(Dir(p))

\* The limits hold and are not used up by entries that are gone: used is the
\* sum of the lengths, and times are kept of the overlay's entries only.
Accounted ==
  /\ used = SumFunction(files) /\ used <= MaxBytes
  /\ Cardinality(Overlay) <= MaxEntries
  /\ mtime = Overlay

\* A recursive removal is complete: what it goes through below an overlay
\* directory is the overlay's, and nothing of the overlay is missed.
OnlyOverlay ==
  \A p \in dirs : Visited(p) = {q \in Overlay : Under(q, p)}
=============================================================================
