-------------------------- MODULE FakeShellProofs ---------------------------
(*****************************************************************************)
(* Proofs about the simulated terminal: the overlay is a whole tree of its  *)
(* own, outside the fixed one, whose size and entries are what the limits   *)
(* are checked against; a session that nothing was done in is still fresh;  *)
(* and the line editor implements an editor of two halves, which never      *)
(* loses the line that was being typed.                                     *)
(*****************************************************************************)
EXTENDS Vfs, FakeSession, LineEditor, SequenceTheorems,
        FiniteSetTheorems, WellFoundedInduction, TLAPS

\* A set of naturals that is not empty has a least element.
LEMMA LeastNatural ==
  ASSUME NEW T, T \subseteq Nat, T # {}
  PROVE  \E x \in T : \A y \in T : x <= y
<1>1. PICK x \in T : \A y \in T : ~(<<y, x>> \in OpToRel(<, Nat))
  BY NatLessThanWellFounded, WFMin
<1>2. \A y \in T : ~(y < x)
  BY <1>1 DEF OpToRel
<1> QED BY <1>2

-----------------------------------------------------------------------------
(* In-memory file system *)

\* Overlay entries are paths of the model.
TypeInv == Overlay \subseteq Paths

\* The inductive invariant: a recursive removal is complete only because the
\* overlay shares no directory with the fixed tree and no private one.
Inv == TypeInv /\ TreeWhole /\ Confined

\* A path lies under itself, and what is under it lies under what it is under.
LEMMA UnderOrder ==
  ASSUME NEW p \in Seq(STRING), NEW q \in Seq(STRING), NEW r \in Seq(STRING)
  PROVE  Under(p, p) /\ (Under(p, q) /\ Under(q, r) => Under(p, r))
BY DEF Under

\* Dir is the next path up: all that is above a path is above its Dir, or is it.
LEMMA DirIsNext ==
  ASSUME NEW p \in Seq(STRING), p # Root, NEW d \in Seq(STRING)
  PROVE  /\ Dir(p) \in Seq(STRING) /\ Under(p, Dir(p)) /\ Dir(p) # p
         /\ Under(p, d) /\ d # p => Under(Dir(p), d)
<1>1. Len(p) \in Nat /\ Len(p) > 0
  BY DEF Root
<1>2. Dir(p) \in Seq(STRING) /\ Len(Dir(p)) = Len(p) - 1
      /\ \A i \in 1..(Len(p) - 1) : Dir(p)[i] = p[i]
  BY <1>1 DEF Dir
<1>3. Under(p, Dir(p)) /\ Dir(p) # p
  BY <1>1, <1>2 DEF Under
<1>4. ASSUME Under(p, d), d # p PROVE Under(Dir(p), d)
  <2>1. CASE Len(d) = Len(p)
    <3>1. d = p
      BY <2>1, <1>4 DEF Under
    <3> QED BY <3>1, <1>4
  <2>2. CASE Len(d) # Len(p)
    <3>1. Len(d) \in Nat /\ Len(d) <= Len(p) - 1
      BY <2>2, <1>1, <1>4 DEF Under
    <3> QED BY <3>1, <1>1, <1>2, <1>4 DEF Under
  <2> QED BY <2>1, <2>2
<1> QED BY <1>2, <1>3, <1>4

\* The root is fixed, and so is everything above something fixed.
LEMMA FixedAbove ==
  /\ Fixed(Root) /\ \A p \in Paths : p \in Seq(STRING) /\ (p # Root => Dir(p) \in Paths)
  /\ \A p, d \in Paths : Fixed(p) /\ Under(p, d) => Fixed(d)
BY VfsAssumption DEF Fixed

\* What Remove goes through below an overlay directory is the overlay's, all of
\* it and nothing else.
LEMMA VisitedIsOverlay ==
  ASSUME Inv PROVE OnlyOverlay
<1> SUFFICES ASSUME NEW p \in dirs
             PROVE  Visited(p) = {q \in Overlay : Under(q, p)}
  BY DEF OnlyOverlay
<1>1. p \in Overlay /\ p \in Paths /\ ~Fixed(p)
  BY DEF Inv, TypeInv, Confined, Overlay
<1>2. \A q \in Paths : Under(q, p) => ~Fixed(q)
  BY <1>1, FixedAbove
<1>3. ASSUME NEW q \in Visited(p) PROVE q \in Overlay /\ Under(q, p)
  <2>1. q \in Paths /\ Under(q, p)
    BY <1>3 DEF Visited
  <2>2. CASE q = p
    BY <2>1, <2>2, <1>1
  <2>3. CASE q # p
    <3>1. Under(q, q)
      BY <2>1, FixedAbove, UnderOrder
    <3>2. q \in Children(Dir(q))
      BY <2>1, <2>3, <3>1, <1>3 DEF Visited
    <3>3. Exists(q)
      BY <3>2 DEF Children, Listed
    <3>4. q \in Overlay
      BY <3>3, <1>2, <2>1 DEF Exists, IsFile, IsDir, Fixed, Overlay
    <3> QED BY <3>4, <2>1
  <2> QED BY <2>2, <2>3
<1>4. ASSUME NEW q \in Overlay, Under(q, p) PROVE q \in Visited(p)
  <2>1. q \in Paths
    BY DEF Inv, TypeInv
  <2>2. ASSUME NEW r \in Paths, Under(q, r), Under(r, p), r # p
        PROVE  r \in Children(Dir(r))
    <3>1. r = q \/ IsDir(r)
      BY <2>2, <1>4 DEF Inv, TreeWhole
    <3>2. r \in Overlay
      BY <3>1, <1>2, <2>2 DEF IsDir, Fixed, Overlay
    <3>3. ~private(Dir(r)) /\ ~Fixed(r)
      BY <3>2 DEF Inv, Confined
    <3>4. Exists(r)
      BY <3>1, <3>2 DEF Exists, IsFile, IsDir, Overlay
    <3>5. Under(r, r) /\ r # Root
      BY <2>2, <3>3, FixedAbove, UnderOrder
    <3>6. r \in Listed(Dir(r))
      BY <2>2, <3>2, <3>4, <3>5 DEF Listed
    <3> QED BY <3>3, <3>6 DEF Children
  <2> QED BY <1>4, <2>1, <2>2 DEF Visited
<1> QED BY <1>3, <1>4

\* New entries F and D, none of which existed and each with directories above
\* it or among D, keep the tree whole.
LEMMA Added ==
  ASSUME Inv, NEW F, NEW D, F \cap D = {},
         \A q \in F \cup D :
           /\ q \in Paths /\ ~Exists(q) /\ writable(Dir(q)) /\ ~private(Dir(q))
           /\ \A d \in Paths : Under(q, d) /\ d # q => IsDir(d) \/ d \in D,
         DOMAIN files' = DOMAIN files \cup F, dirs' = dirs \cup D
  PROVE  Inv'
<1>1. \A q \in F \cup D : q \notin Overlay /\ ~Fixed(q)
  BY DEF Exists, IsFile, IsDir, Overlay, Fixed
<1>2. \A d : IsDir(d) \/ d \in D => IsDir(d)'
  BY <1>1 DEF Exists, IsFile, IsDir, Overlay
<1>3. Overlay' = Overlay \cup F \cup D
  BY DEF Overlay
<1>4. TypeInv'
  BY <1>3 DEF Inv, TypeInv
<1>5. TreeWhole'
  <2>1. (DOMAIN files \cap dirs = {})'
    BY <1>1 DEF Inv, TreeWhole, Overlay
  <2>2. \A p \in Overlay', d \in Paths : Under(p, d) /\ d # p => IsDir(d)'
    BY <1>2, <1>3 DEF Inv, TreeWhole
  <2> QED BY <2>1, <2>2 DEF TreeWhole
<1>6. Confined'
  BY <1>1, <1>3 DEF Inv, Confined
<1> QED BY <1>4, <1>5, <1>6 DEF Inv

\* A removal that takes with a directory all that lies in it keeps it whole.
LEMMA Removed ==
  ASSUME Inv, NEW gone,
         \A q \in Overlay, d \in gone \cap dirs : Under(q, d) => q \in gone,
         DOMAIN files' = DOMAIN files \ gone, dirs' = dirs \ gone
  PROVE  Inv'
<1>1. Overlay' = Overlay \ gone
  BY DEF Overlay
<1>2. TypeInv'
  BY <1>1 DEF Inv, TypeInv
<1>3. TreeWhole'
  <2>1. (DOMAIN files \cap dirs = {})'
    BY DEF Inv, TreeWhole
  <2>2. ASSUME NEW p \in Overlay', NEW d \in Paths, Under(p, d), d # p
        PROVE  IsDir(d)'
    <3>1. IsDir(d)
      BY <1>1, <2>2 DEF Inv, TreeWhole
    <3>2. d \in dirs => d \notin gone
      BY <1>1, <2>2
    <3> QED BY <3>1, <3>2 DEF IsDir
  <2> QED BY <2>1, <2>2 DEF TreeWhole
<1>4. Confined'
  BY <1>1 DEF Inv, Confined
<1> QED BY <1>2, <1>3, <1>4 DEF Inv

\* checkCreate looks at the parent only; above it there are only directories.
LEMMA CreateInTree ==
  ASSUME Inv, NEW p \in Paths, MayCreate(p)
  PROVE  /\ ~Exists(p) /\ writable(Dir(p)) /\ ~private(Dir(p))
         /\ \A d \in Paths : Under(p, d) /\ d # p => IsDir(d)
<1>1. /\ ~Exists(p) /\ writable(Dir(p)) /\ ~private(Dir(p))
      /\ p # Root /\ IsDir(Dir(p))
  BY DEF MayCreate
<1>2. ASSUME NEW d \in Paths, Under(p, d), d # p PROVE IsDir(d)
  <2>1. Dir(p) \in Paths /\ Under(Dir(p), d)
    BY <1>1, <1>2, FixedAbove, DirIsNext
  <2>2. CASE d = Dir(p)
    BY <2>2, <1>1
  <2>3. CASE d # Dir(p) /\ Dir(p) \in dirs
    BY <2>1, <2>3 DEF Inv, TreeWhole, Overlay
  <2>4. CASE d # Dir(p) /\ Dir(p) \notin dirs
    <3>1. Fixed(Dir(p))
      BY <2>4, <1>1 DEF IsDir, Fixed
    <3>2. FixedDir(d)
      BY <2>1, <2>4, <3>1, VfsAssumption
    <3>3. d \notin DOMAIN files
      BY <3>2 DEF Inv, Confined, Overlay, Fixed
    <3> QED BY <3>2, <3>3 DEF IsDir
  <2> QED BY <2>2, <2>3, <2>4
<1> QED BY <1>1, <1>2

LEMMA InvInit == Init => Inv
BY DEF Init, Inv, TypeInv, TreeWhole, Confined, Overlay

LEMMA InvWriteFile ==
  ASSUME Inv, NEW p \in Paths, NEW n, WriteFile(p, n)
  PROVE  Inv'
<1>1. dirs' = dirs /\ DOMAIN files' = DOMAIN files \cup {p}
  BY DEF WriteFile
<1>2. CASE p \in DOMAIN files
  <2>1. DOMAIN files' = DOMAIN files /\ dirs' = dirs
    BY <1>1, <1>2
  <2> QED BY <2>1 DEF Inv, TypeInv, TreeWhole, Confined, Overlay, IsDir
<1>3. CASE MayCreate(p)
  <2> DEFINE F == {p}
             D == {}
  <2>1. DOMAIN files' = DOMAIN files \cup F /\ dirs' = dirs \cup D /\ F \cap D = {}
    BY <1>1
  <2>2. \A q \in F \cup D :
          /\ q \in Paths /\ ~Exists(q) /\ writable(Dir(q)) /\ ~private(Dir(q))
          /\ \A d \in Paths : Under(q, d) /\ d # q => IsDir(d) \/ d \in D
    BY <1>3, CreateInTree
  <2> HIDE DEF F, D
  <2> QED BY <2>1, <2>2, Added
<1> QED BY <1>2, <1>3 DEF WriteFile

LEMMA InvMkdir ==
  ASSUME Inv, NEW p \in Paths, Mkdir(p)
  PROVE  Inv'
<1> DEFINE F == {}
           D == {p}
<1>1. DOMAIN files' = DOMAIN files \cup F /\ dirs' = dirs \cup D /\ F \cap D = {}
  BY DEF Mkdir
<1>2. \A q \in F \cup D :
        /\ q \in Paths /\ ~Exists(q) /\ writable(Dir(q)) /\ ~private(Dir(q))
        /\ \A d \in Paths : Under(q, d) /\ d # q => IsDir(d) \/ d \in D
  BY CreateInTree DEF Mkdir
<1> HIDE DEF F, D
<1> QED BY <1>1, <1>2, Added

\* With -p, what is made is closed upwards within what was missing.
LEMMA InvMkdirParents ==
  ASSUME Inv, NEW p \in Paths, MkdirParents(p)
  PROVE  Inv'
<1> DEFINE missing == Missing(p)
           Ok(r) == /\ r # Root /\ ~IsFile(r) /\ writable(Dir(r)) /\ ~private(Dir(r))
                    /\ Room(r, missing)
           D == {q \in missing : \A r \in missing : Under(q, r) => Ok(r)}
           F == {}
<1>1. DOMAIN files' = DOMAIN files \cup F /\ dirs' = dirs \cup D /\ F \cap D = {}
  BY DEF MkdirParents
<1>2. ASSUME NEW q \in D
      PROVE  /\ q \in Paths /\ ~Exists(q) /\ writable(Dir(q)) /\ ~private(Dir(q))
             /\ \A d \in Paths : Under(q, d) /\ d # q => IsDir(d) \/ d \in D
  <2>1. q \in missing /\ q \in Paths /\ Under(p, q) /\ ~IsDir(q)
    BY DEF Missing
  <2>2. Ok(q)
    BY <2>1, FixedAbove, UnderOrder
  <2>3. ~Exists(q) /\ writable(Dir(q)) /\ ~private(Dir(q))
    BY <2>1, <2>2 DEF Exists
  <2>4. ASSUME NEW d \in Paths, Under(q, d), ~IsDir(d) PROVE d \in D
    <3>1. d \in missing
      BY <2>1, <2>4, FixedAbove, UnderOrder DEF Missing
    <3>2. \A r \in missing : Under(d, r) => Under(q, r)
      BY <2>1, <2>4, FixedAbove, UnderOrder DEF Missing
    <3> QED BY <3>1, <3>2
  <2> QED BY <2>1, <2>3, <2>4
<1> HIDE DEF D
<1>3. \A q \in F \cup D :
        /\ q \in Paths /\ ~Exists(q) /\ writable(Dir(q)) /\ ~private(Dir(q))
        /\ \A d \in Paths : Under(q, d) /\ d # q => IsDir(d) \/ d \in D
  BY <1>2
<1> HIDE DEF F
<1> QED BY <1>1, <1>3, Added

LEMMA InvRemove ==
  ASSUME Inv, NEW p \in Paths, NEW recursive, RemovePath(p, recursive)
  PROVE  Inv'
<1>1. CASE RemoveFile(p)
  <2> DEFINE gone == {p}
  <2>1. DOMAIN files' = DOMAIN files \ gone /\ dirs' = dirs \ gone
    BY <1>1 DEF RemoveFile, Delete, Restrict
  <2>2. \A q \in Overlay, d \in gone \cap dirs : Under(q, d) => q \in gone
    BY <1>1 DEF RemoveFile, Inv, TreeWhole
  <2> HIDE DEF gone
  <2> QED BY <2>1, <2>2, Removed
<1>2. CASE RemoveTree(p, recursive)
  <2> DEFINE gone == Visited(p)
  <2>1. DOMAIN files' = DOMAIN files \ gone /\ dirs' = dirs \ gone
    BY <1>2 DEF RemoveTree, Delete, Restrict
  <2>2. p \in dirs /\ gone = {q \in Overlay : Under(q, p)}
    BY <1>2, VisitedIsOverlay DEF RemoveTree, OnlyOverlay
  <2>3. \A q \in Overlay, d \in gone \cap dirs : Under(q, d) => q \in gone
    <3>1. \A q \in Overlay : q \in Seq(STRING)
      BY FixedAbove DEF Inv, TypeInv
    <3>2. p \in Seq(STRING)
      BY FixedAbove
    <3> QED BY <2>2, <3>1, <3>2, UnderOrder
  <2> HIDE DEF gone
  <2> QED BY <2>1, <2>3, Removed
<1> QED BY <1>1, <1>2 DEF RemovePath

LEMMA InvNext ==
  ASSUME Inv, [Next]_vars
  PROVE  Inv'
<1>1. ASSUME NEW p \in Paths, NEW n \in Sizes, WriteFile(p, n) PROVE Inv'
  BY <1>1, InvWriteFile
<1>2. ASSUME NEW p \in Paths, Touch(p) PROVE Inv'
  BY <1>2, InvWriteFile DEF Touch
<1>3. ASSUME NEW p \in Paths, Mkdir(p) PROVE Inv'
  BY <1>3, InvMkdir
<1>4. ASSUME NEW p \in Paths, MkdirParents(p) PROVE Inv'
  BY <1>4, InvMkdirParents
<1>5. ASSUME NEW p \in Paths, Rm(p, TRUE) \/ Rm(p, FALSE) \/ Rmdir(p) PROVE Inv'
  BY <1>5, InvRemove DEF Rm, Rmdir
<1>6. CASE Reset
  BY <1>6 DEF Reset, Inv, TypeInv, TreeWhole, Confined, Overlay
<1>7. CASE UNCHANGED vars
  BY <1>7 DEF vars, Inv, TypeInv, TreeWhole, Confined, Overlay, IsDir
<1> QED BY <1>1, <1>2, <1>3, <1>4, <1>5, <1>6, <1>7 DEF Next

\* For every configuration whose fixed tree is a tree, and every sequence of
\* writes, mkdirs, removals and resets (vfs.go): the overlay is a whole tree, and
\* a recursive removal takes exactly what lies in the directory.
THEOREM VfsSafe == Spec => [](TreeWhole /\ OnlyOverlay)
<1>1. Inv => TreeWhole /\ OnlyOverlay
  BY VisitedIsOverlay DEF Inv
<1> QED BY <1>1, InvInit, InvNext, PTL DEF Spec

\* The overlay shadows nothing of the fixed tree and stays where the user may
\* write (Stat before every creation, checkCreate).
THEOREM VfsConfined == Spec => []Confined
<1>1. Inv => Confined
  BY DEF Inv
<1> QED BY <1>1, InvInit, InvNext, PTL DEF Spec

-----------------------------------------------------------------------------
(* Sums over finite sets *)

(* Sums over finite sets *)

\* Induction over the subsets of a finite set: what holds of a set whenever it
\* holds of its proper subsets holds of all of them.
LEMMA SubsetInduction ==
  ASSUME NEW S, IsFiniteSet(S), NEW T,
         ASSUME NEW s \in SUBSET S, \A u \in SUBSET s : u # s => u \in T
         PROVE  s \in T
  PROVE  \A s \in SUBSET S : s \in T
<1> SUFFICES ASSUME NEW s0 \in SUBSET S, s0 \notin T
             PROVE  FALSE
  OBVIOUS
<1> DEFINE Bad == {n \in Nat : \E s \in SUBSET S : s \notin T /\ Cardinality(s) = n}
<1>1. \A s \in SUBSET S : IsFiniteSet(s) /\ Cardinality(s) \in Nat
  BY FS_Subset, FS_CardinalityType
<1>2. Bad \subseteq Nat /\ Bad # {}
  BY <1>1
<1>3. PICK n \in Bad : \A m \in Bad : n <= m
  <2> HIDE DEF Bad
  <2> QED BY <1>2, LeastNatural
<1>4. PICK s \in SUBSET S : s \notin T /\ Cardinality(s) = n
  BY <1>3
<1>5. ASSUME NEW u \in SUBSET s, u # s PROVE u \in T
  <2>1. IsFiniteSet(s) /\ Cardinality(u) <= Cardinality(s) /\ Cardinality(u) # Cardinality(s)
    BY <1>1, <1>5, FS_Subset
  <2>2. u \in SUBSET S /\ Cardinality(u) \in Nat
    BY <1>1
  <2>3. Cardinality(u) \notin Bad
    BY <1>1, <1>3, <1>4, <2>1, <2>2
  <2> QED BY <2>2, <2>3
<1> QED BY <1>4, <1>5

One(s) == CHOOSE x \in s : TRUE

\* The table of the sums of f over the subsets of S that a fold goes through.
Sums(g, S, f) ==
  g = [s \in SUBSET S |-> IF s = {} THEN 0 ELSE f[One(s)] + g[s \ {One(s)}]]

LEMMA OneOf ==
  ASSUME NEW s, s # {}
  PROVE  One(s) \in s
BY DEF One

\* The sum over S is the last entry of such a table, when there is one.
LEMMA SumIsLast ==
  ASSUME NEW S, NEW f, \E g : Sums(g, S, f)
  PROVE  \E g : Sums(g, S, f) /\ SumFunctionOnSet(f, S) = g[S]
<1> DEFINE h == CHOOSE g : Sums(g, S, f)
<1>1. Sums(h, S, f)
  OBVIOUS
<1>2. SumFunctionOnSet(f, S) = h[S]
  BY DEF SumFunctionOnSet, FoldFunctionOnSet, MapThenFoldSet, Sums, One
<1> QED BY <1>1, <1>2

\* The entries of a table.
LEMMA SumsEntry ==
  ASSUME NEW S, NEW f, NEW g, Sums(g, S, f), NEW s \in SUBSET S
  PROVE  /\ s = {} => g[s] = 0
         /\ s # {} => g[s] = f[One(s)] + g[s \ {One(s)}]
<1>1. g[s] = IF s = {} THEN 0 ELSE f[One(s)] + g[s \ {One(s)}]
  BY DEF Sums
<1> QED BY <1>1

\* Two tables agree where their functions do.
LEMMA SumsAgree ==
  ASSUME NEW S, IsFiniteSet(S), NEW A, NEW B, S \subseteq A, S \subseteq B,
         NEW f, NEW g, \A x \in S : f[x] = g[x],
         NEW h, NEW k, Sums(h, A, f), Sums(k, B, g)
  PROVE  h[S] = k[S]
<1> DEFINE T == {s \in SUBSET S : h[s] = k[s]}
<1>1. ASSUME NEW s \in SUBSET S, \A u \in SUBSET s : u # s => u \in T
      PROVE  s \in T
  <2>0. s \in SUBSET A /\ s \in SUBSET B
    OBVIOUS
  <2>3. /\ s = {} => h[s] = 0
        /\ s # {} => h[s] = f[One(s)] + h[s \ {One(s)}]
    <3> HIDE DEF T
    <3> QED BY <2>0, SumsEntry
  <2>4. /\ s = {} => k[s] = 0
        /\ s # {} => k[s] = g[One(s)] + k[s \ {One(s)}]
    <3> HIDE DEF T
    <3> QED BY <2>0, SumsEntry
  <2>1. CASE s = {}
    BY <2>1, <2>3, <2>4
  <2>2. CASE s # {}
    <3>1. One(s) \in s
      BY <2>2, OneOf
    <3>2. h[s] = f[One(s)] + h[s \ {One(s)}]
      BY <2>2, <2>3
    <3>3. k[s] = g[One(s)] + k[s \ {One(s)}]
      BY <2>2, <2>4
    <3>4. h[s \ {One(s)}] = k[s \ {One(s)}]
      BY <1>1, <3>1
    <3>5. f[One(s)] = g[One(s)]
      BY <3>1
    <3>6. h[s] = k[s]
      BY <3>2, <3>3, <3>4, <3>5
    <3> QED BY <3>6
  <2> QED BY <2>1, <2>2
<1> HIDE DEF T
<1>2. S \in T
  BY <1>1, SubsetInduction
<1> QED BY <1>2 DEF T

\* A finite set has a table.
LEMMA SumsExist ==
  ASSUME NEW S, IsFiniteSet(S), NEW f
  PROVE  \E g : Sums(g, S, f)
<1> DEFINE T == {s \in SUBSET S : \E g : Sums(g, s, f)}
<1>1. ASSUME NEW s \in SUBSET S, \A u \in SUBSET s : u # s => u \in T
      PROVE  s \in T
  <2> DEFINE table(u) == CHOOSE g : Sums(g, u, f)
             rest(t) == t \ {One(t)}
             G == [t \in SUBSET s |-> IF t = {} THEN 0 ELSE f[One(t)] + table(rest(t))[rest(t)]]
  <2>1. \A u \in SUBSET s : u # s => Sums(table(u), u, f)
    BY <1>1
  <2>2. ASSUME NEW t \in SUBSET s, t # {}
        PROVE  G[t] = f[One(t)] + G[rest(t)]
    <3> DEFINE u == rest(t)
    <3>1. u \in SUBSET s /\ u # s /\ One(t) \in t
      BY <2>2, OneOf
    <3>2. G[t] = f[One(t)] + table(u)[u]
      BY <2>2
    <3>3. Sums(table(u), u, f)
      BY <2>1, <3>1
    <3> HIDE DEF u, table
    <3>4. CASE u = {}
      <4>1. table(u)[u] = 0
        BY <3>3, <3>4, SumsEntry
      <4>2. G[u] = 0
        BY <3>1, <3>4
      <4> QED BY <3>2, <4>1, <4>2 DEF u
    <3>5. CASE u # {}
      <4> DEFINE v == rest(u)
      <4>1. v \in SUBSET u /\ v \in SUBSET s /\ v # s /\ IsFiniteSet(v)
        BY <3>1, <3>5, OneOf, FS_Subset
      <4>2. G[u] = f[One(u)] + table(v)[v]
        BY <3>1, <3>5
      <4>3. table(u)[u] = f[One(u)] + table(u)[v]
        BY <3>3, <3>5, SumsEntry
      <4>4. Sums(table(v), v, f)
        BY <2>1, <4>1
      <4> HIDE DEF v
      <4>5. table(u)[v] = table(v)[v]
        BY <3>3, <4>1, <4>4, SumsAgree
      <4> QED BY <3>2, <4>2, <4>3, <4>5 DEF u
    <3> QED BY <3>4, <3>5
  <2>3. \A t \in SUBSET s : G[t] = IF t = {} THEN 0 ELSE f[One(t)] + G[t \ {One(t)}]
    <3> SUFFICES ASSUME NEW t \in SUBSET s
                 PROVE  G[t] = IF t = {} THEN 0 ELSE f[One(t)] + G[t \ {One(t)}]
      OBVIOUS
    <3>1. CASE t = {}
      BY <3>1
    <3>2. CASE t # {}
      <4>1. G[t] = f[One(t)] + G[t \ {One(t)}]
        BY <2>2, <3>2
      <4> HIDE DEF G
      <4> QED BY <3>2, <4>1
    <3> QED BY <3>1, <3>2
  <2>4. G = [t \in SUBSET s |-> IF t = {} THEN 0 ELSE f[One(t)] + G[t \ {One(t)}]]
    <3>1. G = [t \in SUBSET s |-> G[t]]
      OBVIOUS
    <3> HIDE DEF G
    <3> QED BY <2>3, <3>1
  <2>5. Sums(G, s, f)
    <3> HIDE DEF G
    <3> QED BY <2>4 DEF Sums
  <2> QED BY <2>5
<1> HIDE DEF T
<1>2. S \in T
  BY <1>1, SubsetInduction
<1> QED BY <1>2 DEF T

\* Sums of equal numbers are equal.
LEMMA SumSame ==
  ASSUME NEW S, IsFiniteSet(S), NEW f, NEW g, \A x \in S : f[x] = g[x]
  PROVE  SumFunctionOnSet(f, S) = SumFunctionOnSet(g, S)
<1>1. PICK h : Sums(h, S, f) /\ SumFunctionOnSet(f, S) = h[S]
  BY SumsExist, SumIsLast
<1>2. PICK k : Sums(k, S, g) /\ SumFunctionOnSet(g, S) = k[S]
  BY SumsExist, SumIsLast
<1>3. h[S] = k[S]
  BY <1>1, <1>2, SumsAgree
<1> QED BY <1>1, <1>2, <1>3

\* The sum does not depend on the order of the fold: any element may be taken
\* out first.
LEMMA SumsTake ==
  ASSUME NEW S, IsFiniteSet(S), NEW f, \A x \in S : f[x] \in Nat, NEW g, Sums(g, S, f)
  PROVE  \A s \in SUBSET S : g[s] \in Nat /\ \A y \in s : g[s] = f[y] + g[s \ {y}]
<1> DEFINE T == {s \in SUBSET S : g[s] \in Nat /\ \A y \in s : g[s] = f[y] + g[s \ {y}]}
<1>1. ASSUME NEW s \in SUBSET S, \A u \in SUBSET s : u # s => u \in T
      PROVE  s \in T
  <2>1. CASE s = {}
    BY <2>1, SumsEntry
  <2>2. CASE s # {}
    <3> DEFINE x == One(s)
    <3>1. x \in s /\ g[s] = f[x] + g[s \ {x}]
      <4>1. /\ s = {} => g[s] = 0
            /\ s # {} => g[s] = f[One(s)] + g[s \ {One(s)}]
        <5> HIDE DEF T
        <5> QED BY SumsEntry
      <4> QED BY <2>2, <4>1, OneOf
    <3> HIDE DEF x
    <3>2. s \ {x} \in T /\ f[x] \in Nat
      BY <1>1, <3>1
    <3>3. g[s] \in Nat
      BY <3>1, <3>2
    <3>4. ASSUME NEW y \in s, y # x PROVE g[s] = f[y] + g[s \ {y}]
      <4>1. s \ {y} \in T /\ f[y] \in Nat
        BY <1>1
      <4>2. g[s \ {x}] = f[y] + g[(s \ {x}) \ {y}]
        BY <3>1, <3>2, <3>4
      <4>3. g[s \ {y}] = f[x] + g[(s \ {y}) \ {x}]
        BY <3>1, <3>4, <4>1
      <4>4. (s \ {x}) \ {y} = (s \ {y}) \ {x}
        OBVIOUS
      <4>5. (s \ {x}) \ {y} \in T
        BY <1>1, <3>1
      <4>6. g[(s \ {x}) \ {y}] \in Nat
        BY <4>5
      <4> DEFINE c == g[(s \ {x}) \ {y}]
      <4>7. g[s] = f[x] + (f[y] + c) /\ g[s \ {y}] = f[x] + c
        BY <3>1, <4>2, <4>3, <4>4
      <4>8. f[x] + (f[y] + c) = f[y] + (f[x] + c)
        <5> HIDE DEF c, T
        <5>1. c \in Nat
          BY <4>6 DEF c
        <5> QED BY <3>2, <4>1, <5>1
      <4> QED BY <4>7, <4>8
    <3> QED BY <3>1, <3>3, <3>4
  <2> QED BY <2>1, <2>2
<1> HIDE DEF T
<1>2. \A s \in SUBSET S : s \in T
  BY <1>1, SubsetInduction
<1> QED BY <1>2 DEF T

\* The sum of nothing, and of a set with one element more.
LEMMA SumEmpty ==
  ASSUME NEW f
  PROVE  SumFunctionOnSet(f, {}) = 0
<1>1. IsFiniteSet({})
  BY FS_EmptySet
<1>2. PICK g : Sums(g, {}, f) /\ SumFunctionOnSet(f, {}) = g[{}]
  <2>1. \E g : Sums(g, {}, f)
    BY <1>1, SumsExist
  <2> QED BY <2>1, SumIsLast
<1>3. g[{}] = 0
  BY <1>2, SumsEntry
<1> QED BY <1>2, <1>3

LEMMA SumTake ==
  ASSUME NEW S, IsFiniteSet(S), NEW f, \A x \in S : f[x] \in Nat
  PROVE  /\ SumFunctionOnSet(f, S) \in Nat
         /\ \A y \in S : SumFunctionOnSet(f, S) = f[y] + SumFunctionOnSet(f, S \ {y})
<1>1. PICK g : Sums(g, S, f) /\ SumFunctionOnSet(f, S) = g[S]
  <2>1. \E g : Sums(g, S, f)
    BY SumsExist
  <2> QED BY <2>1, SumIsLast
<1>2. g[S] \in Nat /\ \A y \in S : g[S] = f[y] + g[S \ {y}]
  BY <1>1, SumsTake
<1>3. ASSUME NEW y \in S
      PROVE  SumFunctionOnSet(f, S \ {y}) = g[S \ {y}]
  <2> DEFINE R == S \ {y}
  <2>1. IsFiniteSet(R) /\ R \subseteq S
    BY FS_Subset
  <2> HIDE DEF R
  <2>2. PICK h : Sums(h, R, f) /\ SumFunctionOnSet(f, R) = h[R]
    BY <2>1, SumsExist, SumIsLast
  <2>3. h[R] = g[R]
    BY <1>1, <2>1, <2>2, SumsAgree
  <2> QED BY <2>2, <2>3 DEF R
<1> QED BY <1>1, <1>2, <1>3

\* What is taken out of a set and what stays add up.
LEMMA SumParts ==
  ASSUME NEW S, IsFiniteSet(S), NEW f, \A x \in S : f[x] \in Nat, NEW A, A \subseteq S
  PROVE  /\ SumFunctionOnSet(f, A) \in Nat /\ SumFunctionOnSet(f, S \ A) \in Nat
         /\ SumFunctionOnSet(f, S) = SumFunctionOnSet(f, A) + SumFunctionOnSet(f, S \ A)
<1> DEFINE sum(s) == SumFunctionOnSet(f, s)
           T == {s \in SUBSET S : sum(S) = sum(s) + sum(S \ s)}
<1>1. \A s \in SUBSET S : /\ IsFiniteSet(s) /\ IsFiniteSet(S \ s)
                          /\ \A x \in s : f[x] \in Nat
                          /\ \A x \in S \ s : f[x] \in Nat
  BY FS_Subset
<1>2. \A s \in SUBSET S : /\ sum(s) \in Nat /\ \A y \in s : sum(s) = f[y] + sum(s \ {y})
                          /\ sum(S \ s) \in Nat
  <2> SUFFICES ASSUME NEW s \in SUBSET S
               PROVE  /\ sum(s) \in Nat /\ \A y \in s : sum(s) = f[y] + sum(s \ {y})
                      /\ sum(S \ s) \in Nat
    OBVIOUS
  <2>1. sum(s) \in Nat /\ \A y \in s : sum(s) = f[y] + sum(s \ {y})
    BY <1>1, SumTake
  <2>2. sum(S \ s) \in Nat
    BY <1>1, SumTake
  <2> QED BY <2>1, <2>2
<1> HIDE DEF sum
<1>3. ASSUME NEW s \in SUBSET S, \A u \in SUBSET s : u # s => u \in T
      PROVE  s \in T
  <2>1. CASE s = {}
    <3>1. sum({}) = 0 /\ S \ {} = S /\ sum(S) \in Nat
      BY <1>2, SumEmpty DEF sum
    <3> QED BY <2>1, <3>1
  <2>2. CASE s # {}
    <3>1. PICK y : y \in s
      BY <2>2
    <3> DEFINE u == s \ {y}
               v == S \ u
    <3>2. u \in T /\ u \in SUBSET S /\ v \in SUBSET S /\ y \in v /\ v \ {y} = S \ s /\ f[y] \in Nat
      BY <1>3, <3>1, <1>1
    <3>3. sum(s) = f[y] + sum(u) /\ sum(v) = f[y] + sum(v \ {y})
      BY <1>2, <3>1, <3>2
    <3>4. sum(S) = sum(u) + sum(v)
      BY <3>2
    <3>5. sum(u) \in Nat /\ sum(S \ s) \in Nat
      BY <1>2, <3>2
    <3>6. sum(S) = sum(s) + sum(S \ s)
      <4> DEFINE c == sum(S \ s)
                 d == sum(u)
      <4>1. sum(S) = d + (f[y] + c) /\ sum(s) = f[y] + d
        BY <3>2, <3>3, <3>4
      <4>2. d + (f[y] + c) = (f[y] + d) + c
        <5> HIDE DEF c, d, T
        <5>1. c \in Nat /\ d \in Nat
          BY <3>5 DEF c, d
        <5> QED BY <3>2, <5>1
      <4> QED BY <4>1, <4>2
    <3> QED BY <3>6
  <2> QED BY <2>1, <2>2
<1> HIDE DEF T
<1>4. A \in T
  <2>1. \A s \in SUBSET S : s \in T
    BY <1>3, SubsetInduction
  <2> QED BY <2>1
<1> QED BY <1>2, <1>4 DEF T, sum

-----------------------------------------------------------------------------
(* What the overlay holds *)

\* The inductive part of the accounts: the overlay is finite and what the limits
\* are checked against are its true size and its true number of entries.
Counted ==
  /\ IsFiniteSet(DOMAIN files) /\ IsFiniteSet(dirs)
  /\ \A p \in DOMAIN files : files[p] \in Nat
  /\ Cardinality(DOMAIN files) + Cardinality(dirs) <= MaxEntries
  /\ used = SumFunctionOnSet(files, DOMAIN files) /\ used <= MaxBytes
  /\ mtime = Overlay

LEMMA CountedIsAccounted ==
  ASSUME Counted
  PROVE  Accounted
<1>1. /\ IsFiniteSet(DOMAIN files) /\ IsFiniteSet(dirs)
      /\ Cardinality(DOMAIN files) + Cardinality(dirs) <= MaxEntries
  BY DEF Counted
<1>2. Cardinality(Overlay)
        = Cardinality(DOMAIN files) + Cardinality(dirs) - Cardinality(DOMAIN files \cap dirs)
  BY <1>1, FS_Union DEF Overlay
<1>3. /\ Cardinality(DOMAIN files) \in Nat /\ Cardinality(dirs) \in Nat
      /\ Cardinality(DOMAIN files \cap dirs) \in Nat
  BY <1>1, FS_CardinalityType, FS_Intersection
<1>4. Cardinality(Overlay) <= MaxEntries
  BY <1>1, <1>2, <1>3, VfsAssumption
<1> QED BY <1>4 DEF Counted, Accounted, SumFunction

\* The bytes of the other files.
LEMMA OtherBytes ==
  ASSUME Counted, NEW p
  PROVE  /\ SumFunctionOnSet(files, DOMAIN files \ {p}) \in Nat /\ used \in Nat /\ OldSize(p) \in Nat
         /\ used - OldSize(p) = SumFunctionOnSet(files, DOMAIN files \ {p})
<1> DEFINE D == DOMAIN files
           rest == SumFunctionOnSet(files, D \ {p})
<1>1. /\ IsFiniteSet(D) /\ \A x \in D : files[x] \in Nat
      /\ IsFiniteSet(D \ {p}) /\ \A x \in D \ {p} : files[x] \in Nat
  BY FS_RemoveElement DEF Counted
<1>2. rest \in Nat
  BY <1>1, SumTake
<1>3. used = SumFunctionOnSet(files, D) /\ used \in Nat
  BY <1>1, SumTake DEF Counted
<1>4. CASE p \in D
  <2>1. used = files[p] + rest
    BY <1>1, <1>3, <1>4, SumTake
  <2>2. OldSize(p) = files[p] /\ files[p] \in Nat
    BY <1>1, <1>4 DEF OldSize
  <2> HIDE DEF rest
  <2>3. used - OldSize(p) = rest
    BY <1>2, <2>1, <2>2
  <2> QED BY <1>2, <1>3, <2>2, <2>3 DEF rest
<1>5. CASE p \notin D
  <2>1. D \ {p} = D /\ OldSize(p) = 0
    BY <1>5 DEF OldSize
  <2> QED BY <1>3, <2>1
<1> QED BY <1>4, <1>5

LEMMA CountedWriteFile ==
  ASSUME Counted, NEW p \in Paths, NEW n \in Nat, WriteFile(p, n)
  PROVE  Counted'
<1> DEFINE D == DOMAIN files
           E == D \cup {p}
           rest == SumFunctionOnSet(files, D \ {p})
<1>1. /\ DOMAIN files' = E /\ dirs' = dirs /\ mtime' = mtime \cup {p}
      /\ used' = used - OldSize(p) + n /\ used' <= MaxBytes
      /\ files'[p] = n /\ \A q \in D \ {p} : files'[q] = files[q]
  BY DEF WriteFile
<1>2. /\ IsFiniteSet(D) /\ \A x \in D : files[x] \in Nat
      /\ IsFiniteSet(E) /\ IsFiniteSet(D \ {p})
      /\ Cardinality(E) = (IF p \in D THEN Cardinality(D) ELSE Cardinality(D) + 1)
      /\ Cardinality(D) \in Nat /\ Cardinality(dirs) \in Nat /\ IsFiniteSet(dirs)
      /\ Cardinality(D) + Cardinality(dirs) <= MaxEntries
  BY FS_AddElement, FS_RemoveElement, FS_CardinalityType DEF Counted
<1>3. \A x \in E : files'[x] \in Nat
  BY <1>1, <1>2
<1>4. SumFunctionOnSet(files', E) = n + rest
  <2>1. SumFunctionOnSet(files', E) = n + SumFunctionOnSet(files', E \ {p})
    <3>1. \A y \in E : SumFunctionOnSet(files', E) = files'[y] + SumFunctionOnSet(files', E \ {y})
      <4> HIDE DEF E
      <4> QED BY <1>2, <1>3, SumTake
    <3> QED BY <1>1, <3>1
  <2>2. E \ {p} = D \ {p}
    OBVIOUS
  <2>3. SumFunctionOnSet(files', D \ {p}) = rest
    BY <1>1, <1>2, SumSame
  <2> QED BY <2>1, <2>2, <2>3
<1>5. used' = SumFunctionOnSet(files', E)
  <2>1. used - OldSize(p) = rest /\ rest \in Nat
    BY OtherBytes
  <2> HIDE DEF rest
  <2> QED BY <1>1, <1>4, <2>1
<1>6. Cardinality(E) + Cardinality(dirs) <= MaxEntries
  <2>1. p \notin D => Cardinality(D) + Cardinality(dirs) < MaxEntries
    BY DEF WriteFile, MayCreate
  <2> HIDE DEF D, E
  <2> QED BY <1>2, <2>1, VfsAssumption
<1>7. mtime' = Overlay'
  BY <1>1 DEF Counted, Overlay
<1> HIDE DEF E
<1> QED BY <1>1, <1>2, <1>3, <1>5, <1>6, <1>7 DEF Counted

\* New directories for which there is room.
LEMMA CountedNewDirs ==
  ASSUME Counted, NEW D, IsFiniteSet(D),
         Cardinality(DOMAIN files) + Cardinality(dirs) + Cardinality(D) <= MaxEntries,
         dirs' = dirs \cup D, mtime' = mtime \cup D, UNCHANGED <<files, used>>
  PROVE  Counted'
<1>1. /\ IsFiniteSet(DOMAIN files) /\ IsFiniteSet(dirs)
      /\ Cardinality(DOMAIN files) \in Nat /\ Cardinality(dirs) \in Nat /\ Cardinality(D) \in Nat
  BY FS_CardinalityType DEF Counted
<1>2. /\ IsFiniteSet(dirs') /\ Cardinality(dirs') = Cardinality(dirs) + Cardinality(D) - Cardinality(dirs \cap D)
      /\ Cardinality(dirs \cap D) \in Nat
  BY <1>1, FS_Union, FS_Intersection, FS_CardinalityType
<1>3. Cardinality(DOMAIN files) + Cardinality(dirs') <= MaxEntries
  BY <1>1, <1>2, VfsAssumption
<1>4. mtime' = Overlay'
  BY DEF Counted, Overlay
<1> QED BY <1>1, <1>2, <1>3, <1>4 DEF Counted

LEMMA CountedMkdir ==
  ASSUME Counted, NEW p \in Paths, Mkdir(p)
  PROVE  Counted'
<1> DEFINE D == {p}
<1>1. IsFiniteSet(D) /\ Cardinality(D) = 1
  BY FS_Singleton
<1>2. dirs' = dirs \cup D /\ mtime' = mtime \cup D /\ UNCHANGED <<files, used>>
  BY DEF Mkdir
<1>3. Cardinality(DOMAIN files) + Cardinality(dirs) < MaxEntries
  BY DEF Mkdir, MayCreate
<1>4. Cardinality(DOMAIN files) \in Nat /\ Cardinality(dirs) \in Nat
  BY FS_CardinalityType DEF Counted
<1> HIDE DEF D
<1>5. Cardinality(DOMAIN files) + Cardinality(dirs) + Cardinality(D) <= MaxEntries
  BY <1>1, <1>3, <1>4, VfsAssumption
<1> QED BY <1>1, <1>2, <1>5, CountedNewDirs

\* What lies above a path is told apart by its length, so there are finitely many.
LEMMA AboveFinite ==
  ASSUME NEW p \in Seq(STRING), NEW A, A \subseteq {q \in Seq(STRING) : Under(p, q)}
  PROVE  IsFiniteSet(A)
<1> DEFINE f == [q \in A |-> Len(q)]
           T == 0..Len(p)
<1>1. \A q \in A : q \in Seq(STRING) /\ Len(q) \in Nat /\ Len(q) <= Len(p)
                   /\ \A i \in 1..Len(q) : p[i] = q[i]
  BY DEF Under
<1>2. f \in [A -> T]
  BY <1>1
<1>3. \A q, r \in A : f[q] = f[r] => q = r
  <2> SUFFICES ASSUME NEW q \in A, NEW r \in A, Len(q) = Len(r) PROVE q = r
    OBVIOUS
  <2>1. \A i \in 1..Len(q) : q[i] = r[i]
    BY <1>1
  <2> QED BY <1>1, <2>1
<1>4. f \in Injection(A, T)
  BY <1>2, <1>3 DEF Injection, IsInjective
<1>5. IsFiniteSet(T)
  BY FS_Interval
<1> HIDE DEF f, T
<1> QED BY <1>4, <1>5, FS_Injection

\* Of two paths above one, the shorter is above the longer.
LEMMA AboveChain ==
  ASSUME NEW p \in Seq(STRING), NEW q \in Seq(STRING), NEW r \in Seq(STRING),
         Under(p, q), Under(p, r), Len(r) <= Len(q)
  PROVE  Under(q, r)
BY DEF Under

\* mkdir -p counts right: the limit for the last directory it makes, checked with
\* those above it, is the limit for all of them.
LEMMA CountedMkdirParents ==
  ASSUME Inv, Counted, NEW p \in Paths, MkdirParents(p)
  PROVE  Counted'
<1> DEFINE missing == Missing(p)
           made == {q \in missing :
                      \A r \in missing : Under(q, r) =>
                        /\ r # Root /\ ~IsFile(r) /\ writable(Dir(r)) /\ ~private(Dir(r))
                        /\ Room(r, missing)}
<1>1. made # {} /\ dirs' = dirs \cup made /\ mtime' = mtime \cup made /\ UNCHANGED <<files, used>>
  BY DEF MkdirParents
<1>2. p \in Seq(STRING) /\ Len(p) \in Nat
      /\ \A q \in missing : q \in Seq(STRING) /\ Under(p, q) /\ Len(q) \in Nat /\ Len(q) <= Len(p)
  BY FixedAbove DEF Missing, Under
<1>3. \A q \in made : q \in missing /\ Room(q, missing)
  BY <1>2, UnderOrder
<1> HIDE DEF made, missing
<1>4. PICK m \in made : \A q \in made : Len(q) <= Len(m)
  <2> DEFINE T == {k \in Nat : \E q \in made : k = Len(p) - Len(q)}
  <2>1. \A q \in made : Len(p) - Len(q) \in T
    BY <1>2, <1>3
  <2>2. T \subseteq Nat /\ T # {}
    BY <1>1, <2>1
  <2>3. PICK k \in T : \A j \in T : k <= j
    <3> HIDE DEF T
    <3> QED BY <2>2, LeastNatural
  <2>4. PICK m \in made : k = Len(p) - Len(m)
    BY <2>3
  <2>5. ASSUME NEW q \in made PROVE Len(q) <= Len(m)
    <3>1. k <= Len(p) - Len(q)
      BY <2>1, <2>3
    <3>2. Len(p) \in Nat /\ Len(q) \in Nat /\ Len(m) \in Nat
      BY <1>2, <1>3
    <3> HIDE DEF T
    <3> QED BY <2>4, <3>1, <3>2
  <2> QED BY <2>5
<1> DEFINE above == {r \in missing : Under(m, r) /\ r # m}
<1>5. made \subseteq above \cup {m}
  BY <1>2, <1>3, <1>4, AboveChain
<1>6. IsFiniteSet(above) /\ IsFiniteSet(made)
  <2>1. above \subseteq {q \in Seq(STRING) : Under(p, q)} /\ made \subseteq {q \in Seq(STRING) : Under(p, q)}
    BY <1>2, <1>3
  <2> HIDE DEF above
  <2> QED BY <1>2, <2>1, AboveFinite
<1>7. Cardinality(DOMAIN files) + Cardinality(dirs) + Cardinality(above) < MaxEntries
  BY <1>3, <1>4 DEF Room
<1> HIDE DEF above
<1>8. Cardinality(made) <= Cardinality(above) + 1
  <2>1. /\ IsFiniteSet(above \cup {m}) /\ Cardinality(above) \in Nat
        /\ Cardinality(above \cup {m}) = (IF m \in above THEN Cardinality(above) ELSE Cardinality(above) + 1)
    BY <1>6, FS_AddElement, FS_CardinalityType
  <2>2. Cardinality(made) <= Cardinality(above \cup {m})
    BY <1>5, <2>1, FS_Subset
  <2>3. Cardinality(made) \in Nat
    BY <1>6, FS_CardinalityType
  <2> QED BY <2>1, <2>2, <2>3
<1>9. /\ Cardinality(DOMAIN files) \in Nat /\ Cardinality(dirs) \in Nat
      /\ Cardinality(above) \in Nat /\ Cardinality(made) \in Nat
  BY <1>6, FS_CardinalityType DEF Counted
<1>10. Cardinality(DOMAIN files) + Cardinality(dirs) + Cardinality(made) <= MaxEntries
  BY <1>7, <1>8, <1>9, VfsAssumption
<1> QED BY <1>1, <1>6, <1>10, CountedNewDirs

\* A removal gives back what the files it removes had.
LEMMA CountedDelete ==
  ASSUME Counted, NEW gone, Delete(gone),
         used' = used - SumFunctionOnSet(files, gone \cap DOMAIN files)
  PROVE  Counted'
<1> DEFINE D == DOMAIN files
           A == gone \cap D
           R == D \ gone
<1>1. /\ DOMAIN files' = R /\ (\A q \in R : files'[q] = files[q])
      /\ dirs' = dirs \ gone /\ mtime' = mtime \ gone
  BY DEF Delete, Restrict
<1>2. IsFiniteSet(D) /\ IsFiniteSet(dirs) /\ \A x \in D : files[x] \in Nat
  BY DEF Counted
<1>3. IsFiniteSet(R) /\ IsFiniteSet(dirs') /\ Cardinality(R) <= Cardinality(D)
      /\ Cardinality(dirs') <= Cardinality(dirs)
  <2>1. R \in SUBSET D /\ dirs' \in SUBSET dirs
    BY <1>1
  <2> HIDE DEF D, R
  <2> QED BY <1>2, <2>1, FS_Subset
<1>4. /\ Cardinality(D) \in Nat /\ Cardinality(dirs) \in Nat
      /\ Cardinality(R) \in Nat /\ Cardinality(dirs') \in Nat
  BY <1>2, <1>3, FS_CardinalityType
<1>5. Cardinality(R) + Cardinality(dirs') <= MaxEntries
  <2>1. Cardinality(D) + Cardinality(dirs) <= MaxEntries
    BY DEF Counted
  <2> HIDE DEF D, R
  <2> QED BY <1>3, <1>4, <2>1, VfsAssumption
<1>6. used' = SumFunctionOnSet(files', R) /\ used' <= MaxBytes
  <2>1. A \subseteq D /\ D \ A = R
    OBVIOUS
  <2>2. /\ SumFunctionOnSet(files, A) \in Nat /\ SumFunctionOnSet(files, D \ A) \in Nat
        /\ SumFunctionOnSet(files, D) = SumFunctionOnSet(files, A) + SumFunctionOnSet(files, D \ A)
    <3> HIDE DEF A, D
    <3> QED BY <1>2, <2>1, SumParts
  <2>3. SumFunctionOnSet(files', R) = SumFunctionOnSet(files, R)
    <3> HIDE DEF R
    <3> QED BY <1>1, <1>3, SumSame
  <2> DEFINE a == SumFunctionOnSet(files, A)
             b == SumFunctionOnSet(files, R)
  <2>4. a \in Nat /\ b \in Nat /\ used = a + b /\ used' = used - a /\ used <= MaxBytes
    BY <2>1, <2>2 DEF Counted
  <2> HIDE DEF a, b
  <2>5. used' = b /\ used' <= MaxBytes
    BY <2>4, VfsAssumption
  <2> QED BY <2>3, <2>5 DEF b
<1>7. mtime' = Overlay'
  BY <1>1 DEF Counted, Overlay
<1>8. \A q \in R : files'[q] \in Nat
  BY <1>1, <1>2
<1> HIDE DEF R
<1> QED BY <1>1, <1>3, <1>5, <1>6, <1>7, <1>8 DEF Counted

LEMMA CountedRemove ==
  ASSUME Counted, NEW p \in Paths, NEW recursive, RemovePath(p, recursive)
  PROVE  Counted'
<1>1. CASE RemoveFile(p)
  <2> DEFINE S == {p}
  <2>1. p \in DOMAIN files /\ S \cap DOMAIN files = S /\ Delete(S) /\ used' = used - files[p]
    BY <1>1 DEF RemoveFile
  <2>2. IsFiniteSet(S) /\ (\A x \in S : files[x] \in Nat) /\ p \in S
    BY <2>1, FS_Singleton DEF Counted
  <2>3. S \ {p} = {} /\ files[p] \in Nat
    BY <2>2
  <2> HIDE DEF S
  <2>4. SumFunctionOnSet(files, S) = files[p] + SumFunctionOnSet(files, S \ {p})
    BY <2>2, SumTake
  <2>5. SumFunctionOnSet(files, S) = files[p]
    BY <2>3, <2>4, SumEmpty
  <2> QED BY <2>1, <2>5, CountedDelete
<1>2. CASE RemoveTree(p, recursive)
  BY <1>2, CountedDelete DEF RemoveTree
<1> QED BY <1>1, <1>2 DEF RemovePath

LEMMA NothingCounted ==
  /\ IsFiniteSet({}) /\ Cardinality({}) = 0 /\ Cardinality({}) + Cardinality({}) <= MaxEntries
  /\ 0 <= MaxBytes /\ \A f : 0 = SumFunctionOnSet(f, {})
<1>1. IsFiniteSet({}) /\ Cardinality({}) = 0 /\ MaxEntries \in Nat /\ MaxBytes \in Nat
  BY FS_EmptySet, VfsAssumption
<1>2. \A f : 0 = SumFunctionOnSet(f, {})
  BY SumEmpty
<1>3. Cardinality({}) + Cardinality({}) <= MaxEntries /\ 0 <= MaxBytes
  BY <1>1
<1> QED BY <1>1, <1>2, <1>3

LEMMA CountedInit ==
  ASSUME Init
  PROVE  Counted
<1>1. DOMAIN files = {} /\ dirs = {} /\ mtime = {} /\ used = 0
  BY DEF Init
<1> QED BY <1>1, NothingCounted DEF Counted, Overlay

LEMMA CountedReset ==
  ASSUME Reset
  PROVE  Counted'
<1>1. DOMAIN files' = {} /\ dirs' = {} /\ mtime' = {} /\ used' = 0
  BY DEF Reset
<1> QED BY <1>1, NothingCounted DEF Counted, Overlay

LEMMA CountedNext ==
  ASSUME Inv, Counted, [Next]_vars
  PROVE  Counted'
<1>1. ASSUME NEW p \in Paths, NEW n \in Sizes, WriteFile(p, n) PROVE Counted'
  <2>1. n \in Nat
    BY VfsAssumption
  <2> QED BY <1>1, <2>1, CountedWriteFile
<1>2. ASSUME NEW p \in Paths, Touch(p) PROVE Counted'
  <2>1. 0 \in Nat /\ WriteFile(p, 0)
    BY <1>2 DEF Touch
  <2> QED BY <2>1, CountedWriteFile
<1>3. ASSUME NEW p \in Paths, Mkdir(p) PROVE Counted'
  BY <1>3, CountedMkdir
<1>4. ASSUME NEW p \in Paths, MkdirParents(p) PROVE Counted'
  BY <1>4, CountedMkdirParents
<1>5. ASSUME NEW p \in Paths, Rm(p, TRUE) \/ Rm(p, FALSE) \/ Rmdir(p) PROVE Counted'
  BY <1>5, CountedRemove DEF Rm, Rmdir
<1>6. CASE Reset
  BY <1>6, CountedReset
<1>7. CASE UNCHANGED vars
  BY <1>7 DEF vars, Counted, Overlay
<1> QED BY <1>1, <1>2, <1>3, <1>4, <1>5, <1>6, <1>7 DEF Next

\* The accounts are exact, for every configuration and sequence of operations:
\* the bytes counted are those of the files there are, the limits hold, and times
\* are kept of the overlay's entries only (used, checkCreate, mtime).
THEOREM VfsAccounted == Spec => []Accounted
<1>1. Init => Inv /\ Counted
  BY InvInit, CountedInit
<1>2. Inv /\ Counted /\ [Next]_vars => Inv' /\ Counted'
  BY InvNext, CountedNext
<1>3. Counted => Accounted
  BY CountedIsAccounted
<1> QED BY <1>1, <1>2, <1>3, PTL DEF Spec

-----------------------------------------------------------------------------
(* Simulated session *)

ShellStates == [dirty : BOOLEAN, failed : BOOLEAN, changed : BOOLEAN, history : BOOLEAN]

\* The inductive invariant: a timed command, whose interruption sets the status,
\* runs only in a shell that counts as used.
FakeInv ==
  /\ sh \in ShellStates /\ blank \in BOOLEAN
  /\ CleanUnlessDirty
  /\ pc = "timed" => sh.dirty

\* A record of the shell's state is fresh when all its parts are.
LEMMA FreshParts ==
  ASSUME NEW s \in ShellStates
  PROVE  s = Fresh <=> ~s.dirty /\ ~s.failed /\ ~s.changed /\ ~s.history
BY DEF ShellStates, Fresh

LEMMA FakeInvInit == FakeInit => FakeInv
BY DEF FakeInit, FakeInv, ShellStates, Fresh, CleanUnlessDirty

\* Back to the prompt in a state that is used or fresh.
LEMMA FakeInvLoop ==
  ASSUME NEW s \in ShellStates, Loop(s), s.dirty \/ s = Fresh
  PROVE  FakeInv'
BY DEF Loop, FakeInv, CleanUnlessDirty

\* A wait, for a timed command in a used state only.
LEMMA FakeInvWait ==
  ASSUME NEW s \in ShellStates, NEW where, NEW n, Wait(where, n, s),
         s.dirty \/ (s = Fresh /\ where # "timed")
  PROVE  FakeInv'
BY DEF Wait, FakeInv, CleanUnlessDirty

\* The shell's state is left alone, and no timed command begins.
LEMMA FakeInvKept ==
  ASSUME FakeInv, sh' = sh, blank' \in BOOLEAN, pc' = "timed" => pc = "timed"
  PROVE  FakeInv'
BY DEF FakeInv, CleanUnlessDirty

\* The states that lines and interrupts leave, from one that is used or fresh.
LEMMA EnteredUsed ==
  ASSUME FakeInv
  PROVE  /\ sh \in ShellStates /\ (sh.dirty \/ sh = Fresh)
         /\ Entered \in ShellStates /\ Entered.dirty
         /\ Interrupted \in ShellStates /\ Interrupted.dirty
         /\ Fresh \in ShellStates
BY DEF FakeInv, CleanUnlessDirty, ShellStates, Entered, Interrupted, Fresh

\* A status is set in a used state, or it is that of success.
LEMMA StatusSet ==
  ASSUME FakeInv, NEW f \in BOOLEAN, f => sh.dirty
  PROVE  LET s == [sh EXCEPT !.failed = f]
         IN  s \in ShellStates /\ (s.dirty \/ s = Fresh)
<1> DEFINE s == [sh EXCEPT !.failed = f]
<1>1. s \in ShellStates
  BY DEF FakeInv, ShellStates
<1>2. CASE sh.dirty
  BY <1>1, <1>2 DEF FakeInv, ShellStates
<1>3. CASE ~sh.dirty
  <2>1. sh = Fresh /\ f = FALSE
    BY <1>3 DEF FakeInv, CleanUnlessDirty
  <2>2. ~s.dirty /\ ~s.failed /\ ~s.changed /\ ~s.history
    BY <2>1 DEF Fresh
  <2>3. s = Fresh
    BY <1>1, <2>2, FreshParts
  <2> QED BY <1>1, <2>3
<1> QED BY <1>1, <1>2, <1>3

LEMMA FakeInvLine ==
  ASSUME FakeInv, NoCommand \/ RunPlain \/ RunTimed \/ RunTop \/ RunExit
  PROVE  FakeInv'
<1>1. CASE NoCommand
  BY <1>1, EnteredUsed, FakeInvLoop DEF NoCommand
<1>2. CASE RunPlain
  <2>1. PICK f, c, h \in BOOLEAN :
          Loop([Entered EXCEPT !.failed = f, !.changed = sh.changed \/ c, !.history = h])
    BY <1>2 DEF RunPlain
  <2> DEFINE s == [Entered EXCEPT !.failed = f, !.changed = sh.changed \/ c, !.history = h]
  <2>2. s \in ShellStates /\ s.dirty
    <3>1. (sh.changed \/ c) \in BOOLEAN
      OBVIOUS
    <3>2. ASSUME NEW e \in ShellStates, e.dirty, NEW d \in BOOLEAN
          PROVE  LET t == [e EXCEPT !.failed = f, !.changed = d, !.history = h]
                 IN  t \in ShellStates /\ t.dirty
      BY <3>2, <2>1 DEF ShellStates
    <3> QED BY <3>1, <3>2, EnteredUsed
  <2> HIDE DEF s
  <2> QED BY <2>1, <2>2, FakeInvLoop DEF s
<1>3. CASE RunTimed
  BY <1>3, EnteredUsed, FakeInvWait DEF RunTimed
<1>4. CASE RunTop
  BY <1>4, EnteredUsed, FakeInvWait DEF RunTop
<1>5. CASE RunExit
  BY <1>5, EnteredUsed, FakeInvWait DEF RunExit, ResetShell
<1> QED BY <1>1, <1>2, <1>3, <1>4, <1>5

LEMMA FakeInvRead ==
  ASSUME FakeInv, ReadEdit \/ ReadEof \/ ReadInterrupt \/ ReadIdle \/ AgentAnswer
  PROVE  FakeInv'
<1>1. CASE ReadEdit
  <2>1. sh' = sh /\ pc' = pc /\ blank' \in BOOLEAN
    BY <1>1 DEF ReadEdit, FakeInv
  <2> QED BY <2>1, FakeInvKept
<1>2. CASE ReadEof
  BY <1>2, EnteredUsed, FakeInvLoop, FakeInvWait DEF ReadEof, ResetShell
<1>3. CASE ReadInterrupt
  BY <1>3, EnteredUsed, FakeInvLoop, FakeInvWait DEF ReadInterrupt
<1>4. CASE ReadIdle
  BY <1>4, EnteredUsed, FakeInvLoop DEF ReadIdle, ResetShell
<1>5. CASE AgentAnswer
  BY <1>5, EnteredUsed, FakeInvLoop, FakeInvWait DEF AgentAnswer
<1> QED BY <1>1, <1>2, <1>3, <1>4, <1>5

LEMMA FakeInvWaiting ==
  ASSUME FakeInv, SleepOver \/ SleepInterrupt \/ KeyIgnored \/ TopRefresh \/ TopIdle \/ TopQuit
  PROVE  FakeInv'
<1>1. CASE SleepOver /\ left > 1
  BY <1>1, FakeInvKept DEF SleepOver, readVars, FakeInv
<1>2. CASE SleepOver /\ ~(left > 1)
  BY <1>2, StatusSet, FakeInvLoop DEF SleepOver
<1>3. CASE SleepInterrupt
  <2>1. (pc = "timed") \in BOOLEAN /\ (pc = "timed" => sh.dirty)
    BY DEF FakeInv
  <2> QED BY <1>3, <2>1, StatusSet, FakeInvLoop DEF SleepInterrupt
<1>4. CASE KeyIgnored \/ TopRefresh
  BY <1>4, FakeInvKept DEF KeyIgnored, TopRefresh, readVars, FakeInv
<1>5. CASE TopIdle \/ TopQuit
  BY <1>5, StatusSet, FakeInvLoop DEF TopIdle, TopQuit
<1> QED BY <1>1, <1>2, <1>3, <1>4, <1>5

LEMMA FakeInvNext ==
  ASSUME FakeInv, [FakeNext]_fakeVars
  PROVE  FakeInv'
<1>1. ASSUME NEW ks \in Messages, Write(ks) PROVE FakeInv'
  BY <1>1, FakeInvKept DEF Write, readVars, FakeInv
<1>2. CASE Enqueue \/ Resize \/ Close
  BY <1>2, FakeInvKept DEF Enqueue, Resize, Close, readVars, FakeInv
<1>3. CASE CtxDone \/ Panic \/ Stop
  BY <1>3, FakeInvKept DEF CtxDone, Panic, Stop, readVars, FakeInv
<1>4. CASE Restart
  <2>1. sh' = Fresh /\ pc' # "timed" /\ blank' = TRUE
    BY <1>4 DEF Restart
  <2> QED BY <2>1, EnteredUsed DEF FakeInv, CleanUnlessDirty
<1>5. CASE UNCHANGED fakeVars
  BY <1>5, FakeInvKept DEF fakeVars, readVars, FakeInv
<1> QED BY <1>1, <1>2, <1>3, <1>4, <1>5, FakeInvLine, FakeInvRead, FakeInvWaiting
        DEF FakeNext, TakesKey, Supervises

\* For queues, messages, waits and panics of any number, a shell that does not
\* count as used is as after login, so the idle reset may skip it (shell.go
\* runShell, reset; session.go supervise).
THEOREM UnusedIsFresh == FakeSpec => []CleanUnlessDirty
<1>1. FakeInv => CleanUnlessDirty
  BY DEF FakeInv
<1> QED BY <1>1, FakeInvInit, FakeInvNext, PTL DEF FakeSpec

-----------------------------------------------------------------------------
(* Line editor *)

\* Max of a bounded set of naturals is its greatest element.
LEMMA MaxOfBounded ==
  ASSUME NEW n \in Nat, NEW T, T \subseteq 0..n, T # {}
  PROVE  Max(T) \in T /\ \A y \in T : y <= Max(T)
<1> DEFINE Below == {k \in Nat : \E x \in T : k = n - x}
<1>1. \A x \in T : x \in Nat /\ x <= n /\ n - x \in Nat /\ n - x \in Below
  OBVIOUS
<1>2. Below \subseteq Nat /\ Below # {}
  BY <1>1
<1> HIDE DEF Below
<1>3. PICK k \in Below : \A m \in Below : k <= m
  BY <1>2, LeastNatural
<1>4. PICK x \in T : k = n - x
  BY <1>3 DEF Below
<1>5. \A y \in T : x >= y
  BY <1>1, <1>3, <1>4
<1> QED BY <1>1, <1>4, <1>5 DEF Max

-----------------------------------------------------------------------------
(* Lines and cursors *)

Lines == {l \in Seq(Chars) : Len(l) <= MaxLen}

EditTypes ==
  /\ reading \in BOOLEAN /\ width \in Widths
  /\ line \in Lines /\ pos \in 0..Len(line)
  /\ history \in Seq(Lines) /\ histIdx \in 0..Len(history) /\ draft \in Lines

\* The redraw's row and column, without the detour over the end of the text.
Placed ==
  reading => /\ cursorRow = (PromptLen + pos) \div width
             /\ term = [row |-> cursorRow, col |-> (PromptLen + pos) % width]

EditInv == EditTypes /\ Placed

\* A line that is b followed by a, with the cursor between the two, is split there.
LEMMA SplitOf ==
  ASSUME NEW b \in Seq(Chars), NEW a \in Seq(Chars), NEW l, l = b \o a,
         NEW p, p = Len(b)
  PROVE  /\ l \in Seq(Chars) /\ Len(l) = Len(b) + Len(a) /\ p \in 0..Len(l)
         /\ SubSeq(l, 1, p) = b /\ SubSeq(l, p + 1, Len(l)) = a
<1>1. /\ l \in Seq(Chars) /\ Len(l) = Len(b) + Len(a) /\ Len(b) \in Nat /\ Len(a) \in Nat
      /\ \A i \in 1..Len(l) : l[i] = IF i <= Len(b) THEN b[i] ELSE a[i - Len(b)]
  BY ConcatProperties
<1>2. \A i \in 1..Len(l) : l[i] \in Chars
  BY <1>1, ElementOfSeq
<1>3. /\ SubSeq(l, 1, p) \in Seq(Chars) /\ Len(SubSeq(l, 1, p)) = p
      /\ \A i \in 1..p : SubSeq(l, 1, p)[i] = l[i]
  <2>1. \A i \in 1..p : l[i] \in Chars
    BY <1>1, <1>2
  <2> QED BY <2>1, <1>1, SubSeqProperties
<1>4. /\ SubSeq(l, p + 1, Len(l)) \in Seq(Chars) /\ Len(SubSeq(l, p + 1, Len(l))) = Len(a)
      /\ \A i \in 1..Len(a) : SubSeq(l, p + 1, Len(l))[i] = l[p + i]
  <2>1. \A i \in (p + 1)..Len(l) : l[i] \in Chars
    BY <1>1, <1>2
  <2>2. p + 1 \in Int /\ Len(l) \in Int
    BY <1>1
  <2>3. /\ SubSeq(l, p + 1, Len(l)) \in Seq(Chars)
        /\ Len(SubSeq(l, p + 1, Len(l))) = (IF p + 1 <= Len(l) THEN Len(l) - (p + 1) + 1 ELSE 0)
        /\ \A i \in 1..(Len(l) - (p + 1) + 1) : SubSeq(l, p + 1, Len(l))[i] = l[p + 1 + i - 1]
    BY <2>1, <2>2, SubSeqProperties
  <2> QED BY <2>3, <1>1
<1>5. SubSeq(l, 1, p) = b
  BY <1>1, <1>3, SeqEqual
<1>6. SubSeq(l, p + 1, Len(l)) = a
  <2>1. \A i \in 1..Len(a) : SubSeq(l, p + 1, Len(l))[i] = a[i]
    BY <1>1, <1>4
  <2> QED BY <1>4, <2>1, SeqEqual
<1> QED BY <1>1, <1>5, <1>6

\* The parts of a line: they are lines, they make it up, and their elements are its.
LEMMA PartsOf ==
  ASSUME NEW l \in Seq(Chars), NEW p \in 0..Len(l)
  PROVE  LET b == SubSeq(l, 1, p)
             a == SubSeq(l, p + 1, Len(l))
         IN  /\ b \in Seq(Chars) /\ Len(b) = p /\ \A i \in 1..p : b[i] = l[i]
             /\ a \in Seq(Chars) /\ Len(a) = Len(l) - p
             /\ \A i \in 1..(Len(l) - p) : a[i] = l[p + i]
             /\ b \o a = l
<1>1. Len(l) \in Nat /\ \A i \in 1..Len(l) : l[i] \in Chars
  BY ElementOfSeq
<1>2. /\ SubSeq(l, 1, p) \in Seq(Chars) /\ Len(SubSeq(l, 1, p)) = p
      /\ \A i \in 1..p : SubSeq(l, 1, p)[i] = l[i]
  <2>1. \A i \in 1..p : l[i] \in Chars
    BY <1>1
  <2> QED BY <2>1, <1>1, SubSeqProperties
<1>3. /\ SubSeq(l, p + 1, Len(l)) \in Seq(Chars) /\ Len(SubSeq(l, p + 1, Len(l))) = Len(l) - p
      /\ \A i \in 1..(Len(l) - p) : SubSeq(l, p + 1, Len(l))[i] = l[p + i]
  <2>1. \A i \in (p + 1)..Len(l) : l[i] \in Chars
    BY <1>1
  <2>2. p + 1 \in Int /\ Len(l) \in Int
    BY <1>1
  <2>3. /\ SubSeq(l, p + 1, Len(l)) \in Seq(Chars)
        /\ Len(SubSeq(l, p + 1, Len(l))) = (IF p + 1 <= Len(l) THEN Len(l) - (p + 1) + 1 ELSE 0)
        /\ \A i \in 1..(Len(l) - (p + 1) + 1) : SubSeq(l, p + 1, Len(l))[i] = l[p + 1 + i - 1]
    BY <2>1, <2>2, SubSeqProperties
  <2> QED BY <2>3, <1>1
<1>4. SubSeq(l, 1, p) \o SubSeq(l, p + 1, Len(l)) = SubSeq(l, 1, Len(l))
  <2>1. 1 \in 1..(Len(l) + 1) /\ p \in (1 - 1)..Len(l) /\ Len(l) \in p..Len(l)
    BY <1>1
  <2> QED BY <2>1, ConcatAdjacentSubSeq
<1>5. SubSeq(l, 1, Len(l)) = l
  BY SubSeqFull
<1> QED BY <1>2, <1>3, <1>4, <1>5

\* A shorter cut of what is before the cursor is a cut of the line.
LEMMA CutOf ==
  ASSUME NEW l \in Seq(Chars), NEW p \in 0..Len(l), NEW q \in 0..p
  PROVE  SubSeq(SubSeq(l, 1, p), 1, q) = SubSeq(l, 1, q)
<1> DEFINE b == SubSeq(l, 1, p)
<1>1. Len(l) \in Nat /\ p \in Nat /\ q \in Nat /\ q \in 0..Len(l)
  OBVIOUS
<1>2. b \in Seq(Chars) /\ Len(b) = p /\ \A i \in 1..p : b[i] = l[i]
  BY PartsOf
<1>3. /\ SubSeq(l, 1, q) \in Seq(Chars) /\ Len(SubSeq(l, 1, q)) = q
      /\ \A i \in 1..q : SubSeq(l, 1, q)[i] = l[i]
  BY <1>1, PartsOf
<1>4. /\ SubSeq(b, 1, q) \in Seq(Chars) /\ Len(SubSeq(b, 1, q)) = q
      /\ \A i \in 1..q : SubSeq(b, 1, q)[i] = b[i]
  <2>1. q \in 0..Len(b)
    BY <1>2
  <2> HIDE DEF b
  <2> QED BY <1>2, <2>1, PartsOf
<1>5. \A i \in 1..q : SubSeq(b, 1, q)[i] = SubSeq(l, 1, q)[i]
  BY <1>1, <1>2, <1>3, <1>4
<1> QED BY <1>3, <1>4, <1>5, SeqEqual

\* Insertion and removal at the cursor, by the parts that stay.
LEMMA CutAt ==
  ASSUME NEW l, NEW p \in Nat, NEW ch
  PROVE  /\ InsertAt(l, p + 1, ch) = SubSeq(l, 1, p) \o <<ch>> \o SubSeq(l, p + 1, Len(l))
         /\ RemoveAt(l, p + 1) = SubSeq(l, 1, p) \o SubSeq(l, p + 1 + 1, Len(l))
<1> DEFINE q == p + 1
           r == q - 1
<1>1. r = p
  OBVIOUS
<1>2. /\ InsertAt(l, q, ch) = SubSeq(l, 1, r) \o <<ch>> \o SubSeq(l, q, Len(l))
      /\ RemoveAt(l, q) = SubSeq(l, 1, r) \o SubSeq(l, q + 1, Len(l))
  <2> HIDE DEF q
  <2> QED BY DEF InsertAt, RemoveAt
<1> HIDE DEF r
<1> QED BY <1>1, <1>2

\* The character at p, seen from either side of the cursor.
LEMMA AtCursor ==
  ASSUME NEW l \in Seq(Chars), NEW p \in 1..Len(l)
  PROVE  /\ l[p] \in Chars
         /\ SubSeq(l, 1, p) = Append(SubSeq(l, 1, p - 1), l[p])
         /\ SubSeq(l, p, Len(l)) = <<l[p]>> \o SubSeq(l, p + 1, Len(l))
         /\ Head(SubSeq(l, p, Len(l))) = l[p]
         /\ Tail(SubSeq(l, p, Len(l))) = SubSeq(l, p + 1, Len(l))
<1>1. l[p] \in Chars /\ Len(l) \in Nat
  BY ElementOfSeq
<1>2. SubSeq(l, 1, p) = SubSeq(l, 1, p - 1) \o <<l[p]>>
  <2>1. 1 \in 1..Len(l) /\ p \in 1..Len(l)
    BY <1>1
  <2> QED BY <2>1, SubSeqRecursiveSecond
<1>3. SubSeq(l, 1, p - 1) \in Seq(Chars)
  <2>1. p - 1 \in 0..Len(l)
    BY <1>1
  <2> QED BY <2>1, PartsOf
<1>4. Len(l) \in p..Len(l)
  BY <1>1
<1>5. SubSeq(l, p, Len(l)) = <<l[p]>> \o SubSeq(l, p + 1, Len(l))
  BY <1>4, SubSeqRecursiveFirst
<1>6. Head(SubSeq(l, p, Len(l))) = l[p] /\ Tail(SubSeq(l, p, Len(l))) = SubSeq(l, p + 1, Len(l))
  BY <1>4, HeadTailOfSubSeq
<1> QED BY <1>1, <1>2, <1>3, <1>5, <1>6, AppendIsConcat

-----------------------------------------------------------------------------
(* The redraw *)

\* Quotient and remainder.
LEMMA Division ==
  ASSUME NEW n \in Nat, NEW w \in Nat, w > 0
  PROVE  n \div w \in Int /\ n % w \in Int /\ (n \div w) * w + (n % w) = n
<1>1. n \div w \in Int /\ n % w \in Int
  OBVIOUS
<1>2. (n \div w) * w + (n % w) = n
  OBVIOUS
<1> QED BY <1>1, <1>2

\* A redraw that starts where the last one left the cursor puts it on the
\* character at p: the late wrap and the line break at the margin cancel out.
LEMMA PaintedAt ==
  ASSUME EditTypes, NEW l \in Seq(Chars), NEW p \in 0..Len(l),
         NEW t, NEW c \in Int, t.row = c
  PROVE  Painted(l, p, t, c)
           = [row |-> (PromptLen + p) \div width, col |-> (PromptLen + p) % width]
<1> DEFINE end == PromptLen + Len(l)
           target == PromptLen + p
           last == end \div width
           textRow == RowAfterText(t.row - c, end)
           endRow == IF EndsAtMargin(end) THEN textRow + 1 ELSE textRow
<1>0. Len(l) \in Nat /\ PromptLen \in Nat /\ width \in Nat \ {0}
  BY LenProperties, EditorAssumption DEF EditTypes
<1>1. width \in Nat /\ width > 0 /\ end \in Nat /\ target \in Nat /\ t.row - c = 0
  BY <1>0
<1>2. last \in Int /\ target \div width \in Int
  BY <1>1, Division
<1> HIDE DEF end, target, last
<1>3. endRow = last
  BY <1>1, <1>2 DEF RowAfterText, EndsAtMargin, last
<1>4. last - (last - target \div width) = target \div width
  BY <1>2
<1>5. Painted(l, p, t, c) = [row |-> endRow - (last - target \div width), col |-> target % width]
  BY DEF Painted, end, target, last
<1> QED BY <1>3, <1>4, <1>5 DEF target

-----------------------------------------------------------------------------
(* The keys: each keeps EditInv and is a step of the zipper *)

\* A redraw during a line keeps the cursor in place.
LEMMA Redrawn ==
  ASSUME EditTypes, EditTypes', width' = width, NEW t, NEW c \in Int, t.row = c,
         Render(line', pos', t, c)
  PROVE  Placed'
<1>1. line' \in Seq(Chars) /\ pos' \in 0..Len(line')
  BY DEF EditTypes, Lines
<1>2. Painted(line', pos', t, c)
        = [row |-> (PromptLen + pos') \div width, col |-> (PromptLen + pos') % width]
  BY <1>1, PaintedAt
<1>3. cursorRow' = (PromptLen + pos') \div width' /\ term' = Painted(line', pos', t, c)
  BY DEF Render
<1> QED BY <1>2, <1>3 DEF Placed

\* The last redraw was at the cursor, so the next may start from it.
LEMMA LastDrawn ==
  ASSUME EditInv, reading
  PROVE  cursorRow \in Int /\ term.row = cursorRow
<1>1. width \in Nat /\ width > 0 /\ PromptLen + pos \in Nat
  BY EditorAssumption DEF EditInv, EditTypes
<1>2. (PromptLen + pos) \div width \in Int
  BY <1>1, Division
<1> QED BY <1>2 DEF EditInv, Placed

\* The line and its two parts.
LEMMA Halves ==
  ASSUME EditTypes
  PROVE  /\ Before \in Seq(Chars) /\ After \in Seq(Chars) /\ Before \o After = line
         /\ Len(Before) = pos /\ Len(After) = Len(line) - pos /\ pos \in Nat
         /\ line \in Seq(Chars) /\ Len(line) \in Nat /\ Len(line) <= MaxLen
         /\ \A i \in 1..pos : Before[i] = line[i]
<1>1. line \in Seq(Chars) /\ pos \in 0..Len(line) /\ Len(line) <= MaxLen
  BY DEF EditTypes, Lines
<1>2. Len(line) \in Nat /\ pos \in Nat
  BY <1>1
<1>3. /\ Before \in Seq(Chars) /\ Len(Before) = pos /\ \A i \in 1..pos : Before[i] = line[i]
      /\ After \in Seq(Chars) /\ Len(After) = Len(line) - pos /\ Before \o After = line
  BY <1>1, PartsOf DEF Before, After
<1> QED BY <1>1, <1>2, <1>3

\* A key that makes the line b followed by a, with the cursor between the two.
LEMMA EditStep ==
  ASSUME EditInv, NEW k, NEW l, NEW p, Edit(k, l, p),
         NEW b \in Seq(Chars), NEW a \in Seq(Chars),
         l = b \o a, p = Len(b), Len(b) + Len(a) <= MaxLen
  PROVE  EditInv' /\ key' = k /\ Before' = b /\ After' = a
<1>1. /\ reading /\ key' = k /\ line' = l /\ pos' = p /\ Render(l, p, term, cursorRow)
      /\ UNCHANGED <<reading, width, history, histIdx, draft>>
  BY DEF Edit, callVars, histVars
<1>2. /\ l \in Seq(Chars) /\ Len(l) = Len(b) + Len(a) /\ p \in 0..Len(l)
      /\ SubSeq(l, 1, p) = b /\ SubSeq(l, p + 1, Len(l)) = a
  BY SplitOf
<1>3. EditTypes'
  BY <1>1, <1>2 DEF EditInv, EditTypes, Lines
<1>4. Placed'
  BY <1>1, <1>3, LastDrawn, Redrawn DEF EditInv
<1> QED BY <1>1, <1>2, <1>3, <1>4 DEF EditInv, Before, After

\* A key that leaves line and cursor alone, redrawn or not.
LEMMA SameLine ==
  ASSUME EditInv, NEW k, Edit(k, line, pos) \/ Ignore(k)
  PROVE  EditInv' /\ key' = k /\ Before' = Before /\ After' = After
<1>1. CASE Edit(k, line, pos)
  <2>1. Before \o After = line /\ Len(Before) = pos
        /\ Before \in Seq(Chars) /\ After \in Seq(Chars)
    BY Halves DEF EditInv
  <2>2. Len(Before) + Len(After) = Len(line) /\ Len(line) <= MaxLen
    BY Halves DEF EditInv
  <2> QED BY <1>1, <2>1, <2>2, EditStep
<1>2. CASE Ignore(k)
  BY <1>2 DEF Ignore, callVars, lineVars, histVars, EditInv, EditTypes, Placed, Before, After
<1> QED BY <1>1, <1>2

LEMMA KeyInsert ==
  ASSUME EditInv, NEW ch \in Chars, Insert(ch)
  PROVE  EditInv' /\ Zipper!ZipInsert(ch)
<1> USE DEF Zipper!ZipInsert, Zipper!Keep
<1>0. MaxLen \in Nat
  BY EditorAssumption
<1>1. CASE Len(line) >= MaxLen
  <2>1. ~(Len(Before) + Len(After) < MaxLen)
    BY <1>0, <1>1, Halves DEF EditInv
  <2> QED BY <1>1, <2>1, SameLine DEF Insert
<1>2. CASE ~(Len(line) >= MaxLen)
  <2> DEFINE b == Append(Before, ch)
  <2>1. Len(Before) + Len(After) < MaxLen /\ b \in Seq(Chars) /\ Len(b) = pos + 1
        /\ b = Before \o <<ch>> /\ After \in Seq(Chars) /\ Len(b) + Len(After) <= MaxLen
    BY <1>0, <1>2, Halves, AppendProperties, AppendIsConcat DEF EditInv
  <2>2. InsertAt(line, pos + 1, ch) = b \o After
    <3>1. pos \in Nat
      BY Halves DEF EditInv
    <3>2. InsertAt(line, pos + 1, ch) = SubSeq(line, 1, pos) \o <<ch>> \o SubSeq(line, pos + 1, Len(line))
      BY <3>1, CutAt
    <3> QED BY <2>1, <3>2 DEF Before, After
  <2>3. EditInv' /\ key' = "char" /\ Before' = b /\ After' = After
    <3> HIDE DEF b
    <3> QED BY <1>2, <2>1, <2>2, EditStep DEF Insert
  <2> QED BY <2>1, <2>3
<1> QED BY <1>1, <1>2

LEMMA KeyBackspace ==
  ASSUME EditInv, Backspace
  PROVE  EditInv' /\ Zipper!ZipBackspace
<1> USE DEF Zipper!ZipBackspace, Zipper!Keep, Zipper!Cut
<1>1. CASE pos > 0
  <2> DEFINE b == SubSeq(Before, 1, Len(Before) - 1)
  <2>1. line \in Seq(Chars) /\ pos \in 1..Len(line) /\ Before # << >> /\ Len(line) <= MaxLen
        /\ Len(Before) = pos /\ After \in Seq(Chars) /\ Len(After) = Len(line) - pos
    <3>1. pos \in Nat /\ Len(line) \in Nat /\ pos <= Len(line) /\ Len(Before) = pos
      BY Halves DEF EditInv, EditTypes
    <3>2. Before # << >> /\ pos \in 1..Len(line)
      BY <1>1, <3>1
    <3> QED BY <3>2, Halves DEF EditInv
  <2>2. b = SubSeq(line, 1, pos - 1) /\ b \in Seq(Chars) /\ Len(b) = pos - 1
    <3>1. pos - 1 \in 0..pos /\ pos \in 0..Len(line) /\ pos - 1 \in 0..Len(line)
      BY <2>1
    <3>2. SubSeq(SubSeq(line, 1, pos), 1, pos - 1) = SubSeq(line, 1, pos - 1)
      BY <2>1, <3>1, CutOf
    <3>3. b = SubSeq(line, 1, pos - 1)
      BY <2>1, <3>2 DEF Before
    <3> DEFINE q == pos - 1
               l == line
    <3>4. l \in Seq(Chars) /\ q \in 0..Len(l)
      BY <2>1, <3>1
    <3> HIDE DEF q, l
    <3>5. SubSeq(l, 1, q) \in Seq(Chars) /\ Len(SubSeq(l, 1, q)) = q
      BY <3>4, PartsOf
    <3> HIDE DEF b
    <3> QED BY <3>3, <3>5 DEF q, l
  <2>3. Without(pos) = b \o After
    BY <2>2 DEF Without, RemoveAt, After
  <2> HIDE DEF b
  <2>4. Len(b) + Len(After) <= MaxLen
    BY <2>1, <2>2, EditorAssumption
  <2>5. EditInv' /\ key' = "backspace" /\ Before' = b /\ After' = After
    <3> DEFINE k == "backspace"
               l == Without(pos)
               q == pos - 1
    <3>1. Edit(k, l, q)
      BY <1>1 DEF Backspace
    <3>2. b \in Seq(Chars) /\ After \in Seq(Chars) /\ l = b \o After /\ q = Len(b)
      BY <2>1, <2>2, <2>3
    <3> HIDE DEF k, l, q
    <3>3. EditInv' /\ key' = k /\ Before' = b /\ After' = After
      BY <2>4, <3>1, <3>2, EditStep
    <3> QED BY <3>3 DEF k
  <2> QED BY <2>1, <2>5 DEF b
<1>2. CASE ~(pos > 0)
  <2>1. Before = << >>
    BY <1>2, Halves DEF EditInv
  <2> QED BY <1>2, <2>1, SameLine DEF Backspace
<1> QED BY <1>1, <1>2

LEMMA KeyDelete ==
  ASSUME EditInv, DeleteKey
  PROVE  EditInv' /\ Zipper!ZipDelete
<1> USE DEF Zipper!ZipDelete, Zipper!Keep
<1>1. CASE pos < Len(line)
  <2> DEFINE a == Tail(After)
  <2>1. line \in Seq(Chars) /\ pos + 1 \in 1..Len(line) /\ After # << >> /\ Len(line) <= MaxLen
        /\ Len(Before) = pos /\ Before \in Seq(Chars)
        /\ After \in Seq(Chars) /\ Len(After) = Len(line) - pos
    <3>1. pos \in Nat /\ Len(line) \in Nat /\ Len(After) = Len(line) - pos
      BY Halves DEF EditInv
    <3>2. After # << >> /\ pos + 1 \in 1..Len(line)
      BY <1>1, <3>1
    <3> QED BY <3>2, Halves DEF EditInv
  <2>2. a = SubSeq(line, pos + 1 + 1, Len(line))
    BY <2>1, AtCursor DEF After
  <2>3. a \in Seq(Chars) /\ Len(a) = Len(line) - pos - 1
    BY <2>1, HeadTailProperties
  <2>4. Without(pos + 1) = Before \o a
    <3>1. pos \in Nat
      BY Halves DEF EditInv
    <3>2. Without(pos + 1) = SubSeq(line, 1, pos) \o SubSeq(line, pos + 1 + 1, Len(line))
      BY <3>1, CutAt DEF Without
    <3> QED BY <2>2, <3>2 DEF Before
  <2> HIDE DEF a
  <2>5. Len(Before) + Len(a) <= MaxLen
    <3>1. Len(Before) = pos /\ pos \in Nat /\ Len(line) \in Nat /\ Len(line) <= MaxLen
      BY Halves DEF EditInv
    <3> QED BY <2>3, <3>1, EditorAssumption
  <2>6. EditInv' /\ key' = "delete" /\ Before' = Before /\ After' = a
    <3>1. Edit("delete", Without(pos + 1), pos)
      BY <1>1 DEF DeleteKey
    <3> QED BY <2>1, <2>3, <2>4, <2>5, <3>1, EditStep
  <2> QED BY <2>1, <2>6 DEF a
<1>2. CASE ~(pos < Len(line))
  <2>1. After = << >>
    BY <1>2, Halves DEF EditInv
  <2> QED BY <1>2, <2>1, SameLine DEF DeleteKey
<1> QED BY <1>1, <1>2

LEMMA KeyLeft ==
  ASSUME EditInv, Left
  PROVE  EditInv' /\ Zipper!ZipLeft
<1> USE DEF Zipper!ZipLeft, Zipper!Keep, Zipper!Cut
<1>1. CASE pos > 0
  <2> DEFINE b == SubSeq(Before, 1, Len(Before) - 1)
             a == <<Before[Len(Before)]>> \o After
  <2>1. /\ line \in Seq(Chars) /\ Len(Before) = pos /\ pos \in Nat /\ Len(line) \in Nat
        /\ Len(After) = Len(line) - pos /\ Len(line) <= MaxLen /\ After \in Seq(Chars)
        /\ \A i \in 1..pos : Before[i] = line[i]
    BY Halves DEF EditInv
  <2>2. /\ pos \in 1..Len(line) /\ Before # << >> /\ pos - 1 \in 0..pos
        /\ pos \in 0..Len(line) /\ pos - 1 \in 0..Len(line)
    BY <1>1, <2>1 DEF EditInv, EditTypes
  <2>3. b = SubSeq(line, 1, pos - 1)
    <3>1. SubSeq(SubSeq(line, 1, pos), 1, pos - 1) = SubSeq(line, 1, pos - 1)
      BY <2>1, <2>2, CutOf
    <3> QED BY <2>1, <3>1 DEF Before
  <2>4. a = SubSeq(line, pos, Len(line))
    <3>1. Before[Len(Before)] = line[pos]
      BY <2>1, <2>2
    <3> QED BY <2>1, <2>2, <3>1, AtCursor DEF After
  <2> HIDE DEF b, a
  <2>5. /\ b \in Seq(Chars) /\ Len(b) = pos - 1 /\ a \in Seq(Chars)
        /\ Len(a) = Len(line) - (pos - 1) /\ line = b \o a
    <3> DEFINE q == pos - 1
    <3>1. q \in 0..Len(line) /\ q + 1 = pos
      BY <2>1, <2>2
    <3>2. b = SubSeq(line, 1, q) /\ a = SubSeq(line, q + 1, Len(line))
      BY <2>3, <2>4, <3>1
    <3> HIDE DEF q
    <3>3. /\ b \in Seq(Chars) /\ Len(b) = q /\ a \in Seq(Chars)
          /\ Len(a) = Len(line) - q /\ b \o a = line
      BY <2>1, <3>1, <3>2, PartsOf
    <3> QED BY <3>3 DEF q
  <2>6. Len(b) + Len(a) <= MaxLen
    BY <2>1, <2>5
  <2>7. Edit("left", line, pos - 1)
    BY <1>1 DEF Left
  <2>8. EditInv' /\ key' = "left" /\ Before' = b /\ After' = a
    BY <2>5, <2>6, <2>7, EditStep
  <2> QED BY <2>2, <2>8 DEF b, a
<1>2. CASE ~(pos > 0)
  <2>1. Before = << >>
    BY <1>2, Halves DEF EditInv
  <2> QED BY <1>2, <2>1, SameLine DEF Left
<1> QED BY <1>1, <1>2

LEMMA KeyRight ==
  ASSUME EditInv, Right
  PROVE  EditInv' /\ Zipper!ZipRight
<1> USE DEF Zipper!ZipRight, Zipper!Keep
<1>1. CASE pos < Len(line)
  <2> DEFINE b == Append(Before, Head(After))
             a == Tail(After)
  <2>1. /\ line \in Seq(Chars) /\ pos \in Nat /\ Len(line) \in Nat
        /\ Len(After) = Len(line) - pos /\ Len(line) <= MaxLen
    BY Halves DEF EditInv
  <2>2. /\ pos + 1 \in 1..Len(line) /\ After # << >> /\ pos + 1 \in 0..Len(line)
        /\ pos + 1 - 1 = pos
    BY <1>1, <2>1
  <2>3. b = SubSeq(line, 1, pos + 1) /\ a = SubSeq(line, pos + 1 + 1, Len(line))
    BY <2>1, <2>2, AtCursor DEF Before, After
  <2> HIDE DEF b, a
  <2>4. /\ b \in Seq(Chars) /\ Len(b) = pos + 1 /\ a \in Seq(Chars)
        /\ Len(a) = Len(line) - (pos + 1) /\ line = b \o a
    BY <2>1, <2>2, <2>3, PartsOf
  <2>5. Len(b) + Len(a) <= MaxLen
    BY <2>1, <2>4
  <2>6. Edit("right", line, pos + 1)
    BY <1>1 DEF Right
  <2>7. EditInv' /\ key' = "right" /\ Before' = b /\ After' = a
    BY <2>4, <2>5, <2>6, EditStep
  <2> QED BY <2>2, <2>7 DEF b, a
<1>2. CASE ~(pos < Len(line))
  <2>1. After = << >>
    BY <1>2, Halves DEF EditInv
  <2> QED BY <1>2, <2>1, SameLine DEF Right
<1> QED BY <1>1, <1>2

\* The keys that move or cut at one end of the line.
LEMMA KeyEnds ==
  ASSUME EditInv
  PROVE  /\ LineHome => EditInv' /\ Zipper!ZipHome
         /\ LineEnd => EditInv' /\ Zipper!ZipEnd
         /\ CtrlU => EditInv' /\ Zipper!ZipKillBefore
         /\ CtrlK => EditInv' /\ Zipper!ZipKillAfter
<1> USE DEF Zipper!ZipHome, Zipper!ZipEnd, Zipper!ZipKillBefore, Zipper!ZipKillAfter, Zipper!Keep
<1>1. /\ line \in Seq(Chars) /\ line = Before \o After /\ Len(line) <= MaxLen
      /\ Before \in Seq(Chars) /\ After \in Seq(Chars) /\ Len(Before) = pos
      /\ pos \in Nat /\ Len(line) \in Nat /\ MaxLen \in Nat
      /\ Len(After) = Len(line) - pos
  BY Halves, EditorAssumption DEF EditInv
<1>2. Len(After) <= MaxLen /\ Len(Before) <= MaxLen
  BY <1>1 DEF EditInv, EditTypes
<1>3. /\ << >> \in Seq(Chars) /\ Len(<< >>) = 0
      /\ \A l \in Seq(Chars) : l = << >> \o l /\ l = l \o << >>
  BY EmptySeq, ConcatEmptySeq
<1>4. ASSUME LineHome PROVE EditInv' /\ Zipper!ZipHome
  <2> DEFINE e == << >>
             k == "home"
             q == 0
  <2>1. Edit(k, line, q) /\ line = e \o line /\ Len(e) + Len(line) <= MaxLen
        /\ e \in Seq(Chars) /\ q = Len(e) /\ line \in Seq(Chars)
    BY <1>1, <1>3, <1>4 DEF LineHome
  <2> HIDE DEF e, k, q
  <2>2. EditInv' /\ key' = k /\ Before' = e /\ After' = line
    BY <2>1, EditStep
  <2> QED BY <1>1, <2>2 DEF e, k
<1>5. ASSUME LineEnd PROVE EditInv' /\ Zipper!ZipEnd
  <2> DEFINE e == << >>
  <2>1. /\ Edit("end", line, Len(line)) /\ line = line \o e /\ Len(line) + Len(e) <= MaxLen
        /\ e \in Seq(Chars)
    BY <1>1, <1>3, <1>5 DEF LineEnd
  <2> DEFINE k == "end"
             q == Len(line)
  <2>2. Edit(k, line, q) /\ q = Len(line) /\ line \in Seq(Chars)
    BY <1>1, <2>1
  <2> HIDE DEF e, k, q
  <2>3. EditInv' /\ key' = k /\ Before' = line /\ After' = e
    BY <2>1, <2>2, EditStep
  <2> QED BY <1>1, <2>3 DEF e, k
<1>6. ASSUME CtrlU PROVE EditInv' /\ Zipper!ZipKillBefore
  <2>1. Edit("ctrl-u", After, 0) /\ After = << >> \o After /\ Len(<< >>) + Len(After) <= MaxLen
    BY <1>1, <1>2, <1>3, <1>6 DEF CtrlU
  <2>2. EditInv' /\ key' = "ctrl-u" /\ Before' = << >> /\ After' = After
    BY <1>1, <1>3, <2>1, EditStep
  <2> QED BY <1>1, <2>2
<1>7. ASSUME CtrlK PROVE EditInv' /\ Zipper!ZipKillAfter
  <2> DEFINE e == << >>
  <2>1. /\ Edit("ctrl-k", Before, pos) /\ Before = Before \o e /\ Len(Before) + Len(e) <= MaxLen
        /\ e \in Seq(Chars)
    BY <1>1, <1>2, <1>3, <1>7 DEF CtrlK
  <2> HIDE DEF e
  <2>2. EditInv' /\ key' = "ctrl-k" /\ Before' = Before /\ After' = e
    BY <1>1, <2>1, EditStep
  <2> QED BY <1>1, <2>2 DEF e
<1> QED BY <1>4, <1>5, <1>6, <1>7

\* Where the two loops of Ctrl-W stop: after the last character that is no white
\* space, and before the word that ends there.
LEMMA WordFound ==
  ASSUME EditTypes
  PROVE  \E j \in 0..pos :
           /\ WordStart \in 0..j
           /\ \A i \in (j + 1)..pos : line[i] = Space
           /\ \A i \in (WordStart + 1)..j : line[i] # Space
           /\ WordStart = 0 \/ (line[WordStart] = Space /\ WordStart < j)
<1> DEFINE S == {0} \cup {i \in 1..pos : line[i] # Space}
           solid == Max(S)
           W == {0} \cup {i \in 1..solid : line[i] = Space}
<1>1. pos \in Nat
  BY Halves
<1>2. S \subseteq 0..pos /\ S # {}
  BY <1>1
<1>3. solid \in S /\ \A y \in S : y <= solid
  <2> HIDE DEF S
  <2> QED BY <1>1, <1>2, MaxOfBounded
<1>4. solid \in 0..pos /\ solid \in Nat
  BY <1>1, <1>3
<1>5. \A i \in (solid + 1)..pos : line[i] = Space
  <2> SUFFICES ASSUME NEW i \in (solid + 1)..pos, line[i] # Space PROVE FALSE
    OBVIOUS
  <2>1. i \in S /\ i > solid /\ i \in Nat
    BY <1>1, <1>4
  <2> QED BY <1>3, <1>4, <2>1
<1>6. solid = 0 \/ line[solid] # Space
  BY <1>3
<1> HIDE DEF solid
<1>7. W \subseteq 0..solid /\ W # {}
  BY <1>4
<1>8. Max(W) \in W /\ \A y \in W : y <= Max(W)
  <2> HIDE DEF W
  <2> QED BY <1>4, <1>7, MaxOfBounded
<1>9. WordStart = Max(W)
  BY DEF WordStart, solid
<1>10. WordStart \in W /\ (\A y \in W : y <= WordStart) /\ WordStart \in 0..solid /\ WordStart \in Nat
  BY <1>4, <1>7, <1>8, <1>9
<1> HIDE DEF W
<1>11. \A i \in (WordStart + 1)..solid : line[i] # Space
  <2> SUFFICES ASSUME NEW i \in (WordStart + 1)..solid, line[i] = Space PROVE FALSE
    OBVIOUS
  <2>1. i \in W /\ i > WordStart /\ i \in Nat
    BY <1>4, <1>10 DEF W
  <2> QED BY <1>10, <2>1
<1>12. WordStart = 0 \/ line[WordStart] = Space
  BY <1>10 DEF W
<1>13. WordStart = 0 \/ WordStart # solid
  BY <1>6, <1>12
<1>14. WordStart = 0 \/ (line[WordStart] = Space /\ WordStart < solid)
  BY <1>4, <1>10, <1>12, <1>13
<1> QED BY <1>4, <1>5, <1>10, <1>11, <1>14

LEMMA KeyCtrlW ==
  ASSUME EditInv, CtrlW
  PROVE  EditInv' /\ Zipper!ZipEraseWord
<1>1. /\ line \in Seq(Chars) /\ Len(line) \in Nat /\ Len(line) <= MaxLen /\ pos \in Nat
      /\ pos \in 0..Len(line) /\ Before \in Seq(Chars) /\ Len(Before) = pos
      /\ After \in Seq(Chars) /\ Len(After) = Len(line) - pos
      /\ \A i \in 1..pos : Before[i] = line[i]
  BY Halves DEF EditInv, EditTypes
<1>2. PICK j \in 0..pos :
        /\ WordStart \in 0..j
        /\ \A i \in (j + 1)..pos : line[i] = Space
        /\ \A i \in (WordStart + 1)..j : line[i] # Space
        /\ WordStart = 0 \/ (line[WordStart] = Space /\ WordStart < j)
  BY WordFound DEF EditInv
<1> DEFINE n == WordStart
           b == SubSeq(Before, 1, n)
<1>3. n \in 0..pos /\ n \in Nat /\ j \in Nat /\ n \in 0..Len(line)
  BY <1>1, <1>2
<1> HIDE DEF n
<1>4. b = SubSeq(line, 1, n) /\ b \in Seq(Chars) /\ Len(b) = n
  BY <1>1, <1>3, CutOf, PartsOf DEF Before
<1>5. EditInv' /\ key' = "ctrl-w" /\ Before' = b /\ After' = After
  <2>1. Edit("ctrl-w", b \o After, n)
    BY <1>4 DEF CtrlW, n
  <2>2. Len(b) + Len(After) <= MaxLen
    BY <1>1, <1>3, <1>4, EditorAssumption
  <2> HIDE DEF b
  <2> QED BY <1>1, <1>4, <2>1, <2>2, EditStep
<1>6. Zipper!Solid(SubSeq(Before, n + 1, j))
  <2> DEFINE word == SubSeq(Before, n + 1, j)
  <2>1. n + 1 \in Int /\ j \in Int /\ \A i \in (n + 1)..j : Before[i] \in Chars
    BY <1>1, <1>3, ElementOfSeq
  <2>2. /\ word \in Seq(Chars) /\ Len(word) = (IF n + 1 <= j THEN j - (n + 1) + 1 ELSE 0)
        /\ \A i \in 1..(j - (n + 1) + 1) : word[i] = Before[n + 1 + i - 1]
    BY <2>1, SubSeqProperties
  <2>3. ASSUME NEW i \in DOMAIN word PROVE word[i] # Space
    <3>1. i \in 1..Len(word)
      BY <2>2, <2>3, LenProperties
    <3>2. n + 1 <= j /\ Len(word) = j - n /\ i \in Nat /\ i >= 1 /\ i <= j - n /\ j <= pos
      <4>1. Len(word) = (IF n + 1 <= j THEN j - n ELSE 0)
        BY <1>3, <2>2
      <4> HIDE DEF word
      <4> QED BY <1>1, <1>3, <3>1, <4>1
    <3>4. i \in 1..(j - (n + 1) + 1) /\ n + i \in (n + 1)..j /\ n + i \in 1..pos /\ n + 1 + i - 1 = n + i
      BY <1>1, <1>3, <3>2
    <3>3. word[i] = line[n + i]
      BY <1>1, <2>2, <3>4
    <3> QED BY <1>2, <3>4, <3>3 DEF n
  <2> QED BY <2>3 DEF Zipper!Solid
<1>7. Zipper!Blank(SubSeq(Before, j + 1, Len(Before)))
  <2> DEFINE rest == SubSeq(Before, j + 1, pos)
  <2>1. j + 1 \in Int /\ pos \in Int /\ \A i \in (j + 1)..pos : Before[i] \in Chars
    BY <1>1, <1>3, ElementOfSeq
  <2>2. /\ rest \in Seq(Chars) /\ Len(rest) = (IF j + 1 <= pos THEN pos - (j + 1) + 1 ELSE 0)
        /\ \A i \in 1..(pos - (j + 1) + 1) : rest[i] = Before[j + 1 + i - 1]
    BY <2>1, SubSeqProperties
  <2>3. ASSUME NEW i \in DOMAIN rest PROVE rest[i] = Space
    <3>1. i \in 1..Len(rest)
      BY <2>2, <2>3, LenProperties
    <3>2. i \in 1..(pos - (j + 1) + 1) /\ j + i \in (j + 1)..pos /\ j + i \in 1..pos /\ j + 1 + i - 1 = j + i
      BY <1>1, <1>3, <2>2, <3>1
    <3>3. rest[i] = line[j + i]
      BY <1>1, <2>2, <3>2
    <3> QED BY <1>2, <3>2, <3>3
  <2> QED BY <1>1, <2>3 DEF Zipper!Blank
<1>8. Zipper!WordErased(Before, b)
  <2>1. n <= j /\ n \in 0..Len(Before) /\ j \in 0..Len(Before)
    BY <1>1, <1>2, <1>3 DEF n
  <2>2. n = 0 \/ (Before[n] = Space /\ n < j)
    BY <1>1, <1>2, <1>3 DEF n
  <2> QED BY <2>1, <2>2, <1>6, <1>7 DEF Zipper!WordErased, Zipper!Cut
<1>9. n \in 0..Len(Before) /\ Before' = Zipper!Cut(Before, n)
  BY <1>1, <1>3, <1>5 DEF Zipper!Cut
<1> QED BY <1>5, <1>8, <1>9 DEF Zipper!ZipEraseWord

\* A completion that fits is put between the two parts, one that does not is
\* dropped.
LEMMA KeyTab ==
  ASSUME EditInv, NEW ext \in Extensions, Tab(ext)
  PROVE  EditInv' /\ Zipper!ZipComplete
<1> USE DEF Zipper!ZipComplete, Zipper!Cut
<1>1. /\ Before \in Seq(Chars) /\ After \in Seq(Chars) /\ Len(Before) = pos /\ pos \in Nat
      /\ Len(After) = Len(line) - pos /\ Len(line) \in Nat /\ Len(line) <= MaxLen
  BY Halves DEF EditInv
<1>0. Len(Before) + Len(After) <= MaxLen
  BY <1>1
<1>2. ext \in Seq(Chars) /\ Len(ext) \in Nat
  <2>1. PICK m \in 0..2 : ext \in [1..m -> Chars]
    BY DEF Extensions, SeqOf
  <2>2. ext \in Seq(Chars)
    BY <2>1, SeqDef
  <2> QED BY <2>2
<1>3. CASE Len(line) + Len(ext) <= MaxLen
  <2> DEFINE b == Before \o ext
  <2>1. b \in Seq(Chars) /\ Len(b) = pos + Len(ext) /\ SubSeq(b, 1, pos) = Before
    <3>1. b \in Seq(Chars) /\ Len(b) = pos + Len(ext)
      BY <1>1, <1>2, ConcatProperties
    <3> QED BY <1>1, <1>2, <3>1, SplitOf
  <2>2. Edit("tab", b \o After, Len(b))
    BY <1>3, <2>1 DEF Tab, Completed
  <2> HIDE DEF b
  <2>3. Len(b) + Len(After) <= MaxLen
    BY <1>1, <1>2, <1>3, <2>1, EditorAssumption
  <2>4. EditInv' /\ key' = "tab" /\ Before' = b /\ After' = After
    BY <1>1, <2>1, <2>2, <2>3, EditStep
  <2>5. pos <= Len(b) /\ Len(Before) <= Len(b)
    BY <1>1, <1>2, <2>1
  <2> QED BY <1>1, <1>2, <2>1, <2>3, <2>4, <2>5
<1>4. CASE ~(Len(line) + Len(ext) <= MaxLen)
  <2>1. Edit("tab", line, pos)
    BY <1>4 DEF Tab, Completed
  <2>2. EditInv' /\ key' = "tab" /\ Before' = Before /\ After' = After
    BY <2>1, SameLine
  <2>3. SubSeq(Before, 1, Len(Before)) = Before
    BY <1>1, SubSeqFull
  <2> QED BY <1>0, <1>1, <2>2, <2>3
<1> QED BY <1>3, <1>4

\* A redraw from the start of another row.
LEMMA KeyRedraw ==
  ASSUME EditInv, CtrlL \/ TabChoices
  PROVE  EditInv' /\ (Zipper!ZipOutside \/ Zipper!ZipComplete)
<1>1. /\ Render(line, pos, Home, 0) /\ key' \in {"clear", "tab"}
      /\ UNCHANGED <<reading, width, line, pos, history, histIdx, draft>>
  BY DEF CtrlL, TabChoices, callVars, lineVars, histVars
<1>2. EditTypes'
  BY <1>1 DEF EditInv, EditTypes
<1>3. Placed'
  <2>1. 0 \in Int /\ Home.row = 0 /\ Render(line', pos', Home, 0)
    BY <1>1 DEF Home, Render
  <2> QED BY <1>1, <1>2, <2>1, Redrawn DEF EditInv
<1>4. Before' = Before /\ After' = After
  BY <1>1 DEF Before, After
<1>5. Len(Before) + Len(After) <= MaxLen /\ SubSeq(Before, 1, Len(Before)) = Before /\ Len(Before) \in Nat
  <2>1. Before \in Seq(Chars) /\ Len(Before) + Len(After) = Len(line) /\ Len(line) <= MaxLen
        /\ Len(Before) \in Nat
    BY Halves DEF EditInv
  <2> QED BY <2>1, SubSeqFull
<1> QED BY <1>1, <1>2, <1>3, <1>4, <1>5
        DEF EditInv, Zipper!ZipOutside, Zipper!ZipComplete, Zipper!Keep, Zipper!Cut

\* A history line, or the draft, with the cursor at its end.
LEMMA Recalled ==
  ASSUME EditInv, NEW k \in {"up", "down"}, NEW l \in Lines, Recall(k, l), reading,
         UNCHANGED <<reading, width, history>>,
         histIdx' \in 0..Len(history), draft' \in Lines
  PROVE  EditInv' /\ Zipper!ZipOutside
<1>1. /\ key' = k /\ line' = l /\ pos' = Len(l) /\ Render(line', pos', term, cursorRow)
  BY DEF Recall, Render
<1>2. l \in Seq(Chars) /\ Len(l) \in Nat /\ pos' \in 0..Len(line')
  BY <1>1 DEF Lines
<1>3. EditTypes'
  BY <1>1, <1>2 DEF EditInv, EditTypes
<1>4. Placed'
  BY <1>1, <1>3, LastDrawn, Redrawn DEF EditInv
<1>5. After' = << >>
  <2>1. SubSeq(l, Len(l) + 1, Len(l)) = << >>
    BY <1>2, SubSeqEmpty
  <2> QED BY <1>1, <2>1 DEF After
<1> QED BY <1>1, <1>3, <1>4, <1>5 DEF EditInv, Zipper!ZipOutside

LEMMA KeyUpDown ==
  ASSUME EditInv, Up \/ Down
  PROVE  EditInv' /\ Zipper!ZipOutside
<1>0. /\ history \in Seq(Lines) /\ Len(history) \in Nat /\ histIdx \in 0..Len(history)
      /\ line \in Lines /\ draft \in Lines
  BY DEF EditInv, EditTypes
<1>1. CASE Ignore("up") \/ Ignore("down")
  BY <1>1, SameLine DEF Zipper!ZipOutside
<1>2. CASE Up /\ histIdx # 0
  <2>1. /\ reading /\ draft' = (IF histIdx = Len(history) THEN line ELSE draft)
        /\ histIdx' = histIdx - 1 /\ Recall("up", history[histIdx])
        /\ UNCHANGED <<reading, width, history>>
    BY <1>2 DEF Up, callVars
  <2>2. history[histIdx] \in Lines /\ histIdx' \in 0..Len(history)
    BY <1>0, <1>2, <2>1, ElementOfSeq
  <2>3. draft' \in Lines
    BY <1>0, <2>1
  <2> QED BY <2>1, <2>2, <2>3, Recalled
<1>3. CASE Down /\ ~(histIdx >= Len(history))
  <2> DEFINE l == IF histIdx + 1 = Len(history) THEN draft ELSE history[histIdx + 2]
  <2>1. /\ reading /\ draft' = draft /\ histIdx' = histIdx + 1 /\ Recall("down", l)
        /\ UNCHANGED <<reading, width, history>>
    BY <1>3 DEF Down, callVars
  <2>2. l \in Lines
    <3>1. CASE histIdx + 1 = Len(history)
      BY <1>0, <3>1
    <3>2. CASE histIdx + 1 # Len(history)
      <4>1. histIdx + 2 \in 1..Len(history)
        BY <1>0, <1>3, <3>2
      <4> QED BY <1>0, <3>2, <4>1, ElementOfSeq
    <3> QED BY <3>1, <3>2
  <2>3. histIdx' \in 0..Len(history) /\ draft' \in Lines
    BY <1>0, <1>3, <2>1
  <2> HIDE DEF l
  <2> QED BY <2>1, <2>2, <2>3, Recalled
<1> QED BY <1>1, <1>2, <1>3 DEF Up, Down

-----------------------------------------------------------------------------
(* ReadLine *)

\* addHistory keeps lines that were read, whichever are forgotten.
LEMMA RecordedLines ==
  ASSUME EditTypes
  PROVE  Recorded(line) \in Seq(Lines)
<1> DEFINE longer == Append(history, line)
           first == Max({1, Len(longer) - MaxHistory + 1})
<1>1. /\ history \in Seq(Lines) /\ line \in Lines /\ MaxHistory \in Nat
      /\ longer \in Seq(Lines) /\ Len(longer) \in Nat /\ Len(longer) >= 1
  BY EditorAssumption, AppendProperties DEF EditTypes
<1> HIDE DEF longer
<1>2. first \in Int /\ first >= 1
  <2> DEFINE m == Len(longer) - MaxHistory + 1
  <2>1. m \in Int
    BY <1>1
  <2> HIDE DEF m
  <2>2. \E x \in {1, m} : \A y \in {1, m} : x >= y
    <3>1. CASE m <= 1
      BY <2>1, <3>1
    <3>2. CASE ~(m <= 1)
      BY <2>1, <3>2
    <3> QED BY <3>1, <3>2
  <2>3. Max({1, m}) \in {1, m} /\ \A y \in {1, m} : Max({1, m}) >= y
    BY <2>2 DEF Max
  <2> QED BY <2>1, <2>3 DEF m
<1> HIDE DEF first
<1>3. SubSeq(longer, first, Len(longer)) \in Seq(Lines)
  <2>1. \A i \in first..Len(longer) : longer[i] \in Lines
    BY <1>1, <1>2, ElementOfSeq
  <2> QED BY <1>1, <1>2, <2>1, SubSeqProperties
<1> QED BY <1>1, <1>3 DEF Recorded, longer, first

\* No line is being read: the two parts of the empty line are empty.
LEMMA EmptyParts ==
  ASSUME line' = << >>, pos' = 0
  PROVE  Before' = << >> /\ After' = << >> /\ line' \in Lines /\ pos' \in 0..Len(line')
<1>1. << >> \in Seq(Chars) /\ Len(<< >>) = 0 /\ MaxLen \in Nat
  BY EmptySeq, EditorAssumption
<1>2. SubSeq(<< >>, 1, 0) = << >> /\ SubSeq(<< >>, 0 + 1, Len(<< >>)) = << >>
  BY <1>1, SubSeqEmpty
<1>3. << >> \in Lines
  BY <1>1 DEF Lines
<1> QED BY <1>1, <1>2, <1>3 DEF Before, After

LEMMA LineBegins ==
  ASSUME EditInv, Begin
  PROVE  EditInv' /\ Zipper!ZipOutside
<1>1. /\ reading' = TRUE /\ histIdx' = Len(history) /\ draft' = << >> /\ line' = << >>
      /\ pos' = 0 /\ key' = "none" /\ Render(line', pos', Home, 0)
      /\ width' = width /\ history' = history
  BY DEF Begin, Render
<1>2. EditTypes'
  <2>1. draft' \in Lines
    BY <1>1, EmptyParts
  <2>2. histIdx' \in 0..Len(history')
    BY <1>1 DEF EditInv, EditTypes
  <2> QED BY <1>1, <2>1, <2>2, EmptyParts DEF EditInv, EditTypes
<1>3. Placed'
  <2>1. 0 \in Int /\ Home.row = 0
    BY DEF Home
  <2> QED BY <1>1, <1>2, <2>1, Redrawn DEF EditInv
<1> QED BY <1>1, <1>2, <1>3, EmptyParts DEF EditInv, Zipper!ZipOutside, Zipper!Keep

LEMMA LineEnds ==
  ASSUME EditInv, NEW h \in Seq(Lines), Finish(h)
  PROVE  EditInv' /\ Zipper!ZipOutside
<1>1. /\ reading' = FALSE /\ histIdx' = Len(h) /\ draft' = << >> /\ line' = << >>
      /\ pos' = 0 /\ key' = "none" /\ width' = width /\ history' = h
  BY DEF Finish
<1>2. EditTypes'
  <2>1. draft' \in Lines
    BY <1>1, EmptyParts
  <2>2. histIdx' \in 0..Len(history')
    BY <1>1
  <2> QED BY <1>1, <2>1, <2>2, EmptyParts DEF EditInv, EditTypes
<1> QED BY <1>1, <1>2, EmptyParts DEF EditInv, Placed, Zipper!ZipOutside, Zipper!Keep

\* Between two lines the editor's text does not change.
LEMMA BetweenLines ==
  ASSUME EditInv, NewWidth \/ ResetHistory \/ UNCHANGED editVars
  PROVE  EditInv' /\ UNCHANGED Zipper!zipVars
<1> USE DEF callVars, lineVars, histVars, editVars
<1>1. UNCHANGED <<line, pos, key>> /\ UNCHANGED Zipper!zipVars
  BY DEF NewWidth, ResetHistory, Zipper!zipVars, Before, After
<1>2. CASE NewWidth
  BY <1>1, <1>2 DEF NewWidth, EditInv, EditTypes, Placed
<1>3. CASE ResetHistory
  <2>1. << >> \in Seq(Lines) /\ Len(<< >>) = 0
    BY EmptySeq
  <2> QED BY <1>1, <1>3, <2>1 DEF ResetHistory, EditInv, EditTypes, Placed
<1>4. CASE UNCHANGED editVars
  BY <1>1, <1>4 DEF EditInv, EditTypes, Placed
<1> QED BY <1>1, <1>2, <1>3, <1>4

\* Every step keeps the invariant and is a step, or a stutter, of the zipper.
LEMMA EditInvNext ==
  ASSUME EditInv, [EditNext]_editVars
  PROVE  EditInv' /\ [Zipper!ZipNext]_(Zipper!zipVars)
<1> USE DEF Zipper!ZipNext
<1>1. CASE Begin
  BY <1>1, LineBegins
<1>2. CASE Enter
  BY <1>2, RecordedLines, LineEnds DEF Enter, EditInv
<1>3. CASE GiveUp
  BY <1>3, LineEnds DEF GiveUp, EditInv, EditTypes
<1>4. CASE NewWidth \/ ResetHistory \/ UNCHANGED editVars
  BY <1>4, BetweenLines
<1>5. CASE \E ch \in Chars : Insert(ch)
  BY <1>5, KeyInsert
<1>6. CASE Backspace \/ DeleteKey
  BY <1>6, KeyBackspace, KeyDelete
<1>7. CASE Left \/ Right
  BY <1>7, KeyLeft, KeyRight
<1>8. CASE LineHome \/ LineEnd \/ CtrlU \/ CtrlK
  BY <1>8, KeyEnds
<1>9. CASE CtrlW
  BY <1>9, KeyCtrlW
<1>10. CASE CtrlL \/ TabChoices
  BY <1>10, KeyRedraw
<1>11. CASE OtherKey
  BY <1>11, SameLine DEF OtherKey, Zipper!ZipOutside, Zipper!Keep
<1>12. CASE Up \/ Down
  BY <1>12, KeyUpDown
<1>13. CASE \E ext \in Extensions : Tab(ext)
  BY <1>13, KeyTab
<1> QED BY <1>1, <1>2, <1>3, <1>4, <1>5, <1>6, <1>7, <1>8, <1>9, <1>10, <1>11, <1>12, <1>13
        DEF EditNext

LEMMA EditInvInit ==
  ASSUME EditInit
  PROVE  EditInv /\ Zipper!ZipInit
<1>1. << >> \in Seq(Chars) /\ << >> \in Seq(Lines) /\ Len(<< >>) = 0 /\ MaxLen \in Nat
  BY EmptySeq, EditorAssumption
<1>2. << >> \in Lines
  BY <1>1 DEF Lines
<1>3. SubSeq(<< >>, 1, 0) = << >> /\ SubSeq(<< >>, 0 + 1, Len(<< >>)) = << >>
  BY <1>1, SubSeqEmpty
<1>4. Before = << >> /\ After = << >>
  BY <1>3 DEF EditInit, Before, After
<1>5. EditTypes
  <2>1. line \in Lines /\ draft \in Lines /\ history \in Seq(Lines)
    BY <1>1, <1>2 DEF EditInit
  <2>2. pos \in 0..Len(line) /\ histIdx \in 0..Len(history)
    BY <1>1 DEF EditInit
  <2>3. reading \in BOOLEAN /\ width \in Widths
    BY DEF EditInit
  <2> QED BY <2>1, <2>2, <2>3 DEF EditTypes
<1>6. Placed
  BY DEF EditInit, Placed
<1>7. Zipper!ZipInit
  BY <1>4 DEF EditInit, Zipper!ZipInit
<1> QED BY <1>5, <1>6, <1>7 DEF EditInv

\* The redraw's cursor is on the character at pos, from the quotient and the
\* remainder that Placed says it has.
LEMMA PlacedIsInPlace ==
  ASSUME EditInv
  PROVE  CursorInPlace
<1> SUFFICES ASSUME reading
             PROVE  term.row = cursorRow /\ term.row * width + term.col = PromptLen + pos
  BY DEF CursorInPlace
<1>1. width \in Nat /\ width > 0 /\ PromptLen + pos \in Nat
  BY EditorAssumption DEF EditInv, EditTypes
<1>2. /\ term.row = (PromptLen + pos) \div width /\ term.col = (PromptLen + pos) % width
      /\ term.row = cursorRow
  BY DEF EditInv, Placed
<1>3. ((PromptLen + pos) \div width) * width + ((PromptLen + pos) % width) = PromptLen + pos
  BY <1>1, Division
<1> QED BY <1>2, <1>3

\* Below the history stands the line that is being typed; further up the draft
\* is that line.
DraftInv == reading => IF histIdx = Len(history) THEN line = typed ELSE draft = typed

\* A key that edits, or changes nothing.
LEMMA DraftOfEdit ==
  ASSUME DraftInv,
         \/ \E k, l, p : Edit(k, l, p)
         \/ \E k : Ignore(k)
         \/ UNCHANGED <<callVars, lineVars, histVars>>
  PROVE  DraftInv'
BY DEF DraftInv, Edit, Ignore, callVars, lineVars, histVars

\* Up takes the line below the history as the draft, and only that one; Down
\* brings it back.
LEMMA DraftOfWalk ==
  ASSUME EditInv, DraftInv, Up \/ Down
  PROVE  DraftInv'
<1>0. Len(history) \in Nat /\ histIdx \in 0..Len(history)
  BY DEF EditInv, EditTypes
<1>1. CASE Ignore("up") \/ Ignore("down")
  BY <1>1, DraftOfEdit
<1>2. CASE Up /\ histIdx # 0
  <2>1. /\ reading /\ draft' = (IF histIdx = Len(history) THEN line ELSE draft)
        /\ histIdx' = histIdx - 1 /\ typed' = typed /\ history' = history
    BY <1>2 DEF Up, Recall
  <2>2. histIdx' # Len(history')
    BY <1>0, <2>1
  <2> QED BY <2>1, <2>2 DEF DraftInv
<1>3. CASE Down /\ ~(histIdx >= Len(history))
  <2>1. /\ reading /\ draft' = draft /\ histIdx' = histIdx + 1 /\ typed' = typed
        /\ history' = history /\ (histIdx + 1 = Len(history) => line' = draft)
    BY <1>3 DEF Down, Recall
  <2>2. histIdx # Len(history)
    BY <1>0, <1>3
  <2> QED BY <2>1, <2>2 DEF DraftInv
<1> QED BY <1>1, <1>2, <1>3 DEF Up, Down

LEMMA DraftNext ==
  ASSUME EditInv, DraftInv, [EditNext]_editVars
  PROVE  DraftInv'
<1>1. CASE Begin \/ Enter \/ GiveUp
  BY <1>1 DEF Begin, Enter, GiveUp, Finish, DraftInv
<1>2. CASE NewWidth \/ ResetHistory
  BY <1>2 DEF NewWidth, ResetHistory, DraftInv, callVars
<1>3. CASE CtrlL \/ TabChoices \/ UNCHANGED editVars
  BY <1>3, DraftOfEdit DEF CtrlL, TabChoices, editVars
<1>4. CASE Up \/ Down
  BY <1>4, DraftOfWalk
<1>5. CASE \E ch \in Chars : Insert(ch)
  BY <1>5, DraftOfEdit DEF Insert
<1>6. CASE Backspace \/ DeleteKey \/ Left \/ Right \/ LineHome \/ LineEnd
  BY <1>6, DraftOfEdit DEF Backspace, DeleteKey, Left, Right, LineHome, LineEnd
<1>7. CASE CtrlU \/ CtrlK \/ CtrlW \/ OtherKey \/ \E ext \in Extensions : Tab(ext)
  BY <1>7, DraftOfEdit DEF CtrlU, CtrlK, CtrlW, OtherKey, Tab
<1> QED BY <1>1, <1>2, <1>3, <1>4, <1>5, <1>6, <1>7 DEF EditNext

\* The terminal's cursor is on the character the editor is at, after every key
\* and redraw, for every width, prompt and line.
THEOREM CursorStaysInPlace == EditSpec => []CursorInPlace
<1>1. EditInit => EditInv
  BY EditInvInit
<1>2. EditInv /\ [EditNext]_editVars => EditInv'
  BY EditInvNext
<1>3. EditInv => CursorInPlace
  BY PlacedIsInPlace
<1> QED BY <1>1, <1>2, <1>3, PTL DEF EditSpec

\* The slices, the cursor and the index arithmetic of every key implement the
\* text before and after the cursor.
THEOREM EditorIsZipper == EditSpec => ImplementsZipper
<1>1. EditInit => EditInv /\ Zipper!ZipInit
  BY EditInvInit
<1>2. EditInv /\ [EditNext]_editVars => EditInv' /\ [Zipper!ZipNext]_(Zipper!zipVars)
  BY EditInvNext
<1> QED BY <1>1, <1>2, PTL DEF EditSpec, ImplementsZipper, Zipper!ZipSpec

\* The line that was being typed stands below the newest history line again,
\* whatever was recalled and edited in between, for every history (ReadLine's
\* draft).
THEOREM TypedLineComesBack == EditSpec => []DraftComesBack
<1>1. EditInit => EditInv /\ DraftInv
  BY EditInvInit DEF EditInit, DraftInv
<1>2. EditInv /\ DraftInv /\ [EditNext]_editVars => EditInv' /\ DraftInv'
  BY EditInvNext, DraftNext
<1>3. DraftInv => DraftComesBack
  BY DEF DraftInv, DraftComesBack
<1> QED BY <1>1, <1>2, <1>3, PTL DEF EditSpec
=============================================================================
