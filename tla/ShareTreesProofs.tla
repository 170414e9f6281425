-------------------------- MODULE ShareTreesProofs --------------------------
(***************************************************************************)
(* A run of EnsureShareTrees() that is alone applies the trees and takes   *)
(* no right file away, for every set of paths, every configuration and     *)
(* every filesystem to begin with.                                         *)
(***************************************************************************)
EXTENDS ShareTrees, TLAPS

(***************************************************************************)
(* Paths: what is above a path is a chain from its root to its parent.     *)
(***************************************************************************)
Path == Seq(UNION {{p[k] : k \in DOMAIN p} : p \in Node}) \ {<<>>}

LEMMA PrefixFacts ==
    ASSUME NEW p \in Path, NEW n \in 1 .. Len(p)
    PROVE  /\ Prefix(p, n) \in Path
           /\ Len(Prefix(p, n)) = n
           /\ \A m \in 1 .. n : Prefix(Prefix(p, n), m) = Prefix(p, m)
<1> DEFINE Name == UNION {{q[k] : k \in DOMAIN q} : q \in Node}
<1>1. p \in Seq(Name) /\ Len(p) \in Nat
  BY DEF Path
<1> HIDE DEF Name
<1>2. Prefix(p, n) \in Seq(Name) /\ Len(Prefix(p, n)) = n
  BY <1>1 DEF Prefix
<1>3. Prefix(p, n) # <<>>
  BY <1>2
<1>4. ASSUME NEW m \in 1 .. n
      PROVE  Prefix(Prefix(p, n), m) = Prefix(p, m)
  BY <1>1, <1>2 DEF Prefix
<1>5. QED
  BY <1>2, <1>3, <1>4 DEF Path, Name

\* What is above a path is its parent or above its parent.
LEMMA ParentFacts ==
    ASSUME NEW p \in Path, NEW q
    PROVE  /\ Len(p) \in Nat \ {0}
           /\ IsAbove(q, p) => Len(p) > 1
           /\ Len(p) > 1 => /\ IsAbove(Parent(p), p)
                            /\ IsAbove(q, p) <=> q = Parent(p) \/ IsAbove(q, Parent(p))
<1>1. Len(p) \in Nat \ {0}
  BY DEF Path
<1>2. IsAbove(q, p) => Len(p) > 1
  BY <1>1 DEF IsAbove
<1>3. ASSUME Len(p) > 1
      PROVE  /\ IsAbove(Parent(p), p)
             /\ IsAbove(q, p) <=> q = Parent(p) \/ IsAbove(q, Parent(p))
  <2>1. Len(p) - 1 \in 1 .. Len(p) /\ Len(p) - 1 \in 1 .. Len(p) - 1
    BY <1>1, <1>3
  <2>2. /\ Len(Parent(p)) = Len(p) - 1
        /\ \A m \in 1 .. Len(p) - 1 : Prefix(Parent(p), m) = Prefix(p, m)
    BY <2>1, PrefixFacts DEF Parent
  <2>3. IsAbove(Parent(p), p)
    BY <2>1 DEF IsAbove, Parent
  <2>4. ASSUME IsAbove(q, p), q # Parent(p)
        PROVE  IsAbove(q, Parent(p))
    <3>1. PICK n \in 1 .. Len(p) - 1 : q = Prefix(p, n)
      BY <2>4 DEF IsAbove
    <3>2. n \in 1 .. Len(Parent(p)) - 1
      BY <1>1, <2>2, <2>4, <3>1 DEF Parent
    <3>3. q = Prefix(Parent(p), n)
      BY <2>2, <3>1
    <3>4. QED
      BY <3>2, <3>3 DEF IsAbove
  <2>5. ASSUME IsAbove(q, Parent(p))
        PROVE  IsAbove(q, p)
    <3>1. PICK n \in 1 .. Len(Parent(p)) - 1 : q = Prefix(Parent(p), n)
      BY <2>5 DEF IsAbove
    <3>2. n \in 1 .. Len(p) - 1 /\ q = Prefix(p, n)
      BY <1>1, <2>2, <3>1
    <3>3. QED
      BY <3>2 DEF IsAbove
  <2>6. QED
    BY <2>3, <2>4, <2>5
<1>4. QED
  BY <1>1, <1>2, <1>3

\* Being above is transitive, and what is above the same path is a chain.
LEMMA AboveFacts ==
    ASSUME NEW p \in Path, NEW a, IsAbove(a, p)
    PROVE  /\ a \in Path
           /\ a # p
           /\ ~ IsAbove(p, a)
           /\ \A b : IsAbove(b, a) => IsAbove(b, p)
           /\ \A b : IsAbove(b, p) => a = b \/ IsAbove(a, b) \/ IsAbove(b, a)
<1>1. Len(p) \in Nat
  BY DEF Path
<1>2. PICK n \in 1 .. Len(p) - 1 : a = Prefix(p, n)
  BY DEF IsAbove
<1>3. \A m \in 1 .. Len(p) - 1 :
         /\ Prefix(p, m) \in Path /\ Len(Prefix(p, m)) = m
         /\ \A k \in 1 .. m : Prefix(Prefix(p, m), k) = Prefix(p, k)
  <2>1. SUFFICES ASSUME NEW m \in 1 .. Len(p) - 1
                 PROVE  /\ Prefix(p, m) \in Path /\ Len(Prefix(p, m)) = m
                        /\ \A k \in 1 .. m : Prefix(Prefix(p, m), k) = Prefix(p, k)
    OBVIOUS
  <2>2. m \in 1 .. Len(p)
    BY <1>1
  <2>3. QED
    BY <2>2, PrefixFacts
<1>4. a \in Path /\ Len(a) = n /\ n < Len(p)
  BY <1>1, <1>2, <1>3
<1>5. ~ IsAbove(p, a)
  <2>1. SUFFICES ASSUME NEW m \in 1 .. Len(a) - 1, p = Prefix(a, m) PROVE FALSE
    BY DEF IsAbove
  <2>2. m \in 1 .. Len(a)
    BY <1>4
  <2>3. Len(p) = m
    BY <1>4, <2>1, <2>2, PrefixFacts
  <2>4. QED
    BY <1>1, <1>4, <2>3
<1>6. ASSUME NEW b, IsAbove(b, a) PROVE IsAbove(b, p)
  <2>1. PICK m \in 1 .. n - 1 : b = Prefix(a, m)
    BY <1>4, <1>6 DEF IsAbove
  <2>2. m \in 1 .. Len(p) - 1 /\ b = Prefix(p, m)
    BY <1>1, <1>2, <1>3, <2>1
  <2>3. QED
    BY <2>2 DEF IsAbove
<1>7. ASSUME NEW b, IsAbove(b, p) PROVE a = b \/ IsAbove(a, b) \/ IsAbove(b, a)
  <2>1. PICK m \in 1 .. Len(p) - 1 : b = Prefix(p, m)
    BY <1>7 DEF IsAbove
  <2>2. Len(b) = m
    BY <1>3, <2>1
  <2>3. CASE n = m
    BY <1>2, <2>1, <2>3
  <2>4. CASE n < m
    <3>1. n \in 1 .. Len(b) - 1 /\ a = Prefix(b, n)
      BY <1>1, <1>2, <1>3, <2>1, <2>2, <2>4
    <3>2. QED
      BY <3>1 DEF IsAbove
  <2>5. CASE m < n
    <3>1. m \in 1 .. Len(a) - 1 /\ b = Prefix(a, m)
      BY <1>1, <1>2, <1>3, <1>4, <2>1, <2>5
    <3>2. QED
      BY <3>1 DEF IsAbove
  <2>6. QED
    BY <1>1, <2>3, <2>4, <2>5
<1>8. QED
  BY <1>1, <1>4, <1>5, <1>6, <1>7

\* The way down from a directory to what is below it goes through a child.
LEMMA ChildOnTheWay ==
    ASSUME NEW p \in Path, NEW q, IsAbove(q, p)
    PROVE  \E c \in Path : /\ Len(c) > 1 /\ Parent(c) = q
                           /\ c = p \/ IsAbove(c, p)
<1>1. Len(p) \in Nat
  BY DEF Path
<1>2. PICK n \in 1 .. Len(p) - 1 : q = Prefix(p, n)
  BY DEF IsAbove
<1> DEFINE c == Prefix(p, n + 1)
<1>3. n + 1 \in 1 .. Len(p) /\ n \in 1 .. n + 1
  BY <1>1
<1>4. c \in Path /\ Len(c) = n + 1 /\ Prefix(c, n) = q
  BY <1>2, <1>3, PrefixFacts
<1>5. Len(c) > 1 /\ Parent(c) = q
  BY <1>4 DEF Parent
<1>6. CASE n + 1 = Len(p)
  <2>1. c = p
    BY <1>1, <1>6 DEF Prefix, Path
  <2>2. QED
    BY <1>4, <1>5, <2>1
<1>7. CASE n + 1 < Len(p)
  <2>1. IsAbove(c, p)
    BY <1>1, <1>3, <1>7 DEF IsAbove
  <2>2. QED
    BY <1>4, <1>5, <2>1
<1>8. QED
  BY <1>1, <1>3, <1>6, <1>7

-----------------------------------------------------------------------------
(***************************************************************************)
(* Trees of the configuration.                                             *)
(***************************************************************************)
LEMMA NodesArePaths == Node \subseteq Path /\ Roots \subseteq Node
BY NodeAssumption, RootsAssumption DEF Path

\* What a tree lists is below its root, and is a file that may exist.
LEMMA TreeFacts ==
    ASSUME NEW c \in Config, NEW i \in DOMAIN c
    PROVE  /\ Len(c) \in Nat /\ DOMAIN c = 1 .. Len(c)
           /\ c[i].root \in Roots
           /\ \A p \in DOMAIN c[i].files :
                 p \in Node /\ IsAbove(c[i].root, p) /\ c[i].files[p] \in Content
<1>1. Len(c) \in Nat /\ DOMAIN c = 1 .. Len(c)
  BY ConfigAssumption
<1>2. c[i].root \in Roots
  BY DEF Roots
<1>3. ASSUME NEW p \in DOMAIN c[i].files
      PROVE  p \in Node /\ IsAbove(c[i].root, p) /\ c[i].files[p] \in Content
  <2>1. c[i].files[p] \in Content
    BY <1>3 DEF Content
  <2>2. QED
    BY <1>3, <2>1, ConfigAssumption
<1>4. QED
  BY <1>1, <1>2, <1>3

\* A path is in one tree at most.
LEMMA OneTree ==
    ASSUME NEW p \in Node, NEW t \in Roots, NEW u \in Roots,
           p = t \/ IsAbove(t, p), p = u \/ IsAbove(u, p)
    PROVE  t = u
<1>1. p \in Path
  BY NodesArePaths
<1>2. CASE p = t
  BY <1>2, RootsAssumption
<1>3. CASE p = u
  BY <1>3, RootsAssumption
<1>4. CASE IsAbove(t, p) /\ IsAbove(u, p)
  BY <1>1, <1>4, AboveFacts, RootsAssumption
<1>5. QED
  BY <1>2, <1>3, <1>4

-----------------------------------------------------------------------------
(***************************************************************************)
(* What a step does to the files.                                          *)
(***************************************************************************)
Without(p) == [q \in DOMAIN fs \ {p} |-> fs[q]]
With(p, x) == [q \in DOMAIN fs \cup {p} |-> IF q = p THEN x ELSE fs[q]]

LEMMA AncestorsAreDirs ==
    ASSUME NEW f, NEW p, NEW q, IsTree(f), p \in DOMAIN f, IsAbove(q, p), InTree(q)
    PROVE  q \in DOMAIN f /\ f[q] = Dir
<1>1. PICK n \in 1 .. Len(p) - 1 : q = Prefix(p, n)
  BY DEF IsAbove
<1>2. QED
  BY <1>1 DEF IsTree

\* What is below a node is in its tree, and so is every node on the way.
LEMMA InTreeBelow ==
    ASSUME NEW p \in Node, NEW c \in Path, IsAbove(p, c)
    PROVE  InTree(c)
<1>1. PICK t \in Roots : p = t \/ IsAbove(t, p)
  BY NodeAssumption DEF InTree
<1>2. IsAbove(t, c)
  BY <1>1, AboveFacts
<1>3. QED
  BY <1>2 DEF InTree

\* A directory with something below it has a child.
LEMMA HasChild ==
    ASSUME NEW p \in Node, NEW q \in DOMAIN fs, IsFiles(fs), IsTree(fs), IsAbove(p, q)
    PROVE  \E c \in ChildrenOf(p) : c = q \/ IsAbove(c, q)
<1>1. q \in Path
  BY NodesArePaths DEF IsFiles
<1>2. PICK c \in Path : Len(c) > 1 /\ Parent(c) = p /\ (c = q \/ IsAbove(c, q))
  BY <1>1, ChildOnTheWay
<1>3. IsAbove(p, c)
  BY <1>2, ParentFacts
<1>4. InTree(c)
  BY <1>3, InTreeBelow
<1>5. c \in DOMAIN fs
  BY <1>2, <1>4, AncestorsAreDirs
<1>6. QED
  BY <1>2, <1>5 DEF ChildrenOf

LEMMA WithoutFacts ==
    ASSUME NEW p \in Node, IsFiles(fs), IsTree(fs), ChildrenOf(p) = {}
    PROVE  IsFiles(Without(p)) /\ IsTree(Without(p))
<1> DEFINE g == Without(p)
<1>1. DOMAIN g = DOMAIN fs \ {p} /\ \A q \in DOMAIN g : g[q] = fs[q]
  BY DEF Without
<1>2. IsFiles(g)
  BY <1>1 DEF IsFiles
<1>3. ASSUME NEW q \in DOMAIN g, NEW n \in 1 .. Len(q) - 1, InTree(Prefix(q, n))
      PROVE  Prefix(q, n) \in DOMAIN g /\ g[Prefix(q, n)] = Dir
  <2>1. IsAbove(Prefix(q, n), q)
    BY DEF IsAbove
  <2>2. Prefix(q, n) \in DOMAIN fs /\ fs[Prefix(q, n)] = Dir
    BY <1>1, <1>3, <2>1, AncestorsAreDirs
  <2>3. Prefix(q, n) # p
    BY <1>1, <2>1, HasChild
  <2>4. QED
    BY <1>1, <2>2, <2>3
<1>4. IsTree(g)
  BY <1>3 DEF IsTree
<1>5. QED
  BY <1>2, <1>4

LEMMA WithFacts ==
    ASSUME NEW p \in Node, NEW x \in Content, IsFiles(fs), IsTree(fs),
           p \notin DOMAIN fs, IsDir(Parent(p))
    PROVE  IsFiles(With(p, x)) /\ IsTree(With(p, x))
<1> DEFINE g == With(p, x)
<1>1. /\ DOMAIN g = DOMAIN fs \cup {p}
      /\ g[p] = x
      /\ \A q \in DOMAIN fs : g[q] = fs[q]
  BY DEF With
<1>2. IsFiles(g)
  BY <1>1 DEF IsFiles
<1>3. ASSUME NEW q \in DOMAIN g, NEW n \in 1 .. Len(q) - 1, InTree(Prefix(q, n))
      PROVE  Prefix(q, n) \in DOMAIN g /\ g[Prefix(q, n)] = Dir
  <2>1. IsAbove(Prefix(q, n), q)
    BY DEF IsAbove
  <2>2. Prefix(q, n) \in DOMAIN fs /\ fs[Prefix(q, n)] = Dir
    <3>1. CASE q = p
      <4>1. Prefix(q, n) = Parent(p) \/ IsAbove(Prefix(q, n), Parent(p))
        BY <2>1, <3>1, NodesArePaths, ParentFacts
      <4>2. QED
        BY <1>3, <4>1, AncestorsAreDirs DEF IsDir
    <3>2. CASE q \in DOMAIN fs
      BY <1>3, <2>1, <3>2, AncestorsAreDirs
    <3>3. QED
      BY <1>1, <3>1, <3>2
  <2>3. QED
    BY <1>1, <2>2
<1>4. IsTree(g)
  BY <1>3 DEF IsTree
<1>5. QED
  BY <1>2, <1>4

-----------------------------------------------------------------------------
(***************************************************************************)
(* Types.                                                                  *)
(***************************************************************************)
\* The state of a run that TypeOK allows.
IsRunState(s) ==
    /\ s \in RunType
    /\ s.pc # "idle" => s.mine \in Config
    /\ s.pc \notin {"idle", "start"} => s.i \in DOMAIN s.mine

LEMMA IdleTyped ==
    ASSUME NEW x \in {"none", "ok", "failed", "killed"}
    PROVE  IsRunState(Idle(x)) /\ Idle(x).pc = "idle" /\ Idle(x).alone = FALSE
                               /\ Idle(x).result = x
BY DEF IsRunState, RunType, Idle

LEMMA RunStates ==
    ASSUME TypeOK
    PROVE  \A r \in Run : IsRunState(run[r])
BY DEF TypeOK, IsRunState

LEMMA GoTyped ==
    ASSUME TypeOK, NEW r \in Run, NEW s, IsRunState(s), Go(r, s),
           IsFiles(fs)', IsTree(fs)', conf' \in Config, acts' \in 0 .. MaxActs
    PROVE  TypeOK'
<1>1. run' \in [Run -> RunType] /\ \A q \in Run : run'[q] = IF q = r THEN s ELSE run[q]
  BY DEF TypeOK, Go, IsRunState
<1>2. \A q \in Run : IsRunState(run'[q])
  BY <1>1, RunStates
<1>3. QED
  BY <1>1, <1>2 DEF TypeOK, IsRunState

LEMMA WalkNextTyped ==
    ASSUME TypeOK, NEW r \in Run, run[r].pc # "idle", NEW i \in Nat \ {0}, WalkNext(r, i),
           UNCHANGED <<fs, conf, acts>>
    PROVE  TypeOK'
<1>1. run[r] \in RunType /\ run[r].mine \in Config
  BY RunStates DEF IsRunState
<1>2. Len(run[r].mine) \in Nat /\ DOMAIN run[r].mine = 1 .. Len(run[r].mine)
  BY <1>1, ConfigAssumption
<1>3. IsFiles(fs)' /\ IsTree(fs)' /\ conf' \in Config /\ acts' \in 0 .. MaxActs
  BY DEF TypeOK, IsFiles, IsTree
<1>4. CASE i <= Len(run[r].mine)
  <2> DEFINE s == [run[r] EXCEPT !.pc = "walk", !.i = i, !.todo = {run[r].mine[i].root},
                              !.rm = {}, !.existing = {}]
  <2>1. i \in DOMAIN run[r].mine
    BY <1>2, <1>4
  <2>2. run[r].mine[i].root \in Node
    BY <1>1, <2>1, TreeFacts, RootsAssumption
  <2>3. IsRunState(s)
    BY <1>1, <2>1, <2>2 DEF IsRunState, RunType
  <2>4. QED
    BY <1>3, <1>4, <2>3, GoTyped DEF WalkNext
<1>5. CASE ~ (i <= Len(run[r].mine))
  <2>1. IsRunState([Idle("ok") EXCEPT !.alone = run[r].alone])
    BY <1>1 DEF IsRunState, RunType, Idle
  <2>2. QED
    BY <1>3, <1>5, <2>1, GoTyped DEF WalkNext
<1>6. QED
  BY <1>4, <1>5

\* A file that the tree of a run lists, and its directory.
LEMMA Busy ==
    ASSUME TypeOK, NEW r \in Run, run[r].pc \notin {"idle", "start"}
    PROVE  /\ run[r] \in RunType /\ run[r].mine \in Config
           /\ run[r].i \in DOMAIN run[r].mine /\ run[r].i \in Nat \ {0}
           /\ Tree(r).root \in Roots
           /\ \A p \in DOMAIN Tree(r).files :
                 p \in Node /\ IsAbove(Tree(r).root, p) /\ Tree(r).files[p] \in Content
<1>1. run[r] \in RunType /\ run[r].mine \in Config /\ run[r].i \in DOMAIN run[r].mine
  BY RunStates DEF IsRunState
<1>2. run[r].i \in Nat \ {0}
  BY <1>1, TreeFacts
<1>3. QED
  BY <1>1, <1>2, TreeFacts DEF Tree

LEMMA SameFiles ==
    ASSUME TypeOK, UNCHANGED fs
    PROVE  IsFiles(fs)' /\ IsTree(fs)'
BY DEF TypeOK, IsFiles, IsTree

LEMMA RemovedFiles ==
    ASSUME TypeOK, NEW p \in Node, ChildrenOf(p) = {}, fs' = Without(p)
    PROVE  IsFiles(fs)' /\ IsTree(fs)'
<1>1. IsFiles(Without(p)) /\ IsTree(Without(p))
  BY WithoutFacts DEF TypeOK
<1>2. QED
  BY <1>1 DEF IsFiles, IsTree

LEMMA CreatedFiles ==
    ASSUME TypeOK, NEW p \in Node, NEW x \in Content, p \notin DOMAIN fs, IsDir(Parent(p)),
           fs' = With(p, x)
    PROVE  IsFiles(fs)' /\ IsTree(fs)'
<1>1. IsFiles(With(p, x)) /\ IsTree(With(p, x))
  BY WithFacts DEF TypeOK
<1>2. QED
  BY <1>1 DEF IsFiles, IsTree

LEMMA FailTyped ==
    ASSUME TypeOK, NEW r \in Run, Fail(r), UNCHANGED <<fs, conf, acts>>
    PROVE  TypeOK'
<1>1. IsRunState(Idle("failed"))
  BY IdleTyped
<1>2. conf' \in Config /\ acts' \in 0 .. MaxActs
  BY DEF TypeOK
<1>3. QED
  BY <1>1, <1>2, SameFiles, GoTyped DEF Fail

LEMMA DisturbTyped ==
    ASSUME TypeOK, Disturb, IsFiles(fs)', IsTree(fs)', conf' \in Config, acts' \in 0 .. MaxActs
    PROVE  TypeOK'
<1>1. \A r \in Run : IsRunState([run[r] EXCEPT !.alone = FALSE])
  BY RunStates DEF IsRunState, RunType
<1>2. run' \in [Run -> RunType] /\ \A r \in Run : IsRunState(run'[r])
  BY <1>1 DEF Disturb, IsRunState
<1>3. QED
  BY <1>2 DEF TypeOK, IsRunState

LEMMA TypeStep ==
    ASSUME TypeOK, [Next]_vars
    PROVE  TypeOK'
<1>1. ASSUME NEW r \in Run, StartRun(r) PROVE TypeOK'
  <2> DEFINE s == [Idle("none") EXCEPT !.pc = "start", !.mine = conf,
                         !.alone = \A o \in Run \ {r} : run[o].pc = "idle"]
  <2>1. IsRunState(s)
    BY DEF TypeOK, IsRunState, RunType, Idle
  <2>2. \A q \in Run : IsRunState([run[q] EXCEPT !.alone = FALSE])
    BY RunStates DEF IsRunState, RunType
  <2>3. run' \in [Run -> RunType] /\ \A q \in Run : IsRunState(run'[q])
    BY <1>1, <2>1, <2>2 DEF StartRun, IsRunState
  <2>4. conf' \in Config /\ acts' \in 0 .. MaxActs /\ IsFiles(fs)' /\ IsTree(fs)'
    BY <1>1, SameFiles DEF StartRun, TypeOK
  <2>5. QED
    BY <2>3, <2>4 DEF TypeOK, IsRunState
<1>2. ASSUME NEW r \in Run, StartTrees(r) PROVE TypeOK'
  BY <1>2, WalkNextTyped DEF StartTrees
<1>3. ASSUME NEW r \in Run, VisitMissing(r) PROVE TypeOK'
  BY <1>3, FailTyped DEF VisitMissing
<1>4. ASSUME NEW r \in Run, Visit(r) PROVE TypeOK'
  <2>1. PICK p \in run[r].todo :
           /\ run[r].pc = "walk" /\ p \in DOMAIN fs
           /\ Go(r, [run[r] EXCEPT
                !.todo = (@ \ {p}) \cup (IF fs[p] = Dir THEN ChildrenOf(p) ELSE {}),
                !.existing = @ \cup (IF IsExpected(r, p) THEN {p} ELSE {}),
                !.rm = @ \cup (IF IsExpected(r, p) \/ p = Tree(r).root THEN {} ELSE {p})])
           /\ UNCHANGED <<fs, conf, acts>>
    BY <1>4 DEF Visit, IsVisited
  <2> DEFINE todo == (run[r].todo \ {p}) \cup (IF fs[p] = Dir THEN ChildrenOf(p) ELSE {})
             existing == run[r].existing \cup (IF IsExpected(r, p) THEN {p} ELSE {})
             rm == run[r].rm \cup (IF IsExpected(r, p) \/ p = Tree(r).root THEN {} ELSE {p})
  <2>2. todo \subseteq Node /\ existing \subseteq Node /\ rm \subseteq Node
    BY <2>1, Busy DEF TypeOK, IsFiles, ChildrenOf, RunType
  <2> HIDE DEF todo, existing, rm
  <2>3. IsRunState([run[r] EXCEPT !.todo = todo, !.existing = existing, !.rm = rm])
    BY <2>1, <2>2, Busy DEF IsRunState, RunType
  <2>4. Go(r, [run[r] EXCEPT !.todo = todo, !.existing = existing, !.rm = rm])
    BY <2>1 DEF todo, existing, rm
  <2>5. conf' \in Config /\ acts' \in 0 .. MaxActs
    BY <2>1 DEF TypeOK
  <2>6. QED
    BY <2>1, <2>3, <2>4, <2>5, SameFiles, GoTyped
<1>5. ASSUME NEW r \in Run, WalkDone(r) PROVE TypeOK'
  <2>1. IsRunState([run[r] EXCEPT !.pc = "remove"])
    BY <1>5, Busy DEF WalkDone, IsRunState, RunType
  <2>2. conf' \in Config /\ acts' \in 0 .. MaxActs
    BY <1>5 DEF WalkDone, TypeOK
  <2>3. QED
    BY <1>5, <2>1, <2>2, SameFiles, GoTyped DEF WalkDone
<1>6. ASSUME NEW r \in Run, RemoveLast(r) PROVE TypeOK'
  <2>1. PICK p \in run[r].rm :
           /\ run[r].pc = "remove"
           /\ IF p \in DOMAIN fs /\ ChildrenOf(p) = {}
              THEN fs' = Without(p) /\ Go(r, [run[r] EXCEPT !.rm = @ \ {p}])
              ELSE Fail(r) /\ UNCHANGED fs
           /\ UNCHANGED <<conf, acts>>
    BY <1>6 DEF RemoveLast, Without
  <2>2. p \in Node
    BY <2>1, Busy DEF RunType
  <2>3. CASE p \in DOMAIN fs /\ ChildrenOf(p) = {}
    <3>1. IsRunState([run[r] EXCEPT !.rm = @ \ {p}])
      BY <2>1, Busy DEF IsRunState, RunType
    <3>2. IsFiles(fs)' /\ IsTree(fs)'
      BY <2>1, <2>2, <2>3, RemovedFiles
    <3>3. conf' \in Config /\ acts' \in 0 .. MaxActs
      BY <2>1 DEF TypeOK
    <3>4. QED
      BY <2>1, <2>3, <3>1, <3>2, <3>3, GoTyped
  <2>4. CASE ~ (p \in DOMAIN fs /\ ChildrenOf(p) = {})
    BY <2>1, <2>4, FailTyped
  <2>5. QED
    BY <2>3, <2>4
<1>7. ASSUME NEW r \in Run, RemoveDone(r) PROVE TypeOK'
  <2>1. IsRunState([run[r] EXCEPT !.pc = "create"])
    BY <1>7, Busy DEF RemoveDone, IsRunState, RunType
  <2>2. conf' \in Config /\ acts' \in 0 .. MaxActs
    BY <1>7 DEF RemoveDone, TypeOK
  <2>3. QED
    BY <1>7, <2>1, <2>2, SameFiles, GoTyped DEF RemoveDone
<1>8. ASSUME NEW r \in Run, CreateFirst(r) PROVE TypeOK'
  <2>1. PICK p \in Missing(r) :
           /\ run[r].pc = "create"
           /\ IF p \notin DOMAIN fs /\ IsDir(Parent(p))
              THEN /\ fs' = With(p, Tree(r).files[p])
                   /\ Go(r, [run[r] EXCEPT !.existing = @ \cup {p}])
              ELSE Fail(r) /\ UNCHANGED fs
           /\ UNCHANGED <<conf, acts>>
    BY <1>8 DEF CreateFirst, With
  <2>2. p \in Node /\ Tree(r).files[p] \in Content
    BY <2>1, Busy DEF Missing
  <2>3. CASE p \notin DOMAIN fs /\ IsDir(Parent(p))
    <3>1. IsRunState([run[r] EXCEPT !.existing = @ \cup {p}])
      BY <2>1, <2>2, Busy DEF IsRunState, RunType
    <3>2. IsFiles(fs)' /\ IsTree(fs)'
      BY <2>1, <2>2, <2>3, CreatedFiles
    <3>3. conf' \in Config /\ acts' \in 0 .. MaxActs
      BY <2>1 DEF TypeOK
    <3>4. QED
      BY <2>1, <2>3, <3>1, <3>2, <3>3, GoTyped
  <2>4. CASE ~ (p \notin DOMAIN fs /\ IsDir(Parent(p)))
    BY <2>1, <2>4, FailTyped
  <2>5. QED
    BY <2>3, <2>4
<1>9. ASSUME NEW r \in Run, CreateDone(r) PROVE TypeOK'
  <2>1. run[r].i + 1 \in Nat \ {0}
    BY <1>9, Busy DEF CreateDone
  <2>2. QED
    BY <1>9, <2>1, WalkNextTyped DEF CreateDone
<1>10. ASSUME NEW r \in Run, Kill(r) PROVE TypeOK'
  <2>1. IsRunState(Idle("killed"))
    BY IdleTyped
  <2>2. conf' \in Config /\ acts' \in 0 .. MaxActs
    BY <1>10, NodeAssumption DEF Kill, Besides, TypeOK
  <2>3. QED
    BY <1>10, <2>1, <2>2, SameFiles, GoTyped DEF Kill
<1>11. ASSUME NEW p \in Node, Put(p) PROVE TypeOK'
  <2>1. PICK x \in UserContent : fs' = With(p, x)
    BY <1>11 DEF Put, With
  <2>2. x \in Content
    BY DEF Content
  <2>3. IsFiles(fs)' /\ IsTree(fs)'
    BY <1>11, <2>1, <2>2, CreatedFiles DEF Put
  <2>4. conf' \in Config /\ acts' \in 0 .. MaxActs
    BY <1>11, NodeAssumption DEF Put, Besides, TypeOK
  <2>5. QED
    BY <1>11, <2>3, <2>4, DisturbTyped DEF Put
<1>12. ASSUME NEW p \in Node, Drop(p) PROVE TypeOK'
  <2>1. IsFiles(fs)' /\ IsTree(fs)'
    BY <1>12, RemovedFiles DEF Drop, Without
  <2>2. conf' \in Config /\ acts' \in 0 .. MaxActs
    BY <1>12, NodeAssumption DEF Drop, Besides, TypeOK
  <2>3. QED
    BY <1>12, <2>1, <2>2, DisturbTyped DEF Drop
<1>13. CASE Configure
  <2>1. conf' \in Config /\ acts' \in 0 .. MaxActs
    BY <1>13, NodeAssumption DEF Configure, Besides, TypeOK
  <2>2. QED
    BY <1>13, <2>1, SameFiles, DisturbTyped DEF Configure
<1>14. CASE UNCHANGED vars
  BY <1>14 DEF vars, TypeOK, IsFiles, IsTree
<1>15. QED
  BY <1>1, <1>2, <1>3, <1>4, <1>5, <1>6, <1>7, <1>8, <1>9, <1>10, <1>11, <1>12, <1>13,
     <1>14 DEF Next, RunStep

LEMMA TypeInit == Init => TypeOK
<1> SUFFICES ASSUME Init PROVE TypeOK
  OBVIOUS
<1>1. IsFiles(fs) /\ IsTree(fs)
  BY InitialAssumption DEF Init
<1>2. run \in [Run -> RunType] /\ \A r \in Run : run[r].pc = "idle"
  BY DEF Init, Idle, RunType
<1>3. QED
  BY <1>1, <1>2, NodeAssumption DEF Init, TypeOK

\* The files stay a tree, and every run in what its configuration lists.
THEOREM TypeCorrect == Spec => []TypeOK
BY TypeInit, TypeStep, PTL DEF Spec

-----------------------------------------------------------------------------
(***************************************************************************)
(* The inductive invariant, for files f, a configuration c, and a run in   *)
(* state s.                                                                *)
(***************************************************************************)
Applied(f, tree) ==
    /\ {p \in DOMAIN f : IsAbove(tree.root, p)} = DOMAIN tree.files
    /\ \A p \in DOMAIN tree.files : f[p] = tree.files[p]

IsRight(f, tree, p) == p \in DOMAIN tree.files /\ p \in DOMAIN f /\ f[p] = tree.files[p]

TreeOf(s) == s.mine[s.i]

\* What the run has found to be right, is.
ExistingIsRight(f, s) == \A p \in s.existing : IsRight(f, TreeOf(s), p)

\* What it is going to remove is in the tree, and is not right.
RmIsWrong(f, s) ==
    \A p \in s.rm : IsAbove(TreeOf(s).root, p) /\ ~ IsRight(f, TreeOf(s), p)

\* The walk stays in the tree, and the files that it has not seen are ahead.
TodoIsInTree(s) == \A p \in s.todo : p = TreeOf(s).root \/ IsAbove(TreeOf(s).root, p)
IsAhead(s, q) == \E p \in s.todo : p = q \/ IsAbove(p, q)
NothingIsMissed(f, s) ==
    \A q \in DOMAIN f :
       IsAbove(TreeOf(s).root, q) => q \in s.rm \cup s.existing \/ IsAhead(s, q)

EarlierApplied(f, s) == \A j \in 1 .. s.i - 1 : Applied(f, s.mine[j])

Progress(f, s) ==
    /\ s.pc # "walk" => s.todo = {}
    /\ s.pc = "create" => s.rm = {}
    /\ ExistingIsRight(f, s) /\ RmIsWrong(f, s)
    /\ TodoIsInTree(s) /\ NothingIsMissed(f, s)
    /\ EarlierApplied(f, s)

\* A run works at the trees that are configured, and says "ok" when they are applied.
Right(f, c, s) ==
    /\ s.pc # "idle" => s.mine = c /\ s.result # "ok"
    /\ s.pc \notin {"idle", "start"} => Progress(f, s)
    /\ s.result = "ok" => \A i \in DOMAIN c : Applied(f, c[i])

AloneIsRight(r) ==
    run[r].alone =>
       /\ \A o \in Run \ {r} : run[o].pc = "idle"
       /\ Right(fs, conf, run[r])

IInv == TypeOK /\ \A r \in Run : AloneIsRight(r)

-----------------------------------------------------------------------------
(***************************************************************************)
(* Each step of a run that is alone.                                       *)
(***************************************************************************)
\* What happens below one root leaves the other trees as they are.
LEMMA OthersStayApplied ==
    ASSUME NEW c \in Config, NEW i \in DOMAIN c, NEW j \in DOMAIN c, i # j,
           NEW p \in Node, IsAbove(c[i].root, p),
           NEW f, NEW g,
           DOMAIN f \ {p} = DOMAIN g \ {p}, \A q \in DOMAIN f \ {p} : f[q] = g[q],
           Applied(f, c[j])
    PROVE  Applied(g, c[j])
<1>1. ~ IsAbove(c[j].root, p)
  BY TreeFacts, OneTree, RootsAssumption
<1>2. p \notin DOMAIN c[j].files
  BY <1>1, TreeFacts
<1>3. \A q : IsAbove(c[j].root, q) => q # p
  BY <1>1
<1>4. QED
  BY <1>2, <1>3 DEF Applied

\* A run that begins with a tree has it ahead.
LEMMA WalkNextRight ==
    ASSUME NEW f, NEW c \in Config, NEW s, s.mine = c, NEW i \in Nat \ {0},
           \A j \in 1 .. i - 1 : j \in DOMAIN c => Applied(f, c[j])
    PROVE  /\ i <= Len(c) => \A t :
                 t.pc = "walk" /\ t.mine = c /\ t.i = i /\ t.todo = {c[i].root}
                 /\ t.rm = {} /\ t.existing = {} /\ t.result # "ok" => Right(f, c, t)
           /\ ~ (i <= Len(c)) => \A j \in DOMAIN c : Applied(f, c[j])
<1>1. Len(c) \in Nat /\ DOMAIN c = 1 .. Len(c)
  BY ConfigAssumption
<1>2. ASSUME i <= Len(c), NEW t,
             t.pc = "walk", t.mine = c, t.i = i, t.todo = {c[i].root},
             t.rm = {}, t.existing = {}, t.result # "ok"
      PROVE  Right(f, c, t)
  <2>1. ExistingIsRight(f, t) /\ RmIsWrong(f, t)
    BY <1>2 DEF ExistingIsRight, RmIsWrong
  <2>2. TodoIsInTree(t) /\ NothingIsMissed(f, t)
    BY <1>2 DEF TodoIsInTree, NothingIsMissed, IsAhead, TreeOf
  <2>3. EarlierApplied(f, t)
    BY <1>1, <1>2 DEF EarlierApplied
  <2>4. QED
    BY <1>2, <2>1, <2>2, <2>3 DEF Right, Progress
<1>3. QED
  BY <1>1, <1>2

\* The walk has a file and its children instead of what is below the file.
LEMMA VisitRight ==
    ASSUME TypeOK, NEW s, NEW t, NEW p \in s.todo, p \in DOMAIN fs, s.pc = "walk",
           s.todo \subseteq Node, TreeOf(s).root \in Node, Progress(fs, s),
           t.pc = s.pc, t.mine = s.mine, t.i = s.i,
           t.todo = (s.todo \ {p}) \cup (IF fs[p] = Dir THEN ChildrenOf(p) ELSE {}),
           t.existing = s.existing \cup (IF IsRight(fs, TreeOf(s), p) THEN {p} ELSE {}),
           t.rm = s.rm \cup
                     (IF IsRight(fs, TreeOf(s), p) \/ p = TreeOf(s).root THEN {} ELSE {p})
    PROVE  Progress(fs, t)
<1> DEFINE root == TreeOf(s).root
<1>1. TreeOf(t) = TreeOf(s)
  BY DEF TreeOf
<1>2. ExistingIsRight(fs, t)
  BY <1>1 DEF Progress, ExistingIsRight
<1>3. p = root \/ IsAbove(root, p)
  BY DEF Progress, TodoIsInTree
<1>4. RmIsWrong(fs, t)
  BY <1>1, <1>3 DEF Progress, RmIsWrong
<1>5. TodoIsInTree(t)
  <2>1. ASSUME NEW q \in ChildrenOf(p) PROVE IsAbove(root, q)
    <3>1. q \in Path /\ Len(q) > 1 /\ Parent(q) = p
      BY NodesArePaths DEF ChildrenOf, TypeOK, IsFiles
    <3>2. QED
      BY <1>3, <3>1, ParentFacts
  <2>2. QED
    BY <1>1, <2>1 DEF Progress, TodoIsInTree
<1>6. ASSUME NEW q \in DOMAIN fs, IsAbove(root, q)
      PROVE  q \in t.rm \cup t.existing \/ IsAhead(t, q)
  <2>1. CASE q \in s.rm \cup s.existing
    BY <2>1
  <2>2. CASE q = p
    <3>1. q # root
      BY <1>6, NodesArePaths, AboveFacts DEF TypeOK, IsFiles
    <3>2. QED
      BY <2>2, <3>1
  <2>3. CASE IsAbove(p, q)
    <3>1. p \in Node /\ InTree(p)
      BY NodeAssumption
    <3>2. fs[p] = Dir
      BY <2>3, <3>1, AncestorsAreDirs DEF TypeOK
    <3>3. \E c \in ChildrenOf(p) : c = q \/ IsAbove(c, q)
      BY <2>3, <3>1, HasChild DEF TypeOK
    <3>4. QED
      BY <3>2, <3>3 DEF IsAhead
  <2>4. CASE \E o \in s.todo \ {p} : o = q \/ IsAbove(o, q)
    BY <2>4 DEF IsAhead
  <2>5. QED
    BY <1>6, <2>1, <2>2, <2>3, <2>4 DEF Progress, NothingIsMissed, IsAhead
<1>7. NothingIsMissed(fs, t)
  BY <1>1, <1>6 DEF NothingIsMissed
<1>8. EarlierApplied(fs, t)
  BY DEF Progress, EarlierApplied
<1>9. QED
  BY <1>2, <1>4, <1>5, <1>7, <1>8 DEF Progress

\* What is removed is not right, and in no other tree.
LEMMA RemoveRight ==
    ASSUME NEW s, NEW t, s.mine \in Config, s.i \in DOMAIN s.mine,
           NEW p \in s.rm, p \in Node, s.pc = "remove", Progress(fs, s),
           t.pc = s.pc, t.mine = s.mine, t.i = s.i, t.todo = s.todo,
           t.existing = s.existing, t.rm = s.rm \ {p}
    PROVE  /\ Progress(Without(p), t)
           /\ \A q : IsRight(fs, TreeOf(s), q) => IsRight(Without(p), TreeOf(s), q)
<1> DEFINE g == Without(p)
<1>1. DOMAIN g = DOMAIN fs \ {p} /\ \A q \in DOMAIN g : g[q] = fs[q]
  BY DEF Without
<1>2. TreeOf(t) = TreeOf(s)
  BY DEF TreeOf
<1>3. IsAbove(TreeOf(s).root, p) /\ ~ IsRight(fs, TreeOf(s), p)
  BY DEF Progress, RmIsWrong
<1> HIDE DEF g
<1>4. \A q : IsRight(fs, TreeOf(s), q) => IsRight(g, TreeOf(s), q)
  BY <1>1, <1>3 DEF IsRight
<1>5. ExistingIsRight(g, t)
  BY <1>2, <1>4 DEF Progress, ExistingIsRight
<1>6. RmIsWrong(g, t)
  BY <1>1, <1>2 DEF Progress, RmIsWrong, IsRight
<1>7. TodoIsInTree(t)
  BY <1>2 DEF Progress, TodoIsInTree
<1>8. NothingIsMissed(g, t)
  BY <1>1, <1>2 DEF Progress, NothingIsMissed, IsAhead
<1>9. EarlierApplied(g, t)
  <2>1. SUFFICES ASSUME NEW j \in 1 .. s.i - 1
                 PROVE  Applied(g, s.mine[j])
    BY DEF EarlierApplied
  <2>2. Applied(fs, s.mine[j])
    BY DEF Progress, EarlierApplied
  <2>3. j \in DOMAIN s.mine /\ j # s.i
    BY TreeFacts
  <2>4. DOMAIN fs \ {p} = DOMAIN g \ {p} /\ \A q \in DOMAIN fs \ {p} : fs[q] = g[q]
    BY <1>1
  <2>5. IsAbove(s.mine[s.i].root, p)
    BY <1>3 DEF TreeOf
  <2>6. QED
    <3> DEFINE c == s.mine
               k == s.i
    <3>1. c \in Config /\ k \in DOMAIN c /\ j \in DOMAIN c /\ k # j
      BY <2>3
    <3>2. IsAbove(c[k].root, p) /\ Applied(fs, c[j])
      BY <2>2, <2>5
    <3> HIDE DEF c, k
    <3>3. Applied(g, c[j])
      BY <2>4, <3>1, <3>2, OthersStayApplied
    <3> QED BY <3>3 DEF c
<1>10. Progress(g, t)
  BY <1>5, <1>6, <1>7, <1>8, <1>9 DEF Progress
<1>11. QED
  BY <1>4, <1>10 DEF g

\* What is created is right, and in no other tree.
LEMMA CreateRight ==
    ASSUME NEW s, NEW t, s.mine \in Config, s.i \in DOMAIN s.mine,
           NEW p \in DOMAIN TreeOf(s).files, p \notin DOMAIN fs,
           s.pc = "create", Progress(fs, s),
           t.pc = s.pc, t.mine = s.mine, t.i = s.i, t.todo = s.todo,
           t.existing = s.existing \cup {p}, t.rm = s.rm
    PROVE  /\ Progress(With(p, TreeOf(s).files[p]), t)
           /\ \A q : IsRight(fs, TreeOf(s), q) =>
                        IsRight(With(p, TreeOf(s).files[p]), TreeOf(s), q)
<1> DEFINE g == With(p, TreeOf(s).files[p])
<1>1. /\ DOMAIN g = DOMAIN fs \cup {p} /\ g[p] = TreeOf(s).files[p]
      /\ \A q \in DOMAIN fs : g[q] = fs[q]
  BY DEF With
<1>2. TreeOf(t) = TreeOf(s)
  BY DEF TreeOf
<1>3. p \in Node /\ IsAbove(TreeOf(s).root, p)
  BY TreeFacts DEF TreeOf
<1> HIDE DEF g
<1>4. \A q : IsRight(fs, TreeOf(s), q) => IsRight(g, TreeOf(s), q)
  BY <1>1 DEF IsRight
<1>5. ExistingIsRight(g, t)
  BY <1>1, <1>2, <1>4 DEF Progress, ExistingIsRight, IsRight
<1>6. RmIsWrong(g, t)
  BY DEF Progress, RmIsWrong
<1>7. TodoIsInTree(t)
  BY <1>2 DEF Progress, TodoIsInTree
<1>8. NothingIsMissed(g, t)
  BY <1>1, <1>2 DEF Progress, NothingIsMissed, IsAhead
<1>9. EarlierApplied(g, t)
  <2>1. SUFFICES ASSUME NEW j \in 1 .. s.i - 1
                 PROVE  Applied(g, s.mine[j])
    BY DEF EarlierApplied
  <2>2. Applied(fs, s.mine[j])
    BY DEF Progress, EarlierApplied
  <2>3. j \in DOMAIN s.mine /\ j # s.i
    BY TreeFacts
  <2>4. DOMAIN fs \ {p} = DOMAIN g \ {p} /\ \A q \in DOMAIN fs \ {p} : fs[q] = g[q]
    BY <1>1
  <2>5. IsAbove(s.mine[s.i].root, p)
    BY <1>3 DEF TreeOf
  <2>6. QED
    BY <1>3, <2>2, <2>3, <2>4, <2>5, OthersStayApplied
<1>10. Progress(g, t)
  BY <1>5, <1>6, <1>7, <1>8, <1>9 DEF Progress
<1>11. QED
  BY <1>4, <1>10 DEF g

\* A run that has created what was missing has applied its tree.
LEMMA NoneMissing ==
    ASSUME NEW f, NEW s, s.mine \in Config, s.i \in DOMAIN s.mine,
           s.pc = "create", Progress(f, s), DOMAIN TreeOf(s).files \ s.existing = {}
    PROVE  \A j \in 1 .. s.i : Applied(f, s.mine[j])
<1>1. s.i \in Nat \ {0}
  BY TreeFacts
<1>2. Applied(f, TreeOf(s))
  <2>1. \A p \in DOMAIN TreeOf(s).files : IsRight(f, TreeOf(s), p)
    BY DEF Progress, ExistingIsRight
  <2>2. \A p \in DOMAIN TreeOf(s).files : IsAbove(TreeOf(s).root, p)
    BY TreeFacts DEF TreeOf
  <2>3. \A p \in DOMAIN f : IsAbove(TreeOf(s).root, p) => p \in DOMAIN TreeOf(s).files
    BY DEF Progress, NothingIsMissed, IsAhead, ExistingIsRight, IsRight
  <2>4. QED
    BY <2>1, <2>2, <2>3 DEF Applied, IsRight
<1>3. QED
  BY <1>1, <1>2 DEF Progress, EarlierApplied, TreeOf

\* What the walk changes is not whether the run is alone.
LEMMA AloneStays ==
    ASSUME NEW s \in RunType
    PROVE  /\ \A a, b, c : [s EXCEPT !.todo = a, !.existing = b, !.rm = c].alone = s.alone
           /\ \A a, b : [s EXCEPT !.pc = "walk", !.i = a, !.todo = b, !.rm = {},
                                  !.existing = {}].alone = s.alone
<1>1. \A a, b, c : [s EXCEPT !.todo = a, !.existing = b, !.rm = c].alone = s.alone
  BY DEF RunType
<1>2. \A a, b : [s EXCEPT !.pc = "walk", !.i = a, !.todo = b, !.rm = {},
                          !.existing = {}].alone = s.alone
  BY DEF RunType
<1>3. QED
  BY <1>1, <1>2

\* What a run does to itself, whether alone or not.
LEMMA RunStepFacts ==
    ASSUME TypeOK, NEW r \in Run, RunStep(r)
    PROVE  /\ run[r].pc # "idle" /\ conf' = conf
           /\ \A q \in Run \ {r} : run'[q] = run[q]
           /\ run'[r].alone => run[r].alone
<1>1. run \in [Run -> RunType]
  BY DEF TypeOK
<1>2. \A s : Go(r, s) => run'[r] = s /\ \A q \in Run \ {r} : run'[q] = run[q]
  BY <1>1 DEF Go
<1>3. Idle("failed").alone = FALSE
  BY DEF Idle
<1>4. ASSUME Fail(r) PROVE ~ run'[r].alone /\ \A q \in Run \ {r} : run'[q] = run[q]
  BY <1>2, <1>3, <1>4 DEF Fail
<1>5. ASSUME NEW i, WalkNext(r, i)
      PROVE  run'[r].alone = run[r].alone /\ \A q \in Run \ {r} : run'[q] = run[q]
  <2>1. CASE i <= Len(run[r].mine)
    <3>1. PICK a, b : run'[r] = [run[r] EXCEPT !.pc = "walk", !.i = a, !.todo = b,
                                              !.rm = {}, !.existing = {}]
      BY <1>2, <1>5, <2>1 DEF WalkNext
    <3>2. run'[r].alone = run[r].alone
      BY <1>1, <3>1, AloneStays
    <3>3. QED
      BY <1>2, <1>5, <2>1, <3>2 DEF WalkNext
  <2>2. CASE ~ (i <= Len(run[r].mine))
    BY <1>1, <1>2, <1>5, <2>2 DEF WalkNext, RunType, Idle
  <2>3. QED
    BY <2>1, <2>2
<1>6. CASE StartTrees(r)
  BY <1>5, <1>6 DEF StartTrees
<1>7. CASE VisitMissing(r)
  BY <1>4, <1>7 DEF VisitMissing, IsVisited
<1>8. CASE Visit(r)
  <2>1. run[r].pc = "walk"
    BY <1>8 DEF Visit, IsVisited
  <2>2. PICK a, b, c : Go(r, [run[r] EXCEPT !.todo = a, !.existing = b, !.rm = c])
    BY <1>8 DEF Visit
  <2>3. run[r] \in RunType /\ conf' = conf
    BY <1>1, <1>8 DEF Visit
  <2>4. run'[r] = [run[r] EXCEPT !.todo = a, !.existing = b, !.rm = c]
    BY <1>2, <2>2
  <2>5. run'[r].alone = run[r].alone
    BY <2>3, <2>4, AloneStays
  <2>6. \A q \in Run \ {r} : run'[q] = run[q]
    BY <1>2, <2>2
  <2>7. run[r].pc # "idle"
    BY <2>1
  <2>8. QED
    BY <2>3, <2>5, <2>6, <2>7
<1>9. CASE WalkDone(r)
  BY <1>1, <1>2, <1>9 DEF WalkDone, RunType
<1>10. CASE RemoveLast(r)
  BY <1>1, <1>2, <1>4, <1>10 DEF RemoveLast, RunType
<1>11. CASE RemoveDone(r)
  BY <1>1, <1>2, <1>11 DEF RemoveDone, RunType
<1>12. CASE CreateFirst(r)
  BY <1>1, <1>2, <1>4, <1>12 DEF CreateFirst, RunType
<1>13. CASE CreateDone(r)
  BY <1>5, <1>13 DEF CreateDone
<1>14. QED
  BY <1>6, <1>7, <1>8, <1>9, <1>10, <1>11, <1>12, <1>13 DEF RunStep

\* A run that fails is right: it does not say "ok".
LEMMA FailRight ==
    ASSUME TypeOK, NEW r \in Run, Fail(r), NEW f, NEW c
    PROVE  Right(f, c, run'[r])
<1>1. run'[r] = Idle("failed")
  BY DEF TypeOK, Fail, Go
<1>2. run'[r].pc = "idle" /\ run'[r].result = "failed"
  BY <1>1 DEF Idle
<1>3. QED
  BY <1>2 DEF Right

LEMMA GoOnRight ==
    ASSUME TypeOK, NEW r \in Run, NEW i \in Nat \ {0}, WalkNext(r, i),
           run[r].pc # "idle", run[r].mine = conf, run[r].result # "ok",
           \A j \in 1 .. i - 1 : j \in DOMAIN conf => Applied(fs, conf[j])
    PROVE  Right(fs, conf, run'[r])
<1>1. run \in [Run -> RunType] /\ conf \in Config
  BY DEF TypeOK
<1>2. CASE i <= Len(conf)
  <2>1. run'[r] = [run[r] EXCEPT !.pc = "walk", !.i = i, !.todo = {run[r].mine[i].root},
                                 !.rm = {}, !.existing = {}]
    BY <1>1, <1>2 DEF WalkNext, Go
  <2>2. /\ run'[r].pc = "walk" /\ run'[r].i = i /\ run'[r].todo = {conf[i].root}
        /\ run'[r].rm = {} /\ run'[r].existing = {}
        /\ run'[r].mine = conf /\ run'[r].result # "ok"
    BY <1>1, <2>1 DEF RunType
  <2>3. QED
    BY <1>1, <1>2, <2>2, WalkNextRight
<1>3. CASE ~ (i <= Len(conf))
  <2>1. run'[r] = [Idle("ok") EXCEPT !.alone = run[r].alone]
    BY <1>1, <1>3 DEF WalkNext, Go
  <2>2. run'[r].pc = "idle"
    BY <2>1 DEF Idle
  <2>3. \A j \in DOMAIN conf : Applied(fs, conf[j])
    BY <1>1, <1>3, WalkNextRight
  <2>4. QED
    BY <2>2, <2>3 DEF Right
<1>4. QED
  BY <1>2, <1>3

\* A step of a run that is right leaves it right, and leaves right files alone.
LEMMA RunStepRight ==
    ASSUME TypeOK, NEW r \in Run, RunStep(r), Right(fs, conf, run[r])
    PROVE  /\ Right(fs', conf', run'[r])
           /\ run[r].pc \notin {"idle", "start"} =>
                 \A q : IsRight(fs, Tree(r), q) => IsRight(fs', Tree(r), q)
<1> DEFINE Keeps == \A q : IsRight(fs, Tree(r), q) => IsRight(fs', Tree(r), q)
<1>1. run \in [Run -> RunType] /\ run[r] \in RunType
  BY DEF TypeOK
<1>2. \A s : Go(r, s) => run'[r] = s
  BY <1>1 DEF Go
<1>3. fs' = fs => Keeps
  OBVIOUS
<1>4. run[r].pc # "idle" /\ conf' = conf
  BY RunStepFacts
<1>5. run[r].mine = conf /\ run[r].result # "ok"
  BY <1>4 DEF Right
<1>6. CASE StartTrees(r)
  BY <1>4, <1>5, <1>6, GoOnRight DEF StartTrees
<1> USE DEF Tree, TreeOf
<1>7. CASE VisitMissing(r)
  BY <1>3, <1>4, <1>7, FailRight DEF VisitMissing
<1>8. CASE Visit(r)
  <2>1. PICK p \in run[r].todo :
           /\ run[r].pc = "walk" /\ p \in DOMAIN fs
           /\ run'[r] = [run[r] EXCEPT
                !.todo = (@ \ {p}) \cup (IF fs[p] = Dir THEN ChildrenOf(p) ELSE {}),
                !.existing = @ \cup (IF IsExpected(r, p) THEN {p} ELSE {}),
                !.rm = @ \cup (IF IsExpected(r, p) \/ p = Tree(r).root THEN {} ELSE {p})]
           /\ UNCHANGED <<fs, conf, acts>>
    BY <1>2, <1>8 DEF Visit, IsVisited
  <2>2. IsExpected(r, p) <=> IsRight(fs, Tree(r), p)
    BY <2>1 DEF IsExpected, IsRight
  <2>3. /\ run'[r].pc = "walk" /\ run'[r].mine = run[r].mine /\ run'[r].i = run[r].i
        /\ run'[r].todo = (run[r].todo \ {p}) \cup (IF fs[p] = Dir THEN ChildrenOf(p) ELSE {})
        /\ run'[r].result = run[r].result
    BY <1>1, <2>1 DEF RunType
  <2>4. run'[r].existing = run[r].existing \cup
                              (IF IsRight(fs, Tree(r), p) THEN {p} ELSE {})
    BY <1>1, <2>1, <2>2 DEF RunType
  <2>5. run'[r].rm = run[r].rm \cup
                        (IF IsRight(fs, Tree(r), p) \/ p = Tree(r).root THEN {} ELSE {p})
    BY <1>1, <2>1, <2>2 DEF RunType
  <2>6. run[r].todo \subseteq Node /\ Tree(r).root \in Node
    BY <1>1, <2>1, Busy, RootsAssumption DEF RunType
  <2>7. Progress(fs, run[r])
    BY <2>1 DEF Right
  <2>8. Progress(fs, run'[r])
    BY <2>1, <2>3, <2>4, <2>5, <2>6, <2>7, VisitRight
  <2>9. QED
    BY <1>3, <1>4, <1>5, <2>1, <2>3, <2>8 DEF Right
<1>9. CASE WalkDone(r)
  <2>1. run[r].pc = "walk" /\ run[r].todo = {} /\ fs' = fs
    BY <1>9 DEF WalkDone
  <2>2. run'[r] = [run[r] EXCEPT !.pc = "remove"]
    BY <1>2, <1>9 DEF WalkDone
  <2>3. /\ run'[r].pc = "remove" /\ run'[r].mine = run[r].mine /\ run'[r].i = run[r].i
        /\ run'[r].todo = {} /\ run'[r].existing = run[r].existing
        /\ run'[r].rm = run[r].rm /\ run'[r].result = run[r].result
    BY <1>1, <2>1, <2>2 DEF RunType
  <2>4. Progress(fs, run'[r])
    BY <2>1, <2>3 DEF Right, Progress, ExistingIsRight, RmIsWrong, TodoIsInTree,
                      NothingIsMissed, IsAhead, EarlierApplied
  <2>5. QED
    BY <1>3, <1>4, <1>5, <2>1, <2>3, <2>4 DEF Right
<1>10. CASE RemoveLast(r)
  <2>1. PICK p \in run[r].rm :
           /\ run[r].pc = "remove"
           /\ IF p \in DOMAIN fs /\ ChildrenOf(p) = {}
              THEN fs' = Without(p) /\ run'[r] = [run[r] EXCEPT !.rm = @ \ {p}]
              ELSE Fail(r) /\ UNCHANGED fs
    BY <1>2, <1>10 DEF RemoveLast, Without
  <2>2. CASE p \in DOMAIN fs /\ ChildrenOf(p) = {}
    <3>1. run'[r] = [run[r] EXCEPT !.rm = @ \ {p}]
      BY <2>1, <2>2
    <3>2. /\ run'[r].pc = "remove" /\ run'[r].mine = run[r].mine /\ run'[r].i = run[r].i
          /\ run'[r].todo = run[r].todo /\ run'[r].existing = run[r].existing
          /\ run'[r].rm = run[r].rm \ {p} /\ run'[r].result = run[r].result
      BY <1>1, <2>1, <3>1 DEF RunType
    <3>3. /\ p \in Node /\ run[r].mine \in Config /\ run[r].i \in DOMAIN run[r].mine
          /\ Progress(fs, run[r])
      BY <1>1, <2>1, Busy DEF Right, RunType
    <3>4. /\ Progress(Without(p), run'[r])
          /\ \A q : IsRight(fs, Tree(r), q) => IsRight(Without(p), Tree(r), q)
      BY <2>1, <3>2, <3>3, RemoveRight
    <3>5. QED
      BY <1>4, <1>5, <2>1, <2>2, <3>2, <3>4 DEF Right
  <2>3. CASE ~ (p \in DOMAIN fs /\ ChildrenOf(p) = {})
    BY <1>3, <1>4, <2>1, <2>3, FailRight
  <2>4. QED
    BY <2>2, <2>3
<1>11. CASE RemoveDone(r)
  <2>1. run[r].pc = "remove" /\ run[r].rm = {} /\ fs' = fs
    BY <1>11 DEF RemoveDone
  <2>2. run'[r] = [run[r] EXCEPT !.pc = "create"]
    BY <1>2, <1>11 DEF RemoveDone
  <2>3. /\ run'[r].pc = "create" /\ run'[r].mine = run[r].mine /\ run'[r].i = run[r].i
        /\ run'[r].todo = run[r].todo /\ run'[r].existing = run[r].existing
        /\ run'[r].rm = {} /\ run'[r].result = run[r].result
    BY <1>1, <2>1, <2>2 DEF RunType
  <2>4. Progress(fs, run'[r])
    BY <2>1, <2>3 DEF Right, Progress, ExistingIsRight, RmIsWrong, TodoIsInTree,
                      NothingIsMissed, IsAhead, EarlierApplied
  <2>5. QED
    BY <1>3, <1>4, <1>5, <2>1, <2>3, <2>4 DEF Right
<1>12. CASE CreateFirst(r)
  <2>1. PICK p \in Missing(r) :
           /\ run[r].pc = "create"
           /\ IF p \notin DOMAIN fs /\ IsDir(Parent(p))
              THEN /\ fs' = With(p, Tree(r).files[p])
                   /\ run'[r] = [run[r] EXCEPT !.existing = @ \cup {p}]
              ELSE Fail(r) /\ UNCHANGED fs
    BY <1>2, <1>12 DEF CreateFirst, With
  <2>2. CASE p \notin DOMAIN fs /\ IsDir(Parent(p))
    <3>1. run'[r] = [run[r] EXCEPT !.existing = @ \cup {p}]
      BY <2>1, <2>2
    <3>2. /\ run'[r].pc = "create" /\ run'[r].mine = run[r].mine /\ run'[r].i = run[r].i
          /\ run'[r].todo = run[r].todo /\ run'[r].existing = run[r].existing \cup {p}
          /\ run'[r].rm = run[r].rm /\ run'[r].result = run[r].result
      BY <1>1, <2>1, <3>1 DEF RunType
    <3>3. /\ p \in DOMAIN Tree(r).files
          /\ run[r].mine \in Config /\ run[r].i \in DOMAIN run[r].mine
          /\ Progress(fs, run[r])
      BY <2>1, Busy DEF Right, Missing
    <3>4. /\ Progress(With(p, Tree(r).files[p]), run'[r])
          /\ \A q : IsRight(fs, Tree(r), q) =>
                       IsRight(With(p, Tree(r).files[p]), Tree(r), q)
      BY <2>1, <2>2, <3>2, <3>3, CreateRight
    <3>5. QED
      BY <1>4, <1>5, <2>1, <2>2, <3>2, <3>4 DEF Right
  <2>3. CASE ~ (p \notin DOMAIN fs /\ IsDir(Parent(p)))
    BY <1>3, <1>4, <2>1, <2>3, FailRight
  <2>4. QED
    BY <2>2, <2>3
<1>13. CASE CreateDone(r)
  <2>1. /\ run[r].pc = "create" /\ Missing(r) = {} /\ fs' = fs
        /\ WalkNext(r, run[r].i + 1)
    BY <1>13 DEF CreateDone
  <2>2. /\ run[r].mine \in Config /\ run[r].i \in DOMAIN run[r].mine
        /\ run[r].i \in Nat \ {0} /\ Progress(fs, run[r])
    BY <2>1, Busy DEF Right
  <2>3. \A j \in 1 .. run[r].i : Applied(fs, conf[j])
    BY <1>5, <2>1, <2>2, NoneMissing DEF Missing
  <2>4. Right(fs, conf, run'[r])
    BY <1>4, <1>5, <2>1, <2>2, <2>3, GoOnRight
  <2>5. QED
    BY <1>3, <1>4, <2>1, <2>4
<1>14. QED
  BY <1>6, <1>7, <1>8, <1>9, <1>10, <1>11, <1>12, <1>13 DEF RunStep

-----------------------------------------------------------------------------
(***************************************************************************)
(* The invariant is inductive.                                             *)
(***************************************************************************)
\* Only who is left alone, or acts alone, is alone afterwards.
LEMMA NotDisturbed ==
    ASSUME TypeOK, NEW r \in Run, Disturb PROVE ~ run'[r].alone
BY DEF TypeOK, RunType, Disturb

LEMMA InvStep ==
    ASSUME IInv, [Next]_vars
    PROVE  IInv'
<1> USE DEF IInv
<1>1. TypeOK' /\ run \in [Run -> RunType]
  BY TypeStep DEF TypeOK
<1>2. ASSUME NEW r \in Run, run'[r].alone PROVE
         (\A o \in Run \ {r} : run'[o].pc = "idle") /\ Right(fs', conf', run'[r])
  <2>1. ASSUME NEW q \in Run, StartRun(q)
        PROVE  (\A o \in Run \ {r} : run'[o].pc = "idle") /\ Right(fs', conf', run'[r])
    <3>1. r = q
      <4>1. SUFFICES ASSUME r # q PROVE FALSE
        OBVIOUS
      <4>2. run'[r] = [run[r] EXCEPT !.alone = FALSE]
        BY <2>1, <4>1 DEF StartRun
      <4>3. run[r] \in RunType
        BY <1>1
      <4>4. ~ run'[r].alone
        BY <4>2, <4>3 DEF RunType
      <4>5. QED
        BY <1>2, <4>4
    <3> DEFINE alone == \A o \in Run \ {r} : run[o].pc = "idle"
    <3>2. run'[r] = [Idle("none") EXCEPT !.pc = "start", !.mine = conf, !.alone = alone]
      BY <2>1, <3>1 DEF StartRun
    <3> HIDE DEF alone
    <3>3. run'[r].alone = alone
      BY <3>2 DEF Idle
    <3>4. \A o \in Run \ {r} : run[o].pc = "idle"
      BY <1>2, <3>3 DEF alone
    <3>5. \A o \in Run \ {r} : run'[o] = [run[o] EXCEPT !.alone = FALSE]
      BY <2>1, <3>1 DEF StartRun
    <3>6. \A o \in Run \ {r} : run'[o].pc = "idle"
      BY <1>1, <3>4, <3>5 DEF RunType
    <3>7. /\ run'[r].pc = "start" /\ run'[r].mine = conf /\ run'[r].result = "none"
          /\ conf' = conf
      BY <2>1, <3>2 DEF Idle, StartRun
    <3>8. QED
      BY <3>6, <3>7 DEF Right
  <2>2. ASSUME NEW q \in Run, RunStep(q)
        PROVE  (\A o \in Run \ {r} : run'[o].pc = "idle") /\ Right(fs', conf', run'[r])
    <3>1. /\ run[q].pc # "idle"
          /\ run'[q].alone => run[q].alone
          /\ \A o \in Run \ {q} : run'[o] = run[o]
      BY <2>2, RunStepFacts
    <3>2. run[r].alone
      BY <1>2, <3>1
    <3>3. (\A o \in Run \ {r} : run[o].pc = "idle") /\ Right(fs, conf, run[r])
      BY <3>2 DEF AloneIsRight
    <3>4. r = q
      BY <3>1, <3>3
    <3>5. QED
      BY <2>2, <3>1, <3>3, <3>4, RunStepRight
  <2>3. ASSUME NEW q \in Run, Kill(q) PROVE FALSE
    <3>1. run[q].pc # "idle" /\ run' = [run EXCEPT ![q] = Idle("killed")]
      BY <2>3 DEF Kill, Go
    <3>2. CASE r = q
      <4>1. run'[r] = Idle("killed")
        BY <1>1, <3>1, <3>2
      <4>2. ~ run'[r].alone
        BY <4>1 DEF Idle
      <4>3. QED
        BY <1>2, <4>2
    <3>3. CASE r # q
      <4>1. run[r].alone
        BY <1>1, <1>2, <3>1, <3>3
      <4>2. QED
        BY <3>1, <3>3, <4>1 DEF AloneIsRight
    <3>4. QED
      BY <3>2, <3>3
  <2>4. ASSUME Disturb PROVE FALSE
    BY <1>2, <2>4, NotDisturbed
  <2>5. CASE UNCHANGED vars
    <3>1. fs' = fs /\ conf' = conf /\ run' = run
      BY <2>5 DEF vars
    <3>2. QED
      BY <1>2, <3>1 DEF AloneIsRight
  <2>6. QED
    BY <2>1, <2>2, <2>3, <2>4, <2>5 DEF Next, Put, Drop, Configure
<1>3. QED
  BY <1>1, <1>2 DEF AloneIsRight

LEMMA InvInit == Init => IInv
<1> SUFFICES ASSUME Init PROVE IInv
  OBVIOUS
<1>1. \A r \in Run : run[r].pc = "idle" /\ run[r].result = "none"
  BY DEF Init, Idle
<1>2. QED
  BY <1>1, TypeInit DEF IInv, AloneIsRight, Right

LEMMA InvCorrect == Spec => []IInv
BY InvInit, InvStep, PTL DEF Spec

-----------------------------------------------------------------------------
\* When EnsureShareTrees() returns no error and has been alone, the files are what the
\* configuration says, whatever was there before.
THEOREM TreesAreAppliedCorrect == Spec => []TreesAreApplied
<1>1. ASSUME IInv PROVE TreesAreApplied
  <2>1. \A i \in DOMAIN conf : Applied(fs, conf[i]) <=> IsApplied(conf[i])
    BY DEF Applied, IsApplied
  <2>2. QED
    BY <1>1, <2>1 DEF IInv, AloneIsRight, Right, TreesAreApplied, AllApplied
<1>2. QED
  BY <1>1, InvCorrect, PTL

\* EnsureShareTrees() that is alone never takes away a file that is as it should be.
THEOREM RightFilesStayCorrect == Spec => RightFilesStay
<1> DEFINE Stay ==
      \A r \in Run : run[r].alone /\ RunStep(r) /\ run[r].pc \notin {"idle", "start"} =>
          \A p \in DOMAIN Tree(r).files :
             p \in DOMAIN fs /\ fs[p] = Tree(r).files[p] =>
                p \in DOMAIN fs' /\ fs'[p] = fs[p]
<1>1. ASSUME IInv, [Next]_vars PROVE [Stay]_vars
  <2>1. ASSUME NEW r \in Run, run[r].alone, RunStep(r), run[r].pc \notin {"idle", "start"},
               NEW p \in DOMAIN Tree(r).files, p \in DOMAIN fs, fs[p] = Tree(r).files[p]
        PROVE  p \in DOMAIN fs' /\ fs'[p] = fs[p]
    <3>1. TypeOK /\ Right(fs, conf, run[r])
      BY <1>1, <2>1 DEF IInv, AloneIsRight
    <3>2. IsRight(fs, Tree(r), p)
      BY <2>1 DEF IsRight
    <3>3. IsRight(fs', Tree(r), p)
      BY <2>1, <3>1, <3>2, RunStepRight
    <3>4. QED
      BY <2>1, <3>3 DEF IsRight
  <2>2. QED
    BY <2>1
<1>2. QED
  BY <1>1, InvCorrect, PTL DEF Spec, RightFilesStay
=============================================================================
