------------------------- MODULE SharingApplyProofs -------------------------
(***************************************************************************)
(* Runs of EnsureRealShares() and EnsureTraversal() keep the entries of    *)
(* the groups that `bcpfs-perms apply` manages, for every directory tree,  *)
(* every set of groups and every configuration that Compile() may have     *)
(* returned.                                                               *)
(***************************************************************************)
EXTENDS SharingApply, TLAPS, FiniteSetTheorems, WellFoundedInduction

\* What makes the invariants inductive.  Outside a run, the counter of shares is
\* reset; the toplevel directories stay; and what a pipeline has to visit is below
\* the share that is due.
RunShape ==
    /\ pc = "idle" => k = 1
    /\ DOMAIN InitialAcl \subseteq exists
    /\ pc \in {"dirs", "files", "remove"} =>
          \A n \in work : n = Share.path \/ IsAbove(Share.path, n)

Inv == TypeOK /\ RunShape

\* A step keeps the entries of the managers on what exists before and after it.
Spares ==
    \A n \in exists \cap exists' : \A g \in Managers(n) :
       /\ g \in DOMAIN acl[n] => HasEntry(acl'[n], g, acl[n][g])
       /\ g \in DOMAIN dfl[n] => HasEntry(dfl'[n], g, dfl[n][g])

(***************************************************************************)
(* ACLs.                                                                   *)
(***************************************************************************)

\* Some index is the last one: of the intervals i..n, the least has the greatest i.
LEMMA LastIndex ==
    ASSUME NEW n \in Nat, NEW S \in SUBSET (1 .. n), S # {}
    PROVE  \E i \in S : \A j \in S : j <= i
<1> DEFINE T == {i .. n : i \in S}
<1>1. T \subseteq FiniteSubsetsOf(Nat)
  <2>1. ASSUME NEW i \in S
        PROVE  i .. n \in FiniteSubsetsOf(Nat)
    <3>1. i \in Int /\ n \in Int /\ i .. n \subseteq Nat
      OBVIOUS
    <3>2. IsFiniteSet(i .. n)
      BY <3>1, FS_Interval
    <3>3. QED
      BY <3>1, <3>2 DEF FiniteSubsetsOf
  <2>2. QED
    BY <2>1
<1>2. T # {}
  OBVIOUS
<1>3. PICK x \in T : \A y \in T : ~ (<<y, x>> \in StrictSubsetOrdering(Nat))
  <2>1. IsWellFoundedOn(StrictSubsetOrdering(Nat), FiniteSubsetsOf(Nat))
    BY FS_StrictSubsetOrderingWellFounded
  <2> HIDE DEF T
  <2>2. QED
    BY <1>1, <1>2, <2>1, WFMin
<1>4. PICK i \in S : x = i .. n
  OBVIOUS
<1>5. ASSUME NEW j \in S, ~ (j <= i)
      PROVE  FALSE
  <2>1. j .. n \in T /\ j .. n \subseteq i .. n /\ i \in i .. n /\ i \notin j .. n
    BY <1>5
  <2>2. <<j .. n, i .. n>> \in StrictSubsetOrdering(Nat)
    BY <2>1 DEF StrictSubsetOrdering
  <2>3. QED
    BY <1>3, <1>4, <2>1, <2>2
<1>6. QED
  BY <1>5

\* The entries of a share have a group and a mode.
LEMMA EntryTypes ==
    ASSUME NEW s \in ShareType, NEW i \in DOMAIN s.acl
    PROVE  s.acl[i] \in [group : Group, mode : Mode]
<1>1. ASSUME NEW E, NEW q \in Seq(E), NEW j \in DOMAIN q
      PROVE  q[j] \in E
  OBVIOUS
<1>2. s.acl \in Seq([group : Group, mode : Mode])
  BY DEF ShareType
<1> HIDE DEF ShareType
<1>3. QED
  BY <1>1, <1>2

\* The last entry of a group has a mode.
LEMMA ModeForType ==
    ASSUME NEW s \in ShareType, NEW g \in GroupsOf(s)
    PROVE  ModeFor(s, g) \in Mode
<1> DEFINE S == {i \in DOMAIN s.acl : s.acl[i].group = g}
<1>1. s.acl \in Seq([group : Group, mode : Mode])
  BY DEF ShareType
<1>2. S \in SUBSET (1 .. Len(s.acl)) /\ S # {} /\ Len(s.acl) \in Nat
  BY <1>1 DEF GroupsOf
<1>3. \E i \in S : \A j \in S : j <= i
  BY <1>2, LastIndex
<1>4. \E i \in DOMAIN s.acl :
         s.acl[i].group = g /\ \A j \in DOMAIN s.acl : s.acl[j].group = g => j <= i
  BY <1>3
<1> DEFINE Last(i) ==
             s.acl[i].group = g /\ \A j \in DOMAIN s.acl : s.acl[j].group = g => j <= i
           last_i == CHOOSE i \in DOMAIN s.acl : Last(i)
<1>5. last_i \in DOMAIN s.acl
  <2> HIDE DEF Last
  <2>1. \E i \in DOMAIN s.acl : Last(i)
    BY <1>4 DEF Last
  <2>2. QED
    BY <2>1
<1>6. ModeFor(s, g) = s.acl[last_i].mode
  BY DEF ModeFor
<1>7. QED
  <2> HIDE DEF last_i
  <2>1. s.acl[last_i] \in [group : Group, mode : Mode]
    BY <1>5, EntryTypes
  <2>2. QED
    BY <1>6, <2>1

\* setfacl makes ACLs of ACLs.
LEMMA AclTypes ==
    ASSUME NEW f \in AclType
    PROVE  /\ \A s \in ShareType : ModifyDir(f, s) \in AclType /\ ModifyFile(f, s) \in AclType
           /\ \A gs : RemoveGroups(f, gs) \in AclType
           /\ \A g \in Group :
                 [h \in DOMAIN f \cup {g} |-> IF h = g THEN {"x"} ELSE f[h]] \in AclType
<1>1. PICK S \in SUBSET Group : f \in [S -> Mode]
  BY DEF AclType
<1>2. \A D \in SUBSET Group : [D -> Mode] \subseteq AclType
  BY DEF AclType
<1>3. ASSUME NEW s \in ShareType
      PROVE  ModifyDir(f, s) \in AclType /\ ModifyFile(f, s) \in AclType
  <2>1. GroupsOf(s) \subseteq Group
    BY EntryTypes DEF GroupsOf
  <2>2. S \cup GroupsOf(s) \in SUBSET Group
    BY <2>1
  <2>3. \A g \in GroupsOf(s) : ModeFor(s, g) \in Mode /\ WithoutX(ModeFor(s, g)) \in Mode
    BY ModeForType, ModeAssumption
  <2>4. ModifyDir(f, s) \in [S \cup GroupsOf(s) -> Mode]
    BY <1>1, <2>3 DEF ModifyDir
  <2>5. ModifyFile(f, s) \in [S \cup GroupsOf(s) -> Mode]
    BY <1>1, <2>3 DEF ModifyFile
  <2>6. QED
    BY <1>2, <2>2, <2>4, <2>5
<1>4. ASSUME NEW gs
      PROVE  RemoveGroups(f, gs) \in AclType
  <2>1. RemoveGroups(f, gs) \in [S \ gs -> Mode]
    BY <1>1 DEF RemoveGroups
  <2>2. QED
    BY <1>2, <2>1
<1>5. ASSUME NEW g \in Group
      PROVE  [h \in DOMAIN f \cup {g} |-> IF h = g THEN {"x"} ELSE f[h]] \in AclType
  <2>1. [h \in DOMAIN f \cup {g} |-> IF h = g THEN {"x"} ELSE f[h]] \in [S \cup {g} -> Mode]
    BY <1>1, ModeAssumption
  <2>2. QED
    BY <1>2, <2>1
<1>6. QED
  BY <1>3, <1>4, <1>5

\* The ACL of a file that does not exist is an ACL.
LEMMA NoEntriesType == NoEntries \in AclType
<1>1. NoEntries \in [{} -> Mode]
  BY DEF NoEntries
<1>2. QED
  BY <1>1 DEF AclType

\* setfacl leaves the entries of the groups alone that it is not told of.
LEMMA OthersKeepEntries ==
    ASSUME NEW f, NEW g \in DOMAIN f
    PROVE  /\ HasEntry(f, g, f[g])
           /\ \A s : g \notin GroupsOf(s) =>
                 HasEntry(ModifyDir(f, s), g, f[g]) /\ HasEntry(ModifyFile(f, s), g, f[g])
           /\ \A gs : g \notin gs => HasEntry(RemoveGroups(f, gs), g, f[g])
BY DEF HasEntry, ModifyDir, ModifyFile, RemoveGroups

\* The managers of a share's files have no entries in the share, and are not removed.
LEMMA ManagersOfShare ==
    ASSUME TypeOK, k <= Len(mine.realShares), NEW n \in Node,
           n = Share.path \/ IsAbove(Share.path, n), NEW g \in Managers(n)
    PROVE  /\ g \notin GroupsOf(Share)
           /\ \A actual : g \notin GroupsToRemove(actual, Share)
<1>1. mine \in Config /\ k \in 1 .. Len(mine.realShares)
  BY ConfigAssumption DEF TypeOK
<1>2. Managers(n) \subseteq Share.managing /\ GroupsOf(Share) \cap Managers(n) = {}
  BY <1>1, ConfigAssumption DEF Share
<1>3. QED
  BY <1>2 DEF GroupsToRemove

\* What is below a path is in it or is below the directories in it.
LEMMA BelowParent ==
    ASSUME NEW n \in Node, NEW t, IsAbove(t, n)
    PROVE  t = Parent(n) \/ IsAbove(t, Parent(n))
<1>1. n \in Seq(Name) /\ Len(n) \in Nat /\ Len(n) > 0
  BY NodeAssumption
<1>2. PICK i \in 1 .. Len(n) - 1 : t = Prefix(n, i)
  BY DEF IsAbove
<1>3. Len(Parent(n)) = Len(n) - 1
  BY <1>1, <1>2 DEF Parent, Prefix
<1>4. CASE i = Len(n) - 1
  BY <1>2, <1>4 DEF Parent
<1>5. CASE i < Len(n) - 1
  <2>1. Prefix(Parent(n), i) = Prefix(n, i)
    BY <1>1, <1>2, <1>3 DEF Parent, Prefix
  <2>2. QED
    BY <1>1, <1>2, <1>3, <1>5, <2>1 DEF IsAbove
<1>6. QED
  BY <1>1, <1>2, <1>4, <1>5

-----------------------------------------------------------------------------
(***************************************************************************)
(* Runs.                                                                   *)
(***************************************************************************)

\* What is known of the configuration of a run, and of the share that is due.
LEMMA ConfigFacts ==
    ASSUME NEW c \in Config
    PROVE  /\ Len(c.realShares) \in Nat
           /\ \A i \in 1 .. Len(c.realShares) : c.realShares[i] \in ShareType
           /\ SharePaths(c) \subseteq Node /\ TraversalPaths(c) \subseteq Node
           /\ \A t \in c.traversal : t.path \in Node /\ t.group \in Group
<1>1. c.realShares \in Seq(ShareType) /\ c.traversal \subseteq [path : Node, group : Group]
  BY ConfigAssumption
<1>2. \A i \in DOMAIN c.realShares : c.realShares[i] \in ShareType /\ i \in 1 .. Len(c.realShares)
  <2> HIDE DEF ShareType
  <2>1. QED
    BY <1>1
<1>3. Len(c.realShares) \in Nat /\ DOMAIN c.realShares = 1 .. Len(c.realShares)
  <2> HIDE DEF ShareType
  <2>1. QED
    BY <1>1
<1>4. \A s \in ShareType : s.path \in Node
  BY DEF ShareType
<1>5. \A t \in c.traversal : t.path \in Node /\ t.group \in Group
  BY <1>1
<1>6. QED
  BY <1>2, <1>3, <1>4, <1>5 DEF SharePaths, TraversalPaths

\* A pipeline that visits a file keeps the invariant if it makes ACLs of ACLs.
LEMMA VisitKeepsInv ==
    ASSUME Inv, pc \in {"dirs", "files", "remove"}, NEW n \in Node, Visit(n),
           acl' \in [Node -> AclType], dfl' \in [Node -> AclType]
    PROVE  Inv'
<1>1. Share' = Share /\ work' \subseteq work
  BY DEF Visit, Share
<1>2. TypeOK'
  BY <1>1 DEF Inv, TypeOK, Visit, env
<1>3. RunShape'
  BY <1>1 DEF Inv, RunShape, Visit, env
<1>4. QED
  BY <1>2, <1>3 DEF Inv

\* So do the end of a run, the start of a pipeline and the next share.
LEMMA EndKeepsInv ==
    ASSUME Inv, NEW r \in {"ok", "failed", "killed"}, End(r), UNCHANGED <<fs, conf>>,
           acts' \in 0 .. MaxActs, calm' \in BOOLEAN
    PROVE  Inv'
<1>1. mine' \in Config /\ Len(mine'.realShares) \in Nat
  BY ConfigFacts DEF Inv, TypeOK, End
<1>2. k' \in 1 .. Len(mine'.realShares) + 1
  BY <1>1 DEF End
<1>3. DOMAIN facls' = {}
  BY DEF End
<1>4. TypeOK'
  BY <1>1, <1>2, <1>3 DEF Inv, TypeOK, End, fs
<1>5. RunShape'
  BY DEF Inv, RunShape, End, fs
<1>6. QED
  BY <1>4, <1>5 DEF Inv

\* So does the start of a pipeline, which lists what exists (setfaclDirSubdirModifySh,
\* setfaclDirSubdirRemoveSh).
LEMMA PipeKeepsInv ==
    ASSUME Inv, NEW todo \in SUBSET Below(Share.path), UNCHANGED <<fs, env>>,
           NEW label \in {"dirs", "files", "modified", "remove"}, Pipe(label, todo),
           k <= Len(mine.realShares), Share.path \in DOMAIN facls
    PROVE  Inv'
<1>1. Share' = Share /\ todo \subseteq exists
  BY DEF Pipe, Goto, Share, Below
<1>2. TypeOK'
  BY <1>1 DEF Inv, TypeOK, Pipe, Goto, fs, env
<1>3. RunShape'
  BY <1>1 DEF Inv, RunShape, Pipe, Goto, fs, env, Below
<1>4. QED
  BY <1>2, <1>3 DEF Inv

\* So does going on to the next real share (EnsureRealShares()).
LEMMA NextShareKeepsInv ==
    ASSUME Inv, k <= Len(mine.realShares), NextShare, UNCHANGED <<fs, env>>
    PROVE  Inv'
<1>1. mine' = mine /\ Len(mine.realShares) \in Nat
  BY ConfigFacts DEF Inv, TypeOK, NextShare
<1>2. k' \in 1 .. Len(mine'.realShares) + 1
  BY <1>1 DEF Inv, TypeOK, NextShare
<1>3. TypeOK'
  BY <1>1, <1>2 DEF Inv, TypeOK, NextShare, fs, env
<1>4. RunShape'
  BY DEF Inv, RunShape, NextShare, fs, env
<1>5. QED
  BY <1>3, <1>4 DEF Inv

\* What happens besides is counted.
LEMMA BesidesCounts ==
    ASSUME Inv, NEW act, Besides(act)
    PROVE  acts' \in 0 .. MaxActs /\ calm' \in BOOLEAN
<1>1. acts \in 0 .. MaxActs /\ MaxActs \in Nat
  BY ModeAssumption DEF Inv, TypeOK
<1>2. acts' \in 0 .. MaxActs
  BY <1>1 DEF Besides
<1>3. calm' \in BOOLEAN
  BY Zenon DEF Besides
<1>4. QED
  BY <1>2, <1>3

\* The invariant holds initially, after `bcpfs-perms apply`.
LEMMA InitInv == Init => Inv
<1> SUFFICES ASSUME Init PROVE Inv
  OBVIOUS
<1>1. NoEntries \in AclType
  BY NoEntriesType
<1>2. exists = DOMAIN InitialAcl /\ exists \subseteq Node
  BY InitialAssumption, NodeAssumption DEF Init
<1>3. acl \in [Node -> AclType] /\ dfl \in [Node -> AclType]
  <2>1. \A n \in exists : InitialAcl[n].acl \in AclType /\ InitialAcl[n].dfl \in AclType
    BY <1>2, InitialAssumption
  <2>2. QED
    BY <1>1, <2>1 DEF Init
<1>4. mask \in [Node -> Mask]
  BY ModeAssumption DEF Init
<1>5. 1 \in 1 .. Len(mine.realShares) + 1
  BY ConfigFacts DEF Init
<1>6. 0 \in 0 .. MaxActs
  BY ModeAssumption
<1>7. DOMAIN facls \subseteq Node
  BY DEF Init
<1>8. QED
  BY <1>2, <1>3, <1>4, <1>5, <1>6, <1>7 DEF Init, Inv, TypeOK, RunShape

\* Each action preserves it.
LEMMA StepInv == Inv /\ [Next]_vars => Inv'
<1> SUFFICES ASSUME Inv, [Next]_vars PROVE Inv'
  OBVIOUS
<1>1. mine \in Config /\ conf \in Config
  BY DEF Inv, TypeOK
<1>2. /\ Len(mine.realShares) \in Nat /\ Len(conf.realShares) \in Nat
      /\ \A i \in 1 .. Len(mine.realShares) : mine.realShares[i] \in ShareType
      /\ SharePaths(mine) \subseteq Node /\ TraversalPaths(mine) \subseteq Node
      /\ \A t \in mine.traversal : t.path \in Node /\ t.group \in Group
  BY <1>1, ConfigFacts
<1>3. CASE StartRun
  <2>1. k' \in 1 .. Len(mine'.realShares) + 1
    BY <1>2, <1>3 DEF StartRun, Inv, RunShape
  <2>2. TypeOK'
    BY <1>3, <2>1 DEF StartRun, Inv, TypeOK, fs
  <2>3. RunShape'
    BY <1>3 DEF StartRun, Inv, RunShape, fs
  <2>4. QED
    BY <2>2, <2>3 DEF Inv
<1>a. acts \in 0 .. MaxActs /\ calm \in BOOLEAN
  BY DEF Inv, TypeOK
<1>4. CASE GetShareFacls
  <2>1. CASE End("failed")
    BY <1>4, <2>1, <1>a, EndKeepsInv DEF GetShareFacls, env
  <2>2. CASE ~ End("failed")
    <3>1. DOMAIN facls' \subseteq Node /\ pc' = "share"
      BY <1>2, <1>4, <2>2 DEF GetShareFacls, Getfacl
    <3>2. UNCHANGED <<fs, env, mine, k, work, broken, last>>
      BY <1>4, <2>2 DEF GetShareFacls
    <3>3. TypeOK'
      BY <3>1, <3>2 DEF Inv, TypeOK, fs, env
    <3>4. RunShape'
      BY <3>1, <3>2 DEF Inv, RunShape, fs
    <3>5. QED
      BY <3>3, <3>4 DEF Inv
  <2>3. QED
    BY <2>1, <2>2
<1>5. CASE SkipMissingShare
  BY <1>5, NextShareKeepsInv DEF SkipMissingShare, ShareIsDue
<1>6. CASE FindDirs
  <2>1. CASE End("failed")
    BY <1>6, <2>1, <1>a, EndKeepsInv DEF FindDirs, env
  <2>2. CASE ~ End("failed")
    <3>1. PICK label \in {"dirs", "modified"}, todo \in SUBSET Below(Share.path) :
             Pipe(label, todo)
      BY <1>6, <2>2 DEF FindDirs
    <3>2. k <= Len(mine.realShares) /\ Share.path \in DOMAIN facls /\ UNCHANGED <<fs, env>>
      BY <1>6 DEF FindDirs, ShareIsDue
    <3>3. QED
      BY <3>1, <3>2, PipeKeepsInv
  <2>3. QED
    BY <2>1, <2>2
<1>7. ASSUME NEW n \in Node, ModifyNextDir(n)
      PROVE  Inv'
  <2>1. acl[n] \in AclType /\ dfl[n] \in AclType /\ Share \in ShareType
    BY <1>2, <1>7 DEF ModifyNextDir, Inv, TypeOK, Share
  <2>2. ModifyDir(acl[n], Share) \in AclType /\ ModifyDir(dfl[n], Share) \in AclType
    BY <2>1, AclTypes
  <2>3. acl' \in [Node -> AclType] /\ dfl' \in [Node -> AclType]
    BY <1>7, <2>2 DEF ModifyNextDir, Inv, TypeOK
  <2>4. QED
    BY <1>7, <2>3, VisitKeepsInv DEF ModifyNextDir
<1>8. CASE FindFiles
  <2>1. CASE End("failed")
    BY <1>8, <2>1, <1>a, EndKeepsInv DEF FindFiles, env
  <2>2. CASE Pipe("files", Below(Share.path) \ DirNode)
    <3>1. k <= Len(mine.realShares) /\ Share.path \in DOMAIN facls
      BY <1>8 DEF FindFiles, Inv, TypeOK
    <3>2. QED
      BY <1>8, <2>2, <3>1, PipeKeepsInv DEF FindFiles
  <2>3. QED
    BY <1>8, <2>1, <2>2 DEF FindFiles
<1>9. ASSUME NEW n \in Node, ModifyNextFile(n)
      PROVE  Inv'
  <2>1. acl[n] \in AclType /\ Share \in ShareType
    BY <1>2, <1>9 DEF ModifyNextFile, Inv, TypeOK, Share
  <2>2. ModifyFile(acl[n], Share) \in AclType
    BY <2>1, AclTypes
  <2>3. acl' \in [Node -> AclType] /\ dfl' \in [Node -> AclType]
    BY <1>9, <2>2 DEF ModifyNextFile, Inv, TypeOK
  <2>4. QED
    BY <1>9, <2>3, VisitKeepsInv DEF ModifyNextFile
<1>10. CASE FilesDone
  <2>1. CASE End("failed")
    BY <1>10, <2>1, <1>a, EndKeepsInv DEF FilesDone, env
  <2>2. CASE Pipe("modified", {})
    <3>1. k <= Len(mine.realShares) /\ Share.path \in DOMAIN facls
      BY <1>10 DEF FilesDone, Inv, TypeOK
    <3>2. QED
      BY <1>10, <2>2, <3>1, PipeKeepsInv DEF FilesDone
  <2>3. QED
    BY <1>10, <2>1, <2>2 DEF FilesDone
<1>11. CASE FindAll
  <2>1. k <= Len(mine.realShares) /\ Share.path \in DOMAIN facls /\ UNCHANGED <<fs, env>>
    BY <1>11 DEF FindAll, Inv, TypeOK
  <2>2. CASE NextShare
    BY <2>1, <2>2, NextShareKeepsInv
  <2>3. CASE Pipe("remove", Below(Share.path))
    BY <2>1, <2>3, PipeKeepsInv
  <2>4. CASE End("failed")
    BY <2>1, <2>4, <1>a, EndKeepsInv DEF env
  <2>5. QED
    BY <1>11, <2>2, <2>3, <2>4 DEF FindAll
<1>12. ASSUME NEW n \in Node, RemoveFromNext(n)
       PROVE  Inv'
  <2>1. acl[n] \in AclType /\ dfl[n] \in AclType
    BY <1>12 DEF Inv, TypeOK
  <2>2. \A gs : RemoveGroups(acl[n], gs) \in AclType /\ RemoveGroups(dfl[n], gs) \in AclType
    BY <2>1, AclTypes
  <2>3. acl' \in [Node -> AclType] /\ dfl' \in [Node -> AclType]
    BY <1>12, <2>2 DEF RemoveFromNext, Inv, TypeOK
  <2>4. QED
    BY <1>12, <2>3, VisitKeepsInv DEF RemoveFromNext
<1>13. CASE RemoveDone
  <2>1. k <= Len(mine.realShares) /\ UNCHANGED <<fs, env>>
    BY <1>13 DEF RemoveDone, Inv, TypeOK
  <2>2. CASE NextShare
    BY <2>1, <2>2, NextShareKeepsInv
  <2>3. CASE End("failed")
    BY <2>1, <2>3, <1>a, EndKeepsInv DEF env
  <2>4. QED
    BY <1>13, <2>2, <2>3 DEF RemoveDone
<1>14. CASE GetTraversalFacls
  <2>1. CASE End("failed")
    BY <1>14, <2>1, <1>a, EndKeepsInv DEF GetTraversalFacls, env
  <2>2. CASE ~ End("failed")
    <3>1. /\ DOMAIN facls' \subseteq Node /\ pc' = "traverse"
          /\ work' \subseteq mine.traversal
      BY <1>2, <1>14, <2>2 DEF GetTraversalFacls, Getfacl, TraversalMissing
    <3>2. UNCHANGED <<fs, env, mine, k, broken, last>>
      BY <1>14, <2>2 DEF GetTraversalFacls
    <3>3. TypeOK'
      BY <3>1, <3>2 DEF Inv, TypeOK, fs, env
    <3>4. RunShape'
      BY <3>1, <3>2 DEF Inv, RunShape, fs
    <3>5. QED
      BY <3>3, <3>4 DEF Inv
  <2>3. QED
    BY <2>1, <2>2
<1>15. ASSUME NEW w \in work, Traverse(w)
       PROVE  Inv'
  <2>1. w \in mine.traversal /\ w.path \in Node /\ w.group \in Group
    BY <1>2, <1>15 DEF Traverse, Inv, TypeOK
  <2>2. acl[w.path] \in AclType
    BY <2>1 DEF Inv, TypeOK
  <2>3. [g \in DOMAIN acl[w.path] \cup {w.group} |->
           IF g = w.group THEN {"x"} ELSE acl[w.path][g]] \in AclType
    BY <2>1, <2>2, AclTypes
  <2>4. acl' \in [Node -> AclType]
    BY <1>15, <2>3 DEF Traverse, Inv, TypeOK
  <2>5. TypeOK'
    BY <1>15, <2>4 DEF Traverse, Inv, TypeOK, Share, env
  <2>6. RunShape'
    BY <1>15 DEF Traverse, Inv, RunShape
  <2>7. QED
    BY <2>5, <2>6 DEF Inv
<1>16. CASE TraversalDone
  BY <1>16, <1>a, EndKeepsInv DEF TraversalDone, env
<1>17. ASSUME NEW n \in Node, Create(n)
       PROVE  Inv'
  <2>1. Parent(n) \in Node /\ dfl[Parent(n)] \in AclType
    BY <1>17 DEF Create, Inv, TypeOK
  <2>2. acl' \in [Node -> AclType] /\ dfl' \in [Node -> AclType]
    BY <1>17, <2>1, NoEntriesType DEF Create, Inv, TypeOK
  <2>3. mask' \in [Node -> Mask]
    BY <1>17, ModeAssumption DEF Create, Inv, TypeOK
  <2>4. acts' \in 0 .. MaxActs /\ calm' \in BOOLEAN
    BY <1>17, BesidesCounts DEF Create
  <2>5. QED
    BY <1>17, <2>2, <2>3, <2>4 DEF Create, Inv, TypeOK, RunShape, run, Share
<1>18. ASSUME NEW n \in Node, Delete(n)
       PROVE  Inv'
  <2>1. acl' \in [Node -> AclType] /\ dfl' \in [Node -> AclType]
    BY <1>18, NoEntriesType DEF Delete, Inv, TypeOK
  <2>2. acts' \in 0 .. MaxActs /\ calm' \in BOOLEAN
    BY <1>18, BesidesCounts DEF Delete
  <2>3. QED
    BY <1>18, <2>1, <2>2 DEF Delete, Inv, TypeOK, RunShape, run, Share
<1>19. ASSUME NEW n \in Node, Chmod(n)
       PROVE  Inv'
  <2>1. mask' \in [Node -> Mask]
    BY <1>19 DEF Chmod, Inv, TypeOK
  <2>2. acts' \in 0 .. MaxActs /\ calm' \in BOOLEAN
    BY <1>19, BesidesCounts DEF Chmod
  <2>3. QED
    BY <1>19, <2>1, <2>2 DEF Chmod, Inv, TypeOK, RunShape, run, Share
<1>20. CASE Configure
  <2>1. acts' \in 0 .. MaxActs /\ calm' \in BOOLEAN
    BY <1>20, BesidesCounts DEF Configure
  <2>2. QED
    BY <1>20, <2>1 DEF Configure, Inv, TypeOK, RunShape, run, fs, Share
<1>21. CASE Kill
  <2>1. acts' \in 0 .. MaxActs /\ calm' \in BOOLEAN
    BY <1>21, BesidesCounts DEF Kill
  <2>2. QED
    BY <1>21, <2>1, EndKeepsInv DEF Kill
<1>22. CASE UNCHANGED vars
  BY <1>22 DEF vars, fs, run, env, Inv, TypeOK, RunShape, Share
<1>23. QED
  BY <1>3, <1>4, <1>5, <1>6, <1>7, <1>8, <1>9, <1>10, <1>11, <1>12, <1>13, <1>14,
     <1>15, <1>16, <1>17, <1>18, <1>19, <1>20, <1>21, <1>22 DEF Next, RunStep

-----------------------------------------------------------------------------
\* The variables keep their types: the modes of the entries are modes, pipelines
\* and the counter of shares stay inside the configuration of the run.
THEOREM TypeCorrect == Spec => []TypeOK
<1>1. Inv => TypeOK
  BY DEF Inv
<1>2. QED
  BY <1>1, InitInv, StepInv, PTL DEF Spec

\* A pipeline spares the managers if it spares them on the file that it visits.
LEMMA VisitSpares ==
    ASSUME Inv, NEW n \in Node, UNCHANGED exists,
           NEW f, acl' = IF n \in exists THEN [acl EXCEPT ![n] = f] ELSE acl,
           NEW d, dfl' = IF n \in exists THEN [dfl EXCEPT ![n] = d] ELSE dfl,
           \A g \in Managers(n) :
              /\ g \in DOMAIN acl[n] => HasEntry(f, g, acl[n][g])
              /\ g \in DOMAIN dfl[n] => HasEntry(d, g, dfl[n][g])
    PROVE  Spares
<1>1. acl \in [Node -> AclType] /\ dfl \in [Node -> AclType] /\ exists \subseteq Node
  BY DEF Inv, TypeOK
<1> SUFFICES ASSUME NEW m \in exists, NEW g \in Managers(m)
             PROVE  /\ g \in DOMAIN acl[m] => HasEntry(acl'[m], g, acl[m][g])
                    /\ g \in DOMAIN dfl[m] => HasEntry(dfl'[m], g, dfl[m][g])
  BY DEF Spares
<1>2. CASE m = n
  BY <1>1, <1>2
<1>3. CASE m # n
  BY <1>1, <1>3, OthersKeepEntries
<1>4. QED
  BY <1>2, <1>3

\* What a pipeline visits is in the share that is due.
LEMMA VisitedIsShared ==
    ASSUME Inv, pc \in {"dirs", "files", "remove"}, NEW n \in Node, Visit(n), NEW g \in Managers(n)
    PROVE  /\ g \notin GroupsOf(Share)
           /\ \A actual : g \notin GroupsToRemove(actual, Share)
<1>1. n = Share.path \/ IsAbove(Share.path, n)
  BY DEF Visit, IsNext, Inv, RunShape
<1>2. TypeOK /\ k <= Len(mine.realShares)
  BY DEF Inv, TypeOK
<1>3. QED
  BY <1>1, <1>2, ManagersOfShare

\* No action changes an entry of a manager on a file that it leaves in place:
\* faclGroupsToRemove() spares them, and shares do not name them.
LEMMA StepSpares == Inv /\ [Next]_vars => Spares
<1> SUFFICES ASSUME Inv, [Next]_vars PROVE Spares
  OBVIOUS
<1>1. acl \in [Node -> AclType] /\ dfl \in [Node -> AclType] /\ exists \subseteq Node
  BY DEF Inv, TypeOK
<1>2. CASE UNCHANGED fs
  BY <1>2, OthersKeepEntries DEF Spares, fs
<1>3. ASSUME NEW n \in Node, ModifyNextDir(n)
      PROVE  Spares
  <2> DEFINE f == ModifyDir(acl[n], Share)
             d == ModifyDir(dfl[n], Share)
  <2>1. \A g \in Managers(n) : g \notin GroupsOf(Share)
    BY <1>3, VisitedIsShared DEF ModifyNextDir
  <2>2. \A g \in Managers(n) :
           /\ g \in DOMAIN acl[n] => HasEntry(f, g, acl[n][g])
           /\ g \in DOMAIN dfl[n] => HasEntry(d, g, dfl[n][g])
    BY <2>1, OthersKeepEntries
  <2>3. /\ UNCHANGED exists
        /\ acl' = IF n \in exists THEN [acl EXCEPT ![n] = f] ELSE acl
        /\ dfl' = IF n \in exists THEN [dfl EXCEPT ![n] = d] ELSE dfl
    BY <1>3 DEF ModifyNextDir, Visit
  <2> HIDE DEF f, d
  <2>4. QED
    BY <2>2, <2>3, VisitSpares
<1>4. ASSUME NEW n \in Node, ModifyNextFile(n)
      PROVE  Spares
  <2> DEFINE f == ModifyFile(acl[n], Share)
  <2>1. \A g \in Managers(n) : g \notin GroupsOf(Share)
    BY <1>4, VisitedIsShared DEF ModifyNextFile
  <2>2. \A g \in Managers(n) :
           /\ g \in DOMAIN acl[n] => HasEntry(f, g, acl[n][g])
           /\ g \in DOMAIN dfl[n] => HasEntry(dfl[n], g, dfl[n][g])
    BY <2>1, OthersKeepEntries
  <2>3. /\ UNCHANGED exists
        /\ acl' = IF n \in exists THEN [acl EXCEPT ![n] = f] ELSE acl
        /\ dfl' = IF n \in exists THEN [dfl EXCEPT ![n] = dfl[n]] ELSE dfl
    BY <1>1, <1>4 DEF ModifyNextFile, Visit
  <2> HIDE DEF f
  <2>4. QED
    BY <2>2, <2>3, VisitSpares
<1>5. ASSUME NEW n \in Node, RemoveFromNext(n)
      PROVE  Spares
  <2> DEFINE gs == GroupsToRemove(facls[Share.path], Share)
             f == RemoveGroups(acl[n], gs)
             d == RemoveGroups(dfl[n], gs)
  <2>1. \A g \in Managers(n) : g \notin gs
    BY <1>5, VisitedIsShared DEF RemoveFromNext
  <2>2. /\ UNCHANGED exists
        /\ acl' = IF n \in exists THEN [acl EXCEPT ![n] = f] ELSE acl
        /\ dfl' = IF n \in exists THEN [dfl EXCEPT ![n] = d] ELSE dfl
    BY <1>5 DEF RemoveFromNext, Visit
  <2> HIDE DEF gs
  <2>3. \A g \in Managers(n) :
           /\ g \in DOMAIN acl[n] => HasEntry(f, g, acl[n][g])
           /\ g \in DOMAIN dfl[n] => HasEntry(d, g, dfl[n][g])
    BY <2>1, OthersKeepEntries
  <2> HIDE DEF f, d
  <2>4. QED
    BY <2>2, <2>3, VisitSpares
<1>6. ASSUME NEW w \in work, Traverse(w)
      PROVE  Spares
  <2> DEFINE f == [g \in DOMAIN acl[w.path] \cup {w.group} |->
                     IF g = w.group THEN {"x"} ELSE acl[w.path][g]]
  <2>1. w \in mine.traversal /\ mine \in Config
    BY <1>6 DEF Traverse, Inv, TypeOK
  <2>2. w.path \in Node /\ w.group \notin Managers(w.path)
    BY <2>1, ConfigAssumption, ConfigFacts
  <2>3. \A g \in Managers(w.path) :
           /\ g \in DOMAIN acl[w.path] => HasEntry(f, g, acl[w.path][g])
           /\ g \in DOMAIN dfl[w.path] => HasEntry(dfl[w.path], g, dfl[w.path][g])
    BY <2>2 DEF HasEntry
  <2>4. /\ UNCHANGED exists
        /\ acl' = IF w.path \in exists THEN [acl EXCEPT ![w.path] = f] ELSE acl
        /\ dfl' = IF w.path \in exists THEN [dfl EXCEPT ![w.path] = dfl[w.path]] ELSE dfl
    BY <1>1, <1>6 DEF Traverse
  <2> HIDE DEF f
  <2>5. QED
    BY <2>2, <2>3, <2>4, VisitSpares
<1>7. ASSUME NEW n \in Node, Create(n) \/ Delete(n)
      PROVE  Spares
  <2>1. \A m \in exists \cap exists' : m # n /\ acl'[m] = acl[m] /\ dfl'[m] = dfl[m]
    BY <1>1, <1>7 DEF Create, Delete
  <2>2. QED
    BY <2>1, OthersKeepEntries DEF Spares
<1>8. ASSUME NEW n \in Node, Chmod(n)
      PROVE  Spares
  BY <1>8, OthersKeepEntries DEF Chmod, Spares
<1>9. QED
  <2>1. StartRun \/ Configure \/ Kill \/ UNCHANGED vars => UNCHANGED fs
    BY DEF StartRun, Configure, Kill, vars
  <2>2. (\/ GetShareFacls \/ SkipMissingShare \/ FindDirs \/ FindFiles \/ FilesDone
         \/ FindAll \/ RemoveDone \/ GetTraversalFacls \/ TraversalDone) => UNCHANGED fs
    BY DEF GetShareFacls, SkipMissingShare, FindDirs, FindFiles, FilesDone, FindAll,
           RemoveDone, GetTraversalFacls, TraversalDone
  <2>3. RunStep => Spares
    <3>1. (\E n \in Node : ModifyNextDir(n)) => Spares
      BY <1>3
    <3>2. (\E n \in Node : ModifyNextFile(n)) => Spares
      BY <1>4
    <3>3. (\E n \in Node : RemoveFromNext(n)) => Spares
      BY <1>5
    <3>4. (\E w \in work : Traverse(w)) => Spares
      BY <1>6
    <3>5. QED
      BY <1>2, <3>1, <3>2, <3>3, <3>4, <2>2 DEF RunStep
  <2>4. QED
    BY <1>2, <1>7, <1>8, <2>1, <2>3 DEF Next

\* No step of a run, of a user or of the administrator changes the entries of the
\* groups that `bcpfs-perms apply` manages on a file that it does not remove.
THEOREM ManagersUntouchedCorrect == Spec => ManagersUntouched
<1>1. Inv /\ [Next]_vars =>
         [\A n \in exists \cap exists' : \A g \in Managers(n) :
            /\ g \in DOMAIN acl[n] => HasEntry(acl'[n], g, acl[n][g])
            /\ g \in DOMAIN dfl[n] => HasEntry(dfl'[n], g, dfl[n][g])]_vars
  BY StepSpares DEF Spares
<1>2. QED
  BY <1>1, InitInv, StepInv, PTL DEF Spec, ManagersUntouched

\* What a user creates inherits the entries of the managers of the directory, which
\* are all that it has.
LEMMA CreateKeepsAccess ==
    ASSUME Inv, ManagersKeepAccess, NEW n \in Node, Create(n)
    PROVE  Managers(n) \subseteq DOMAIN acl'[n] /\ (n \in DirNode => Managers(n) \subseteq DOMAIN dfl'[n])
<1>1. Managers(n) \subseteq Managers(Parent(n))
  <2>1. n \notin DOMAIN InitialAcl
    BY DEF Create, Inv, RunShape
  <2>2. QED
    BY <2>1, BelowParent DEF Managers
<1>2. Managers(Parent(n)) \subseteq DOMAIN dfl[Parent(n)]
  BY DEF Create, ManagersKeepAccess
<1>3. acl'[n] = dfl[Parent(n)] /\ (n \in DirNode => dfl'[n] = dfl[Parent(n)])
  BY DEF Create, Inv, TypeOK
<1>4. QED
  BY <1>1, <1>2, <1>3

\* Wherever a run stops, the managers have their entries on all that exists.
THEOREM ManagersKeepAccessCorrect == Spec => []ManagersKeepAccess
<1>1. Init => ManagersKeepAccess
  <2> SUFFICES ASSUME Init, NEW n \in exists
               PROVE  Managers(n) \subseteq DOMAIN acl[n] /\ Managers(n) \subseteq DOMAIN dfl[n]
    BY DEF ManagersKeepAccess
  <2>1. n \in DOMAIN InitialAcl /\ n \in Node
    BY InitialAssumption, NodeAssumption DEF Init
  <2>2. acl[n] = InitialAcl[n].acl /\ dfl[n] = InitialAcl[n].dfl
    BY <2>1 DEF Init
  <2>3. QED
    BY <2>1, <2>2, InitialAssumption
<1>2. Inv /\ ManagersKeepAccess /\ [Next]_vars => ManagersKeepAccess'
  <2> SUFFICES ASSUME Inv, ManagersKeepAccess, [Next]_vars, NEW n \in exists'
               PROVE  /\ Managers(n) \subseteq DOMAIN acl'[n]
                      /\ n \in DirNode => Managers(n) \subseteq DOMAIN dfl'[n]
    BY DEF ManagersKeepAccess
  <2>1. CASE n \in exists
    BY <2>1, StepSpares DEF Spares, HasEntry, ManagersKeepAccess
  <2>2. CASE n \notin exists
    <3>1. n \in Node /\ Create(n)
      <4>1. StartRun \/ Configure \/ Kill \/ UNCHANGED vars => exists' = exists
        BY DEF StartRun, Configure, Kill, vars, fs
      <4>2. RunStep => exists' = exists
        BY DEF RunStep, fs, GetShareFacls, SkipMissingShare, FindDirs, FindFiles, FilesDone,
             FindAll, RemoveDone, GetTraversalFacls, TraversalDone, ModifyNextDir,
             ModifyNextFile, RemoveFromNext, Visit, Traverse
      <4>3. \A m \in Node : Delete(m) \/ Chmod(m) => exists' \subseteq exists
        BY DEF Delete, Chmod
      <4>4. \A m \in Node : Create(m) => exists' = exists \cup {m}
        BY DEF Create
      <4>5. QED
        BY <2>2, <4>1, <4>2, <4>3, <4>4 DEF Next
    <3>2. QED
      BY <3>1, CreateKeepsAccess
  <2>3. QED
    BY <2>1, <2>2
<1>3. QED
  BY <1>1, <1>2, InitInv, StepInv, PTL DEF Spec

-----------------------------------------------------------------------------
(***************************************************************************)
(* Runs do not take away what they grant.                                  *)
(***************************************************************************)
\* Of two directories above a path, one is above the other.
LEMMA AboveIsChain ==
    ASSUME NEW n \in Node, NEW a, IsAbove(a, n), NEW b, IsAbove(b, n)
    PROVE  a = b \/ IsAbove(a, b) \/ IsAbove(b, a)
<1>1. n \in Seq(Name) /\ Len(n) \in Nat
  BY NodeAssumption
<1>2. \A m \in 1 .. Len(n) - 1 :
         /\ Len(Prefix(n, m)) = m
         /\ \A l \in 1 .. m : Prefix(Prefix(n, m), l) = Prefix(n, l)
  BY <1>1 DEF Prefix
<1>3. PICK i \in 1 .. Len(n) - 1 : a = Prefix(n, i)
  BY DEF IsAbove
<1>4. PICK j \in 1 .. Len(n) - 1 : b = Prefix(n, j)
  BY DEF IsAbove
<1>5. CASE i = j
  BY <1>3, <1>4, <1>5
<1>6. CASE i < j
  <2>1. i \in 1 .. Len(b) - 1 /\ a = Prefix(b, i)
    BY <1>1, <1>2, <1>3, <1>4, <1>6
  <2>2. QED
    BY <2>1 DEF IsAbove
<1>7. CASE j < i
  <2>1. j \in 1 .. Len(a) - 1 /\ b = Prefix(a, j)
    BY <1>1, <1>2, <1>3, <1>4, <1>7
  <2>2. QED
    BY <2>1 DEF IsAbove
<1>8. QED
  BY <1>1, <1>5, <1>6, <1>7

\* A path is in one share at most.
LEMMA InOneShare ==
    ASSUME SharesApart, NEW c \in Config, NEW i \in DOMAIN c.realShares,
           NEW j \in DOMAIN c.realShares, NEW n \in Node,
           n = c.realShares[i].path \/ IsAbove(c.realShares[i].path, n),
           n = c.realShares[j].path \/ IsAbove(c.realShares[j].path, n)
    PROVE  i = j
<1> DEFINE paths == [l \in DOMAIN c.realShares |-> c.realShares[l].path]
<1>1. DOMAIN c.realShares = 1 .. Len(c.realShares) /\ Len(c.realShares) \in Nat
  <2>1. c.realShares \in Seq(ShareType)
    BY ConfigAssumption
  <2> HIDE DEF ShareType
  <2>2. QED
    BY <2>1
<1>2. Len(paths) = Len(c.realShares)
  BY <1>1
<1>3. Acceptable(paths, FALSE)
  BY DEF SharesApart
<1>4. ~ IsAbove(paths[i], paths[j]) /\ ~ IsAbove(paths[j], paths[i])
  BY <1>1, <1>2, <1>3 DEF Acceptable, NoneAbove
<1>5. paths[i] = paths[j] => i = j
  BY <1>1, <1>2, <1>3 DEF Acceptable, NoneTwice
<1>6. paths[i] = c.realShares[i].path /\ paths[j] = c.realShares[j].path
  OBVIOUS
<1> HIDE DEF paths
<1>7. QED
  BY <1>4, <1>5, <1>6, AboveIsChain

\* In the share that is due, nothing is granted but by that share.
LEMMA GrantedByDue ==
    ASSUME SharesApart, Inv, k <= Len(mine.realShares), NEW n \in Node, NEW g,
           n = Share.path \/ IsAbove(Share.path, n)
    PROVE  /\ g \in GroupsOf(Share) => Granted(n, g) \subseteq ModeFor(Share, g)
           /\ g \notin GroupsOf(Share) => Granted(n, g) = {}
<1>1. mine \in Config /\ k \in 1 .. Len(mine.realShares)
  BY ConfigFacts DEF Inv, TypeOK
<1>2. k \in DOMAIN mine.realShares
  BY <1>1, ConfigAssumption
<1>3. ASSUME NEW i \in DOMAIN mine.realShares, n \in Below(mine.realShares[i].path)
      PROVE  mine.realShares[i] = Share
  <2>1. i = k
    BY <1>1, <1>2, <1>3, InOneShare DEF Below, Share
  <2>2. QED
    BY <2>1 DEF Share
<1>4. QED
  BY <1>3 DEF Granted

\* The pipeline for files visits no directory.
FilesOnly == pc = "files" => work \cap DirNode = {}

LEMMA FilesOnlyStep == FilesOnly /\ [Next]_vars => FilesOnly'
<1> SUFFICES ASSUME FilesOnly, [Next]_vars, pc' = "files" PROVE work' \cap DirNode = {}
  BY DEF FilesOnly
<1>1. CASE FindFiles
  BY <1>1 DEF FindFiles, Pipe, End
<1>2. CASE \E n \in Node : ModifyNextFile(n)
  BY <1>2 DEF ModifyNextFile, Visit, FilesOnly
<1>3. CASE UNCHANGED run
  BY <1>3 DEF run, FilesOnly
<1>4. StartRun \/ Kill => FALSE
  BY DEF StartRun, Kill, End
<1>5. GetShareFacls \/ SkipMissingShare \/ FindDirs \/ FilesDone \/ FindAll \/ RemoveDone
      \/ GetTraversalFacls \/ TraversalDone => FALSE
  BY DEF GetShareFacls, SkipMissingShare, FindDirs, FilesDone, FindAll, RemoveDone,
         GetTraversalFacls, TraversalDone, End, NextShare, Pipe, Goto
<1>6. (\E n \in Node : ModifyNextDir(n) \/ RemoveFromNext(n)) \/ (\E w \in work : Traverse(w))
         => FALSE
  BY DEF ModifyNextDir, RemoveFromNext, Visit, Traverse
<1>7. (\E n \in Node : Create(n) \/ Delete(n) \/ Chmod(n)) \/ Configure \/ UNCHANGED vars
         => UNCHANGED run
  BY DEF Create, Delete, Chmod, Configure, vars
<1>8. QED
  BY <1>1, <1>2, <1>3, <1>4, <1>5, <1>6, <1>7 DEF Next, RunStep

\* What RunsKeepGrants says of a step.
KeepsGrants ==
    \A n \in exists \cap DirNode : \A g \in Group :
        ModeIn(acl[n], g) \cap Granted(n, g) \subseteq ModeIn(acl'[n], g)

\* A step that visits one file keeps the grants if it keeps those on the file.
LEMMA VisitKeepsGrants ==
    ASSUME Inv, NEW n \in Node, NEW f,
           acl' = IF n \in exists THEN [acl EXCEPT ![n] = f] ELSE acl,
           \A g \in Group : n \in DirNode =>
              ModeIn(acl[n], g) \cap Granted(n, g) \subseteq ModeIn(f, g)
    PROVE  KeepsGrants
<1>1. acl \in [Node -> AclType] /\ exists \subseteq Node
  BY DEF Inv, TypeOK
<1>2. SUFFICES ASSUME NEW m \in exists \cap DirNode, NEW g \in Group
               PROVE  ModeIn(acl[m], g) \cap Granted(m, g) \subseteq ModeIn(acl'[m], g)
  BY DEF KeepsGrants
<1>3. CASE m = n
  <2>1. acl'[m] = f
    BY <1>1, <1>3
  <2>2. QED
    BY <1>3, <2>1
<1>4. CASE m # n
  <2>1. acl'[m] = acl[m]
    BY <1>1, <1>4
  <2>2. QED
    BY <2>1
<1>5. QED
  BY <1>3, <1>4

LEMMA RunStepKeepsGrants ==
    ASSUME SharesApart, Inv, FilesOnly, RunStep
    PROVE  KeepsGrants
<1>1. \A n \in Node : n \in work /\ pc \in {"dirs", "files", "remove"} =>
         /\ k <= Len(mine.realShares)
         /\ n = Share.path \/ IsAbove(Share.path, n)
  BY DEF Inv, TypeOK, RunShape
<1>2. CASE UNCHANGED fs
  BY <1>2 DEF fs, KeepsGrants
<1>3. ASSUME NEW n \in Node, ModifyNextDir(n)
      PROVE  KeepsGrants
  <2> DEFINE f == ModifyDir(acl[n], Share)
  <2>1. k <= Len(mine.realShares) /\ (n = Share.path \/ IsAbove(Share.path, n))
    BY <1>1, <1>3 DEF ModifyNextDir, Visit, IsNext
  <2>2. ASSUME NEW g \in Group
        PROVE  ModeIn(acl[n], g) \cap Granted(n, g) \subseteq ModeIn(f, g)
    <3>1. CASE g \in GroupsOf(Share)
      <4>1. Granted(n, g) \subseteq ModeFor(Share, g)
        BY <2>1, <3>1, GrantedByDue
      <4>2. ModeIn(f, g) = ModeFor(Share, g)
        BY <3>1 DEF ModifyDir, ModeIn
      <4>3. QED
        BY <4>1, <4>2
    <3>2. CASE g \notin GroupsOf(Share)
      BY <2>1, <3>2, GrantedByDue
    <3>3. QED
      BY <3>1, <3>2
  <2>3. acl' = IF n \in exists THEN [acl EXCEPT ![n] = f] ELSE acl
    BY <1>3 DEF ModifyNextDir
  <2> HIDE DEF f
  <2>4. QED
    BY <2>2, <2>3, VisitKeepsGrants
<1>4. ASSUME NEW n \in Node, ModifyNextFile(n)
      PROVE  KeepsGrants
  <2> DEFINE f == ModifyFile(acl[n], Share)
  <2>1. n \notin DirNode
    BY <1>4 DEF ModifyNextFile, Visit, IsNext, FilesOnly
  <2>2. acl' = IF n \in exists THEN [acl EXCEPT ![n] = f] ELSE acl
    BY <1>4 DEF ModifyNextFile
  <2> HIDE DEF f
  <2>3. QED
    BY <2>1, <2>2, VisitKeepsGrants
<1>5. ASSUME NEW n \in Node, RemoveFromNext(n)
      PROVE  KeepsGrants
  <2> DEFINE gs == GroupsToRemove(facls[Share.path], Share)
             f == RemoveGroups(acl[n], gs)
  <2>1. k <= Len(mine.realShares) /\ (n = Share.path \/ IsAbove(Share.path, n))
    BY <1>1, <1>5 DEF RemoveFromNext, Visit, IsNext
  <2>2. ASSUME NEW g \in Group
        PROVE  ModeIn(acl[n], g) \cap Granted(n, g) \subseteq ModeIn(f, g)
    <3>1. CASE g \in GroupsOf(Share)
      <4>1. g \notin gs
        BY <3>1 DEF GroupsToRemove
      <4>2. ModeIn(f, g) = ModeIn(acl[n], g)
        <5> HIDE DEF gs
        <5>1. QED
          BY <4>1 DEF RemoveGroups, ModeIn
      <4>3. QED
        BY <4>2
    <3>2. CASE g \notin GroupsOf(Share)
      BY <2>1, <3>2, GrantedByDue
    <3>3. QED
      BY <3>1, <3>2
  <2>3. acl' = IF n \in exists THEN [acl EXCEPT ![n] = f] ELSE acl
    BY <1>5 DEF RemoveFromNext
  <2> HIDE DEF f
  <2>4. QED
    BY <2>2, <2>3, VisitKeepsGrants
<1>6. ASSUME NEW w \in work, Traverse(w)
      PROVE  KeepsGrants
  <2> DEFINE f == [g \in DOMAIN acl[w.path] \cup {w.group} |->
                     IF g = w.group THEN {"x"} ELSE acl[w.path][g]]
  <2>1. w \in mine.traversal /\ mine \in Config
    BY <1>6 DEF Traverse, Inv, TypeOK
  <2>2. w.path \in Node
    BY <2>1, ConfigFacts
  <2>3. \A i \in DOMAIN mine.realShares : w.path \notin Below(mine.realShares[i].path)
    BY <2>1 DEF SharesApart, Below
  <2>4. \A g : Granted(w.path, g) = {}
    BY <2>3 DEF Granted
  <2>5. acl' = IF w.path \in exists THEN [acl EXCEPT ![w.path] = f] ELSE acl
    BY <1>6 DEF Traverse
  <2> HIDE DEF f
  <2>6. QED
    BY <2>2, <2>4, <2>5, VisitKeepsGrants
<1>7. (\/ GetShareFacls \/ SkipMissingShare \/ FindDirs \/ FindFiles \/ FilesDone
       \/ FindAll \/ RemoveDone \/ GetTraversalFacls \/ TraversalDone) => UNCHANGED fs
  BY DEF GetShareFacls, SkipMissingShare, FindDirs, FindFiles, FilesDone, FindAll,
         RemoveDone, GetTraversalFacls, TraversalDone
<1>8. QED
  BY <1>2, <1>3, <1>4, <1>5, <1>6, <1>7 DEF RunStep

\* No step of a run takes from a group what the configuration grants it, if no org unit
\* is shared as a whole: setfacl -m sets what is granted at once, and nothing that is
\* granted is removed before.
THEOREM RunsKeepGrantsCorrect == SharesApart => (Spec => RunsKeepGrants)
<1> SUFFICES ASSUME SharesApart PROVE Spec => RunsKeepGrants
  OBVIOUS
<1>1. Init => FilesOnly
  BY DEF Init, FilesOnly
<1>2. Inv /\ FilesOnly /\ [Next]_vars =>
         [RunStep => \A n \in exists \cap DirNode : \A g \in Group :
             ModeIn(acl[n], g) \cap Granted(n, g) \subseteq ModeIn(acl'[n], g)]_vars
  BY RunStepKeepsGrants DEF KeepsGrants
<1>3. QED
  BY <1>1, <1>2, FilesOnlyStep, InitInv, StepInv, PTL DEF Spec, RunsKeepGrants
-----------------------------------------------------------------------------
(***************************************************************************)
(* What a run leaves behind.                                               *)
(***************************************************************************)
\* The pipelines of a share that is due.
Due == pc \in {"dirs", "files", "modified", "remove"}

\* A group has an entry on a file, which passes a mode on as it should.
InAny(n, g) == g \in DOMAIN acl[n] \cup DOMAIN dfl[n]
Passes(n, g, m) ==
    IF n \in DirNode THEN HasEntry(acl[n], g, m) /\ HasEntry(dfl[n], g, m)
    ELSE g \in DOMAIN acl[n] /\ WithoutX(acl[n][g]) = WithoutX(m)

\* A file n below p has the default entry of p for the group, and none if p has none.
Even(p, n, g) ==
    /\ InAny(n, g) => InAny(p, g)
    /\ g \in DOMAIN dfl[p] => Passes(n, g, dfl[p][g])

\* A file has the entries that a share grants, and besides none but of the managers.
Grants(s, n) == \A g \in GroupsOf(s) : Passes(n, g, ModeFor(s, g))
Applied(s, n) ==
    /\ Grants(s, n)
    /\ \A g \in Group : InAny(n, g) => g \in GroupsOf(s) \cup s.managing

\* The groups that the run removes from the share that is due.
Gone == GroupsToRemove(facls[Share.path], Share)

\* Nothing has touched the filesystem since the run started but the run.
Steady == calm \/ RunsUndisturbed

\* The run of a calm system has the configuration.  It has read the ACLs of the
\* shares as they still are where it has yet to modify them.
CalmConf == calm => mine = conf

AllShares == pc = "traverse" => k > Len(mine.realShares)

SharesRead ==
    Steady /\ (pc = "share" \/ Due) =>
       /\ DOMAIN facls = SharePaths(mine) \cap exists \cap DirNode
       /\ \A i \in DOMAIN mine.realShares :
             LET p == mine.realShares[i].path
             IN p \in DOMAIN facls /\ (i > k \/ (pc = "share" /\ i = k)) =>
                   facls[p].acl = acl[p] /\ facls[p].dfl = dfl[p]

\* What a pipeline has to visit exists.
Listed == Steady /\ pc \in {"dirs", "files", "remove"} => work \subseteq exists /\ ~ broken

\* How far the pipelines have got with a file of the share that is due.
HasGrants(n) ==
    CASE pc = "dirs" -> n \in DirNode \ work
      [] pc = "files" -> n \in DirNode \/ n \notin work
      [] OTHER -> TRUE
DueAt(n) ==
    /\ HasGrants(n) => Grants(Share, n)
    /\ pc = "remove" /\ n \notin work => \A g \in Gone : ~ InAny(n, g)

\* The directory of the share has no entries but those read and those granted.
TopDue ==
    Steady /\ Due =>
       /\ \A g \in Group : InAny(Share.path, g) =>
             \/ g \in GroupsOf(Share)
             \/ g \in DOMAIN facls[Share.path].acl \cup DOMAIN facls[Share.path].dfl
       /\ DueAt(Share.path)

\* The shares that the run is through with, all of them after a run that succeeds.
Passed(i) == (Steady /\ pc # "idle" /\ i < k) \/ Settled
TopsDone ==
    \A i \in DOMAIN mine.realShares :
       Passed(i) /\ mine.realShares[i].path \in exists =>
          Applied(mine.realShares[i], mine.realShares[i].path)

TopInv ==
    /\ Inv /\ FilesOnly /\ CalmConf /\ AllShares /\ SharesRead /\ Listed /\ TopDue
    /\ TopsDone

\* A step leaves the entries of a group alone on a file, or all entries.
EntrySame(n, g) ==
    /\ (g \in DOMAIN acl'[n]) <=> (g \in DOMAIN acl[n])
    /\ (g \in DOMAIN dfl'[n]) <=> (g \in DOMAIN dfl[n])
    /\ g \in DOMAIN acl[n] => acl'[n][g] = acl[n][g]
    /\ g \in DOMAIN dfl[n] => dfl'[n][g] = dfl[n][g]
FileSame(n) == acl'[n] = acl[n] /\ dfl'[n] = dfl[n]

\* What depends on the entries of a group alone stays as it is.
LEMMA SameEntry ==
    ASSUME NEW n, NEW g, EntrySame(n, g)
    PROVE  /\ InAny(n, g)' <=> InAny(n, g)
           /\ \A m : Passes(n, g, m)' <=> Passes(n, g, m)
BY DEF EntrySame, InAny, Passes, HasEntry, WithoutX

\* So does what depends on the entries of a file.
LEMMA SameFile ==
    ASSUME NEW n, FileSame(n)
    PROVE  \A g : EntrySame(n, g)
BY DEF FileSame, EntrySame

\* The mode of a group is that of one of its entries.
LEMMA ModeForEntry ==
    ASSUME NEW s \in ShareType, NEW g \in GroupsOf(s)
    PROVE  \E a \in Entries(s) : a.group = g /\ a.mode = ModeFor(s, g)
<1> DEFINE S == {i \in DOMAIN s.acl : s.acl[i].group = g}
           Last(i) == /\ s.acl[i].group = g
                      /\ \A j \in DOMAIN s.acl : s.acl[j].group = g => j <= i
           last_i == CHOOSE i \in DOMAIN s.acl : Last(i)
<1>1. s.acl \in Seq([group : Group, mode : Mode])
  BY DEF ShareType
<1>2. S \in SUBSET (1 .. Len(s.acl)) /\ S # {} /\ Len(s.acl) \in Nat
  BY <1>1 DEF GroupsOf
<1>3. \E i \in S : \A j \in S : j <= i
  BY <1>2, LastIndex
<1>4. \E i \in DOMAIN s.acl : Last(i)
  BY <1>3
<1>5. last_i \in DOMAIN s.acl /\ Last(last_i)
  <2> HIDE DEF Last
  <2>1. \E i \in DOMAIN s.acl : Last(i)
    BY <1>4 DEF Last
  <2>2. QED
    BY <2>1
<1>6. ModeFor(s, g) = s.acl[last_i].mode
  BY DEF ModeFor
<1>7. s.acl[last_i].group = g
  BY <1>5
<1> HIDE DEF last_i, Last
<1>8. s.acl[last_i] \in Entries(s)
  BY <1>5 DEF Entries
<1>9. QED
  BY <1>6, <1>7, <1>8

\* What a step of a run needs to be alone with the filesystem.
LEMMA Steps ==
    ASSUME Inv, [Next]_vars, Steady'
    PROVE  \/ pc = "idle" /\ StartRun
           \/ pc # "idle" /\ RunStep /\ Steady
           \/ /\ pc # "idle" /\ Steady /\ UNCHANGED <<exists, acl, dfl, run>>
              /\ calm' => calm /\ conf' = conf
           \/ pc = "idle" /\ UNCHANGED run /\ (calm' => UNCHANGED <<fs, conf, calm>>)
<1>1. RunStep => pc # "idle" /\ calm' = calm
  BY DEF RunStep, GetShareFacls, SkipMissingShare, FindDirs, FindFiles, FilesDone, FindAll,
         RemoveDone, GetTraversalFacls, TraversalDone, ModifyNextDir, ModifyNextFile,
         RemoveFromNext, Visit, Traverse, ShareIsDue, env
<1>2. StartRun => pc = "idle"
  BY DEF StartRun
<1>3. RunsUndisturbed' = RunsUndisturbed
  BY DEF RunsUndisturbed
<1>4. ASSUME NEW act, Besides(act), pc # "idle"
      PROVE  RunsUndisturbed /\ act \in ActsMidRun /\ ~ calm'
  BY <1>3, <1>4 DEF Besides, Steady
<1>5. ASSUME NEW act, Besides(act), act \in {"create", "remove", "kill"}
      PROVE  pc = "idle" /\ ~ calm'
  BY <1>4, <1>5 DEF RunsUndisturbed, Besides
<1>6. CASE \E n \in Node : Create(n) \/ Delete(n)
  BY <1>5, <1>6 DEF Create, Delete
<1>7. CASE \E n \in Node : Chmod(n)
  BY <1>4, <1>7 DEF Chmod, Besides, Steady
<1>8. CASE Configure
  BY <1>4, <1>8 DEF Configure, fs, Besides, Steady
<1>9. CASE Kill
  BY <1>5, <1>9 DEF Kill
<1>10. CASE UNCHANGED vars
  BY <1>3, <1>10 DEF vars, fs, run, env, Steady
<1>11. QED
  BY <1>1, <1>2, <1>3, <1>6, <1>7, <1>8, <1>9, <1>10 DEF Next, Steady
\* What setfacl -m and -x do to one file (setfaclDirSubdirModifySh,
\* setfaclDirSubdirRemoveSh), and that they leave the other files alone.
VisitsFile(n) == ModifyNextDir(n) \/ ModifyNextFile(n) \/ RemoveFromNext(n)

LEMMA VisitEffects ==
    ASSUME Inv, FilesOnly, NEW n \in Node, n \in exists, VisitsFile(n)
    PROVE  /\ pc' = pc /\ work' = work \ {n} /\ broken' = broken /\ Due /\ n \in work
           /\ UNCHANGED <<exists, mask, mine, facls, k, last, env>>
           /\ Share' = Share /\ Gone' = Gone
           /\ n = Share.path \/ IsAbove(Share.path, n)
           /\ k \in DOMAIN mine.realShares /\ Share \in ShareType
           /\ \A m \in Node : m # n => FileSame(m)
           /\ \A g : g \notin GroupsOf(Share) \cup Gone => EntrySame(n, g)
           /\ pc # "remove" => \A g : g \notin GroupsOf(Share) => EntrySame(n, g)
           /\ (pc = "dirs" /\ n \in DirNode) \/ pc = "files" =>
                 \A g \in GroupsOf(Share) : Passes(n, g, ModeFor(Share, g))'
           /\ pc = "remove" =>
                 /\ \A g : g \notin Gone => EntrySame(n, g)
                 /\ \A g \in Gone : ~ InAny(n, g)'
<1>1. /\ pc' = pc /\ work' = work \ {n} /\ broken' = broken /\ n \in work
      /\ UNCHANGED <<exists, mask, mine, facls, k, last, env>>
      /\ pc \in {"dirs", "files", "remove"}
  <2>1. Visit(n) /\ pc \in {"dirs", "files", "remove"}
    BY DEF VisitsFile, ModifyNextDir, ModifyNextFile, RemoveFromNext
  <2>2. broken \in BOOLEAN
    BY DEF Inv, TypeOK
  <2>3. QED
    BY <2>1, <2>2 DEF Visit, IsNext
<1>2. Share' = Share /\ Gone' = Gone
  BY <1>1 DEF Share, Gone
<1>3. n = Share.path \/ IsAbove(Share.path, n)
  BY <1>1 DEF Inv, RunShape
<1>4. k \in DOMAIN mine.realShares /\ Share \in ShareType
  <2>1. mine \in Config /\ k \in 1 .. Len(mine.realShares)
    BY <1>1, ConfigFacts DEF Inv, TypeOK
  <2>2. mine.realShares \in Seq(ShareType)
    BY <2>1, ConfigAssumption
  <2> HIDE DEF ShareType
  <2>3. QED
    BY <2>1, <2>2 DEF Share
<1>5. acl \in [Node -> AclType] /\ dfl \in [Node -> AclType]
  BY DEF Inv, TypeOK
<1> DEFINE Effects ==
           /\ \A m \in Node : m # n => FileSame(m)
           /\ \A g : g \notin GroupsOf(Share) \cup Gone => EntrySame(n, g)
           /\ pc # "remove" => \A g : g \notin GroupsOf(Share) => EntrySame(n, g)
           /\ (pc = "dirs" /\ n \in DirNode) \/ pc = "files" =>
                 \A g \in GroupsOf(Share) : Passes(n, g, ModeFor(Share, g))'
           /\ pc = "remove" =>
                 /\ \A g : g \notin Gone => EntrySame(n, g)
                 /\ \A g \in Gone : ~ InAny(n, g)'
<1>6. ASSUME ModifyNextDir(n)
      PROVE  Effects
  <2>1. pc = "dirs" /\ acl' = [acl EXCEPT ![n] = ModifyDir(@, Share)]
                    /\ dfl' = [dfl EXCEPT ![n] = ModifyDir(@, Share)]
    BY <1>6 DEF ModifyNextDir
  <2>2. acl'[n] = ModifyDir(acl[n], Share) /\ dfl'[n] = ModifyDir(dfl[n], Share)
    BY <1>5, <2>1
  <2>3. \A m \in Node : m # n => FileSame(m)
    BY <1>5, <2>1 DEF FileSame
  <2>4. \A g : g \notin GroupsOf(Share) => EntrySame(n, g)
    BY <2>2 DEF EntrySame, ModifyDir
  <2>5. \A g \in GroupsOf(Share) :
           /\ HasEntry(acl'[n], g, ModeFor(Share, g))
           /\ HasEntry(dfl'[n], g, ModeFor(Share, g))
    BY <2>2 DEF HasEntry, ModifyDir
  <2>6. \A g : ModeFor(Share, g)' = ModeFor(Share, g)
    BY <1>2 DEF ModeFor
  <2>7. n \in DirNode => \A g \in GroupsOf(Share) : Passes(n, g, ModeFor(Share, g))'
    BY <2>5, <2>6 DEF Passes
  <2>8. QED
    BY <2>1, <2>3, <2>4, <2>7
<1>7. ASSUME ModifyNextFile(n)
      PROVE  Effects
  <2>1. pc = "files" /\ acl' = [acl EXCEPT ![n] = ModifyFile(@, Share)] /\ dfl' = dfl
    BY <1>7 DEF ModifyNextFile
  <2>2. acl'[n] = ModifyFile(acl[n], Share) /\ dfl'[n] = dfl[n]
    BY <1>5, <2>1
  <2>3. \A m \in Node : m # n => FileSame(m)
    BY <1>5, <2>1 DEF FileSame
  <2>4. \A g : g \notin GroupsOf(Share) => EntrySame(n, g)
    BY <2>2 DEF EntrySame, ModifyFile
  <2>5. \A g \in GroupsOf(Share) :
           g \in DOMAIN acl'[n] /\ acl'[n][g] = WithoutX(ModeFor(Share, g))
    BY <2>2 DEF ModifyFile
  <2>6. \A g : ModeFor(Share, g)' = ModeFor(Share, g)
    BY <1>2 DEF ModeFor
  <2>7. n \notin DirNode /\ \A v : WithoutX(WithoutX(v)) = WithoutX(v)
    BY <1>1, <2>1 DEF FilesOnly, WithoutX
  <2>8. \A g \in GroupsOf(Share) : Passes(n, g, ModeFor(Share, g))'
    BY <2>5, <2>6, <2>7 DEF Passes
  <2>9. QED
    BY <2>1, <2>3, <2>4, <2>8
<1>8. ASSUME RemoveFromNext(n)
      PROVE  Effects
  <2>1. pc = "remove" /\ acl' = [acl EXCEPT ![n] = RemoveGroups(@, Gone)]
                      /\ dfl' = [dfl EXCEPT ![n] = RemoveGroups(@, Gone)]
    BY <1>8 DEF RemoveFromNext, Gone
  <2>2. acl'[n] = RemoveGroups(acl[n], Gone) /\ dfl'[n] = RemoveGroups(dfl[n], Gone)
    BY <1>5, <2>1
  <2>3. \A m \in Node : m # n => FileSame(m)
    BY <1>5, <2>1 DEF FileSame
  <2>4. \A g : g \notin Gone => EntrySame(n, g)
    BY <2>2 DEF EntrySame, RemoveGroups
  <2>5. \A g \in Gone : ~ InAny(n, g)'
    BY <2>2 DEF InAny, RemoveGroups
  <2>6. QED
    BY <2>1, <2>3, <2>4, <2>5
<1>9. Effects
  BY <1>6, <1>7, <1>8 DEF VisitsFile
<1>10. QED
  BY <1>1, <1>2, <1>3, <1>4, <1>9 DEF Due

\* A traversal entry is added to the ACL of one directory.
LEMMA TraverseEffects ==
    ASSUME Inv, NEW w \in work, Traverse(w)
    PROVE  /\ pc = "traverse" /\ pc' = pc /\ work' = work \ {w}
           /\ UNCHANGED <<exists, mask, mine, facls, k, last, env>>
           /\ w \in mine.traversal /\ w.path \in Node
           /\ \A m \in Node : m # w.path => FileSame(m)
           /\ \A g : g # w.group => EntrySame(w.path, g)
           /\ dfl' = dfl
           /\ w.path \in exists => HasEntry(acl'[w.path], w.group, {"x"})
<1>1. w \in mine.traversal /\ w.path \in Node
  BY ConfigFacts DEF Inv, TypeOK, Traverse
<1>2. acl \in [Node -> AclType] /\ dfl' = dfl
  BY DEF Inv, TypeOK, Traverse
<1>3. CASE w.path \in exists
  <2>1. acl'[w.path] = [g \in DOMAIN acl[w.path] \cup {w.group} |->
                          IF g = w.group THEN {"x"} ELSE acl[w.path][g]]
    BY <1>1, <1>2, <1>3 DEF Traverse
  <2>2. \A m \in Node : m # w.path => FileSame(m)
    BY <1>2, <1>3 DEF Traverse, FileSame
  <2>3. \A g : g # w.group => EntrySame(w.path, g)
    BY <1>2, <2>1 DEF EntrySame
  <2>4. HasEntry(acl'[w.path], w.group, {"x"})
    BY <2>1 DEF HasEntry
  <2>5. QED
    BY <1>1, <1>2, <2>2, <2>3, <2>4 DEF Traverse
<1>4. CASE w.path \notin exists
  BY <1>1, <1>2, <1>4 DEF Traverse, FileSame, EntrySame
<1>5. QED
  BY <1>3, <1>4

\* The steps of a run that only look at the filesystem.
Looks ==
    \/ GetShareFacls \/ SkipMissingShare \/ FindDirs \/ FindFiles \/ FilesDone \/ FindAll
    \/ RemoveDone \/ GetTraversalFacls \/ TraversalDone

LEMMA RunSteps ==
    ASSUME RunStep
    PROVE  \/ Looks /\ UNCHANGED <<fs, env>>
           \/ \E n \in Node : VisitsFile(n)
           \/ \E w \in work : Traverse(w)
BY DEF RunStep, Looks, VisitsFile, GetShareFacls, SkipMissingShare, FindDirs, FindFiles,
       FilesDone, FindAll, RemoveDone, GetTraversalFacls, TraversalDone

\* No file is above itself, and what is above the directories above is above.
LEMMA AboveIsOrder ==
    ASSUME NEW n \in Node
    PROVE  /\ ~ IsAbove(n, n)
           /\ \A m \in Node : \A a : IsAbove(a, m) /\ IsAbove(m, n) => IsAbove(a, n)
<1>1. n \in Seq(Name) /\ Len(n) \in Nat
  BY NodeAssumption
<1>2. \A i \in 1 .. Len(n) - 1 : Len(Prefix(n, i)) = i
  BY <1>1 DEF Prefix
<1>3. ~ IsAbove(n, n)
  BY <1>1, <1>2 DEF IsAbove
<1>4. ASSUME NEW m \in Node, NEW a, IsAbove(a, m), IsAbove(m, n)
      PROVE  IsAbove(a, n)
  <2>1. PICK j \in 1 .. Len(n) - 1 : m = Prefix(n, j)
    BY <1>4 DEF IsAbove
  <2>2. Len(m) = j
    BY <1>2, <2>1
  <2>3. PICK i \in 1 .. Len(m) - 1 : a = Prefix(m, i)
    BY <1>4 DEF IsAbove
  <2>4. Prefix(m, i) = Prefix(n, i)
    BY <1>1, <2>1, <2>2, <2>3 DEF Prefix
  <2>5. i \in 1 .. Len(n) - 1
    BY <1>1, <2>1, <2>2, <2>3
  <2>6. QED
    BY <2>3, <2>4, <2>5 DEF IsAbove
<1>5. QED
  BY <1>3, <1>4
\* What a share grants on a file stays when the entries of its groups stay.
LEMMA GrantsStay ==
    ASSUME NEW s \in ShareType, NEW n, \A g \in GroupsOf(s) : EntrySame(n, g)
    PROVE  Grants(s, n)' <=> Grants(s, n)
<1>1. \A g \in GroupsOf(s) : \A m : Passes(n, g, m)' <=> Passes(n, g, m)
  BY SameEntry
<1>2. \A g \in GroupsOf(s) : Passes(n, g, ModeFor(s, g))' <=> Passes(n, g, ModeFor(s, g))
  BY <1>1
<1>3. QED
  BY <1>2 DEF Grants

\* So does what the share that is due grants.
LEMMA ShareGrantsStay ==
    ASSUME Share' = Share, Share \in ShareType, NEW n,
           \A g \in GroupsOf(Share) : EntrySame(n, g)
    PROVE  Grants(Share, n)' <=> Grants(Share, n)
<1>1. PICK s \in ShareType : s = Share
  OBVIOUS
<1>2. Grants(s, n)' <=> Grants(s, n)
  BY <1>1, GrantsStay
<1>3. Grants(Share, n)' <=> Grants(s, n)'
  <2>1. Share' = s
    BY <1>1
  <2>2. QED
    BY <2>1 DEF Grants, Passes
<1>4. QED
  BY <1>1, <1>2, <1>3

\* What has been applied to a file stays when its entries stay.
LEMMA AppliedStays ==
    ASSUME NEW s \in ShareType, NEW n, \A g : EntrySame(n, g)
    PROVE  Applied(s, n)' <=> Applied(s, n)
<1>1. Grants(s, n)' <=> Grants(s, n)
  BY GrantsStay
<1>2. \A g : InAny(n, g)' <=> InAny(n, g)
  BY SameEntry
<1>3. QED
  BY <1>1, <1>2 DEF Applied

\* A pipeline does to a file what it is for, and keeps what the ones before it did.
LEMMA VisitKeepsDue ==
    ASSUME Inv, FilesOnly, NEW n \in Node, n \in exists, VisitsFile(n),
           NEW m \in Below(Share.path), DueAt(m)
    PROVE  DueAt(m)'
<1>1. /\ pc' = pc /\ work' = work \ {n} /\ n \in work /\ Share' = Share /\ Gone' = Gone
      /\ pc \in {"dirs", "files", "modified", "remove"}
      /\ Share \in ShareType
      /\ \A l \in Node : l # n => FileSame(l)
      /\ pc # "remove" => \A g : g \notin GroupsOf(Share) => EntrySame(n, g)
      /\ (pc = "dirs" /\ n \in DirNode) \/ pc = "files" =>
            \A g \in GroupsOf(Share) : Passes(n, g, ModeFor(Share, g))'
      /\ pc = "remove" =>
            /\ \A g : g \notin Gone => EntrySame(n, g)
            /\ \A g \in Gone : ~ InAny(n, g)'
  BY VisitEffects DEF Due
<1>2. m \in Node
  BY DEF Below, Inv, TypeOK
<1>3. CASE m # n
  <2>1. \A g : EntrySame(m, g)
    BY <1>1, <1>2, <1>3, SameFile
  <2>2. Grants(Share, m)' <=> Grants(Share, m)
    BY <1>1, <2>1, ShareGrantsStay
  <2>3. \A g : InAny(m, g)' <=> InAny(m, g)
    BY <2>1, SameEntry
  <2>4. HasGrants(m)' => HasGrants(m)
    BY <1>1, <1>3 DEF HasGrants
  <2>5. pc' = "remove" /\ m \notin work' => pc = "remove" /\ m \notin work
    BY <1>1, <1>3
  <2>6. QED
    BY <1>1, <2>2, <2>3, <2>4, <2>5 DEF DueAt
<1>4. CASE m = n
  <2>1. CASE pc = "remove"
    <3>1. \A g \in GroupsOf(Share) : EntrySame(n, g)
      BY <1>1, <2>1 DEF Gone, GroupsToRemove
    <3>2. Grants(Share, m)' <=> Grants(Share, m)
      BY <1>1, <1>4, <3>1, ShareGrantsStay
    <3>3. HasGrants(m)
      BY <2>1 DEF HasGrants
    <3>4. QED
      BY <1>1, <1>4, <2>1, <3>2, <3>3 DEF DueAt
  <2>2. CASE pc # "remove"
    <3>1. HasGrants(m)' => Grants(Share, m)'
      <4>1. SUFFICES ASSUME HasGrants(m)' PROVE Grants(Share, m)'
        OBVIOUS
      <4>2. (pc = "dirs" /\ n \in DirNode) \/ pc = "files"
        BY <1>1, <1>4, <2>2, <4>1 DEF HasGrants, VisitsFile, ModifyNextDir, ModifyNextFile,
           RemoveFromNext
      <4>3. \A g \in GroupsOf(Share) : Passes(n, g, ModeFor(Share, g))'
        BY <1>1, <4>2
      <4>4. GroupsOf(Share)' = GroupsOf(Share)
        BY <1>1 DEF GroupsOf
      <4>5. QED
        BY <1>4, <4>3, <4>4 DEF Grants
    <3>2. QED
      BY <1>1, <2>2, <3>1 DEF DueAt
  <2>3. QED
    BY <2>1, <2>2
<1>5. QED
  BY <1>3, <1>4

\* The next pipeline starts when the one before it is through.
LEMMA NextPipelineKeepsDue ==
    ASSUME FindFiles \/ FilesDone \/ FindAll, Due', NEW m \in Below(Share.path), DueAt(m)
    PROVE  DueAt(m)'
<1>1. Share' = Share /\ Gone' = Gone /\ UNCHANGED <<acl, dfl>>
  BY DEF FindFiles, FilesDone, FindAll, Pipe, Goto, NextShare, End, Share, Gone, fs, Due
<1>2. Grants(Share, m)' <=> Grants(Share, m)
  BY <1>1 DEF Grants, Passes, ModeFor
<1>3. HasGrants(m)' => HasGrants(m)
  BY DEF HasGrants, FindFiles, FilesDone, FindAll, Pipe, Goto, NextShare, End, Due
<1>4. pc' = "remove" => work' = Below(Share.path)
  BY DEF FindFiles, FilesDone, FindAll, Pipe, Goto, NextShare, End, Due
<1>5. QED
  BY <1>2, <1>3, <1>4 DEF DueAt
-----------------------------------------------------------------------------
(***************************************************************************)
(* The directories of the shares.                                          *)
(***************************************************************************)
\* What is known of the shares of a configuration.
LEMMA ShareFacts ==
    ASSUME NEW c \in Config
    PROVE  /\ Len(c.realShares) \in Nat /\ DOMAIN c.realShares = 1 .. Len(c.realShares)
           /\ \A i \in DOMAIN c.realShares : c.realShares[i] \in ShareType
           /\ \A i \in DOMAIN c.realShares :
                 c.realShares[i].path \in Node /\ c.realShares[i].path \in SharePaths(c)
<1>1. c.realShares \in Seq(ShareType)
  BY ConfigAssumption
<1>2. Len(c.realShares) \in Nat /\ DOMAIN c.realShares = 1 .. Len(c.realShares)
  <2> HIDE DEF ShareType
  <2>1. QED
    BY <1>1
<1>3. \A i \in DOMAIN c.realShares : c.realShares[i] \in ShareType
  BY <1>2, ConfigFacts
<1>4. \A s \in ShareType : s.path \in Node
  BY DEF ShareType
<1> HIDE DEF ShareType
<1>5. QED
  BY <1>2, <1>3, <1>4 DEF SharePaths

LEMMA DueFacts ==
    ASSUME Inv, Due \/ (ShareIsDue /\ Share.path \in DOMAIN facls)
    PROVE  /\ mine \in Config /\ k \in DOMAIN mine.realShares
           /\ Share \in ShareType /\ Share.path \in Node /\ Share.path \in DOMAIN facls
           /\ Share.path \in SharePaths(mine)
<1>1. mine \in Config /\ k \in 1 .. Len(mine.realShares) /\ Share.path \in DOMAIN facls
  BY ConfigFacts DEF Inv, TypeOK, Due, ShareIsDue
<1>2. QED
  BY <1>1, ShareFacts DEF Share

\* A run visits no file of another share.
LEMMA OtherShareStays ==
    ASSUME SharesApart, Inv, FilesOnly, NEW n \in Node, n \in exists, VisitsFile(n),
           NEW i \in DOMAIN mine.realShares, i # k, NEW m \in Node,
           m = mine.realShares[i].path \/ IsAbove(mine.realShares[i].path, m)
    PROVE  FileSame(m)
<1>1. /\ n = Share.path \/ IsAbove(Share.path, n)
      /\ \A l \in Node : l # n => FileSame(l)
      /\ Due
  BY VisitEffects
<1>2. mine \in Config /\ k \in DOMAIN mine.realShares
  BY <1>1, DueFacts
<1>3. m # n
  BY <1>1, <1>2, InOneShare DEF Share
<1>4. QED
  BY <1>1, <1>3

\* Nor does it give a traversal entry to a file of a share.
LEMMA TraversalSparesShares ==
    ASSUME SharesApart, Inv, NEW w \in work, Traverse(w),
           NEW i \in DOMAIN mine.realShares, NEW m \in Node,
           m = mine.realShares[i].path \/ IsAbove(mine.realShares[i].path, m)
    PROVE  FileSame(m)
<1>1. w \in mine.traversal /\ \A l \in Node : l # w.path => FileSame(l)
  BY TraverseEffects
<1>2. mine \in Config
  BY DEF Inv, TypeOK
<1>3. m # w.path
  BY <1>1, <1>2 DEF SharesApart
<1>4. QED
  BY <1>1, <1>3

\* What a pipeline has to visit exists: it is alone.
LEMMA ListedStep == Inv /\ Listed /\ [Next]_vars => Listed'
<1> SUFFICES ASSUME Inv, Listed, [Next]_vars, Steady', pc' \in {"dirs", "files", "remove"}
             PROVE  work' \subseteq exists' /\ ~ broken'
  BY DEF Listed
<1>1. CASE pc = "idle" /\ StartRun
  BY <1>1 DEF StartRun
<1>2. CASE UNCHANGED run /\ (pc = "idle" \/ UNCHANGED exists) /\ Steady
  BY <1>2 DEF run, Listed
<1>3. CASE RunStep /\ Steady
  <2>1. CASE \E n \in Node : ModifyNextDir(n) \/ ModifyNextFile(n) \/ RemoveFromNext(n)
    <3>1. PICK n \in Node : ModifyNextDir(n) \/ ModifyNextFile(n) \/ RemoveFromNext(n)
      BY <2>1
    <3>2. pc \in {"dirs", "files", "remove"} /\ Visit(n) /\ n \in work
      BY <3>1 DEF ModifyNextDir, ModifyNextFile, RemoveFromNext, Visit, IsNext
    <3>3. work \subseteq exists /\ ~ broken
      BY <1>3, <3>2 DEF Listed
    <3>4. QED
      BY <3>2, <3>3 DEF Visit
  <2>2. CASE Looks
    <3>1. FindDirs \/ FindFiles \/ FindAll
      BY <2>2 DEF Looks, GetShareFacls, SkipMissingShare, FilesDone, RemoveDone,
         GetTraversalFacls, TraversalDone, End, NextShare, Pipe, Goto
    <3>2. QED
      BY <3>1 DEF FindDirs, FindFiles, FindAll, Pipe, Goto, End, NextShare, Below, fs
  <2>3. CASE \E w \in work : Traverse(w)
    BY <2>3 DEF Traverse
  <2>4. QED
    BY <1>3, <2>1, <2>2, <2>3 DEF RunStep, Looks
<1>4. pc = "idle" /\ UNCHANGED run => FALSE
  BY DEF run
<1>5. QED
  BY <1>1, <1>2, <1>3, <1>4, Steps DEF run

\* A calm run has the configuration, and traversal comes after the shares.
LEMMA CalmConfStep == Inv /\ CalmConf /\ AllShares /\ [Next]_vars => CalmConf' /\ AllShares'
<1> SUFFICES ASSUME Inv, CalmConf, AllShares, [Next]_vars PROVE CalmConf' /\ AllShares'
  OBVIOUS
<1>1. CASE StartRun
  BY <1>1 DEF StartRun, CalmConf, AllShares
<1>2. CASE RunStep
  <2>1. UNCHANGED <<mine, conf, calm>>
    BY <1>2 DEF RunStep, GetShareFacls, SkipMissingShare, FindDirs, FindFiles, FilesDone, FindAll,
       RemoveDone, GetTraversalFacls, TraversalDone, ModifyNextDir, ModifyNextFile,
       RemoveFromNext, Visit, Traverse, env, Pipe, Goto, NextShare, End
  <2>2. pc' = "traverse" => k' > Len(mine.realShares)
    BY <1>2 DEF RunStep, GetShareFacls, SkipMissingShare, FindDirs, FindFiles, FilesDone, FindAll,
       RemoveDone, GetTraversalFacls, TraversalDone, ModifyNextDir, ModifyNextFile,
       RemoveFromNext, Visit, Traverse, Pipe, Goto, NextShare, End, AllShares
  <2>3. QED
    BY <2>1, <2>2 DEF CalmConf, AllShares
<1>3. CASE \E n \in Node : Create(n) \/ Delete(n) \/ Chmod(n)
  BY <1>3 DEF Create, Delete, Chmod, Besides, run, CalmConf, AllShares
<1>4. CASE Configure \/ Kill
  BY <1>4 DEF Configure, Kill, Besides, run, End, CalmConf, AllShares
<1>5. CASE UNCHANGED vars
  BY <1>5 DEF vars, run, env, CalmConf, AllShares
<1>6. QED
  BY <1>1, <1>2, <1>3, <1>4, <1>5 DEF Next
\* What was read of a share is what it has, until the share is due.
LEMMA SharesReadStep ==
    ASSUME SharesApart, Inv, FilesOnly, Listed, SharesRead, [Next]_vars
    PROVE  SharesRead'
<1> SUFFICES ASSUME Steady', (pc = "share" \/ Due)'
             PROVE  /\ DOMAIN facls' = SharePaths(mine') \cap exists' \cap DirNode
                    /\ \A i \in DOMAIN mine'.realShares :
                          LET p == mine'.realShares[i].path
                          IN p \in DOMAIN facls' /\ (i > k' \/ (pc' = "share" /\ i = k')) =>
                                facls'[p].acl = acl'[p] /\ facls'[p].dfl = dfl'[p]
  BY DEF SharesRead
<1>0. k \in Int /\ mine \in Config /\ DOMAIN mine.realShares = 1 .. Len(mine.realShares)
      /\ Len(mine.realShares) \in Nat
  BY ConfigFacts, ShareFacts DEF Inv, TypeOK
<1>1. CASE pc = "idle" /\ (StartRun \/ UNCHANGED run)
  BY <1>1 DEF StartRun, run, Due
<1>2. CASE Steady /\ UNCHANGED <<exists, acl, dfl, run>>
  BY <1>2 DEF run, SharesRead, Due
<1>3. CASE RunStep /\ Steady
  <2>1. CASE \E n \in Node : VisitsFile(n)
    <3>1. PICK n \in Node : VisitsFile(n)
      BY <2>1
    <3>2. pc \in {"dirs", "files", "remove"} /\ n \in work
      BY <3>1 DEF VisitsFile, ModifyNextDir, ModifyNextFile, RemoveFromNext, Visit, IsNext
    <3>3. n \in exists
      BY <1>3, <3>2 DEF Listed
    <3>4. pc' = pc /\ Due /\ UNCHANGED <<exists, mine, facls, k>>
      BY <3>1, <3>3, VisitEffects
    <3>5. ASSUME NEW i \in DOMAIN mine.realShares, i > k
          PROVE  FileSame(mine.realShares[i].path)
      <4>1. i # k /\ mine.realShares[i].path \in Node
        BY <1>0, <3>5, ShareFacts
      <4>2. QED
        BY <3>1, <3>3, <4>1, OtherShareStays
    <3>6. pc' # "share"
      BY <3>2, <3>4
    <3>7. QED
      BY <1>3, <3>4, <3>5, <3>6 DEF SharesRead, FileSame
  <2>2. CASE Looks /\ UNCHANGED <<fs, env>>
    <3>1. UNCHANGED <<exists, acl, dfl>>
      BY <2>2 DEF fs
    <3>2. CASE GetShareFacls
      <4>1. k' = k /\ mine' = mine /\ facls' = Getfacl(SharePaths(mine))
        BY <3>2 DEF GetShareFacls, End, Due
      <4>2. QED
        BY <3>1, <4>1 DEF Getfacl
    <3>3. CASE ~ GetShareFacls
      <4>1. /\ mine' = mine /\ facls' = facls /\ (pc = "share" \/ Due)
            /\ (k' = k /\ pc' # "share") \/ (k' = k + 1 /\ pc' = "share")
        BY <2>2, <3>3 DEF Looks, SkipMissingShare, FindDirs, FindFiles, FilesDone, FindAll,
           RemoveDone, GetTraversalFacls, TraversalDone, ShareIsDue, End, NextShare, Pipe,
           Goto, Due
      <4>2. \A i \in DOMAIN mine.realShares :
               (i > k' \/ (pc' = "share" /\ i = k')) => i > k
        BY <1>0, <4>1
      <4>3. QED
        BY <1>3, <3>1, <4>1, <4>2 DEF SharesRead
    <3>4. QED
      BY <3>2, <3>3
  <2>3. CASE \E w \in work : Traverse(w)
    BY <2>3 DEF Traverse, Due
  <2>4. QED
    BY <1>3, <2>1, <2>2, <2>3, RunSteps
<1>4. QED
  BY <1>1, <1>2, <1>3, Steps

\* The directory of a share that needs no modification has what the share grants.
LEMMA NoNeedGrants ==
    ASSUME NEW s \in ShareType, s.path \in DirNode, NEW actual,
           actual.acl = acl[s.path], actual.dfl = dfl[s.path], ~ NeedModify(actual, s)
    PROVE  Grants(s, s.path) /\ \A g \in GroupsOf(s) : HasEntry(dfl[s.path], g, ModeFor(s, g))
<1> HIDE DEF ShareType
<1>1. ASSUME NEW g \in GroupsOf(s)
      PROVE  /\ HasEntry(acl[s.path], g, ModeFor(s, g))
             /\ HasEntry(dfl[s.path], g, ModeFor(s, g))
  <2>1. PICK a \in Entries(s) : a.group = g /\ a.mode = ModeFor(s, g)
    BY ModeForEntry
  <2>2. QED
    BY <2>1 DEF NeedModify
<1>2. QED
  BY <1>1 DEF Grants, Passes

\* The pipelines give the directory of the share that is due what it grants.
LEMMA TopDueStep ==
    ASSUME PlainShares, SharesApart, Inv, FilesOnly, Listed, SharesRead, TopDue, [Next]_vars
    PROVE  TopDue'
<1> SUFFICES ASSUME Steady', Due'
             PROVE  /\ \A g \in Group : InAny(Share.path, g)' =>
                          \/ g \in GroupsOf(Share)'
                          \/ g \in (DOMAIN facls[Share.path].acl)'
                          \/ g \in (DOMAIN facls[Share.path].dfl)'
                    /\ DueAt(Share.path)'
  BY DEF TopDue
<1>1. CASE pc = "idle" /\ (StartRun \/ UNCHANGED run)
  BY <1>1 DEF StartRun, run, Due
<1>2. CASE Steady /\ UNCHANGED <<exists, acl, dfl, run>>
  <2>1. Due /\ Share' = Share /\ UNCHANGED <<acl, dfl, facls, work, pc>>
    BY <1>2 DEF Due, run, Share
  <2>2. Gone' = Gone
    BY <2>1 DEF Gone
  <2>3. DueAt(Share.path)' <=> DueAt(Share.path)
    BY <2>1, <2>2 DEF DueAt, HasGrants, Grants, Passes, InAny
  <2>4. QED
    BY <1>2, <2>1, <2>3 DEF TopDue, InAny
<1>3. CASE RunStep /\ Steady
  <2>1. CASE \E n \in Node : VisitsFile(n)
    <3>1. PICK n \in Node : VisitsFile(n)
      BY <2>1
    <3>2. pc \in {"dirs", "files", "remove"} /\ n \in work
      BY <3>1 DEF VisitsFile, ModifyNextDir, ModifyNextFile, RemoveFromNext, Visit, IsNext
    <3>3. n \in exists
      BY <1>3, <3>2 DEF Listed
    <3>4. /\ Due /\ Share' = Share /\ UNCHANGED <<exists, mine, facls, k>>
          /\ \A g : g \notin GroupsOf(Share) \cup Gone => EntrySame(n, g)
          /\ \A m \in Node : m # n => FileSame(m)
          /\ pc = "remove" => \A g \in Gone : ~ InAny(n, g)'
          /\ pc # "remove" => \A g : g \notin GroupsOf(Share) => EntrySame(n, g)
      BY <3>1, <3>3, VisitEffects
    <3>5. Share.path \in Node /\ Share.path \in SharePaths(mine) /\ Share.path \in DOMAIN facls
      BY <3>4, DueFacts
    <3>6. Share.path \in exists
      BY <1>3, <3>4, <3>5 DEF SharesRead
    <3>7. Share.path \in Below(Share.path)
      BY <3>6 DEF Below
    <3>8. DueAt(Share.path)'
      <4>1. \A m \in Below(Share.path) : DueAt(m) => DueAt(m)'
        BY <3>1, <3>3, VisitKeepsDue
      <4>2. DueAt(Share.path) => (\A m \in {Share.path} : DueAt(m)')
        BY <3>7, <4>1
      <4>3. DueAt(Share.path)
        BY <1>3, <3>4 DEF TopDue
      <4>4. PICK p : p = Share.path /\ p = Share'.path
        BY <3>4
      <4>5. DueAt(p)'
        BY <4>2, <4>3, <4>4
      <4>6. QED
        BY <4>4, <4>5 DEF DueAt, HasGrants, Grants, Passes, InAny
    <3>9. ASSUME NEW g \in Group, InAny(Share.path, g)'
          PROVE  \/ g \in GroupsOf(Share)
                 \/ g \in DOMAIN facls[Share.path].acl \cup DOMAIN facls[Share.path].dfl
      <4>1. PICK p \in Node : p = Share.path /\ p = Share'.path
        BY <3>4, <3>5
      <4>2. InAny(p, g)'
        BY <3>9, <4>1 DEF InAny
      <4>3. \/ g \in GroupsOf(Share) \/ EntrySame(p, g) \/ g \in Gone
        BY <3>4, <3>5, <4>1, SameFile
      <4>4. EntrySame(p, g) => InAny(p, g)
        BY <4>2, SameEntry
      <4>5. g \in Gone => g \in DOMAIN facls[Share.path].acl \cup DOMAIN facls[Share.path].dfl
        BY DEF Gone, GroupsToRemove
      <4>6. QED
        BY <1>3, <3>4, <4>1, <4>3, <4>4, <4>5 DEF TopDue
    <3>10. GroupsOf(Share)' = GroupsOf(Share)
      BY <3>4 DEF GroupsOf
    <3>11. QED
      BY <3>4, <3>8, <3>9, <3>10
  <2>2. CASE Looks /\ UNCHANGED <<fs, env>>
    <3>1. UNCHANGED <<exists, acl, dfl>>
      BY <2>2 DEF fs
    <3>2. CASE FindDirs
      <4>1. ShareIsDue /\ Share.path \in DOMAIN facls /\ Share' = Share /\ facls' = facls
        BY <3>2 DEF FindDirs, Pipe, Goto, End, Share, Due
      <4>2. /\ Share.path \in SharePaths(mine) /\ Share.path \in exists
            /\ Share.path \in DirNode /\ k \in DOMAIN mine.realShares
            /\ Share \in ShareType
        BY <1>3, <4>1, DueFacts DEF SharesRead, ShareIsDue
      <4>3. facls[Share.path].acl = acl[Share.path] /\ facls[Share.path].dfl = dfl[Share.path]
        BY <1>3, <4>1, <4>2 DEF SharesRead, ShareIsDue, Share
      <4>4. pc' \in {"dirs", "modified"}
        BY <3>2 DEF FindDirs, Pipe, Goto, End, Due
      <4>5. HasGrants(Share.path)' => Grants(Share, Share.path)
        <5>1. pc' = "dirs" => work' = Below(Share.path) \cap DirNode
          BY <3>2 DEF FindDirs, Pipe, Goto, End, Due
        <5>2. pc' = "modified" => ~ NeedModify(facls[Share.path], Share)
          BY <3>2 DEF FindDirs, Pipe, Goto, End, Due
        <5>3. pc' = "modified" => Grants(Share, Share.path)
          <6>1. PICK s \in ShareType : s = Share
            BY <4>2
          <6>2. pc' = "modified" => Grants(s, s.path)
            BY <4>2, <4>3, <5>2, <6>1, NoNeedGrants
          <6>3. QED
            BY <6>1, <6>2
        <5>4. pc' = "dirs" => ~ HasGrants(Share.path)'
          BY <4>1, <4>2, <5>1 DEF HasGrants, Below
        <5>5. QED
          BY <4>4, <5>3, <5>4
      <4>6. Grants(Share, Share.path)' <=> Grants(Share, Share.path)
        BY <3>1, <4>1 DEF Grants, Passes
      <4>7. DueAt(Share.path)'
        BY <4>4, <4>5, <4>6 DEF DueAt
      <4>8. \A g : InAny(Share.path, g)' =>
               g \in DOMAIN facls[Share.path].acl \cup DOMAIN facls[Share.path].dfl
        BY <3>1, <4>1, <4>3 DEF InAny
      <4>9. QED
        BY <4>1, <4>7, <4>8
    <3>3. CASE FindFiles \/ FilesDone \/ FindAll
      <4>1. Due /\ Share' = Share /\ UNCHANGED facls
        BY <3>3 DEF FindFiles, FilesDone, FindAll, Pipe, Goto, NextShare, End, Share, Due
      <4>2. Share.path \in SharePaths(mine) /\ Share.path \in DOMAIN facls /\ Share.path \in exists
        BY <1>3, <4>1, DueFacts DEF SharesRead
      <4>3. Share.path \in Below(Share.path)
        BY <4>2 DEF Below
      <4>4. \A m \in Below(Share.path) : DueAt(m) => DueAt(m)'
        BY <3>3, NextPipelineKeepsDue
      <4>5. PICK p : p = Share.path /\ p = Share'.path
        BY <4>1
      <4>6. DueAt(p)'
        BY <1>3, <4>1, <4>3, <4>4, <4>5 DEF TopDue
      <4>7. DueAt(Share.path)'
        BY <4>5, <4>6 DEF DueAt, HasGrants, Grants, Passes, InAny
      <4>8. \A g : InAny(Share.path, g)' <=> InAny(Share.path, g)
        BY <3>1, <4>1 DEF InAny
      <4>9. GroupsOf(Share)' = GroupsOf(Share)
        BY <4>1 DEF GroupsOf
      <4>10. QED
        BY <1>3, <4>1, <4>7, <4>8, <4>9 DEF TopDue
    <3>4. QED
      BY <2>2, <3>2, <3>3 DEF Looks, GetShareFacls, SkipMissingShare, RemoveDone,
         GetTraversalFacls, TraversalDone, End, NextShare, Due
  <2>3. CASE \E w \in work : Traverse(w)
    BY <2>3 DEF Traverse, Due
  <2>4. QED
    BY <1>3, <2>1, <2>2, <2>3, RunSteps
<1>4. QED
  BY <1>1, <1>2, <1>3, Steps
\* A run gets past a share when its pipelines are through, or when the share does not
\* exist; afterwards, nothing happens to the files of the share.
Finishes ==
    /\ UNCHANGED <<fs, mine>> /\ Steady
    /\ \/ SkipMissingShare
       \/ Due /\ pc = "modified" /\ Gone = {}
       \/ Due /\ pc = "remove" /\ work = {}

LEMMA PassedSteps ==
    ASSUME SharesApart, Inv, FilesOnly, Listed, AllShares, [Next]_vars,
           NEW i, i \in DOMAIN mine'.realShares, Passed(i)'
    PROVE  /\ mine' = mine
           /\ \/ Passed(i) /\ \A m \in Below(mine.realShares[i].path)' :
                                 m \in Below(mine.realShares[i].path) /\ FileSame(m)
              \/ Finishes /\ i = k
<1>0. /\ k \in Int /\ mine \in Config /\ DOMAIN mine.realShares = 1 .. Len(mine.realShares)
      /\ Len(mine.realShares) \in Nat /\ exists \subseteq Node
  BY ConfigFacts, ShareFacts DEF Inv, TypeOK
<1>1. Steady'
  BY DEF Passed, Settled, Steady
<1>2. StartRun => FALSE
  <2>1. StartRun => pc' = "getfacl" /\ k' = k /\ mine' = conf /\ k = 1
    BY DEF StartRun, Inv, RunShape
  <2>2. StartRun => ~ (i < k')
    <3>1. conf \in Config
      BY DEF Inv, TypeOK
    <3>2. StartRun => i \in Int
      BY <2>1, <3>1, ShareFacts
    <3>3. QED
      BY <2>1, <3>2, <1>0, ShareFacts, <3>1
  <2>3. QED
    BY <2>1, <2>2 DEF Passed, Settled
<1>3. CASE Steady /\ UNCHANGED <<exists, acl, dfl, run>> /\ (calm' => calm)
  <2>1. mine' = mine /\ Passed(i)
    BY <1>3 DEF run, Passed, Settled
  <2>2. QED
    BY <1>3, <2>1 DEF Below, FileSame
<1>4. CASE pc = "idle" /\ UNCHANGED run /\ (calm' => UNCHANGED <<fs, conf, calm>>)
  <2>1. pc' = "idle" /\ Settled'
    BY <1>4 DEF run, Passed
  <2>2. mine' = mine /\ Settled /\ UNCHANGED fs
    BY <1>4, <2>1 DEF run, Settled
  <2>3. QED
    BY <2>2 DEF Passed, fs, Below, FileSame
<1>5. CASE pc # "idle" /\ RunStep /\ Steady
  <2>1. CASE \E n \in Node : VisitsFile(n)
    <3>1. PICK n \in Node : VisitsFile(n)
      BY <2>1
    <3>2. pc \in {"dirs", "files", "remove"} /\ n \in work
      BY <3>1 DEF VisitsFile, ModifyNextDir, ModifyNextFile, RemoveFromNext, Visit, IsNext
    <3>3. n \in exists
      BY <1>5, <3>2 DEF Listed
    <3>4. pc' = pc /\ UNCHANGED <<exists, mine, k>>
      BY <3>1, <3>3, VisitEffects
    <3>5. Passed(i) /\ i # k
      BY <1>0, <1>5, <3>2, <3>4 DEF Passed, Settled
    <3>6. \A m \in Below(mine.realShares[i].path) : FileSame(m)
      BY <1>0, <3>1, <3>3, <3>4, <3>5, OtherShareStays DEF Below
    <3>7. QED
      BY <3>4, <3>5, <3>6 DEF Below
  <2>2. CASE \E w \in work : Traverse(w)
    <3>1. PICK w \in work : Traverse(w)
      BY <2>2
    <3>2. pc = "traverse" /\ pc' = pc /\ UNCHANGED <<exists, mine, k>>
      BY <3>1, TraverseEffects
    <3>3. Passed(i)
      BY <1>5, <3>2 DEF Passed, Settled
    <3>4. \A m \in Below(mine.realShares[i].path) : FileSame(m)
      BY <1>0, <3>1, <3>2, TraversalSparesShares DEF Below
    <3>5. QED
      BY <3>2, <3>3, <3>4 DEF Below
  <2>3. CASE Looks /\ UNCHANGED <<fs, env>>
    <3>1. mine' = mine /\ \A m : FileSame(m) /\ UNCHANGED exists
      BY <2>3 DEF Looks, fs, FileSame, GetShareFacls, SkipMissingShare, FindDirs, FindFiles,
         FilesDone, FindAll, RemoveDone, GetTraversalFacls, TraversalDone, End, NextShare,
         Pipe, Goto
    <3>2. CASE Passed(i)
      BY <3>1, <3>2 DEF Below
    <3>3. CASE ~ Passed(i)
      <4>1. ~ TraversalDone
        BY <1>0, <1>5, <3>1, <3>3 DEF TraversalDone, Passed, AllShares
      <4>2. ~ (End("failed"))
        BY DEF End, Passed, Settled
      <4>3. ~ GetShareFacls
        BY <1>5, <3>1, <3>3, <4>2 DEF GetShareFacls, Passed, Settled
      <4>4. pc' # "idle" /\ k' = k + 1
        BY <1>5, <2>3, <3>1, <3>3, <4>1, <4>2, <4>3 DEF Looks, SkipMissingShare, FindDirs,
           FindFiles, FilesDone, FindAll, RemoveDone, GetTraversalFacls, NextShare,
           Pipe, Goto, Passed, Settled
      <4>5. i = k
        BY <1>0, <1>5, <3>1, <3>3, <4>4 DEF Passed, Settled
      <4>6. Finishes
        <5>1. SkipMissingShare \/ FindAll \/ RemoveDone
          BY <1>0, <2>3, <4>1, <4>2, <4>3, <4>4 DEF Looks, FindDirs, FindFiles, FilesDone,
             GetTraversalFacls, Pipe, Goto
        <5>2. FindAll => pc = "modified" /\ Gone = {}
          BY <1>0, <4>2, <4>4 DEF FindAll, Pipe, Goto, Gone
        <5>3. RemoveDone => pc = "remove" /\ work = {}
          BY DEF RemoveDone
        <5>4. QED
          BY <1>5, <2>3, <3>1, <5>1, <5>2, <5>3 DEF Finishes, Due, env
      <4>7. QED
        BY <3>1, <4>5, <4>6
    <3>4. QED
      BY <3>2, <3>3
  <2>4. QED
    BY <1>5, <2>1, <2>2, <2>3, RunSteps
<1>6. QED
  BY <1>1, <1>2, <1>3, <1>4, <1>5, Steps

\* A file that the pipelines are through with has what the share grants, and nothing else
\* but for managers.
LEMMA DueIsApplied ==
    ASSUME NEW m, DueAt(m), (pc = "modified" /\ Gone = {}) \/ (pc = "remove" /\ m \notin work),
           \A g \in Group : InAny(m, g) => g \in GroupsOf(Share) \cup Share.managing \cup Gone
    PROVE  Applied(Share, m)
<1>1. Grants(Share, m)
  BY DEF DueAt, HasGrants
<1>2. \A g \in Gone : ~ InAny(m, g)
  BY DEF DueAt
<1>3. QED
  BY <1>1, <1>2 DEF Applied

\* The directories of the shares have what the shares grant when the run is past them.
LEMMA TopsDoneStep ==
    ASSUME SharesApart, PlainShares, TopInv, [Next]_vars
    PROVE  TopsDone'
<1> USE DEF TopInv
<1> SUFFICES ASSUME NEW i, i \in DOMAIN mine'.realShares, Passed(i)',
                    mine'.realShares[i].path \in exists'
             PROVE  Applied(mine.realShares[i], mine.realShares[i].path)'
  BY DEF TopsDone
<1>1. mine' = mine /\ mine \in Config /\ i \in DOMAIN mine.realShares
  BY PassedSteps DEF Inv, TypeOK
<1>2. PICK s \in ShareType : s = mine.realShares[i] /\ s = mine'.realShares[i]
  BY <1>1, ShareFacts
<1>3. SUFFICES Applied(s, s.path)'
  BY <1>2 DEF Applied, Grants, Passes, InAny
<1>4. CASE Passed(i) /\ \A m \in Below(mine.realShares[i].path)' :
                           m \in Below(mine.realShares[i].path) /\ FileSame(m)
  <2>1. s.path \in exists /\ FileSame(s.path)
    BY <1>2, <1>4 DEF Below
  <2>2. Applied(s, s.path)
    BY <1>1, <1>2, <1>4, <2>1 DEF TopsDone
  <2>3. QED
    BY <2>1, <2>2, SameFile, AppliedStays
<1>5. CASE Finishes /\ i = k
  <2>1. UNCHANGED <<exists, acl, dfl>> /\ Steady
    BY <1>5 DEF Finishes, fs
  <2>2. s = Share
    BY <1>2, <1>5 DEF Share
  <2>3. CASE SkipMissingShare
    <3>1. s.path \in SharePaths(mine) \cap DirNode
      BY <1>1, <1>2, ShareFacts DEF PlainShares
    <3>2. FALSE
      BY <1>2, <2>1, <2>2, <2>3, <3>1 DEF SkipMissingShare, ShareIsDue, SharesRead
    <3>3. QED
      BY <3>2
  <2>4. CASE Due /\ ((pc = "modified" /\ Gone = {}) \/ (pc = "remove" /\ work = {}))
    <3>1. DueAt(s.path) /\ \A g \in Group : InAny(s.path, g) =>
             \/ g \in GroupsOf(Share)
             \/ g \in DOMAIN facls[Share.path].acl \cup DOMAIN facls[Share.path].dfl
      BY <2>1, <2>2, <2>4 DEF TopDue
    <3>2. \A g \in Group : InAny(s.path, g) => g \in GroupsOf(Share) \cup Share.managing \cup Gone
      BY <3>1 DEF Gone, GroupsToRemove
    <3>3. Applied(Share, s.path)
      BY <2>4, <3>1, <3>2, DueIsApplied
    <3>4. Applied(s, s.path)
      BY <2>2, <3>3
    <3>5. FileSame(s.path)
      BY <2>1 DEF FileSame
    <3>6. QED
      BY <3>4, <3>5, SameFile, AppliedStays
  <2>5. QED
    BY <1>5, <2>3, <2>4 DEF Finishes
<1>6. QED
  BY <1>1, <1>4, <1>5, PassedSteps

\* The invariant of the directories of the shares.
LEMMA TopInvInit == Init => TopInv
<1> SUFFICES ASSUME Init PROVE TopInv
  OBVIOUS
<1>1. Inv /\ FilesOnly
  BY InitInv DEF Init, FilesOnly
<1>2. QED
  BY <1>1 DEF Init, TopInv, CalmConf, AllShares, SharesRead, Listed, TopDue, TopsDone, Passed,
     Settled, Due

LEMMA TopInvStep ==
    ASSUME SharesApart, PlainShares, TopInv, [Next]_vars
    PROVE  TopInv'
<1>1. Inv' /\ FilesOnly' /\ CalmConf' /\ AllShares' /\ Listed'
  BY StepInv, FilesOnlyStep, CalmConfStep, ListedStep DEF TopInv
<1>2. SharesRead' /\ TopDue'
  BY SharesReadStep, TopDueStep DEF TopInv
<1>3. QED
  BY <1>1, <1>2, TopsDoneStep DEF TopInv
-----------------------------------------------------------------------------
(***************************************************************************)
(* A run leaves nothing to do for the next one.                            *)
(***************************************************************************)
\* The masks are those of new files, and getfacl prints no `#effective` comment for the
\* directories that the run has read.
MasksStand == mask = InitialMask

SharesReadable ==
    (Steady /\ pc \notin {"idle", "getfacl"}) \/ Settled =>
       \A p \in SharePaths(mine) \cap exists : ~ Unreadable(p)

TraversalReadable ==
    (Steady /\ pc = "traverse") \/ Settled =>
       \A p \in TraversalPaths(mine) \cap exists : ~ Unreadable(p)

\* What traversal entries are missing, some pipeline is still to add.
Missing == TraversalMissing(Getfacl(TraversalPaths(mine)), mine.traversal)
TraversalAhead ==
    /\ Steady /\ pc = "traverse" => Missing \subseteq work
    /\ Settled => Missing = {}

MaskInv == MasksStand /\ SharesReadable /\ TraversalReadable /\ TraversalAhead

\* Without chmod, masks stand.
LEMMA MasksStandStep ==
    ASSUME MasksSuffice, Inv, MasksStand, [Next]_vars
    PROVE  MasksStand'
<1>1. ASSUME NEW n \in Node, Create(n) \/ Delete(n) \/ Chmod(n)
      PROVE  MasksStand'
  <2>1. ~ Chmod(n)
    BY DEF Chmod, Besides, MasksSuffice
  <2>2. mask \in [Node -> Mask] /\ InitialMask \in [Node -> Mask]
    BY ModeAssumption DEF Inv, TypeOK
  <2>3. QED
    BY <1>1, <2>1, <2>2 DEF Create, Delete, MasksStand
<1>2. RunStep => mask' = mask
  BY DEF RunStep, GetShareFacls, SkipMissingShare, FindDirs, FindFiles, FilesDone, FindAll,
         RemoveDone, GetTraversalFacls, TraversalDone, ModifyNextDir, ModifyNextFile,
         RemoveFromNext, Visit, Traverse, fs
<1>3. StartRun \/ Configure \/ Kill \/ UNCHANGED vars => mask' = mask
  BY DEF StartRun, Configure, Kill, vars, fs
<1>4. QED
  BY <1>1, <1>2, <1>3 DEF Next, MasksStand

\* What is readable stays so as long as nobody touches the file.
LEMMA ReadableStays ==
    ASSUME MasksStand, MasksStand', NEW p, FileSame(p), ~ Unreadable(p)
    PROVE  ~ Unreadable(p)'
BY DEF Unreadable, FileSame, MasksStand

\* Only a run that reads, and what happens in it, makes readable what has to be.
LEMMA SharesReadableStep ==
    ASSUME SharesApart, PlainShares, MasksSuffice, TopInv, MaskInv, [Next]_vars
    PROVE  SharesReadable'
<1> USE DEF TopInv, MaskInv
<1> SUFFICES ASSUME ((Steady /\ pc \notin {"idle", "getfacl"}) \/ Settled)',
                    NEW p, p \in SharePaths(mine') \cap exists'
             PROVE  ~ Unreadable(p)'
  BY DEF SharesReadable
<1>0. /\ k \in Int /\ mine \in Config /\ DOMAIN mine.realShares = 1 .. Len(mine.realShares)
      /\ Len(mine.realShares) \in Nat /\ exists \subseteq Node
  BY ConfigFacts, ShareFacts DEF Inv, TypeOK
<1>1. Steady' /\ MasksStand'
  BY MasksStandStep DEF Settled, Steady
<1>2. StartRun => FALSE
  BY DEF StartRun, Settled
<1>3. CASE Steady /\ pc # "idle" /\ UNCHANGED <<exists, acl, dfl, run>>
  <2>1. pc \notin {"idle", "getfacl"} /\ mine' = mine
    BY <1>3 DEF run, Settled
  <2>2. ~ Unreadable(p) /\ FileSame(p)
    BY <1>3, <2>1 DEF SharesReadable, FileSame
  <2>3. QED
    BY <1>1, <2>2, ReadableStays
<1>4. CASE pc = "idle" /\ UNCHANGED run /\ (calm' => UNCHANGED <<fs, conf, calm>>)
  <2>1. Settled /\ mine' = mine /\ UNCHANGED fs
    BY <1>4 DEF run, Settled
  <2>2. ~ Unreadable(p) /\ FileSame(p)
    BY <2>1 DEF SharesReadable, FileSame, fs
  <2>3. QED
    BY <1>1, <2>2, ReadableStays
<1>5. CASE RunStep /\ Steady
  <2>1. CASE \E n \in Node : VisitsFile(n)
    <3>1. PICK n \in Node : VisitsFile(n)
      BY <2>1
    <3>2. pc \in {"dirs", "files", "remove"} /\ n \in work
      BY <3>1 DEF VisitsFile, ModifyNextDir, ModifyNextFile, RemoveFromNext, Visit, IsNext
    <3>3. n \in exists
      BY <1>5, <3>2 DEF Listed
    <3>4. /\ pc' = pc /\ UNCHANGED <<exists, mine>> /\ Due
          /\ \A m \in Node : m # n => FileSame(m)
          /\ pc # "remove" => \A g : g \notin GroupsOf(Share) => EntrySame(n, g)
          /\ (pc = "dirs" /\ n \in DirNode) \/ pc = "files" =>
                \A g \in GroupsOf(Share) : Passes(n, g, ModeFor(Share, g))'
          /\ pc = "remove" =>
                /\ \A g : g \notin Gone => EntrySame(n, g)
                /\ \A g \in Gone : ~ InAny(n, g)'
      BY <3>1, <3>3, VisitEffects
    <3>5. p \in SharePaths(mine) \cap exists /\ p \in Node /\ ~ Unreadable(p)
      BY <1>0, <1>5, <3>2, <3>4 DEF SharesReadable
    <3>6. PICK i \in DOMAIN mine.realShares : p = mine.realShares[i].path
      BY <3>5 DEF SharePaths
    <3>7. CASE i # k \/ p # n
      <4>1. FileSame(p)
        BY <3>1, <3>3, <3>4, <3>5, <3>6, <3>7, OtherShareStays
      <4>2. QED
        BY <1>1, <3>5, <4>1, ReadableStays
    <3>8. CASE i = k /\ p = n
      <4>1. p = Share.path /\ p \in DirNode /\ Share \in ShareType
        BY <1>0, <3>4, <3>6, <3>8, DueFacts DEF Share, PlainShares
      <4>2. \A g \in GroupsOf(Share) : ModeFor(Share, g) \subseteq InitialMask[p]
        <5>1. PICK s \in ShareType : s = Share
          BY <4>1
        <5>2. \A a \in Entries(s) : a.mode \subseteq InitialMask[p]
          BY <1>0, <3>6, <3>8, <5>1 DEF MasksSuffice, Share
        <5>3. \A g \in GroupsOf(s) : ModeFor(s, g) \subseteq InitialMask[p]
          BY <5>2, ModeForEntry
        <5>4. QED
          BY <5>1, <5>3
      <4>3. FilesOnly /\ pc = "files" => n \notin DirNode
        BY <3>2 DEF FilesOnly
      <4>4. pc # "files"
        BY <3>8, <4>1, <4>3
      <4>5. ASSUME NEW g
            PROVE  \/ EntrySame(p, g)
                   \/ ~ InAny(p, g)'
                   \/ g \in GroupsOf(Share) /\ Passes(p, g, ModeFor(Share, g))'
        BY <3>2, <3>4, <3>8, <4>1, <4>4
      <4>6. ASSUME NEW g
            PROVE  /\ g \in DOMAIN acl'[p] => acl'[p][g] \subseteq InitialMask[p]
                   /\ g \in DOMAIN dfl'[p] => dfl'[p][g] \subseteq InitialMask[p]
        <5>1. CASE EntrySame(p, g)
          BY <3>5, <5>1 DEF EntrySame, Unreadable, MasksStand
        <5>2. CASE ~ InAny(p, g)'
          BY <5>2 DEF InAny
        <5>3. CASE g \in GroupsOf(Share) /\ Passes(p, g, ModeFor(Share, g))'
          <6>1. Share' = Share
            BY <3>1, <3>3, VisitEffects
          <6>2. acl'[p][g] = ModeFor(Share, g) /\ dfl'[p][g] = ModeFor(Share, g)
            BY <4>1, <5>3, <6>1 DEF Passes, HasEntry
          <6>3. QED
            BY <4>2, <5>3, <6>2
        <5>4. QED
          BY <4>5, <5>1, <5>2, <5>3
      <4>7. QED
        BY <1>1, <4>6 DEF Unreadable, MasksStand
    <3>9. QED
      BY <3>7, <3>8
  <2>2. CASE \E w \in work : Traverse(w)
    <3>1. PICK w \in work : Traverse(w)
      BY <2>2
    <3>2. pc = "traverse" /\ UNCHANGED <<exists, mine>>
      BY <3>1, TraverseEffects
    <3>3. p \in SharePaths(mine) \cap exists /\ p \in Node /\ ~ Unreadable(p)
      BY <1>0, <1>5, <3>2 DEF SharesReadable
    <3>4. PICK i \in DOMAIN mine.realShares : p = mine.realShares[i].path
      BY <3>3 DEF SharePaths
    <3>5. FileSame(p)
      BY <3>1, <3>3, <3>4, TraversalSparesShares
    <3>6. QED
      BY <1>1, <3>3, <3>5, ReadableStays
  <2>3. CASE Looks /\ UNCHANGED <<fs, env>>
    <3>1. mine' = mine /\ FileSame(p) /\ UNCHANGED exists
      BY <2>3 DEF Looks, fs, FileSame, GetShareFacls, SkipMissingShare, FindDirs, FindFiles,
         FilesDone, FindAll, RemoveDone, GetTraversalFacls, TraversalDone, End, NextShare,
         Pipe, Goto
    <3>2. ~ Unreadable(p)
      <4>1. CASE GetShareFacls
        <5>1. ~ End("failed")
          BY DEF End, Settled
        <5>2. \A q \in SharePaths(mine) \cap exists \cap DirNode : ~ Unreadable(q)
          BY <4>1, <5>1 DEF GetShareFacls, Getfacl
        <5>3. p \in DirNode
          BY <1>0, <3>1 DEF SharePaths, PlainShares
        <5>4. QED
          BY <3>1, <5>2, <5>3
      <4>2. CASE ~ GetShareFacls
        <5>1. pc \notin {"idle", "getfacl"}
          BY <2>3, <4>2 DEF Looks, SkipMissingShare, FindDirs, FindFiles, FilesDone, FindAll,
             RemoveDone, GetTraversalFacls, TraversalDone, ShareIsDue
        <5>2. QED
          BY <1>5, <3>1, <5>1 DEF SharesReadable
      <4>3. QED
        BY <4>1, <4>2
    <3>3. QED
      BY <1>1, <3>1, <3>2, ReadableStays
  <2>4. QED
    BY <1>5, <2>1, <2>2, <2>3, RunSteps
<1>6. QED
  BY <1>1, <1>2, <1>3, <1>4, <1>5, Steps
\* The directories with traversal entries are readable, and what is missing is ahead.
LEMMA TraversalStep ==
    ASSUME MasksSuffice, TopInv, MaskInv, [Next]_vars
    PROVE  TraversalReadable' /\ TraversalAhead'
<1> USE DEF TopInv, MaskInv
<1> DEFINE Now == (Steady /\ pc = "traverse") \/ Settled
           Read == \A p \in TraversalPaths(mine) \cap exists : ~ Unreadable(p)
<1> SUFFICES ASSUME Now'
             PROVE  Read' /\ TraversalAhead'
  BY DEF TraversalReadable, TraversalAhead
<1>0. mine \in Config /\ exists \subseteq Node /\ TraversalPaths(mine) \subseteq Node
  BY ConfigFacts DEF Inv, TypeOK
<1>1. Steady' /\ MasksStand' /\ (pc' = "idle" => Settled')
  BY MasksStandStep DEF Settled, Steady
<1>2. StartRun => FALSE
  BY DEF StartRun, Settled
<1>3. ASSUME UNCHANGED <<exists, acl, dfl, mine>>
      PROVE  (Read => Read') /\ Missing' = Missing
  <2>1. Read => Read'
    BY <1>1, <1>3, ReadableStays DEF FileSame
  <2>2. Missing' = Missing
    BY <1>3 DEF Missing, TraversalMissing, Getfacl
  <2>3. QED
    BY <2>1, <2>2
<1>4. CASE Steady /\ pc # "idle" /\ UNCHANGED <<exists, acl, dfl, run>>
  <2>1. UNCHANGED <<exists, acl, dfl, mine, work, pc>> /\ pc = "traverse"
    BY <1>4 DEF run, Settled
  <2>2. QED
    BY <1>3, <1>4, <2>1 DEF TraversalReadable, TraversalAhead, Settled
<1>5. CASE pc = "idle" /\ UNCHANGED run /\ (calm' => UNCHANGED <<fs, conf, calm>>)
  <2>1. Settled /\ UNCHANGED <<exists, acl, dfl, mine, pc>>
    BY <1>5 DEF run, Settled, fs
  <2>2. QED
    BY <1>3, <2>1 DEF TraversalReadable, TraversalAhead, Settled
<1>6. CASE RunStep /\ Steady
  <2>1. (\E n \in Node : VisitsFile(n)) => FALSE
    BY DEF VisitsFile, ModifyNextDir, ModifyNextFile, RemoveFromNext, Visit, Settled
  <2>2. CASE \E w \in work : Traverse(w)
    <3>1. PICK w \in work : Traverse(w)
      BY <2>2
    <3>2. /\ pc = "traverse" /\ pc' = pc /\ work' = work \ {w} /\ UNCHANGED <<exists, mine>>
          /\ w \in mine.traversal /\ w.path \in Node
          /\ \A m \in Node : m # w.path => FileSame(m)
          /\ \A g : g # w.group => EntrySame(w.path, g)
          /\ dfl' = dfl
          /\ w.path \in exists => HasEntry(acl'[w.path], w.group, {"x"})
      BY <3>1, TraverseEffects
    <3>3. Read /\ Missing \subseteq work
      BY <1>6, <3>2 DEF TraversalReadable, TraversalAhead
    <3>4. ASSUME NEW p \in TraversalPaths(mine) \cap exists
          PROVE  ~ Unreadable(p)'
      <4>1. CASE p # w.path
        BY <1>0, <1>1, <3>2, <3>3, <4>1, ReadableStays
      <4>2. CASE p = w.path
        <5>1. {"x"} \subseteq InitialMask[p]
          BY <1>0, <3>2, <4>2 DEF MasksSuffice
        <5>2. ~ Unreadable(p)
          BY <3>3
        <5>3. ASSUME NEW g \in DOMAIN acl'[p]
              PROVE  acl'[p][g] \subseteq InitialMask[p]
          <6>1. CASE g = w.group
            BY <3>2, <3>4, <4>2, <5>1, <6>1 DEF HasEntry
          <6>2. CASE g # w.group
            BY <3>2, <4>2, <5>2, <6>2 DEF EntrySame, Unreadable, MasksStand
          <6>3. QED
            BY <6>1, <6>2
        <5>4. QED
          BY <1>1, <3>2, <5>2, <5>3 DEF Unreadable, MasksStand
      <4>3. QED
        BY <4>1, <4>2
    <3>5. ASSUME NEW t \in Missing'
          PROVE  t \in work'
      <4>1. /\ t \in mine.traversal /\ t.path \in exists \cap DirNode
            /\ t.path \in TraversalPaths(mine)
            /\ ~ HasEntry(acl'[t.path], t.group, {"x"})
        BY <3>2 DEF Missing, TraversalMissing, Getfacl
      <4>2. t # w
        BY <3>2, <4>1
      <4>3. EntrySame(t.path, t.group)
        <5>1. t \in [path : Node, group : Group] /\ w \in [path : Node, group : Group]
          BY <1>0, <3>2, <4>1, ConfigAssumption
        <5>2. t.path # w.path \/ t.group # w.group
          BY <4>2, <5>1
        <5>3. QED
          BY <1>0, <3>2, <4>1, <5>2, SameFile
      <4>4. ~ HasEntry(acl[t.path], t.group, {"x"})
        BY <4>1, <4>3 DEF HasEntry, EntrySame
      <4>5. t \in Missing
        BY <4>1, <4>4 DEF Missing, TraversalMissing, Getfacl
      <4>6. QED
        BY <3>2, <3>3, <4>2, <4>5
    <3>6. QED
      BY <3>2, <3>4, <3>5 DEF TraversalAhead, Settled
  <2>3. CASE Looks /\ UNCHANGED <<fs, env>>
    <3>1. GetTraversalFacls \/ TraversalDone
      BY <2>3 DEF Looks, GetShareFacls, SkipMissingShare, FindDirs, FindFiles, FilesDone,
         FindAll, RemoveDone, End, NextShare, Pipe, Goto, Settled
    <3>2. UNCHANGED <<exists, acl, dfl, mine>>
      BY <2>3, <3>1 DEF fs, GetTraversalFacls, TraversalDone, End
    <3>3. CASE GetTraversalFacls
      <4>1. /\ pc' = "traverse" /\ work' = Missing
            /\ \A p \in TraversalPaths(mine) \cap exists \cap DirNode : ~ Unreadable(p)
        BY <3>3 DEF GetTraversalFacls, End, Settled, Getfacl, Missing
      <4>2. TraversalPaths(mine) \subseteq DirNode
        BY <1>0 DEF MasksSuffice, TraversalPaths
      <4>3. QED
        BY <1>3, <3>2, <4>1, <4>2 DEF TraversalAhead, Settled
    <3>4. CASE TraversalDone
      <4>1. pc = "traverse" /\ pc' = "idle" /\ work = {}
        BY <3>4 DEF TraversalDone, End, Settled
      <4>2. QED
        BY <1>3, <1>6, <3>2, <4>1 DEF TraversalAhead, TraversalReadable, Settled
    <3>5. QED
      BY <3>1, <3>3, <3>4
  <2>4. QED
    BY <1>6, <2>1, <2>2, <2>3, RunSteps
<1>7. QED
  BY <1>1, <1>2, <1>4, <1>5, <1>6, Steps

\* When nothing has disturbed the last run, all that the next one asks of a share and of
\* traversal is there.
LEMMA SettledHasNoNeeds ==
    ASSUME PlainShares, TopInv, MaskInv
    PROVE  SettledIsFixpoint
<1> USE DEF TopInv, MaskInv
<1> SUFFICES ASSUME Settled PROVE SettledIsFixpoint
  BY DEF SettledIsFixpoint
<1>1. mine = conf /\ conf \in Config /\ acl \in [Node -> AclType] /\ dfl \in [Node -> AclType]
  BY DEF CalmConf, Settled, Inv, TypeOK
<1>2. \A p \in (SharePaths(conf) \cup TraversalPaths(conf)) \cap exists : ~ Unreadable(p)
  BY <1>1 DEF SharesReadable, TraversalReadable
<1>3. TraversalMissing(Getfacl(TraversalPaths(conf)), conf.traversal) = {}
  BY <1>1 DEF TraversalAhead, Missing
<1>4. ASSUME NEW i \in DOMAIN conf.realShares, conf.realShares[i].path \in exists
      PROVE  LET s == conf.realShares[i]
                 actual == [acl |-> acl[s.path], dfl |-> dfl[s.path]]
             IN ~ NeedModify(actual, s) /\ GroupsToRemove(actual, s) = {}
  <2>1. PICK s \in ShareType : s = conf.realShares[i]
    BY <1>1, ShareFacts
  <2>2. /\ s.path \in Node /\ s.path \in DirNode
        /\ \A a, b \in Entries(s) : a.group = b.group => a = b
    BY <1>1, <2>1, ShareFacts DEF PlainShares
  <2>3. Applied(s, s.path)
    BY <1>1, <1>4, <2>1 DEF TopsDone, Passed
  <2> DEFINE actual == [acl |-> acl[s.path], dfl |-> dfl[s.path]]
  <2>4. ASSUME NEW a \in Entries(s)
        PROVE  HasEntry(actual.acl, a.group, a.mode) /\ HasEntry(actual.dfl, a.group, a.mode)
    <3>1. a.group \in GroupsOf(s)
      BY DEF Entries, GroupsOf
    <3>2. a.mode = ModeFor(s, a.group)
      BY <2>2, <3>1, ModeForEntry
    <3>3. QED
      BY <2>2, <2>3, <3>1, <3>2 DEF Applied, Grants, Passes
  <2>5. ~ NeedModify(actual, s)
    <3> HIDE DEF actual
    <3>1. QED
      BY <2>4 DEF NeedModify
  <2>6. DOMAIN acl[s.path] \subseteq Group /\ DOMAIN dfl[s.path] \subseteq Group
    BY <1>1, <2>2 DEF AclType
  <2>7. GroupsToRemove(actual, s) = {}
    BY <2>3, <2>6 DEF Applied, InAny, GroupsToRemove
  <2>8. QED
    BY <2>1, <2>5, <2>7
<1>5. QED
  BY <1>2, <1>3, <1>4 DEF SettledIsFixpoint

\* After a run that nothing has disturbed, the next one finds nothing to do, if shares do
\* not nest, their ACLs are plain, and the masks of their directories let pass what they
\* grant: what is read decides what is modified, and no share undoes another one.  It
\* does not matter what has happened to the runs before.
THEOREM SettledIsFixpointCorrect ==
    SharesApart /\ PlainShares /\ MasksSuffice => (Spec => []SettledIsFixpoint)
<1> SUFFICES ASSUME SharesApart, PlainShares, MasksSuffice PROVE Spec => []SettledIsFixpoint
  OBVIOUS
<1>1. Init => MaskInv
  BY DEF Init, MaskInv, MasksStand, SharesReadable, TraversalReadable, TraversalAhead, Settled
<1>2. TopInv /\ MaskInv /\ [Next]_vars => MaskInv'
  BY MasksStandStep, SharesReadableStep, TraversalStep DEF TopInv, MaskInv
<1>3. TopInv /\ [Next]_vars => TopInv'
  BY TopInvStep
<1>4. TopInv /\ MaskInv => SettledIsFixpoint
  BY SettledHasNoNeeds
<1>5. QED
  BY <1>1, <1>2, <1>3, <1>4, TopInvInit, PTL DEF Spec
-----------------------------------------------------------------------------
(***************************************************************************)
(* A run applies a share to all that is below it.                          *)
(***************************************************************************)
ConfiguredPaths == UNION {SharePaths(c) : c \in Config}

\* What is in a directory that may be shared is in it because the directory exists.
Rooted == \A p \in ConfiguredPaths : \A n \in exists : IsAbove(p, n) => p \in exists

\* Below a directory that may be shared, the default entries of the directory hold, so
\* that its ACL tells what is to be done below.
EvenBelow(p) ==
    \A n \in exists : IsAbove(p, n) => \A g \in Group \ Managers(n) : Even(p, n, g)
OthersEven == \A p \in ConfiguredPaths \cap exists : (Due => p # Share.path) => EvenBelow(p)

\* Meanwhile, below the share that is due, this is so for the groups that the run leaves
\* alone, and the pipelines have done their part for the others.
BelowDue ==
    Due => \A n \in Below(Share.path) : n # Share.path =>
              /\ DueAt(n)
              /\ \A g \in Group \ (Managers(n) \cup GroupsOf(Share) \cup Gone) :
                    Even(Share.path, n, g)

BelowDone ==
    \A i \in DOMAIN mine.realShares : Passed(i) =>
       \A n \in Below(mine.realShares[i].path) : Applied(mine.realShares[i], n)

BelowInv == Rooted /\ OthersEven /\ BelowDue /\ BelowDone

\* An entry that neither file loses or gets is even as it was.
LEMMA EvenStays ==
    ASSUME NEW p, NEW n, NEW g, EntrySame(p, g), EntrySame(n, g)
    PROVE  Even(p, n, g)' <=> Even(p, n, g)
<1>1. (InAny(p, g)' <=> InAny(p, g)) /\ (InAny(n, g)' <=> InAny(n, g))
  BY SameEntry
<1>2. \A m : Passes(n, g, m)' <=> Passes(n, g, m)
  BY SameEntry
<1>3. (g \in DOMAIN dfl'[p] <=> g \in DOMAIN dfl[p])
      /\ (g \in DOMAIN dfl[p] => dfl'[p][g] = dfl[p][g])
  BY DEF EntrySame
<1>4. g \in DOMAIN dfl[p] => (Passes(n, g, dfl[p][g])' <=> Passes(n, g, dfl[p][g]))
  <2>1. PICK m : m = dfl[p][g]
    OBVIOUS
  <2>2. g \in DOMAIN dfl[p] => dfl'[p][g] = m
    BY <1>3, <2>1
  <2>3. Passes(n, g, m)' <=> Passes(n, g, m)
    BY <1>2
  <2>4. g \in DOMAIN dfl[p] => (Passes(n, g, dfl[p][g])' <=> Passes(n, g, m)')
    BY <2>2 DEF Passes
  <2>5. QED
    BY <2>1, <2>3, <2>4
<1>5. QED
  BY <1>1, <1>3, <1>4 DEF Even

\* Shares of other paths have no file in common with the share that is due.
LEMMA OtherPathsApart ==
    ASSUME SharesStayPut, NEW c \in Config, NEW p \in SharePaths(c), NEW q \in ConfiguredPaths,
           p # q, NEW n \in Node, n = p \/ IsAbove(p, n)
    PROVE  ~ (n = q \/ IsAbove(q, n))
<1>1. PICK i \in DOMAIN c.realShares : p = c.realShares[i].path
  BY DEF SharePaths
<1>2. PICK d \in Config : \E j \in DOMAIN d.realShares : q = d.realShares[j].path
  BY DEF ConfiguredPaths, SharePaths
<1>3. ~ IsAbove(p, q) /\ ~ IsAbove(q, p)
  BY <1>1, <1>2 DEF SharesStayPut
<1>4. QED
  BY <1>3, AboveIsChain

\* Initially, toplevel directories have what is configured.
LEMMA BelowInit == InitiallyEven /\ Init => Rooted /\ OthersEven
<1> SUFFICES ASSUME InitiallyEven, Init, NEW p \in ConfiguredPaths, NEW n \in exists,
                    IsAbove(p, n)
             PROVE  p \in exists /\ \A g \in Group \ Managers(n) : Even(p, n, g)
  BY DEF Rooted, OthersEven, EvenBelow
<1>1. n \in DOMAIN InitialAcl /\ n \in Node
  BY InitialAssumption, NodeAssumption DEF Init
<1>2. p \in DOMAIN InitialAcl /\ DOMAIN InitialAcl[n].acl \subseteq DOMAIN InitialAcl[p].acl \cup Managers(n)
  BY <1>1 DEF InitiallyEven, ConfiguredPaths, SharePaths
<1>3. p \in Node /\ p \in exists
  BY <1>2, InitialAssumption, NodeAssumption DEF Init
<1>4. /\ acl[n] = InitialAcl[n].acl /\ dfl[n] = InitialAcl[n].dfl
      /\ acl[p] = InitialAcl[p].acl /\ dfl[p] = InitialAcl[p].dfl
  BY <1>1, <1>2, <1>3 DEF Init
<1>5. DOMAIN InitialAcl[n].dfl \subseteq Managers(n) /\ DOMAIN InitialAcl[p].dfl \subseteq Managers(n)
  BY <1>1, <1>2 DEF Managers
<1>6. QED
  BY <1>2, <1>3, <1>4, <1>5 DEF Even, InAny

\* Files come and go in directories, and only between runs.
LEMMA ExistsSteps ==
    ASSUME RunsUndisturbed, Inv, [Next]_vars
    PROVE  \/ pc = "idle" /\ UNCHANGED run /\ \E n \in Node : Create(n) \/ Delete(n)
           \/ pc # "idle" /\ RunStep /\ exists' = exists
           \/ /\ UNCHANGED <<exists, acl, dfl>>
              /\ (pc = "idle" /\ StartRun) \/ UNCHANGED run
<1>1. RunStep => pc # "idle" /\ exists' = exists
  BY DEF RunStep, GetShareFacls, SkipMissingShare, FindDirs, FindFiles, FilesDone, FindAll,
         RemoveDone, GetTraversalFacls, TraversalDone, ModifyNextDir, ModifyNextFile,
         RemoveFromNext, Visit, Traverse, ShareIsDue, fs
<1>2. ASSUME NEW act \in {"create", "remove", "kill"}, Besides(act)
      PROVE  pc = "idle"
  BY <1>2 DEF Besides, RunsUndisturbed
<1>3. \A n \in Node : Create(n) \/ Delete(n) => pc = "idle" /\ UNCHANGED run
  BY <1>2 DEF Create, Delete
<1>4. ~ Kill
  BY <1>2 DEF Kill
<1>5. \A n \in Node : Chmod(n) => UNCHANGED <<exists, acl, dfl, run>>
  BY DEF Chmod
<1>6. StartRun => pc = "idle" /\ UNCHANGED <<exists, acl, dfl>>
  BY DEF StartRun, fs
<1>7. Configure \/ UNCHANGED vars => UNCHANGED <<exists, acl, dfl, run>>
  BY DEF Configure, vars, fs
<1>8. QED
  BY <1>1, <1>3, <1>4, <1>5, <1>6, <1>7 DEF Next

LEMMA RootedStep ==
    ASSUME RunsUndisturbed, Inv, Rooted, [Next]_vars
    PROVE  Rooted'
<1>1. exists \subseteq Node
  BY DEF Inv, TypeOK
<1>2. CASE exists' = exists
  BY <1>2 DEF Rooted
<1>3. ASSUME NEW n \in Node, Create(n)
      PROVE  Rooted'
  <2>1. exists' = exists \cup {n} /\ Parent(n) \in exists
    BY <1>3 DEF Create
  <2>2. \A p : IsAbove(p, n) => p = Parent(n) \/ IsAbove(p, Parent(n))
    BY BelowParent
  <2>3. QED
    BY <2>1, <2>2 DEF Rooted
<1>4. ASSUME NEW n \in Node, Delete(n)
      PROVE  Rooted'
  BY <1>4 DEF Delete, Rooted
<1>5. QED
  BY <1>2, <1>3, <1>4, ExistsSteps
\* What a user creates has the default entries of the directory that it is in, which are
\* those of the directory above that may be shared.
LEMMA CreateIsEven ==
    ASSUME Inv, Rooted, ~ Due, OthersEven, NEW n \in Node, Create(n)
    PROVE  \A p \in ConfiguredPaths \cap exists' : EvenBelow(p)'
<1>1. /\ n \notin exists /\ Parent(n) \in exists /\ Parent(n) \in DirNode
      /\ exists' = exists \cup {n} /\ exists \subseteq Node
      /\ acl' = [acl EXCEPT ![n] = dfl[Parent(n)]]
      /\ dfl' = [dfl EXCEPT ![n] = IF n \in DirNode THEN dfl[Parent(n)] ELSE NoEntries]
      /\ acl \in [Node -> AclType] /\ dfl \in [Node -> AclType]
  BY DEF Create, Inv, TypeOK
<1>2. \A m \in exists : FileSame(m) /\ m # n
  BY <1>1 DEF FileSame
<1>3. acl'[n] = dfl[Parent(n)]
      /\ dfl'[n] = (IF n \in DirNode THEN dfl[Parent(n)] ELSE NoEntries)
  BY <1>1
<1> SUFFICES ASSUME NEW p \in ConfiguredPaths, p \in exists', NEW m \in exists', IsAbove(p, m),
                    NEW g \in Group \ Managers(m)
             PROVE  Even(p, m, g)'
  BY DEF EvenBelow
<1>4. CASE m \in exists
  <2>1. p \in exists
    BY <1>4 DEF Rooted
  <2>2. Even(p, m, g)
    BY <1>4, <2>1 DEF OthersEven, EvenBelow
  <2>3. QED
    BY <1>2, <1>4, <2>1, <2>2, SameFile, EvenStays
<1>5. CASE m = n
  <2>1. p # n /\ p \in exists
    BY <1>1, <1>5, AboveIsOrder
  <2>2. FileSame(p)
    BY <1>2, <2>1
  <2> DEFINE q == Parent(n)
  <2>3. q \in Node /\ IsAbove(q, n)
    <3>1. q \in Node /\ q \in Seq(Name) \ {<<>>} /\ n \in Seq(Name)
      BY <1>1, NodeAssumption
    <3>2. Len(q) >= 1 /\ Len(n) \in Nat
      BY <3>1
    <3>3. Len(n) - 1 \in 1 .. Len(n) - 1
      <4>1. CASE Len(n) \in {0, 1}
        <5>1. Len(SubSeq(n, 1, Len(n) - 1)) = 0
          BY <3>1, <4>1
        <5>2. QED
          BY <3>2, <5>1 DEF Parent, Prefix
      <4>2. CASE Len(n) > 1
        BY <3>2, <4>2
      <4>3. Len(n) = 0 \/ Len(n) = 1 \/ Len(n) > 1
        BY <3>2
      <4>4. QED
        BY <4>1, <4>2, <4>3
    <3>4. QED
      BY <3>1, <3>3 DEF IsAbove, Parent
  <2>4. Managers(q) \subseteq Managers(n)
    <3>1. \A t : t = q \/ IsAbove(t, q) => IsAbove(t, n)
      BY <2>3, AboveIsOrder
    <3>2. QED
      BY <3>1 DEF Managers
  <2>5. p = q \/ IsAbove(p, q)
    BY <1>5, BelowParent
  <2>6. p # q => Even(p, q, g)
    BY <1>1, <1>5, <2>1, <2>4, <2>5 DEF OthersEven, EvenBelow
  <2>7. g \in DOMAIN dfl[q] => InAny(p, g)
    BY <2>6 DEF Even, InAny
  <2>8. g \in DOMAIN dfl[p] => HasEntry(dfl[q], g, dfl[p][g])
    BY <1>1, <2>6 DEF Even, Passes, HasEntry
  <2>9. InAny(n, g)' => g \in DOMAIN dfl[q]
    BY <1>3 DEF InAny, NoEntries
  <2>10. InAny(p, g)' <=> InAny(p, g)
    BY <2>2 DEF InAny, FileSame
  <2>11. g \in DOMAIN dfl'[p] => Passes(n, g, dfl[p][g])'
    <3>1. dfl'[p] = dfl[p]
      BY <2>2 DEF FileSame
    <3>2. SUFFICES ASSUME NEW v, v = dfl[p][g], g \in DOMAIN dfl[p]
                   PROVE  Passes(n, g, v)'
      BY <3>1 DEF Passes
    <3>3. HasEntry(dfl[q], g, v)
      BY <2>8, <3>2
    <3>4. QED
      BY <1>3, <3>3 DEF Passes, HasEntry
  <2>12. QED
    BY <1>5, <2>7, <2>9, <2>10, <2>11 DEF Even
<1>6. QED
  BY <1>1, <1>4, <1>5

\* The share that the run gets past is as even as the others.
LEMMA DueIsEven ==
    ASSUME PlainShares, RunsUndisturbed, Inv, TopDue, SharesRead, BelowDue, Due,
           (pc = "modified" /\ Gone = {}) \/ (pc = "remove" /\ work = {})
    PROVE  EvenBelow(Share.path)
<1>1. Steady /\ Share.path \in DirNode /\ Share.path \in exists
  BY DueFacts DEF Steady, PlainShares, Share, SharesRead
<1>2. DueAt(Share.path)
  BY <1>1 DEF TopDue
<1>3. ASSUME NEW m, DueAt(m)
      PROVE  Grants(Share, m) /\ \A g \in Gone : ~ InAny(m, g)
  BY <1>3 DEF DueAt, HasGrants
<1> SUFFICES ASSUME NEW n \in exists, IsAbove(Share.path, n), NEW g \in Group \ Managers(n)
             PROVE  Even(Share.path, n, g)
  BY DEF EvenBelow
<1>4. n # Share.path /\ n \in Below(Share.path)
  <2>1. n \in Node
    BY DEF Inv, TypeOK
  <2>2. QED
    BY <2>1, AboveIsOrder DEF Below
<1>5. DueAt(n) /\ (g \notin GroupsOf(Share) \cup Gone => Even(Share.path, n, g))
  BY <1>4 DEF BelowDue
<1>6. CASE g \in GroupsOf(Share)
  <2>1. Passes(n, g, ModeFor(Share, g)) /\ Passes(Share.path, g, ModeFor(Share, g))
    BY <1>2, <1>3, <1>5, <1>6 DEF Grants
  <2>2. HasEntry(dfl[Share.path], g, ModeFor(Share, g))
    BY <1>1, <2>1 DEF Passes
  <2>3. QED
    BY <2>1, <2>2 DEF Even, HasEntry, InAny
<1>7. CASE g \in Gone
  BY <1>2, <1>3, <1>5, <1>7 DEF Even, InAny
<1>8. QED
  BY <1>5, <1>6, <1>7
\* A run that is alone ends a share only when it is through with it.
LEMMA LeavesDue ==
    ASSUME RunsUndisturbed, Inv, Listed, SharesRead, Due, Looks, ~ (Due' /\ Share' = Share)
    PROVE  (pc = "modified" /\ Gone = {}) \/ (pc = "remove" /\ work = {})
<1>1. Steady /\ Share.path \in exists
  BY DueFacts DEF Steady, SharesRead
<1>2. pc \in {"dirs", "files", "remove"} => ~ broken
  BY <1>1 DEF Listed
<1>3. FindFiles \/ FilesDone \/ FindAll \/ RemoveDone
  BY DEF Looks, GetShareFacls, SkipMissingShare, FindDirs, GetTraversalFacls, TraversalDone,
         ShareIsDue, Due
<1>4. ~ FindFiles /\ ~ FilesDone
  BY <1>1, <1>2 DEF FindFiles, FilesDone, Pipe, Goto, Due, Share
<1>5. FindAll => pc = "modified" /\ Gone = {}
  BY <1>1 DEF FindAll, Pipe, Goto, Due, Share, Gone
<1>6. RemoveDone => pc = "remove" /\ work = {}
  BY DEF RemoveDone
<1>7. QED
  BY <1>3, <1>4, <1>5, <1>6

\* What may be shared stays even, for whatever configuration comes next.
LEMMA OthersEvenStep ==
    ASSUME SharesStayPut, PlainShares, RunsUndisturbed, TopInv, BelowInv, [Next]_vars
    PROVE  OthersEven'
<1> USE DEF TopInv, BelowInv
<1>0. mine \in Config /\ exists \subseteq Node /\ \A p \in ConfiguredPaths : p \in Node
  BY ConfigFacts DEF Inv, TypeOK, ConfiguredPaths
<1>a. ConfiguredPaths' = ConfiguredPaths
  BY DEF ConfiguredPaths, SharePaths
<1>1. ASSUME NEW p \in ConfiguredPaths \cap exists, EvenBelow(p), exists' = exists,
             FileSame(p), \A n \in exists : IsAbove(p, n) => FileSame(n)
      PROVE  EvenBelow(p)'
  <2> SUFFICES ASSUME NEW n \in exists, IsAbove(p, n), NEW g \in Group \ Managers(n)
               PROVE  Even(p, n, g)'
    BY <1>1 DEF EvenBelow
  <2>1. EntrySame(p, g) /\ EntrySame(n, g) /\ Even(p, n, g)
    BY <1>1, SameFile DEF EvenBelow
  <2>2. QED
    BY <2>1, EvenStays
<1>2. CASE /\ UNCHANGED <<exists, acl, dfl>>
           /\ (pc = "idle" /\ StartRun) \/ UNCHANGED run
  <2>1. \A n : FileSame(n)
    BY <1>2 DEF FileSame
  <2>2. Due' <=> Due
    BY <1>2 DEF StartRun, Due, run
  <2>3. Due => Share' = Share
    BY <1>2 DEF Due, run, Share
  <2>4. QED
    BY <1>1, <1>2, <2>1, <2>2, <2>3, <1>a DEF OthersEven
<1>3. CASE pc = "idle" /\ UNCHANGED run /\ \E n \in Node : Create(n)
  BY <1>3, <1>a, CreateIsEven DEF Due, OthersEven
<1>4. CASE pc = "idle" /\ UNCHANGED run /\ \E n \in Node : Delete(n)
  <2>1. PICK d \in Node : Delete(d)
    BY <1>4
  <2>2. exists' = exists \ {d} /\ \A n \in exists' : FileSame(n)
    BY <1>0, <2>1 DEF Delete, FileSame, Inv, TypeOK
  <2>3. ASSUME NEW p \in ConfiguredPaths \cap exists', NEW n \in exists', IsAbove(p, n),
               NEW g \in Group \ Managers(n)
        PROVE  Even(p, n, g)'
    <3>1. Even(p, n, g)
      BY <1>4, <2>2, <2>3 DEF OthersEven, EvenBelow, Due
    <3>2. EntrySame(p, g) /\ EntrySame(n, g)
      BY <2>2, SameFile
    <3>3. QED
      BY <3>1, <3>2, EvenStays
  <2>4. QED
    BY <1>a, <2>3 DEF OthersEven, EvenBelow
<1>5. CASE pc # "idle" /\ RunStep /\ exists' = exists
  <2> SUFFICES ASSUME NEW p \in ConfiguredPaths \cap exists, Due' => p # Share'.path
               PROVE  EvenBelow(p)'
    BY <1>5, <1>a DEF OthersEven
  <2>1. CASE \E n \in Node : VisitsFile(n)
    <3>1. PICK n \in Node : VisitsFile(n)
      BY <2>1
    <3>2. pc \in {"dirs", "files", "remove"} /\ n \in work
      BY <3>1 DEF VisitsFile, ModifyNextDir, ModifyNextFile, RemoveFromNext, Visit, IsNext
    <3>3. n \in exists
      BY <3>2 DEF Listed, Steady
    <3>4. /\ pc' = pc /\ Due /\ Share' = Share /\ \A m \in Node : m # n => FileSame(m)
          /\ n = Share.path \/ IsAbove(Share.path, n)
      BY <3>1, <3>3, VisitEffects
    <3>5. p # Share.path /\ Share.path \in SharePaths(mine)
      BY <3>2, <3>4, DueFacts DEF Due
    <3>6. \A m \in Node : m = p \/ IsAbove(p, m) => FileSame(m)
      BY <1>0, <3>4, <3>5, OtherPathsApart
    <3>7. EvenBelow(p)
      BY <3>5 DEF OthersEven
    <3>8. QED
      BY <1>0, <1>1, <1>5, <3>6, <3>7
  <2>2. CASE \E w \in work : Traverse(w)
    <3>1. PICK w \in work : Traverse(w)
      BY <2>2
    <3>2. /\ pc = "traverse" /\ w \in mine.traversal /\ w.path \in Node
          /\ \A m \in Node : m # w.path => FileSame(m)
          /\ \A g : g # w.group => EntrySame(w.path, g)
          /\ dfl' = dfl
          /\ w.path \in exists => HasEntry(acl'[w.path], w.group, {"x"})
      BY <3>1, TraverseEffects
    <3>3. EvenBelow(p)
      BY <3>2 DEF OthersEven, Due
    <3>4. ASSUME NEW n \in exists, IsAbove(p, n), NEW g \in Group \ Managers(n)
          PROVE  Even(p, n, g)'
      <4>1. n # w.path
        BY <1>0, <3>2, <3>4 DEF SharesStayPut, ConfiguredPaths, SharePaths
      <4>2. Even(p, n, g) /\ FileSame(n)
        BY <1>0, <3>2, <3>3, <3>4, <4>1 DEF EvenBelow
      <4>3. CASE EntrySame(p, g)
        BY <4>2, <4>3, SameFile, EvenStays
      <4>4. CASE ~ EntrySame(p, g)
        <5>1. p = w.path /\ g = w.group
          BY <1>0, <3>2, <4>4, SameFile
        <5>2. InAny(p, g)'
          BY <3>2, <5>1 DEF InAny, HasEntry
        <5>3. \A m : Passes(n, g, m)' <=> Passes(n, g, m)
          BY <4>2, SameFile, SameEntry
        <5>4. g \in DOMAIN dfl[p] => Passes(n, g, dfl[p][g])'
          <6>1. PICK v : v = dfl[p][g]
            OBVIOUS
          <6>2. g \in DOMAIN dfl[p] => Passes(n, g, v)'
            BY <4>2, <5>3, <6>1 DEF Even
          <6>3. v = dfl'[p][g]
            BY <3>2, <6>1
          <6>4. QED
            BY <6>2, <6>3 DEF Passes
        <5>5. QED
          BY <3>2, <5>2, <5>4 DEF Even
      <4>5. QED
        BY <4>3, <4>4
    <3>5. QED
      BY <1>5, <3>4 DEF EvenBelow
  <2>3. CASE Looks /\ UNCHANGED <<fs, env>>
    <3>1. \A n : FileSame(n)
      BY <2>3 DEF fs, FileSame
    <3>2. EvenBelow(p)
      <4>1. CASE Due => p # Share.path
        BY <4>1 DEF OthersEven
      <4>2. CASE Due /\ p = Share.path
        <5>1. ~ (Due' /\ Share' = Share)
          BY <4>2
        <5>2. (pc = "modified" /\ Gone = {}) \/ (pc = "remove" /\ work = {})
          BY <2>3, <4>2, <5>1, LeavesDue
        <5>3. QED
          BY <4>2, <5>2, DueIsEven
      <4>3. QED
        BY <4>1, <4>2
    <3>3. QED
      BY <1>1, <1>5, <3>1, <3>2
  <2>4. QED
    BY <1>5, <2>1, <2>2, <2>3, RunSteps
<1>6. QED
  BY <1>2, <1>3, <1>4, <1>5, ExistsSteps
\* Below a share that needs no modification, there is nothing to modify either.
LEMMA NoNeedBelow ==
    ASSUME PlainShares, RunsUndisturbed, Inv, SharesRead, OthersEven, ~ Due, ShareIsDue,
           Share.path \in DOMAIN facls, NEW n \in Below(Share.path), n # Share.path
    PROVE  /\ \A g \in Group \ Managers(n) : Even(Share.path, n, g)
           /\ ~ NeedModify(facls[Share.path], Share) => Grants(Share, n)
<1>1. /\ mine \in Config /\ k \in DOMAIN mine.realShares /\ Share \in ShareType
      /\ Share.path \in SharePaths(mine) /\ Share.path \in exists /\ Share.path \in DirNode
      /\ IsAbove(Share.path, n) /\ n \in exists /\ n \in Node
  BY DueFacts DEF SharesRead, ShareIsDue, Steady, Below, Inv, TypeOK
<1>2. \A g \in Group \ Managers(n) : Even(Share.path, n, g)
  BY <1>1 DEF OthersEven, EvenBelow, ConfiguredPaths
<1>3. ASSUME ~ NeedModify(facls[Share.path], Share), NEW g \in GroupsOf(Share)
      PROVE  Passes(n, g, ModeFor(Share, g))
  <2>1. facls[Share.path].acl = acl[Share.path] /\ facls[Share.path].dfl = dfl[Share.path]
    BY <1>1 DEF SharesRead, Share, ShareIsDue, Steady
  <2>2. PICK s \in ShareType : s = Share
    BY <1>1
  <2>3. HasEntry(dfl[s.path], g, ModeFor(s, g))
    BY <1>1, <1>3, <2>1, <2>2, NoNeedGrants
  <2>4. g \notin Managers(n)
    BY <1>1, ManagersOfShare DEF ShareIsDue, Inv
  <2>5. g \in Group
    BY <2>2, EntryTypes DEF GroupsOf
  <2>6. QED
    BY <1>2, <2>2, <2>3, <2>4, <2>5 DEF Even, HasEntry
<1>4. QED
  BY <1>2, <1>3 DEF Grants

\* The pipelines give all that is below the share what it grants.
LEMMA BelowDueStep ==
    ASSUME PlainShares, SharesApart, RunsUndisturbed, TopInv, BelowInv, [Next]_vars
    PROVE  BelowDue'
<1> USE DEF TopInv, BelowInv
<1>0. exists \subseteq Node
  BY DEF Inv, TypeOK
<1> SUFFICES ASSUME Due', NEW m, m \in Below(Share.path)', m # Share'.path
             PROVE  /\ DueAt(m)'
                    /\ \A g \in Group \ (Managers(m) \cup GroupsOf(Share)' \cup Gone') :
                          Even(Share.path, m, g)'
  BY DEF BelowDue
<1>1. CASE pc = "idle" /\ (StartRun \/ UNCHANGED run)
  BY <1>1 DEF StartRun, run, Due
<1>2. CASE UNCHANGED <<exists, acl, dfl, run>>
  <2>1. /\ Due /\ Share' = Share /\ UNCHANGED <<exists, acl, dfl, facls, work, pc>>
        /\ m \in Below(Share.path) /\ m # Share.path
    BY <1>2 DEF Due, run, Share, Below
  <2>2. Gone' = Gone /\ GroupsOf(Share)' = GroupsOf(Share)
    BY <2>1 DEF Gone, GroupsOf
  <2>3. DueAt(m)' <=> DueAt(m)
    BY <2>1, <2>2 DEF DueAt, HasGrants, Grants, Passes, InAny
  <2>4. \A g : Even(Share.path, m, g)' <=> Even(Share.path, m, g)
    BY <2>1 DEF Even, Passes, InAny
  <2>5. QED
    BY <2>1, <2>2, <2>3, <2>4 DEF BelowDue
<1>3. CASE RunStep
  <2>1. CASE \E n \in Node : VisitsFile(n)
    <3>1. PICK n \in Node : VisitsFile(n)
      BY <2>1
    <3>2. pc \in {"dirs", "files", "remove"} /\ n \in work
      BY <3>1 DEF VisitsFile, ModifyNextDir, ModifyNextFile, RemoveFromNext, Visit, IsNext
    <3>3. n \in exists
      BY <3>2 DEF Listed, Steady
    <3>4. /\ Due /\ Share' = Share /\ Gone' = Gone /\ exists' = exists
          /\ \A g : g \notin GroupsOf(Share) \cup Gone => EntrySame(n, g)
          /\ \A l \in Node : l # n => FileSame(l)
      BY <3>1, <3>3, VisitEffects
    <3>5. m \in Below(Share.path) /\ m # Share.path /\ m \in Node /\ Share.path \in Node
      BY <1>0, <3>4, DueFacts DEF Below
    <3>6. DueAt(m)'
      BY <3>1, <3>3, <3>4, <3>5, VisitKeepsDue DEF BelowDue
    <3>7. GroupsOf(Share)' = GroupsOf(Share)
      BY <3>4 DEF GroupsOf
    <3>8. ASSUME NEW g \in Group \ (Managers(m) \cup GroupsOf(Share) \cup Gone)
          PROVE  Even(Share.path, m, g)'
      <4>1. PICK p \in Node : p = Share.path /\ p = Share'.path
        BY <3>4, <3>5
      <4>2. EntrySame(p, g) /\ EntrySame(m, g)
        BY <3>4, <3>5, SameFile
      <4>3. Even(p, m, g)
        BY <3>4, <3>5, <3>8, <4>1 DEF BelowDue
      <4>4. Even(p, m, g)'
        BY <4>2, <4>3, EvenStays
      <4>5. QED
        BY <4>1, <4>4 DEF Even, Passes, InAny
    <3>9. QED
      BY <3>4, <3>6, <3>7, <3>8
  <2>2. CASE Looks /\ UNCHANGED <<fs, env>>
    <3>1. UNCHANGED <<exists, acl, dfl>>
      BY <2>2 DEF fs
    <3>2. CASE FindDirs
      <4>1. /\ ShareIsDue /\ Share.path \in DOMAIN facls /\ Share' = Share /\ facls' = facls
            /\ ~ Due
        BY <3>2 DEF FindDirs, Pipe, Goto, End, Share, Due, ShareIsDue
      <4>2. m \in Below(Share.path) /\ m # Share.path /\ m \in exists
        BY <3>1, <4>1 DEF Below
      <4>3. /\ \A g \in Group \ Managers(m) : Even(Share.path, m, g)
            /\ ~ NeedModify(facls[Share.path], Share) => Grants(Share, m)
        BY <4>1, <4>2, NoNeedBelow
      <4>4. pc' \in {"dirs", "modified"}
        BY <3>2 DEF FindDirs, Pipe, Goto, End, Due
      <4>5. HasGrants(m)' => Grants(Share, m)
        <5>1. pc' = "dirs" => work' = Below(Share.path) \cap DirNode
          BY <3>2 DEF FindDirs, Pipe, Goto, End, Due
        <5>2. pc' = "modified" => ~ NeedModify(facls[Share.path], Share)
          BY <3>2 DEF FindDirs, Pipe, Goto, End, Due
        <5>3. pc' = "dirs" => ~ HasGrants(m)'
          BY <4>2, <5>1 DEF HasGrants
        <5>4. QED
          BY <4>3, <4>4, <5>2, <5>3
      <4>6. Grants(Share, m)' <=> Grants(Share, m)
        BY <3>1, <4>1 DEF Grants, Passes
      <4>7. DueAt(m)'
        BY <4>4, <4>5, <4>6 DEF DueAt
      <4>8. \A g : Even(Share.path, m, g)' <=> Even(Share.path, m, g)
        BY <3>1, <4>1 DEF Even, Passes, InAny
      <4>9. QED
        BY <4>3, <4>7, <4>8
    <3>3. CASE FindFiles \/ FilesDone \/ FindAll
      <4>1. Due /\ Share' = Share /\ UNCHANGED facls
        BY <3>3 DEF FindFiles, FilesDone, FindAll, Pipe, Goto, NextShare, End, Share, Due
      <4>2. m \in Below(Share.path) /\ m # Share.path
        BY <3>1, <4>1 DEF Below
      <4>3. DueAt(m)'
        BY <3>3, <4>1, <4>2, NextPipelineKeepsDue DEF BelowDue
      <4>4. Gone' = Gone /\ GroupsOf(Share)' = GroupsOf(Share)
        BY <4>1 DEF Gone, GroupsOf
      <4>5. \A g : Even(Share.path, m, g)' <=> Even(Share.path, m, g)
        BY <3>1, <4>1 DEF Even, Passes, InAny
      <4>6. QED
        BY <4>1, <4>2, <4>3, <4>4, <4>5 DEF BelowDue
    <3>4. QED
      BY <2>2, <3>2, <3>3 DEF Looks, GetShareFacls, SkipMissingShare, RemoveDone,
         GetTraversalFacls, TraversalDone, End, NextShare, Due
  <2>3. CASE \E w \in work : Traverse(w)
    BY <2>3 DEF Traverse, Due
  <2>4. QED
    BY <1>3, <2>1, <2>2, <2>3, RunSteps
<1>4. QED
  BY <1>1, <1>2, <1>3, ExistsSteps

\* What the run is past has been applied to all that is below.
LEMMA BelowDoneStep ==
    ASSUME PlainShares, SharesApart, RunsUndisturbed, TopInv, BelowInv, [Next]_vars
    PROVE  BelowDone'
<1> USE DEF TopInv, BelowInv
<1> SUFFICES ASSUME NEW i, i \in DOMAIN mine'.realShares, Passed(i)',
                    NEW m, m \in Below(mine.realShares[i].path)'
             PROVE  Applied(mine.realShares[i], m)'
  BY DEF BelowDone
<1>1. /\ mine' = mine /\ mine \in Config /\ i \in DOMAIN mine.realShares
      /\ exists \subseteq Node
  BY PassedSteps DEF Inv, TypeOK
<1>2. PICK s \in ShareType : s = mine.realShares[i] /\ s = mine'.realShares[i]
  BY <1>1, ShareFacts
<1>3. SUFFICES Applied(s, m)'
  BY <1>2 DEF Applied, Grants, Passes, InAny
<1>4. CASE Passed(i) /\ \A n \in Below(mine.realShares[i].path)' :
                           n \in Below(mine.realShares[i].path) /\ FileSame(n)
  <2>1. m \in Below(s.path) /\ FileSame(m)
    BY <1>2, <1>4
  <2>2. Applied(s, m)
    BY <1>1, <1>2, <1>4, <2>1 DEF BelowDone
  <2>3. QED
    BY <2>1, <2>2, SameFile, AppliedStays
<1>5. CASE Finishes /\ i = k
  <2>1. UNCHANGED <<exists, acl, dfl>> /\ Steady
    BY <1>5 DEF Finishes, fs
  <2>2. s = Share /\ m \in Below(Share.path)
    BY <1>1, <1>2, <1>5, <2>1 DEF Share, Below
  <2>3. CASE SkipMissingShare
    <3>1. s.path \in SharePaths(mine) \cap DirNode
      BY <1>1, <1>2, ShareFacts DEF PlainShares
    <3>2. s.path \notin exists
      BY <1>2, <2>1, <2>2, <2>3, <3>1 DEF SkipMissingShare, ShareIsDue, SharesRead
    <3>3. s.path \in ConfiguredPaths
      BY <1>1, <3>1 DEF ConfiguredPaths
    <3>4. QED
      BY <2>2, <3>2, <3>3 DEF Rooted, Below
  <2>4. CASE Due /\ ((pc = "modified" /\ Gone = {}) \/ (pc = "remove" /\ work = {}))
    <3>1. \A g \in Group : InAny(Share.path, g) =>
             \/ g \in GroupsOf(Share)
             \/ g \in DOMAIN facls[Share.path].acl \cup DOMAIN facls[Share.path].dfl
      BY <2>1, <2>4 DEF TopDue
    <3>2. \A g \in Group : InAny(Share.path, g) =>
             g \in GroupsOf(Share) \cup Share.managing \cup Gone
      BY <3>1 DEF Gone, GroupsToRemove
    <3>3. DueAt(m)
      BY <2>1, <2>2, <2>4 DEF BelowDue, TopDue
    <3>4. Managers(m) \subseteq Share.managing
      BY <1>1, <1>2, <2>2, ConfigAssumption, ShareFacts DEF Below
    <3>5. ASSUME NEW g \in Group, InAny(m, g)
          PROVE  g \in GroupsOf(Share) \cup Share.managing \cup Gone
      <4>1. CASE m = Share.path
        BY <3>2, <3>5, <4>1
      <4>2. CASE m # Share.path
        BY <2>2, <2>4, <3>2, <3>4, <3>5, <4>2 DEF BelowDue, Even
      <4>3. QED
        BY <4>1, <4>2
    <3>6. Applied(Share, m)
      BY <2>4, <3>3, <3>5, DueIsApplied
    <3>7. Applied(s, m) /\ FileSame(m)
      BY <2>1, <2>2, <3>6 DEF FileSame
    <3>8. QED
      BY <3>7, SameFile, AppliedStays
  <2>5. QED
    BY <1>5, <2>3, <2>4 DEF Finishes
<1>6. QED
  BY <1>1, <1>4, <1>5, PassedSteps

\* The entries of a file to which a share has been applied are those of the share.
LEMMA AppliedIsApplied ==
    ASSUME Inv, NEW s \in ShareType, GroupsOf(s) \cap s.managing = {}, NEW n \in Node,
           Applied(s, n)
    PROVE  IsApplied(s, n)
<1>1. DOMAIN acl[n] \subseteq Group /\ DOMAIN dfl[n] \subseteq Group
  <2>1. acl[n] \in AclType /\ dfl[n] \in AclType
    BY DEF Inv, TypeOK
  <2>2. QED
    BY <2>1 DEF AclType
<1>2. /\ DOMAIN acl[n] \ s.managing \subseteq GroupsOf(s)
      /\ DOMAIN dfl[n] \ s.managing \subseteq GroupsOf(s)
  BY <1>1 DEF Applied, InAny
<1>3. \A g \in GroupsOf(s) : Passes(n, g, ModeFor(s, g))
  BY DEF Applied, Grants
<1>4. CASE n \in DirNode
  <2>1. \A g \in GroupsOf(s) :
           HasEntry(acl[n], g, ModeFor(s, g)) /\ HasEntry(dfl[n], g, ModeFor(s, g))
    BY <1>3, <1>4 DEF Passes
  <2>2. ASSUME NEW f, DOMAIN f \ s.managing \subseteq GroupsOf(s),
               \A g \in GroupsOf(s) : HasEntry(f, g, ModeFor(s, g))
        PROVE  [g \in DOMAIN f \ s.managing |-> f[g]] = [g \in GroupsOf(s) |-> ModeFor(s, g)]
    <3>1. DOMAIN f \ s.managing = GroupsOf(s)
      BY <2>2 DEF HasEntry
    <3>2. \A g \in GroupsOf(s) : f[g] = ModeFor(s, g)
      BY <2>2 DEF HasEntry
    <3>3. QED
      BY <3>1, <3>2
  <2>3. QED
    BY <1>2, <1>4, <2>1, <2>2 DEF IsApplied
<1>5. CASE n \notin DirNode
  <2>1. \A g \in GroupsOf(s) :
           g \in DOMAIN acl[n] /\ WithoutX(acl[n][g]) = WithoutX(ModeFor(s, g))
    BY <1>3, <1>5 DEF Passes
  <2>2. DOMAIN acl[n] \ s.managing = GroupsOf(s)
    BY <1>2, <2>1
  <2>3. QED
    BY <1>5, <2>1, <2>2 DEF IsApplied
<1>6. QED
  BY <1>4, <1>5

\* After a run that nothing has disturbed, each real share grants what it should on all
\* that is below it, if shares do not nest, neither within a configuration nor across
\* them, and if nothing ever comes between a run and the filesystem.  The run looks at the
\* directory of the share alone: what makes that enough is that below a directory that
\* may be shared its default entries hold.
THEOREM SharesAreAppliedCorrect ==
    SharesApart /\ SharesStayPut /\ PlainShares /\ InitiallyEven /\ RunsUndisturbed =>
       (Spec => []SharesAreApplied)
<1> SUFFICES ASSUME SharesApart, SharesStayPut, PlainShares, InitiallyEven, RunsUndisturbed
             PROVE  Spec => []SharesAreApplied
  OBVIOUS
<1>1. Init => BelowInv
  <2>1. Init => Rooted /\ OthersEven
    BY BelowInit
  <2>2. QED
    BY <2>1 DEF Init, BelowInv, BelowDue, BelowDone, Due, Passed, Settled
<1>2. TopInv /\ BelowInv /\ [Next]_vars => BelowInv'
  <2>1. TopInv /\ BelowInv /\ [Next]_vars => Rooted'
    BY RootedStep DEF TopInv, BelowInv
  <2>2. QED
    BY <2>1, OthersEvenStep, BelowDueStep, BelowDoneStep DEF BelowInv
<1>3. TopInv /\ [Next]_vars => TopInv'
  BY TopInvStep
<1>4. TopInv /\ BelowInv => SharesAreApplied
  <2> SUFFICES ASSUME TopInv, BelowInv, Settled, NEW i \in DOMAIN conf.realShares,
                      NEW n \in Below(conf.realShares[i].path)
               PROVE  IsApplied(conf.realShares[i], n)
    BY DEF SharesAreApplied
  <2>1. mine = conf /\ conf \in Config /\ n \in Node
    BY DEF TopInv, CalmConf, Settled, Inv, TypeOK, Below
  <2>2. PICK s \in ShareType : s = conf.realShares[i]
    BY <2>1, ShareFacts
  <2>3. Applied(s, n)
    BY <2>1, <2>2 DEF BelowInv, BelowDone, Passed
  <2>4. GroupsOf(s) \cap s.managing = {}
    BY <2>1, <2>2 DEF PlainShares
  <2>5. QED
    BY <2>1, <2>2, <2>3, <2>4, AppliedIsApplied DEF TopInv
<1>5. QED
  BY <1>1, <1>2, <1>3, <1>4, TopInvInit, PTL DEF Spec
=============================================================================
