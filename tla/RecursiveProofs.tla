--------------------------- MODULE RecursiveProofs ---------------------------
(***************************************************************************)
(* `apply --recursive` takes no entry from groups of which its policy says *)
(* nothing, and a run that nothing disturbs repairs everything, for any    *)
(* tree, any policies and any attributes that users bring about.           *)
(***************************************************************************)
EXTENDS Recursive, TLAPS

LEMMA ActsAreBounded == MaxActs \in Nat
  BY NodeAssumption

LEMMA EmptyEntries == NoEntries \in Entries
<1>1. NoEntries \in [{} -> SUBSET RWX]
  BY DEF NoEntries
<1>2. {} \in SUBSET Groups
  OBVIOUS
<1> QED BY <1>1, <1>2 DEF Entries

LEMMA PolicyTypes ==
  ASSUME NEW p
  PROVE  /\ OnTop(p) \in SUBSET RWX /\ BelowTop(p) \in SUBSET RWX
         /\ GroupsOf(p) \in SUBSET Groups
  BY DEF OnTop, BelowTop, GroupsOf, RX, RWX, Groups

LEMMA PolicyEntries ==
  ASSUME NEW p, NEW perms \in SUBSET RWX
  PROVE  EntriesOf(p, perms) \in Entries /\ DOMAIN EntriesOf(p, perms) = GroupsOf(p)
<1>1. EntriesOf(p, perms) \in [GroupsOf(p) -> SUBSET RWX]
  BY DEF EntriesOf
<1>2. GroupsOf(p) \in SUBSET Groups
  BY PolicyTypes
<1> QED BY <1>1, <1>2 DEF Entries, EntriesOf

\* setfacl -m keeps what it does not name.
LEMMA Modified ==
  ASSUME NEW f \in Entries, NEW entries \in Entries
  PROVE  /\ ModifyEntries(f, entries) \in Entries
         /\ \A g \in DOMAIN f \ DOMAIN entries :
               g \in DOMAIN ModifyEntries(f, entries) /\ ModifyEntries(f, entries)[g] = f[g]
<1>1. PICK S \in SUBSET Groups : f \in [S -> SUBSET RWX]
  BY DEF Entries
<1>2. PICK T \in SUBSET Groups : entries \in [T -> SUBSET RWX]
  BY DEF Entries
<1>3. ModifyEntries(f, entries) \in [S \cup T -> SUBSET RWX]
  BY <1>1, <1>2 DEF ModifyEntries
<1>4. S \cup T \in SUBSET Groups
  OBVIOUS
<1>5. ModifyEntries(f, entries) \in Entries
  BY <1>3, <1>4 DEF Entries
<1> QED BY <1>5 DEF ModifyEntries

\* What the setfacl commands do to a file.
LEMMA AclTypes ==
  ASSUME NEW a \in Attr, NEW p
  PROVE  /\ TopAcl(a, p) \in Attr /\ DirAcl(a, p) \in Attr /\ FileAcl(a, p) \in Attr
         /\ DirAcl(a, p).acl = ModifyEntries(a.acl, EntriesOf(p, BelowTop(p)))
         /\ FileAcl(a, p).acl = ModifyEntries(a.acl, EntriesOf(p, BelowTop(p)))
<1> DEFINE below == EntriesOf(p, BelowTop(p))
           onTop == EntriesOf(p, OnTop(p))
<1>1. OnTop(p) \in SUBSET RWX /\ BelowTop(p) \in SUBSET RWX
  BY PolicyTypes
<1>2. below \in Entries /\ onTop \in Entries
  BY <1>1, PolicyEntries
<1>3. a.acl \in Entries /\ a.dfl \in Entries
  BY DEF Attr
<1>4. /\ ModifyEntries(a.acl, below) \in Entries /\ ModifyEntries(a.acl, onTop) \in Entries
      /\ ModifyEntries(a.dfl, below) \in Entries
  BY <1>2, <1>3, Modified
<1>5. WithoutX(BelowTop(p)) \in SUBSET RWX
  BY <1>1 DEF WithoutX
<1> HIDE DEF below, onTop
<1>6. ASSUME NEW b \in Attr, b.dfl = a.dfl
      PROVE  WithDefaults(b, p) \in Attr /\ WithDefaults(b, p).acl = b.acl
  BY <1>1, <1>4, <1>6 DEF WithDefaults, Attr, below
<1>7. TopAcl(a, p) \in Attr
  <2> DEFINE b == [a EXCEPT !.gid = "ou", !.sgid = TRUE, !.base = "closed", !.mask = OnTop(p),
                           !.acl = ModifyEntries(@, onTop)]
  <2>1. b \in Attr /\ b.dfl = a.dfl
    BY <1>1, <1>4 DEF Attr
  <2>2. TopAcl(a, p) = WithDefaults(b, p)
    BY DEF TopAcl, onTop
  <2> HIDE DEF b
  <2> QED BY <2>1, <2>2, <1>6
<1>8. DirAcl(a, p) \in Attr /\ DirAcl(a, p).acl = ModifyEntries(a.acl, below)
  <2> DEFINE b == [a EXCEPT !.base = "closed", !.mask = BelowTop(p),
                            !.acl = ModifyEntries(@, below)]
  <2>1. b \in Attr /\ b.dfl = a.dfl /\ b.acl = ModifyEntries(a.acl, below)
    BY <1>1, <1>4 DEF Attr
  <2>2. DirAcl(a, p) = WithDefaults(b, p)
    BY DEF DirAcl, below
  <2> HIDE DEF b
  <2> QED BY <2>1, <2>2, <1>6
<1>9. FileAcl(a, p) \in Attr /\ FileAcl(a, p).acl = ModifyEntries(a.acl, below)
  BY <1>4, <1>5 DEF FileAcl, Attr, below
<1> QED BY <1>7, <1>8, <1>9 DEF below

LEMMA NoAttrType == NoAttr \in Attr
  BY EmptyEntries DEF NoAttr, Attr

LEMMA OfKindType ==
  ASSUME NEW a \in Attr, NEW n
  PROVE  OfKind(a, n) \in Attr
  BY EmptyEntries DEF OfKind, Attr

LEMMA InheritedType ==
  ASSUME TypeOK, NEW n \in Node, CanBeCreated(n)
  PROVE  Inherited(n) \in Attr
<1>1. AttrOfParent(n) \in Attr
  <2>1. n # <<>> /\ n \in Seq(UNION {Range(m) : m \in Node})
    BY NodeAssumption
  <2>2. Len(n) \in Nat \ {0}
    BY <2>1
  <2>3. Len(n) > 1 => Parent(n) \in Node
    BY DEF CanBeCreated, TypeOK
  <2>4. CASE Len(n) = 1
    BY <2>4 DEF AttrOfParent, TypeOK
  <2>5. CASE Len(n) # 1
    <3>1. Parent(n) \in Node
      <4> DEFINE len == Len(n)
      <4>1. len \in Nat \ {0} /\ len # 1
        BY <2>2, <2>5
      <4> HIDE DEF len
      <4>2. len > 1
        BY <4>1
      <4> QED BY <2>3, <4>2 DEF len
    <3> QED BY <2>5, <3>1 DEF AttrOfParent, TypeOK
  <2> QED BY <2>4, <2>5
<1>2. WithoutX(AttrOfParent(n).dmask) \in SUBSET RWX
  BY <1>1 DEF Attr, WithoutX
<1> QED BY <1>1, <1>2, EmptyEntries DEF Inherited, Attr

LEMMA InitType == Init => TypeOK
<1> SUFFICES ASSUME Init PROVE TypeOK
  OBVIOUS
<1>1. PICK left \in Initial : /\ exists = DOMAIN left
                             /\ attr = [n \in Node |-> IF n \in exists THEN left[n] ELSE NoAttr]
  BY DEF Init
<1>2. exists \subseteq Node /\ \A n \in exists : left[n] \in Attr
  BY <1>1, AttrAssumption
<1>3. attr \in [Node -> Attr]
  BY <1>1, <1>2, NoAttrType
<1>4. top \in Attr
  BY NoAttrType, AclTypes DEF Init
<1>5. acts \in 0 .. MaxActs
  BY ActsAreBounded DEF Init
<1> QED BY <1>2, <1>3, <1>4, <1>5 DEF Init, TypeOK

Pcs == {"idle", "top", "find group", "chgrp", "find sgid", "chmod",
        "find dirs", "setfacl dirs", "find files", "setfacl files"}

\* Steps that leave files alone.
LEMMA RunType ==
  ASSUME TypeOK, UNCHANGED fs, acts' \in 0 .. MaxActs, calm' \in BOOLEAN,
         policy' \in Policies, mine' \in Policies, pc' \in Pcs, work' \subseteq Node,
         broken' \in BOOLEAN, last' \in {"none", "ok", "failed", "killed"}
  PROVE  TypeOK'
<1>1. exists' = exists /\ attr' = attr /\ top' = top
  BY DEF fs
<1> QED BY <1>1 DEF TypeOK, Pcs

LEMMA PipelineType ==
  ASSUME TypeOK
  PROVE  /\ \A label, next, listed :
               next \in Pcs /\ listed \subseteq Node /\ Find(label, next, listed) => TypeOK'
         /\ \A label, next : next \in Pcs /\ PipelineDone(label, next) => TypeOK'
<1>1. ASSUME NEW label, NEW next, NEW listed, next \in Pcs, listed \subseteq Node,
             Find(label, next, listed)
      PROVE  TypeOK'
  <2>1. /\ UNCHANGED fs /\ acts' = acts /\ calm' = calm /\ policy' = policy /\ mine' = mine
        /\ pc' = next /\ work' = listed /\ broken' = FALSE /\ last' = last
    BY <1>1 DEF Find
  <2> QED BY <1>1, <2>1, RunType DEF TypeOK
<1>2. ASSUME NEW label, NEW next, next \in Pcs, PipelineDone(label, next)
      PROVE  TypeOK'
  <2>1. /\ UNCHANGED fs /\ acts' = acts /\ calm' = calm /\ policy' = policy /\ mine' = mine
        /\ pc' \in {"idle", next} /\ work' \in {work, {}} /\ broken' \in {broken, FALSE}
        /\ last' \in {last, "ok", "failed"}
    BY <1>2 DEF PipelineDone, End
  <2>2. pc' \in Pcs
    BY <1>2, <2>1 DEF Pcs
  <2> QED BY <2>1, <2>2, RunType DEF TypeOK
<1> QED BY <1>1, <1>2

LEMMA VisitType ==
  ASSUME TypeOK, NEW n \in Node, VisitNext(n)
  PROVE  TypeOK'
<1>1. attr[n] \in Attr
  BY DEF TypeOK
<1>2. Visited(n) \in Attr
  <2>1. [attr[n] EXCEPT !.gid = "ou"] \in Attr /\ [attr[n] EXCEPT !.sgid = TRUE] \in Attr
    BY <1>1 DEF Attr
  <2>2. DirAcl(attr[n], mine) \in Attr /\ FileAcl(attr[n], mine) \in Attr
    BY <1>1, AclTypes
  <2> QED BY <2>1, <2>2 DEF VisitNext, Visited
<1>3. attr' \in [Node -> Attr]
  BY <1>2 DEF VisitNext, TypeOK
<1>4. work' \subseteq Node /\ broken' \in BOOLEAN
  BY DEF VisitNext, TypeOK
<1> QED BY <1>3, <1>4 DEF VisitNext, TypeOK

\* Steps that do something with one file.
LEMMA FileType ==
  ASSUME TypeOK, exists' \subseteq Node, attr' \in [Node -> Attr],
         UNCHANGED <<top, run, policy>>, acts < MaxActs, acts' = acts + 1, calm' \in BOOLEAN
  PROVE  TypeOK'
<1>1. acts' \in 0 .. MaxActs
  <2>1. acts \in 0 .. MaxActs
    BY DEF TypeOK
  <2> QED BY <2>1, ActsAreBounded
<1>2. /\ top' = top /\ mine' = mine /\ pc' = pc /\ work' = work /\ broken' = broken
      /\ last' = last /\ policy' = policy
  BY DEF run
<1> QED BY <1>1, <1>2 DEF TypeOK

LEMMA UserType ==
  ASSUME TypeOK, NEW n \in Node, Create(n) \/ MoveIn(n) \/ Change(n) \/ Delete(n)
  PROVE  TypeOK'
<1>1. acts < MaxActs /\ acts' = acts + 1 /\ UNCHANGED <<top, run, policy>>
  BY DEF Create, MoveIn, Change, Delete, Besides
<1>2. exists' \subseteq Node
  BY DEF Create, MoveIn, Change, Delete, TypeOK
<1>3. calm' \in BOOLEAN
  BY DEF Create, MoveIn, Change, Delete, TypeOK
<1>4. attr' \in [Node -> Attr]
  <2>1. CASE Create(n)
    BY <2>1, InheritedType DEF Create, TypeOK
  <2>2. CASE MoveIn(n) \/ Change(n)
    <3>1. PICK a \in Foreign : attr' = [attr EXCEPT ![n] = OfKind(a, n)]
      BY <2>2 DEF MoveIn, Change
    <3>2. OfKind(a, n) \in Attr
      BY AttrAssumption, OfKindType
    <3> QED BY <3>1, <3>2 DEF TypeOK
  <2>3. CASE Delete(n)
    BY <2>3, NoAttrType DEF Delete, TypeOK
  <2> QED BY <2>1, <2>2, <2>3
<1> QED BY <1>1, <1>2, <1>3, <1>4, FileType

LEMMA RunStepType ==
  ASSUME TypeOK, RunStep
  PROVE  TypeOK'
<1>1. CASE EnsureTop
  <2>1. TopAcl(top, mine) \in Attr
    BY AclTypes DEF TypeOK
  <2> QED BY <1>1, <2>1 DEF EnsureTop, TypeOK
<1>2. CASE FindGroup \/ FindSgid \/ FindDirs \/ FindFiles
  <2>1. \A S \in SUBSET exists : S \subseteq Node
    BY DEF TypeOK
  <2>2. {"chgrp", "chmod", "setfacl dirs", "setfacl files"} \subseteq Pcs
    BY DEF Pcs
  <2>3. CASE FindGroup
    BY <2>1, <2>2, <2>3, PipelineType DEF FindGroup
  <2>4. CASE FindSgid
    BY <2>1, <2>2, <2>4, PipelineType DEF FindSgid
  <2>5. CASE FindDirs
    BY <2>1, <2>2, <2>5, PipelineType DEF FindDirs
  <2>6. CASE FindFiles
    BY <2>1, <2>2, <2>6, PipelineType DEF FindFiles
  <2> QED BY <1>2, <2>3, <2>4, <2>5, <2>6
<1>3. CASE \E n \in Node : VisitNext(n)
  BY <1>3, VisitType
<1>4. CASE ChgrpDone \/ ChmodDone \/ DirsDone \/ FilesDone
  <2>1. {"find sgid", "find dirs", "find files", "idle"} \subseteq Pcs
    BY DEF Pcs
  <2> QED BY <1>4, <2>1, PipelineType DEF ChgrpDone, ChmodDone, DirsDone, FilesDone
<1> QED BY <1>1, <1>2, <1>3, <1>4 DEF RunStep

LEMMA NextType == TypeOK /\ [Next]_vars => TypeOK'
<1> SUFFICES ASSUME TypeOK, [Next]_vars PROVE TypeOK'
  OBVIOUS
<1>1. CASE StartRun
  <2>1. /\ UNCHANGED fs /\ acts' = acts /\ calm' = TRUE /\ policy' = policy /\ mine' = policy
        /\ pc' = "top" /\ work' = work /\ broken' = broken /\ last' = last
    BY <1>1 DEF StartRun
  <2>2. pc' \in Pcs
    BY <2>1 DEF Pcs
  <2> QED BY <2>1, <2>2, RunType DEF TypeOK
<1>2. CASE RunStep
  BY <1>2, RunStepType
<1>3. CASE User
  BY <1>3, UserType DEF User
<1>4. CASE Configure \/ Kill
  <2>1. acts' \in 0 .. MaxActs
    <3>1. acts \in 0 .. MaxActs /\ acts < MaxActs /\ acts' = acts + 1
      BY <1>4 DEF TypeOK, Configure, Kill, Besides
    <3> QED BY <3>1, ActsAreBounded
  <2>2. /\ UNCHANGED fs /\ calm' = FALSE /\ policy' \in Policies /\ mine' = mine
        /\ pc' \in {pc, "idle"} /\ work' \in {work, {}} /\ broken' \in {broken, FALSE}
        /\ last' \in {last, "killed"}
    BY <1>4 DEF TypeOK, Configure, Kill, End, run
  <2>3. pc' \in Pcs
    BY <2>2 DEF TypeOK, Pcs
  <2> QED BY <2>1, <2>2, <2>3, RunType DEF TypeOK
<1>5. CASE UNCHANGED vars
  BY <1>5 DEF vars, fs, run, TypeOK
<1> QED BY <1>1, <1>2, <1>3, <1>4, <1>5 DEF Next

\* Files have the attributes of their kinds, whatever runs and users do.
THEOREM TypeCorrect == Spec => []TypeOK
  BY InitType, NextType, PTL DEF Spec

\* The only steps that change ACLs of files are those of the last two pipelines, and they
\* set the entries of the policy's groups.
LEMMA StepKeepsEntries ==
  ASSUME TypeOK, RunStep, NEW n \in exists, NEW g \in DOMAIN attr[n].acl \ GroupsOf(mine)
  PROVE  g \in DOMAIN attr'[n].acl /\ attr'[n].acl[g] = attr[n].acl[g]
<1>1. n \in Node /\ attr[n] \in Attr /\ attr[n].acl \in Entries
  BY DEF TypeOK, Attr
<1>2. CASE \E m \in Node : VisitNext(m)
  <2>1. PICK m \in Node : VisitNext(m)
    BY <1>2
  <2>2. CASE m = n
    <3>1. attr'[n] = Visited(n)
      BY <1>1, <2>1, <2>2 DEF VisitNext, TypeOK
    <3>2. CASE pc \in {"chgrp", "chmod"}
      <4>1. Visited(n).acl = attr[n].acl
        BY <1>1, <3>2 DEF Visited, Attr
      <4> QED BY <3>1, <4>1
    <3>3. CASE pc \in {"setfacl dirs", "setfacl files"}
      <4> DEFINE entries == EntriesOf(mine, BelowTop(mine))
      <4>1. Visited(n).acl = ModifyEntries(attr[n].acl, entries)
        BY <1>1, <3>3, AclTypes DEF Visited
      <4>2. entries \in Entries /\ DOMAIN entries = GroupsOf(mine)
        BY PolicyTypes, PolicyEntries
      <4> HIDE DEF entries
      <4> QED BY <1>1, <3>1, <4>1, <4>2, Modified
    <3> QED BY <2>1, <3>2, <3>3 DEF VisitNext
  <2>3. CASE m # n
    BY <1>1, <2>1, <2>3 DEF VisitNext, TypeOK
  <2> QED BY <2>2, <2>3
<1>3. CASE ~ \E m \in Node : VisitNext(m)
  BY <1>3 DEF RunStep, EnsureTop, FindGroup, FindSgid, FindDirs, FindFiles, Find, ChgrpDone,
              ChmodDone, DirsDone, FilesDone, PipelineDone, fs
<1> QED BY <1>2, <1>3

\* setfacl -M in the scripts of apply-sh.go: entries of other groups, like those of shares,
\* stay as they are in every step of every run.
THEOREM OtherEntriesStayCorrect == Spec => OtherEntriesStay
<1>1. TypeOK /\ [Next]_vars =>
        [RunStep => \A n \in exists :
            \A g \in DOMAIN attr[n].acl \ GroupsOf(mine) :
                g \in DOMAIN attr'[n].acl /\ attr'[n].acl[g] = attr[n].acl[g]]_vars
  BY StepKeepsEntries
<1> QED BY <1>1, TypeCorrect, PTL DEF Spec, OtherEntriesStay

-----------------------------------------------------------------------------
\* What the four pipelines bring about, one after the other.
HasGroup(a) == a.gid = "ou"
HasSgid(a, n) == IsKind(n, "dir") => a.sgid
HasDirAcl(a, n, p) ==
    IsKind(n, "dir") =>
       /\ a.base = "closed" /\ Has(a.acl, EntriesOf(p, BelowTop(p))) /\ a.mask = BelowTop(p)
       /\ Has(a.dfl, EntriesOf(p, BelowTop(p))) /\ a.dmask = BelowTop(p)
HasFileAcl(a, n, p) ==
    IsKind(n, "file") =>
       /\ a.base = "closed" /\ Has(a.acl, EntriesOf(p, BelowTop(p)))
       /\ a.mask = WithoutX(BelowTop(p))

\* A directory whose new files are right by themselves.
PassesOn(a, p) ==
    /\ a.gid = "ou" /\ a.sgid = TRUE
    /\ Has(a.dfl, EntriesOf(p, BelowTop(p))) /\ a.dmask = BelowTop(p)

\* The pipelines that have started at a program counter.
SinceFiles == {"setfacl files"}
SinceDirs == {"setfacl dirs", "find files"} \cup SinceFiles
SinceChmod == {"chmod", "find dirs"} \cup SinceDirs
SinceChgrp == {"chgrp", "find sgid"} \cup SinceChmod

Left(n, label) == pc = label /\ n \in work

\* How far the run has come with a file.
FileProgress(n) ==
    /\ pc \in SinceChgrp => HasGroup(attr[n]) \/ Left(n, "chgrp")
    /\ pc \in SinceChmod => HasSgid(attr[n], n) \/ Left(n, "chmod")
    /\ pc \in SinceDirs => HasDirAcl(attr[n], n, policy) \/ Left(n, "setfacl dirs")
    /\ pc \in SinceFiles => HasFileAcl(attr[n], n, policy) \/ Left(n, "setfacl files")

\* A run that nothing has disturbed.
RunProgress ==
    calm /\ pc # "idle" =>
       /\ mine = policy
       /\ pc # "top" => PassesOn(top, policy)
       /\ \A n \in exists : FileProgress(n)

\* find lists files of one kind.
WorkFits ==
    /\ pc \in {"chmod", "setfacl dirs"} => \A n \in work : IsKind(n, "dir")
    /\ pc = "setfacl files" => \A n \in work : IsKind(n, "file")

FileIsRight(n) ==
    /\ HasGroup(attr[n]) /\ HasSgid(attr[n], n)
    /\ HasDirAcl(attr[n], n, policy) /\ HasFileAcl(attr[n], n, policy)

AllIsRight == PassesOn(top, policy) /\ \A n \in exists : FileIsRight(n)

IInv == TypeOK /\ RunProgress /\ WorkFits /\ (Settled => AllIsRight)

LEMMA ModifiedHas ==
    ASSUME NEW f, NEW entries
    PROVE  Has(ModifyEntries(f, entries), entries)
  BY DEF Has, ModifyEntries

\* What the commands of the pipelines do to a file, and what they leave alone.
LEMMA ChgrpEffects ==
    ASSUME NEW a \in Attr
    PROVE  HasGroup([a EXCEPT !.gid = "ou"])
  BY DEF HasGroup, Attr

LEMMA ChmodEffects ==
    ASSUME NEW a \in Attr, NEW n \in Node
    PROVE  /\ HasSgid([a EXCEPT !.sgid = TRUE], n)
           /\ HasGroup(a) => HasGroup([a EXCEPT !.sgid = TRUE])
<1>1. [a EXCEPT !.sgid = TRUE].sgid = TRUE
  BY DEF Attr
<1>2. HasSgid([a EXCEPT !.sgid = TRUE], n)
  BY <1>1, Zenon DEF HasSgid
<1>3. HasGroup(a) => HasGroup([a EXCEPT !.sgid = TRUE])
  BY DEF HasGroup, Attr
<1> QED BY <1>2, <1>3

LEMMA DirAclEffects ==
    ASSUME NEW a \in Attr, NEW n \in Node, NEW p
    PROVE  /\ HasDirAcl(DirAcl(a, p), n, p)
           /\ HasGroup(a) => HasGroup(DirAcl(a, p))
           /\ HasSgid(a, n) => HasSgid(DirAcl(a, p), n)
<1> DEFINE below == EntriesOf(p, BelowTop(p))
<1>1. /\ DirAcl(a, p).gid = a.gid /\ DirAcl(a, p).sgid = a.sgid
      /\ DirAcl(a, p).base = "closed" /\ DirAcl(a, p).mask = BelowTop(p)
      /\ DirAcl(a, p).acl = ModifyEntries(a.acl, below)
      /\ DirAcl(a, p).dfl = ModifyEntries(a.dfl, below) /\ DirAcl(a, p).dmask = BelowTop(p)
  BY DEF DirAcl, WithDefaults, Attr
<1>2. HasDirAcl(DirAcl(a, p), n, p)
  BY <1>1, ModifiedHas DEF HasDirAcl
<1>3. HasGroup(a) => HasGroup(DirAcl(a, p))
  BY <1>1 DEF HasGroup
<1>4. HasSgid(a, n) => HasSgid(DirAcl(a, p), n)
  BY <1>1, Zenon DEF HasSgid
<1> QED BY <1>2, <1>3, <1>4

LEMMA FileAclEffects ==
    ASSUME NEW a \in Attr, NEW n \in Node, NEW p
    PROVE  /\ HasFileAcl(FileAcl(a, p), n, p)
           /\ HasGroup(a) => HasGroup(FileAcl(a, p))
<1>1. /\ FileAcl(a, p).gid = a.gid
      /\ FileAcl(a, p).base = "closed" /\ FileAcl(a, p).mask = WithoutX(BelowTop(p))
      /\ FileAcl(a, p).acl = ModifyEntries(a.acl, EntriesOf(p, BelowTop(p)))
  BY DEF FileAcl, Attr
<1> QED BY <1>1, ModifiedHas DEF HasFileAcl, HasGroup

LEMMA TopPassesOn ==
    ASSUME NEW a \in Attr, NEW p
    PROVE  PassesOn(TopAcl(a, p), p)
<1>1. /\ TopAcl(a, p).gid = "ou" /\ TopAcl(a, p).sgid = TRUE
      /\ TopAcl(a, p).dfl = ModifyEntries(a.dfl, EntriesOf(p, BelowTop(p)))
      /\ TopAcl(a, p).dmask = BelowTop(p)
  BY DEF TopAcl, WithDefaults, Attr
<1> QED BY <1>1, ModifiedHas, Zenon DEF PassesOn

\* A file that a user creates in a directory that passes everything on.
LEMMA CreatedIsRight ==
    ASSUME NEW n \in Node, PassesOn(AttrOfParent(n), policy)
    PROVE  /\ HasGroup(Inherited(n)) /\ HasSgid(Inherited(n), n)
           /\ HasDirAcl(Inherited(n), n, policy) /\ HasFileAcl(Inherited(n), n, policy)
<1> DEFINE d == AttrOfParent(n)
           entries == EntriesOf(policy, BelowTop(policy))
<1>1. /\ d.gid = "ou" /\ d.sgid = TRUE
      /\ Has(d.dfl, entries) /\ d.dmask = BelowTop(policy)
  BY DEF PassesOn
<1>2. d.dfl # NoEntries
  <2>1. DOMAIN NoEntries = {}
    BY DEF NoEntries
  <2>2. "ou" \in DOMAIN entries
    BY DEF EntriesOf, GroupsOf
  <2>3. "ou" \in DOMAIN d.dfl
    BY <1>1, <2>2 DEF Has
  <2> QED BY <2>1, <2>3
<1>3. /\ Inherited(n).gid = "ou" /\ Inherited(n).base = "closed"
      /\ Inherited(n).acl = d.dfl
      /\ Inherited(n).mask = IF IsKind(n, "dir") THEN d.dmask ELSE WithoutX(d.dmask)
      /\ IsKind(n, "dir") => Inherited(n).dfl = d.dfl /\ Inherited(n).dmask = d.dmask
  BY <1>1, <1>2 DEF Inherited
<1>4. IsKind(n, "dir") => Inherited(n).sgid = TRUE
  BY <1>1 DEF Inherited
<1>5. HasSgid(Inherited(n), n)
  BY <1>4, Zenon DEF HasSgid
<1>6. IsKind(n, "file") => ~ IsKind(n, "dir")
  BY DEF IsKind
<1> HIDE DEF d
<1> QED BY <1>1, <1>3, <1>5, <1>6 DEF HasGroup, HasDirAcl, HasFileAcl

\* A repaired directory, and the toplevel directory, pass everything on.
LEMMA ParentPassesOn ==
    ASSUME TypeOK, AllIsRight, NEW n \in Node, CanBeCreated(n)
    PROVE  PassesOn(AttrOfParent(n), policy)
<1>1. CASE Len(n) = 1
  BY <1>1 DEF AttrOfParent, AllIsRight
<1>2. CASE Len(n) # 1
  <2>1. Len(n) \in Nat /\ Len(n) # 0
    <3>1. n # <<>> /\ n \in Seq(UNION {Range(m) : m \in Node})
      BY NodeAssumption
    <3> QED BY <3>1
  <2>2. Len(n) > 1
    <3> DEFINE len == Len(n)
    <3>1. len \in Nat /\ len # 0 /\ len # 1
      BY <1>2, <2>1
    <3> HIDE DEF len
    <3>2. len > 1
      BY <3>1
    <3> QED BY <3>2 DEF len
  <2>3. Parent(n) \in exists /\ IsKind(Parent(n), "dir")
    BY <2>2 DEF CanBeCreated
  <2>4. FileIsRight(Parent(n)) /\ attr[Parent(n)] \in Attr
    BY <2>3 DEF AllIsRight, TypeOK
  <2>5. attr[Parent(n)].sgid = TRUE
    <3>1. attr[Parent(n)].sgid \in BOOLEAN
      BY <2>4 DEF Attr
    <3>2. attr[Parent(n)].sgid
      BY <2>3, <2>4, Zenon DEF FileIsRight, HasSgid
    <3> QED BY <3>1, <3>2, Zenon
  <2>6. PassesOn(attr[Parent(n)], policy)
    BY <2>3, <2>4, <2>5, Zenon DEF FileIsRight, HasGroup, HasDirAcl, PassesOn
  <2> QED BY <1>2, <2>6, Zenon DEF AttrOfParent
<1> QED BY <1>1, <1>2

LEMMA InitRepairs == Init => IInv
<1> SUFFICES ASSUME Init PROVE IInv
  OBVIOUS
<1>1. TypeOK
  BY InitType
<1> QED BY <1>1 DEF Init, IInv, RunProgress, WorkFits, Settled

\* A pipeline that starts has listed what is not right yet.
LEMMA FindProgress ==
    ASSUME IInv, FindGroup \/ FindSgid \/ FindDirs \/ FindFiles
    PROVE  RunProgress' /\ WorkFits'
<1> DEFINE next == pc'
<1>1. /\ UNCHANGED <<exists, attr, top, policy, mine, calm>>
      /\ pc \notin {"idle", "top"}
  BY DEF FindGroup, FindSgid, FindDirs, FindFiles, Find, fs
<1>2. CASE FindGroup
  <2>1. /\ pc' = "chgrp" /\ work' = {n \in exists : attr[n].gid # "ou"}
    BY <1>2 DEF FindGroup, Find
  <2>2. \A n \in exists : HasGroup(attr[n]) \/ n \in work'
    BY <2>1 DEF HasGroup
  <2>3. \A n \in exists : FileProgress(n)'
    BY <1>1, <2>1, <2>2 DEF FileProgress, Left, SinceChmod, SinceDirs, SinceFiles
  <2> QED BY <1>1, <2>1, <2>3 DEF IInv, RunProgress, WorkFits
<1>3. CASE FindSgid
  <2>1. /\ pc = "find sgid" /\ pc' = "chmod"
        /\ work' = {n \in exists : IsKind(n, "dir") /\ ~ attr[n].sgid}
    BY <1>3 DEF FindSgid, Find
  <2>2. \A n \in exists : HasSgid(attr[n], n) \/ n \in work'
    BY <2>1, Zenon DEF HasSgid
  <2>3. ASSUME calm PROVE \A n \in exists : FileProgress(n)'
    <3>1. \A n \in exists : HasGroup(attr[n])
      BY <1>1, <2>1, <2>3 DEF IInv, RunProgress, FileProgress, Left, SinceChgrp
    <3> QED BY <1>1, <2>1, <2>2, <3>1 DEF FileProgress, Left, SinceDirs, SinceFiles
  <2>4. \A n \in work' : IsKind(n, "dir")
    BY <2>1, Zenon
  <2> QED BY <1>1, <2>1, <2>3, <2>4 DEF IInv, RunProgress, WorkFits
<1>4. CASE FindDirs
  <2>1. /\ pc = "find dirs" /\ pc' = "setfacl dirs" /\ work' = {n \in exists : IsKind(n, "dir")}
    BY <1>4 DEF FindDirs, Find
  <2>2. \A n \in exists : HasDirAcl(attr[n], n, policy) \/ n \in work'
    BY <2>1 DEF HasDirAcl
  <2>3. ASSUME calm PROVE \A n \in exists : FileProgress(n)'
    <3>1. \A n \in exists : HasGroup(attr[n]) /\ HasSgid(attr[n], n)
      BY <1>1, <2>1, <2>3 DEF IInv, RunProgress, FileProgress, Left, SinceChgrp, SinceChmod
    <3> QED BY <1>1, <2>1, <2>2, <3>1 DEF FileProgress, Left, SinceFiles
  <2> QED BY <1>1, <2>1, <2>3 DEF IInv, RunProgress, WorkFits
<1>5. CASE FindFiles
  <2>1. /\ pc = "find files" /\ pc' = "setfacl files"
        /\ work' = {n \in exists : IsKind(n, "file")}
    BY <1>5 DEF FindFiles, Find
  <2>2. \A n \in exists : HasFileAcl(attr[n], n, policy) \/ n \in work'
    BY <2>1 DEF HasFileAcl
  <2>3. ASSUME calm PROVE \A n \in exists : FileProgress(n)'
    <3>1. \A n \in exists :
             HasGroup(attr[n]) /\ HasSgid(attr[n], n) /\ HasDirAcl(attr[n], n, policy)
      BY <1>1, <2>1, <2>3
         DEF IInv, RunProgress, FileProgress, Left, SinceChgrp, SinceChmod, SinceDirs
    <3> QED BY <1>1, <2>1, <2>2, <3>1 DEF FileProgress, Left
  <2> QED BY <1>1, <2>1, <2>3 DEF IInv, RunProgress, WorkFits
<1> QED BY <1>2, <1>3, <1>4, <1>5

\* A visit makes one file right and undoes nothing of the pipelines before.
LEMMA VisitProgress ==
    ASSUME IInv, NEW m \in Node, VisitNext(m)
    PROVE  RunProgress' /\ WorkFits'
<1>1. /\ UNCHANGED <<exists, top, policy, mine, calm, pc>>
      /\ m \in work /\ work' = work \ {m}
      /\ pc \in {"chgrp", "chmod", "setfacl dirs", "setfacl files"}
      /\ \A n \in Node \ {m} : attr'[n] = attr[n]
  BY DEF VisitNext, IsNext, IInv, TypeOK
<1>2. m \in exists => attr'[m] = Visited(m)
  BY DEF VisitNext, IInv, TypeOK
<1>3. WorkFits'
  BY <1>1 DEF IInv, WorkFits
<1>4. ASSUME calm, NEW n \in exists PROVE FileProgress(n)'
  <2>1. FileProgress(n) /\ mine = policy
    BY <1>1, <1>4 DEF IInv, RunProgress
  <2>2. n \in Node /\ attr[n] \in Attr
    BY DEF IInv, TypeOK
  <2>3. CASE n # m
    BY <1>1, <2>1, <2>2, <2>3 DEF FileProgress, Left
  <2>4. CASE n = m /\ pc = "chgrp"
    <3>1. HasGroup(attr'[n])
      BY <1>2, <2>2, <2>4, ChgrpEffects DEF Visited
    <3> QED BY <1>1, <2>4, <3>1 DEF FileProgress, SinceChmod, SinceDirs, SinceFiles
  <2>5. CASE n = m /\ pc = "chmod"
    <3>1. HasGroup(attr[n])
      BY <2>1, <2>5 DEF FileProgress, Left, SinceChgrp, SinceChmod
    <3>2. HasGroup(attr'[n]) /\ HasSgid(attr'[n], n)
      <4>1. attr'[n] = [attr[n] EXCEPT !.sgid = TRUE]
        BY <1>2, <2>5 DEF Visited
      <4> QED BY <2>2, <3>1, <4>1, ChmodEffects
    <3> QED BY <1>1, <2>5, <3>2 DEF FileProgress, SinceDirs, SinceFiles
  <2>6. CASE n = m /\ pc = "setfacl dirs"
    <3>1. HasGroup(attr[n]) /\ HasSgid(attr[n], n)
      BY <2>1, <2>6 DEF FileProgress, Left, SinceChgrp, SinceChmod, SinceDirs
    <3>2. HasGroup(attr'[n]) /\ HasSgid(attr'[n], n) /\ HasDirAcl(attr'[n], n, policy)
      <4>1. attr'[n] = DirAcl(attr[n], policy)
        BY <1>2, <2>1, <2>6 DEF Visited
      <4> QED BY <2>2, <3>1, <4>1, DirAclEffects
    <3> QED BY <1>1, <2>6, <3>2 DEF FileProgress, SinceFiles
  <2>7. CASE n = m /\ pc = "setfacl files"
    <3>1. HasGroup(attr[n])
      BY <2>1, <2>7 DEF FileProgress, Left, SinceChgrp, SinceChmod, SinceDirs, SinceFiles
    <3>2. HasGroup(attr'[n]) /\ HasFileAcl(attr'[n], n, policy)
      <4>1. attr'[n] = FileAcl(attr[n], policy)
        BY <1>2, <2>1, <2>7 DEF Visited
      <4> QED BY <2>2, <3>1, <4>1, FileAclEffects
    <3>3. IsKind(n, "file") /\ ~ IsKind(n, "dir")
      BY <1>1, <2>7 DEF IInv, WorkFits, IsKind
    <3>4. HasSgid(attr'[n], n) /\ HasDirAcl(attr'[n], n, policy)
      BY <3>3 DEF HasSgid, HasDirAcl
    <3> QED BY <1>1, <3>2, <3>4 DEF FileProgress
  <2> QED BY <1>1, <2>3, <2>4, <2>5, <2>6, <2>7
<1> QED BY <1>1, <1>3, <1>4 DEF IInv, RunProgress

\* A pipeline that has visited everything without an error leaves all files right.
LEMMA DoneProgress ==
    ASSUME IInv, ChgrpDone \/ ChmodDone \/ DirsDone \/ FilesDone
    PROVE  RunProgress' /\ WorkFits' /\ (Settled => AllIsRight)'
<1>1. /\ UNCHANGED <<exists, attr, top, policy, mine, calm>>
      /\ work = {} /\ pc \in {"chgrp", "chmod", "setfacl dirs", "setfacl files"}
  BY DEF ChgrpDone, ChmodDone, DirsDone, FilesDone, PipelineDone, End, fs
<1>2. CASE broken
  <2>1. pc' = "idle" /\ last' = "failed" /\ work' = {}
    BY <1>2 DEF ChgrpDone, ChmodDone, DirsDone, FilesDone, PipelineDone, End
  <2> QED BY <2>1 DEF RunProgress, WorkFits, Settled
<1>3. CASE ~ broken /\ ~ FilesDone
  <2>1. /\ work' = {}
        /\ \/ pc = "chgrp" /\ pc' = "find sgid"
           \/ pc = "chmod" /\ pc' = "find dirs"
           \/ pc = "setfacl dirs" /\ pc' = "find files"
    BY <1>3 DEF ChgrpDone, ChmodDone, DirsDone, PipelineDone
  <2>2. ASSUME calm, NEW n \in exists PROVE FileProgress(n)'
    <3>1. FileProgress(n)
      BY <1>1, <2>2 DEF IInv, RunProgress
    <3> QED BY <1>1, <2>1, <3>1
            DEF FileProgress, Left, SinceChgrp, SinceChmod, SinceDirs, SinceFiles
  <2> QED BY <1>1, <2>1, <2>2 DEF IInv, RunProgress, WorkFits, Settled
<1>4. CASE ~ broken /\ FilesDone
  <2>1. pc = "setfacl files" /\ pc' = "idle" /\ work' = {}
    BY <1>4 DEF FilesDone, PipelineDone, End
  <2>2. ASSUME calm PROVE AllIsRight'
    <3>1. \A n \in exists : FileProgress(n)
      BY <2>1, <2>2 DEF IInv, RunProgress
    <3>2. \A n \in exists : FileIsRight(n)
      BY <1>1, <2>1, <3>1
         DEF FileProgress, FileIsRight, Left, SinceChgrp, SinceChmod, SinceDirs, SinceFiles
    <3>3. PassesOn(top, policy)
      BY <2>1, <2>2 DEF IInv, RunProgress
    <3> QED BY <1>1, <3>2, <3>3 DEF AllIsRight, FileIsRight
  <2> QED BY <1>1, <2>1, <2>2 DEF RunProgress, WorkFits, Settled
<1> QED BY <1>2, <1>3, <1>4

LEMMA RunStepRepairs ==
    ASSUME IInv, RunStep
    PROVE  RunProgress' /\ WorkFits' /\ (Settled => AllIsRight)'
<1>1. CASE EnsureTop
  <2>1. /\ pc = "top" /\ pc' = "find group" /\ top' = TopAcl(top, mine)
        /\ UNCHANGED <<exists, attr, policy, mine, calm, work>>
    BY <1>1 DEF EnsureTop
  <2>2. PassesOn(top', mine)
    BY <2>1, TopPassesOn DEF IInv, TypeOK
  <2>3. calm => mine = policy
    BY <2>1 DEF IInv, RunProgress
  <2>4. \A n \in exists' : FileProgress(n)'
    BY <2>1 DEF FileProgress, SinceChgrp, SinceChmod, SinceDirs, SinceFiles
  <2> QED BY <2>1, <2>2, <2>3, <2>4 DEF RunProgress, WorkFits, Settled
<1>2. CASE FindGroup \/ FindSgid \/ FindDirs \/ FindFiles
  <2>1. pc' # "idle"
    BY <1>2 DEF FindGroup, FindSgid, FindDirs, FindFiles, Find
  <2> QED BY <1>2, <2>1, FindProgress DEF Settled
<1>3. CASE \E n \in Node : VisitNext(n)
  <2>1. pc' # "idle"
    BY <1>3 DEF VisitNext
  <2> QED BY <1>3, <2>1, VisitProgress DEF Settled
<1>4. CASE ChgrpDone \/ ChmodDone \/ DirsDone \/ FilesDone
  BY <1>4, DoneProgress
<1> QED BY <1>1, <1>2, <1>3, <1>4 DEF RunStep

\* What users do disturbs a run; after one, only new files do not.
LEMMA UserRepairs ==
    ASSUME IInv, NEW n \in Node, Create(n) \/ MoveIn(n) \/ Change(n) \/ Delete(n)
    PROVE  RunProgress' /\ WorkFits' /\ (Settled => AllIsRight)'
<1>1. UNCHANGED <<pc, work, top, policy, mine, last>>
  BY DEF Create, MoveIn, Change, Delete, run
<1>2. WorkFits'
  BY <1>1 DEF IInv, WorkFits
<1>3. RunProgress'
  BY <1>1 DEF Create, MoveIn, Change, Delete, RunProgress
<1>4. ASSUME Settled' PROVE AllIsRight'
  <2>1. Create(n) /\ Settled
    BY <1>1, <1>4 DEF Create, MoveIn, Change, Delete, Settled
  <2>2. AllIsRight
    BY <2>1 DEF IInv
  <2>3. /\ exists' = exists \cup {n} /\ attr' = [attr EXCEPT ![n] = Inherited(n)]
        /\ CanBeCreated(n)
    BY <2>1 DEF Create
  <2>4. PassesOn(AttrOfParent(n), policy)
    BY <2>2, <2>3, ParentPassesOn DEF IInv
  <2>5. /\ HasGroup(Inherited(n)) /\ HasSgid(Inherited(n), n)
        /\ HasDirAcl(Inherited(n), n, policy) /\ HasFileAcl(Inherited(n), n, policy)
    BY <2>4, CreatedIsRight
  <2>6. attr'[n] = Inherited(n) /\ \A m \in exists \ {n} : attr'[m] = attr[m]
    BY <2>3 DEF IInv, TypeOK
  <2>7. \A m \in exists' : FileIsRight(m)'
    BY <1>1, <2>2, <2>3, <2>5, <2>6 DEF AllIsRight, FileIsRight
  <2> QED BY <1>1, <2>2, <2>7 DEF AllIsRight
<1> QED BY <1>2, <1>3, <1>4

LEMMA NextRepairs == IInv /\ [Next]_vars => IInv'
<1> SUFFICES ASSUME IInv, [Next]_vars PROVE IInv'
  OBVIOUS
<1>1. TypeOK'
  BY NextType DEF IInv
<1>2. CASE StartRun
  <2>1. /\ pc' = "top" /\ mine' = policy /\ policy' = policy
    BY <1>2 DEF StartRun
  <2>2. \A m \in exists' : FileProgress(m)'
    BY <2>1 DEF FileProgress, SinceChgrp, SinceChmod, SinceDirs, SinceFiles
  <2> QED BY <1>1, <2>1, <2>2 DEF IInv, RunProgress, WorkFits, Settled
<1>3. CASE RunStep
  BY <1>1, <1>3, RunStepRepairs DEF IInv
<1>4. CASE User
  BY <1>1, <1>4, UserRepairs DEF IInv, User
<1>5. CASE Configure \/ Kill
  <2>1. calm' = FALSE
    BY <1>5 DEF Configure, Kill
  <2>2. WorkFits'
    BY <1>5 DEF Configure, Kill, End, run, IInv, WorkFits
  <2> QED BY <1>1, <2>1, <2>2 DEF IInv, RunProgress, Settled
<1>6. CASE UNCHANGED vars
  <2>1. UNCHANGED <<exists, attr, top, policy, mine, pc, work, last, calm>>
    BY <1>6 DEF vars, fs, run
  <2>2. RunProgress' /\ WorkFits'
    BY <2>1 DEF IInv, RunProgress, WorkFits, FileProgress, Left
  <2>3. (Settled => AllIsRight)'
    BY <2>1 DEF IInv, Settled, AllIsRight, FileIsRight
  <2> QED BY <1>1, <2>2, <2>3 DEF IInv
<1> QED BY <1>2, <1>3, <1>4, <1>5, <1>6 DEF Next

\* ensure*SubdirSh with findXargsIncSh and findXargsDirsSh: a run that nothing disturbs
\* leaves every file below the toplevel directory as its policy says, and what users create
\* after it gets to be so by what it inherits.
THEOREM RecursionRepairsCorrect == Spec => []RecursionRepairs
<1>1. IInv => RecursionRepairs
  <2> SUFFICES ASSUME IInv, Settled, NEW n \in exists PROVE IsRepaired(n)
    BY DEF RecursionRepairs
  <2>1. FileIsRight(n)
    BY DEF IInv, AllIsRight
  <2> QED BY <2>1, Zenon DEF FileIsRight, HasGroup, HasSgid, HasDirAcl, HasFileAcl, IsRepaired
<1> QED BY <1>1, InitRepairs, NextRepairs, PTL DEF Spec
=============================================================================
