------------------------- MODULE OrganizationProofs -------------------------
(***************************************************************************)
(* How the organization comes about is right for every group database and  *)
(* every configuration: DedupGroups() finds a conflict if and only if      *)
(* there is one, and loses nothing otherwise; no service is left out; and, *)
(* for configurations that say so much, the filter decides as it is        *)
(* written and the sharing step finds the groups that apply has set.       *)
(***************************************************************************)
EXTENDS Organization, FiniteSetTheorems, SequenceTheorems, WellFoundedInduction, TLAPS

\* Every list has groups of the databases.
LEMMA MappedLines ==
    ASSUME lines \in Databases
    PROVE  /\ Mapped(lines, GroupOf) \in Seq(AllGroups)
           /\ Range(Mapped(lines, GroupOf)) = {GroupOf(line) : line \in Range(lines)}
<1>1. lines \in Seq([name : Name, gid : Nat, wellFormed : BOOLEAN])
  BY DatabasesAssumption
<1>2. Mapped(lines, GroupOf) = [i \in 1 .. Len(lines) |-> GroupOf(lines[i])] /\ Len(lines) \in Nat
  BY <1>1 DEF Mapped
<1>3. \A i \in 1 .. Len(lines) : GroupOf(lines[i]) \in AllGroups
  BY <1>1 DEF AllGroups
<1>4. Range(Mapped(lines, GroupOf)) = {GroupOf(line) : line \in Range(lines)}
  BY <1>1, <1>2 DEF Range
<1>5. QED
  BY <1>2, <1>3, <1>4

\* What Append() adds, as a set and to the list.
LEMMA Appended ==
    ASSUME NEW S, NEW s \in Seq(S), NEW x \in S
    PROVE  /\ Append(s, x) \in Seq(S)
           /\ Range(Append(s, x)) = Range(s) \cup {x}
           /\ Len(Append(s, x)) = Len(s) + 1
           /\ \A i \in 1 .. Len(s) : Append(s, x)[i] = s[i]
           /\ Append(s, x)[Len(s) + 1] = x
<1>1. /\ Append(s, x) \in Seq(S) /\ Len(Append(s, x)) = Len(s) + 1 /\ Len(s) \in Nat
      /\ \A i \in 1 .. Len(s) : Append(s, x)[i] = s[i]
      /\ Append(s, x)[Len(s) + 1] = x
  OBVIOUS
<1>2. DOMAIN s = 1 .. Len(s) /\ DOMAIN Append(s, x) = 1 .. Len(s) + 1
  BY <1>1
<1>3. Range(Append(s, x)) \subseteq Range(s) \cup {x}
  <2>1. SUFFICES ASSUME NEW i \in 1 .. Len(s) + 1 PROVE Append(s, x)[i] \in Range(s) \cup {x}
    BY <1>2 DEF Range
  <2>2. CASE i = Len(s) + 1
    BY <1>1, <2>2
  <2>3. CASE i \in 1 .. Len(s)
    BY <1>1, <1>2, <2>3 DEF Range
  <2>4. QED
    BY <1>1, <2>2, <2>3
<1>4. Range(s) \cup {x} \subseteq Range(Append(s, x))
  <2>1. \A i \in 1 .. Len(s) : s[i] = Append(s, x)[i] /\ i \in 1 .. Len(s) + 1
    BY <1>1
  <2>2. x = Append(s, x)[Len(s) + 1] /\ Len(s) + 1 \in 1 .. Len(s) + 1
    BY <1>1
  <2>3. QED
    BY <1>2, <2>1, <2>2 DEF Range
<1>5. QED
  BY <1>1, <1>3, <1>4

-----------------------------------------------------------------------------
\* The variables keep their types.
THEOREM TypeCorrect == Spec => []TypeOK
<1>1. Init => TypeOK
  BY DEF Init, TypeOK
<1>2. TypeOK /\ [Next]_vars => TypeOK'
  <2> SUFFICES ASSUME TypeOK, [Next]_vars PROVE TypeOK'
    OBVIOUS
  <2> USE DEF TypeOK, Fatal, inputs, dedup
  <2>1. CASE LoadConfig
    BY <2>1 DEF LoadConfig
  <2>2. CASE GetGroups
    BY <2>2, MappedLines DEF GetGroups
  <2>3. CASE SelectGroup
    <3>1. gs[next] \in AllGroups /\ next + 1 \in Nat
      BY <2>3 DEF SelectGroup
    <3>2. QED
      BY <2>3, <3>1, Appended DEF SelectGroup
  <2>4. CASE SelectDone
    BY <2>4 DEF SelectDone
  <2>5. CASE DedupGroup
    <3>1. gs[next] \in AllGroups /\ next + 1 \in Nat
      BY <2>5 DEF DedupGroup
    <3>2. CASE SeenGroups(gs[next]) = {}
      <4>1. /\ res' = Append(res, gs[next]) /\ next' = next + 1
            /\ UNCHANGED <<pc, command, file, lines, gs>>
        BY <2>5, <3>2 DEF DedupGroup
      <4>2. res' \in Seq(AllGroups)
        BY <3>1, <4>1, Appended
      <4> QED BY <3>1, <4>1, <4>2
    <3>3. CASE SeenGroups(gs[next]) # {}
      BY <2>5, <3>1, <3>3 DEF DedupGroup
    <3>4. QED
      BY <3>2, <3>3
  <2>6. CASE DedupDone
    BY <2>6 DEF DedupDone
  <2>7. CASE SortGroups
    BY <2>7 DEF SortGroups
  <2>8. CASE New
    BY <2>8 DEF New
  <2>9. CASE CompileFilter \/ Describe
    BY <2>9 DEF CompileFilter, Describe
  <2>10. CASE UNCHANGED vars
    BY <2>10 DEF vars
  <2>11. QED
    BY <2>1, <2>2, <2>3, <2>4, <2>5, <2>6, <2>7, <2>8, <2>9, <2>10 DEF Next
<1>3. QED
  BY <1>1, <1>2, PTL DEF Spec

-----------------------------------------------------------------------------
\* The groups that a loop has seen, and what it knows of those it has kept.
Listed == {GroupOf(line) : line \in Range(lines)}
Upto == {gs[i] : i \in 1 .. next - 1}
Distinct(s) == \A i, j \in DOMAIN s : s[i] = s[j] => i = j

KeptByName == /\ DOMAIN byName = {g.name : g \in Range(res)}
              /\ \A g \in Range(res) : byName[g.name] = g
KeptByGid == /\ DOMAIN byGid = {g.gid : g \in Range(res)}
             /\ \A g \in Range(res) : byGid[g.gid] = g

\* DedupIsRight says what holds when a loop has ended.  These are the invariants of the
\* loops: the maps hold the groups kept so far, so that a look-up finds every conflict.
LoopInv ==
    /\ pc \in {"load", "getent"} => next = 1 /\ res = <<>>
    /\ pc \in {"load", "getent", "select"} => byName = None /\ byGid = None
    /\ pc = "select" =>
          /\ Range(gs) = Listed /\ next <= Len(gs) + 1
          /\ Range(res) = {g \in Upto : IsSelected(g)}
    /\ pc = "dedup" =>
          /\ Range(gs) = Selected /\ next <= Len(gs) + 1
          /\ Range(res) = Upto /\ Distinct(res)
          /\ KeptByName /\ KeptByGid

IInv == TypeOK /\ LoopInv /\ DedupIsRight

\* At the end of a loop it has seen everything, at its start nothing; a step adds one.
LEMMA UptoFacts ==
    ASSUME NEW S, gs \in Seq(S), next \in Nat \ {0}, next <= Len(gs) + 1
    PROVE  /\ next > Len(gs) => Upto = Range(gs)
           /\ next = 1 => Upto = {}
           /\ next <= Len(gs) /\ next' = next + 1 /\ gs' = gs => Upto' = Upto \cup {gs[next]}
<1>1. DOMAIN gs = 1 .. Len(gs) /\ Len(gs) \in Nat
  OBVIOUS
<1>2. next > Len(gs) => Upto = Range(gs)
  BY <1>1 DEF Upto, Range
<1>3. next = 1 => Upto = {}
  BY DEF Upto
<1>4. ASSUME next <= Len(gs), next' = next + 1, gs' = gs
      PROVE  Upto' = Upto \cup {gs[next]}
  <2>1. 1 .. next' - 1 = (1 .. next - 1) \cup {next}
    BY <1>1, <1>4
  <2>2. QED
    BY <1>4, <2>1 DEF Upto
<1>5. QED
  BY <1>2, <1>3, <1>4

\* The look-up in the two maps finds a group that has been kept, or one in conflict with it.
LEMMA SeenFacts ==
    ASSUME KeptByName, KeptByGid, NEW g
    PROVE  /\ SeenGroups(g) = {} => \A h \in Range(res) : h.name # g.name /\ h.gid # g.gid
           /\ SeenGroups(g) \subseteq Range(res)
           /\ \A h \in SeenGroups(g) : h.name = g.name \/ h.gid = g.gid
<1>1. \A h \in Range(res) : h.name = g.name => Seen(byName, g.name) = {h}
  BY DEF KeptByName, Seen
<1>2. \A h \in Range(res) : h.gid = g.gid => Seen(byGid, g.gid) = {h}
  BY DEF KeptByGid, Seen
<1>3. \A h \in Seen(byName, g.name) : h \in Range(res) /\ h.name = g.name
  BY DEF KeptByName, Seen
<1>4. \A h \in Seen(byGid, g.gid) : h \in Range(res) /\ h.gid = g.gid
  BY DEF KeptByGid, Seen
<1>5. QED
  BY <1>1, <1>2, <1>3, <1>4 DEF SeenGroups

-----------------------------------------------------------------------------
\* The loop over the lines keeps what is selected.
LEMMA SelectStep ==
    ASSUME IInv, SelectGroup
    PROVE  LoopInv' /\ DedupIsRight'
<1> USE DEF inputs
<1>1. /\ gs \in Seq(AllGroups) /\ res \in Seq(AllGroups) /\ next \in Nat \ {0}
      /\ gs[next] \in AllGroups /\ Len(gs) \in Nat /\ next <= Len(gs)
  BY DEF IInv, TypeOK, SelectGroup
<1>2. Upto' = Upto \cup {gs[next]}
  BY <1>1, UptoFacts DEF SelectGroup
<1>3. Range(res) = {g \in Upto : IsSelected(g)} /\ Range(gs) = Listed
  BY DEF IInv, LoopInv, SelectGroup
<1>4. \A g : IsSelected(g)' <=> IsSelected(g)
  BY DEF SelectGroup, IsSelected, OrgUnitGroupName, ServiceGroupName
<1>5. Range(res') = {g \in Upto' : IsSelected(g)}
  <2>1. CASE IsSelected(gs[next])
    <3>1. Range(res') = Range(res) \cup {gs[next]}
      BY <1>1, <2>1, Appended DEF SelectGroup
    <3>2. QED
      BY <1>2, <1>3, <2>1, <3>1
  <2>2. CASE ~ IsSelected(gs[next])
    BY <1>2, <1>3, <2>2 DEF SelectGroup
  <2>3. QED
    BY <2>1, <2>2
<1>6. Range(gs') = Listed' /\ next' <= Len(gs') + 1
  BY <1>1, <1>3 DEF SelectGroup, Listed
<1>7. {g \in Upto' : IsSelected(g)'} = {g \in Upto' : IsSelected(g)}
  BY <1>4
<1>8. QED
  BY <1>5, <1>6, <1>7 DEF IInv, LoopInv, SelectGroup, DedupIsRight, Range

\* Then the next one starts with nothing kept.
LEMMA SelectDoneStep ==
    ASSUME IInv, SelectDone
    PROVE  LoopInv' /\ DedupIsRight'
<1> USE DEF inputs
<1>1. gs \in Seq(AllGroups) /\ res \in Seq(AllGroups) /\ next \in Nat \ {0} /\ next > Len(gs)
      /\ next <= Len(gs) + 1
  BY DEF IInv, TypeOK, LoopInv, SelectDone
<1>2. Range(gs) = Listed /\ Upto = Range(gs) /\ Range(res) = {g \in Upto : IsSelected(g)}
  BY <1>1, UptoFacts DEF IInv, LoopInv, SelectDone
<1>3. Range(res) = Selected
  BY <1>2 DEF Selected, Listed
<1>4. Selected' = Selected
  BY DEF Selected, IsSelected, OrgUnitGroupName, ServiceGroupName, SelectDone
<1>5. Range(gs') = Selected'
  BY <1>3, <1>4 DEF SelectDone
<1>6. next' = 1 /\ res' = <<>> /\ gs' = res /\ Len(res) \in Nat
  BY <1>1 DEF SelectDone
<1>7. Upto' = {} /\ Range(res') = {} /\ Distinct(res')
  BY <1>6 DEF Upto, Range, Distinct
<1>8. byName' = None /\ byGid' = None
  BY DEF IInv, LoopInv, SelectDone
<1>9. KeptByName' /\ KeptByGid'
  BY <1>7, <1>8 DEF KeptByName, KeptByGid, None
<1>10. QED
  BY <1>5, <1>6, <1>7, <1>9 DEF SelectDone, LoopInv, DedupIsRight

\* DedupGroups(): a new group is kept, in the list and in both maps.
LEMMA DedupStep ==
    ASSUME IInv, DedupGroup
    PROVE  LoopInv' /\ DedupIsRight'
<1> USE DEF inputs
<1> DEFINE g == gs[next]
<1>1. /\ gs \in Seq(AllGroups) /\ res \in Seq(AllGroups) /\ next \in Nat \ {0}
      /\ g \in AllGroups /\ Len(gs) \in Nat /\ next <= Len(gs) /\ g \in Range(gs)
  BY DEF IInv, TypeOK, DedupGroup, Range
<1>2. next' = next + 1 => Upto' = Upto \cup {g}
  BY <1>1, UptoFacts DEF DedupGroup
<1>3. /\ Range(gs) = Selected /\ Range(res) = Upto /\ Distinct(res)
      /\ KeptByName /\ KeptByGid
  BY DEF IInv, LoopInv, DedupGroup
<1>4. Selected' = Selected /\ Range(gs') = Range(gs) /\ Len(gs') = Len(gs)
  BY DEF Selected, IsSelected, OrgUnitGroupName, ServiceGroupName, DedupGroup
<1>5. CASE SeenGroups(g) = {}
  <2>1. \A h \in Range(res) : h.name # g.name /\ h.gid # g.gid
    BY <1>3, <1>5, SeenFacts
  <2>2. /\ byName' = Put(byName, g.name, g) /\ byGid' = Put(byGid, g.gid, g)
        /\ res' = Append(res, g) /\ next' = next + 1 /\ pc' = "dedup"
    BY <1>5 DEF DedupGroup
  <2>3. Range(res') = Range(res) \cup {g}
    BY <1>1, <2>2, Appended
  <2>4. KeptByName'
    <3>1. /\ DOMAIN byName' = DOMAIN byName \cup {g.name} /\ byName'[g.name] = g
          /\ \A x \in DOMAIN byName : x # g.name => byName'[x] = byName[x]
      BY <2>2 DEF Put
    <3>2. DOMAIN byName' = {h.name : h \in Range(res')}
      BY <1>3, <2>3, <3>1 DEF KeptByName
    <3>3. \A h \in Range(res) : byName'[h.name] = h
      BY <1>3, <2>1, <3>1 DEF KeptByName
    <3>4. QED
      BY <2>3, <3>1, <3>2, <3>3 DEF KeptByName
  <2>5. KeptByGid'
    <3>1. /\ DOMAIN byGid' = DOMAIN byGid \cup {g.gid} /\ byGid'[g.gid] = g
          /\ \A x \in DOMAIN byGid : x # g.gid => byGid'[x] = byGid[x]
      BY <2>2 DEF Put
    <3>2. DOMAIN byGid' = {h.gid : h \in Range(res')}
      BY <1>3, <2>3, <3>1 DEF KeptByGid
    <3>3. \A h \in Range(res) : byGid'[h.gid] = h
      BY <1>3, <2>1, <3>1 DEF KeptByGid
    <3>4. QED
      BY <2>3, <3>1, <3>2, <3>3 DEF KeptByGid
  <2>6. Distinct(res')
    <3>1. g \notin Range(res)
      BY <2>1
    <3>2. /\ Len(res) \in Nat /\ DOMAIN res = 1 .. Len(res) /\ DOMAIN res' = 1 .. Len(res) + 1
          /\ \A i \in 1 .. Len(res) : res'[i] = res[i] /\ res[i] # g
          /\ res'[Len(res) + 1] = g
      BY <1>1, <2>2, <3>1, Appended DEF Range
    <3>3. SUFFICES ASSUME NEW i \in DOMAIN res', NEW j \in DOMAIN res', res'[i] = res'[j] PROVE i = j
      BY DEF Distinct
    <3>4. CASE i \in 1 .. Len(res) /\ j \in 1 .. Len(res)
      BY <1>3, <3>2, <3>3, <3>4 DEF Distinct
    <3>5. CASE ~ (i \in 1 .. Len(res) /\ j \in 1 .. Len(res))
      BY <3>2, <3>3, <3>5
    <3>6. QED
      BY <3>4, <3>5
  <2>7. next' <= Len(gs') + 1 /\ Range(res') = Upto'
    BY <1>1, <1>2, <1>3, <1>4, <2>2, <2>3
  <2>8. QED
    BY <1>3, <1>4, <2>2, <2>4, <2>5, <2>6, <2>7 DEF LoopInv, DedupIsRight
<1>6. CASE SeenGroups(g) = {g}
  <2>1. g \in Range(res)
    BY <1>3, <1>6, SeenFacts
  <2>2. next' = next + 1 /\ pc' = "dedup" /\ UNCHANGED <<res, byName, byGid>>
    BY <1>6 DEF DedupGroup
  <2>3. KeptByName' /\ KeptByGid' /\ Distinct(res') /\ Range(res') = Range(res)
    BY <1>3, <2>2 DEF KeptByName, KeptByGid, Distinct
  <2>4. next' <= Len(gs') + 1 /\ Range(res') = Upto'
    <3>1. next + 1 <= Len(gs) + 1
      BY <1>1
    <3>2. Upto \cup {g} = Upto
      BY <1>3, <2>1
    <3>3. QED
      BY <1>2, <1>3, <1>4, <2>2, <2>3, <3>1, <3>2
  <2>5. QED
    BY <1>3, <1>4, <2>2, <2>3, <2>4 DEF LoopInv, DedupIsRight
<1>7. CASE SeenGroups(g) # {} /\ SeenGroups(g) # {g}
  <2>1. PICK h \in SeenGroups(g) : h # g
    BY <1>7
  <2>2. h \in Upto /\ Conflict(h, g)
    BY <1>3, <2>1, SeenFacts DEF Conflict
  <2>3. h \in Range(gs)
    <3>1. next - 1 <= Len(gs) /\ DOMAIN gs = 1 .. Len(gs)
      BY <1>1
    <3>2. QED
      BY <1>1, <2>2, <3>1 DEF Upto, Range
  <2>4. pc' = "conflict"
    BY <1>7 DEF DedupGroup
  <2>5. QED
    BY <1>1, <1>3, <1>4, <2>2, <2>3, <2>4 DEF LoopInv, DedupIsRight
<1>8. QED
  BY <1>5, <1>6, <1>7

\* All groups that are selected have been seen, and no two of them are in conflict.
LEMMA DedupDoneStep ==
    ASSUME IInv, DedupDone
    PROVE  LoopInv' /\ DedupIsRight'
<1> USE DEF inputs
<1>1. gs \in Seq(AllGroups) /\ next \in Nat \ {0} /\ next > Len(gs) /\ next <= Len(gs) + 1
  BY DEF IInv, TypeOK, LoopInv, DedupDone
<1>2. /\ Range(gs) = Selected /\ Upto = Range(gs) /\ Range(res) = Upto /\ Distinct(res)
      /\ KeptByName /\ KeptByGid
  BY <1>1, UptoFacts DEF IInv, LoopInv, DedupDone
<1>3. \A h, k \in Range(res) : ~ Conflict(h, k)
  BY <1>2 DEF KeptByName, KeptByGid, Conflict
<1>4. Selected' = Selected
  BY DEF Selected, IsSelected, OrgUnitGroupName, ServiceGroupName, DedupDone
<1>5. QED
  BY <1>2, <1>3, <1>4 DEF DedupDone, LoopInv, DedupIsRight, Distinct

\* The invariant of the loops.
LEMMA LoopsCorrect == Spec => []IInv
<1>1. Init => LoopInv /\ DedupIsRight
  BY DEF Init, LoopInv, DedupIsRight
<1>2. IInv /\ [Next]_vars => LoopInv' /\ DedupIsRight'
  <2> SUFFICES ASSUME IInv, [Next]_vars PROVE LoopInv' /\ DedupIsRight'
    OBVIOUS
  <2> USE DEF Fatal, inputs, dedup
  <2>1. CASE LoadConfig
    BY <2>1 DEF LoadConfig, IInv, LoopInv, DedupIsRight
  <2>2. CASE GetGroups
    <3>1. CASE pc' = "select"
      <4>1. gs' \in Seq(AllGroups) /\ Range(gs') = Listed
        BY <2>2, <3>1, MappedLines DEF GetGroups, IInv, TypeOK, Listed
      <4>2. next' = 1 /\ res' = <<>> /\ byName' = None /\ byGid' = None
        BY <2>2, <3>1 DEF GetGroups, IInv, LoopInv
      <4>3. Upto' = {} /\ Range(res') = {} /\ Len(gs') \in Nat
        BY <4>1, <4>2 DEF Upto, Range
      <4>4. Listed' = Listed
        BY <2>2 DEF GetGroups, Listed
      <4>5. QED
        BY <3>1, <4>1, <4>2, <4>3, <4>4 DEF LoopInv, DedupIsRight
    <3>2. CASE pc' = "fatal"
      BY <3>2 DEF LoopInv, DedupIsRight
    <3>3. QED
      BY <2>2, <3>1, <3>2 DEF GetGroups
  <2>3. CASE SelectGroup
    BY <2>3, SelectStep
  <2>4. CASE SelectDone
    BY <2>4, SelectDoneStep
  <2>5. CASE DedupGroup
    BY <2>5, DedupStep
  <2>6. CASE DedupDone
    BY <2>6, DedupDoneStep
  <2>7. CASE SortGroups
    BY <2>7 DEF SortGroups, LoopInv, DedupIsRight
  <2>8. CASE New
    BY <2>8 DEF New, LoopInv, DedupIsRight
  <2>9. CASE CompileFilter \/ Describe
    BY <2>9 DEF CompileFilter, Describe, LoopInv, DedupIsRight
  <2>10. CASE UNCHANGED vars
    <3>1. Selected' = Selected /\ Listed' = Listed /\ Upto' = Upto
      BY <2>10 DEF vars, Selected, IsSelected, OrgUnitGroupName, ServiceGroupName, Listed, Upto
    <3>2. \A g : IsSelected(g)' <=> IsSelected(g)
      BY <2>10 DEF vars, IsSelected, OrgUnitGroupName, ServiceGroupName
    <3>3. DedupIsRight'
      BY <2>10, <3>1 DEF vars, IInv, DedupIsRight
    <3>4. KeptByName' = KeptByName /\ KeptByGid' = KeptByGid
      BY <2>10 DEF vars, KeptByName, KeptByGid
    <3>5. LoopInv'
      BY <2>10, <3>1, <3>2, <3>4 DEF vars, IInv, LoopInv
    <3>6. QED
      BY <3>3, <3>5
  <2>11. QED
    BY <2>1, <2>2, <2>3, <2>4, <2>5, <2>6, <2>7, <2>8, <2>9, <2>10 DEF Next
<1>3. QED
  BY <1>1, <1>2, TypeCorrect, PTL DEF Spec, IInv

\* DedupGroups() is right, for all databases and configurations.
THEOREM DedupCorrect == Spec => []DedupIsRight
<1>1. IInv => DedupIsRight
  BY DEF IInv
<1> QED BY <1>1, LoopsCorrect, PTL

-----------------------------------------------------------------------------
\* Loops.

\* Induction on numbers, for sets of them.
LEMMA SetInduction ==
    ASSUME NEW T \in SUBSET Nat, 0 \in T, \A n \in T : n + 1 \in T
    PROVE  T = Nat
<1> SUFFICES ASSUME Nat \ T # {} PROVE FALSE
  OBVIOUS
<1> DEFINE U == {0 .. n : n \in Nat \ T}
<1>1. U \subseteq FiniteSubsetsOf(Nat)
  <2>1. ASSUME NEW n \in Nat
        PROVE  0 .. n \in FiniteSubsetsOf(Nat)
    <3>1. 0 \in Int /\ n \in Int /\ 0 .. n \subseteq Nat
      OBVIOUS
    <3>2. IsFiniteSet(0 .. n)
      BY <3>1, FS_Interval
    <3> QED BY <3>1, <3>2 DEF FiniteSubsetsOf
  <2> QED BY <2>1
<1>2. U # {}
  OBVIOUS
<1>3. PICK x \in U : \A y \in U : ~ (<<y, x>> \in StrictSubsetOrdering(Nat))
  <2>1. IsWellFoundedOn(StrictSubsetOrdering(Nat), FiniteSubsetsOf(Nat))
    BY FS_StrictSubsetOrderingWellFounded
  <2> HIDE DEF U
  <2> QED BY <1>1, <1>2, <2>1, WFMin
<1>4. PICK n \in Nat \ T : x = 0 .. n
  OBVIOUS
<1>5. n # 0 /\ n - 1 \in Nat
  OBVIOUS
<1>6. n - 1 \notin T
  BY <1>5
<1>7. 0 .. (n - 1) \in U /\ 0 .. (n - 1) \subseteq 0 .. n /\ n \in 0 .. n /\ n \notin 0 .. (n - 1)
  BY <1>5, <1>6
<1>8. <<0 .. (n - 1), 0 .. n>> \in StrictSubsetOrdering(Nat)
  <2> DEFINE a == 0 .. (n - 1)
             b == 0 .. n
  <2>1. a \in SUBSET Nat /\ b \in SUBSET Nat
    BY <1>5
  <2>2. a \subseteq b /\ a # b
    BY <1>7
  <2> HIDE DEF a, b
  <2>3. <<a, b>> \in StrictSubsetOrdering(Nat)
    BY <2>1, <2>2 DEF StrictSubsetOrdering
  <2> QED BY <2>3 DEF a, b
<1> QED BY <1>3, <1>4, <1>7, <1>8

\* What holds at first and after each step holds at last.
LEMMA LoopInduction ==
    ASSUME NEW n \in Nat, NEW T, 0 \in T, \A k \in 0 .. n - 1 : k \in T => k + 1 \in T
    PROVE  n \in T
<1> DEFINE U == {k \in Nat : k \in 0 .. n => k \in T}
<1>1. 0 \in U
  OBVIOUS
<1>2. \A k \in U : k + 1 \in U
  OBVIOUS
<1>3. U = Nat
  <2> HIDE DEF U
  <2>1. U \in SUBSET Nat
    BY DEF U
  <2> QED BY <1>1, <1>2, <2>1, SetInduction
<1> QED BY <1>3

-----------------------------------------------------------------------------
\* Lists.

\* A concatenation has the elements of both lists, and repeats none if they have none in common.
LEMMA ConcatenationFacts ==
    ASSUME NEW S, NEW s \in Seq(S), NEW t \in Seq(S)
    PROVE  /\ s \o t \in Seq(S) /\ Range(s \o t) = Range(s) \cup Range(t)
           /\ Distinct(s) /\ Distinct(t) /\ Range(s) \cap Range(t) = {} => Distinct(s \o t)
<1>1. /\ s \o t \in Seq(S) /\ DOMAIN s = 1 .. Len(s) /\ DOMAIN t = 1 .. Len(t)
      /\ DOMAIN (s \o t) = 1 .. Len(s) + Len(t) /\ Len(s) \in Nat /\ Len(t) \in Nat
      /\ \A k \in 1 .. Len(s) : (s \o t)[k] = s[k]
      /\ \A k \in 1 .. Len(t) : (s \o t)[Len(s) + k] = t[k]
  OBVIOUS
<1> DEFINE u == s \o t
<1> HIDE DEF u
<1>2. ASSUME NEW k \in DOMAIN u
      PROVE  \/ k \in DOMAIN s /\ u[k] = s[k]
             \/ k - Len(s) \in DOMAIN t /\ u[k] = t[k - Len(s)]
  <2>1. CASE k \in 1 .. Len(s)
    BY <1>1, <2>1 DEF u
  <2>2. CASE k \notin 1 .. Len(s)
    <3>1. k - Len(s) \in 1 .. Len(t) /\ k = Len(s) + (k - Len(s))
      BY <1>1, <2>2 DEF u
    <3> QED BY <1>1, <3>1 DEF u
  <2> QED BY <2>1, <2>2
<1>3. ASSUME NEW k \in DOMAIN s PROVE s[k] \in Range(u)
  <2>1. k \in DOMAIN u /\ u[k] = s[k]
    BY <1>1 DEF u
  <2> QED BY <2>1 DEF Range
<1>4. ASSUME NEW k \in DOMAIN t PROVE t[k] \in Range(u)
  <2>1. Len(s) + k \in DOMAIN u /\ u[Len(s) + k] = t[k]
    BY <1>1 DEF u
  <2> QED BY <2>1 DEF Range
<1>5. Range(u) = Range(s) \cup Range(t)
  BY <1>2, <1>3, <1>4 DEF Range
<1>6. ASSUME Distinct(s), Distinct(t), Range(s) \cap Range(t) = {} PROVE Distinct(u)
  <2>1. SUFFICES ASSUME NEW i \in DOMAIN u, NEW j \in DOMAIN u, u[i] = u[j] PROVE i = j
    BY DEF Distinct
  <2>2. i \in Int /\ j \in Int
    BY <1>1 DEF u
  <2>3. CASE i \in DOMAIN s /\ u[i] = s[i] /\ j \in DOMAIN s /\ u[j] = s[j]
    BY <1>6, <2>1, <2>3 DEF Distinct
  <2>4. CASE i - Len(s) \in DOMAIN t /\ u[i] = t[i - Len(s)] /\ j - Len(s) \in DOMAIN t /\ u[j] = t[j - Len(s)]
    <3>1. i - Len(s) = j - Len(s)
      BY <1>6, <2>1, <2>4 DEF Distinct
    <3> QED BY <1>1, <2>2, <3>1
  <2>5. \A k \in DOMAIN s, l \in DOMAIN t : s[k] # t[l]
    BY <1>6 DEF Range
  <2> QED BY <1>2, <2>1, <2>3, <2>4, <2>5
<1> QED BY <1>1, <1>5, <1>6 DEF u

\* The elements of s that are in P.
Parts(s, P) == [i \in DOMAIN s |-> IF s[i] \in P THEN <<s[i]>> ELSE <<>>]

\* The loops that take what passes a test lose nothing, add nothing and repeat nothing.
LEMMA PassingFacts ==
    ASSUME NEW S, NEW s \in Seq(S), NEW P, NEW ss, ss = Parts(s, P)
    PROVE  /\ FlattenSeq(ss) \in Seq(S) /\ Range(FlattenSeq(ss)) = Range(s) \cap P
           /\ Distinct(s) => Distinct(FlattenSeq(ss))
<1> DEFINE n == Len(ss)
           IsFlat(f, m) == f = [i \in 1 .. m |-> IF i = 1 THEN ss[i] ELSE f[i - 1] \o ss[i]]
           f == CHOOSE f : IsFlat(f, n)
<1>1. /\ n = Len(s) /\ n \in Nat /\ DOMAIN ss = 1 .. n /\ DOMAIN s = 1 .. n
      /\ \A i \in 1 .. n : s[i] \in S /\ ss[i] = IF s[i] \in P THEN <<s[i]>> ELSE <<>>
  <2>1. DOMAIN s = 1 .. Len(s) /\ Len(s) \in Nat /\ \A i \in DOMAIN s : s[i] \in S
    OBVIOUS
  <2>2. ss = [i \in 1 .. Len(s) |-> IF s[i] \in P THEN <<s[i]>> ELSE <<>>]
    BY <2>1 DEF Parts
  <2>3. Len(ss) = Len(s)
    BY <2>1, <2>2
  <2> QED BY <2>1, <2>2, <2>3
<1> HIDE DEF n
<1>2. ASSUME NEW i \in 1 .. n
      PROVE  ss[i] \in Seq(S) /\ Range(ss[i]) = {s[i]} \cap P /\ Distinct(ss[i])
  <2>1. CASE s[i] \in P
    <3>1. ss[i] = <<s[i]>> /\ s[i] \in S
      BY <1>1, <2>1
    <3>2. <<s[i]>> \in Seq(S) /\ DOMAIN <<s[i]>> = {1} /\ <<s[i]>>[1] = s[i]
      BY <3>1
    <3> QED BY <2>1, <3>1, <3>2 DEF Range, Distinct
  <2>2. CASE s[i] \notin P
    <3>1. ss[i] = <<>>
      BY <1>1, <2>2
    <3>2. <<>> \in Seq(S) /\ DOMAIN <<>> = {}
      OBVIOUS
    <3> QED BY <2>2, <3>1, <3>2 DEF Range, Distinct
  <2> QED BY <2>1, <2>2
<1>3. CASE n = 0
  <2>1. FlattenSeq(ss) = ss
    BY <1>3 DEF FlattenSeq, n
  <2>2. DOMAIN ss = {} /\ DOMAIN s = {}
    BY <1>1, <1>3
  <2>3. ss = <<>>
    BY <2>2 DEF Parts
  <2> QED BY <2>1, <2>2, <2>3 DEF Range, Distinct
<1>4. CASE n # 0
  <2>1. FlattenSeq(ss) = f[n]
    BY <1>4 DEF FlattenSeq, n
  <2>2. IsFlat(f, n)
    <3> DEFINE T == {m \in 0 .. n : \E g : IsFlat(g, m)}
    <3>1. 0 \in T
      <4> DEFINE g == [i \in {} |-> {}]
      <4>1. g = [i \in 1 .. 0 |-> IF i = 1 THEN ss[i] ELSE g[i - 1] \o ss[i]]
        <5>1. 1 .. 0 = {}
          OBVIOUS
        <5> QED BY <5>1
      <4>2. IsFlat(g, 0) /\ 0 \in 0 .. n
        BY <1>1, <4>1
      <4> HIDE DEF IsFlat, g
      <4> QED BY <4>2
    <3>2. ASSUME NEW m \in 0 .. n - 1, m \in T PROVE m + 1 \in T
      <4>1. PICK g : IsFlat(g, m)
        BY <3>2
      <4>2. m \in Nat /\ m + 1 \in 0 .. n
        <5> HIDE DEF T, IsFlat
        <5> QED BY <1>1
      <4> DEFINE F(i) == IF i = 1 THEN ss[i] ELSE g[i - 1] \o ss[i]
                 h == [i \in 1 .. m + 1 |-> F(i)]
      <4>3. \A i \in 1 .. m : g[i] = F(i)
        BY <4>1
      <4>4. \A i \in 1 .. m + 1 : i = 1 \/ i - 1 \in 1 .. m
        BY <4>2
      <4>5. \A i \in 1 .. m : h[i] = g[i]
        BY <4>2, <4>3
      <4>6. \A i \in 1 .. m + 1 : F(i) = IF i = 1 THEN ss[i] ELSE h[i - 1] \o ss[i]
        BY <4>4, <4>5
      <4>7. h = [i \in 1 .. m + 1 |-> IF i = 1 THEN ss[i] ELSE h[i - 1] \o ss[i]]
        BY <4>6
      <4> HIDE DEF h
      <4>8. IsFlat(h, m + 1)
        BY <4>7
      <4> HIDE DEF IsFlat
      <4> QED BY <4>2, <4>8
    <3>3. n \in T
      <4> HIDE DEF T
      <4> QED BY <1>1, <3>1, <3>2, LoopInduction
    <3> HIDE DEF IsFlat
    <3> QED BY <3>3
  <2>3. \A i \in 1 .. n : f[i] = IF i = 1 THEN ss[i] ELSE f[i - 1] \o ss[i]
    BY <2>2
  <2> HIDE DEF f, IsFlat
  <2> DEFINE Holds(k) == /\ f[k] \in Seq(S) /\ Range(f[k]) = {s[i] : i \in 1 .. k} \cap P
                         /\ Distinct(s) => Distinct(f[k])
             T == {k \in 0 .. n : k # 0 => Holds(k)}
  <2>4. 0 \in T
    <3> HIDE DEF Holds
    <3> QED BY <1>1
  <2>5. ASSUME NEW k \in 0 .. n - 1, k \in T PROVE k + 1 \in T
    <3>1. k \in Nat /\ k + 1 \in 1 .. n /\ k + 1 \in 0 .. n
      <4> HIDE DEF T
      <4> QED BY <1>1
    <3>2. CASE k = 0
      <4>1. f[k + 1] = ss[k + 1] /\ 1 .. k + 1 = {k + 1}
        BY <1>1, <2>3, <3>1, <3>2
      <4> QED BY <1>2, <3>1, <4>1
    <3>3. CASE k # 0
      <4>1. Holds(k)
        <5> HIDE DEF Holds
        <5> QED BY <2>5, <3>3
      <4>2. f[k + 1] = f[k] \o ss[k + 1]
        <5>1. k + 1 # 1 /\ (k + 1) - 1 = k
          BY <3>1, <3>3
        <5> QED BY <2>3, <3>1, <5>1
      <4>3. /\ f[k] \in Seq(S) /\ ss[k + 1] \in Seq(S)
            /\ Range(f[k]) = {s[i] : i \in 1 .. k} \cap P /\ Range(ss[k + 1]) = {s[k + 1]} \cap P
            /\ Distinct(ss[k + 1])
        BY <1>2, <3>1, <4>1
      <4>4. /\ f[k + 1] \in Seq(S) /\ Range(f[k + 1]) = Range(f[k]) \cup Range(ss[k + 1])
            /\ Distinct(f[k]) /\ Range(f[k]) \cap Range(ss[k + 1]) = {} => Distinct(f[k + 1])
        <5> DEFINE a == f[k]
                   b == ss[k + 1]
        <5> HIDE DEF T, Holds
        <5>1. a \in Seq(S) /\ b \in Seq(S) /\ f[k + 1] = a \o b
          BY <4>2, <4>3
        <5> HIDE DEF a, b
        <5>2. /\ a \o b \in Seq(S) /\ Range(a \o b) = Range(a) \cup Range(b)
              /\ Distinct(a) /\ Distinct(b) /\ Range(a) \cap Range(b) = {} => Distinct(a \o b)
          BY <5>1, ConcatenationFacts
        <5>3. Distinct(b)
          BY <4>3 DEF b
        <5> QED BY <5>1, <5>2, <5>3 DEF a, b
      <4>5. 1 .. k + 1 = (1 .. k) \cup {k + 1}
        BY <3>1
      <4>6. {s[i] : i \in 1 .. k + 1} = {s[i] : i \in 1 .. k} \cup {s[k + 1]}
        <5> HIDE DEF T, Holds
        <5> QED BY <4>5
      <4>7. Distinct(s) => s[k + 1] \notin {s[i] : i \in 1 .. k}
        <5>1. ASSUME Distinct(s), NEW i \in 1 .. k, s[i] = s[k + 1] PROVE FALSE
          <6>1. i \in DOMAIN s /\ k + 1 \in DOMAIN s /\ i # k + 1
            BY <1>1, <3>1
          <6> HIDE DEF T, Holds
          <6> QED BY <5>1, <6>1 DEF Distinct
        <5> QED BY <5>1
      <4>8. Range(f[k + 1]) = {s[i] : i \in 1 .. k + 1} \cap P
        <5> HIDE DEF T, Holds
        <5> QED BY <4>3, <4>4, <4>6
      <4>9. Distinct(s) => Distinct(f[k + 1])
        <5>1. Distinct(s) => Range(f[k]) \cap Range(ss[k + 1]) = {}
          <6> HIDE DEF T, Holds
          <6> QED BY <4>3, <4>7
        <5> QED BY <4>1, <4>4, <5>1
      <4>10. Holds(k + 1)
        <5> HIDE DEF T
        <5> QED BY <4>4, <4>8, <4>9
      <4> HIDE DEF Holds
      <4> QED BY <3>1, <4>10
    <3> QED BY <3>2, <3>3
  <2>6. n \in T
    <3> HIDE DEF T
    <3> QED BY <1>1, <2>4, <2>5, LoopInduction
  <2>7. Holds(n)
    <3> HIDE DEF Holds
    <3> QED BY <1>4, <2>6
  <2>8. Range(s) = {s[i] : i \in 1 .. n}
    BY <1>1 DEF Range
  <2> QED BY <2>1, <2>7, <2>8
<1> QED BY <1>3, <1>4

-----------------------------------------------------------------------------
\* The sort.

\* A name that is listed has a place among all names.
LEMMA RankFacts ==
    ASSUME NEW name \in Range(NameOrder)
    PROVE  Rank(name) \in Nat /\ NameOrder[Rank(name)] = name
<1>1. DOMAIN NameOrder = 1 .. Len(NameOrder) /\ Len(NameOrder) \in Nat
  BY NameOrderAssumption
<1>2. \E i \in DOMAIN NameOrder : NameOrder[i] = name
  BY DEF Range
<1>3. Rank(name) \in DOMAIN NameOrder /\ NameOrder[Rank(name)] = name
  BY <1>2 DEF Rank
<1> QED BY <1>1, <1>3

SortedIndex(k) == CHOOSE i \in DOMAIN gs : Cardinality(Before(i)) = k - 1
SortedGroups == [k \in DOMAIN gs |-> gs[SortedIndex(k)]]

\* Each group has a place of its own, and each place a group.
LEMMA SortFacts ==
    ASSUME NEW S, gs \in Seq(S), \A g \in Range(gs) : g.name \in Range(NameOrder)
    PROVE  /\ SortedGroups \in Seq(S) /\ Range(SortedGroups) = Range(gs)
           /\ Distinct(gs) => Distinct(SortedGroups)
<1> DEFINE n == Len(gs)
           D == 1 .. n
           rank(i) == Rank(gs[i].name)
           place == [i \in D |-> Cardinality(Before(i)) + 1]
<1>1. DOMAIN gs = D /\ n \in Nat /\ \A i \in D : gs[i] \in S
  OBVIOUS
<1>2. \A i \in D : rank(i) \in Nat /\ NameOrder[rank(i)] = gs[i].name
  BY <1>1, RankFacts DEF Range
<1> HIDE DEF n, rank
<1>3. IsFiniteSet(D) /\ Cardinality(D) = n
  BY <1>1, FS_Interval
<1>4. \A i \in D : Before(i) = {j \in D : rank(j) < rank(i) \/ (gs[j].name = gs[i].name /\ j < i)}
  BY <1>1 DEF Before, rank
<1>5. ASSUME NEW i \in D, NEW j \in D, j \in Before(i)
      PROVE  Before(j) \subseteq Before(i) /\ j \notin Before(j)
  <2>1. \A k \in D : k \in Before(j) => k \in Before(i)
    <3>1. SUFFICES ASSUME NEW k \in D, k \in Before(j) PROVE k \in Before(i)
      OBVIOUS
    <3>2. \A l \in D, m \in D : gs[l].name = gs[m].name => rank(l) = rank(m)
      BY DEF rank
    <3> HIDE DEF D
    <3>3. /\ rank(j) < rank(i) \/ (gs[j].name = gs[i].name /\ j < i)
          /\ rank(k) < rank(j) \/ (gs[k].name = gs[j].name /\ k < j)
      BY <1>4, <1>5, <3>1
    <3>4. i \in Int /\ j \in Int /\ k \in Int
      BY DEF D
    <3>5. rank(i) \in Nat /\ rank(j) \in Nat /\ rank(k) \in Nat
      BY <1>2
    <3>6. rank(k) < rank(i) \/ (gs[k].name = gs[i].name /\ k < i)
      BY <3>2, <3>3, <3>4, <3>5
    <3> QED BY <1>4, <3>6
  <2>2. Before(j) \subseteq D
    BY <1>4
  <2>3. j \notin Before(j)
    <3>1. j \in Int /\ rank(j) \in Nat
      BY <1>1, <1>2
    <3> QED BY <1>4, <3>1
  <2> QED BY <2>1, <2>2, <2>3
<1>6. ASSUME NEW i \in D PROVE IsFiniteSet(Before(i)) /\ Cardinality(Before(i)) \in 0 .. n - 1
  <2>1. Before(i) \in SUBSET (D \ {i})
    <3>1. i \in Int /\ rank(i) \in Nat
      BY <1>1, <1>2
    <3> QED BY <1>4, <3>1
  <2>2. IsFiniteSet(D \ {i}) /\ Cardinality(D \ {i}) = n - 1
    BY <1>3, FS_RemoveElement
  <2>3. IsFiniteSet(Before(i)) /\ Cardinality(Before(i)) <= n - 1
    BY <2>1, <2>2, FS_Subset
  <2>4. Cardinality(Before(i)) \in Nat
    BY <2>3, FS_CardinalityType
  <2> QED BY <1>1, <2>3, <2>4
<1>7. ASSUME NEW i \in D, NEW j \in D, j \in Before(i)
      PROVE  Cardinality(Before(j)) # Cardinality(Before(i))
  BY <1>5, <1>6, <1>7, FS_Subset
<1>8. ASSUME NEW i \in D, NEW j \in D, i # j PROVE i \in Before(j) \/ j \in Before(i)
  <2> HIDE DEF D
  <2>1. i \in Int /\ j \in Int
    BY DEF D
  <2>2. rank(i) \in Nat /\ rank(j) \in Nat /\ (rank(i) = rank(j) => gs[i].name = gs[j].name)
    BY <1>2
  <2>3. \/ rank(i) < rank(j) \/ (gs[i].name = gs[j].name /\ i < j)
        \/ rank(j) < rank(i) \/ (gs[j].name = gs[i].name /\ j < i)
    BY <1>8, <2>1, <2>2
  <2> QED BY <1>4, <2>3
<1>9. place \in Injection(D, D)
  <2>1. place \in [D -> D]
    BY <1>1, <1>6
  <2>2. \A i, j \in D : place[i] = place[j] => i = j
    <3>1. SUFFICES ASSUME NEW i \in D, NEW j \in D, place[i] = place[j] PROVE i = j
      OBVIOUS
    <3>2. Cardinality(Before(i)) = Cardinality(Before(j))
      BY <1>6, <3>1
    <3> QED BY <1>7, <1>8, <3>2
  <2> HIDE DEF place
  <2> QED BY <2>1, <2>2 DEF Injection, IsInjective
<1>10. place \in Surjection(D, D)
  <2> HIDE DEF place, D
  <2> QED BY <1>3, <1>9, FS_Injection
<1>11. ASSUME NEW k \in D
       PROVE  SortedIndex(k) \in D /\ place[SortedIndex(k)] = k
  <2>1. PICK i \in D : place[i] = k
    <3> HIDE DEF place
    <3> QED BY <1>10 DEF Surjection
  <2>2. Cardinality(Before(i)) = k - 1
    BY <1>1, <1>6, <2>1
  <2>3. SortedIndex(k) \in D /\ Cardinality(Before(SortedIndex(k))) = k - 1
    BY <1>1, <2>2 DEF SortedIndex
  <2> QED BY <1>1, <2>3
<1>12. \A i \in D : SortedIndex(place[i]) = i
  <2>1. SUFFICES ASSUME NEW i \in D PROVE SortedIndex(place[i]) = i
    OBVIOUS
  <2>2. \A j \in D, m \in D : place[j] = place[m] => j = m
    <3> HIDE DEF place
    <3> QED BY <1>9 DEF Injection, IsInjective
  <2>3. place[i] \in D
    <3> HIDE DEF place
    <3> QED BY <1>9 DEF Injection
  <2> HIDE DEF place, D
  <2> QED BY <1>11, <2>2, <2>3
<1> DEFINE s == SortedGroups
<1>13. s = [k \in D |-> gs[SortedIndex(k)]]
  BY <1>1 DEF SortedGroups
<1> HIDE DEF s
<1>14. s \in Seq(S) /\ DOMAIN s = D
  <2>1. \A k \in D : gs[SortedIndex(k)] \in S
    BY <1>1, <1>11
  <2> HIDE DEF place
  <2> QED BY <1>1, <1>13, <2>1
<1>15. Range(s) = Range(gs)
  <2>1. Range(s) = {s[k] : k \in D} /\ Range(gs) = {gs[i] : i \in D}
    BY <1>1, <1>14 DEF Range
  <2>2. \A k \in D : s[k] = gs[SortedIndex(k)]
    BY <1>13
  <2>3. \A i \in D : place[i] \in D
    <3> HIDE DEF place
    <3> QED BY <1>9 DEF Injection
  <2>4. \A i \in D : gs[i] = s[place[i]]
    <3> HIDE DEF place, D
    <3> QED BY <1>12, <2>2, <2>3
  <2> HIDE DEF place, D
  <2> QED BY <1>11, <2>1, <2>2, <2>3, <2>4
<1>16. ASSUME Distinct(gs) PROVE Distinct(s)
  <2>1. SUFFICES ASSUME NEW k \in D, NEW l \in D, s[k] = s[l] PROVE k = l
    BY <1>14 DEF Distinct
  <2>2. SortedIndex(k) = SortedIndex(l)
    BY <1>1, <1>11, <1>13, <1>16, <2>1 DEF Distinct
  <2> HIDE DEF place, D
  <2> QED BY <1>11, <2>2
<1> QED BY <1>14, <1>15, <1>16 DEF s

-----------------------------------------------------------------------------
\* Names.

\* strings.HasPrefix(), syllable by syllable.
LEMMA IsPrefixFacts ==
    ASSUME NEW s \in Name, NEW t \in Name
    PROVE  IsPrefix(s, t) <=> Len(s) <= Len(t) /\ \A i \in 1 .. Len(s) : s[i] = t[i]
<1> DEFINE n == Len(s)
           a == SubSeq(s, 1, n)
           b == SubSeq(t, 1, n)
<1>1. n \in Nat /\ Len(t) \in Nat /\ DOMAIN s = 1 .. n /\ \A i \in 1 .. Len(t) : t[i] \in Syllables
  BY DEF Name
<1>2. a = s
  BY SubSeqFull DEF Name
<1>3. ASSUME n <= Len(t)
      PROVE  b \in Name /\ Len(b) = n /\ \A i \in 1 .. n : b[i] = t[i]
  <2> HIDE DEF n, b
  <2>1. 1 \in Int /\ n \in Int /\ \A i \in 1 .. n : t[i] \in Syllables
    BY <1>1, <1>3
  <2> DEFINE d == n - 1 + 1
  <2>2. b \in Seq(Syllables) /\ Len(b) = (IF 1 <= n THEN d ELSE 0) /\ \A i \in 1 .. d : b[i] = t[1 + i - 1]
    BY <2>1, SubSeqProperties DEF b
  <2>3. d = n /\ \A i \in 1 .. n : 1 + i - 1 = i
    BY <1>1
  <2> HIDE DEF d
  <2>4. Len(b) = n
    BY <1>1, <2>2, <2>3
  <2> QED BY <2>2, <2>3, <2>4 DEF Name
<1>4. IsPrefix(s, t) <=> n <= Len(t) /\ a = b
  BY DEF IsPrefix
<1> HIDE DEF a, b
<1>5. ASSUME n <= Len(t) PROVE s = b <=> \A i \in 1 .. n : s[i] = t[i]
  <2>1. ASSUME \A i \in 1 .. n : s[i] = t[i] PROVE s = b
    BY <1>3, <1>5, <2>1, SeqEqual DEF Name
  <2>2. ASSUME s = b, NEW i \in 1 .. n PROVE s[i] = t[i]
    BY <1>3, <1>5, <2>2
  <2> QED BY <2>1, <2>2
<1> QED BY <1>2, <1>4, <1>5

\* What follows a prefix is a name, too.
LEMMA FromFacts ==
    ASSUME NEW n \in Name, NEW k \in Nat
    PROVE  /\ From(n, k) \in Name
           /\ k <= Len(n) => Len(From(n, k)) = Len(n) - k /\ \A i \in 1 .. Len(n) - k : From(n, k)[i] = n[k + i]
<1> DEFINE l == Len(n)
           m == k + 1
           f == From(n, k)
<1>1. l \in Nat /\ m \in Int /\ m > 0 /\ l \in Int /\ \A i \in 1 .. l : n[i] \in Syllables
  BY DEF Name
<1>2. f = SubSeq(n, m, l)
  BY DEF From
<1>3. \A i \in m .. l : n[i] \in Syllables
  BY <1>1
<1> HIDE DEF l, f
<1> DEFINE d == l - m + 1
<1>4. f \in Seq(Syllables) /\ Len(f) = (IF m <= l THEN d ELSE 0) /\ \A i \in 1 .. d : f[i] = n[m + i - 1]
  <2> HIDE DEF m
  <2> QED BY <1>1, <1>2, <1>3, SubSeqProperties
<1>5. d = l - k /\ \A i \in Int : m + i - 1 = k + i
  BY <1>1
<1>6. k <= l => (IF m <= l THEN d ELSE 0) = l - k
  BY <1>1
<1> HIDE DEF d, m
<1>7. f \in Name
  BY <1>4 DEF Name
<1>8. ASSUME NEW i \in 1 .. l - k PROVE f[i] = n[k + i]
  <2>1. i \in 1 .. d /\ m + i - 1 = k + i
    BY <1>5
  <2>2. f[i] = n[m + i - 1]
    BY <1>4, <2>1
  <2> QED BY <2>1, <2>2
<1> QED BY <1>4, <1>6, <1>7, <1>8 DEF f, l

\* A name has a prefix if it is the prefix and what follows it.
LEMMA PrefixFacts ==
    ASSUME NEW p \in Name, NEW n \in Name
    PROVE  /\ From(n, Len(p)) \in Name
           /\ IsPrefix(p, n) => n = p \o From(n, Len(p))
           /\ IsPrefix(p, p \o n) /\ From(p \o n, Len(p)) = n
<1> DEFINE k == Len(p)
           r == From(n, k)
           c == p \o n
<1>1. k \in Nat /\ Len(n) \in Nat
  BY DEF Name
<1>2. c \in Name /\ Len(c) = k + Len(n) /\ (\A i \in 1 .. k : c[i] = p[i]) /\ (\A i \in 1 .. Len(n) : c[k + i] = n[i])
  BY DEF Name
<1> HIDE DEF k
<1>3. r \in Name /\ (k <= Len(n) => Len(r) = Len(n) - k /\ \A i \in 1 .. Len(n) - k : r[i] = n[k + i])
  BY <1>1, FromFacts
<1> HIDE DEF c, r
<1>4. ASSUME IsPrefix(p, n) PROVE n = p \o r
  <2>1. k <= Len(n) /\ \A i \in 1 .. k : p[i] = n[i]
    BY <1>4, IsPrefixFacts DEF k
  <2> DEFINE d == p \o r
  <2>2. /\ d \in Name /\ Len(d) = k + Len(r) /\ (\A i \in 1 .. k : d[i] = p[i])
        /\ \A i \in 1 .. Len(r) : d[k + i] = r[i]
    BY <1>3 DEF Name, k
  <2> HIDE DEF d
  <2>3. Len(d) = Len(n)
    BY <1>1, <1>3, <2>1, <2>2
  <2>4. ASSUME NEW i \in 1 .. Len(n) PROVE n[i] = d[i]
    <3>1. CASE i <= k
      BY <1>1, <2>1, <2>2, <3>1
    <3>2. CASE i > k
      <4>1. i - k \in 1 .. Len(r) /\ k + (i - k) = i /\ Len(r) = Len(n) - k
        BY <1>1, <1>3, <2>1, <3>2
      <4>2. d[k + (i - k)] = r[i - k] /\ r[i - k] = n[k + (i - k)]
        BY <1>3, <2>1, <2>2, <4>1
      <4> QED BY <4>1, <4>2
    <3> QED BY <1>1, <3>1, <3>2
  <2>5. n = d
    BY <2>2, <2>3, <2>4, SeqEqual DEF Name
  <2> QED BY <2>5 DEF d
<1>5. IsPrefix(p, c)
  <2>1. k <= Len(c) /\ \A i \in 1 .. k : p[i] = c[i]
    BY <1>1, <1>2
  <2> QED BY <1>2, <2>1, IsPrefixFacts DEF k
<1>6. From(c, k) = n
  <2> DEFINE f == From(c, k)
             l == Len(c) - k
  <2>1. k <= Len(c) /\ l = Len(n)
    BY <1>1, <1>2
  <2>2. f \in Name /\ Len(f) = l /\ \A i \in 1 .. l : f[i] = c[k + i]
    BY <1>1, <1>2, <2>1, FromFacts
  <2> HIDE DEF l, f
  <2>3. \A i \in 1 .. Len(f) : f[i] = n[i]
    BY <1>2, <2>1, <2>2
  <2>4. f = n
    BY <2>1, <2>2, <2>3, SeqEqual DEF Name
  <2> QED BY <2>4 DEF f
<1> QED BY <1>3, <1>4, <1>5, <1>6 DEF k, c, r

\* strings.HasSuffix(), syllable by syllable.
LEMMA IsSuffixFacts ==
    ASSUME NEW s \in Name, NEW t \in Name
    PROVE  IsSuffix(s, t) <=> /\ Len(s) <= Len(t)
                              /\ \A i \in 1 .. Len(s) : s[i] = t[Len(t) - Len(s) + i]
<1> DEFINE m == Len(s)
           n == Len(t)
           a == Reverse(s)
           b == Reverse(t)
<1>1. m \in Nat /\ n \in Nat /\ (\A i \in 1 .. m : s[i] \in Syllables) /\ (\A i \in 1 .. n : t[i] \in Syllables)
  BY DEF Name
<1> HIDE DEF m, n
<1>2. a \in Name /\ Len(a) = m /\ \A i \in 1 .. m : a[i] = s[m - i + 1]
  <2>1. a = [i \in 1 .. m |-> s[m - i + 1]]
    BY DEF Reverse, m
  <2>2. \A i \in 1 .. m : m - i + 1 \in 1 .. m
    BY <1>1
  <2>3. \A i \in 1 .. m : s[m - i + 1] \in Syllables
    BY <1>1, <2>2
  <2> HIDE DEF a
  <2>4. \A i \in 1 .. m : a[i] = s[m - i + 1]
    BY <2>1
  <2>5. a \in Seq(Syllables) /\ Len(a) = m
    BY <1>1, <2>1, <2>3
  <2> QED BY <2>4, <2>5 DEF Name
<1>3. b \in Name /\ Len(b) = n /\ \A i \in 1 .. n : b[i] = t[n - i + 1]
  <2>1. b = [i \in 1 .. n |-> t[n - i + 1]]
    BY DEF Reverse, n
  <2>2. \A i \in 1 .. n : n - i + 1 \in 1 .. n
    BY <1>1
  <2>3. \A i \in 1 .. n : t[n - i + 1] \in Syllables
    BY <1>1, <2>2
  <2> HIDE DEF b
  <2>4. \A i \in 1 .. n : b[i] = t[n - i + 1]
    BY <2>1
  <2>5. b \in Seq(Syllables) /\ Len(b) = n
    BY <1>1, <2>1, <2>3
  <2> QED BY <2>4, <2>5 DEF Name
<1>4. IsSuffix(s, t) <=> IsPrefix(a, b)
  BY DEF IsSuffix
<1> HIDE DEF a, b
<1>5. IsPrefix(a, b) <=> m <= n /\ \A i \in 1 .. m : a[i] = b[i]
  BY <1>2, <1>3, IsPrefixFacts
<1>6. ASSUME m <= n
      PROVE  (\A i \in 1 .. m : a[i] = b[i]) <=> \A i \in 1 .. m : s[i] = t[n - m + i]
  <2>1. \A i \in 1 .. m : m - i + 1 \in 1 .. m /\ m - (m - i + 1) + 1 = i /\ n - m + i = n - (m - i + 1) + 1
                          /\ n - i + 1 = n - m + (m - i + 1) /\ i \in 1 .. n
    BY <1>1, <1>6
  <2>2. ASSUME \A i \in 1 .. m : a[i] = b[i], NEW i \in 1 .. m
        PROVE  s[i] = t[n - m + i]
    <3> DEFINE j == m - i + 1
    <3>1. j \in 1 .. m /\ j \in 1 .. n /\ m - j + 1 = i /\ n - j + 1 = n - m + i
      BY <1>1, <2>1, <1>6
    <3> HIDE DEF j
    <3>2. a[j] = s[m - j + 1] /\ b[j] = t[n - j + 1] /\ a[j] = b[j]
      BY <1>2, <1>3, <2>2, <3>1
    <3> QED BY <3>1, <3>2
  <2>3. ASSUME \A i \in 1 .. m : s[i] = t[n - m + i], NEW i \in 1 .. m
        PROVE  a[i] = b[i]
    <3> DEFINE j == m - i + 1
    <3>1. j \in 1 .. m /\ n - i + 1 = n - m + j /\ i \in 1 .. n
      BY <1>1, <2>1, <1>6
    <3>2. a[i] = s[j]
      BY <1>2
    <3> HIDE DEF j
    <3>3. s[j] = t[n - m + j] /\ b[i] = t[n - i + 1]
      BY <1>3, <2>3, <3>1
    <3> QED BY <3>1, <3>2, <3>3
  <2> QED BY <2>2, <2>3
<1> QED BY <1>4, <1>5, <1>6 DEF m, n

\* A name has a suffix if it is what precedes it and the suffix.
LEMMA SuffixFacts ==
    ASSUME NEW q \in Name, NEW n \in Name
    PROVE  LET before(m) == SubSeq(m, 1, Len(m) - Len(q))
           IN /\ before(n) \in Name
              /\ IsSuffix(q, n) => n = before(n) \o q
              /\ IsSuffix(q, n \o q) /\ before(n \o q) = n
              /\ \A p \in Name : IsSuffix(q, n) => IsSuffix(q, p \o n)
<1> DEFINE k == Len(q)
           l == Len(n)
           before(m) == SubSeq(m, 1, Len(m) - k)
<1>1. k \in Nat /\ l \in Nat
  BY DEF Name
<1>2. ASSUME NEW m \in Name
      PROVE  /\ before(m) \in Name
             /\ k <= Len(m) => Len(before(m)) = Len(m) - k /\ \A i \in 1 .. Len(m) - k : before(m)[i] = m[i]
  <2> DEFINE d == Len(m) - k
             b == SubSeq(m, 1, d)
             e == d - 1 + 1
  <2> HIDE DEF k
  <2>1. Len(m) \in Nat /\ d \in Int /\ 1 \in Int /\ \A i \in 1 .. d : m[i] \in Syllables
    BY <1>1 DEF Name
  <2> HIDE DEF d
  <2>2. b \in Seq(Syllables) /\ Len(b) = (IF 1 <= d THEN e ELSE 0) /\ \A i \in 1 .. e : b[i] = m[1 + i - 1]
    BY <2>1, SubSeqProperties
  <2>3. e = d /\ \A i \in 1 .. d : 1 + i - 1 = i
    BY <2>1
  <2> HIDE DEF e, b
  <2>4. k <= Len(m) => 0 <= d
    BY <1>1, <2>1 DEF d
  <2>5. 0 <= d => Len(b) = d
    BY <2>1, <2>2, <2>3
  <2>6. \A i \in 1 .. d : b[i] = m[i]
    BY <2>2, <2>3
  <2> QED BY <2>2, <2>4, <2>5, <2>6 DEF b, d, Name
<1>3. ASSUME NEW p \in Name
      PROVE  LET c == p \o q
             IN /\ c \in Name /\ Len(c) = Len(p) + k /\ (\A i \in 1 .. Len(p) : c[i] = p[i])
                /\ \A i \in 1 .. k : c[Len(p) + i] = q[i]
  BY DEF Name
<1> HIDE DEF k
<1>4. ASSUME IsSuffix(q, n) PROVE n = before(n) \o q
  <2> DEFINE b == before(n)
             c == b \o q
  <2>1. k <= l /\ \A i \in 1 .. k : q[i] = n[l - k + i]
    BY <1>4, IsSuffixFacts DEF k
  <2>2. b \in Name /\ Len(b) = l - k /\ \A i \in 1 .. l - k : b[i] = n[i]
    BY <1>2, <2>1
  <2> HIDE DEF b, l
  <2>3. c \in Name /\ Len(c) = Len(b) + k /\ (\A i \in 1 .. Len(b) : c[i] = b[i]) /\ \A i \in 1 .. k : c[Len(b) + i] = q[i]
    BY <1>3, <2>2
  <2> HIDE DEF c
  <2>4. Len(c) = l
    BY <1>1, <2>2, <2>3
  <2>5. ASSUME NEW i \in 1 .. l PROVE n[i] = c[i]
    <3>1. CASE i <= l - k
      BY <1>1, <2>2, <2>3, <3>1
    <3>2. CASE i > l - k
      <4> DEFINE j == i - (l - k)
      <4>1. j \in 1 .. k /\ l - k + j = i
        BY <1>1, <2>1, <3>2
      <4> HIDE DEF j
      <4>2. c[l - k + j] = q[j] /\ q[j] = n[l - k + j]
        BY <2>1, <2>2, <2>3, <4>1
      <4> QED BY <4>1, <4>2
    <3> QED BY <1>1, <3>1, <3>2
  <2>6. n = c
    BY <2>3, <2>4, <2>5, SeqEqual DEF Name, l
  <2> QED BY <2>6 DEF c, b
<1>5. IsSuffix(q, n \o q) /\ before(n \o q) = n
  <2> DEFINE c == n \o q
             b == before(c)
  <2>1. c \in Name /\ Len(c) = l + k /\ (\A i \in 1 .. l : c[i] = n[i]) /\ \A i \in 1 .. k : c[l + i] = q[i]
    BY <1>3
  <2> HIDE DEF c, l
  <2>2. k <= Len(c) /\ Len(c) - k = l
    BY <1>1, <2>1
  <2>3. b \in Name /\ Len(b) = l /\ \A i \in 1 .. l : b[i] = c[i]
    BY <1>2, <2>1, <2>2
  <2>4. IsSuffix(q, c)
    <3>1. \A i \in 1 .. k : q[i] = c[Len(c) - k + i]
      BY <2>1, <2>2
    <3> QED BY <2>1, <2>2, <3>1, IsSuffixFacts DEF k
  <2> HIDE DEF b
  <2>5. b = n
    BY <2>1, <2>3, SeqEqual DEF Name, l
  <2> QED BY <2>4, <2>5 DEF b, c
<1>6. ASSUME NEW p \in Name, IsSuffix(q, n) PROVE IsSuffix(q, p \o n)
  <2> DEFINE c == p \o n
  <2>1. c \in Name /\ Len(c) = Len(p) + l /\ Len(p) \in Nat /\ \A i \in 1 .. l : c[Len(p) + i] = n[i]
    BY DEF Name
  <2> HIDE DEF c
  <2>2. k <= l /\ \A i \in 1 .. k : q[i] = n[l - k + i]
    BY <1>6, IsSuffixFacts DEF k
  <2> HIDE DEF l
  <2>3. ASSUME NEW i \in 1 .. k PROVE q[i] = c[Len(c) - k + i]
    <3> DEFINE j == l - k + i
    <3>1. j \in 1 .. l /\ Len(p) + j = Len(c) - k + i
      BY <1>1, <2>1, <2>2
    <3>2. q[i] = n[j]
      BY <2>2
    <3> HIDE DEF j
    <3>3. c[Len(p) + j] = n[j]
      BY <2>1, <3>1
    <3> QED BY <3>1, <3>2, <3>3
  <2>4. k <= Len(c)
    BY <1>1, <2>1, <2>2
  <2>5. IsSuffix(q, c)
    BY <2>1, <2>3, <2>4, IsSuffixFacts DEF k
  <2> QED BY <2>5 DEF c
<1>7. before(n) \in Name
  BY <1>2
<1> HIDE DEF l
<1> QED BY <1>4, <1>5, <1>6, <1>7 DEF k

-----------------------------------------------------------------------------
\* What bcp.New() finds in the groups.

\* The groups from which it starts.
Chosen ==
    /\ gs \in Seq(AllGroups) /\ Range(gs) = Selected /\ Distinct(gs)
    /\ \A g, h \in Selected : ~ Conflict(g, h)

\* The types of what it takes from the configuration.
CfgTyped ==
    /\ cfg.superGroup \in Name
    /\ cfg.orgUnitPrefix \in Name /\ cfg.servicePrefix \in Name
    /\ cfg.opsSuffix \in Name /\ cfg.facilitySuffix \in Name
    /\ cfg.facilities \in Seq([name : Name, services : Seq(Name), access : STRING])

\* All groups have names, which are sorted.
LEMMA GroupNames ==
    ASSUME NEW g \in AllGroups
    PROVE  g.name \in Name /\ g.name \in Range(NameOrder)
<1>1. PICK db \in Databases : \E i \in DOMAIN db : g = GroupOf(db[i])
  BY DEF AllGroups
<1>2. PICK i \in DOMAIN db : g = GroupOf(db[i])
  BY <1>1
<1>3. db[i] \in [name : Name, gid : Nat, wellFormed : BOOLEAN]
  <2> DEFINE Line == [name : Name, gid : Nat, wellFormed : BOOLEAN]
  <2>1. db \in Seq(Line)
    BY DatabasesAssumption
  <2> HIDE DEF Line
  <2>2. db[i] \in Line
    BY <2>1
  <2> QED BY <2>2 DEF Line
<1>4. g.name = db[i].name
  BY <1>2 DEF GroupOf
<1> QED BY <1>3, <1>4, NameOrderAssumption

\* The prefixes and suffixes of groups and facilities are what is put before and after names.
LEMMA FixedNames ==
    ASSUME CfgTyped
    PROVE  /\ OrgUnitGroupName(<<>>) \in Name /\ ServiceGroupName(<<>>) \in Name
           /\ OpsName(<<>>) \in Name /\ FacilityDirName(<<>>) \in Name
           /\ \A n \in Name :
                 /\ OrgUnitGroupName(<<>>) \o n = OrgUnitGroupName(n) /\ OrgUnitGroupName(n) \in Name
                 /\ ServiceGroupName(<<>>) \o n = ServiceGroupName(n) /\ ServiceGroupName(n) \in Name
                 /\ n \o OpsName(<<>>) = OpsName(n) /\ OpsName(n) \in Name
                 /\ n \o FacilityDirName(<<>>) = FacilityDirName(n) /\ FacilityDirName(n) \in Name
<1> DEFINE u == <<"_">>
           d == <<"-">>
<1>1. u \in Name /\ d \in Name /\ <<>> \in Name
  <2>1. ASSUME NEW S, NEW x \in S PROVE <<x>> \in Seq(S) /\ <<>> \in Seq(S)
    OBVIOUS
  <2> QED BY <2>1, SyllablesAssumption DEF Name
<1> HIDE DEF u, d
<1>2. \A a \in Name, b \in Name : a \o b \in Name /\ a \o <<>> = a /\ <<>> \o a = a
  BY ConcatProperties, ConcatEmptySeq DEF Name
<1>3. \A a \in Name, b \in Name, c \in Name : (a \o b) \o c = a \o (b \o c)
  BY ConcatAssociative DEF Name
<1>4. /\ cfg.orgUnitPrefix \in Name /\ cfg.servicePrefix \in Name
      /\ cfg.opsSuffix \in Name /\ cfg.facilitySuffix \in Name
  BY DEF CfgTyped
<1>5. \A n \in Name : /\ OrgUnitGroupName(n) = (cfg.orgUnitPrefix \o u) \o n
                      /\ ServiceGroupName(n) = (cfg.servicePrefix \o u) \o n
                      /\ OpsName(n) = (n \o d) \o cfg.opsSuffix
                      /\ FacilityDirName(n) = (n \o d) \o cfg.facilitySuffix
  BY DEF OrgUnitGroupName, ServiceGroupName, OpsName, FacilityDirName, u, d
<1>6. /\ OrgUnitGroupName(<<>>) = cfg.orgUnitPrefix \o u
      /\ ServiceGroupName(<<>>) = cfg.servicePrefix \o u
      /\ OpsName(<<>>) = d \o cfg.opsSuffix
      /\ FacilityDirName(<<>>) = d \o cfg.facilitySuffix
  <2>1. OrgUnitGroupName(<<>>) = (cfg.orgUnitPrefix \o u) \o <<>> /\ cfg.orgUnitPrefix \o u \in Name
    BY <1>1, <1>2, <1>4, <1>5
  <2>2. ServiceGroupName(<<>>) = (cfg.servicePrefix \o u) \o <<>> /\ cfg.servicePrefix \o u \in Name
    BY <1>1, <1>2, <1>4, <1>5
  <2>3. OpsName(<<>>) = (<<>> \o d) \o cfg.opsSuffix
    BY <1>1, <1>5
  <2>4. FacilityDirName(<<>>) = (<<>> \o d) \o cfg.facilitySuffix
    BY <1>1, <1>5
  <2>5. <<>> \o d = d /\ \A a \in Name : a \o <<>> = a
    BY <1>1, <1>2
  <2>6. OrgUnitGroupName(<<>>) = cfg.orgUnitPrefix \o u
    BY <2>1, <2>5
  <2>7. ServiceGroupName(<<>>) = cfg.servicePrefix \o u
    BY <2>2, <2>5
  <2>8. OpsName(<<>>) = d \o cfg.opsSuffix
    BY <2>3, <2>5
  <2>9. FacilityDirName(<<>>) = d \o cfg.facilitySuffix
    BY <2>4, <2>5
  <2> QED BY <2>6, <2>7, <2>8, <2>9
<1> DEFINE ou == cfg.orgUnitPrefix \o u
           srv == cfg.servicePrefix \o u
           ops == d \o cfg.opsSuffix
           dir == d \o cfg.facilitySuffix
<1>7. ou \in Name /\ srv \in Name /\ ops \in Name /\ dir \in Name
  BY <1>1, <1>2, <1>4
<1>8. ASSUME NEW n \in Name
      PROVE  (n \o d) \o cfg.opsSuffix = n \o ops /\ (n \o d) \o cfg.facilitySuffix = n \o dir
  <2>1. ASSUME NEW x \in Name PROVE (n \o d) \o x = n \o (d \o x)
    BY <1>1, <1>3, Zenon
  <2>2. (n \o d) \o cfg.opsSuffix = n \o (d \o cfg.opsSuffix)
    BY <1>4, <2>1
  <2>3. (n \o d) \o cfg.facilitySuffix = n \o (d \o cfg.facilitySuffix)
    BY <1>4, <2>1
  <2> QED BY <2>2, <2>3
<1> HIDE DEF ou, srv, ops, dir
<1>9. \A n \in Name : /\ OrgUnitGroupName(n) = ou \o n /\ ServiceGroupName(n) = srv \o n
                      /\ OpsName(n) = n \o ops /\ FacilityDirName(n) = n \o dir
  BY <1>5, <1>8 DEF ou, srv
<1>10. \A n \in Name : ou \o n \in Name /\ srv \o n \in Name /\ n \o ops \in Name /\ n \o dir \in Name
  BY <1>2, <1>7
<1>11. /\ OrgUnitGroupName(<<>>) = ou /\ ServiceGroupName(<<>>) = srv
       /\ OpsName(<<>>) = ops /\ FacilityDirName(<<>>) = dir
  BY <1>6 DEF ou, srv, ops, dir
<1>12. ASSUME NEW n \in Name
       PROVE  /\ ou \o n = OrgUnitGroupName(n) /\ OrgUnitGroupName(n) \in Name
              /\ srv \o n = ServiceGroupName(n) /\ ServiceGroupName(n) \in Name
              /\ n \o ops = OpsName(n) /\ OpsName(n) \in Name
              /\ n \o dir = FacilityDirName(n) /\ FacilityDirName(n) \in Name
  <2>1. /\ OrgUnitGroupName(n) = ou \o n /\ ServiceGroupName(n) = srv \o n
        /\ OpsName(n) = n \o ops /\ FacilityDirName(n) = n \o dir
    BY <1>9
  <2>2. ou \o n \in Name /\ srv \o n \in Name /\ n \o ops \in Name /\ n \o dir \in Name
    BY <1>10
  <2> QED BY <2>1, <2>2
<1>13. \A n \in Name :
          /\ ou \o n = OrgUnitGroupName(n) /\ OrgUnitGroupName(n) \in Name
          /\ srv \o n = ServiceGroupName(n) /\ ServiceGroupName(n) \in Name
          /\ n \o ops = OpsName(n) /\ OpsName(n) \in Name
          /\ n \o dir = FacilityDirName(n) /\ FacilityDirName(n) \in Name
  BY <1>12
<1> QED BY <1>7, <1>11, <1>13

\* parseOrgUnitNames() and its like: the names are those of the selected groups with the
\* prefix, each once.
LEMMA NamesFacts ==
    ASSUME Chosen, NEW prefix \in Name
    PROVE  /\ NamesWith(prefix) \in Seq(Name)
           /\ Range(NamesWith(prefix)) = {n \in Name : HasGroup(prefix \o n)}
           /\ Distinct(NamesWith(prefix))
<1> DEFINE P == {g \in AllGroups : IsPrefix(prefix, g.name)}
           ss == Parts(gs, P)
           t == FlattenSeq(ss)
           k == Len(prefix)
           ns == NamesWith(prefix)
<1>1. gs \in Seq(AllGroups) /\ DOMAIN gs = 1 .. Len(gs) /\ \A i \in DOMAIN gs : gs[i] \in AllGroups
  BY DEF Chosen
<1>2. t \in Seq(AllGroups) /\ Range(t) = Range(gs) \cap P /\ Distinct(t)
  <2> HIDE DEF P
  <2> QED BY <1>1, PassingFacts DEF Chosen
<1>3. ss = [i \in DOMAIN gs |-> IF IsPrefix(prefix, gs[i].name) THEN <<gs[i]>> ELSE <<>>]
  BY <1>1 DEF Parts
<1>4. ns = [i \in DOMAIN t |-> From(t[i].name, k)]
  <2> HIDE DEF ss
  <2> QED BY <1>3 DEF NamesWith, Mapped, Passing
<1> HIDE DEF ss, t, ns, k
<1>5. ASSUME NEW i \in DOMAIN t
      PROVE  /\ t[i].name \in Name /\ From(t[i].name, k) \in Name
             /\ t[i].name = prefix \o From(t[i].name, k) /\ t[i] \in Range(gs)
  <2>1. t[i] \in Range(t)
    BY DEF Range
  <2>2. t[i] \in AllGroups /\ IsPrefix(prefix, t[i].name) /\ t[i] \in Range(gs)
    BY <1>2, <2>1
  <2>3. t[i].name \in Name
    BY <2>2, GroupNames
  <2> QED BY <2>2, <2>3, PrefixFacts DEF k
<1>6. ns \in Seq(Name) /\ DOMAIN ns = DOMAIN t /\ \A i \in DOMAIN t : ns[i] = From(t[i].name, k)
  BY <1>2, <1>4, <1>5
<1>7. ASSUME NEW n \in Range(ns) PROVE n \in Name /\ HasGroup(prefix \o n)
  <2>1. PICK i \in DOMAIN t : n = From(t[i].name, k)
    BY <1>6, <1>7 DEF Range
  <2>2. PICK j \in DOMAIN gs : gs[j] = t[i]
    BY <1>5 DEF Range
  <2> QED BY <1>5, <2>1, <2>2 DEF HasGroup
<1>8. ASSUME NEW n \in Name, HasGroup(prefix \o n) PROVE n \in Range(ns)
  <2>1. PICK j \in DOMAIN gs : gs[j].name = prefix \o n
    BY <1>8 DEF HasGroup
  <2>2. IsPrefix(prefix, gs[j].name) /\ From(gs[j].name, k) = n
    BY <2>1, PrefixFacts DEF k
  <2>3. gs[j] \in Range(t)
    BY <1>1, <1>2, <2>2 DEF Range
  <2>4. PICK i \in DOMAIN t : t[i] = gs[j]
    BY <2>3 DEF Range
  <2>5. ns[i] = n
    BY <1>6, <2>2, <2>4
  <2> QED BY <1>6, <2>5 DEF Range
<1>9. Distinct(ns)
  <2>1. SUFFICES ASSUME NEW i \in DOMAIN t, NEW j \in DOMAIN t, ns[i] = ns[j] PROVE i = j
    BY <1>6 DEF Distinct
  <2>2. t[i].name = t[j].name /\ t[i] \in Selected /\ t[j] \in Selected
    BY <1>5, <1>6, <2>1 DEF Chosen
  <2>3. t[i] = t[j]
    BY <2>2 DEF Chosen, Conflict
  <2> QED BY <1>2, <2>3 DEF Distinct
<1> QED BY <1>6, <1>7, <1>8, <1>9 DEF ns

\* The org units, the services and the facilities, by their groups.
LEMMA ListsFacts ==
    ASSUME Chosen, CfgTyped
    PROVE  /\ OrgUnitNames \in Seq(Name) /\ Distinct(OrgUnitNames)
           /\ Range(OrgUnitNames) = {n \in Name : HasGroup(OrgUnitGroupName(n))}
           /\ ServiceNames \in Seq(Name) /\ Distinct(ServiceNames)
           /\ Range(ServiceNames) = {n \in Name : HasGroup(ServiceGroupName(n)) /\ ~ IsSuffix(OpsName(<<>>), n)}
           /\ Range(FacilityNames) = {n \in Name : HasGroup(OrgUnitGroupName(FacilityDirName(n)))}
<1>1. /\ OrgUnitNames \in Seq(Name) /\ Distinct(OrgUnitNames)
      /\ Range(OrgUnitNames) = {n \in Name : HasGroup(OrgUnitGroupName(n))}
  <2>1. /\ OrgUnitNames \in Seq(Name) /\ Distinct(OrgUnitNames)
        /\ Range(OrgUnitNames) = {n \in Name : HasGroup(OrgUnitGroupName(<<>>) \o n)}
    BY NamesFacts, FixedNames DEF OrgUnitNames
  <2> QED BY <2>1, FixedNames
<1>2. /\ ServiceNames \in Seq(Name) /\ Distinct(ServiceNames)
      /\ Range(ServiceNames) = {n \in Name : HasGroup(ServiceGroupName(n)) /\ ~ IsSuffix(OpsName(<<>>), n)}
  <2> DEFINE ns == NamesWith(ServiceGroupName(<<>>))
             P == {n \in Name : ~ IsSuffix(OpsName(<<>>), n)}
             ss == Parts(ns, P)
  <2>1. ns \in Seq(Name) /\ Distinct(ns) /\ Range(ns) = {n \in Name : HasGroup(ServiceGroupName(<<>>) \o n)}
    BY NamesFacts, FixedNames
  <2>2. Range(ns) = {n \in Name : HasGroup(ServiceGroupName(n))}
    BY <2>1, FixedNames
  <2> HIDE DEF ns
  <2>3. ss = [i \in DOMAIN ns |-> IF ~ IsSuffix(OpsName(<<>>), ns[i]) THEN <<ns[i]>> ELSE <<>>]
    BY <2>1 DEF Parts
  <2>4. ServiceNames = FlattenSeq(ss)
    <3> HIDE DEF ss
    <3> QED BY <2>3 DEF ServiceNames, Passing, ns
  <2>5. FlattenSeq(ss) \in Seq(Name) /\ Distinct(FlattenSeq(ss)) /\ Range(FlattenSeq(ss)) = Range(ns) \cap P
    <3> HIDE DEF P
    <3> QED BY <2>1, PassingFacts
  <2> QED BY <2>2, <2>4, <2>5
<1>3. Range(FacilityNames) = {n \in Name : HasGroup(OrgUnitGroupName(FacilityDirName(n)))}
  <2> DEFINE ns == OrgUnitNames
             q == FacilityDirName(<<>>)
             P == {n \in Name : IsSuffix(q, n)}
             ss == Parts(ns, P)
             t == FlattenSeq(ss)
             before(m) == SubSeq(m, 1, Len(m) - Len(q))
  <2>1. q \in Name
    BY FixedNames
  <2>2. ss = [i \in DOMAIN ns |-> IF IsFacilityDir(ns[i]) THEN <<ns[i]>> ELSE <<>>]
    BY <1>1 DEF Parts, IsFacilityDir
  <2>3. FacilityNames = [i \in DOMAIN t |-> before(t[i])]
    <3> HIDE DEF ss
    <3> QED BY <2>2 DEF FacilityNames, Mapped, Passing, FacilityOfDir
  <2>4. t \in Seq(Name) /\ Range(t) = Range(ns) \cap P
    <3> HIDE DEF P
    <3> QED BY <1>1, PassingFacts
  <2>5. \A n \in Name : /\ IsSuffix(q, n) => before(n) \in Name /\ n = FacilityDirName(before(n))
                        /\ IsSuffix(q, FacilityDirName(n)) /\ before(FacilityDirName(n)) = n
                        /\ FacilityDirName(n) \in Name
    <3>1. SUFFICES ASSUME NEW n \in Name
                   PROVE  /\ IsSuffix(q, n) => before(n) \in Name /\ n = FacilityDirName(before(n))
                          /\ IsSuffix(q, FacilityDirName(n)) /\ before(FacilityDirName(n)) = n
                          /\ FacilityDirName(n) \in Name
      OBVIOUS
    <3>2. \A m \in Name : m \o q = FacilityDirName(m) /\ FacilityDirName(m) \in Name
      BY FixedNames
    <3> HIDE DEF q
    <3>3. /\ before(n) \in Name
          /\ IsSuffix(q, n) => n = before(n) \o q
          /\ IsSuffix(q, n \o q) /\ before(n \o q) = n
      BY <2>1, SuffixFacts
    <3> HIDE DEF before
    <3> QED BY <3>2, <3>3
  <2> HIDE DEF t, ss, q, before
  <2>6. \A m \in Range(t) : m \in Name /\ IsSuffix(q, m) /\ HasGroup(OrgUnitGroupName(m))
    BY <1>1, <2>4
  <2>7. Range(FacilityNames) = {before(m) : m \in Range(t)}
    BY <2>3 DEF Range
  <2>8. ASSUME NEW n \in Range(FacilityNames) PROVE n \in Name /\ HasGroup(OrgUnitGroupName(FacilityDirName(n)))
    BY <2>5, <2>6, <2>7
  <2>9. ASSUME NEW n \in Name, HasGroup(OrgUnitGroupName(FacilityDirName(n)))
        PROVE  n \in Range(FacilityNames)
    <3>1. FacilityDirName(n) \in Range(t) /\ before(FacilityDirName(n)) = n
      BY <1>1, <2>4, <2>5, <2>9
    <3> QED BY <2>7, <3>1
  <2> QED BY <2>8, <2>9
<1> QED BY <1>1, <1>2, <1>3

-----------------------------------------------------------------------------
\* What bcp.New() makes of them.

\* A set of indices has a last one.
LEMMA LastExists ==
    ASSUME NEW n \in Nat, NEW I \in SUBSET (1 .. n), I # {}
    PROVE  \E i \in I : \A j \in I : j <= i
<1> DEFINE Has(k) == (\E i \in I : i <= k) => \E i \in I : i <= k /\ \A j \in I : j <= k => j <= i
           T == {k \in 0 .. n : Has(k)}
<1>1. 0 \in T
  OBVIOUS
<1>2. ASSUME NEW k \in 0 .. n - 1, k \in T PROVE k + 1 \in T
  <2>1. Has(k) /\ k \in Int
    BY <1>2
  <2>2. CASE k + 1 \in I
    <3>1. \A j \in I : j <= k + 1 => j <= k + 1
      OBVIOUS
    <3> QED BY <2>2, <3>1
  <2>3. CASE k + 1 \notin I
    <3>1. \A j \in I : j <= k + 1 <=> j <= k
      BY <2>1, <2>3
    <3>2. Has(k + 1)
      BY <2>1, <3>1
    <3> HIDE DEF Has
    <3> QED BY <3>2
  <2> QED BY <2>2, <2>3
<1>3. n \in T
  <2> HIDE DEF T
  <2> QED BY <1>1, <1>2, LoopInduction
<1>4. Has(n) /\ \A i \in I : i <= n
  <2> HIDE DEF Has
  <2> QED BY <1>3
<1> QED BY <1>4

\* And a first one.
LEMMA FirstExists ==
    ASSUME NEW n \in Nat, NEW I \in SUBSET (1 .. n), I # {}
    PROVE  \E i \in I : \A j \in I : i <= j
<1> DEFINE J == {k \in 1 .. n : n + 1 - k \in I}
<1>1. J \in SUBSET (1 .. n)
  OBVIOUS
<1>2. PICK i \in I : TRUE
  OBVIOUS
<1>3. i \in 1 .. n /\ n + 1 - i \in 1 .. n /\ n + 1 - (n + 1 - i) = i
  OBVIOUS
<1>4. J # {}
  BY <1>2, <1>3
<1>5. PICK k \in J : \A l \in J : l <= k
  <2> HIDE DEF J
  <2> QED BY <1>1, <1>4, LastExists
<1>6. ASSUME NEW j \in I PROVE n + 1 - k <= j
  <2>1. j \in 1 .. n /\ n + 1 - j \in 1 .. n /\ n + 1 - (n + 1 - j) = j
    OBVIOUS
  <2>2. n + 1 - j <= k
    BY <1>5, <2>1
  <2> QED BY <2>1, <2>2
<1> QED BY <1>5, <1>6

\* A service of a facility is listed by the last one of the facilities that list it.
LEMMA FacilityFacts ==
    ASSUME CfgTyped, NEW srv, HasFacility(srv)
    PROVE  LET i == FacilityBySrv(srv)
           IN /\ i \in DOMAIN cfg.facilities /\ Lists(cfg.facilities[i].services, srv)
              /\ cfg.facilities[i].name \in Name /\ FacilityOfService(srv) = cfg.facilities[i].name
<1> DEFINE fs == cfg.facilities
           found == {i \in DOMAIN fs : Lists(fs[i].services, srv)}
           i == FacilityBySrv(srv)
<1>1. DOMAIN fs = 1 .. Len(fs) /\ Len(fs) \in Nat /\ \A k \in DOMAIN fs : fs[k].name \in Name
  <2> DEFINE F == [name : Name, services : Seq(Name), access : STRING]
  <2>1. fs \in Seq(F) /\ \A f \in F : f.name \in Name
    BY DEF CfgTyped
  <2> HIDE DEF F, fs
  <2> QED BY <2>1
<1>2. i = IF found = {} THEN 0 ELSE CHOOSE k \in found : \A l \in found : l <= k
  BY DEF FacilityBySrv, LastSuch
<1>3. found # {}
  BY <1>2 DEF HasFacility
<1>4. \E k \in found : \A l \in found : l <= k
  <2>1. found \in SUBSET (1 .. Len(fs))
    BY <1>1
  <2> HIDE DEF found, fs
  <2> QED BY <1>1, <1>3, <2>1, LastExists
<1>5. i \in found
  <2> HIDE DEF found, i
  <2> QED BY <1>2, <1>3, <1>4
<1>6. FacilityOfService(srv) = fs[i].name
  BY DEF FacilityOfService, FacilityBySrv
<1> HIDE DEF i
<1> QED BY <1>1, <1>5, <1>6 DEF i

\* A service that a block lists has a facility.
LEMMA ListedFacts ==
    ASSUME CfgTyped, NEW srv, NEW f \in Range(cfg.facilities), Lists(f.services, srv)
    PROVE  HasFacility(srv)
<1> DEFINE fs == cfg.facilities
           found == {i \in DOMAIN fs : Lists(fs[i].services, srv)}
           i == FacilityBySrv(srv)
<1>1. DOMAIN fs = 1 .. Len(fs) /\ Len(fs) \in Nat
  BY DEF CfgTyped
<1>2. i = IF found = {} THEN 0 ELSE CHOOSE k \in found : \A l \in found : l <= k
  BY DEF FacilityBySrv, LastSuch
<1>3. found # {} /\ found \in SUBSET (1 .. Len(fs))
  BY <1>1 DEF Range
<1>4. \E k \in found : \A l \in found : l <= k
  <2> HIDE DEF found, fs
  <2> QED BY <1>1, <1>3, LastExists
<1>5. i \in 1 .. Len(fs)
  <2> HIDE DEF found, i, fs
  <2> QED BY <1>2, <1>3, <1>4
<1>6. i # 0
  <2> HIDE DEF i, fs
  <2> QED BY <1>1, <1>5
<1> QED BY <1>6 DEF HasFacility

\* The group of a name that is listed is the only one of this name.
LEMMA GetByNameFacts ==
    ASSUME Chosen, NEW name, HasGroup(name)
    PROVE  GetByName(name) \in Selected /\ GetByName(name).name = name
<1>1. \E g \in Range(gs) : g.name = name
  BY DEF HasGroup, Range
<1> QED BY <1>1 DEF GetByName, Chosen

\* A service of the organization and an org unit, as they are.
ServiceIsRight(s) ==
    /\ s.name \in Name /\ HasFacility(s.name)
    /\ s.facility \in Name /\ s.facility = FacilityOfService(s.name)
    /\ s.group \in Selected /\ s.group.name = ServiceGroupName(s.name)
    /\ s.opsGroup \in Selected /\ s.opsGroup.name = ServiceGroupName(OpsName(s.facility))
    /\ \E h \in Selected : h.name = OrgUnitGroupName(FacilityDirName(s.facility))
    /\ \E f \in Range(cfg.facilities) :
          Lists(f.services, s.name) /\ s.facility = f.name /\ s.access = AccessOf(f)

OrgUnitIsRight(ou) ==
    /\ ou.name \in Name
    /\ ou.group \in Selected /\ ou.group.name = OrgUnitGroupName(ou.name)
    /\ ou.facility = IF IsFacilityDir(ou.name) THEN FacilityOfDir(ou.name) ELSE NoFacility
    /\ ou.subdirs = SubdirsOf(ou.name)

OrgIsRight(o) ==
    /\ \A i \in DOMAIN o.services : ServiceIsRight(o.services[i])
    /\ \A i, j \in DOMAIN o.services : o.services[i].name = o.services[j].name => i = j
    /\ \A i \in DOMAIN o.ous : OrgUnitIsRight(o.ous[i])

\* All services with a group are there, except those without a facility.
HasAll(o, without) ==
    \A g \in ServiceGroups :
        LET srv == ServiceNameOf(g)
        IN IF HasFacility(srv)
           THEN /\ srv \notin without
                /\ \E i \in DOMAIN o.services : o.services[i].name = srv /\ o.services[i].group = g
           ELSE srv \in without

\* What bcp.New() returns without an error is right, and has every service except those it
\* reports.
LEMMA NewOrgFacts ==
    ASSUME Chosen, CfgTyped, ~ NewFails
    PROVE  OrgIsRight(NewOrg) /\ HasAll(NewOrg, UnconfServices)
<1> DEFINE P == {n \in Name : HasFacility(n)}
           ss == Parts(ServiceNames, P)
           t == FlattenSeq(ss)
           srvs == NewOrg.services
           ous == NewOrg.ous
<1>1. /\ ServiceNames \in Seq(Name) /\ Distinct(ServiceNames) /\ OrgUnitNames \in Seq(Name)
      /\ Range(ServiceNames) = {n \in Name : HasGroup(ServiceGroupName(n)) /\ ~ IsSuffix(OpsName(<<>>), n)}
      /\ Range(OrgUnitNames) = {n \in Name : HasGroup(OrgUnitGroupName(n))}
      /\ Range(FacilityNames) = {n \in Name : HasGroup(OrgUnitGroupName(FacilityDirName(n)))}
  BY ListsFacts
<1>2. ss = [i \in DOMAIN ServiceNames |-> IF HasFacility(ServiceNames[i]) THEN <<ServiceNames[i]>> ELSE <<>>]
  BY <1>1 DEF Parts
<1>3. srvs = [i \in DOMAIN t |-> ServiceOf(t[i])]
  <2>1. srvs = Mapped(Passing(ServiceNames, HasFacility), ServiceOf)
    BY DEF NewOrg
  <2> HIDE DEF ss, srvs
  <2> QED BY <1>2, <2>1 DEF Mapped, Passing
<1>4. ous = [i \in DOMAIN OrgUnitNames |-> OrgUnitOf(OrgUnitNames[i])]
  BY DEF NewOrg, Mapped
<1>5. Distinct(t) /\ Range(t) = Range(ServiceNames) \cap P
  <2> HIDE DEF P
  <2> QED BY <1>1, PassingFacts
<1> HIDE DEF ss, t, srvs, ous
<1>6. ASSUME NEW n \in Name, n \in Range(ServiceNames), HasFacility(n)
      PROVE  ServiceIsRight(ServiceOf(n)) /\ ServiceOf(n).name = n
  <2> DEFINE s == ServiceOf(n)
             f == cfg.facilities[FacilityBySrv(n)]
  <2>1. /\ FacilityBySrv(n) \in DOMAIN cfg.facilities
        /\ f.name \in Name /\ FacilityOfService(n) = f.name
        /\ Lists(f.services, n)
    BY <1>6, FacilityFacts
  <2>2. /\ s.name = n /\ s.facility = f.name /\ s.access = AccessOf(f)
        /\ s.group = GetByName(ServiceGroupName(n))
        /\ s.opsGroup = GetByName(ServiceGroupName(OpsName(f.name)))
    BY DEF ServiceOf
  <2>3. HasGroup(ServiceGroupName(OpsName(f.name)))
    <3>1. PICK i \in DOMAIN ServiceNames : ServiceNames[i] = n
      BY <1>6 DEF Range
    <3>2. ~ GroupsAreMissing(n)
      BY <1>6, <3>1 DEF NewFails
    <3> QED BY <3>2 DEF GroupsAreMissing
  <2>4. HasGroup(OrgUnitGroupName(FacilityDirName(f.name)))
    <3>1. Lists(FacilityNames, f.name)
      BY <2>1 DEF NewFails
    <3>2. f.name \in Range(FacilityNames)
      BY <3>1 DEF Lists, Range
    <3> QED BY <1>1, <3>2
  <2>5. HasGroup(ServiceGroupName(n))
    BY <1>1, <1>6
  <2>6. /\ s.group \in Selected /\ s.group.name = ServiceGroupName(n)
        /\ s.opsGroup \in Selected /\ s.opsGroup.name = ServiceGroupName(OpsName(f.name))
    <3> HIDE DEF s, f
    <3> QED BY <2>2, <2>3, <2>5, GetByNameFacts
  <2>7. \E h \in Selected : h.name = OrgUnitGroupName(FacilityDirName(f.name))
    <3> HIDE DEF f
    <3> QED BY <2>4, GetByNameFacts
  <2>8. f \in Range(cfg.facilities)
    BY <2>1 DEF Range
  <2> HIDE DEF s, f
  <2>9. ServiceIsRight(s)
    BY <1>6, <2>1, <2>2, <2>6, <2>7, <2>8 DEF ServiceIsRight
  <2> QED BY <2>2, <2>9 DEF s
<1>7. \A i \in DOMAIN t : t[i] \in Name /\ t[i] \in Range(ServiceNames) /\ HasFacility(t[i])
  BY <1>5 DEF Range
<1>8. \A i \in DOMAIN srvs : i \in DOMAIN t /\ ServiceIsRight(srvs[i]) /\ srvs[i].name = t[i]
  BY <1>3, <1>6, <1>7
<1>9. \A i, j \in DOMAIN srvs : srvs[i].name = srvs[j].name => i = j
  BY <1>5, <1>8 DEF Distinct
<1>10. ASSUME NEW i \in DOMAIN ous PROVE OrgUnitIsRight(ous[i])
  <2> DEFINE n == OrgUnitNames[i]
             ou == OrgUnitOf(n)
  <2>1. ous[i] = ou /\ n \in Range(OrgUnitNames)
    BY <1>4, <1>10 DEF Range
  <2>2. n \in Name /\ HasGroup(OrgUnitGroupName(n))
    BY <1>1, <2>1
  <2> HIDE DEF n
  <2>3. /\ ou.name = n /\ ou.subdirs = SubdirsOf(n) /\ ou.group = GetByName(OrgUnitGroupName(n))
        /\ ou.facility = IF IsFacilityDir(n) THEN FacilityOfDir(n) ELSE NoFacility
    BY DEF OrgUnitOf
  <2> HIDE DEF ou
  <2>4. OrgUnitIsRight(ou)
    BY <2>2, <2>3, GetByNameFacts DEF OrgUnitIsRight
  <2> QED BY <2>1, <2>4
<1>11. OrgIsRight(NewOrg)
  BY <1>8, <1>9, <1>10 DEF OrgIsRight, srvs, ous
<1>12. HasAll(NewOrg, UnconfServices)
  <2>1. SUFFICES ASSUME NEW g \in ServiceGroups
                 PROVE  LET srv == ServiceNameOf(g)
                        IN IF HasFacility(srv)
                           THEN /\ srv \notin UnconfServices
                                /\ \E i \in DOMAIN srvs : srvs[i].name = srv /\ srvs[i].group = g
                           ELSE srv \in UnconfServices
    BY DEF HasAll, srvs
  <2>2. /\ g \in Selected /\ IsPrefix(ServiceGroupName(<<>>), g.name)
        /\ ~ IsSuffix(OpsName(<<>>), g.name)
    BY <2>1 DEF ServiceGroups
  <2> DEFINE p == ServiceGroupName(<<>>)
             q == OpsName(<<>>)
             n == From(g.name, Len(p))
  <2>3. p \in Name /\ q \in Name /\ g.name \in Name /\ \A m \in Name : p \o m = ServiceGroupName(m)
    <3>1. g \in AllGroups
      <4>1. g \in Range(gs) /\ gs \in Seq(AllGroups)
        BY <2>2 DEF Chosen
      <4> QED BY <4>1 DEF Range
    <3> QED BY <3>1, GroupNames, FixedNames
  <2>4. n \in Name /\ g.name = p \o n
    <3> HIDE DEF p
    <3> QED BY <2>2, <2>3, PrefixFacts DEF p
  <2>5. ServiceNameOf(g) = n
    BY DEF ServiceNameOf
  <2> HIDE DEF n
  <2>6. ~ IsSuffix(q, n)
    <3>1. IsSuffix(q, n) => IsSuffix(q, p \o n)
      <4> HIDE DEF p, q
      <4> QED BY <2>3, <2>4, SuffixFacts
    <3> QED BY <2>2, <2>4, <3>1
  <2>7. HasGroup(ServiceGroupName(n))
    <3>1. g \in Range(gs) /\ g.name = ServiceGroupName(n)
      BY <2>2, <2>3, <2>4 DEF Chosen
    <3> QED BY <3>1 DEF HasGroup, Range
  <2>8. n \in Range(ServiceNames)
    BY <1>1, <2>4, <2>6, <2>7
  <2>9. CASE HasFacility(n)
    <3>1. n \in Range(t)
      BY <1>5, <2>4, <2>8, <2>9
    <3>2. PICK i \in DOMAIN t : t[i] = n
      BY <3>1 DEF Range
    <3>3. i \in DOMAIN srvs /\ srvs[i].name = n /\ ServiceIsRight(srvs[i])
      BY <1>3, <1>8, <3>2
    <3>4. srvs[i].group \in Selected /\ srvs[i].group.name = g.name
      BY <2>3, <2>4, <3>3 DEF ServiceIsRight
    <3>5. srvs[i].group = g
      BY <2>2, <3>4 DEF Chosen, Conflict
    <3>6. n \notin UnconfServices
      BY <2>9 DEF UnconfServices
    <3> QED BY <2>9, <2>5, <3>3, <3>5, <3>6
  <2>10. CASE ~ HasFacility(n)
    <3>1. n \in UnconfServices
      BY <2>8, <2>10 DEF UnconfServices
    <3> QED BY <2>5, <2>10, <3>1
  <2> QED BY <2>9, <2>10
<1> QED BY <1>11, <1>12

-----------------------------------------------------------------------------
\* The organization.

OrgInv ==
    /\ pc = "load" => cfg = file
    /\ CfgTyped
    /\ pc = "new" => Chosen
    /\ pc \in {"filter", "ready", "described"} => OrgIsRight(org) /\ HasAll(org, unconf)

\* The attributes of a config file.
LEMMA FileTyped ==
    ASSUME NEW f \in Files
    PROVE  /\ f \in ConfigFile
           /\ f.superGroup \in Name
           /\ f.orgUnitPrefix \in Name /\ f.servicePrefix \in Name
           /\ f.opsSuffix \in Name /\ f.facilitySuffix \in Name
           /\ f.facilities \in Seq([name : Name, services : Seq(Name), access : STRING])
  BY FilesAssumption DEF ConfigFile

\* A default is a name.
LEMMA DefaultFacts ==
    ASSUME NEW n \in Name, NEW x \in Syllables
    PROVE  Default(n, x) \in Name
<1>1. <<x>> \in Seq(Syllables)
  OBVIOUS
<1> QED BY <1>1 DEF Default, Name

\* The rest of the variables does not matter to what is right.
LEMMA SameConfig ==
    ASSUME UNCHANGED <<cfg, lines>>
    PROVE  /\ CfgTyped' = CfgTyped /\ Selected' = Selected /\ ServiceGroups' = ServiceGroups
           /\ \A n : /\ ServiceGroupName(n)' = ServiceGroupName(n) /\ OpsName(n)' = OpsName(n)
                     /\ OrgUnitGroupName(n)' = OrgUnitGroupName(n)
                     /\ FacilityDirName(n)' = FacilityDirName(n)
                     /\ HasFacility(n)' = HasFacility(n) /\ FacilityOfService(n)' = FacilityOfService(n)
                     /\ IsFacilityDir(n)' = IsFacilityDir(n) /\ FacilityOfDir(n)' = FacilityOfDir(n)
                     /\ SubdirsOf(n)' = SubdirsOf(n) /\ ServiceNameOf(n)' = ServiceNameOf(n)
<1>1. CfgTyped' = CfgTyped
  BY DEF CfgTyped
<1>2. Selected' = Selected
  BY DEF Selected, IsSelected, OrgUnitGroupName, ServiceGroupName
<1>3. ASSUME NEW n
      PROVE  /\ ServiceGroupName(n)' = ServiceGroupName(n) /\ OpsName(n)' = OpsName(n)
             /\ OrgUnitGroupName(n)' = OrgUnitGroupName(n)
             /\ FacilityDirName(n)' = FacilityDirName(n)
  BY DEF ServiceGroupName, OpsName, OrgUnitGroupName, FacilityDirName
<1>4. ASSUME NEW n
      PROVE  HasFacility(n)' = HasFacility(n) /\ FacilityOfService(n)' = FacilityOfService(n)
  BY DEF HasFacility, FacilityBySrv, FacilityOfService, LastSuch, Lists
<1>5. ASSUME NEW n
      PROVE  IsFacilityDir(n)' = IsFacilityDir(n) /\ FacilityOfDir(n)' = FacilityOfDir(n)
  BY DEF IsFacilityDir, FacilityOfDir, FacilityDirName
<1>6. ASSUME NEW n PROVE SubdirsOf(n)' = SubdirsOf(n)
  BY DEF SubdirsOf, LastSuch, DirsOf
<1>7. ServiceGroups' = ServiceGroups
  BY <1>2 DEF ServiceGroups, ServiceGroupName, OpsName
<1>8. ASSUME NEW n PROVE ServiceNameOf(n)' = ServiceNameOf(n)
  BY DEF ServiceNameOf, ServiceGroupName
<1> QED BY <1>1, <1>2, <1>3, <1>4, <1>5, <1>6, <1>7, <1>8

\* An organization stays right as long as the configuration and the groups are the same.
LEMMA SameOrg ==
    ASSUME UNCHANGED <<cfg, lines>>, NEW o, NEW without
    PROVE  OrgIsRight(o)' = OrgIsRight(o) /\ HasAll(o, without)' = HasAll(o, without)
<1>1. \A s : ServiceIsRight(s)' = ServiceIsRight(s)
  BY SameConfig DEF ServiceIsRight
<1>2. \A ou : OrgUnitIsRight(ou)' = OrgUnitIsRight(ou)
  BY SameConfig DEF OrgUnitIsRight
<1>3. HasAll(o, without)' = HasAll(o, without)
  BY SameConfig DEF HasAll
<1> QED BY <1>1, <1>2, <1>3 DEF OrgIsRight

\* The organization is made of the groups as they have been selected and sorted.
LEMMA OrgStep ==
    ASSUME IInv, OrgInv, [Next]_vars
    PROVE  OrgInv'
<1> USE DEF Fatal, inputs, dedup
<1>1. CASE LoadConfig
  <2>1. file \in Files /\ cfg = file
    BY <1>1 DEF LoadConfig, OrgInv, IInv, TypeOK
  <2>2. CASE pc' = "getent"
    <3>1. cfg' = [cfg EXCEPT !.opsSuffix = Default(@, "ops"),
                             !.facilitySuffix = Default(@, "facility"),
                             !.filter = Mapped(@, RuleOf)]
      BY <1>1, <2>1, <2>2 DEF LoadConfig, Configured
    <3>2. /\ cfg'.superGroup = cfg.superGroup /\ cfg'.facilities = cfg.facilities
          /\ cfg'.orgUnitPrefix = cfg.orgUnitPrefix /\ cfg'.servicePrefix = cfg.servicePrefix
          /\ cfg'.opsSuffix = Default(cfg.opsSuffix, "ops")
          /\ cfg'.facilitySuffix = Default(cfg.facilitySuffix, "facility")
      BY <2>1, <3>1, FileTyped DEF ConfigFile
    <3>3. cfg'.opsSuffix \in Name /\ cfg'.facilitySuffix \in Name
      BY <2>1, <3>2, FileTyped, DefaultFacts, SyllablesAssumption
    <3> QED BY <2>1, <2>2, <3>2, <3>3, FileTyped DEF OrgInv, CfgTyped
  <2>3. CASE pc' = "fatal"
    <3>1. cfg' = cfg
      BY <1>1, <2>3 DEF LoadConfig
    <3> QED BY <2>3, <3>1 DEF OrgInv, CfgTyped
  <2> QED BY <1>1, <2>2, <2>3 DEF LoadConfig
<1>2. CASE GetGroups \/ SelectGroup \/ SelectDone \/ DedupGroup \/ DedupDone
  <2>1. UNCHANGED <<cfg, lines>> /\ pc' \notin {"load", "new", "filter", "ready", "described"}
    BY <1>2 DEF GetGroups, SelectGroup, SelectDone, DedupGroup, DedupDone
  <2> QED BY <2>1, SameConfig DEF OrgInv
<1>3. CASE SortGroups
  <2>1. /\ pc = "sort" /\ pc' = "new" /\ UNCHANGED <<cfg, lines>>
        /\ gs' = SortedGroups
    BY <1>3 DEF SortGroups, SortedGroups, SortedIndex
  <2>2. /\ gs \in Seq(AllGroups) /\ Range(gs) = Selected /\ Distinct(gs)
        /\ \A g, h \in Selected : ~ Conflict(g, h)
    BY <2>1 DEF IInv, TypeOK, DedupIsRight, Distinct
  <2>3. \A g \in Range(gs) : g.name \in Range(NameOrder)
    <3>1. \A g \in Range(gs) : g \in AllGroups
      BY <2>2 DEF Range
    <3> QED BY <3>1, GroupNames
  <2>4. SortedGroups \in Seq(AllGroups) /\ Range(SortedGroups) = Range(gs) /\ Distinct(SortedGroups)
    BY <2>2, <2>3, SortFacts
  <2>5. Range(gs') = Selected' /\ Distinct(gs') /\ gs' \in Seq(AllGroups)
    BY <2>1, <2>2, <2>4, SameConfig
  <2>6. \A g, h \in Selected' : ~ Conflict(g, h)
    BY <2>1, <2>2, SameConfig
  <2>7. Chosen'
    BY <2>5, <2>6 DEF Chosen
  <2> QED BY <2>1, <2>7, SameConfig DEF OrgInv
<1>4. CASE New
  <2>1. pc = "new" /\ UNCHANGED <<cfg, lines>> /\ Chosen /\ CfgTyped
    BY <1>4 DEF New, OrgInv
  <2>2. CASE NewFails
    BY <1>4, <2>1, <2>2, SameConfig DEF New, OrgInv
  <2>3. CASE ~ NewFails
    <3>1. org' = NewOrg /\ unconf' = UnconfServices /\ pc' = "filter"
      BY <1>4, <2>3 DEF New
    <3>2. OrgIsRight(NewOrg) /\ HasAll(NewOrg, UnconfServices)
      BY <2>1, <2>3, NewOrgFacts
    <3>3. OrgIsRight(org)' /\ HasAll(org, unconf)'
      BY <2>1, <3>1, <3>2, SameOrg
    <3> QED BY <2>1, <3>1, <3>3, SameConfig DEF OrgInv
  <2> QED BY <2>2, <2>3
<1>5. CASE CompileFilter \/ Describe
  <2>1. pc = "filter" /\ UNCHANGED <<cfg, lines, org, unconf>>
    BY <1>5 DEF CompileFilter, Describe
  <2>2. OrgIsRight(org)' /\ HasAll(org, unconf)'
    BY <2>1, SameOrg DEF OrgInv
  <2>3. pc' \in {"ready", "described", "fatal"}
    BY <1>5 DEF CompileFilter, Describe
  <2> QED BY <2>1, <2>2, <2>3, SameConfig DEF OrgInv
<1>6. CASE UNCHANGED vars
  <2>1. UNCHANGED <<pc, file, cfg, lines, gs, org, unconf>>
    BY <1>6 DEF vars
  <2>2. Chosen' = Chosen
    BY <2>1, SameConfig DEF Chosen
  <2>3. OrgIsRight(org)' = OrgIsRight(org) /\ HasAll(org, unconf)' = HasAll(org, unconf)
    BY <2>1, SameOrg
  <2> QED BY <2>1, <2>2, <2>3, SameConfig DEF OrgInv
<1> QED BY <1>1, <1>2, <1>3, <1>4, <1>5, <1>6 DEF Next

\* bcp.New() returns each service that has a group and that a block lists, complete and once,
\* and reports the others, for all configurations and databases.
THEOREM ServicesCorrect == Spec => []ServicesAreComplete
<1>1. Init => OrgInv
  <2> SUFFICES ASSUME Init PROVE OrgInv
    OBVIOUS
  <2>1. cfg = file /\ file \in Files /\ pc = "load"
    BY DEF Init
  <2> QED BY <2>1, FileTyped DEF OrgInv, CfgTyped
<1>2. IInv /\ OrgInv /\ [Next]_vars => OrgInv'
  BY OrgStep
<1>3. OrgInv => ServicesAreComplete
  <2> DEFINE IsListed(srv) == \E f \in Range(cfg.facilities) : Lists(f.services, srv)
             Entries(srv) == {i \in DOMAIN org.services : org.services[i].name = srv}
  <2> SUFFICES ASSUME OrgInv, pc \in {"filter", "ready", "described"}, NEW g \in ServiceGroups
               PROVE  LET srv == ServiceNameOf(g)
                      IN IF IsListed(srv)
                         THEN /\ srv \notin unconf
                              /\ \E i \in Entries(srv) :
                                    /\ Entries(srv) = {i}
                                    /\ org.services[i].group = g
                                    /\ \E f \in Range(cfg.facilities) :
                                          IsServiceOf(org.services[i], f)
                         ELSE srv \in unconf /\ Entries(srv) = {}
    BY DEF ServicesAreComplete
  <2> DEFINE srv == ServiceNameOf(g)
  <2>1. OrgIsRight(org) /\ HasAll(org, unconf) /\ CfgTyped
    BY DEF OrgInv
  <2>2. \A i \in DOMAIN org.services : ServiceIsRight(org.services[i])
    BY <2>1 DEF OrgIsRight
  <2>3. CASE IsListed(srv)
    <3>1. HasFacility(srv)
      BY <2>1, <2>3, ListedFacts
    <3>2. srv \notin unconf
      BY <2>1, <3>1 DEF HasAll
    <3>3. PICK i \in DOMAIN org.services : org.services[i].name = srv /\ org.services[i].group = g
      BY <2>1, <3>1 DEF HasAll
    <3>4. Entries(srv) = {i}
      BY <2>1, <3>3 DEF OrgIsRight
    <3>5. \E f \in Range(cfg.facilities) : IsServiceOf(org.services[i], f)
      BY <2>2 DEF ServiceIsRight, IsServiceOf
    <3> QED BY <2>3, <3>2, <3>3, <3>4, <3>5
  <2>4. CASE ~ IsListed(srv)
    <3>1. ASSUME NEW i \in Entries(srv) PROVE FALSE
      BY <2>2, <2>4, <3>1 DEF ServiceIsRight
    <3>2. ~ HasFacility(srv)
      <4>1. SUFFICES ASSUME HasFacility(srv) PROVE IsListed(srv)
        BY <2>4
      <4>2. /\ FacilityBySrv(srv) \in DOMAIN cfg.facilities
            /\ Lists(cfg.facilities[FacilityBySrv(srv)].services, srv)
        BY <2>1, <4>1, FacilityFacts
      <4> QED BY <4>2 DEF Range
    <3>3. srv \in unconf
      BY <2>1, <3>2 DEF HasAll
    <3> QED BY <2>4, <3>1, <3>3
  <2> QED BY <2>3, <2>4
<1> QED BY <1>1, <1>2, <1>3, LoopsCorrect, PTL DEF Spec

-----------------------------------------------------------------------------
\* The filter.

\* An alternative with both anchors matches whole names only.
LEMMA AlternativeFacts ==
    ASSUME NEW alt \in [lit : Name, open : BOOLEAN], NEW name \in Name
    PROVE  MatchesAlternative(alt, name, TRUE, TRUE)
              <=> IF alt.open THEN IsPrefix(alt.lit, name) ELSE alt.lit = name
<1> DEFINE lit == alt.lit
<1>1. lit \in Name /\ alt.open \in BOOLEAN /\ Len(lit) \in Nat /\ Len(name) \in Nat
  BY DEF Name
<1>2. From(name, 0) = name
  BY SubSeqFull DEF From, Name
<1>3. MatchesAlternative(alt, name, TRUE, TRUE)
         <=> IsPrefix(lit, name) /\ (~ alt.open => Len(lit) = Len(name))
  <2>1. MatchesAlternative(alt, name, TRUE, TRUE)
           <=> IsPrefix(lit, From(name, 0)) /\ (~ alt.open => 0 + Len(lit) = Len(name))
    <3>1. 0 \in 0 .. Len(name)
      BY <1>1
    <3> QED BY <3>1 DEF MatchesAlternative
  <2>2. 0 + Len(lit) = Len(lit)
    BY <1>1
  <2> QED BY <1>2, <2>1, <2>2, Zenon
<1>4. IsPrefix(lit, name) /\ Len(lit) = Len(name) <=> lit = name
  <2>1. ASSUME IsPrefix(lit, name), Len(lit) = Len(name) PROVE lit = name
    <3> HIDE DEF lit
    <3>1. \A i \in 1 .. Len(lit) : lit[i] = name[i]
      BY <1>1, <2>1, IsPrefixFacts
    <3> QED BY <1>1, <2>1, <3>1, SeqEqual DEF Name
  <2>2. ASSUME lit = name PROVE IsPrefix(lit, name)
    <3> HIDE DEF lit
    <3> QED BY <1>1, <2>2, IsPrefixFacts
  <2> QED BY <2>1, <2>2
<1> QED BY <1>1, <1>3, <1>4

\* What a list of patterns becomes matches the names that one of them is about.
LEMMA PatternFacts ==
    ASSUME NEW ps \in Seq(Pattern), Len(ps) = 1 => Len(ps[1]) = 1, NEW name \in Name
    PROVE  MatchesPatterns(ps, name) <=> NamesWhole(ps, name)
<1> DEFINE Alt == [lit : Name, open : BOOLEAN]
           Whole(alt) == IF alt.open THEN IsPrefix(alt.lit, name) ELSE alt.lit = name
<1>1. ASSUME NEW i \in DOMAIN ps, NEW j \in DOMAIN ps[i]
      PROVE  MatchesAlternative(ps[i][j], name, TRUE, TRUE) <=> Whole(ps[i][j])
  <2>1. ps[i] \in Seq(Alt)
    BY DEF Pattern
  <2> HIDE DEF Alt
  <2>2. ps[i][j] \in Alt
    BY <2>1
  <2> QED BY <2>2, AlternativeFacts DEF Alt
<1>2. NamesWhole(ps, name) <=> \E i \in DOMAIN ps : \E j \in DOMAIN ps[i] : Whole(ps[i][j])
  BY DEF NamesWhole
<1> HIDE DEF Whole
<1>3. CASE Len(ps) = 1
  <2>1. DOMAIN ps = {1} /\ ps[1] \in Seq(Alt) /\ Len(ps[1]) = 1
    BY <1>3 DEF Pattern
  <2>2. DOMAIN ps[1] = {1} /\ ps[1] # <<>>
    <3> HIDE DEF Alt
    <3> QED BY <2>1
  <2>3. MatchesPatterns(ps, name) <=> MatchesAlternative(ps[1][1], name, TRUE, TRUE)
    <3>1. MatchesPatterns(ps, name) <=> MatchesAnchored(ps[1], name)
      BY <1>3, <2>2 DEF MatchesPatterns
    <3>2. MatchesAnchored(ps[1], name) <=> MatchesAlternative(ps[1][1], name, 1 = 1, 1 = Len(ps[1]))
      BY <2>2 DEF MatchesAnchored
    <3>3. MatchesAlternative(ps[1][1], name, 1 = 1, 1 = Len(ps[1])) <=> MatchesAlternative(ps[1][1], name, TRUE, TRUE)
      BY <2>1 DEF MatchesAlternative
    <3> QED BY <3>1, <3>2, <3>3
  <2> QED BY <1>1, <1>2, <2>1, <2>2, <2>3
<1>4. CASE Len(ps) # 1
  <2>1. MatchesPatterns(ps, name)
           <=> \E i \in DOMAIN ps : \E j \in DOMAIN ps[i] : MatchesAlternative(ps[i][j], name, TRUE, TRUE)
    BY <1>4 DEF MatchesPatterns
  <2> QED BY <1>1, <1>2, <2>1
<1> QED BY <1>3, <1>4

\* The configuration is that of the file, which is valid.
ConfigInv == pc \notin {"load", "fatal"} => cfg = Configured(file) /\ Valid(file)

\* The configuration is what MustLoadConfig() has made of the file, and nothing changes it.
LEMMA ConfigStep ==
    ASSUME TypeOK, OrgInv, ConfigInv, [Next]_vars
    PROVE  ConfigInv'
<1> USE DEF Fatal, inputs, dedup
<1>1. CASE LoadConfig
  BY <1>1 DEF LoadConfig, ConfigInv
<1>2. CASE GetGroups \/ SelectGroup \/ SelectDone \/ DedupGroup \/ DedupDone \/ SortGroups \/ New \/ CompileFilter
            \/ Describe
  <2>1. UNCHANGED <<cfg, file>> /\ pc \notin {"load", "fatal"}
    BY <1>2 DEF GetGroups, SelectGroup, SelectDone, DedupGroup, DedupDone, SortGroups, New, CompileFilter,
                Describe
  <2>2. Configured(file)' = Configured(file) /\ Valid(file)' = Valid(file)
    BY <2>1
  <2> QED BY <2>1, <2>2 DEF ConfigInv
<1>3. CASE UNCHANGED vars
  BY <1>3 DEF vars, ConfigInv
<1> QED BY <1>1, <1>2, <1>3 DEF Next

\* What MustLoadConfig() makes of a file.
LEMMA ConfiguredFacts ==
    ASSUME NEW f \in Files
    PROVE  LET c == Configured(f)
           IN /\ c.filter = [i \in DOMAIN f.filter |-> RuleOf(f.filter[i])]
              /\ f.filter \in Seq([action : STRING, service : Pattern, services : Seq(Pattern),
                                   orgUnit : Pattern, orgUnits : Seq(Pattern)])
              /\ c.facilities = f.facilities /\ c.orgUnitPrefix = f.orgUnitPrefix
              /\ c.orgUnits = f.orgUnits /\ c.symlinks = f.symlinks
              /\ c.opsSuffix = Default(f.opsSuffix, "ops")
              /\ c.facilitySuffix = Default(f.facilitySuffix, "facility")
<1>1. f \in ConfigFile
  BY FileTyped
<1>2. /\ f.filter \in Seq([action : STRING, service : Pattern, services : Seq(Pattern),
                           orgUnit : Pattern, orgUnits : Seq(Pattern)])
  BY <1>1 DEF ConfigFile
<1>3. LET c == Configured(f)
      IN /\ c.filter = Mapped(f.filter, RuleOf)
         /\ c.facilities = f.facilities /\ c.orgUnitPrefix = f.orgUnitPrefix
         /\ c.orgUnits = f.orgUnits /\ c.symlinks = f.symlinks
         /\ c.opsSuffix = Default(f.opsSuffix, "ops")
         /\ c.facilitySuffix = Default(f.facilitySuffix, "facility")
  BY <1>1 DEF Configured, ConfigFile
<1>4. Mapped(f.filter, RuleOf) = [i \in DOMAIN f.filter |-> RuleOf(f.filter[i])]
  BY DEF Mapped
<1> QED BY <1>2, <1>3, <1>4

\* The rules that are about a service and an org unit are those that match them.
LEMMA RuleFacts ==
    ASSUME OneAlternative(Files), file \in Files, cfg = Configured(file),
           NEW s \in ServicesOf(org), s.name \in Name, NEW ou \in OusOf(org), ou.name \in Name
    PROVE  /\ DOMAIN cfg.filter = 1 .. Len(cfg.filter) /\ Len(cfg.filter) \in Nat
           /\ \A i \in DOMAIN cfg.filter :
                 RuleIsAbout(cfg.filter[i], s, ou) <=> Apply!Matches(CompiledRule(cfg.filter[i]), s, ou)
<1> DEFINE Rule == [action : STRING, service : Pattern, services : Seq(Pattern),
                    orgUnit : Pattern, orgUnits : Seq(Pattern)]
           rs == file.filter
<1>1. cfg.filter = [i \in DOMAIN rs |-> RuleOf(rs[i])] /\ rs \in Seq(Rule)
  BY ConfiguredFacts
<1>2. DOMAIN rs = 1 .. Len(rs) /\ Len(rs) \in Nat /\ \A i \in DOMAIN rs : rs[i] \in Rule
  <2> HIDE DEF Rule, rs
  <2> QED BY <1>1
<1>3. DOMAIN cfg.filter = 1 .. Len(cfg.filter) /\ Len(cfg.filter) \in Nat
  <2> HIDE DEF Rule, rs
  <2>1. cfg.filter = [i \in 1 .. Len(rs) |-> RuleOf(rs[i])]
    BY <1>1, <1>2
  <2> QED BY <1>2, <2>1
<1>4. ASSUME NEW i \in DOMAIN cfg.filter
      PROVE  RuleIsAbout(cfg.filter[i], s, ou) <=> Apply!Matches(CompiledRule(cfg.filter[i]), s, ou)
  <2> DEFINE r == rs[i]
             rule == RuleOf(r)
  <2>1. i \in DOMAIN rs /\ cfg.filter[i] = rule /\ r \in Rule
    <3> HIDE DEF Rule, rs
    <3> QED BY <1>1, <1>2
  <2>2. \A one \in Pattern, list \in Seq(Pattern) : ListOf(one, list) \in Seq(Pattern)
    <3>1. SUFFICES ASSUME NEW one \in Pattern, NEW list \in Seq(Pattern)
                   PROVE  ListOf(one, list) \in Seq(Pattern)
      OBVIOUS
    <3>2. <<one>> \in Seq(Pattern)
      OBVIOUS
    <3> QED BY <3>2 DEF ListOf
  <2>3. rule.services \in Seq(Pattern) /\ rule.orgUnits \in Seq(Pattern)
    <3>1. r.service \in Pattern /\ r.services \in Seq(Pattern) /\ r.orgUnit \in Pattern /\ r.orgUnits \in Seq(Pattern)
      BY <2>1
    <3> QED BY <2>2, <3>1 DEF RuleOf
  <2>4. /\ Len(rule.services) = 1 => Len(rule.services[1]) = 1
        /\ Len(rule.orgUnits) = 1 => Len(rule.orgUnits[1]) = 1
    <3>1. \A ps \in {rule.services, rule.orgUnits} : Len(ps) = 1 => Len(ps[1]) = 1
      BY <2>1 DEF OneAlternative
    <3> QED BY <3>1
  <2> HIDE DEF rule
  <2>5. /\ MatchesPatterns(rule.services, s.name) <=> NamesWhole(rule.services, s.name)
        /\ MatchesPatterns(rule.orgUnits, ou.name) <=> NamesWhole(rule.orgUnits, ou.name)
    BY <2>3, <2>4, PatternFacts
  <2>6. /\ s.name \in CompiledRule(rule).services <=> MatchesPatterns(rule.services, s.name)
        /\ ou.name \in CompiledRule(rule).ous <=> MatchesPatterns(rule.orgUnits, ou.name)
    BY DEF CompiledRule
  <2> QED BY <2>1, <2>5, <2>6 DEF RuleIsAbout, Apply!Matches
<1> QED BY <1>3, <1>4

\* The facility of an org unit is the one with the name of which it begins.
LEMMA SameFacilityFacts ==
    ASSUME FacilitiesApart(Files, Databases), TypeOK, OrgInv, cfg = Configured(file),
           NEW s \in ServicesOf(org), ServiceIsRight(s), NEW ou \in OusOf(org), OrgUnitIsRight(ou)
    PROVE  Apply!SameFacilityAccepts(s, ou) <=> ou.facility = s.facility
<1> DEFINE q == FacilityDirName(<<>>)
           before(m) == SubSeq(m, 1, Len(m) - Len(q))
           p == OrgUnitGroupName(<<>>)
<1>1. file \in Files /\ lines \in Databases /\ CfgTyped
  BY DEF TypeOK, OrgInv
<1>2. /\ q \in Name /\ p \in Name
      /\ \A n \in Name : p \o n = OrgUnitGroupName(n) /\ n \o q = FacilityDirName(n) /\ FacilityDirName(n) \in Name
  BY <1>1, FixedNames
<1>3. s.facility \in Name /\ ou.name \in Name
  BY DEF ServiceIsRight, OrgUnitIsRight
<1>4. Apply!SameFacilityAccepts(s, ou) <=> ou.facility # NoFacility /\ IsPrefix(s.facility, ou.name)
  BY DEF Apply!SameFacilityAccepts, Apply!IsFacility, NameIsPrefix
<1>5. ou.facility = IF IsSuffix(q, ou.name) THEN before(ou.name) ELSE NoFacility
  BY DEF OrgUnitIsRight, IsFacilityDir, FacilityOfDir
<1>6. /\ before(ou.name) \in Name
      /\ IsSuffix(q, ou.name) => ou.name = before(ou.name) \o q
      /\ \A n \in Name : IsSuffix(q, n \o q) /\ before(n \o q) = n
  <2> HIDE DEF q
  <2> QED BY <1>2, <1>3, SuffixFacts
<1>7. ASSUME IsSuffix(q, ou.name), IsPrefix(s.facility, ou.name)
      PROVE  ou.name = s.facility \o q
  <2> DEFINE pre == cfg.orgUnitPrefix
             suffix == <<"-">> \o cfg.facilitySuffix
  <2>1. q = suffix
    <3>1. \A x : <<x>> \in Seq({x})
      OBVIOUS
    <3>2. <<>> \o <<"-">> = <<"-">>
      BY <3>1, ConcatEmptySeq
    <3> QED BY <3>2 DEF FacilityDirName
  <2>2. PICK i \in DOMAIN cfg.facilities : cfg.facilities[i].name = s.facility
    BY <1>1, FacilityFacts DEF ServiceIsRight
  <2>3. PICK g \in Selected : g.name = OrgUnitGroupName(ou.name)
    BY DEF OrgUnitIsRight
  <2>4. PICK j \in DOMAIN lines : g = GroupOf(lines[j])
    BY <2>3 DEF Selected, Range
  <2>5. lines[j].name = p \o ou.name
    BY <1>2, <1>3, <2>3, <2>4 DEF GroupOf
  <2>6. Len(p) = Len(pre) + 1
    <3> DEFINE u == <<"_">>
    <3>1. pre \in Name /\ u \in Name /\ Len(u) = 1 /\ Len(pre) \in Nat
      <4>1. \A x \in Syllables : <<x>> \in Seq(Syllables) /\ Len(<<x>>) = 1
        OBVIOUS
      <4>2. u \in Name /\ Len(u) = 1
        BY <4>1, SyllablesAssumption DEF Name
      <4>3. pre \in Name
        BY <1>1 DEF CfgTyped
      <4> HIDE DEF pre, u
      <4>4. Len(pre) \in Nat
        BY <4>3 DEF Name
      <4> QED BY <4>2, <4>3, <4>4
    <3> HIDE DEF pre, u
    <3>2. (pre \o u) \o <<>> = pre \o u /\ Len(pre \o u) = Len(pre) + Len(u)
      BY <3>1, ConcatProperties, ConcatEmptySeq DEF Name
    <3>3. p = (pre \o u) \o <<>>
      BY DEF OrgUnitGroupName, pre, u
    <3> QED BY <3>1, <3>2, <3>3
  <2>7. From(lines[j].name, Len(pre) + 1) = ou.name
    <3> HIDE DEF p, pre
    <3>1. From(p \o ou.name, Len(p)) = ou.name
      BY <1>2, <1>3, PrefixFacts
    <3> QED BY <2>5, <2>6, <3>1
  <2>8. cfg.facilities = file.facilities /\ pre = file.orgUnitPrefix
    BY <1>1, ConfiguredFacts
  <2>9. IsSuffix(suffix, ou.name) /\ IsPrefix(s.facility, ou.name) => ou.name = s.facility \o suffix
    <3> DEFINE dir == <<"-">> \o Configured(file).facilitySuffix
    <3>1. \A k \in DOMAIN file.facilities :
             LET ou1 == From(lines[j].name, Len(file.orgUnitPrefix) + 1)
             IN IsSuffix(dir, ou1) /\ IsPrefix(file.facilities[k].name, ou1)
                => ou1 = file.facilities[k].name \o dir
      BY <1>1, <2>4 DEF FacilitiesApart
    <3>2. i \in DOMAIN file.facilities /\ file.facilities[i].name = s.facility
      BY <2>2, <2>8
    <3>3. From(lines[j].name, Len(file.orgUnitPrefix) + 1) = ou.name
      BY <2>7, <2>8
    <3> HIDE DEF dir
    <3>4. IsSuffix(dir, ou.name) /\ IsPrefix(s.facility, ou.name) => ou.name = s.facility \o dir
      BY <3>1, <3>2, <3>3
    <3> QED BY <3>4 DEF dir
  <2> QED BY <1>7, <2>1, <2>9
<1>8. IsPrefix(s.facility, s.facility \o q)
  <2> HIDE DEF q
  <2> QED BY <1>2, <1>3, PrefixFacts
<1> HIDE DEF q, before
<1>9. ASSUME ou.facility # NoFacility, IsPrefix(s.facility, ou.name) PROVE ou.facility = s.facility
  BY <1>3, <1>5, <1>6, <1>7, <1>9
<1>10. ASSUME ou.facility = s.facility PROVE ou.facility # NoFacility /\ IsPrefix(s.facility, ou.name)
  <2>1. ou.facility # NoFacility
    BY <1>3, <1>10, NoFacilityAssumption
  <2>2. ou.name = s.facility \o q
    BY <1>5, <1>6, <1>10, <2>1
  <2> QED BY <1>8, <2>1, <2>2
<1> QED BY <1>4, <1>9, <1>10

\* What apply and check start with.
LEMMA OrgCorrect == Spec => [](TypeOK /\ OrgInv /\ ConfigInv)
<1>1. Init => OrgInv /\ ConfigInv
  <2> SUFFICES ASSUME Init PROVE OrgInv /\ ConfigInv
    OBVIOUS
  <2>1. cfg = file /\ file \in Files /\ pc = "load"
    BY DEF Init
  <2> QED BY <2>1, FileTyped DEF OrgInv, CfgTyped, ConfigInv
<1>2. IInv /\ OrgInv /\ ConfigInv /\ [Next]_vars => OrgInv' /\ ConfigInv'
  BY OrgStep, ConfigStep DEF IInv
<1>3. IInv => TypeOK
  BY DEF IInv
<1> QED BY <1>1, <1>2, <1>3, LoopsCorrect, PTL DEF Spec

\* The compiled filter decides what the configuration says: whole names match, the first rule
\* that is about a service and an org unit decides, otherwise the facility.
THEOREM FilterCorrect ==
    ASSUME OneAlternative(Files), FacilitiesApart(Files, Databases)
    PROVE  Spec => []FilterDecidesAsConfigured
<1>1. TypeOK /\ OrgInv /\ ConfigInv => FilterDecidesAsConfigured
  <2> SUFFICES ASSUME TypeOK, OrgInv, ConfigInv, pc = "ready",
                      NEW s \in ServicesOf(org), NEW ou \in OusOf(org)
               PROVE  LET hits == {i \in DOMAIN cfg.filter : RuleIsAbout(cfg.filter[i], s, ou)}
                          first == CHOOSE i \in hits : \A j \in hits : i <= j
                      IN Apply!Accept(Compiled, s, ou) <=>
                            IF hits # {} THEN cfg.filter[first].action = "accept"
                            ELSE ou.facility = s.facility
    BY DEF FilterDecidesAsConfigured
  <2> DEFINE hits == {i \in DOMAIN cfg.filter : RuleIsAbout(cfg.filter[i], s, ou)}
             first == CHOOSE i \in hits : \A j \in hits : i <= j
             rules == Compiled.rules
             n == Len(cfg.filter)
             Hit(rule) == Apply!Matches(rule, s, ou)
  <2>1. file \in Files /\ cfg = Configured(file)
    BY DEF TypeOK, ConfigInv
  <2>2. ServiceIsRight(s) /\ OrgUnitIsRight(ou)
    BY DEF OrgInv, OrgIsRight, ServicesOf, OusOf, Range
  <2>3. s.name \in Name /\ ou.name \in Name
    BY <2>2 DEF ServiceIsRight, OrgUnitIsRight
  <2>4. /\ DOMAIN cfg.filter = 1 .. n /\ n \in Nat
        /\ \A i \in 1 .. n : RuleIsAbout(cfg.filter[i], s, ou) <=> Hit(CompiledRule(cfg.filter[i]))
    BY <2>1, <2>3, RuleFacts
  <2>5. rules = [i \in 1 .. n |-> CompiledRule(cfg.filter[i])]
    BY <2>4 DEF Compiled, Mapped
  <2> HIDE DEF rules, n, Hit
  <2>6. Len(rules) = n /\ \A i \in 1 .. n : rules[i] = CompiledRule(cfg.filter[i])
    BY <2>4, <2>5
  <2>7. hits = {i \in 1 .. Len(rules) : Hit(rules[i])}
    BY <2>4, <2>6
  <2>8. hits # {} => first \in hits /\ Apply!Min(hits) = first
    <3>1. hits \in SUBSET (1 .. n)
      BY <2>4
    <3> HIDE DEF hits
    <3>2. hits # {} => \E i \in hits : \A j \in hits : i <= j
      BY <2>4, <3>1, FirstExists
    <3>3. hits # {} => first \in hits /\ \A j \in hits : first <= j
      BY <3>2
    <3> HIDE DEF first
    <3>4. hits # {} => Apply!Min(hits) \in hits /\ \A j \in hits : Apply!Min(hits) <= j
      BY <3>2 DEF Apply!Min
    <3>5. hits # {} => Apply!Min(hits) \in Int /\ first \in Int
      <4>1. \A k \in hits : k \in Int
        BY <2>4, <3>1
      <4> HIDE DEF first
      <4> QED BY <3>3, <3>4, <4>1
    <3>6. hits # {} => Apply!Min(hits) <= first /\ first <= Apply!Min(hits)
      BY <3>3, <3>4
    <3> QED BY <3>3, <3>5, <3>6
  <2>9. Apply!SelectInSeq(rules, Hit) = IF hits # {} THEN first ELSE 0
    <3>1. Apply!SelectInSeq(rules, Hit)
            = IF {i \in 1 .. Len(rules) : Hit(rules[i])} # {}
              THEN Apply!Min({i \in 1 .. Len(rules) : Hit(rules[i])}) ELSE 0
      BY DEF Apply!SelectInSeq
    <3>2. Apply!SelectInSeq(rules, Hit) = IF hits # {} THEN Apply!Min(hits) ELSE 0
      BY <2>7, <3>1
    <3> HIDE DEF hits, first
    <3> QED BY <2>8, <3>2
  <2>10. Apply!Accept(Compiled, s, ou)
            <=> IF Apply!SelectInSeq(rules, Hit) # 0 THEN rules[Apply!SelectInSeq(rules, Hit)].action = "accept"
                ELSE Apply!SameFacilityAccepts(s, ou)
    BY DEF Apply!Accept, rules, Hit
  <2>11. Apply!SameFacilityAccepts(s, ou) <=> ou.facility = s.facility
    BY <2>1, <2>2, SameFacilityFacts
  <2>12. CASE hits = {}
    <3>1. Apply!SelectInSeq(rules, Hit) = 0
      BY <2>9, <2>12
    <3>2. Apply!Accept(Compiled, s, ou) <=> ou.facility = s.facility
      BY <2>10, <2>11, <3>1
    <3> HIDE DEF hits, first
    <3> QED BY <2>12, <3>2 DEF hits
  <2>13. CASE hits # {}
    <3>1. first \in 1 .. n
      BY <2>4, <2>8, <2>13
    <3>2. Apply!SelectInSeq(rules, Hit) = first /\ first # 0
      <4> HIDE DEF hits, first
      <4> QED BY <2>4, <2>9, <2>13, <3>1
    <3>3. rules[first].action = cfg.filter[first].action
      <4> HIDE DEF hits, first
      <4> QED BY <2>6, <3>1 DEF CompiledRule
    <3>4. Apply!Accept(Compiled, s, ou) <=> cfg.filter[first].action = "accept"
      <4> HIDE DEF hits, first
      <4> QED BY <2>10, <3>2, <3>3
    <3> QED BY <2>13, <3>4
  <2> QED BY <2>12, <2>13
<1> QED BY <1>1, OrgCorrect, PTL

\* With the suffixes that NewBcpfs() takes for granted, it makes the same names.
LEMMA DefaultNames ==
    ASSUME DefaultSuffixes(Files), file \in Files, CfgTyped, cfg = Configured(file), NEW n \in Name
    PROVE  OpsName(n) = n \o <<"-", "ops">> /\ FacilityDirName(n) = n \o <<"-", "facility">>
<1>1. cfg.opsSuffix = <<"ops">> /\ cfg.facilitySuffix = <<"facility">>
  BY ConfiguredFacts DEF DefaultSuffixes, Default
<1>2. OpsName(<<>>) = <<"-", "ops">> /\ FacilityDirName(<<>>) = <<"-", "facility">>
  <2>1. ASSUME NEW x PROVE <<>> \o <<"-">> \o <<x>> = <<"-", x>>
    <3>1. <<>> \o <<"-">> = <<"-">>
      OBVIOUS
    <3>2. <<"-">> \o <<x>> = <<"-", x>>
      <4> DEFINE S == {"-", x}
                 c == <<"-">> \o <<x>>
      <4>1. <<"-">> \in Seq(S) /\ <<x>> \in Seq(S) /\ <<"-", x>> \in Seq(S)
        OBVIOUS
      <4>2. c \in Seq(S) /\ Len(c) = 2 /\ c[1] = "-" /\ c[2] = x
        BY <4>1
      <4> HIDE DEF S, c
      <4>3. Len(<<"-", x>>) = 2 /\ \A i \in 1 .. 2 : c[i] = <<"-", x>>[i]
        BY <4>2
      <4> QED BY <4>1, <4>2, <4>3, SeqEqual DEF c
    <3> QED BY <3>1, <3>2
  <2> QED BY <1>1, <2>1 DEF OpsName, FacilityDirName
<1> QED BY <1>2, FixedNames

\* What the sharing step makes of the names of a service, of its facility and of an org unit.
LEMMA SharingNames ==
    ASSUME DefaultSuffixes(Files), file \in Files, CfgTyped, cfg = Configured(file),
           NEW s, ServiceIsRight(s), NEW ou, OrgUnitIsRight(ou), ou.facility = NoFacility
    PROVE  /\ s.name \in Sharing!Services
           /\ Sharing!OpsGroup([srv \in ListedServices |-> FacilityOfService(srv)][s.name])
                 = <<"ops", s.facility>>
           /\ FacilityDirName(s.facility) \in Sharing!FacilityDirs
           /\ ou.name \notin Sharing!FacilityDirs
<1> DEFINE F == [f \in {g.name : g \in Range(cfg.facilities)} |-> f \o <<"-", "facility">>]
           G == [srv \in ListedServices |-> FacilityOfService(srv)]
           k == FacilityBySrv(s.name)
<1>1. /\ k \in DOMAIN cfg.facilities /\ Lists(cfg.facilities[k].services, s.name)
      /\ s.facility = cfg.facilities[k].name /\ s.facility = FacilityOfService(s.name)
      /\ s.facility \in Name /\ s.name \in Name
  BY FacilityFacts DEF ServiceIsRight
<1>2. s.name \in ListedServices
  <2>1. cfg.facilities[k] \in Range(cfg.facilities) /\ s.name \in Range(cfg.facilities[k].services)
    <3> HIDE DEF k
    <3> QED BY <1>1 DEF Range, Lists
  <2> QED BY <2>1 DEF ListedServices
<1>3. \A g \in Range(cfg.facilities) : g.name \in Name
  <2> DEFINE R == [name : Name, services : Seq(Name), access : STRING]
  <2>1. cfg.facilities \in Seq(R) /\ \A g \in R : g.name \in Name
    BY DEF CfgTyped
  <2> HIDE DEF R
  <2> QED BY <2>1 DEF Range
<1>4. /\ DOMAIN F = {g.name : g \in Range(cfg.facilities)}
      /\ \A f \in DOMAIN F : F[f] = f \o <<"-", "facility">>
  OBVIOUS
<1>5. Sharing!FacilityDirs = {F[f] : f \in DOMAIN F}
  BY DEF Sharing!FacilityDirs
<1>6. Sharing!Services = ListedServices /\ G[s.name] = s.facility
  BY <1>1, <1>2 DEF Sharing!Services
<1> HIDE DEF F, G
<1>7. FacilityDirName(s.facility) \in Sharing!FacilityDirs
  <2>1. cfg.facilities[k] \in Range(cfg.facilities)
    <3> HIDE DEF k
    <3> QED BY <1>1 DEF Range
  <2>2. s.facility \in DOMAIN F
    BY <1>1, <1>4, <2>1
  <2>3. F[s.facility] = FacilityDirName(s.facility)
    BY <1>1, <1>4, <2>2, DefaultNames
  <2> QED BY <1>5, <2>2, <2>3
<1>8. ou.name \notin Sharing!FacilityDirs
  <2> SUFFICES ASSUME NEW f \in DOMAIN F, ou.name = F[f] PROVE FALSE
    BY <1>5
  <2>1. f \in Name
    BY <1>3, <1>4
  <2>2. ou.name = FacilityDirName(f) /\ ou.name \in Name
    BY <1>4, <2>1, DefaultNames DEF OrgUnitIsRight
  <2>3. f \o FacilityDirName(<<>>) = FacilityDirName(f) /\ FacilityDirName(<<>>) \in Name
    BY <2>1, FixedNames
  <2>4. IsSuffix(FacilityDirName(<<>>), ou.name) /\ FacilityOfDir(ou.name) = f
    <3> DEFINE q == FacilityDirName(<<>>)
    <3>1. q \in Name /\ ou.name = f \o q
      BY <2>2, <2>3
    <3> HIDE DEF q
    <3>2. IsSuffix(q, f \o q) /\ SubSeq(f \o q, 1, Len(f \o q) - Len(q)) = f
      BY <2>1, <3>1, SuffixFacts
    <3> QED BY <3>1, <3>2 DEF FacilityOfDir, q
  <2>5. ou.facility = f
    BY <2>4 DEF OrgUnitIsRight, IsFacilityDir
  <2> QED BY <2>1, <2>5, NoFacilityAssumption
<1> QED BY <1>2, <1>6, <1>7, <1>8 DEF Sharing!OpsGroup, G

\* The directories of an org unit are those of a block of the configuration, if there is one.
LEMMA SubdirsFacts ==
    ASSUME file \in Files, cfg = Configured(file), NEW n
    PROVE  \/ SubdirsOf(n) = <<>>
           \/ \E k \in DOMAIN cfg.orgUnits : SubdirsOf(n) = DirsOf(cfg.orgUnits[k])
<1> DEFINE us == cfg.orgUnits
           found == {i \in DOMAIN us : us[i].name = n}
           k == LastSuch(us, LAMBDA block : block.name = n)
<1>1. us = file.orgUnits
  BY ConfiguredFacts
<1>2. DOMAIN us = 1 .. Len(us) /\ Len(us) \in Nat
  <2> DEFINE U == [name : Name, extraDirs : Seq(Name), subdirs : Seq([name : Name, policy : STRING])]
  <2>1. file.orgUnits \in Seq(U)
    BY FileTyped DEF ConfigFile
  <2> HIDE DEF U, us
  <2> QED BY <1>1, <2>1
<1>3. k = IF found = {} THEN 0 ELSE CHOOSE i \in found : \A j \in found : j <= i
  BY DEF LastSuch
<1>4. SubdirsOf(n) = IF k = 0 THEN <<>> ELSE DirsOf(us[k])
  BY DEF SubdirsOf
<1>5. ASSUME k # 0 PROVE k \in DOMAIN us
  <2>1. found \in SUBSET (1 .. Len(us)) /\ found \subseteq DOMAIN us
    BY <1>2
  <2> HIDE DEF found, us, k
  <2>2. found # {} => \E i \in found : \A j \in found : j <= i
    BY <1>2, <2>1, LastExists
  <2>3. found # {}
    BY <1>3, <1>5
  <2> QED BY <1>3, <2>1, <2>2, <2>3
<1> HIDE DEF k, found
<1> QED BY <1>4, <1>5

\* A directory of an org unit comes from the configuration, and is no service.
LEMMA DirFacts ==
    ASSUME DirsAreNoServices(Files), file \in Files, cfg = Configured(file),
           NEW n, NEW d \in Range(SubdirsOf(n))
    PROVE  d.name \notin Sharing!Services
<1>1. cfg.orgUnits = file.orgUnits /\ cfg.facilities = file.facilities
  BY ConfiguredFacts
<1>2. PICK k \in DOMAIN cfg.orgUnits : SubdirsOf(n) = DirsOf(cfg.orgUnits[k])
  <2>1. SubdirsOf(n) # <<>>
    BY DEF Range
  <2> QED BY <2>1, SubdirsFacts
<1>3. d \in Range(DirsOf(cfg.orgUnits[k]))
  BY <1>2
<1>4. \A j \in DOMAIN cfg.facilities : ~ Lists(cfg.facilities[j].services, d.name)
  BY <1>1, <1>2, <1>3 DEF DirsAreNoServices
<1>5. d.name \notin ListedServices
  BY <1>4 DEF ListedServices, Range, Lists
<1> QED BY <1>5 DEF Sharing!Services

\* The tuples that paths are put together from.
LEMMA PathFacts ==
    ASSUME NEW a, NEW b, NEW c
    PROVE  /\ SubSeq(<<a, b>>, 3, 2) = <<>> /\ <<a, b, c>> \o <<>> = <<a, b, c>>
           /\ SubSeq(<<a, b, c>>, 2, 3) = <<b, c>> /\ <<a>> \o <<b, c>> = <<a, b, c>>
<1> DEFINE S == {a, b, c}
           abc == <<a, b, c>>
           bc == <<b, c>>
<1>1. <<a, b>> \in Seq(S) /\ abc \in Seq(S) /\ bc \in Seq(S) /\ <<a>> \in Seq(S)
  OBVIOUS
<1>2. Len(abc) = 3 /\ abc[1] = a /\ abc[2] = b /\ abc[3] = c /\ Len(bc) = 2 /\ bc[1] = b /\ bc[2] = c
  OBVIOUS
<1> HIDE DEF S, abc, bc
<1>3. SubSeq(<<a, b>>, 3, 2) = <<>>
  OBVIOUS
<1>4. abc \o <<>> = abc
  BY <1>1
<1>5. SubSeq(abc, 2, 3) = bc
  <2>1. /\ SubSeq(abc, 2, 3) \in Seq(S) /\ Len(SubSeq(abc, 2, 3)) = 2
        /\ SubSeq(abc, 2, 3)[1] = b /\ SubSeq(abc, 2, 3)[2] = c
    BY <1>1, <1>2
  <2> QED BY <1>1, <1>2, <2>1, SeqEqual
<1>6. <<a>> \o bc = abc
  <2>1. /\ <<a>> \o bc \in Seq(S) /\ Len(<<a>> \o bc) = 3
        /\ (<<a>> \o bc)[1] = a /\ (<<a>> \o bc)[2] = b /\ (<<a>> \o bc)[3] = c
    <3>1. ASSUME NEW s \in Seq(S), NEW t \in Seq(S), Len(s) = 1, Len(t) = 2
          PROVE  /\ s \o t \in Seq(S) /\ Len(s \o t) = 3
                 /\ (s \o t)[1] = s[1] /\ (s \o t)[2] = t[1] /\ (s \o t)[3] = t[2]
      <4>1. s \o t \in Seq(S) /\ Len(s \o t) = Len(s) + Len(t)
        BY ConcatProperties
      <4>2. \A i \in 1 .. Len(s) + Len(t) : (s \o t)[i] = IF i <= Len(s) THEN s[i] ELSE t[i - Len(s)]
        BY ConcatProperties
      <4>3. Len(s) + Len(t) = 3
        BY <3>1
      <4>4. \A i \in 1 .. 3 : (s \o t)[i] = IF i <= 1 THEN s[i] ELSE t[i - 1]
        BY <3>1, <4>2, <4>3
      <4> DEFINE u == s \o t
      <4> HIDE DEF u
      <4>5. \A i \in 1 .. 3 : u[i] = IF i <= 1 THEN s[i] ELSE t[i - 1]
        BY <4>4 DEF u
      <4>6. u[1] = s[1]
        BY <4>5
      <4>7. u[2] = t[2 - 1] /\ u[3] = t[3 - 1]
        BY <4>5
      <4>8. 2 - 1 = 1 /\ 3 - 1 = 2
        OBVIOUS
      <4> QED BY <4>1, <4>3, <4>6, <4>7, <4>8 DEF u
    <3> DEFINE one == <<a>>
    <3>2. one \in Seq(S) /\ Len(one) = 1 /\ one[1] = a
      BY <1>1
    <3> HIDE DEF one
    <3>3. /\ one \o bc \in Seq(S) /\ Len(one \o bc) = 3
          /\ (one \o bc)[1] = one[1] /\ (one \o bc)[2] = bc[1] /\ (one \o bc)[3] = bc[2]
      BY <1>1, <1>2, <3>1, <3>2
    <3> QED BY <1>2, <3>2, <3>3 DEF one
  <2> QED BY <1>1, <1>2, <2>1, SeqEqual
<1> QED BY <1>3, <1>4, <1>5, <1>6 DEF abc, bc

\* The sharing step keeps off the groups that apply has set, and does so at the right place.
THEOREM SharingCorrect ==
    ASSUME DefaultSuffixes(Files), DirsAreNoServices(Files)
    PROVE  Spec => []SharingManagesAsApply
<1>1. TypeOK /\ OrgInv /\ ConfigInv => SharingManagesAsApply
  <2> SUFFICES ASSUME TypeOK, OrgInv, ConfigInv, pc = "ready",
                      NEW s \in ServicesOf(org), NEW ou \in OusOf(org), ou.facility = NoFacility
               PROVE  /\ \A logical \in {<<ou.name, s.name>>,
                                         <<FacilityDirName(s.facility), s.name, ou.name>>} :
                            /\ FsGroups(logical) = {ou.group.name, s.opsGroup.name}
                            /\ Sharing!Realpath(logical) = Apply!SouPath(s, ou)
                      /\ \A d \in Range(ou.subdirs) :
                            /\ FsGroups(<<ou.name, d.name>>) = {ou.group.name}
                            /\ Sharing!Realpath(<<ou.name, d.name>>) = Apply!SubdirPath(ou, d)
    BY DEF SharingManagesAsApply
  <2> DEFINE FD == FacilityDirName(s.facility)
             O == Sharing!OpsGroup([srv \in ListedServices |-> FacilityOfService(srv)][s.name])
  <2>1. file \in Files /\ cfg = Configured(file) /\ CfgTyped
    BY DEF TypeOK, ConfigInv, OrgInv
  <2>2. ServiceIsRight(s) /\ OrgUnitIsRight(ou)
    BY DEF OrgInv, OrgIsRight, ServicesOf, OusOf, Range
  <2>3. /\ s.name \in Sharing!Services /\ O = <<"ops", s.facility>>
        /\ FD \in Sharing!FacilityDirs /\ ou.name \notin Sharing!FacilityDirs
    BY <2>1, <2>2, SharingNames
  <2>4. /\ FsGroup(<<"ou", ou.name>>) = ou.group.name
        /\ FsGroup(<<"ops", s.facility>>) = s.opsGroup.name
    <3>1. ServiceGroupName(s.facility \o <<"-", "ops">>) = s.opsGroup.name
      BY <2>1, <2>2, DefaultNames DEF ServiceIsRight
    <3> QED BY <2>2, <3>1 DEF FsGroup, OrgUnitIsRight
  <2> HIDE DEF O, FD
  <2>5. ASSUME NEW logical, Sharing!ManagingGroupsOfPath(logical) = {<<"ou", ou.name>>, <<"ops", s.facility>>}
        PROVE  FsGroups(logical) = {ou.group.name, s.opsGroup.name}
    BY <2>4, <2>5 DEF FsGroups
  <2>6. /\ Sharing!ManagingGroupsOfPath(<<ou.name, s.name>>) = {<<"ou", ou.name>>, <<"ops", s.facility>>}
        /\ Sharing!Realpath(<<ou.name, s.name>>) = Apply!SouPath(s, ou)
    <3> DEFINE p == <<ou.name, s.name>>
    <3>1. p[1] = ou.name /\ p[2] = s.name /\ Len(p) = 2 /\ SubSeq(p, 3, 2) = <<>>
      BY PathFacts
    <3> HIDE DEF p
    <3>2. Sharing!IsServicePath(p) /\ ~ Sharing!IsFacilityPath(p)
      BY <2>3, <3>1 DEF Sharing!IsServicePath, Sharing!IsFacilityPath
    <3>3. Sharing!ManagingGroupsOfPath(p) = {<<"ou", ou.name>>, O}
      BY <3>1, <3>2 DEF Sharing!ManagingGroupsOfPath, Sharing!OuGroup, O
    <3>4. Sharing!Realpath(p) = <<cfg.serviceDir, s.name, ou.name>> \o <<>>
      <4>1. Sharing!Realpath(p) = <<cfg.serviceDir, p[2], p[1]>> \o SubSeq(p, 2 + 1, Len(p))
        BY <3>2 DEF Sharing!Realpath, Sharing!Rest
      <4>2. 2 + 1 = 3
        OBVIOUS
      <4>3. SubSeq(p, 2 + 1, Len(p)) = <<>>
        BY <3>1, <4>2
      <4> QED BY <3>1, <4>1, <4>3
    <3> QED BY <2>3, <3>3, <3>4, PathFacts DEF p, Apply!SouPath
  <2>7. /\ Sharing!ManagingGroupsOfPath(<<FD, s.name, ou.name>>) = {<<"ou", ou.name>>, <<"ops", s.facility>>}
        /\ Sharing!Realpath(<<FD, s.name, ou.name>>) = Apply!SouPath(s, ou)
    <3> DEFINE p == <<FD, s.name, ou.name>>
    <3>1. p[1] = FD /\ p[2] = s.name /\ p[3] = ou.name /\ Len(p) = 3 /\ SubSeq(p, 2, 3) = <<s.name, ou.name>>
      BY PathFacts
    <3> HIDE DEF p
    <3>2. Sharing!IsServicePath(p) /\ Sharing!IsFacilityPath(p)
      BY <2>3, <3>1 DEF Sharing!IsServicePath, Sharing!IsFacilityPath
    <3>3. Sharing!ManagingGroupsOfPath(p) = {<<"ou", ou.name>>, O}
      BY <3>1, <3>2 DEF Sharing!ManagingGroupsOfPath, Sharing!OuGroup, O
    <3>4. Sharing!Realpath(p) = <<cfg.serviceDir>> \o <<s.name, ou.name>>
      BY <3>1, <3>2 DEF Sharing!Realpath, Sharing!Rest
    <3> QED BY <2>3, <3>3, <3>4, PathFacts DEF p, Apply!SouPath
  <2>8. ASSUME NEW d \in Range(ou.subdirs)
        PROVE  /\ FsGroups(<<ou.name, d.name>>) = {ou.group.name}
               /\ Sharing!Realpath(<<ou.name, d.name>>) = Apply!SubdirPath(ou, d)
    <3> DEFINE p == <<ou.name, d.name>>
    <3>1. p[1] = ou.name /\ p[2] = d.name /\ <<cfg.orgUnitDir>> \o p = <<cfg.orgUnitDir, ou.name, d.name>>
      BY PathFacts
    <3>2. d \in Range(SubdirsOf(ou.name))
      BY <2>2 DEF OrgUnitIsRight
    <3>3. d.name \notin Sharing!Services
      BY <2>1, <3>2, DirFacts
    <3> HIDE DEF p
    <3>4. ~ Sharing!IsServicePath(p)
      BY <3>1, <3>3 DEF Sharing!IsServicePath
    <3>5. Sharing!ManagingGroupsOfPath(p) = {<<"ou", ou.name>>}
      BY <3>1, <3>4 DEF Sharing!ManagingGroupsOfPath, Sharing!OuGroup
    <3>6. Sharing!Realpath(p) = <<cfg.orgUnitDir>> \o p
      BY <3>4 DEF Sharing!Realpath
    <3> QED BY <2>4, <3>1, <3>5, <3>6 DEF p, FsGroups, Apply!SubdirPath
  <2> QED BY <2>5, <2>6, <2>7, <2>8 DEF FD
<1> QED BY <1>1, OrgCorrect, PTL

-----------------------------------------------------------------------------
\* What apply and check rely on.

\* A sequence, whatever is in it.
IsList(s) == s \in Seq(Range(s))

LEMMA TypedIsList ==
    ASSUME NEW S, NEW s \in Seq(S)
    PROVE  IsList(s) /\ \A i \in DOMAIN s : s[i] \in S
  BY DEF IsList, Range

\* What a loop appends to is a list.
LEMMA MappedIsList ==
    ASSUME NEW n \in Nat, NEW f, f = [i \in 1 .. n |-> f[i]]
    PROVE  IsList(f)
<1>1. Range(f) = {f[i] : i \in 1 .. n} /\ f \in [1 .. n -> Range(f)]
  BY DEF Range
<1> QED BY <1>1 DEF IsList

\* The lists of the organization and the dirs that they have come from.
OrgIsSound(o) ==
    /\ IsList(o.services)
    /\ \A i \in DOMAIN o.services :
          \E k \in DOMAIN cfg.facilities : o.services[i].access = AccessOf(cfg.facilities[k])
    /\ IsList(o.ous)
    /\ \A i, j \in DOMAIN o.ous : o.ous[i].name = o.ous[j].name => i = j
    /\ \A i \in DOMAIN cfg.orgUnits : ~ DuplicateDirs(cfg.orgUnits[i])

SoundInv == pc \in {"filter", "ready", "described"} => OrgIsSound(org)

\* bcp.New() makes each service and each org unit of a name that is there once, and does not
\* come to an end with duplicate dirs.
LEMMA NewOrgIsSound ==
    ASSUME Chosen, CfgTyped, ~ NewFails
    PROVE  OrgIsSound(NewOrg)
<1> DEFINE P == {n \in Name : HasFacility(n)}
           ss == Parts(ServiceNames, P)
           t == FlattenSeq(ss)
           srvs == NewOrg.services
           ous == NewOrg.ous
<1>1. ServiceNames \in Seq(Name) /\ OrgUnitNames \in Seq(Name) /\ Distinct(OrgUnitNames)
  BY ListsFacts
<1>2. ss = [i \in DOMAIN ServiceNames |-> IF HasFacility(ServiceNames[i]) THEN <<ServiceNames[i]>> ELSE <<>>]
  BY <1>1 DEF Parts
<1>3. srvs = [i \in DOMAIN t |-> ServiceOf(t[i])]
  <2>1. srvs = Mapped(Passing(ServiceNames, HasFacility), ServiceOf)
    BY DEF NewOrg
  <2> HIDE DEF ss, srvs
  <2> QED BY <1>2, <2>1 DEF Mapped, Passing
<1>4. ous = [i \in DOMAIN OrgUnitNames |-> OrgUnitOf(OrgUnitNames[i])]
  BY DEF NewOrg, Mapped
<1>5. t \in Seq(Name) /\ Range(t) = Range(ServiceNames) \cap P
  <2> HIDE DEF P
  <2> QED BY <1>1, PassingFacts
<1> HIDE DEF ss, t, srvs, ous
<1>6. DOMAIN t = 1 .. Len(t) /\ Len(t) \in Nat
  BY <1>5
<1>7. DOMAIN OrgUnitNames = 1 .. Len(OrgUnitNames) /\ Len(OrgUnitNames) \in Nat
  BY <1>1
<1>8. IsList(srvs)
  <2>1. srvs = [i \in 1 .. Len(t) |-> srvs[i]]
    BY <1>3, <1>6
  <2> QED BY <1>6, <2>1, MappedIsList
<1>9. IsList(ous)
  <2>1. ous = [i \in 1 .. Len(OrgUnitNames) |-> ous[i]]
    BY <1>4, <1>7
  <2> QED BY <1>7, <2>1, MappedIsList
<1>10. ASSUME NEW i \in DOMAIN srvs
       PROVE  \E k \in DOMAIN cfg.facilities : srvs[i].access = AccessOf(cfg.facilities[k])
  <2> DEFINE n == t[i]
  <2>1. i \in DOMAIN t /\ srvs[i] = ServiceOf(n)
    BY <1>3
  <2>2. HasFacility(n)
    BY <1>5, <2>1 DEF Range
  <2>3. FacilityBySrv(n) \in DOMAIN cfg.facilities
    BY <2>2, FacilityFacts
  <2>4. ServiceOf(n).access = AccessOf(cfg.facilities[FacilityBySrv(n)])
    BY DEF ServiceOf
  <2> QED BY <2>1, <2>3, <2>4
<1>11. \A i, j \in DOMAIN ous : ous[i].name = ous[j].name => i = j
  <2>1. \A i \in DOMAIN OrgUnitNames : OrgUnitOf(OrgUnitNames[i]).name = OrgUnitNames[i]
    BY DEF OrgUnitOf
  <2> QED BY <1>1, <1>4, <2>1 DEF Distinct
<1>12. \A i \in DOMAIN cfg.orgUnits : ~ DuplicateDirs(cfg.orgUnits[i])
  BY DEF NewFails
<1> QED BY <1>8, <1>9, <1>10, <1>11, <1>12 DEF OrgIsSound, srvs, ous

\* The lists stay as they are.
LEMMA SoundStep ==
    ASSUME OrgInv, SoundInv, [Next]_vars
    PROVE  SoundInv'
<1> USE DEF Fatal, inputs, dedup
<1>1. ASSUME UNCHANGED cfg, NEW o PROVE OrgIsSound(o)' = OrgIsSound(o)
  BY <1>1 DEF OrgIsSound, DuplicateDirs, DirsOf
<1>2. CASE LoadConfig \/ GetGroups \/ SelectGroup \/ SelectDone \/ DedupGroup \/ DedupDone \/ SortGroups
  <2>1. pc' \notin {"filter", "ready", "described"}
    BY <1>2 DEF LoadConfig, GetGroups, SelectGroup, SelectDone, DedupGroup, DedupDone, SortGroups
  <2> QED BY <2>1 DEF SoundInv
<1>3. CASE New
  <2>1. CASE NewFails
    BY <1>3, <2>1 DEF New, SoundInv
  <2>2. CASE ~ NewFails
    <3>1. pc = "new" /\ org' = NewOrg /\ cfg' = cfg
      BY <1>3, <2>2 DEF New
    <3>2. OrgIsSound(NewOrg)
      BY <2>2, <3>1, NewOrgIsSound DEF OrgInv
    <3>3. OrgIsSound(org)'
      BY <1>1, <3>1, <3>2
    <3> QED BY <3>3 DEF SoundInv
  <2> QED BY <2>1, <2>2
<1>4. CASE CompileFilter \/ Describe \/ UNCHANGED vars
  <2>1. UNCHANGED <<cfg, org>> /\ (pc' \in {"filter", "ready", "described"} => pc \in {"filter", "ready", "described"})
    BY <1>4 DEF CompileFilter, Describe, vars
  <2>2. OrgIsSound(org)' = OrgIsSound(org)
    BY <1>1, <2>1
  <2> QED BY <2>1, <2>2 DEF SoundInv
<1> QED BY <1>2, <1>3, <1>4 DEF Next

\* The dirs of a valid block have names of their own and policies that are known.
LEMMA BlockFacts ==
    ASSUME file \in Files, Valid(file), cfg = Configured(file),
           NEW k \in DOMAIN cfg.orgUnits, ~ DuplicateDirs(cfg.orgUnits[k])
    PROVE  LET dirs == DirsOf(cfg.orgUnits[k])
           IN /\ IsList(dirs) /\ Apply!NamesAreUnique(dirs)
              /\ \A d \in Range(dirs) : d.policy \in {"group", "owner", "manager"}
<1> DEFINE Block == [name : Name, extraDirs : Seq(Name), subdirs : Seq([name : Name, policy : STRING])]
           Dir == [name : Name, policy : {"group", "owner", "manager"}]
           block == cfg.orgUnits[k]
           dirs == DirsOf(block)
           extra == [i \in DOMAIN block.extraDirs |-> [name |-> block.extraDirs[i], policy |-> "group"]]
<1>1. cfg.orgUnits = file.orgUnits /\ file.orgUnits \in Seq(Block)
  BY ConfiguredFacts, FileTyped DEF ConfigFile
<1>2. block \in Block
  <2> HIDE DEF Block
  <2> QED BY <1>1
<1>3. block.extraDirs \in Seq(Name) /\ block.subdirs \in Seq([name : Name, policy : STRING])
  BY <1>2
<1>4. \A i \in DOMAIN block.subdirs : block.subdirs[i].policy \in {"group", "owner", "manager"}
  <2>1. ValidOrgUnit(block)
    BY <1>1 DEF Valid, All
  <2> QED BY <2>1 DEF ValidOrgUnit
<1> HIDE DEF block
<1>5. block.subdirs \in Seq(Dir)
  <2> DEFINE AnyDir == [name : Name, policy : STRING]
  <2>1. \A x \in AnyDir : x.policy \in {"group", "owner", "manager"} => x \in Dir
    OBVIOUS
  <2> DEFINE s == block.subdirs
  <2>2. s \in Seq(AnyDir) /\ \A i \in DOMAIN s : s[i].policy \in {"group", "owner", "manager"}
    BY <1>3, <1>4
  <2> HIDE DEF AnyDir, Dir, s
  <2>3. DOMAIN s = 1 .. Len(s) /\ Len(s) \in Nat /\ \A i \in DOMAIN s : s[i] \in AnyDir
    BY <2>2
  <2>4. \A i \in 1 .. Len(s) : s[i] \in Dir
    BY <2>1, <2>2, <2>3
  <2>5. s \in Seq(Dir)
    BY <2>2, <2>3, <2>4
  <2> QED BY <2>5 DEF s
<1>6. extra \in Seq(Dir)
  <2> DEFINE n == Len(block.extraDirs)
             dir(x) == [name |-> x, policy |-> "group"]
  <2>1. \A x \in Name : dir(x) \in Dir
    OBVIOUS
  <2>2. DOMAIN block.extraDirs = 1 .. n /\ n \in Nat /\ \A i \in 1 .. n : block.extraDirs[i] \in Name
    BY <1>3
  <2>3. extra = [i \in 1 .. n |-> dir(block.extraDirs[i])]
    BY <2>2
  <2> HIDE DEF n, dir, Dir, extra
  <2>4. \A i \in 1 .. n : dir(block.extraDirs[i]) \in Dir
    BY <2>1, <2>2
  <2> QED BY <2>2, <2>3, <2>4
<1>7. dirs \in Seq(Dir)
  <2>1. dirs = block.subdirs \o extra
    BY DEF DirsOf
  <2> HIDE DEF Dir, extra, dirs
  <2> QED BY <1>5, <1>6, <2>1, ConcatProperties
<1>8. IsList(dirs) /\ \A i \in DOMAIN dirs : dirs[i] \in Dir
  <2> HIDE DEF Dir, dirs
  <2> QED BY <1>7, TypedIsList
<1>9. \A d \in Range(dirs) : d.policy \in {"group", "owner", "manager"}
  BY <1>8 DEF Range
<1>10. Apply!NamesAreUnique(dirs)
  BY DEF DuplicateDirs, Apply!NamesAreUnique, block
<1> QED BY <1>8, <1>9, <1>10 DEF block

\* What apply and check get, for all configurations and databases, is what the theorems on
\* them assume (SoundAssumption of FsApply).
THEOREM SoundCorrect == Spec => []ConfigurationIsSound
<1>1. Init => SoundInv
  BY DEF Init, SoundInv
<1>2. OrgInv /\ SoundInv /\ [Next]_vars => SoundInv'
  BY SoundStep
<1>3. TypeOK /\ OrgInv /\ ConfigInv /\ SoundInv => ConfigurationIsSound
  <2> SUFFICES ASSUME TypeOK, OrgInv, ConfigInv, SoundInv, pc = "ready"
               PROVE  Apply!ConfigIsSound(Compiled)
    BY DEF ConfigurationIsSound
  <2> DEFINE c == Compiled
  <2>1. file \in Files /\ cfg = Configured(file) /\ Valid(file) /\ OrgIsRight(org) /\ OrgIsSound(org)
    BY DEF TypeOK, OrgInv, ConfigInv, SoundInv
  <2>2. c.services = org.services /\ c.ous = org.ous /\ c.symlinks = cfg.symlinks
    BY DEF Compiled
  <2>3. \A s : Apply!Elements(s) = Range(s)
    BY DEF Apply!Elements, Range
  <2> HIDE DEF c
  <2>4. IsList(c.services) /\ Apply!NamesAreUnique(c.services)
    BY <2>1, <2>2 DEF OrgIsSound, OrgIsRight, Apply!NamesAreUnique
  <2>5. \A s \in Range(c.services) : s.access \in {"perService", "allOrgUnits"}
    <3>1. SUFFICES ASSUME NEW i \in DOMAIN org.services
                   PROVE  org.services[i].access \in {"perService", "allOrgUnits"}
      BY <2>2 DEF Range
    <3>2. PICK k \in DOMAIN cfg.facilities : org.services[i].access = AccessOf(cfg.facilities[k])
      BY <2>1 DEF OrgIsSound
    <3>3. cfg.facilities = file.facilities
      BY <2>1, ConfiguredFacts
    <3>4. ValidFacility(cfg.facilities[k])
      BY <2>1, <3>3 DEF Valid, All
    <3> QED BY <3>2, <3>4 DEF ValidFacility, AccessOf
  <2>6. IsList(c.ous) /\ Apply!NamesAreUnique(c.ous)
    BY <2>1, <2>2 DEF OrgIsSound, Apply!NamesAreUnique
  <2>7. IsList(c.symlinks) /\ \A l \in Range(c.symlinks) : IsList(l.path) /\ l.path # <<>>
    <3> DEFINE Link == [path : Name, target : Name]
    <3>1. c.symlinks = file.symlinks /\ file.symlinks \in Seq(Link)
      BY <2>1, <2>2, ConfiguredFacts, FileTyped DEF ConfigFile
    <3>2. IsList(c.symlinks) /\ \A i \in DOMAIN c.symlinks : c.symlinks[i] \in Link
      <4> HIDE DEF Link
      <4> QED BY <3>1, TypedIsList
    <3>3. ASSUME NEW i \in DOMAIN c.symlinks
          PROVE  IsList(c.symlinks[i].path) /\ c.symlinks[i].path # <<>>
      <4>1. ValidSymlink(c.symlinks[i])
        BY <2>1, <3>1 DEF Valid, All
      <4>2. c.symlinks[i].path \in Seq(Syllables)
        BY <3>2 DEF Name
      <4> QED BY <4>1, <4>2, TypedIsList DEF ValidSymlink
    <3> QED BY <3>2, <3>3 DEF Range
  <2>8. ASSUME NEW ou \in Range(c.ous)
        PROVE  /\ IsList(ou.subdirs) /\ Apply!NamesAreUnique(ou.subdirs)
               /\ \A d \in Range(ou.subdirs) : d.policy \in {"group", "owner", "manager"}
    <3>1. PICK i \in DOMAIN org.ous : ou = org.ous[i]
      BY <2>2 DEF Range
    <3>2. ou.subdirs = SubdirsOf(ou.name)
      BY <2>1, <3>1 DEF OrgIsRight, OrgUnitIsRight
    <3>3. CASE ou.subdirs = <<>>
      BY <3>3 DEF IsList, Range, Apply!NamesAreUnique
    <3>4. CASE \E k \in DOMAIN cfg.orgUnits : ou.subdirs = DirsOf(cfg.orgUnits[k])
      <4>1. PICK k \in DOMAIN cfg.orgUnits : ou.subdirs = DirsOf(cfg.orgUnits[k])
        BY <3>4
      <4>2. ~ DuplicateDirs(cfg.orgUnits[k])
        BY <2>1 DEF OrgIsSound
      <4> QED BY <2>1, <4>1, <4>2, BlockFacts
    <3> QED BY <2>1, <3>2, <3>3, <3>4, SubdirsFacts
  <2> QED BY <2>3, <2>4, <2>5, <2>6, <2>7, <2>8 DEF Apply!ConfigIsSound, IsList, c
<1> QED BY <1>1, <1>2, <1>3, OrgCorrect, PTL DEF Spec

=============================================================================
