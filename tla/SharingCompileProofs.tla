------------------------ MODULE SharingCompileProofs ------------------------
(***************************************************************************)
(* What Compile() makes of a configuration, for configurations of any      *)
(* size: first what the loops of its functions amount to, then that the    *)
(* products are what they are for.                                         *)
(***************************************************************************)
EXTENDS SharingCompile, FiniteSetTheorems, SequenceTheorems, WellFoundedInduction, TLAPS

-----------------------------------------------------------------------------
\* Loops.

\* Induction on numbers, for sets of them.
LEMMA SetInduction ==
    ASSUME NEW T \in SUBSET Nat, 0 \in T, \A n \in T : n + 1 \in T
    PROVE  T = Nat
<1> SUFFICES ASSUME Nat \ T # {} PROVE FALSE
  OBVIOUS
<1> DEFINE U == {0 .. n : n \in Nat \ T}
<1>1. U \subseteq FiniteSubsetsOf(Nat)
  <2>1. ASSUME NEW n \in Nat
        PROVE  0 .. n \in FiniteSubsetsOf(Nat)
    <3>1. 0 \in Int /\ n \in Int /\ 0 .. n \subseteq Nat
      OBVIOUS
    <3>2. IsFiniteSet(0 .. n)
      BY <3>1, FS_Interval
    <3> QED BY <3>1, <3>2 DEF FiniteSubsetsOf
  <2> QED BY <2>1
<1>2. U # {}
  OBVIOUS
<1>3. PICK x \in U : \A y \in U : ~ (<<y, x>> \in StrictSubsetOrdering(Nat))
  <2>1. IsWellFoundedOn(StrictSubsetOrdering(Nat), FiniteSubsetsOf(Nat))
    BY FS_StrictSubsetOrderingWellFounded
  <2> HIDE DEF U
  <2> QED BY <1>1, <1>2, <2>1, WFMin
<1>4. PICK n \in Nat \ T : x = 0 .. n
  OBVIOUS
<1>5. n # 0 /\ n - 1 \in Nat
  OBVIOUS
<1>6. n - 1 \notin T
  BY <1>5
<1>7. 0 .. (n - 1) \in U /\ 0 .. (n - 1) \subseteq 0 .. n /\ n \in 0 .. n /\ n \notin 0 .. (n - 1)
  BY <1>5, <1>6
<1>8. <<0 .. (n - 1), 0 .. n>> \in StrictSubsetOrdering(Nat)
  <2> DEFINE a == 0 .. (n - 1)
             b == 0 .. n
  <2>1. a \in SUBSET Nat /\ b \in SUBSET Nat
    BY <1>5
  <2>2. a \subseteq b /\ a # b
    BY <1>7
  <2> HIDE DEF a, b
  <2>3. <<a, b>> \in StrictSubsetOrdering(Nat)
    BY <2>1, <2>2 DEF StrictSubsetOrdering
  <2> QED BY <2>3 DEF a, b
<1> QED BY <1>3, <1>4, <1>7, <1>8

\* What holds at first and after each step holds at last.
LEMMA LoopInduction ==
    ASSUME NEW n \in Nat, NEW T, 0 \in T, \A k \in 0 .. n - 1 : k \in T => k + 1 \in T
    PROVE  n \in T
<1> DEFINE U == {k \in Nat : k \in 0 .. n => k \in T}
<1>1. 0 \in U
  OBVIOUS
<1>2. \A k \in U : k + 1 \in U
  OBVIOUS
<1>3. U = Nat
  <2> HIDE DEF U
  <2>1. U \in SUBSET Nat
    BY DEF U
  <2> QED BY <1>1, <1>2, <2>1, SetInduction
<1> QED BY <1>3

\* The first n numbers as the set that a fold has gone through.
LEMMA GoneThrough ==
    /\ 1 .. 0 = {}
    /\ \A n \in Nat : \A s \in SUBSET (1 .. n + 1) :
          IF n + 1 \in s THEN s # {} /\ Max(s) = n + 1 /\ s \ {n + 1} \in SUBSET (1 .. n)
                         ELSE s \in SUBSET (1 .. n)
    /\ \A n \in Nat : 1 .. n + 1 # {} /\ Max(1 .. n + 1) = n + 1 /\ (1 .. n + 1) \ {n + 1} = 1 .. n
<1>1. ASSUME NEW n \in Nat, NEW s \in SUBSET (1 .. n + 1), n + 1 \in s
      PROVE  Max(s) = n + 1
  <2>1. \A y \in s : n + 1 >= y
    OBVIOUS
  <2>2. \A x \in s : (\A y \in s : x >= y) => x = n + 1
    BY <1>1
  <2> QED BY <1>1, <2>1, <2>2 DEF Max
<1>2. ASSUME NEW n \in Nat
      PROVE  n + 1 \in 1 .. n + 1 /\ (1 .. n + 1) \ {n + 1} = 1 .. n
  OBVIOUS
<1>3. ASSUME NEW n \in Nat, NEW s \in SUBSET (1 .. n + 1)
      PROVE  IF n + 1 \in s THEN s # {} /\ s \ {n + 1} \in SUBSET (1 .. n)
                            ELSE s \in SUBSET (1 .. n)
  OBVIOUS
<1>4. ASSUME NEW n \in Nat PROVE Max(1 .. n + 1) = n + 1
  <2>1. 1 .. n + 1 \in SUBSET (1 .. n + 1)
    OBVIOUS
  <2> QED BY <1>1, <1>2, <2>1
<1>5. 1 .. 0 = {}
  OBVIOUS
<1> QED BY <1>1, <1>2, <1>3, <1>4, <1>5

\* FoldLeft() has a value: there is a function that goes through the elements.
IsStep(F, V, E) == \A v \in V, e \in E : F[v][e] \in V
IsFold(it, F, V, base, es, n) ==
    /\ it \in [SUBSET (1 .. n) -> V]
    /\ \A s \in SUBSET (1 .. n) :
          it[s] = IF s = {} THEN base ELSE F[it[s \ {Max(s)}]][es[Max(s)]]

LEMMA FoldExists ==
    ASSUME NEW V, NEW E, NEW F, IsStep(F, V, E), NEW base \in V,
           NEW n \in Nat, NEW es, \A i \in 1 .. n : es[i] \in E
    PROVE  \E it : IsFold(it, F, V, base, es, n)
<1> DEFINE Goes(it, m) ==
             \A s \in SUBSET (1 .. m) :
                it[s] = IF s = {} THEN base ELSE F[it[s \ {Max(s)}]][es[Max(s)]]
           T == {m \in 0 .. n : \E it \in [SUBSET (1 .. m) -> V] : Goes(it, m)}
<1>1. 0 \in T
  <2> DEFINE it == [s \in SUBSET (1 .. 0) |-> base]
  <2>1. it \in [SUBSET (1 .. 0) -> V] /\ \A s \in SUBSET (1 .. 0) : it[s] = base /\ s = {}
    <3>1. \A s \in SUBSET (1 .. 0) : s = {}
      BY GoneThrough
    <3> QED BY <3>1
  <2> HIDE DEF it
  <2>2. Goes(it, 0) /\ 0 \in 0 .. n
    BY <2>1
  <2> QED BY <2>1, <2>2
<1>2. ASSUME NEW m \in 0 .. n - 1, m \in T PROVE m + 1 \in T
  <2>0. m \in Nat /\ m + 1 \in 1 .. n /\ m + 1 \in 0 .. n
    <3> HIDE DEF T
    <3> QED OBVIOUS
  <2>1. PICK it \in [SUBSET (1 .. m) -> V] : Goes(it, m)
    BY <1>2
  <2> DEFINE next == [s \in SUBSET (1 .. m + 1) |->
                        IF m + 1 \in s THEN F[it[s \ {m + 1}]][es[m + 1]] ELSE it[s]]
  <2>2. m \in Nat /\ m + 1 \in 1 .. n /\ m + 1 \in 0 .. n
    BY <2>0
  <2>3. ASSUME NEW s \in SUBSET (1 .. m + 1)
        PROVE  /\ next[s] \in V
               /\ next[s] = IF s = {} THEN base ELSE F[next[s \ {Max(s)}]][es[Max(s)]]
    <3>1. CASE m + 1 \in s
      <4>1. s # {} /\ Max(s) = m + 1 /\ s \ {m + 1} \in SUBSET (1 .. m)
        BY <2>2, <3>1, GoneThrough
      <4>2. next[s] = F[it[s \ {m + 1}]][es[m + 1]]
        BY <3>1
      <4>3. next[s \ {m + 1}] = it[s \ {m + 1}]
        OBVIOUS
      <4>4. it[s \ {m + 1}] \in V /\ es[m + 1] \in E
        BY <2>2, <4>1
      <4> HIDE DEF next
      <4> QED BY <4>1, <4>2, <4>3, <4>4 DEF IsStep
    <3>2. CASE m + 1 \notin s
      <4>1. s \in SUBSET (1 .. m) /\ next[s] = it[s]
        BY <2>2, <3>2, GoneThrough
      <4>2. next[s \ {Max(s)}] = it[s \ {Max(s)}]
        BY <3>2
      <4> HIDE DEF next
      <4> QED BY <2>1, <4>1, <4>2
    <3> QED BY <3>1, <3>2
  <2>4. next \in [SUBSET (1 .. m + 1) -> V]
    <3>1. \A s \in SUBSET (1 .. m + 1) : next[s] \in V
      BY <2>3
    <3> QED BY <3>1
  <2> HIDE DEF next
  <2> QED BY <2>2, <2>3, <2>4
<1>3. n \in T
  <2> HIDE DEF T
  <2> QED BY <1>1, <1>2, LoopInduction
<1>4. PICK it \in [SUBSET (1 .. n) -> V] : Goes(it, n)
  BY <1>3
<1> QED BY <1>4 DEF IsFold

LEMMA Extrema ==
    ASSUME NEW n \in Nat, NEW s \in SUBSET (1 .. n), s # {}
    PROVE  /\ Max(s) \in s /\ \A y \in s : Max(s) >= y
           /\ Min(s) \in s /\ \A y \in s : Min(s) =< y
<1> DEFINE Has(t) == /\ \E x \in t : \A y \in t : x >= y
                     /\ \E x \in t : \A y \in t : x =< y
           T == {m \in 0 .. n : \A t \in SUBSET (1 .. m) : t # {} => Has(t)}
<1>1. 0 \in T
  <2>1. \A t \in SUBSET (1 .. 0) : t = {}
    BY GoneThrough
  <2>2. 0 \in 0 .. n
    OBVIOUS
  <2> HIDE DEF Has
  <2> QED BY <2>1, <2>2
<1>2. ASSUME NEW m \in 0 .. n - 1, m \in T PROVE m + 1 \in T
  <2>1. m \in Nat /\ m + 1 \in 0 .. n
    <3> HIDE DEF T
    <3> QED OBVIOUS
  <2> SUFFICES ASSUME NEW t \in SUBSET (1 .. m + 1), t # {} PROVE Has(t)
    <3> HIDE DEF Has
    <3> QED BY <2>1
  <2>2. CASE m + 1 \notin t
    <3>1. t \in SUBSET (1 .. m)
      BY <2>1, <2>2, GoneThrough
    <3> HIDE DEF Has
    <3> QED BY <1>2, <3>1
  <2>3. CASE m + 1 \in t
    <3>1. t \ {m + 1} \in SUBSET (1 .. m)
      BY <2>1, <2>3, GoneThrough
    <3>2. \A y \in t : m + 1 >= y
      BY <2>1
    <3>3. CASE t \ {m + 1} = {}
      <4>1. \A y \in t : m + 1 =< y
        BY <2>1, <3>3
      <4> QED BY <2>3, <3>2, <4>1
    <3>4. CASE t \ {m + 1} # {}
      <4>1. Has(t \ {m + 1})
        <5> HIDE DEF Has
        <5> QED BY <1>2, <3>1, <3>4
      <4>2. PICK x \in t \ {m + 1} : \A y \in t \ {m + 1} : x =< y
        BY <4>1
      <4>3. \A y \in t : x =< y
        BY <2>1, <4>2
      <4> QED BY <2>3, <3>2, <4>2, <4>3
    <3> QED BY <3>3, <3>4
  <2> QED BY <2>2, <2>3
<1>3. n \in T
  <2> HIDE DEF T
  <2> QED BY <1>1, <1>2, LoopInduction
<1>4. Has(s)
  <2> HIDE DEF Has
  <2> QED BY <1>3
<1> QED BY <1>4 DEF Max, Min

-----------------------------------------------------------------------------
\* ACLs.

Bits == {"r", "w", "x"}
GroupNames ==
    UNION {UNION {Groups(c.exports[i].acl) : i \in DOMAIN c.exports} : c \in Configs}
Ace == [group : GroupNames, mode : SUBSET Bits]
Acl == Seq(Ace)

Grants(acl, g, bit) == \E i \in DOMAIN acl : acl[i].group = g /\ bit \in acl[i].mode

LEMMA MergeAceFacts ==
    ASSUME NEW acl \in Acl, NEW ace \in Ace
    PROVE  /\ MergeAce(acl, ace) \in Acl
           /\ Groups(MergeAce(acl, ace)) = Groups(acl) \cup {ace.group}
           /\ \A g, bit : Grants(MergeAce(acl, ace), g, bit) <=>
                             Grants(acl, g, bit) \/ (g = ace.group /\ bit \in ace.mode)
<1> DEFINE same == {i \in 1 .. Len(acl) : acl[i].group = ace.group}
           i == Max(same)
           u == MergeAce(acl, ace)
<1>1. Len(acl) \in Nat /\ DOMAIN acl = 1 .. Len(acl)
  BY DEF Acl
<1>2. CASE same = {}
  <2>1. u = Append(acl, ace)
    BY <1>1, <1>2 DEF MergeAce, SelectLastInSeq
  <2>2. /\ u \in Acl /\ DOMAIN u = 1 .. Len(acl) + 1 /\ u[Len(acl) + 1] = ace
        /\ \A j \in DOMAIN acl : u[j] = acl[j]
    BY <1>1, <2>1 DEF Acl
  <2> HIDE DEF u
  <2>3. \A j \in DOMAIN u : j \in DOMAIN acl \/ j = Len(acl) + 1
    BY <1>1, <2>2
  <2>4. \A j \in DOMAIN acl : j \in DOMAIN u
    BY <1>1, <2>2
  <2>5. Len(acl) + 1 \in DOMAIN u
    BY <1>1, <2>2
  <2>6. Groups(u) = Groups(acl) \cup {ace.group}
    BY <2>2, <2>3, <2>4, <2>5 DEF Groups
  <2>7. \A g, bit : Grants(u, g, bit) <=>
                       Grants(acl, g, bit) \/ (g = ace.group /\ bit \in ace.mode)
    BY <2>2, <2>3, <2>4, <2>5 DEF Grants
  <2> QED BY <2>2, <2>6, <2>7 DEF u
<1>3. CASE same # {}
  <2>1. i \in same
    BY <1>1, <1>3, Extrema
  <2>2. i # 0
    <3> HIDE DEF i
    <3>1. i \in 1 .. Len(acl)
      BY <2>1
    <3> QED BY <1>1, <3>1
  <2>3. u = [acl EXCEPT ![i].mode = @ \cup ace.mode]
    BY <1>1, <1>3, <2>2 DEF MergeAce, SelectLastInSeq
  <2> DEFINE new == [acl[i] EXCEPT !.mode = @ \cup ace.mode]
  <2>4. i \in DOMAIN acl /\ acl[i] \in Ace /\ acl[i].group = ace.group
    BY <1>1, <2>1 DEF Acl
  <2>5. new \in Ace /\ new.group = ace.group /\ new.mode = acl[i].mode \cup ace.mode
    BY <2>4 DEF Ace
  <2>6. u = [acl EXCEPT ![i] = new]
    BY <2>3
  <2> HIDE DEF same, i, new
  <2>7. /\ u \in Acl /\ DOMAIN u = DOMAIN acl /\ u[i] = new
        /\ \A j \in DOMAIN acl : j # i => u[j] = acl[j]
    BY <2>4, <2>5, <2>6 DEF Acl
  <2> HIDE DEF u
  <2>8. Groups(u) = Groups(acl) \cup {ace.group}
    BY <2>4, <2>5, <2>7 DEF Groups
  <2>9. \A g, bit : Grants(u, g, bit) <=>
                       Grants(acl, g, bit) \/ (g = ace.group /\ bit \in ace.mode)
    BY <2>4, <2>5, <2>7 DEF Grants
  <2> QED BY <2>7, <2>8, <2>9 DEF u
<1> QED BY <1>2, <1>3

\* Acl.Union() grants what either of the ACLs grants.
LEMMA AclUnionFacts ==
    ASSUME NEW a \in Acl, NEW b \in Acl
    PROVE  /\ AclUnion(a, b) \in Acl
           /\ Groups(AclUnion(a, b)) = Groups(a) \cup Groups(b)
           /\ \A g, bit : Grants(AclUnion(a, b), g, bit) <=> Grants(a, g, bit) \/ Grants(b, g, bit)
<1> DEFINE n == Len(b)
           IsIter(it) == it = [s \in SUBSET DOMAIN b |->
                                 IF s = {} THEN a ELSE MergeAce(it[s \ {Max(s)}], b[Max(s)])]
           iter == CHOOSE it : IsIter(it)
           F == [acl \in Acl |-> [ace \in Ace |-> MergeAce(acl, ace)]]
<1>1. n \in Nat /\ DOMAIN b = 1 .. n /\ \A i \in 1 .. n : b[i] \in Ace
  BY DEF Acl
<1>2. AclUnion(a, b) = iter[1 .. n]
  BY <1>1 DEF AclUnion, FoldLeft, MapThenFoldSet
<1> HIDE DEF n
<1>3. IsIter(iter)
  <2>1. \A acl \in Acl, ace \in Ace : F[acl][ace] \in Acl /\ F[acl][ace] = MergeAce(acl, ace)
    BY MergeAceFacts
  <2> HIDE DEF F
  <2>2. PICK it : IsFold(it, F, Acl, a, b, n)
    <3>1. IsStep(F, Acl, Ace)
      BY <2>1 DEF IsStep
    <3> QED BY <1>1, <3>1, FoldExists
  <2>3. ASSUME NEW s \in SUBSET (1 .. n), s # {}
        PROVE  F[it[s \ {Max(s)}]][b[Max(s)]] = MergeAce(it[s \ {Max(s)}], b[Max(s)])
    <3>1. Max(s) \in 1 .. n /\ s \ {Max(s)} \in SUBSET (1 .. n)
      BY <1>1, <2>3, Extrema
    <3>2. it[s \ {Max(s)}] \in Acl /\ b[Max(s)] \in Ace
      BY <1>1, <2>2, <3>1 DEF IsFold
    <3> QED BY <2>1, <3>2
  <2>4. IsIter(it)
    BY <1>1, <2>2, <2>3 DEF IsFold
  <2> HIDE DEF IsIter
  <2> QED BY <2>4
<1> HIDE DEF iter
<1>4. iter[{}] = a /\ \A s \in SUBSET (1 .. n) : s # {} => iter[s] = MergeAce(iter[s \ {Max(s)}], b[Max(s)])
  BY <1>1, <1>3
<1>5. ASSUME NEW k \in 0 .. n - 1
      PROVE  /\ iter[1 .. k + 1] = MergeAce(iter[1 .. k], b[k + 1])
             /\ k + 1 \in 1 .. n
  <2>1. k \in Nat /\ 1 .. k + 1 \in SUBSET (1 .. n) /\ k + 1 \in 1 .. n
    BY <1>1
  <2>2. 1 .. k + 1 # {} /\ Max(1 .. k + 1) = k + 1 /\ (1 .. k + 1) \ {k + 1} = 1 .. k
    BY <2>1, GoneThrough
  <2> QED BY <1>4, <2>1, <2>2
<1> DEFINE Part(k) == {b[j] : j \in 1 .. k}
           Holds(u, k) == /\ u \in Acl
                          /\ Groups(u) = Groups(a) \cup {e.group : e \in Part(k)}
                          /\ \A g, bit : Grants(u, g, bit) <=>
                                \/ Grants(a, g, bit)
                                \/ \E e \in Part(k) : g = e.group /\ bit \in e.mode
           T == {k \in 0 .. n : Holds(iter[1 .. k], k)}
<1>6. 0 \in T
  <2>1. Part(0) = {} /\ 1 .. 0 = {} /\ 0 \in 0 .. n
    BY <1>1, GoneThrough
  <2> HIDE DEF Part
  <2>2. Holds(iter[1 .. 0], 0)
    BY <1>4, <2>1
  <2> HIDE DEF Holds
  <2> QED BY <2>1, <2>2
<1>7. ASSUME NEW k \in 0 .. n - 1, k \in T PROVE k + 1 \in T
  <2>1. k + 1 \in 0 .. n /\ b[k + 1] \in Ace
    <3> HIDE DEF T
    <3> QED BY <1>1, <1>5
  <2>2. Holds(iter[1 .. k], k)
    <3> HIDE DEF Holds
    <3> QED BY <1>7
  <2>3. Part(k + 1) = Part(k) \cup {b[k + 1]}
    <3> HIDE DEF T
    <3>1. 1 .. k + 1 = (1 .. k) \cup {k + 1}
      BY <1>1
    <3> HIDE DEF Holds
    <3> QED BY <3>1
  <2> HIDE DEF Part
  <2>4. Holds(iter[1 .. k + 1], k + 1)
    <3> DEFINE u == iter[1 .. k]
    <3>1. Holds(u, k) /\ iter[1 .. k + 1] = MergeAce(u, b[k + 1])
      BY <1>5, <2>2
    <3> HIDE DEF u
    <3>2. u \in Acl
      BY <3>1
    <3>3. /\ MergeAce(u, b[k + 1]) \in Acl
          /\ Groups(MergeAce(u, b[k + 1])) = Groups(u) \cup {b[k + 1].group}
          /\ \A g, bit : Grants(MergeAce(u, b[k + 1]), g, bit) <=>
                             Grants(u, g, bit) \/ (g = b[k + 1].group /\ bit \in b[k + 1].mode)
      BY <2>1, <3>2, MergeAceFacts
    <3> QED BY <2>3, <3>1, <3>3
  <2> HIDE DEF Holds
  <2> QED BY <2>1, <2>4
<1>8. Holds(iter[1 .. n], n)
  <2> HIDE DEF Holds
  <2>1. n \in T
    <3> HIDE DEF T
    <3> QED BY <1>1, <1>6, <1>7, LoopInduction
  <2> QED BY <2>1
<1>9. Groups(b) = {e.group : e \in Part(n)}
  BY <1>1 DEF Groups
<1>10. \A g, bit : Grants(b, g, bit) <=> \E e \in Part(n) : g = e.group /\ bit \in e.mode
  BY <1>1 DEF Grants
<1> HIDE DEF Part
<1> QED BY <1>2, <1>8, <1>9, <1>10

-----------------------------------------------------------------------------
\* Entries.

WithAcl(e, acl) == [e EXCEPT !.acl = acl]

\* Entries have a path and an ACL, and may have more.
AreEntries(Es) ==
    \A e \in Es :
       /\ e.acl \in Acl
       /\ e = WithAcl(e, e.acl)
       /\ \A acl \in Acl :
             /\ WithAcl(e, acl) \in Es
             /\ WithAcl(e, acl).acl = acl /\ WithAcl(e, acl).path = e.path
             /\ \A other \in Acl : WithAcl(WithAcl(e, acl), other) = WithAcl(e, other)

IsWithin(a, b) ==
    Groups(a) \subseteq Groups(b) /\ \A g, bit : Grants(a, g, bit) => Grants(b, g, bit)

\* m has the entries of P, those of one path as one.
Stems(f, P) == \E e \in P : f = WithAcl(e, f.acl)
IsKept(e, m) == \E i \in DOMAIN m : m[i].path = e.path /\ IsWithin(e.acl, m[i].acl)
Justified(f, P) ==
    /\ \A g \in Groups(f.acl) : \E e \in P : e.path = f.path /\ g \in Groups(e.acl)
    /\ \A g, bit : Grants(f.acl, g, bit) => \E e \in P : e.path = f.path /\ Grants(e.acl, g, bit)
Merges(m, P) ==
    /\ \A i \in DOMAIN m : Stems(m[i], P) /\ Justified(m[i], P)
    /\ \A e \in P : IsKept(e, m)

LEMMA MergeEntryFacts ==
    ASSUME NEW Es, AreEntries(Es), NEW P \in SUBSET Es, NEW m \in Seq(Es), Merges(m, P), NEW e \in Es
    PROVE  MergeEntry(m, e) \in Seq(Es) /\ Merges(MergeEntry(m, e), P \cup {e})
<1> DEFINE same == {i \in 1 .. Len(m) : m[i].path = e.path}
           i == Min(same)
           u == MergeEntry(m, e)
           Q == P \cup {e}
<1>1. Len(m) \in Nat /\ DOMAIN m = 1 .. Len(m) /\ \A j \in DOMAIN m : m[j] \in Es
  OBVIOUS
<1>2. e.acl \in Acl /\ e = WithAcl(e, e.acl)
  BY DEF AreEntries
<1>3. \A f : Stems(f, P) => Stems(f, Q)
  BY DEF Stems
<1>4. \A f : Justified(f, P) => Justified(f, Q)
  BY DEF Justified
<1>5. \A acl : IsWithin(acl, acl)
  BY DEF IsWithin
<1>6. CASE same = {}
  <2>1. u = Append(m, e)
    BY <1>1, <1>6 DEF MergeEntry, SelectInSeq
  <2>2. /\ u \in Seq(Es) /\ DOMAIN u = 1 .. Len(m) + 1 /\ u[Len(m) + 1] = e
        /\ \A j \in DOMAIN m : u[j] = m[j]
    BY <1>1, <2>1
  <2> HIDE DEF u, same, i
  <2>3. \A j \in DOMAIN u : j \in DOMAIN m \/ j = Len(m) + 1
    BY <1>1, <2>2
  <2>4. (\A j \in DOMAIN m : j \in DOMAIN u) /\ Len(m) + 1 \in DOMAIN u
    BY <1>1, <2>2
  <2>5. Stems(e, Q) /\ Justified(e, Q)
    BY <1>2 DEF Stems, Justified
  <2>6. \A j \in DOMAIN u : Stems(u[j], Q) /\ Justified(u[j], Q)
    BY <1>3, <1>4, <2>2, <2>3, <2>5 DEF Merges
  <2>7. \A f \in Q : IsKept(f, u)
    BY <1>5, <2>2, <2>4 DEF Merges, IsKept
  <2> QED BY <2>2, <2>6, <2>7 DEF Merges, u
<1>7. CASE same # {}
  <2>1. i \in same
    BY <1>1, <1>7, Extrema
  <2>2. i # 0
    <3> HIDE DEF i
    <3>1. i \in 1 .. Len(m)
      BY <2>1
    <3> QED BY <1>1, <3>1
  <2>3. u = [m EXCEPT ![i].acl = AclUnion(@, e.acl)]
    BY <1>1, <1>7, <2>2 DEF MergeEntry, SelectInSeq
  <2>4. i \in DOMAIN m /\ m[i] \in Es /\ m[i].path = e.path /\ m[i].acl \in Acl
    BY <1>1, <2>1 DEF AreEntries
  <2> DEFINE acl == AclUnion(m[i].acl, e.acl)
             new == WithAcl(m[i], acl)
  <2>5. u = [m EXCEPT ![i] = new]
    BY <2>3 DEF WithAcl
  <2>6. /\ acl \in Acl /\ Groups(acl) = Groups(m[i].acl) \cup Groups(e.acl)
        /\ \A g, bit : Grants(acl, g, bit) <=> Grants(m[i].acl, g, bit) \/ Grants(e.acl, g, bit)
    BY <1>2, <2>4, AclUnionFacts
  <2> HIDE DEF acl, same, i
  <2>7. new \in Es /\ new.acl = acl /\ new.path = e.path
    BY <2>4, <2>6 DEF AreEntries
  <2>8. Stems(new, P)
    <3>1. PICK f \in P : m[i] = WithAcl(f, m[i].acl)
      BY <2>4 DEF Merges, Stems
    <3>2. new = WithAcl(f, acl)
      BY <2>4, <2>6, <3>1 DEF AreEntries
    <3> QED BY <2>7, <3>2 DEF Stems
  <2>9. Justified(new, Q)
    <3>1. Justified(m[i], P)
      BY <2>4 DEF Merges
    <3> HIDE DEF new
    <3> QED BY <2>4, <2>6, <2>7, <3>1 DEF Justified
  <2>10. IsWithin(m[i].acl, acl) /\ IsWithin(e.acl, acl)
    BY <2>6 DEF IsWithin
  <2> HIDE DEF new
  <2>11. /\ u \in Seq(Es) /\ DOMAIN u = DOMAIN m /\ u[i] = new
         /\ \A j \in DOMAIN m : j # i => u[j] = m[j]
    BY <2>4, <2>5, <2>7
  <2> HIDE DEF u
  <2>12. \A j \in DOMAIN u : Stems(u[j], Q) /\ Justified(u[j], Q)
    BY <1>3, <1>4, <2>8, <2>9, <2>11 DEF Merges
  <2>13. IsKept(e, u)
    BY <2>4, <2>7, <2>10, <2>11 DEF IsKept
  <2>14. ASSUME NEW f \in P PROVE IsKept(f, u)
    <3>1. PICK j \in DOMAIN m : m[j].path = f.path /\ IsWithin(f.acl, m[j].acl)
      BY DEF Merges, IsKept
    <3>2. CASE j # i
      BY <2>11, <3>1, <3>2 DEF IsKept
    <3>3. CASE j = i
      <4>1. IsWithin(f.acl, acl)
        BY <2>10, <3>1, <3>3 DEF IsWithin
      <4> QED BY <2>4, <2>7, <2>11, <3>1, <3>3, <4>1 DEF IsKept
    <3> QED BY <3>2, <3>3
  <2> QED BY <2>11, <2>12, <2>13, <2>14 DEF Merges, u
<1> QED BY <1>6, <1>7

\* compileRealShares() and compileTraversal() lose nothing and add nothing.
LEMMA MergeEntriesFacts ==
    ASSUME NEW Es, AreEntries(Es), NEW es \in Seq(Es)
    PROVE  MergeEntries(es) \in Seq(Es) /\ Merges(MergeEntries(es), ToSet(es))
<1> DEFINE n == Len(es)
           V == {u \in Seq(Es) : \E P \in SUBSET Es : Merges(u, P)}
           F == [u \in V |-> [e \in Es |-> MergeEntry(u, e)]]
           IsIter(it) == it = [s \in SUBSET DOMAIN es |->
                                 IF s = {} THEN <<>> ELSE MergeEntry(it[s \ {Max(s)}], es[Max(s)])]
           iter == CHOOSE it : IsIter(it)
           Part(k) == {es[j] : j \in 1 .. k}
           Holds(u, k) == u \in Seq(Es) /\ Merges(u, Part(k))
<1>1. n \in Nat /\ DOMAIN es = 1 .. n /\ \A i \in 1 .. n : es[i] \in Es
  OBVIOUS
<1>2. MergeEntries(es) = iter[1 .. n]
  BY <1>1 DEF MergeEntries, FoldLeft, MapThenFoldSet
<1>3. <<>> \in Seq(Es) /\ Merges(<<>>, {})
  BY DEF Merges
<1> HIDE DEF n
<1>4. IsIter(iter)
  <2>1. \A u \in V, e \in Es : MergeEntry(u, e) \in V
    <3>1. ASSUME NEW u \in V, NEW e \in Es PROVE MergeEntry(u, e) \in V
      <4>1. PICK P \in SUBSET Es : Merges(u, P)
        OBVIOUS
      <4>2. MergeEntry(u, e) \in Seq(Es) /\ Merges(MergeEntry(u, e), P \cup {e})
        BY <4>1, MergeEntryFacts
      <4>3. P \cup {e} \in SUBSET Es
        OBVIOUS
      <4> QED BY <4>2, <4>3
    <3> QED BY <3>1
  <2>2. <<>> \in V
    BY <1>3
  <2> HIDE DEF V
  <2>3. \A u \in V, e \in Es : F[u][e] \in V /\ F[u][e] = MergeEntry(u, e)
    BY <2>1
  <2> HIDE DEF F
  <2>4. PICK it : IsFold(it, F, V, <<>>, es, n)
    <3>1. IsStep(F, V, Es)
      BY <2>3 DEF IsStep
    <3> QED BY <1>1, <2>2, <3>1, FoldExists
  <2>5. ASSUME NEW s \in SUBSET (1 .. n), s # {}
        PROVE  F[it[s \ {Max(s)}]][es[Max(s)]] = MergeEntry(it[s \ {Max(s)}], es[Max(s)])
    <3>1. Max(s) \in 1 .. n /\ s \ {Max(s)} \in SUBSET (1 .. n)
      BY <1>1, <2>5, Extrema
    <3>2. it[s \ {Max(s)}] \in V /\ es[Max(s)] \in Es
      BY <1>1, <2>4, <3>1 DEF IsFold
    <3> QED BY <2>3, <3>2
  <2>6. IsIter(it)
    BY <1>1, <2>4, <2>5 DEF IsFold
  <2> HIDE DEF IsIter
  <2> QED BY <2>6
<1> HIDE DEF iter, V, F
<1>5. /\ iter[{}] = <<>>
      /\ \A s \in SUBSET (1 .. n) : s # {} => iter[s] = MergeEntry(iter[s \ {Max(s)}], es[Max(s)])
  BY <1>1, <1>4
<1>6. ASSUME NEW k \in 0 .. n - 1
      PROVE  iter[1 .. k + 1] = MergeEntry(iter[1 .. k], es[k + 1]) /\ k + 1 \in 1 .. n
  <2>1. k \in Nat /\ 1 .. k + 1 \in SUBSET (1 .. n) /\ k + 1 \in 1 .. n
    BY <1>1
  <2>2. 1 .. k + 1 # {} /\ Max(1 .. k + 1) = k + 1 /\ (1 .. k + 1) \ {k + 1} = 1 .. k
    BY <2>1, GoneThrough
  <2> QED BY <1>5, <2>1, <2>2
<1> HIDE DEF IsIter
<1> DEFINE T == {k \in 0 .. n : Holds(iter[1 .. k], k)}
<1>7. 0 \in T
  <2>1. Part(0) = {} /\ 1 .. 0 = {} /\ 0 \in 0 .. n
    BY <1>1, GoneThrough
  <2> HIDE DEF Part
  <2> QED BY <1>3, <1>5, <2>1
<1>8. ASSUME NEW k \in 0 .. n - 1, k \in T PROVE k + 1 \in T
  <2>1. k + 1 \in 0 .. n /\ es[k + 1] \in Es
    <3> HIDE DEF T
    <3> QED BY <1>1, <1>6
  <2>2. Holds(iter[1 .. k], k)
    <3> HIDE DEF Holds
    <3> QED BY <1>8
  <2>3. Part(k + 1) = Part(k) \cup {es[k + 1]} /\ Part(k) \in SUBSET Es
    <3> HIDE DEF T, Holds
    <3>1. 1 .. k + 1 = (1 .. k) \cup {k + 1} /\ \A j \in 1 .. k : j \in 1 .. n
      BY <1>1
    <3> QED BY <1>1, <3>1
  <2> HIDE DEF Part
  <2>4. Holds(iter[1 .. k + 1], k + 1)
    BY <1>6, <2>1, <2>2, <2>3, MergeEntryFacts
  <2> HIDE DEF Holds
  <2> QED BY <2>1, <2>4
<1>9. Holds(iter[1 .. n], n)
  <2> HIDE DEF Holds
  <2>1. n \in T
    <3> HIDE DEF T
    <3> QED BY <1>1, <1>7, <1>8, LoopInduction
  <2> QED BY <2>1
<1>10. ToSet(es) = Part(n)
  BY <1>1 DEF ToSet
<1> HIDE DEF Part
<1> QED BY <1>2, <1>9, <1>10

-----------------------------------------------------------------------------
\* Lists.

LEMMA ConcatenationFacts ==
    ASSUME NEW S, NEW s \in Seq(S), NEW t \in Seq(S)
    PROVE  s \o t \in Seq(S) /\ ToSet(s \o t) = ToSet(s) \cup ToSet(t)
<1>1. /\ s \o t \in Seq(S) /\ DOMAIN s = 1 .. Len(s) /\ DOMAIN t = 1 .. Len(t)
      /\ DOMAIN (s \o t) = 1 .. Len(s) + Len(t) /\ Len(s) \in Nat /\ Len(t) \in Nat
      /\ \A k \in 1 .. Len(s) : (s \o t)[k] = s[k]
      /\ \A k \in 1 .. Len(t) : (s \o t)[Len(s) + k] = t[k]
  OBVIOUS
<1> DEFINE u == s \o t
<1> HIDE DEF u
<1>2. ASSUME NEW k \in DOMAIN u PROVE u[k] \in ToSet(s) \cup ToSet(t)
  <2>1. CASE k \in 1 .. Len(s)
    BY <1>1, <2>1 DEF ToSet, u
  <2>2. CASE k \notin 1 .. Len(s)
    <3>1. k - Len(s) \in 1 .. Len(t) /\ k = Len(s) + (k - Len(s))
      BY <1>1, <2>2 DEF u
    <3> QED BY <1>1, <3>1 DEF ToSet, u
  <2> QED BY <2>1, <2>2
<1>3. ASSUME NEW k \in DOMAIN s PROVE s[k] \in ToSet(u)
  <2>1. k \in DOMAIN u /\ u[k] = s[k]
    BY <1>1 DEF u
  <2> QED BY <2>1 DEF ToSet
<1>4. ASSUME NEW k \in DOMAIN t PROVE t[k] \in ToSet(u)
  <2>1. Len(s) + k \in DOMAIN u /\ u[Len(s) + k] = t[k]
    BY <1>1 DEF u
  <2> QED BY <2>1 DEF ToSet
<1>5. ToSet(u) = ToSet(s) \cup ToSet(t)
  BY <1>2, <1>3, <1>4 DEF ToSet
<1> QED BY <1>1, <1>5 DEF u

LEMMA PairFacts ==
    ASSUME NEW S, NEW a \in S, NEW b \in S
    PROVE  <<a>> \o <<b>> = <<a, b>>
<1> DEFINE s == <<a>> \o <<b>>
           t == <<a, b>>
<1>1. <<a>> \in Seq(S) /\ Len(<<a>>) = 1 /\ <<a>>[1] = a
  OBVIOUS
<1>2. <<b>> \in Seq(S) /\ Len(<<b>>) = 1 /\ <<b>>[1] = b
  OBVIOUS
<1>3. s \in Seq(S) /\ Len(s) = 2 /\ s[1] = a /\ s[2] = b
  BY <1>1, <1>2
<1>4. t \in Seq(S) /\ Len(t) = 2 /\ t[1] = a /\ t[2] = b
  OBVIOUS
<1> HIDE DEF s, t
<1>5. \A i \in 1 .. Len(s) : s[i] = t[i]
  BY <1>3, <1>4
<1>6. s = t
  BY <1>3, <1>4, <1>5, SeqEqual
<1> QED BY <1>6 DEF s, t

LEMMA FlattenFacts ==
    ASSUME NEW S, NEW ss \in Seq(Seq(S))
    PROVE  /\ FlattenSeq(ss) \in Seq(S)
           /\ ToSet(FlattenSeq(ss)) = UNION {ToSet(ss[i]) : i \in DOMAIN ss}
<1> DEFINE n == Len(ss)
           IsFlat(f, m) == f = [i \in 1 .. m |-> IF i = 1 THEN ss[i] ELSE f[i - 1] \o ss[i]]
           f == CHOOSE f : IsFlat(f, n)
<1>1. n \in Nat /\ DOMAIN ss = 1 .. n /\ \A i \in 1 .. n : ss[i] \in Seq(S)
  OBVIOUS
<1>2. CASE n = 0
  <2>1. FlattenSeq(ss) = ss /\ ss = <<>> /\ DOMAIN ss = {}
    BY <1>1, <1>2 DEF FlattenSeq
  <2> QED BY <2>1 DEF ToSet
<1>3. CASE n # 0
  <2>1. FlattenSeq(ss) = f[n]
    BY <1>3 DEF FlattenSeq
  <2> HIDE DEF n
  <2>2. IsFlat(f, n)
    <3> DEFINE T == {m \in 0 .. n : \E g : IsFlat(g, m)}
    <3>1. 0 \in T
      <4> DEFINE g == [i \in {} |-> {}]
      <4>1. g = [i \in 1 .. 0 |-> IF i = 1 THEN ss[i] ELSE g[i - 1] \o ss[i]]
        <5>1. 1 .. 0 = {}
          BY GoneThrough
        <5> QED BY <5>1
      <4>2. IsFlat(g, 0) /\ 0 \in 0 .. n
        BY <1>1, <4>1
      <4> HIDE DEF IsFlat, g
      <4> QED BY <4>2
    <3>2. ASSUME NEW m \in 0 .. n - 1, m \in T PROVE m + 1 \in T
      <4>1. PICK g : IsFlat(g, m)
        BY <3>2
      <4>2. m \in Nat /\ m + 1 \in 0 .. n
        <5> HIDE DEF T, IsFlat
        <5> QED BY <1>1
      <4> DEFINE F(i) == IF i = 1 THEN ss[i] ELSE g[i - 1] \o ss[i]
                 h == [i \in 1 .. m + 1 |-> F(i)]
      <4>3. \A i \in 1 .. m : g[i] = F(i)
        BY <4>1
      <4>4. \A i \in 1 .. m + 1 : i = 1 \/ i - 1 \in 1 .. m
        BY <4>2
      <4>5. \A i \in 1 .. m : h[i] = g[i]
        BY <4>2, <4>3
      <4>6. \A i \in 1 .. m + 1 : F(i) = IF i = 1 THEN ss[i] ELSE h[i - 1] \o ss[i]
        BY <4>4, <4>5
      <4>7. h = [i \in 1 .. m + 1 |-> IF i = 1 THEN ss[i] ELSE h[i - 1] \o ss[i]]
        BY <4>6
      <4> HIDE DEF h
      <4>8. IsFlat(h, m + 1)
        BY <4>7
      <4> HIDE DEF IsFlat
      <4> QED BY <4>2, <4>8
    <3>3. n \in T
      <4> HIDE DEF T
      <4> QED BY <1>1, <3>1, <3>2, LoopInduction
    <3> HIDE DEF IsFlat
    <3> QED BY <3>3
  <2>3. \A i \in 1 .. n : f[i] = IF i = 1 THEN ss[i] ELSE f[i - 1] \o ss[i]
    BY <2>2
  <2> HIDE DEF f, IsFlat
  <2> DEFINE Holds(k) == f[k] \in Seq(S) /\ ToSet(f[k]) = UNION {ToSet(ss[i]) : i \in 1 .. k}
             T == {k \in 0 .. n : k # 0 => Holds(k)}
  <2>4. 0 \in T
    <3> HIDE DEF Holds
    <3> QED BY <1>1
  <2>5. ASSUME NEW k \in 0 .. n - 1, k \in T PROVE k + 1 \in T
    <3>1. k \in Nat /\ k + 1 \in 1 .. n /\ k + 1 \in 0 .. n
      <4> HIDE DEF T
      <4> QED BY <1>1
    <3>2. CASE k = 0
      <4>1. f[k + 1] = ss[k + 1] /\ 1 .. k + 1 = {k + 1} /\ ss[k + 1] \in Seq(S)
        BY <1>1, <2>3, <3>1, <3>2
      <4> QED BY <3>1, <4>1
    <3>3. CASE k # 0
      <4>1. Holds(k)
        <5> HIDE DEF Holds
        <5> QED BY <2>5, <3>3
      <4>2. f[k + 1] = f[k] \o ss[k + 1]
        <5>1. k + 1 # 1 /\ (k + 1) - 1 = k
          BY <3>1, <3>3
        <5> QED BY <2>3, <3>1, <5>1
      <4>3. f[k] \in Seq(S) /\ ss[k + 1] \in Seq(S)
        BY <1>1, <3>1, <4>1
      <4>4. f[k + 1] \in Seq(S) /\ ToSet(f[k + 1]) = ToSet(f[k]) \cup ToSet(ss[k + 1])
        BY <4>2, <4>3, ConcatenationFacts
      <4>5. 1 .. k + 1 = (1 .. k) \cup {k + 1}
        BY <3>1
      <4>6. UNION {ToSet(ss[i]) : i \in 1 .. k + 1}
              = (UNION {ToSet(ss[i]) : i \in 1 .. k}) \cup ToSet(ss[k + 1])
        <5> HIDE DEF T, Holds
        <5> QED BY <4>5
      <4>7. Holds(k + 1)
        <5> HIDE DEF T
        <5> QED BY <4>1, <4>4, <4>6
      <4> HIDE DEF Holds
      <4> QED BY <3>1, <4>7
    <3> QED BY <3>2, <3>3
  <2>6. n \in T
    <3> HIDE DEF T
    <3> QED BY <1>1, <2>4, <2>5, LoopInduction
  <2>7. Holds(n)
    <3> HIDE DEF Holds
    <3> QED BY <1>3, <2>6
  <2> QED BY <1>1, <2>1, <2>7
<1> QED BY <1>2, <1>3

\* The elements of s that are in P.
Parts(s, P) == [i \in DOMAIN s |-> IF s[i] \in P THEN <<s[i]>> ELSE <<>>]

LEMMA PassingFacts ==
    ASSUME NEW S, NEW s \in Seq(S), NEW P, NEW ss, ss = Parts(s, P)
    PROVE  FlattenSeq(ss) \in Seq(S) /\ ToSet(FlattenSeq(ss)) = ToSet(s) \cap P
<1>1. \A i \in DOMAIN s : ss[i] = IF s[i] \in P THEN <<s[i]>> ELSE <<>>
  BY DEF Parts
<1>2. DOMAIN ss = DOMAIN s /\ DOMAIN s = 1 .. Len(s) /\ \A i \in DOMAIN s : s[i] \in S
  BY DEF Parts
<1>3. ss \in Seq(Seq(S))
  <2>1. \A i \in DOMAIN s : ss[i] \in Seq(S)
    <3>1. \A x \in S : <<x>> \in Seq(S)
      OBVIOUS
    <3>2. <<>> \in Seq(S)
      OBVIOUS
    <3> QED BY <1>1, <1>2, <3>1, <3>2
  <2>2. ss \in [1 .. Len(s) -> Seq(S)] /\ Len(s) \in Nat
    BY <1>2, <2>1 DEF Parts
  <2> QED BY <2>2
<1>4. \A i \in DOMAIN s : ToSet(ss[i]) = {s[i]} \cap P
  <2>1. \A x : ToSet(<<x>>) = {x}
    BY DEF ToSet
  <2>2. ToSet(<<>>) = {}
    BY DEF ToSet
  <2>3. ASSUME NEW i \in DOMAIN s PROVE ToSet(ss[i]) = {s[i]} \cap P
    <3>1. CASE s[i] \in P
      <4>1. ToSet(ss[i]) = {s[i]}
        BY <1>1, <2>1, <3>1
      <4> QED BY <3>1, <4>1
    <3>2. CASE s[i] \notin P
      <4>1. ToSet(ss[i]) = {}
        BY <1>1, <2>2, <3>2
      <4> QED BY <3>2, <4>1
    <3> QED BY <3>1, <3>2
  <2> QED BY <2>3
<1>5. ToSet(s) = {s[i] : i \in DOMAIN s}
  BY DEF ToSet
<1>6. UNION {ToSet(ss[i]) : i \in DOMAIN ss} = ToSet(s) \cap P
  <2> DEFINE U == UNION {ToSet(ss[i]) : i \in DOMAIN ss}
  <2>1. \A x : x \in U <=> \E i \in DOMAIN ss : x \in ToSet(ss[i])
    OBVIOUS
  <2> HIDE DEF U
  <2>2. \A x : x \in U <=> x \in ToSet(s) \cap P
    <3>1. ASSUME NEW x \in U PROVE x \in ToSet(s) \cap P
      BY <1>2, <1>4, <1>5, <2>1
    <3>2. ASSUME NEW x \in ToSet(s) \cap P PROVE x \in U
      BY <1>2, <1>4, <1>5, <2>1
    <3> QED BY <3>1, <3>2
  <2>3. U = ToSet(s) \cap P
    BY <2>2
  <2> QED BY <2>3 DEF U
<1>7. /\ FlattenSeq(ss) \in Seq(S)
      /\ ToSet(FlattenSeq(ss)) = UNION {ToSet(ss[i]) : i \in DOMAIN ss}
  BY <1>3, FlattenFacts
<1> QED BY <1>6, <1>7

-----------------------------------------------------------------------------
\* What is compiled.

AllExports == UNION {{c.exports[i] : i \in DOMAIN c.exports} : c \in Configs}
Names == UNION {ToSet(e.path) : e \in AllExports}
DirNames == Names \cup {OrgUnitDir, ServiceDir}
LogicalPath == {p \in Seq(Names) : p # <<>> /\ ToSet(p) \cap {"", ".."} = {}}
RealPath == {r \in Seq(DirNames) : r # <<>>}
Managing == {ManagingGroupsOfPath(e.path) : e \in AllExports}

Entry == [path : LogicalPath, acl : Acl, managing : Managing]
RealEntry == [path : RealPath, acl : Acl, managing : Managing]
TraversalEntry == [path : RealPath, acl : Acl]

LEMMA AllAreEntries == AreEntries(RealEntry) /\ AreEntries(TraversalEntry)
<1>1. ASSUME NEW e \in RealEntry
      PROVE  /\ e.acl \in Acl
             /\ e = WithAcl(e, e.acl)
             /\ \A acl \in Acl :
                   /\ WithAcl(e, acl) \in RealEntry
                   /\ WithAcl(e, acl).acl = acl /\ WithAcl(e, acl).path = e.path
                   /\ \A other \in Acl : WithAcl(WithAcl(e, acl), other) = WithAcl(e, other)
  BY DEF WithAcl, RealEntry
<1>2. ASSUME NEW e \in TraversalEntry
      PROVE  /\ e.acl \in Acl
             /\ e = WithAcl(e, e.acl)
             /\ \A acl \in Acl :
                   /\ WithAcl(e, acl) \in TraversalEntry
                   /\ WithAcl(e, acl).acl = acl /\ WithAcl(e, acl).path = e.path
                   /\ \A other \in Acl : WithAcl(WithAcl(e, acl), other) = WithAcl(e, other)
  BY DEF WithAcl, TraversalEntry
<1> QED BY <1>1, <1>2 DEF AreEntries

LEMMA ExportFacts ==
    ASSUME NEW c \in Configs, NEW i \in DOMAIN c.exports
    PROVE  LET e == c.exports[i]
           IN /\ e \in AllExports /\ e = [path |-> e.path, acl |-> e.acl]
              /\ e.path \in Seq(Names) /\ Trim(e.path) \in LogicalPath /\ e.acl \in Acl
              /\ CompileExport(e) \in Entry
              /\ CompileExport(e) = [path |-> Trim(e.path), acl |-> e.acl,
                                     managing |-> ManagingGroupsOfPath(e.path)]
<1> DEFINE e == c.exports[i]
<1>1. IsExport(e) /\ e \in AllExports
  BY ConfigAssumption DEF AllExports
<1>2. Groups(e.acl) \subseteq GroupNames
  BY DEF GroupNames
<1> HIDE DEF e
<1>3. e = [path |-> e.path, acl |-> e.acl]
  BY <1>1 DEF IsExport
<1>4. e.path \in Seq(ToSet(e.path)) /\ ToSet(e.path) \subseteq Names
  BY <1>1 DEF IsExport, IsList, Names
<1>5. e.path \in Seq(Names)
  BY <1>4
<1>6. Trim(e.path) \in Seq(Names)
  <2> DEFINE p == e.path
             parts == {k \in 1 .. Len(p) : p[k] # ""}
  <2>1. p \in Seq(Names) /\ Len(p) \in Nat
    BY <1>5
  <2>2. CASE parts = {}
    <3>1. Trim(p) = <<>>
      BY <2>2 DEF Trim
    <3> QED BY <3>1
  <2>3. CASE parts # {}
    <3>1. Trim(p) = SubSeq(p, Min(parts), Max(parts))
      BY <2>3 DEF Trim
    <3>2. Min(parts) \in parts /\ Max(parts) \in parts /\ parts \subseteq 1 .. Len(p)
      BY <2>1, <2>3, Extrema
    <3> HIDE DEF parts, p
    <3>3. Min(parts) \in 1 .. Len(p) /\ Max(parts) \in 1 .. Len(p)
      BY <3>2
    <3>4. SubSeq(p, Min(parts), Max(parts)) \in Seq(Names)
      BY <2>1, <3>3
    <3> QED BY <3>1, <3>4 DEF p
  <2> QED BY <2>2, <2>3
<1>7. Trim(e.path) \in LogicalPath
  BY <1>1, <1>6 DEF IsExport, LogicalPath
<1>8. e.acl \in Acl
  <2>1. e.acl \in Seq(ToSet(e.acl)) /\ \A a \in ToSet(e.acl) : a \in [group : {a.group}, mode : SUBSET Bits]
    BY <1>1 DEF IsExport, IsList, Bits
  <2>2. \A a \in ToSet(e.acl) : a.group \in Groups(e.acl)
    BY DEF ToSet, Groups
  <2>3. \A a \in ToSet(e.acl) : a \in Ace
    BY <1>2, <2>1, <2>2 DEF Ace, e
  <2> QED BY <2>1, <2>3 DEF Acl
<1>9. CompileExport(e) = [path |-> Trim(e.path), acl |-> e.acl,
                          managing |-> ManagingGroupsOfPath(e.path)]
  BY DEF CompileExport
<1>10. ManagingGroupsOfPath(e.path) \in Managing
  BY <1>1 DEF Managing
<1>11. CompileExport(e) \in Entry
  BY <1>7, <1>8, <1>9, <1>10 DEF Entry
<1> QED BY <1>1, <1>3, <1>5, <1>7, <1>8, <1>9, <1>11 DEF e

LEMMA PathFacts ==
    ASSUME NEW p \in LogicalPath
    PROVE  Len(p) \in Nat \ {0} /\ \A i \in 1 .. Len(p) : p[i] \in Names /\ p[i] # ".."
<1>1. p \in Seq(Names) /\ p # <<>> /\ \A i \in DOMAIN p : p[i] # ".."
  BY DEF LogicalPath, ToSet
<1> QED BY <1>1

\* The three kinds of realpaths.
LEMMA RealpathFacts ==
    ASSUME NEW p \in LogicalPath
    PROVE  LET r == Realpath(p)
           IN /\ r \in RealPath
              /\ IsServiceRealpath(r) <=> IsServicePath(p)
              /\ ~ IsServicePath(p) => Len(r) = Len(p) + 1 /\ r[1] = OrgUnitDir /\ r[2] = p[1]
              /\ IsServicePath(p) => r[1] = ServiceDir /\ r[2] = p[2]
              /\ IsServicePath(p) /\ IsFacilityPath(p) =>
                    Len(r) = Len(p) /\ (Len(p) >= 3 => r[3] = p[3])
              /\ IsServicePath(p) /\ ~ IsFacilityPath(p) => Len(r) = Len(p) + 1 /\ r[3] = p[1]
<1>1. Len(p) \in Nat \ {0} /\ p \in Seq(DirNames) /\ OrgUnitDir \in DirNames /\ ServiceDir \in DirNames
  <2>1. p \in Seq(Names) /\ Names \subseteq DirNames
    BY DEF LogicalPath, DirNames
  <2>2. p \in Seq(DirNames)
    BY <2>1
  <2> QED BY <2>2, PathFacts DEF DirNames
<1>2. \A i \in 1 .. Len(p) : p[i] \in DirNames
  BY <1>1
<1> DEFINE r == Realpath(p)
<1>3. CASE ~ IsServicePath(p)
  <2>1. r = <<OrgUnitDir>> \o p
    BY <1>3 DEF Realpath
  <2>2. r \in Seq(DirNames) /\ Len(r) = Len(p) + 1 /\ r[1] = OrgUnitDir /\ r[2] = p[1]
    BY <1>1, <2>1
  <2> HIDE DEF r
  <2>3. r # <<>>
    BY <1>1, <2>2
  <2> QED BY <1>3, <2>2, <2>3, DirAssumption DEF RealPath, IsServiceRealpath, r
<1>4. CASE IsServicePath(p) /\ IsFacilityPath(p)
  <2>1. r = <<ServiceDir>> \o SubSeq(p, 2, Len(p)) /\ Len(p) >= 2
    BY <1>4 DEF Realpath, Rest, IsServicePath
  <2> DEFINE q == SubSeq(p, 2, Len(p))
  <2>2. q \in Seq(DirNames) /\ Len(q) = Len(p) - 1 /\ q[1] = p[2] /\ (Len(p) >= 3 => q[2] = p[3])
    BY <1>1, <1>2, <2>1
  <2> HIDE DEF q
  <2>3. /\ r \in Seq(DirNames) /\ Len(r) = Len(p) /\ r[1] = ServiceDir /\ r[2] = p[2]
        /\ Len(p) >= 3 => r[3] = p[3]
    BY <1>1, <2>1, <2>2 DEF q
  <2> HIDE DEF r
  <2>4. r # <<>>
    BY <1>1, <2>3
  <2> QED BY <1>4, <2>3, <2>4 DEF RealPath, IsServiceRealpath, r
<1>5. CASE IsServicePath(p) /\ ~ IsFacilityPath(p)
  <2>1. r = <<ServiceDir, p[2], p[1]>> \o SubSeq(p, 3, Len(p)) /\ Len(p) >= 2
    BY <1>5 DEF Realpath, Rest, IsServicePath
  <2> DEFINE q == SubSeq(p, 3, Len(p))
             h == <<ServiceDir, p[2], p[1]>>
  <2>2. q \in Seq(DirNames) /\ Len(q) = Len(p) - 2
    <3>1. 3 \in Int /\ Len(p) \in Int /\ \A i \in 3 .. Len(p) : p[i] \in DirNames
      BY <1>1, <1>2
    <3>2. q \in Seq(DirNames) /\ Len(q) = IF 3 =< Len(p) THEN Len(p) - 3 + 1 ELSE 0
      BY <3>1, SubSeqProperties
    <3>3. Len(p) \in Nat /\ Len(p) >= 2
      BY <1>1, <2>1
    <3>4. Len(p) - 2 = IF 3 =< Len(p) THEN Len(p) - 3 + 1 ELSE 0
      BY <3>3
    <3> HIDE DEF q
    <3> QED BY <3>2, <3>4
  <2>3. h \in Seq(DirNames) /\ Len(h) = 3 /\ h[1] = ServiceDir /\ h[2] = p[2] /\ h[3] = p[1]
    <3>1. p[1] \in DirNames /\ p[2] \in DirNames
      BY <1>1, <1>2, <2>1
    <3> QED BY <1>1, <3>1
  <2> HIDE DEF q, h
  <2>4. /\ r \in Seq(DirNames) /\ Len(r) = Len(p) + 1 /\ r[1] = ServiceDir /\ r[2] = p[2]
        /\ r[3] = p[1]
    BY <1>1, <2>1, <2>2, <2>3 DEF q, h
  <2> HIDE DEF r
  <2>5. r # <<>>
    BY <1>1, <2>4
  <2> QED BY <1>5, <2>4, <2>5 DEF RealPath, IsServiceRealpath, r
<1> QED BY <1>3, <1>4, <1>5

-----------------------------------------------------------------------------
\* The import filter.

\* What is left of the ACL of an export, and the share that it becomes.
Kept(rules, e) == Passing(e.acl, LAMBDA a : ImportAction(rules, e.path, a) = "accept")
Share(rules, e) == [e EXCEPT !.acl = Kept(rules, e)]
Stays(rules, e) == e.acl = <<>> \/ Kept(rules, e) # <<>>

LEMMA KeptFacts ==
    ASSUME NEW rules, NEW e \in Entry
    PROVE  /\ Kept(rules, e) \in Acl
           /\ ToSet(Kept(rules, e)) = {a \in ToSet(e.acl) : ImportAction(rules, e.path, a) = "accept"}
           /\ Share(rules, e) \in Entry
           /\ Share(rules, e) = [path |-> e.path, acl |-> Kept(rules, e), managing |-> e.managing]
<1> DEFINE P == {a \in Ace : ImportAction(rules, e.path, a) = "accept"}
           ss == [i \in DOMAIN e.acl |->
                    IF ImportAction(rules, e.path, e.acl[i]) = "accept" THEN <<e.acl[i]>> ELSE <<>>]
<1>1. e.acl \in Seq(Ace) /\ \A i \in DOMAIN e.acl : e.acl[i] \in Ace
  BY DEF Entry, Acl
<1>2. Kept(rules, e) = FlattenSeq(ss)
  BY DEF Kept, Passing
<1>3. ss = Parts(e.acl, P)
  BY <1>1 DEF Parts
<1> HIDE DEF ss
<1>4. Kept(rules, e) \in Seq(Ace) /\ ToSet(Kept(rules, e)) = ToSet(e.acl) \cap P
  BY <1>1, <1>2, <1>3, PassingFacts
<1>5. ToSet(e.acl) \subseteq Ace
  BY <1>1 DEF ToSet
<1>6. Share(rules, e) = [path |-> e.path, acl |-> Kept(rules, e), managing |-> e.managing]
  BY DEF Share, Entry
<1>7. Share(rules, e) \in Entry
  BY <1>4, <1>6 DEF Entry, Acl
<1> QED BY <1>4, <1>5, <1>6, <1>7 DEF Acl

LEMMA SharesFacts ==
    ASSUME NEW rules, NEW es \in Seq(Entry)
    PROVE  LET shs == SelectImportedExports(es, rules)
           IN /\ shs \in Seq(Entry)
              /\ ToSet(shs) = {Share(rules, e) : e \in {f \in ToSet(es) : Stays(rules, f)}}
<1> DEFINE ss == [i \in DOMAIN es |->
                    IF Stays(rules, es[i]) THEN <<Share(rules, es[i])>> ELSE <<>>]
           shs == SelectImportedExports(es, rules)
<1>1. DOMAIN es = 1 .. Len(es) /\ Len(es) \in Nat /\ \A i \in DOMAIN es : es[i] \in Entry
  OBVIOUS
<1>2. shs = FlattenSeq(ss)
  BY DEF SelectImportedExports, Stays, Share, Kept
<1>3. \A i \in DOMAIN es : ss[i] \in Seq(Entry)
  <2>1. \A x \in Entry : <<x>> \in Seq(Entry)
    OBVIOUS
  <2>2. <<>> \in Seq(Entry)
    OBVIOUS
  <2>3. \A i \in DOMAIN es : Share(rules, es[i]) \in Entry
    BY <1>1, KeptFacts
  <2> QED BY <2>1, <2>2, <2>3
<1>4. ss \in Seq(Seq(Entry))
  <2>1. ss \in [1 .. Len(es) -> Seq(Entry)]
    BY <1>1, <1>3
  <2> QED BY <1>1, <2>1
<1>5. \A i \in DOMAIN es : ToSet(ss[i]) = IF Stays(rules, es[i]) THEN {Share(rules, es[i])} ELSE {}
  <2>1. \A x : ToSet(<<x>>) = {x}
    BY DEF ToSet
  <2>2. ToSet(<<>>) = {}
    BY DEF ToSet
  <2> QED BY <2>1, <2>2
<1>6. DOMAIN ss = DOMAIN es /\ ToSet(es) = {es[i] : i \in DOMAIN es}
  BY DEF ToSet
<1> HIDE DEF ss
<1>7. shs \in Seq(Entry) /\ ToSet(shs) = UNION {ToSet(ss[i]) : i \in DOMAIN ss}
  BY <1>2, <1>4, FlattenFacts
<1> HIDE DEF shs
<1> DEFINE R == {Share(rules, e) : e \in {f \in ToSet(es) : Stays(rules, f)}}
<1>8. \A x : x \in ToSet(shs) <=> \E i \in DOMAIN es : x \in ToSet(ss[i])
  BY <1>6, <1>7
<1>9. \A x : x \in R <=> \E i \in DOMAIN es : Stays(rules, es[i]) /\ x = Share(rules, es[i])
  BY <1>6
<1> HIDE DEF R
<1>10. ASSUME NEW i \in DOMAIN es, NEW x
       PROVE  x \in ToSet(ss[i]) <=> Stays(rules, es[i]) /\ x = Share(rules, es[i])
  <2>1. CASE Stays(rules, es[i])
    <3>1. ToSet(ss[i]) = {Share(rules, es[i])}
      BY <1>5, <2>1
    <3> QED BY <2>1, <3>1
  <2>2. CASE ~ Stays(rules, es[i])
    <3>1. ToSet(ss[i]) = {}
      BY <1>5, <2>2
    <3> QED BY <2>2, <3>1
  <2> QED BY <2>1, <2>2
<1>11. \A x : x \in ToSet(shs) <=> x \in R
  BY <1>8, <1>9, <1>10
<1> QED BY <1>7, <1>11 DEF shs, R

\* The first rule that applies decides.
LEMMA ImportedFacts ==
    ASSUME IsList(cfg.imports), NEW p, NEW a
    PROVE  ImportAction(cfg.imports, p, a) = "accept" <=> Imported(p, a.group)
<1> DEFINE rules == cfg.imports
           applies(j) == rules[j].group = a.group /\ p \in rules[j].match
           all == {j \in 1 .. Len(rules) : applies(j)}
<1>1. Len(rules) \in Nat /\ DOMAIN rules = 1 .. Len(rules)
  BY DEF IsList
<1>2. Imported(p, a.group) <=>
         \E i \in DOMAIN rules : applies(i) /\ rules[i].action = "accept" /\ \A j \in 1 .. i - 1 : ~ applies(j)
  BY DEF Imported
<1>3. ImportAction(rules, p, a) =
         LET i == IF all = {} THEN 0 ELSE Min(all) IN IF i = 0 THEN "reject" ELSE rules[i].action
  <2> HIDE DEF rules
  <2> QED BY <1>1 DEF ImportAction, SelectInSeq
<1>4. CASE all = {}
  BY <1>1, <1>2, <1>3, <1>4
<1>5. CASE all # {}
  <2>1. Min(all) \in all /\ \A j \in all : Min(all) =< j
    BY <1>1, <1>5, Extrema
  <2> DEFINE first == Min(all)
  <2> HIDE DEF first
  <2>2. first \in 1 .. Len(rules) /\ applies(first) /\ \A j \in 1 .. Len(rules) : applies(j) => first =< j
    BY <2>1 DEF first
  <2>3. ImportAction(rules, p, a) = rules[first].action
    <3>1. first # 0
      BY <1>1, <2>2
    <3>2. ImportAction(rules, p, a) = IF first = 0 THEN "reject" ELSE rules[first].action
      <4> HIDE DEF all
      <4> QED BY <1>3, <1>5 DEF first
    <3> QED BY <3>1, <3>2
  <2>4. \A i \in DOMAIN rules : applies(i) /\ (\A j \in 1 .. i - 1 : ~ applies(j)) => i = first
    BY <1>1, <2>2
  <2>5. \A j \in 1 .. first - 1 : ~ applies(j)
    BY <1>1, <2>2
  <2> QED BY <1>1, <1>2, <2>2, <2>3, <2>4, <2>5
<1> QED BY <1>4, <1>5

-----------------------------------------------------------------------------
\* The steps of Compile().

Compiled == [i \in DOMAIN cfg.exports |-> CompileExport(cfg.exports[i])]

\* Each stage has what the checks before it let pass, and the products are made of that.
SInv ==
    /\ cfg \in Configs
    /\ stage \in {"exports", "naming", "scopes", "nesting", "realpathNesting",
                  "compile", "done", "error"}
    /\ exps = <<>> \/ exps = Compiled
    /\ stage \notin {"exports", "error"} =>
          exps = Compiled /\ \A i \in DOMAIN cfg.exports : ~ TooShort(cfg.exports[i].path)
    /\ stage \in {"nesting", "realpathNesting", "compile", "done"} =>
          \A i \in DOMAIN exps : AclInScope(exps[i])
    /\ stage \in {"realpathNesting", "compile", "done"} => Acceptable(PathsOf(exps), FALSE)
    /\ stage \in {"compile", "done"} => Acceptable(RealpathsOf(exps), TRUE)
    /\ IF stage = "done"
       THEN /\ shares = SelectImportedExports(exps, cfg.imports)
            /\ realShares = CompileRealShares(shares)
            /\ traversal = CompileTraversal(shares, realShares)
            /\ shareTrees = CompileShareTrees(shares)
       ELSE shares = <<>> /\ realShares = <<>> /\ traversal = <<>> /\ shareTrees = <<>>

THEOREM StagesFollow == Spec => []SInv
<1>1. Init => SInv
  BY DEF Init, SInv
<1>2. SInv /\ [Next]_vars => SInv'
  <2> SUFFICES ASSUME SInv, [Next]_vars PROVE SInv'
    OBVIOUS
  <2>1. CASE CompileExports
    <3>1. Compiled' = Compiled
      BY <2>1 DEF CompileExports, Check, Compiled
    <3> QED BY <2>1, <3>1 DEF CompileExports, Check, SInv, Compiled
  <2>2. CASE CheckExportPaths
    <3>1. Compiled' = Compiled
      BY <2>2 DEF CheckExportPaths, Check, Compiled
    <3> QED BY <2>2, <3>1 DEF CheckExportPaths, Check, SInv
  <2>3. CASE CheckExportAclScopes
    <3>1. Compiled' = Compiled
      BY <2>3 DEF CheckExportAclScopes, Check, Compiled
    <3> QED BY <2>3, <3>1 DEF CheckExportAclScopes, Check, SInv
  <2>4. CASE CheckNoNesting
    <3>1. Compiled' = Compiled /\ PathsOf(exps)' = PathsOf(exps)
      BY <2>4 DEF CheckNoNesting, Check, Compiled, PathsOf
    <3> QED BY <2>4, <3>1 DEF CheckNoNesting, Check, SInv
  <2>5. CASE CheckNoRealpathNesting
    <3>1. Compiled' = Compiled /\ RealpathsOf(exps)' = RealpathsOf(exps)
      BY <2>5 DEF CheckNoRealpathNesting, Check, Compiled, RealpathsOf
    <3> QED BY <2>5, <3>1 DEF CheckNoRealpathNesting, Check, SInv
  <2>6. CASE CompileProducts
    <3>1. Compiled' = Compiled
      BY <2>6 DEF CompileProducts, Compiled
    <3> QED BY <2>6, <3>1 DEF CompileProducts, SInv
  <2>7. CASE UNCHANGED vars
    <3>1. Compiled' = Compiled
      BY <2>7 DEF vars, Compiled
    <3> QED BY <2>7, <3>1 DEF vars, SInv
  <2> QED BY <2>1, <2>2, <2>3, <2>4, <2>5, <2>6, <2>7 DEF Next
<1> QED BY <1>1, <1>2, PTL DEF Spec

LEMMA CompiledFacts ==
    ASSUME cfg \in Configs
    PROVE  /\ Compiled \in Seq(Entry) /\ DOMAIN Compiled = DOMAIN cfg.exports
           /\ DOMAIN cfg.exports = 1 .. Len(cfg.exports) /\ Len(cfg.exports) \in Nat
           /\ IsList(cfg.imports)
<1>1. IsList(cfg.exports) /\ IsList(cfg.imports)
  BY ConfigAssumption
<1>2. DOMAIN cfg.exports = 1 .. Len(cfg.exports) /\ Len(cfg.exports) \in Nat
  BY <1>1 DEF IsList
<1>3. \A i \in DOMAIN cfg.exports : CompileExport(cfg.exports[i]) \in Entry
  BY ExportFacts
<1>4. Compiled \in [1 .. Len(cfg.exports) -> Entry]
  BY <1>2, <1>3 DEF Compiled
<1>5. Compiled \in Seq(Entry)
  BY <1>2, <1>4
<1> QED BY <1>1, <1>2, <1>5 DEF Compiled

\* The products, when they are there.
LEMMA ProductFacts ==
    ASSUME SInv, stage = "done"
    PROVE  /\ exps \in Seq(Entry) /\ shares \in Seq(Entry)
           /\ ToSet(shares) = {Share(cfg.imports, e) : e \in {f \in ToSet(exps) : Stays(cfg.imports, f)}}
<1>1. exps \in Seq(Entry)
  BY CompiledFacts DEF SInv
<1> QED BY <1>1, SharesFacts DEF SInv

-----------------------------------------------------------------------------
\* Permissions.

LEMMA PermissionsFacts ==
    ASSUME NEW es
    PROVE  \A t : t \in Permissions(es) <=>
              \E i \in DOMAIN es : \E g, bit : t = <<es[i].path, g, bit>> /\ Grants(es[i].acl, g, bit)
<1> DEFINE Of(e, a) == {<<e.path, a.group, bit>> : bit \in a.mode}
           OfAcl(e) == UNION {Of(e, a) : a \in ToSet(e.acl)}
<1>1. ASSUME NEW e, NEW t
      PROVE  t \in OfAcl(e) <=> \E g, bit : t = <<e.path, g, bit>> /\ Grants(e.acl, g, bit)
  <2>1. t \in OfAcl(e) <=> \E a \in ToSet(e.acl) : t \in Of(e, a)
    OBVIOUS
  <2>2. t \in OfAcl(e) <=> \E k \in DOMAIN e.acl : t \in Of(e, e.acl[k])
    BY <2>1 DEF ToSet
  <2>3. \A a : t \in Of(e, a) <=> \E bit \in a.mode : t = <<e.path, a.group, bit>>
    OBVIOUS
  <2> HIDE DEF Of, OfAcl
  <2> QED BY <2>2, <2>3 DEF Grants
<1>2. Permissions(es) = UNION {OfAcl(es[i]) : i \in DOMAIN es}
  BY DEF Permissions
<1> HIDE DEF OfAcl
<1> QED BY <1>1, <1>2

\* Merging entries changes nobody's permissions.
LEMMA MergedPermissions ==
    ASSUME NEW Es, AreEntries(Es), NEW es \in Seq(Es)
    PROVE  Permissions(MergeEntries(es)) = Permissions(es)
<1> DEFINE m == MergeEntries(es)
<1>1. Merges(m, ToSet(es)) /\ \A e : e \in ToSet(es) <=> \E i \in DOMAIN es : e = es[i]
  BY MergeEntriesFacts DEF ToSet
<1> HIDE DEF m
<1>2. ASSUME NEW t \in Permissions(m) PROVE t \in Permissions(es)
  <2>1. PICK i \in DOMAIN m : \E g, bit : t = <<m[i].path, g, bit>> /\ Grants(m[i].acl, g, bit)
    BY PermissionsFacts
  <2>2. PICK g, bit : t = <<m[i].path, g, bit>> /\ Grants(m[i].acl, g, bit)
    BY <2>1
  <2>3. PICK e \in ToSet(es) : e.path = m[i].path /\ Grants(e.acl, g, bit)
    BY <1>1, <2>2 DEF Merges, Justified
  <2> QED BY <1>1, <2>2, <2>3, PermissionsFacts
<1>3. ASSUME NEW t \in Permissions(es) PROVE t \in Permissions(m)
  <2>1. PICK j \in DOMAIN es : \E g, bit : t = <<es[j].path, g, bit>> /\ Grants(es[j].acl, g, bit)
    BY PermissionsFacts
  <2>2. PICK g, bit : t = <<es[j].path, g, bit>> /\ Grants(es[j].acl, g, bit)
    BY <2>1
  <2>3. PICK i \in DOMAIN m : m[i].path = es[j].path /\ IsWithin(es[j].acl, m[i].acl)
    BY <1>1 DEF Merges, IsKept
  <2>4. Grants(m[i].acl, g, bit)
    BY <2>2, <2>3 DEF IsWithin
  <2> QED BY <2>2, <2>3, <2>4, PermissionsFacts
<1> QED BY <1>2, <1>3 DEF m

\* A share as a real share.
Real(s) == [s EXCEPT !.path = Realpath(@)]
RealOf(shs) == [i \in DOMAIN shs |-> Real(shs[i])]

LEMMA RealFacts ==
    ASSUME NEW shs \in Seq(Entry)
    PROVE  /\ RealOf(shs) \in Seq(RealEntry)
           /\ ToSet(RealOf(shs)) = {Real(s) : s \in ToSet(shs)}
           /\ \A s \in Entry : /\ Real(s) = [path |-> Realpath(s.path), acl |-> s.acl, managing |-> s.managing]
                               /\ Real(s) \in RealEntry
<1>1. ASSUME NEW s \in Entry
      PROVE  /\ Real(s) = [path |-> Realpath(s.path), acl |-> s.acl, managing |-> s.managing]
             /\ Real(s) \in RealEntry
  <2>1. Real(s) = [path |-> Realpath(s.path), acl |-> s.acl, managing |-> s.managing]
    BY DEF Real, Entry
  <2>2. Realpath(s.path) \in RealPath
    BY RealpathFacts DEF Entry
  <2> QED BY <2>1, <2>2 DEF Entry, RealEntry
<1>2. DOMAIN shs = 1 .. Len(shs) /\ Len(shs) \in Nat /\ \A i \in DOMAIN shs : shs[i] \in Entry
  OBVIOUS
<1>3. RealOf(shs) \in [1 .. Len(shs) -> RealEntry]
  BY <1>1, <1>2 DEF RealOf
<1>4. RealOf(shs) \in Seq(RealEntry)
  BY <1>2, <1>3
<1>5. ToSet(RealOf(shs)) = {Real(s) : s \in ToSet(shs)}
  BY DEF RealOf, ToSet
<1> QED BY <1>1, <1>4, <1>5

LEMMA RealSharesFacts ==
    ASSUME NEW shs \in Seq(Entry)
    PROVE  /\ CompileRealShares(shs) \in Seq(RealEntry)
           /\ Merges(CompileRealShares(shs), {Real(s) : s \in ToSet(shs)})
           /\ Permissions(CompileRealShares(shs)) = Permissions(RealOf(shs))
<1>1. CompileRealShares(shs) = MergeEntries(RealOf(shs))
  BY DEF CompileRealShares, RealOf, Real
<1> QED BY <1>1, RealFacts, AllAreEntries, MergeEntriesFacts, MergedPermissions

\* What the shares grant is what the exports grant and the import rules accept.
Shared(p, g, bit) == \E s \in ToSet(shares) : s.path = p /\ Grants(s.acl, g, bit)
Exported(p, g, bit) == \E e \in ToSet(exps) : e.path = p /\ Grants(e.acl, g, bit)

LEMMA SharePermissions ==
    ASSUME SInv, stage = "done"
    PROVE  \A p, g, bit : Shared(p, g, bit) <=> Exported(p, g, bit) /\ Imported(p, g)
<1> DEFINE rules == cfg.imports
<1>1. \A s : s \in ToSet(shares) <=> \E e \in ToSet(exps) : Stays(rules, e) /\ s = Share(rules, e)
  BY ProductFacts
<1>2. ASSUME NEW e \in ToSet(exps)
      PROVE  /\ Share(rules, e).path = e.path /\ Share(rules, e).acl = Kept(rules, e)
             /\ \A g, bit : Grants(Kept(rules, e), g, bit) <=> Grants(e.acl, g, bit) /\ Imported(e.path, g)
             /\ \A g, bit : Grants(Kept(rules, e), g, bit) => Stays(rules, e)
  <2>1. e \in Entry
    BY ProductFacts DEF ToSet
  <2>2. /\ ToSet(Kept(rules, e)) = {a \in ToSet(e.acl) : ImportAction(rules, e.path, a) = "accept"}
        /\ Share(rules, e) = [path |-> e.path, acl |-> Kept(rules, e), managing |-> e.managing]
    BY <2>1, KeptFacts
  <2>3. \A a : ImportAction(rules, e.path, a) = "accept" <=> Imported(e.path, a.group)
    BY CompiledFacts, ImportedFacts DEF SInv
  <2>4. \A acl, g, bit : Grants(acl, g, bit) <=> \E a \in ToSet(acl) : a.group = g /\ bit \in a.mode
    BY DEF Grants, ToSet
  <2>5. \A g, bit : Grants(Kept(rules, e), g, bit) <=> Grants(e.acl, g, bit) /\ Imported(e.path, g)
    BY <2>2, <2>3, <2>4
  <2>6. \A g, bit : ~ Grants(<<>>, g, bit)
    BY DEF Grants
  <2> QED BY <2>2, <2>5, <2>6 DEF Stays
<1> QED BY <1>1, <1>2 DEF Shared, Exported

\* Files get the permissions that are granted and imported, no others and no fewer
\* (compileRealShares() with `bcpfs-perms describe config` in mind).
THEOREM AccessIsGrantedAndImportedCorrect == Spec => []AccessIsGrantedAndImported
<1> SUFFICES ASSUME SInv, stage = "done" PROVE AccessIsGrantedAndImported
  <2>1. SInv => AccessIsGrantedAndImported
    BY DEF AccessIsGrantedAndImported
  <2> QED BY <2>1, StagesFollow, PTL
<1> DEFINE configured == [i \in DOMAIN cfg.exports |-> [cfg.exports[i] EXCEPT !.path = Trim(@)]]
           R == {<<Realpath(x[1]), x[2], x[3]>> :
                   x \in {y \in Permissions(configured) : Imported(y[1], y[2])}}
<1>1. exps = Compiled /\ DOMAIN configured = DOMAIN Compiled
  BY DEF SInv, Compiled
<1>2. \A i \in DOMAIN Compiled : configured[i].path = Compiled[i].path /\ configured[i].acl = Compiled[i].acl
  <2> SUFFICES ASSUME NEW i \in DOMAIN cfg.exports
               PROVE  configured[i].path = Compiled[i].path /\ configured[i].acl = Compiled[i].acl
    BY DEF Compiled
  <2> DEFINE e == cfg.exports[i]
  <2>1. e = [path |-> e.path, acl |-> e.acl] /\ Compiled[i] = CompileExport(e)
    BY ExportFacts DEF SInv, Compiled
  <2>2. configured[i] = [e EXCEPT !.path = Trim(@)]
    OBVIOUS
  <2> HIDE DEF e, configured
  <2>3. [e EXCEPT !.path = Trim(@)] = [path |-> Trim(e.path), acl |-> e.acl]
    BY <2>1
  <2> QED BY <2>1, <2>2, <2>3 DEF CompileExport
<1> HIDE DEF configured
<1>3. \A t : t \in Permissions(configured) <=>
                \E e \in ToSet(exps) : \E g, bit : t = <<e.path, g, bit>> /\ Grants(e.acl, g, bit)
  BY <1>1, <1>2, PermissionsFacts DEF ToSet
<1>4. \A t : t \in R <=> \E e \in ToSet(exps) : \E g, bit :
                            /\ t = <<Realpath(e.path), g, bit>> /\ Grants(e.acl, g, bit)
                            /\ Imported(e.path, g)
  <2>1. \A t : t \in R <=> \E x \in Permissions(configured) :
                              Imported(x[1], x[2]) /\ t = <<Realpath(x[1]), x[2], x[3]>>
    OBVIOUS
  <2> HIDE DEF R
  <2>2. ASSUME NEW t \in R
        PROVE  \E e \in ToSet(exps) : \E g, bit :
                  /\ t = <<Realpath(e.path), g, bit>> /\ Grants(e.acl, g, bit)
                  /\ Imported(e.path, g)
    <3>1. PICK x \in Permissions(configured) :
                  Imported(x[1], x[2]) /\ t = <<Realpath(x[1]), x[2], x[3]>>
      BY <2>1
    <3>0. PICK e \in ToSet(exps) : \E g, bit : x = <<e.path, g, bit>> /\ Grants(e.acl, g, bit)
      BY <1>3, <3>1
    <3>2. PICK g, bit : x = <<e.path, g, bit>> /\ Grants(e.acl, g, bit)
      BY <3>0
    <3>3. x[1] = e.path /\ x[2] = g /\ x[3] = bit
      BY <3>2
    <3> QED BY <3>1, <3>2, <3>3
  <2>3. ASSUME NEW t, NEW e \in ToSet(exps), NEW g, NEW bit, Grants(e.acl, g, bit),
               t = <<Realpath(e.path), g, bit>>, Imported(e.path, g)
        PROVE  t \in R
    <3>1. <<e.path, g, bit>> \in Permissions(configured)
      BY <1>3, <2>3
    <3> DEFINE x == <<e.path, g, bit>>
    <3>2. x[1] = e.path /\ x[2] = g /\ x[3] = bit
      OBVIOUS
    <3> HIDE DEF x
    <3> QED BY <2>1, <2>3, <3>1, <3>2 DEF x
  <2> QED BY <2>2, <2>3
<1> HIDE DEF R
<1>5. \A t : t \in Permissions(RealOf(shares)) <=>
                \E s \in ToSet(shares) : \E g, bit :
                   t = <<Realpath(s.path), g, bit>> /\ Grants(s.acl, g, bit)
  <2>1. \A i \in DOMAIN shares : /\ RealOf(shares)[i].path = Realpath(shares[i].path)
                                 /\ RealOf(shares)[i].acl = shares[i].acl
    <3>1. \A i \in DOMAIN shares : shares[i] \in Entry /\ RealOf(shares)[i] = Real(shares[i])
      BY ProductFacts DEF RealOf
    <3>2. \A x \in Entry : Real(x) = [path |-> Realpath(x.path), acl |-> x.acl, managing |-> x.managing]
      BY ProductFacts, RealFacts
    <3> QED BY <3>1, <3>2
  <2> QED BY <2>1, PermissionsFacts DEF RealOf, ToSet
<1>6. \A t : t \in Permissions(RealOf(shares)) <=> t \in R
  <2>1. ASSUME NEW t
        PROVE  (\E s \in ToSet(shares) : \E g, bit :
                   t = <<Realpath(s.path), g, bit>> /\ Grants(s.acl, g, bit)) <=>
               (\E e \in ToSet(exps) : \E g, bit :
                   /\ t = <<Realpath(e.path), g, bit>> /\ Grants(e.acl, g, bit)
                   /\ Imported(e.path, g))
    <3>1. ASSUME NEW s \in ToSet(shares), NEW g, NEW bit, Grants(s.acl, g, bit)
          PROVE  \E e \in ToSet(exps) : e.path = s.path /\ Grants(e.acl, g, bit) /\ Imported(e.path, g)
      <4>1. Shared(s.path, g, bit)
        BY <3>1 DEF Shared
      <4>2. Exported(s.path, g, bit) /\ Imported(s.path, g)
        BY <4>1, SharePermissions
      <4> QED BY <4>2 DEF Exported
    <3>2. ASSUME NEW e \in ToSet(exps), NEW g, NEW bit, Grants(e.acl, g, bit), Imported(e.path, g)
          PROVE  \E s \in ToSet(shares) : s.path = e.path /\ Grants(s.acl, g, bit)
      <4>1. Exported(e.path, g, bit)
        BY <3>2 DEF Exported
      <4>2. Shared(e.path, g, bit)
        BY <3>2, <4>1, SharePermissions
      <4> QED BY <4>2 DEF Shared
    <3> QED BY <3>1, <3>2
  <2> QED BY <1>4, <1>5, <2>1
<1>7. Permissions(realShares) = Permissions(RealOf(shares))
  BY ProductFacts, RealSharesFacts DEF SInv
<1>8. Permissions(realShares) = R
  <2> DEFINE L == Permissions(RealOf(shares))
  <2>1. \A t : t \in L <=> t \in R
    BY <1>6
  <2> HIDE DEF L
  <2>2. L = R
    BY <2>1
  <2> QED BY <1>7, <2>2 DEF L
<1> QED BY <1>8 DEF AccessIsGrantedAndImported, R, configured

-----------------------------------------------------------------------------
\* Managing groups.

\* A share is an export with fewer entries.
LEMMA ShareOrigin ==
    ASSUME SInv, stage = "done", NEW s \in ToSet(shares)
    PROVE  \E k \in DOMAIN exps :
              /\ s \in Entry /\ s.path = exps[k].path /\ s.managing = exps[k].managing
              /\ Groups(s.acl) \subseteq Groups(exps[k].acl)
<1>1. PICK k \in DOMAIN exps : s = Share(cfg.imports, exps[k])
  BY ProductFacts DEF ToSet
<1>2. exps[k] \in Entry
  BY ProductFacts
<1>3. /\ s = [path |-> exps[k].path, acl |-> Kept(cfg.imports, exps[k]), managing |-> exps[k].managing]
      /\ s \in Entry /\ ToSet(Kept(cfg.imports, exps[k])) \subseteq ToSet(exps[k].acl)
  BY <1>1, <1>2, KeptFacts
<1>4. \A acl : Groups(acl) = {a.group : a \in ToSet(acl)}
  BY DEF Groups, ToSet
<1> QED BY <1>3, <1>4

\* A real share has the path and the managing groups of some share.
LEMMA RealShareOrigin ==
    ASSUME SInv, stage = "done", NEW i \in DOMAIN realShares
    PROVE  /\ realShares[i] \in RealEntry
           /\ \E s \in ToSet(shares) : realShares[i].path = Realpath(s.path)
                                       /\ realShares[i].managing = s.managing
           /\ \A g \in Groups(realShares[i].acl) :
                 \E s \in ToSet(shares) : realShares[i].path = Realpath(s.path) /\ g \in Groups(s.acl)
<1> DEFINE P == {Real(s) : s \in ToSet(shares)}
<1>1. realShares \in Seq(RealEntry) /\ Merges(realShares, P)
  BY ProductFacts, RealSharesFacts DEF SInv
<1>2. realShares[i] \in RealEntry
  BY <1>1
<1>3. \A s \in ToSet(shares) : Real(s) = [path |-> Realpath(s.path), acl |-> s.acl, managing |-> s.managing]
  <2>1. \A s \in ToSet(shares) : s \in Entry
    BY ProductFacts DEF ToSet
  <2> QED BY <2>1, ProductFacts, RealFacts
<1>4. Stems(realShares[i], P) /\ Justified(realShares[i], P)
  BY <1>1 DEF Merges
<1>5. \E s \in ToSet(shares) : realShares[i].path = Realpath(s.path)
                               /\ realShares[i].managing = s.managing
  <2>1. PICK s \in ToSet(shares) : realShares[i] = WithAcl(Real(s), realShares[i].acl)
    BY <1>4 DEF Stems
  <2> DEFINE e == Real(s)
             acl == realShares[i].acl
  <2>2. e = [path |-> Realpath(s.path), acl |-> s.acl, managing |-> s.managing]
    BY <1>3
  <2>3. realShares[i] = WithAcl(e, acl)
    BY <2>1
  <2> HIDE DEF e, acl
  <2>4. WithAcl(e, acl).path = Realpath(s.path) /\ WithAcl(e, acl).managing = s.managing
    BY <2>2 DEF WithAcl
  <2> QED BY <2>3, <2>4
<1>6. ASSUME NEW g \in Groups(realShares[i].acl)
      PROVE  \E s \in ToSet(shares) : realShares[i].path = Realpath(s.path) /\ g \in Groups(s.acl)
  <2>1. PICK e \in P : e.path = realShares[i].path /\ g \in Groups(e.acl)
    BY <1>4 DEF Justified
  <2> QED BY <1>3, <2>1
<1> QED BY <1>2, <1>5, <1>6

\* The groups that manage a directory, from the path that leads there.
LEMMA ManagingFacts ==
    ASSUME NEW p \in LogicalPath, ~ TooShort(p)
    PROVE  ManagingGroupsOfPath(p) = ManagersOf(Realpath(p))
<1>1. Len(p) \in Nat
  BY PathFacts
<1>2. CASE ~ IsServicePath(p)
  BY <1>2, RealpathFacts DEF ManagingGroupsOfPath, ManagersOf
<1>3. CASE IsServicePath(p) /\ IsFacilityPath(p)
  <2>1. Len(p) >= 3
    BY <1>1, <1>3 DEF TooShort
  <2> QED BY <1>3, <2>1, RealpathFacts DEF ManagingGroupsOfPath, ManagersOf
<1>4. CASE IsServicePath(p) /\ ~ IsFacilityPath(p)
  BY <1>4, RealpathFacts DEF ManagingGroupsOfPath, ManagersOf
<1> QED BY <1>2, <1>3, <1>4

\* The groups that `apply` manages at a directory are known from the directory
\* alone: which of the exports that lead there came first makes no difference.
LEMMA ManagersAreOfDirectory ==
    ASSUME SInv, PlainPaths PROVE ManagersOfDirectory
<1> SUFFICES ASSUME stage = "done", NEW i \in DOMAIN realShares
             PROVE  realShares[i].managing = ManagersOf(realShares[i].path)
  BY DEF ManagersOfDirectory
<1>1. PICK s \in ToSet(shares) : realShares[i].path = Realpath(s.path)
                                 /\ realShares[i].managing = s.managing
  BY RealShareOrigin
<1>2. PICK k \in DOMAIN exps : s.path = exps[k].path /\ s.managing = exps[k].managing /\ s \in Entry
  BY ShareOrigin
<1>3. exps = Compiled /\ cfg \in Configs /\ k \in DOMAIN cfg.exports
  BY CompiledFacts DEF SInv
<1>4. exps[k] = CompileExport(cfg.exports[k]) /\ ~ TooShort(cfg.exports[k].path)
  BY <1>3 DEF SInv, Compiled
<1>5. exps[k].path = cfg.exports[k].path /\ exps[k].managing = ManagingGroupsOfPath(cfg.exports[k].path)
  BY <1>3, <1>4 DEF PlainPaths, CompileExport
<1>6. s.path \in LogicalPath /\ ~ TooShort(s.path) /\ s.managing = ManagingGroupsOfPath(s.path)
  BY <1>2, <1>4, <1>5 DEF Entry
<1>7. s.managing = ManagersOf(Realpath(s.path))
  BY <1>6, ManagingFacts
<1> QED BY <1>1, <1>7

\* With exports written without outer slashes, a real share keeps the managing
\* groups of its directory (the merge of compileRealShares() drops the others).
THEOREM ManagersOfDirectoryCorrect == ASSUME PlainPaths PROVE Spec => []ManagersOfDirectory
<1>1. SInv => ManagersOfDirectory
  BY ManagersAreOfDirectory
<1> QED BY <1>1, StagesFollow, PTL

\* An ACL has entries for others than the managing groups of a directory that no export
\* reaches by the path of its facility.
LEMMA OwnPathsAreScoped ==
    ASSUME SInv, stage = "done", NEW i \in DOMAIN realShares, NEW ou \in Groups(realShares[i].acl),
           ~ ByFacility(realShares[i])
    PROVE  OuGroup(ou) \notin ManagersOf(realShares[i].path)
<1> DEFINE r == realShares[i].path
<1>1. PICK s \in ToSet(shares) : r = Realpath(s.path) /\ ou \in Groups(s.acl)
  BY RealShareOrigin
<1>2. PICK k \in DOMAIN exps : s.path = exps[k].path /\ s \in Entry /\ ou \in Groups(exps[k].acl)
  BY <1>1, ShareOrigin
<1>3. s.path \in LogicalPath /\ ou # s.path[1]
  BY <1>2 DEF SInv, AclInScope, Entry
<1>4. ~ (IsServicePath(s.path) /\ IsFacilityPath(s.path))
  BY <1>1 DEF ByFacility, ToSet
<1>5. IF IsServiceRealpath(r) THEN r[3] = s.path[1] ELSE r[2] = s.path[1]
  BY <1>1, <1>3, <1>4, RealpathFacts
<1>6. \A x, y : OuGroup(x) = OuGroup(y) => x = y
  BY DEF OuGroup
<1>7. \A x, y : OuGroup(x) # OpsGroup(y)
  BY DEF OuGroup, OpsGroup
<1> HIDE DEF r
<1>8. OuGroup(ou) \notin ManagersOf(r)
  BY <1>3, <1>5, <1>6, <1>7 DEF ManagersOf
<1> QED BY <1>8 DEF r

LEMMA OwnPathsSpare ==
    ASSUME SInv, PlainPaths PROVE OwnPathsSpareManagers
<1> SUFFICES ASSUME stage = "done", NEW i \in DOMAIN realShares, NEW ou \in Groups(realShares[i].acl),
                    ~ ByFacility(realShares[i])
             PROVE  OuGroup(ou) \notin realShares[i].managing
  BY DEF OwnPathsSpareManagers
<1>1. realShares[i].managing = ManagersOf(realShares[i].path)
  BY ManagersAreOfDirectory DEF ManagersOfDirectory
<1> QED BY <1>1, OwnPathsAreScoped

\* checkExportEntryAclScopes() keeps entries for managing groups out of the ACL of
\* a directory that no export reaches by the path of its facility.
THEOREM OwnPathsSpareManagersCorrect == ASSUME PlainPaths PROVE Spec => []OwnPathsSpareManagers
<1>1. SInv => OwnPathsSpareManagers
  BY OwnPathsSpare
<1> QED BY <1>1, StagesFollow, PTL

-----------------------------------------------------------------------------
\* Traversal ACLs.

\* Where the traversal ACLs of a realpath begin.
TopOf(r) == IF IsServiceRealpath(r) THEN 3 ELSE 2
Ways(r) == {[path |-> Prefix(r.path, n), acl |-> TraversalAcl(r.acl)] : n \in TopOf(r.path) .. Len(r.path) - 1}

LEMMA TraversalAclFacts ==
    ASSUME NEW acl \in Acl
    PROVE  /\ TraversalAcl(acl) \in Acl
           /\ \A g, bit : Grants(TraversalAcl(acl), g, bit) <=> g \in Groups(acl) /\ bit = "x"
<1>1. DOMAIN acl = 1 .. Len(acl) /\ Len(acl) \in Nat /\ \A i \in DOMAIN acl : acl[i] \in Ace
  BY DEF Acl
<1>2. \A i \in DOMAIN acl : [group |-> acl[i].group, mode |-> {"x"}] \in Ace
  BY <1>1 DEF Ace, Bits
<1>3. TraversalAcl(acl) \in [1 .. Len(acl) -> Ace]
  BY <1>1, <1>2 DEF TraversalAcl
<1>4. TraversalAcl(acl) \in Acl
  BY <1>1, <1>3 DEF Acl
<1>5. \A g, bit : Grants(TraversalAcl(acl), g, bit) <=> g \in Groups(acl) /\ bit = "x"
  BY DEF Grants, TraversalAcl, Groups
<1> QED BY <1>4, <1>5

LEMMA WayFacts ==
    ASSUME NEW r \in RealEntry
    PROVE  /\ TraversalOfReal(r) \in Seq(TraversalEntry)
           /\ ToSet(TraversalOfReal(r)) = Ways(r)
<1> DEFINE top == TopOf(r.path)
           W(n) == [path |-> Prefix(r.path, n), acl |-> TraversalAcl(r.acl)]
           m == Len(r.path) - top
           u == TraversalOfReal(r)
<1>1. r.path \in Seq(DirNames) /\ Len(r.path) \in Nat /\ top \in 2 .. 3
  BY DEF RealEntry, RealPath, TopOf
<1>2. \A n \in top .. Len(r.path) - 1 : W(n) \in TraversalEntry
  <2> SUFFICES ASSUME NEW n \in top .. Len(r.path) - 1 PROVE W(n) \in TraversalEntry
    OBVIOUS
  <2>1. n \in 1 .. Len(r.path)
    BY <1>1
  <2>2. Prefix(r.path, n) \in Seq(DirNames) /\ Len(Prefix(r.path, n)) = n
    BY <1>1, <2>1 DEF Prefix
  <2>3. Prefix(r.path, n) # <<>>
    BY <2>1, <2>2
  <2>4. TraversalAcl(r.acl) \in Acl
    BY TraversalAclFacts DEF RealEntry
  <2> QED BY <2>2, <2>3, <2>4 DEF TraversalEntry, RealPath
<1>3. u = [n \in 1 .. m |-> W(top + n - 1)]
  BY DEF TraversalOfReal, TopOf
<1>4. Ways(r) = {W(n) : n \in top .. Len(r.path) - 1}
  BY DEF Ways
<1> HIDE DEF u, top, W
<1>5. \A n \in 1 .. m : top + n - 1 \in top .. Len(r.path) - 1
  BY <1>1
<1>6. \A n \in top .. Len(r.path) - 1 : n - top + 1 \in 1 .. m /\ top + (n - top + 1) - 1 = n
  BY <1>1
<1>7. u \in Seq(TraversalEntry)
  <2>1. CASE m >= 0
    <3>1. m \in Nat /\ u \in [1 .. m -> TraversalEntry]
      BY <1>1, <1>2, <1>3, <1>5, <2>1
    <3> QED BY <3>1
  <2>2. CASE m < 0
    <3>1. 1 .. m = {}
      BY <1>1, <2>2
    <3>2. u = <<>>
      BY <1>3, <3>1
    <3> QED BY <3>2
  <2> QED BY <1>1, <2>1, <2>2
<1>8. ToSet(u) = Ways(r)
  <2>1. ToSet(u) = {W(top + n - 1) : n \in 1 .. m}
    BY <1>3 DEF ToSet
  <2> QED BY <1>4, <1>5, <1>6, <2>1
<1> QED BY <1>7, <1>8 DEF u

\* Whom compileTraversal() lets pass, and where.
Passes(d, g) ==
    \/ \E i \in DOMAIN realShares :
          LET r == realShares[i]
          IN g \in Groups(r.acl) /\ \E n \in TopOf(r.path) .. Len(r.path) - 1 : d = Prefix(r.path, n)
    \/ \E s \in ToSet(shares) : g \in Groups(s.acl) /\ d = <<OrgUnitDir, s.path[1]>>

LEMMA TraversalFacts ==
    ASSUME SInv, stage = "done"
    PROVE  /\ traversal \in Seq(TraversalEntry)
           /\ \A t : t \in Permissions(traversal) <=> \E d, g : t = <<d, g, "x">> /\ Passes(d, g)
<1> DEFINE us == [i \in DOMAIN realShares |-> TraversalOfReal(realShares[i])]
           vs == [i \in DOMAIN shares |-> TraversalOfShare(shares[i])]
           ts == FlattenSeq(us) \o vs
<1>1. traversal = MergeEntries(ts)
  BY DEF SInv, CompileTraversal
<1>2. realShares \in Seq(RealEntry) /\ shares \in Seq(Entry)
  BY ProductFacts, RealSharesFacts DEF SInv
<1>3. \A i \in DOMAIN realShares : realShares[i] \in RealEntry
  BY <1>2
<1>4. \A s \in ToSet(shares) : s.acl \in Acl
  <2>1. \A s \in ToSet(shares) : s \in Entry
    BY <1>2 DEF ToSet
  <2> QED BY <2>1 DEF Entry
<1>5. us \in Seq(Seq(TraversalEntry))
  <2>1. DOMAIN realShares = 1 .. Len(realShares) /\ Len(realShares) \in Nat
    BY <1>2
  <2>2. us \in [1 .. Len(realShares) -> Seq(TraversalEntry)]
    BY <1>3, <2>1, WayFacts
  <2> QED BY <2>1, <2>2
<1>6. \A i \in DOMAIN realShares : us[i] = TraversalOfReal(realShares[i])
  OBVIOUS
<1>7. DOMAIN us = DOMAIN realShares
  OBVIOUS
<1>8. /\ vs \in Seq(TraversalEntry)
      /\ ToSet(vs) = {TraversalOfShare(s) : s \in ToSet(shares)}
  <2>1. DOMAIN shares = 1 .. Len(shares) /\ Len(shares) \in Nat /\ \A i \in DOMAIN shares : shares[i] \in Entry
    BY <1>2
  <2>2. ASSUME NEW s \in Entry PROVE TraversalOfShare(s) \in TraversalEntry
    <3>1. s.path \in LogicalPath /\ TraversalAcl(s.acl) \in Acl
      BY TraversalAclFacts DEF Entry
    <3>2. s.path[1] \in Names
      BY <3>1, PathFacts
    <3>3. OrgUnitDir \in DirNames /\ s.path[1] \in DirNames
      BY <3>2 DEF DirNames
    <3>4. <<OrgUnitDir, s.path[1]>> \in Seq(DirNames) /\ <<OrgUnitDir, s.path[1]>> # <<>>
      BY <3>3
    <3> QED BY <3>1, <3>4 DEF TraversalOfShare, TraversalEntry, RealPath
  <2>3. vs \in [1 .. Len(shares) -> TraversalEntry]
    BY <2>1, <2>2
  <2>4. ToSet(vs) = {TraversalOfShare(s) : s \in ToSet(shares)}
    BY DEF ToSet
  <2> QED BY <2>1, <2>3, <2>4
<1> HIDE DEF us, vs
<1>9. /\ FlattenSeq(us) \in Seq(TraversalEntry)
      /\ ToSet(FlattenSeq(us)) = UNION {ToSet(us[i]) : i \in DOMAIN us}
  BY <1>5, FlattenFacts
<1>10. ts \in Seq(TraversalEntry) /\ ToSet(ts) = ToSet(FlattenSeq(us)) \cup ToSet(vs)
  BY <1>8, <1>9, ConcatenationFacts
<1> HIDE DEF ts
<1>11. \A e : e \in ToSet(ts) <=> \/ \E i \in DOMAIN realShares : e \in Ways(realShares[i])
                                  \/ \E s \in ToSet(shares) : e = TraversalOfShare(s)
  <2>1. \A i \in DOMAIN realShares : ToSet(us[i]) = Ways(realShares[i])
    BY <1>3, <1>6, WayFacts
  <2>2. \A e : e \in ToSet(FlattenSeq(us)) <=> \E i \in DOMAIN us : e \in ToSet(us[i])
    BY <1>9
  <2>3. \A e : e \in ToSet(vs) <=> \E s \in ToSet(shares) : e = TraversalOfShare(s)
    BY <1>8
  <2> QED BY <1>7, <1>10, <2>1, <2>2, <2>3
<1>12. \A t : t \in Permissions(ts) <=>
                 \E e \in ToSet(ts) : \E g, bit : t = <<e.path, g, bit>> /\ Grants(e.acl, g, bit)
  BY PermissionsFacts DEF ToSet
<1>13. ASSUME NEW e \in ToSet(ts), NEW g, NEW bit, Grants(e.acl, g, bit)
       PROVE  bit = "x" /\ Passes(e.path, g)
  <2>1. CASE \E i \in DOMAIN realShares : e \in Ways(realShares[i])
    <3>1. PICK i \in DOMAIN realShares : e \in Ways(realShares[i])
      BY <2>1
    <3> DEFINE r == realShares[i]
    <3>2. PICK n \in TopOf(r.path) .. Len(r.path) - 1 :
                 e = [path |-> Prefix(r.path, n), acl |-> TraversalAcl(r.acl)]
      BY <3>1 DEF Ways
    <3>3. r.acl \in Acl
      BY <1>3 DEF RealEntry
    <3>4. bit = "x" /\ g \in Groups(r.acl)
      BY <1>13, <3>2, <3>3, TraversalAclFacts
    <3> QED BY <3>2, <3>4 DEF Passes
  <2>2. CASE \E s \in ToSet(shares) : e = TraversalOfShare(s)
    <3>1. PICK s \in ToSet(shares) : e = TraversalOfShare(s)
      BY <2>2
    <3>2. s.acl \in Acl /\ e = [path |-> <<OrgUnitDir, s.path[1]>>, acl |-> TraversalAcl(s.acl)]
      BY <1>4, <3>1 DEF TraversalOfShare
    <3>3. bit = "x" /\ g \in Groups(s.acl)
      BY <1>13, <3>2, TraversalAclFacts
    <3> QED BY <3>2, <3>3 DEF Passes
  <2> QED BY <1>11, <2>1, <2>2
<1>14. ASSUME NEW d, NEW g, Passes(d, g) PROVE \E e \in ToSet(ts) : e.path = d /\ Grants(e.acl, g, "x")
  <2>1. CASE \E i \in DOMAIN realShares :
                LET r == realShares[i]
                IN g \in Groups(r.acl) /\ \E n \in TopOf(r.path) .. Len(r.path) - 1 : d = Prefix(r.path, n)
    <3>1. PICK i \in DOMAIN realShares :
                g \in Groups(realShares[i].acl)
                /\ \E n \in TopOf(realShares[i].path) .. Len(realShares[i].path) - 1 :
                      d = Prefix(realShares[i].path, n)
      BY <2>1
    <3> DEFINE e == [path |-> d, acl |-> TraversalAcl(realShares[i].acl)]
    <3>2. e \in Ways(realShares[i]) /\ e \in ToSet(ts)
      BY <1>11, <3>1 DEF Ways
    <3>3. realShares[i].acl \in Acl
      BY <1>3 DEF RealEntry
    <3> QED BY <3>1, <3>2, <3>3, TraversalAclFacts
  <2>2. CASE \E s \in ToSet(shares) : g \in Groups(s.acl) /\ d = <<OrgUnitDir, s.path[1]>>
    <3>1. PICK s \in ToSet(shares) : g \in Groups(s.acl) /\ d = <<OrgUnitDir, s.path[1]>>
      BY <2>2
    <3>2. TraversalOfShare(s) \in ToSet(ts) /\ s.acl \in Acl
      BY <1>11, <1>4
    <3>3. TraversalOfShare(s).path = d /\ TraversalOfShare(s).acl = TraversalAcl(s.acl)
      BY <3>1 DEF TraversalOfShare
    <3> QED BY <3>1, <3>2, <3>3, TraversalAclFacts
  <2> QED BY <1>14, <2>1, <2>2 DEF Passes
<1>15. \A t : t \in Permissions(ts) <=> \E d, g : t = <<d, g, "x">> /\ Passes(d, g)
  BY <1>12, <1>13, <1>14
<1>16. Permissions(traversal) = Permissions(ts) /\ traversal \in Seq(TraversalEntry)
  BY <1>1, <1>10, AllAreEntries, MergedPermissions, MergeEntriesFacts
<1> QED BY <1>15, <1>16

-----------------------------------------------------------------------------
\* The way to a share.

\* The service links that `apply` creates and the mapping of the sharing code
\* lead to the same directory.
LEMMA ResolveFacts ==
    ASSUME SInv, OwnFacilities, stage = "done", NEW s \in ToSet(shares)
    PROVE  s \in Entry /\ ResolveLogical(s.path) = Realpath(s.path)
<1>1. PICK k \in DOMAIN exps : s \in Entry /\ s.path = exps[k].path
  BY ShareOrigin
<1>2. exps = Compiled /\ cfg \in Configs /\ k \in DOMAIN cfg.exports
  BY CompiledFacts DEF SInv
<1>3. s.path = Trim(cfg.exports[k].path)
  BY <1>1, <1>2 DEF Compiled, CompileExport
<1> DEFINE p == s.path
<1>4. IsServicePath(p) /\ IsFacilityPath(p) => p[1] = FacilityDirOf[FacilityOf[p[2]]]
  BY <1>2, <1>3 DEF OwnFacilities
<1>5. p \in LogicalPath
  BY <1>1 DEF Entry
<1> HIDE DEF p
<1>6. Len(p) \in Nat \ {0} /\ \A i \in 1 .. Len(p) : p[i] \in Names
  BY <1>5, PathFacts
<1>7. ResolveLogical(p) = Realpath(p)
  <2>1. CASE ~ IsServicePath(p)
    BY <2>1 DEF ResolveLogical, Realpath
  <2>2. CASE IsServicePath(p) /\ IsFacilityPath(p)
    <3> DEFINE q == SubSeq(p, 3, Len(p))
               u == SubSeq(p, 2, Len(p))
               D == Names \cup {ServiceDir}
    <3>1. ServiceLinkTarget(p[1], p[2]) = <<ServiceDir, p[2]>>
      BY <1>4, <2>2 DEF ServiceLinkTarget
    <3>2. ResolveLogical(p) = <<ServiceDir, p[2]>> \o q
      BY <2>2, <3>1 DEF ResolveLogical, Rest
    <3>3. Realpath(p) = <<ServiceDir>> \o u
      BY <2>2 DEF Realpath, Rest
    <3>4. Len(p) >= 2
      BY <2>2 DEF IsServicePath
    <3>5. p \in Seq(D) /\ ServiceDir \in D /\ p[2] \in D
      <4>1. p \in Seq(Names)
        BY <1>5 DEF LogicalPath
      <4> QED BY <1>6, <3>4, <4>1
    <3>6. u = <<p[2]>> \o q
      <4>1. 2 \in 1 .. Len(p) /\ Len(p) \in 2 .. Len(p) /\ 2 + 1 = 3
        BY <1>6, <3>4
      <4> HIDE DEF D
      <4>2. SubSeq(p, 2, Len(p)) = <<p[2]>> \o SubSeq(p, 2 + 1, Len(p))
        BY ONLY <3>5, <4>1, SubSeqRecursiveFirst
      <4> QED BY <4>1, <4>2
    <3>7. q \in Seq(D)
      <4>1. 3 \in Int /\ Len(p) \in Int /\ \A i \in 3 .. Len(p) : p[i] \in D
        BY <1>6
      <4> HIDE DEF D
      <4> QED BY <4>1, SubSeqProperties
    <3> HIDE DEF q, u, D
    <3>8. <<ServiceDir>> \o (<<p[2]>> \o q) = <<ServiceDir, p[2]>> \o q
      <4>1. <<ServiceDir>> \in Seq(D) /\ <<p[2]>> \in Seq(D)
        BY <3>5
      <4>2. (<<ServiceDir>> \o <<p[2]>>) \o q = <<ServiceDir>> \o (<<p[2]>> \o q)
        BY <3>7, <4>1, ConcatAssociative
      <4>3. <<ServiceDir>> \o <<p[2]>> = <<ServiceDir, p[2]>>
        BY <3>5, PairFacts
      <4> QED BY <4>2, <4>3
    <3> QED BY <3>2, <3>3, <3>6, <3>8
  <2>3. CASE IsServicePath(p) /\ ~ IsFacilityPath(p)
    <3>1. p[2] \in Services /\ FacilityOf[p[2]] \in DOMAIN FacilityDirOf
      BY <2>3, DirAssumption DEF IsServicePath
    <3>2. p[1] # FacilityDirOf[FacilityOf[p[2]]]
      BY <2>3, <3>1 DEF IsFacilityPath, FacilityDirs
    <3>3. ServiceLinkTarget(p[1], p[2]) = <<ServiceDir, p[2], p[1]>>
      BY <3>2 DEF ServiceLinkTarget
    <3> QED BY <2>3, <3>3 DEF ResolveLogical, Realpath
  <2> QED BY <2>1, <2>2, <2>3
<1> QED BY <1>1, <1>7 DEF p

LEMMA GuardedFacts ==
    ASSUME SInv, OwnFacilities, stage = "done", NEW s \in ToSet(shares)
    PROVE  \A d : d \in GuardedOnTheWay(s.path) <=>
                     \/ d = <<OrgUnitDir, s.path[1]>>
                     \/ \E n \in TopOf(Realpath(s.path)) .. Len(Realpath(s.path)) - 1 :
                           d = Prefix(Realpath(s.path), n)
<1>1. ResolveLogical(s.path) = Realpath(s.path)
  BY ResolveFacts
<1> QED BY <1>1 DEF GuardedOnTheWay, TopOf

LEMMA NarrowTraversal ==
    ASSUME SInv, OwnFacilities PROVE TraversalIsNarrow
<1> SUFFICES ASSUME stage = "done", NEW t \in Permissions(traversal)
             PROVE  /\ t[3] = "x"
                    /\ \E i \in DOMAIN shares : t[2] \in Groups(shares[i].acl)
                                                /\ t[1] \in GuardedOnTheWay(shares[i].path)
  BY DEF TraversalIsNarrow
<1>1. PICK d, g : t = <<d, g, "x">> /\ Passes(d, g)
  BY TraversalFacts
<1>2. t[1] = d /\ t[2] = g /\ t[3] = "x"
  BY <1>1
<1>3. \E s \in ToSet(shares) : g \in Groups(s.acl) /\ d \in GuardedOnTheWay(s.path)
  <2>1. CASE \E s \in ToSet(shares) : g \in Groups(s.acl) /\ d = <<OrgUnitDir, s.path[1]>>
    BY <2>1, GuardedFacts
  <2>2. CASE \E i \in DOMAIN realShares :
                LET r == realShares[i]
                IN g \in Groups(r.acl) /\ \E n \in TopOf(r.path) .. Len(r.path) - 1 : d = Prefix(r.path, n)
    <3>1. PICK i \in DOMAIN realShares :
                /\ g \in Groups(realShares[i].acl)
                /\ \E n \in TopOf(realShares[i].path) .. Len(realShares[i].path) - 1 :
                      d = Prefix(realShares[i].path, n)
      BY <2>2
    <3>2. PICK s \in ToSet(shares) : realShares[i].path = Realpath(s.path) /\ g \in Groups(s.acl)
      BY <3>1, RealShareOrigin
    <3>3. d \in GuardedOnTheWay(s.path) <=>
             \/ d = <<OrgUnitDir, s.path[1]>>
             \/ \E n \in TopOf(Realpath(s.path)) .. Len(Realpath(s.path)) - 1 :
                   d = Prefix(Realpath(s.path), n)
      BY GuardedFacts
    <3>4. \E n \in TopOf(Realpath(s.path)) .. Len(Realpath(s.path)) - 1 :
             d = Prefix(Realpath(s.path), n)
      BY <3>1, <3>2
    <3> QED BY <3>2, <3>3, <3>4
  <2> QED BY <1>1, <2>1, <2>2 DEF Passes
<1> QED BY <1>2, <1>3 DEF ToSet

\* compileTraversal() opens no directory to a group that has no share below it.
THEOREM TraversalIsNarrowCorrect == ASSUME OwnFacilities PROVE Spec => []TraversalIsNarrow
<1>1. SInv => TraversalIsNarrow
  BY NarrowTraversal
<1> QED BY <1>1, StagesFollow, PTL

\* A directory above a real share has the managing groups of the real share.
LEMMA ManagersOnTheWay ==
    ASSUME NEW r \in RealPath, NEW n \in TopOf(r) .. Len(r) - 1
    PROVE  ManagersOf(Prefix(r, n)) = ManagersOf(r) /\ IsAbove(Prefix(r, n), r)
<1> DEFINE d == Prefix(r, n)
<1>1. Len(r) \in Nat /\ TopOf(r) \in 2 .. 3 /\ n \in 2 .. Len(r) - 1
  BY DEF RealPath, TopOf
<1>2. d[1] = r[1] /\ d[2] = r[2] /\ (TopOf(r) = 3 => d[3] = r[3])
  <2>1. \A i \in 1 .. n : d[i] = r[i]
    BY <1>1 DEF Prefix, RealPath
  <2>2. 1 \in 1 .. n /\ 2 \in 1 .. n /\ (TopOf(r) = 3 => 3 \in 1 .. n)
    BY <1>1
  <2> QED BY <2>1, <2>2
<1>3. IsAbove(d, r)
  BY <1>1 DEF IsAbove
<1> HIDE DEF d
<1>4. ManagersOf(d) = ManagersOf(r)
  BY <1>2 DEF ManagersOf, IsServiceRealpath, TopOf
<1> QED BY <1>3, <1>4 DEF d

LEMMA TraversalSpares ==
    ASSUME SInv PROVE TraversalSparesManagers
<1> SUFFICES ASSUME stage = "done", NEW t \in Permissions(traversal), OuGroup(t[2]) \in ManagersOf(t[1])
             PROVE  \E i \in DOMAIN realShares :
                       /\ ByFacility(realShares[i]) /\ IsAbove(t[1], realShares[i].path)
                       /\ t[2] \in Groups(realShares[i].acl)
  BY DEF TraversalSparesManagers
<1>1. PICK d, g : t = <<d, g, "x">> /\ Passes(d, g)
  BY TraversalFacts
<1>2. t[1] = d /\ t[2] = g
  BY <1>1
<1>3. ASSUME NEW s \in ToSet(shares), g \in Groups(s.acl), d = <<OrgUnitDir, s.path[1]>>
      PROVE  FALSE
  <2>1. PICK k \in DOMAIN exps : s.path = exps[k].path /\ g \in Groups(exps[k].acl)
    BY <1>3, ShareOrigin
  <2>2. g # s.path[1]
    BY <2>1 DEF SInv, AclInScope
  <2>3. d[1] = OrgUnitDir /\ d[2] = s.path[1]
    BY <1>3
  <2>4. ManagersOf(d) = {OuGroup(s.path[1])}
    BY <2>3, DirAssumption DEF ManagersOf, IsServiceRealpath
  <2> QED BY <1>2, <2>2, <2>4 DEF OuGroup
<1>4. PICK i \in DOMAIN realShares :
         /\ g \in Groups(realShares[i].acl)
         /\ \E n \in TopOf(realShares[i].path) .. Len(realShares[i].path) - 1 : d = Prefix(realShares[i].path, n)
  BY <1>1, <1>3 DEF Passes
<1>5. realShares[i].path \in RealPath
  BY RealShareOrigin DEF RealEntry
<1>6. ManagersOf(d) = ManagersOf(realShares[i].path) /\ IsAbove(d, realShares[i].path)
  BY <1>4, <1>5, ManagersOnTheWay
<1>7. ByFacility(realShares[i])
  BY <1>2, <1>4, <1>6, OwnPathsAreScoped
<1> QED BY <1>2, <1>4, <1>6, <1>7

\* The traversal entries, which EnsureTraversal() sets without a look at who manages a
\* directory, replace none that `bcpfs-perms apply` needs, except by facility paths.
THEOREM TraversalSparesManagersCorrect == Spec => []TraversalSparesManagers
<1>1. SInv => TraversalSparesManagers
  BY TraversalSpares
<1> QED BY <1>1, StagesFollow, PTL

\* A share has a real share that grants at least as much.
LEMMA RealShareOf ==
    ASSUME SInv, stage = "done", NEW s \in ToSet(shares)
    PROVE  \E i \in DOMAIN realShares : /\ realShares[i].path = Realpath(s.path)
                                        /\ Groups(s.acl) \subseteq Groups(realShares[i].acl)
<1> DEFINE P == {Real(x) : x \in ToSet(shares)}
<1>1. Merges(realShares, P) /\ Real(s) \in P
  BY ProductFacts, RealSharesFacts DEF SInv
<1>2. s \in Entry
  BY ProductFacts DEF ToSet
<1>3. Real(s) = [path |-> Realpath(s.path), acl |-> s.acl, managing |-> s.managing]
  BY <1>2, ProductFacts, RealFacts
<1>4. IsKept(Real(s), realShares)
  BY <1>1 DEF Merges
<1> QED BY <1>3, <1>4 DEF IsKept, IsWithin

\* Who is granted a share passes every directory on the way.
LEMMA WayIsOpen ==
    ASSUME SInv, OwnFacilities, stage = "done", NEW s \in ToSet(shares),
           NEW ou \in Groups(s.acl), NEW d \in GuardedOnTheWay(s.path)
    PROVE  <<d, ou, "x">> \in Permissions(traversal)
<1>1. Passes(d, ou)
  <2>1. CASE d = <<OrgUnitDir, s.path[1]>>
    BY <2>1 DEF Passes
  <2>2. CASE \E n \in TopOf(Realpath(s.path)) .. Len(Realpath(s.path)) - 1 :
                d = Prefix(Realpath(s.path), n)
    <3>1. PICK i \in DOMAIN realShares : /\ realShares[i].path = Realpath(s.path)
                                         /\ Groups(s.acl) \subseteq Groups(realShares[i].acl)
      BY RealShareOf
    <3> QED BY <2>2, <3>1 DEF Passes
  <2> QED BY <2>1, <2>2, GuardedFacts
<1> QED BY <1>1, TraversalFacts

-----------------------------------------------------------------------------
\* Share trees.

\* Names on the paths of a tree.
TreeNames == Names \cup GroupNames \cup {OrgUnitDir, "shared"}
Root(ou) == <<OrgUnitDir, ou, "shared">>
FileAt(ou, q) == Root(ou) \o q

\* The n-th file of a share.
FileOf(ou, p, n) ==
    [path |-> FileAt(ou, Prefix(p, n)),
     target |-> IF n < Len(p) THEN Directory ELSE LinkTarget(p)]

LEMMA FilesFacts ==
    ASSUME NEW p \in LogicalPath, NEW ou
    PROVE  FilesOfShare(ou, p) = [n \in 1 .. Len(p) |-> FileOf(ou, p, n)]
<1>1. p \in Seq(Names) /\ Len(p) \in Nat
  BY PathFacts DEF LogicalPath
<1>2. Prefix(p, Len(p)) = p
  BY <1>1, SubSeqFull DEF Prefix
<1>3. ASSUME NEW n \in 1 .. Len(p)
      PROVE  FileOf(ou, p, n) = IF n < Len(p) THEN [path |-> FileAt(ou, Prefix(p, n)), target |-> Directory]
                                ELSE [path |-> FileAt(ou, p), target |-> LinkTarget(p)]
  <2>1. n < Len(p) \/ n = Len(p)
    BY <1>1
  <2> QED BY <1>2, <2>1 DEF FileOf
<1> QED BY <1>3 DEF FilesOfShare, FileAt, Root

\* A path in the tree tells the path below its root.
LEMMA FileAtFacts ==
    ASSUME NEW ou \in TreeNames, NEW q \in Seq(Names)
    PROVE  /\ FileAt(ou, q) \in Seq(TreeNames) /\ Len(FileAt(ou, q)) = Len(q) + 3
           /\ Prefix(FileAt(ou, q), 3) = <<OrgUnitDir, ou, "shared">>
           /\ SubSeq(FileAt(ou, q), 4, Len(q) + 3) = q
           /\ Len(q) > 0 => Front(FileAt(ou, q)) = FileAt(ou, Prefix(q, Len(q) - 1))
<1> DEFINE h == Root(ou)
           u == FileAt(ou, q)
<1>1. q \in Seq(TreeNames) /\ Len(q) \in Nat
  <2>1. Names \subseteq TreeNames
    BY DEF TreeNames
  <2> QED BY <2>1
<1>2. h \in Seq(TreeNames) /\ Len(h) = 3
  <2>1. OrgUnitDir \in TreeNames /\ "shared" \in TreeNames
    BY DEF TreeNames
  <2> HIDE DEF u
  <2> QED BY <2>1 DEF Root
<1> HIDE DEF h
<1>3. u = h \o q
  BY DEF FileAt, h
<1> HIDE DEF u
<1>4. /\ u \in Seq(TreeNames) /\ Len(u) = Len(h) + Len(q)
      /\ \A i \in 1 .. Len(h) + Len(q) : u[i] = IF i <= Len(h) THEN h[i] ELSE q[i - Len(h)]
  BY <1>1, <1>2, <1>3, ConcatProperties
<1>5. Len(u) = Len(q) + 3
  BY <1>1, <1>2, <1>4
<1>6. Prefix(u, 3) = h
  <2>1. SubSeq(h \o q, 1, Len(h)) = SubSeq(h, 1, Len(h))
    <3>1. 1 \in 1 .. Len(h) /\ Len(h) \in 1 .. Len(h)
      BY <1>2
    <3> QED BY <1>1, <1>2, <3>1, SubSeqOfConcat1
  <2>2. SubSeq(h, 1, Len(h)) = h
    BY <1>2, SubSeqFull
  <2> QED BY <1>2, <1>3, <2>1, <2>2 DEF Prefix
<1>7. SubSeq(u, 4, Len(q) + 3) = q
  <2>1. CASE Len(q) = 0
    <3>1. q = <<>>
      BY <1>1, <2>1
    <3>2. 4 \in Int /\ Len(q) + 3 \in Int /\ Len(q) + 3 < 4
      BY <1>1, <2>1
    <3> QED BY <3>1, <3>2, SubSeqEmpty
  <2>2. CASE Len(q) # 0
    <3>1. 4 \in Len(h) + 1 .. Len(h) + Len(q) /\ Len(q) + 3 \in Len(h) + 1 .. Len(h) + Len(q)
      BY <1>1, <1>2, <2>2
    <3>2. SubSeq(h \o q, 4, Len(q) + 3) = SubSeq(q, 4 - Len(h), (Len(q) + 3) - Len(h))
      <4> DEFINE m == 4
                 n == Len(q) + 3
      <4>1. m \in Len(h) + 1 .. Len(h) + Len(q) /\ n \in Len(h) + 1 .. Len(h) + Len(q)
        BY <3>1
      <4> HIDE DEF m, n
      <4>2. SubSeq(h \o q, m, n) = SubSeq(q, m - Len(h), n - Len(h))
        BY <1>1, <1>2, <4>1, SubSeqOfConcat2
      <4> QED BY <4>2 DEF m, n
    <3>3. 4 - Len(h) = 1 /\ (Len(q) + 3) - Len(h) = Len(q)
      BY <1>1, <1>2
    <3>4. SubSeq(q, 1, Len(q)) = q
      BY <1>1, SubSeqFull
    <3> QED BY <1>3, <3>2, <3>3, <3>4
  <2> QED BY <2>1, <2>2
<1>8. ASSUME Len(q) > 0 PROVE Front(u) = h \o Prefix(q, Len(q) - 1)
  <2> DEFINE k == Len(q) - 1
             t == Prefix(q, k)
  <2>1. k \in Nat /\ k \in 0 .. Len(q)
    BY <1>1, <1>8
  <2>2. t \in Seq(TreeNames) /\ Len(t) = k /\ \A i \in 1 .. k : t[i] = q[i]
    <3>1. \A i \in 1 .. k : q[i] \in TreeNames
      BY <1>1, <2>1
    <3>2. 1 \in Int /\ k \in Int /\ 0 =< k
      BY <2>1
    <3> HIDE DEF k
    <3>3. /\ SubSeq(q, 1, k) \in Seq(TreeNames)
          /\ Len(SubSeq(q, 1, k)) = IF 1 <= k THEN k - 1 + 1 ELSE 0
          /\ \A i \in 1 .. k - 1 + 1 : SubSeq(q, 1, k)[i] = q[1 + i - 1]
      BY <3>1, <3>2, SubSeqProperties
    <3>4. \A i \in 1 .. k : 1 + i - 1 = i /\ i \in 1 .. k - 1 + 1
      BY <3>2
    <3>5. (IF 1 <= k THEN k - 1 + 1 ELSE 0) = k
      BY <2>1
    <3> QED BY <3>3, <3>4, <3>5 DEF Prefix
  <2>3. Front(u) = SubSeq(u, 1, k + 3)
    <3>1. Len(u) - 1 = k + 3
      BY <1>1, <1>5
    <3> QED BY <3>1 DEF Front
  <2> HIDE DEF k, t
  <2>4. k + 3 \in 1 .. Len(u) /\ Len(u) \in Nat
    BY <1>1, <1>5, <2>1
  <2>5. /\ SubSeq(u, 1, k + 3) \in Seq(TreeNames) /\ Len(SubSeq(u, 1, k + 3)) = k + 3
        /\ \A i \in 1 .. k + 3 : SubSeq(u, 1, k + 3)[i] = u[i]
    BY <1>4, <2>4
  <2> DEFINE v == h \o t
  <2>6. /\ v \in Seq(TreeNames) /\ Len(v) = Len(h) + Len(t)
        /\ \A i \in 1 .. Len(h) + Len(t) : v[i] = IF i <= Len(h) THEN h[i] ELSE t[i - Len(h)]
    BY <1>2, <2>2, ConcatProperties
  <2> HIDE DEF v
  <2>7. ASSUME NEW i \in 1 .. k + 3 PROVE u[i] = v[i]
    <3>1. u[i] = IF i <= 3 THEN h[i] ELSE q[i - 3]
      <4>1. i \in 1 .. Len(h) + Len(q)
        BY <1>1, <1>2, <2>1
      <4> QED BY <1>2, <1>4, <4>1
    <3>2. v[i] = IF i <= 3 THEN h[i] ELSE t[i - 3]
      BY <1>2, <2>1, <2>2, <2>6
    <3>3. i > 3 => i - 3 \in 1 .. k
      BY <2>1
    <3> QED BY <2>1, <2>2, <3>1, <3>2, <3>3
  <2>8. SubSeq(u, 1, k + 3) = v
    <3>1. Len(v) = k + 3
      BY <1>2, <2>1, <2>2, <2>6
    <3> QED BY <2>5, <2>6, <2>7, <3>1, SeqEqual
  <2> QED BY <2>3, <2>8 DEF k, t, v
<1> QED BY <1>4, <1>6, <1>7, <1>8, <1>5 DEF u, h, Root, FileAt

\* The paths that the tree of an org unit has links for.
Linked(ou, shs) == {s.path : s \in {x \in ToSet(shs) : x.path[1] = ou \/ ou \in Groups(x.acl)}}
\* A link or a directory of the tree, as a file of one of them.
IsFile(tree, ou, p, n, f) == f = FileAt(ou, Prefix(p, n)) /\ tree[f] = FileOf(ou, p, n).target

LEMMA TreeFacts ==
    ASSUME NEW shs \in Seq(Entry), NEW ou
    PROVE  LET tree == TreeOf(ou, shs)
           IN /\ Linked(ou, shs) \subseteq LogicalPath
              /\ \A p \in Linked(ou, shs) : \A n \in 1 .. Len(p) : FileAt(ou, Prefix(p, n)) \in DOMAIN tree
              /\ \A f \in DOMAIN tree :
                    \E p \in Linked(ou, shs) : \E n \in 1 .. Len(p) : IsFile(tree, ou, p, n, f)
<1> DEFINE Self == {s \in Entry : s.path[1] = ou}
           Others == {s \in Entry : ou \in Groups(s.acl)}
           ss == [i \in DOMAIN shs |-> IF shs[i].path[1] = ou THEN <<shs[i]>> ELSE <<>>]
           os == [i \in DOMAIN shs |-> IF ou \in Groups(shs[i].acl) THEN <<shs[i]>> ELSE <<>>]
           all == FlattenSeq(ss) \o FlattenSeq(os)
           fs == [i \in DOMAIN all |-> FilesOfShare(ou, all[i].path)]
           files == FlattenSeq(fs)
           File == UNION {ToSet(FilesOfShare(ou, p)) : p \in LogicalPath}
           tree == TreeOf(ou, shs)
           at(f) == {i \in 1 .. Len(files) : files[i].path = f}
<1>1. tree = [f \in {files[i].path : i \in DOMAIN files} |->
                files[SelectLastInSeq(files, LAMBDA x : x.path = f)].target]
  BY DEF TreeOf, Passing
<1>2. tree = [f \in {files[i].path : i \in DOMAIN files} |->
                files[IF at(f) # {} THEN Max(at(f)) ELSE 0].target]
  BY <1>1 DEF SelectLastInSeq
<1>3. \A i \in DOMAIN shs : shs[i] \in Entry
  OBVIOUS
<1>4. ss = Parts(shs, Self) /\ os = Parts(shs, Others)
  BY <1>3 DEF Parts
<1> HIDE DEF ss, os
<1>5. FlattenSeq(ss) \in Seq(Entry) /\ ToSet(FlattenSeq(ss)) = ToSet(shs) \cap Self
  <2> HIDE DEF Self
  <2> QED BY <1>4, PassingFacts
<1>6. FlattenSeq(os) \in Seq(Entry) /\ ToSet(FlattenSeq(os)) = ToSet(shs) \cap Others
  <2> HIDE DEF Others
  <2> QED BY <1>4, PassingFacts
<1>7. all \in Seq(Entry) /\ ToSet(all) = ToSet(shs) \cap (Self \cup Others)
  <2> HIDE DEF Self, Others
  <2>1. all \in Seq(Entry) /\ ToSet(all) = ToSet(FlattenSeq(ss)) \cup ToSet(FlattenSeq(os))
    BY <1>5, <1>6, ConcatenationFacts
  <2> QED BY <1>5, <1>6, <2>1
<1>8. \A s \in ToSet(shs) : s \in Entry /\ s.path \in LogicalPath
  <2>1. \A s \in ToSet(shs) : s \in Entry
    BY <1>3 DEF ToSet
  <2> QED BY <2>1 DEF Entry
<1> HIDE DEF all
<1>9. {s.path : s \in ToSet(all)} = Linked(ou, shs) /\ Linked(ou, shs) \subseteq LogicalPath
  BY <1>7, <1>8 DEF Linked
<1>10. Len(all) \in Nat /\ DOMAIN all = 1 .. Len(all) /\ \A i \in DOMAIN all : all[i].path \in Linked(ou, shs)
  BY <1>7, <1>9 DEF ToSet
<1>11. \A p \in LogicalPath : FilesOfShare(ou, p) \in Seq(File)
  <2> SUFFICES ASSUME NEW p \in LogicalPath PROVE FilesOfShare(ou, p) \in Seq(File)
    OBVIOUS
  <2> DEFINE u == FilesOfShare(ou, p)
  <2>1. DOMAIN u = 1 .. Len(p) /\ Len(p) \in Nat /\ u = [n \in 1 .. Len(p) |-> FileOf(ou, p, n)]
    BY FilesFacts, PathFacts
  <2>2. ToSet(u) \subseteq File
    OBVIOUS
  <2> HIDE DEF u, File
  <2>3. \A n \in 1 .. Len(p) : u[n] \in File
    BY <2>1, <2>2 DEF ToSet
  <2>4. u \in [1 .. Len(p) -> File]
    BY <2>1, <2>3
  <2> QED BY <2>1, <2>4 DEF u
<1> HIDE DEF File
<1>12. fs \in Seq(Seq(File)) /\ DOMAIN fs = DOMAIN all /\ \A i \in DOMAIN all : fs[i] = FilesOfShare(ou, all[i].path)
  <2>1. \A i \in DOMAIN all : FilesOfShare(ou, all[i].path) \in Seq(File)
    BY <1>9, <1>10, <1>11
  <2>2. fs \in [1 .. Len(all) -> Seq(File)]
    BY <1>10, <2>1
  <2> QED BY <1>10, <2>2
<1> HIDE DEF fs
<1>13. files \in Seq(File) /\ ToSet(files) = UNION {ToSet(fs[i]) : i \in DOMAIN fs}
  BY <1>12, FlattenFacts
<1> HIDE DEF files
<1>14. \A x : x \in ToSet(files) <=>
                 \E p \in Linked(ou, shs) : \E n \in 1 .. Len(p) : x = FileOf(ou, p, n)
  <2>1. \A x : x \in ToSet(files) <=> \E i \in DOMAIN all : x \in ToSet(FilesOfShare(ou, all[i].path))
    BY <1>12, <1>13
  <2>2. \A p \in LogicalPath : \A x : x \in ToSet(FilesOfShare(ou, p)) <=> \E n \in 1 .. Len(p) : x = FileOf(ou, p, n)
    <3> SUFFICES ASSUME NEW q \in LogicalPath
                 PROVE  \A x : x \in ToSet(FilesOfShare(ou, q))
                                 <=> \E n \in 1 .. Len(q) : x = FileOf(ou, q, n)
      OBVIOUS
    <3>1. /\ DOMAIN FilesOfShare(ou, q) = 1 .. Len(q)
          /\ \A n \in 1 .. Len(q) : FilesOfShare(ou, q)[n] = FileOf(ou, q, n)
      BY FilesFacts
    <3> QED BY <3>1 DEF ToSet
  <2>3. \A p : p \in Linked(ou, shs) <=> \E i \in DOMAIN all : p = all[i].path
    BY <1>9 DEF ToSet
  <2> QED BY <1>9, <2>1, <2>2, <2>3
<1>15. DOMAIN files = 1 .. Len(files) /\ Len(files) \in Nat
  BY <1>13
<1>16. \A p, n : FileOf(ou, p, n).path = FileAt(ou, Prefix(p, n))
  BY DEF FileOf
<1>17. ASSUME NEW p \in Linked(ou, shs), NEW n \in 1 .. Len(p)
       PROVE  FileAt(ou, Prefix(p, n)) \in DOMAIN tree
  <2>1. FileOf(ou, p, n) \in ToSet(files)
    BY <1>14
  <2>2. PICK i \in DOMAIN files : files[i] = FileOf(ou, p, n)
    BY <2>1 DEF ToSet
  <2> HIDE DEF tree
  <2>3. \A j \in DOMAIN files : files[j].path \in DOMAIN tree
    BY <1>2
  <2> QED BY <1>16, <2>2, <2>3
<1>18. ASSUME NEW f \in DOMAIN tree
       PROVE  \E p \in Linked(ou, shs) : \E n \in 1 .. Len(p) : IsFile(tree, ou, p, n, f)
  <2> HIDE DEF tree
  <2>1. f \in {files[i].path : i \in DOMAIN files}
    BY <1>2
  <2>2. at(f) # {}
    BY <1>15, <2>1
  <2>3. Max(at(f)) \in at(f)
    BY <1>15, <2>2, Extrema
  <2>4. PICK i \in DOMAIN files : files[i].path = f /\ tree[f] = files[i].target
    <3>1. tree[f] = files[Max(at(f))].target
      BY <1>2, <2>1, <2>2
    <3> QED BY <1>15, <2>3, <3>1
  <2>5. files[i] \in ToSet(files)
    BY DEF ToSet
  <2>6. PICK p \in Linked(ou, shs) : \E n \in 1 .. Len(p) : files[i] = FileOf(ou, p, n)
    BY <1>14, <2>5
  <2> QED BY <1>16, <2>4, <2>6 DEF IsFile
<1> QED BY <1>9, <1>17, <1>18

\* No share is above another one.
LEMMA SharesNotNested ==
    ASSUME SInv, stage = "done", NEW s \in ToSet(shares), NEW x \in ToSet(shares),
           NEW n \in 1 .. Len(s.path) - 1
    PROVE  x.path # Prefix(s.path, n)
<1>1. PICK k \in DOMAIN exps : s.path = exps[k].path
  BY ShareOrigin
<1>2. PICK l \in DOMAIN exps : x.path = exps[l].path
  BY ShareOrigin
<1> DEFINE list == PathsOf(exps)
<1>3. DOMAIN list = DOMAIN exps /\ list[k] = s.path /\ list[l] = x.path
  BY <1>1, <1>2 DEF PathsOf
<1>4. DOMAIN exps = 1 .. Len(exps) /\ Len(exps) \in Nat
  BY ProductFacts
<1>5. Len(list) = Len(exps)
  BY <1>4 DEF PathsOf
<1>6. NoneAbove(list)
  BY DEF SInv, Acceptable
<1> HIDE DEF list
<1>7. ~ IsAbove(list[l], list[k])
  BY <1>3, <1>4, <1>5, <1>6 DEF NoneAbove
<1> QED BY <1>3, <1>7 DEF IsAbove

\* Who has a tree.
LEMMA ForestFacts ==
    ASSUME SInv, stage = "done"
    PROVE  /\ \A ou \in DOMAIN shareTrees : ou \in TreeNames /\ shareTrees[ou] = TreeOf(ou, shares)
           /\ \A s \in ToSet(shares) : \A ou \in Groups(s.acl) : ou \in DOMAIN shareTrees
           /\ \A ou : Linked(ou, shares) \subseteq {s.path : s \in ToSet(shares)}
<1> DEFINE ous == UNION {{shares[i].path[1]} \cup Groups(shares[i].acl) : i \in DOMAIN shares}
<1>1. shareTrees = [ou \in ous |-> TreeOf(ou, shares)]
  BY DEF SInv, CompileShareTrees
<1>2. \A ou : ou \in ous <=> \E s \in ToSet(shares) : ou = s.path[1] \/ ou \in Groups(s.acl)
  BY DEF ToSet
<1> HIDE DEF ous
<1>3. ASSUME NEW s \in ToSet(shares) PROVE s.path[1] \in TreeNames /\ Groups(s.acl) \subseteq TreeNames
  <2>1. s \in Entry
    BY ProductFacts DEF ToSet
  <2>2. s.path \in LogicalPath /\ s.acl \in Seq(Ace)
    BY <2>1 DEF Entry, Acl
  <2>3. s.path[1] \in Names
    BY <2>2, PathFacts
  <2>4. \A i \in DOMAIN s.acl : s.acl[i] \in Ace
    BY <2>2
  <2>5. Groups(s.acl) \subseteq GroupNames
    BY <2>4 DEF Ace, Groups
  <2> QED BY <2>3, <2>5 DEF TreeNames
<1> QED BY <1>1, <1>2, <1>3 DEF Linked

\* The target of each file is that of any share that it belongs to: the order of the
\* files, of which a later one replaces an earlier one, makes no difference.
LEMMA TreeIsExact ==
    ASSUME SInv, stage = "done", NEW ou \in DOMAIN shareTrees,
           NEW p \in Linked(ou, shares), NEW n \in 1 .. Len(p)
    PROVE  LET f == FileAt(ou, Prefix(p, n))
           IN /\ f \in DOMAIN shareTrees[ou]
              /\ shareTrees[ou][f] = FileOf(ou, p, n).target
<1> DEFINE f == FileAt(ou, Prefix(p, n))
           tree == shareTrees[ou]
<1>1. ou \in TreeNames /\ tree = TreeOf(ou, shares) /\ Linked(ou, shares) \subseteq LogicalPath
  BY ForestFacts, TreeFacts, ProductFacts
<1>2. f \in DOMAIN tree
  BY <1>1, TreeFacts, ProductFacts
<1>3. PICK x \in Linked(ou, shares) : \E m \in 1 .. Len(x) : IsFile(tree, ou, x, m, f)
  BY <1>1, <1>2, TreeFacts, ProductFacts
<1>4. PICK m \in 1 .. Len(x) : IsFile(tree, ou, x, m, f)
  BY <1>3
<1>5. ASSUME NEW y \in LogicalPath, NEW k \in 1 .. Len(y)
      PROVE  /\ Prefix(y, k) \in Seq(Names) /\ Len(Prefix(y, k)) = k
             /\ Prefix(y, Len(y)) = y /\ Len(y) \in Nat
             /\ Len(FileAt(ou, Prefix(y, k))) = k + 3
             /\ SubSeq(FileAt(ou, Prefix(y, k)), 4, k + 3) = Prefix(y, k)
  <2>1. y \in Seq(Names)
    BY DEF LogicalPath
  <2>2. Prefix(y, k) \in Seq(Names) /\ Len(Prefix(y, k)) = k
    BY <2>1 DEF Prefix
  <2>3. Prefix(y, Len(y)) = y /\ Len(y) \in Nat
    BY <2>1, SubSeqFull DEF Prefix
  <2>4. /\ Len(FileAt(ou, Prefix(y, k))) = Len(Prefix(y, k)) + 3
        /\ SubSeq(FileAt(ou, Prefix(y, k)), 4, Len(Prefix(y, k)) + 3) = Prefix(y, k)
    BY <1>1, <2>2, FileAtFacts
  <2> QED BY <2>2, <2>3, <2>4
<1>6. p \in LogicalPath /\ x \in LogicalPath
  BY <1>1, <1>3
<1> DEFINE g == FileAt(ou, Prefix(x, m))
<1>7. f = g /\ tree[f] = FileOf(ou, x, m).target
  BY <1>4 DEF IsFile
<1>8. /\ Len(f) = n + 3 /\ SubSeq(f, 4, n + 3) = Prefix(p, n)
      /\ Prefix(p, Len(p)) = p /\ Len(p) \in Nat
  BY <1>5, <1>6
<1>9. /\ Len(g) = m + 3 /\ SubSeq(g, 4, m + 3) = Prefix(x, m)
      /\ Prefix(x, Len(x)) = x /\ Len(x) \in Nat
  BY <1>5, <1>6
<1> HIDE DEF f, g, tree
<1>10. n = m /\ Prefix(p, n) = Prefix(x, n)
  <2>1. n + 3 = m + 3 /\ n \in Int /\ m \in Int
    BY <1>7, <1>8, <1>9
  <2>2. n = m
    BY <2>1
  <2> QED BY <1>7, <1>8, <1>9, <2>2
<1>11. \E s \in ToSet(shares) : s.path = p
  BY ForestFacts
<1>12. \E s \in ToSet(shares) : s.path = x
  BY ForestFacts
<1>13. ~ (n < Len(p) /\ n = Len(x))
  BY <1>8, <1>9, <1>10, <1>11, <1>12, SharesNotNested
<1>14. ~ (n < Len(x) /\ n = Len(p))
  BY <1>8, <1>9, <1>10, <1>11, <1>12, SharesNotNested
<1>15. FileOf(ou, x, m).target = FileOf(ou, p, n).target
  <2>1. CASE n < Len(p)
    <3>1. m < Len(x)
      BY <1>8, <1>9, <1>10, <1>13, <2>1
    <3> QED BY <2>1, <3>1 DEF FileOf
  <2>2. CASE n = Len(p)
    <3>1. n = Len(x)
      <4>1. ~ (n < Len(x)) /\ n \in 1 .. Len(x) /\ Len(x) \in Nat
        BY <1>9, <1>10, <1>14, <2>2
      <4> QED BY <4>1
    <3>2. p = x
      BY <1>8, <1>9, <1>10, <2>2, <3>1
    <3> QED BY <1>10, <3>2
  <2> QED BY <1>8, <2>1, <2>2
<1> QED BY <1>2, <1>7, <1>15 DEF f, tree

\* The files of a tree, with what the tree has for them.
LEMMA TreeFiles ==
    ASSUME SInv, stage = "done", NEW ou \in DOMAIN shareTrees, NEW f \in DOMAIN shareTrees[ou]
    PROVE  \E p \in Linked(ou, shares) : \E n \in 1 .. Len(p) :
              /\ p \in LogicalPath /\ Len(p) \in Nat
              /\ f = FileAt(ou, Prefix(p, n)) /\ shareTrees[ou][f] = FileOf(ou, p, n).target
              /\ Len(f) = n + 3 /\ Prefix(f, 3) = <<OrgUnitDir, ou, "shared">>
              /\ Front(f) = FileAt(ou, Prefix(p, n - 1))
<1>1. ou \in TreeNames /\ shareTrees[ou] = TreeOf(ou, shares) /\ Linked(ou, shares) \subseteq LogicalPath
  BY ForestFacts, TreeFacts, ProductFacts
<1>2. PICK p \in Linked(ou, shares) : \E n \in 1 .. Len(p) : IsFile(shareTrees[ou], ou, p, n, f)
  BY <1>1, TreeFacts, ProductFacts
<1>3. PICK n \in 1 .. Len(p) : IsFile(shareTrees[ou], ou, p, n, f)
  BY <1>2
<1>4. p \in LogicalPath /\ p \in Seq(Names) /\ Len(p) \in Nat
  BY <1>1, PathFacts DEF LogicalPath
<1> DEFINE q == Prefix(p, n)
<1>5. q \in Seq(Names) /\ Len(q) = n
  BY <1>4 DEF Prefix
<1>6. Prefix(q, n - 1) = Prefix(p, n - 1)
  <2>1. CASE n = 1
    <3>1. n - 1 \in Int /\ n - 1 < 1 /\ 1 \in Int
      BY <2>1
    <3>2. SubSeq(q, 1, n - 1) = <<>> /\ SubSeq(p, 1, n - 1) = <<>>
      BY <3>1, SubSeqEmpty
    <3> QED BY <3>2 DEF Prefix
  <2>2. CASE n # 1
    <3> DEFINE k == n - 1
    <3>1. k \in 1 .. n - 1 + 1 /\ 1 \in 1 .. n - 1 + 1 /\ k \in Nat
      BY <1>4, <2>2
    <3>2. 1 \in 1 .. Len(p) /\ n \in 1 .. Len(p)
      BY <1>4
    <3> HIDE DEF k
    <3>3. SubSeq(SubSeq(p, 1, n), 1, k) = SubSeq(p, 1 + 1 - 1, 1 + k - 1)
      BY <1>4, <1>5, <3>1, <3>2, SubSeqOfSubSeq
    <3>4. 1 + 1 - 1 = 1 /\ 1 + k - 1 = k
      BY <3>1
    <3> QED BY <3>3, <3>4 DEF Prefix, k
  <2> QED BY <2>1, <2>2
<1> HIDE DEF q
<1>7. /\ Len(FileAt(ou, q)) = Len(q) + 3
      /\ Prefix(FileAt(ou, q), 3) = <<OrgUnitDir, ou, "shared">>
      /\ Len(q) > 0 => Front(FileAt(ou, q)) = FileAt(ou, Prefix(q, Len(q) - 1))
  BY <1>1, <1>5, FileAtFacts
<1>8. f = FileAt(ou, q) /\ shareTrees[ou][f] = FileOf(ou, p, n).target
  BY <1>3 DEF IsFile, q
<1>9. n > 0
  BY <1>4
<1> QED BY <1>4, <1>5, <1>6, <1>7, <1>8, <1>9 DEF q

LEMMA TreesStand ==
    ASSUME SInv PROVE TreesAreTrees
<1> SUFFICES ASSUME stage = "done", NEW ou \in DOMAIN shareTrees, NEW f \in DOMAIN shareTrees[ou],
                    Len(f) # 4
             PROVE  Front(f) \in DOMAIN shareTrees[ou] /\ shareTrees[ou][Front(f)] = Directory
  BY DEF TreesAreTrees
<1>1. PICK p \in Linked(ou, shares) : \E n \in 1 .. Len(p) :
              /\ p \in LogicalPath /\ Len(p) \in Nat
              /\ Len(f) = n + 3 /\ Front(f) = FileAt(ou, Prefix(p, n - 1))
  BY TreeFiles
<1>2. PICK n \in 1 .. Len(p) : Len(f) = n + 3 /\ Front(f) = FileAt(ou, Prefix(p, n - 1))
  BY <1>1
<1>3. n - 1 \in 1 .. Len(p) /\ n - 1 < Len(p)
  BY <1>1, <1>2
<1>4. /\ Front(f) \in DOMAIN shareTrees[ou]
      /\ shareTrees[ou][Front(f)] = FileOf(ou, p, n - 1).target
  BY <1>2, <1>3, TreeIsExact
<1> QED BY <1>3, <1>4 DEF FileOf

\* createShareTree() can make the files of a tree one after the other: the checks for
\* nested paths keep each link off the way to another one.
THEOREM TreesAreTreesCorrect == Spec => []TreesAreTrees
<1>1. SInv => TreesAreTrees
  BY TreesStand
<1> QED BY <1>1, StagesFollow, PTL

\* The products are lists of entries with paths and modes, and the trees are below
\* `<org>/<ou>/shared`.
THEOREM TypeCorrect == Spec => []TypeOK
<1>1. ASSUME SInv PROVE TypeOK
  <2> DEFINE Good(es) == \A i \in DOMAIN es :
                /\ es[i].path # <<>>
                /\ \A a \in ToSet(es[i].acl) : a.mode \subseteq {"r", "w", "x"}
  <2>1. \A acl \in Acl : \A a \in ToSet(acl) : a.mode \subseteq {"r", "w", "x"}
    <3>1. \A acl \in Acl : \A a \in ToSet(acl) : a \in Ace
      BY DEF Acl, ToSet
    <3> QED BY <3>1 DEF Ace, Bits
  <2>2. \A e \in Entry \cup RealEntry \cup TraversalEntry : e.acl \in Acl /\ e.path # <<>>
    BY DEF Entry, RealEntry, TraversalEntry, LogicalPath, RealPath
  <2>3. \A es : es \in Seq(Entry) \/ es \in Seq(RealEntry) \/ es \in Seq(TraversalEntry) => Good(es)
    <3>1. \A es : es \in Seq(Entry) \/ es \in Seq(RealEntry) \/ es \in Seq(TraversalEntry) =>
                     \A i \in DOMAIN es : es[i] \in Entry \cup RealEntry \cup TraversalEntry
      OBVIOUS
    <3> QED BY <2>1, <2>2, <3>1
  <2>4. Good(<<>>)
    OBVIOUS
  <2> HIDE DEF Good
  <2>5. Good(exps)
    <3>1. cfg \in Configs /\ (exps = <<>> \/ exps = Compiled)
      BY <1>1 DEF SInv
    <3>2. Compiled \in Seq(Entry)
      BY <3>1, CompiledFacts
    <3> QED BY <2>3, <2>4, <3>1, <3>2
  <2>6. Good(shares) /\ Good(realShares) /\ Good(traversal)
    <3>1. CASE stage = "done"
      <4>1. shares \in Seq(Entry) /\ realShares \in Seq(RealEntry) /\ traversal \in Seq(TraversalEntry)
        BY <1>1, <3>1, ProductFacts, RealSharesFacts, TraversalFacts DEF SInv
      <4> QED BY <2>3, <4>1
    <3>2. CASE stage # "done"
      BY <1>1, <2>4, <3>2 DEF SInv
    <3> QED BY <3>1, <3>2
  <2>7. ASSUME NEW ou \in DOMAIN shareTrees, NEW f \in DOMAIN shareTrees[ou]
        PROVE  Len(f) > 3 /\ Prefix(f, 3) = <<OrgUnitDir, ou, "shared">>
    <3>1. CASE stage = "done"
      <4>1. PICK p \in Linked(ou, shares) : \E n \in 1 .. Len(p) :
                    /\ p \in LogicalPath /\ Len(p) \in Nat
                    /\ Len(f) = n + 3 /\ Prefix(f, 3) = <<OrgUnitDir, ou, "shared">>
        BY <1>1, <3>1, TreeFiles
      <4>2. PICK n \in 1 .. Len(p) : Len(f) = n + 3
        BY <4>1
      <4>3. Len(f) > 3
        BY <4>1, <4>2
      <4> QED BY <4>1, <4>3
    <3>2. CASE stage # "done"
      BY <1>1, <3>2 DEF SInv
    <3> QED BY <3>1, <3>2
  <2>8. \A es \in {exps, shares, realShares, traversal} : Good(es)
    BY <2>5, <2>6
  <2> QED BY <1>1, <2>7, <2>8 DEF TypeOK, SInv, Good
<1> QED BY <1>1, StagesFollow, PTL

-----------------------------------------------------------------------------
\* Where links lead.

\* One part of a relative target.
Walk(d, part) == IF part = ".." THEN Front(d) ELSE Append(d, part)

LEMMA WalkUp ==
    ASSUME NEW S, NEW d \in Seq(S), NEW j \in 2 .. Len(d)
    PROVE  Walk(SubSeq(d, 1, j), "..") = SubSeq(d, 1, j - 1)
<1>1. Len(d) \in Nat /\ j \in Nat
  OBVIOUS
<1>2. Len(SubSeq(d, 1, j)) = j
  BY <1>1
<1> DEFINE k == j - 1
<1>3. k \in 1 .. j - 1 + 1 /\ 1 \in 1 .. j - 1 + 1 /\ k \in Nat
  BY <1>1
<1>4. 1 \in 1 .. Len(d) /\ j \in 1 .. Len(d)
  BY <1>1
<1>5. Walk(SubSeq(d, 1, j), "..") = SubSeq(SubSeq(d, 1, j), 1, k)
  BY <1>2 DEF Walk, Front
<1> HIDE DEF k
<1>6. SubSeq(d, 1, j) \in Seq(S)
  BY <1>4
<1>7. SubSeq(SubSeq(d, 1, j), 1, k) = SubSeq(d, 1 + 1 - 1, 1 + k - 1)
  BY <1>3, <1>4, <1>6, SubSeqOfSubSeq
<1>8. 1 + 1 - 1 = 1 /\ 1 + k - 1 = k
  BY <1>3
<1> QED BY <1>5, <1>7, <1>8 DEF k

LEMMA WalkDown ==
    ASSUME NEW S, NEW h \in Seq(S), NEW p \in Seq(S), NEW j \in Nat, j < Len(p), p[j + 1] # ".."
    PROVE  Walk(h \o SubSeq(p, 1, j), p[j + 1]) = h \o SubSeq(p, 1, j + 1)
<1> DEFINE t == SubSeq(p, 1, j)
           x == p[j + 1]
<1>1. Len(p) \in Nat /\ j + 1 \in 1 .. Len(p) /\ 1 \in 1 .. Len(p) /\ j + 1 \in 1 .. Len(p) /\ x \in S
  OBVIOUS
<1>2. t \in Seq(S)
  <2>1. 1 \in Int /\ j \in Int /\ \A i \in 1 .. j : p[i] \in S
    BY <1>1
  <2> QED BY <2>1, SubSeqProperties
<1>3. SubSeq(p, 1, j + 1) = t \o <<x>>
  <2> DEFINE k == j + 1
  <2>1. k \in 1 .. Len(p) /\ 1 \in 1 .. Len(p) /\ k - 1 = j
    BY <1>1
  <2> HIDE DEF k
  <2>2. SubSeq(p, 1, k) = SubSeq(p, 1, k - 1) \o <<p[k]>>
    BY <2>1, SubSeqRecursiveSecond
  <2> QED BY <2>1, <2>2 DEF k
<1> HIDE DEF t, x
<1>4. x # ".."
  BY DEF x
<1>5. h \o t \in Seq(S) /\ <<x>> \in Seq(S)
  BY <1>1, <1>2
<1>6. Walk(h \o t, x) = (h \o t) \o <<x>>
  BY <1>1, <1>4, <1>5, AppendIsConcat DEF Walk
<1>7. (h \o t) \o <<x>> = h \o (t \o <<x>>)
  BY <1>2, <1>5, ConcatAssociative
<1> QED BY <1>3, <1>6, <1>7 DEF t, x

\* Going through a target part by part.
IsWalk(it, dir, t, n) == it[0] = dir /\ \A k \in 0 .. n - 1 : it[k + 1] = Walk(it[k], t[k + 1])

LEMMA FollowFacts ==
    ASSUME NEW dir \in Seq(TreeNames), NEW t \in Seq(Names \cup {".."})
    PROVE  \E it : IsWalk(it, dir, t, Len(t)) /\ Follow(dir, t) = it[Len(t)]
<1> DEFINE n == Len(t)
           V == Seq(TreeNames)
           E == Names \cup {".."}
           F == [d \in V |-> [part \in E |-> Walk(d, part)]]
           IsIter(it) == it = [s \in SUBSET DOMAIN t |->
                                 IF s = {} THEN dir ELSE Walk(it[s \ {Max(s)}], t[Max(s)])]
           iter == CHOOSE it : IsIter(it)
<1>1. n \in Nat /\ DOMAIN t = 1 .. n /\ \A i \in 1 .. n : t[i] \in E
  OBVIOUS
<1>2. Follow(dir, t) = iter[1 .. n]
  BY <1>1 DEF Follow, FoldLeft, MapThenFoldSet, Walk
<1> HIDE DEF n
<1>3. ASSUME NEW d \in V, NEW part \in E PROVE Walk(d, part) \in V
  <2>1. CASE part = ".."
    <3>1. Walk(d, part) = SubSeq(d, 1, Len(d) - 1)
      BY <2>1 DEF Walk, Front
    <3>2. 1 \in Int /\ Len(d) - 1 \in Int /\ \A i \in 1 .. Len(d) - 1 : d[i] \in TreeNames
      OBVIOUS
    <3> QED BY <3>1, <3>2, SubSeqProperties
  <2>2. CASE part # ".."
    <3>1. part \in TreeNames /\ Walk(d, part) = Append(d, part)
      BY <2>2 DEF Walk, TreeNames
    <3> QED BY <3>1
  <2> QED BY <2>1, <2>2
<1>4. IsIter(iter)
  <2>1. \A d \in V, part \in E : F[d][part] \in V /\ F[d][part] = Walk(d, part)
    BY <1>3
  <2>2. dir \in V
    OBVIOUS
  <2> HIDE DEF F, V, E
  <2>3. PICK it : IsFold(it, F, V, dir, t, n)
    <3>1. IsStep(F, V, E)
      BY <2>1 DEF IsStep
    <3> QED BY <1>1, <2>2, <3>1, FoldExists
  <2>4. ASSUME NEW s \in SUBSET (1 .. n), s # {}
        PROVE  F[it[s \ {Max(s)}]][t[Max(s)]] = Walk(it[s \ {Max(s)}], t[Max(s)])
    <3>1. Max(s) \in 1 .. n /\ s \ {Max(s)} \in SUBSET (1 .. n)
      BY <1>1, <2>4, Extrema
    <3>2. it[s \ {Max(s)}] \in V /\ t[Max(s)] \in E
      BY <1>1, <2>3, <3>1 DEF IsFold
    <3> QED BY <2>1, <3>2
  <2>5. IsIter(it)
    BY <1>1, <2>3, <2>4 DEF IsFold
  <2> HIDE DEF IsIter
  <2> QED BY <2>5
<1> HIDE DEF iter
<1>5. /\ iter[{}] = dir
      /\ \A s \in SUBSET (1 .. n) : s # {} => iter[s] = Walk(iter[s \ {Max(s)}], t[Max(s)])
  BY <1>1, <1>4
<1> HIDE DEF IsIter
<1> DEFINE it == [k \in 0 .. n |-> iter[1 .. k]]
<1>6. it[0] = dir
  BY <1>1, <1>5, GoneThrough
<1>7. ASSUME NEW k \in 0 .. n - 1 PROVE it[k + 1] = Walk(it[k], t[k + 1])
  <2>1. k \in Nat /\ k \in 0 .. n /\ k + 1 \in 0 .. n /\ 1 .. k + 1 \in SUBSET (1 .. n)
    BY <1>1
  <2>2. 1 .. k + 1 # {} /\ Max(1 .. k + 1) = k + 1 /\ (1 .. k + 1) \ {k + 1} = 1 .. k
    BY <2>1, GoneThrough
  <2>3. iter[1 .. k + 1] = Walk(iter[1 .. k], t[k + 1])
    BY <1>5, <2>1, <2>2
  <2> QED BY <2>1, <2>3
<1>8. it[n] = iter[1 .. n]
  BY <1>1
<1> HIDE DEF it
<1>9. IsWalk(it, dir, t, n)
  BY <1>6, <1>7 DEF IsWalk
<1> QED BY <1>2, <1>8, <1>9 DEF n

\* The link of a share leads to the share: `../` takes it up to <org>, from where its
\* path goes on.
LEMMA LinkLeads ==
    ASSUME NEW ou \in TreeNames, NEW p \in LogicalPath
    PROVE  Follow(Front(FileAt(ou, p)), LinkTarget(p)) = <<OrgUnitDir>> \o p
<1> DEFINE L == Len(p)
           dir == Front(FileAt(ou, p))
           t == LinkTarget(p)
           ups == [i \in 1 .. L + 1 |-> ".."]
           org == <<OrgUnitDir>>
           E == Names \cup {".."}
<1>1. L \in Nat \ {0} /\ p \in Seq(Names) /\ \A i \in 1 .. L : p[i] \in Names /\ p[i] # ".."
  BY PathFacts DEF LogicalPath
<1>2. dir \in Seq(TreeNames) /\ Len(dir) = L + 2 /\ dir[1] = OrgUnitDir
  <2> DEFINE q == Prefix(p, L - 1)
  <2>1. q \in Seq(Names) /\ Len(q) = L - 1
    <3>1. 1 \in Int /\ L - 1 \in Int /\ \A i \in 1 .. L - 1 : p[i] \in Names
      BY <1>1
    <3>2. q \in Seq(Names) /\ Len(q) = IF 1 <= L - 1 THEN L - 1 - 1 + 1 ELSE 0
      BY <3>1, SubSeqProperties DEF Prefix
    <3>3. (IF 1 <= L - 1 THEN L - 1 - 1 + 1 ELSE 0) = L - 1
      <4>1. L \in Nat /\ L # 0
        BY <1>1
      <4> HIDE DEF L
      <4> QED BY <4>1
    <3> HIDE DEF q, L
    <3> QED BY <3>2, <3>3
  <2>2. dir = FileAt(ou, q)
    BY <1>1, FileAtFacts
  <2> HIDE DEF q, dir
  <2>3. dir \in Seq(TreeNames) /\ Len(dir) = Len(q) + 3 /\ Prefix(dir, 3) = <<OrgUnitDir, ou, "shared">>
    BY <2>1, <2>2, FileAtFacts
  <2>4. Len(dir) = L + 2
    BY <1>1, <2>1, <2>3
  <2>5. dir[1] = Prefix(dir, 3)[1]
    BY <1>1, <2>3, <2>4 DEF Prefix
  <2> QED BY <2>3, <2>4, <2>5
<1>3. /\ t \in Seq(E) /\ Len(t) = L + 1 + L
      /\ \A k \in 1 .. L + 1 : t[k] = ".."
      /\ \A k \in L + 2 .. L + 1 + L : t[k] = p[k - (L + 1)]
  <2>1. ups \in Seq(E) /\ Len(ups) = L + 1 /\ \A k \in 1 .. L + 1 : ups[k] = ".."
    <3>1. L + 1 \in Nat /\ ups \in [1 .. L + 1 -> E]
      BY <1>1
    <3> QED BY <3>1
  <2>2. p \in Seq(E) /\ t = ups \o p
    BY <1>1 DEF LinkTarget
  <2> HIDE DEF ups, E, t
  <2>3. /\ t \in Seq(E) /\ Len(t) = Len(ups) + L
        /\ \A i \in 1 .. Len(ups) + L : t[i] = IF i <= Len(ups) THEN ups[i] ELSE p[i - Len(ups)]
    BY <2>1, <2>2, ConcatProperties
  <2>4. \A k \in 1 .. L + 1 : k \in 1 .. Len(ups) + L /\ k <= Len(ups)
    BY <1>1, <2>1
  <2>5. \A k \in L + 2 .. L + 1 + L : k \in 1 .. Len(ups) + L /\ ~ (k <= Len(ups))
    BY <1>1, <2>1
  <2> QED BY <2>1, <2>3, <2>4, <2>5
<1> HIDE DEF dir, t, ups, E
<1>4. PICK it : IsWalk(it, dir, t, L + 1 + L) /\ Follow(dir, t) = it[L + 1 + L]
  <2>1. PICK it : IsWalk(it, dir, t, Len(t)) /\ Follow(dir, t) = it[Len(t)]
    BY <1>2, <1>3, FollowFacts DEF E
  <2> QED BY <1>3, <2>1
<1> DEFINE Up == {k \in 0 .. L + 1 : it[k] = SubSeq(dir, 1, L + 2 - k)}
           Down == {k \in 0 .. L : it[L + 1 + k] = org \o SubSeq(p, 1, k)}
<1>5. L + 1 \in Up
  <2>1. 0 \in Up
    <3>1. it[0] = dir /\ L + 2 - 0 = Len(dir) /\ 0 \in 0 .. L + 1
      BY <1>1, <1>2, <1>4 DEF IsWalk
    <3>2. SubSeq(dir, 1, Len(dir)) = dir
      BY <1>2, SubSeqFull
    <3> QED BY <3>1, <3>2
  <2>2. ASSUME NEW k \in 0 .. (L + 1) - 1, k \in Up PROVE k + 1 \in Up
    <3> DEFINE j == L + 2 - k
    <3>1. it[k] = SubSeq(dir, 1, j)
      BY <2>2
    <3> HIDE DEF Up
    <3>2. /\ k \in 0 .. (L + 1 + L) - 1 /\ k + 1 \in 1 .. L + 1 /\ k + 1 \in 0 .. L + 1
          /\ j \in 2 .. L + 2 /\ j - 1 = L + 2 - (k + 1)
      BY <1>1
    <3> HIDE DEF j
    <3>3. it[k + 1] = Walk(it[k], t[k + 1])
      BY <1>4, <3>2 DEF IsWalk
    <3>4. t[k + 1] = ".."
      BY <1>3, <3>2
    <3>5. Walk(SubSeq(dir, 1, j), "..") = SubSeq(dir, 1, j - 1)
      BY <1>2, <3>2, WalkUp
    <3>6. it[k + 1] = SubSeq(dir, 1, L + 2 - (k + 1))
      BY <3>1, <3>2, <3>3, <3>4, <3>5
    <3> QED BY <3>2, <3>6 DEF Up
  <2>3. L + 1 \in Nat
    BY <1>1
  <2> HIDE DEF Up
  <2> QED BY <2>1, <2>2, <2>3, LoopInduction
<1>6. L \in Down
  <2>1. 0 \in Down
    <3>1. it[L + 1] = SubSeq(dir, 1, 1)
      <4>1. it[L + 1] = SubSeq(dir, 1, L + 2 - (L + 1))
        BY <1>5
      <4>2. L + 2 - (L + 1) = 1
        BY <1>1
      <4> QED BY <4>1, <4>2
    <3>2. SubSeq(dir, 1, 1) = <<dir[1]>>
      <4>1. /\ 1 \in Int /\ 1 =< 1 /\ \A i \in 1 .. 1 : dir[i] \in TreeNames
        BY <1>1, <1>2
      <4>2. SubSeq(dir, 1, 1) \in Seq(TreeNames) /\ Len(SubSeq(dir, 1, 1)) = 1 /\ SubSeq(dir, 1, 1)[1] = dir[1]
        BY <1>1, <1>2
      <4>3. dir[1] \in TreeNames
        BY <1>1, <1>2
      <4>4. <<dir[1]>> \in Seq(TreeNames) /\ Len(<<dir[1]>>) = 1 /\ <<dir[1]>>[1] = dir[1]
        BY <4>3
      <4>5. \A i \in 1 .. Len(SubSeq(dir, 1, 1)) : SubSeq(dir, 1, 1)[i] = <<dir[1]>>[i]
        BY <4>2, <4>4
      <4> QED BY <4>2, <4>4, <4>5, SeqEqual
    <3>3. org \o SubSeq(p, 1, 0) = org
      <4>1. SubSeq(p, 1, 0) = <<>>
        <5>1. 1 \in Int /\ 0 \in Int /\ 0 < 1
          OBVIOUS
        <5> QED BY <5>1, SubSeqEmpty
      <4>2. org \in Seq({OrgUnitDir})
        OBVIOUS
      <4> HIDE DEF org
      <4>3. org \o <<>> = org
        BY <4>2, ConcatEmptySeq
      <4> QED BY <4>1, <4>3
    <3>4. 0 \in 0 .. L /\ L + 1 + 0 = L + 1
      BY <1>1
    <3> QED BY <1>2, <3>1, <3>2, <3>3, <3>4
  <2>2. ASSUME NEW k \in 0 .. L - 1, k \in Down PROVE k + 1 \in Down
    <3>1. it[L + 1 + k] = org \o SubSeq(p, 1, k)
      BY <2>2
    <3> HIDE DEF Down
    <3>2. /\ L + 1 + k \in 0 .. (L + 1 + L) - 1 /\ k \in Nat /\ k < Len(p) /\ k + 1 \in 0 .. L
          /\ (L + 1 + k) + 1 = L + 1 + (k + 1) /\ (L + 1 + k) + 1 \in L + 2 .. L + 1 + L
          /\ ((L + 1 + k) + 1) - (L + 1) = k + 1 /\ k + 1 \in 1 .. L
      BY <1>1
    <3>3. it[(L + 1 + k) + 1] = Walk(it[L + 1 + k], t[(L + 1 + k) + 1])
      BY <1>4, <3>2 DEF IsWalk
    <3>4. t[(L + 1 + k) + 1] = p[((L + 1 + k) + 1) - (L + 1)]
      BY <1>3, <3>2
    <3>5. t[(L + 1 + k) + 1] = p[k + 1]
      BY <3>2, <3>4
    <3>6. Walk(org \o SubSeq(p, 1, k), p[k + 1]) = org \o SubSeq(p, 1, k + 1)
      <4> DEFINE S == Names \cup {OrgUnitDir}
      <4>1. org \in Seq(S) /\ p \in Seq(S)
        <5>1. OrgUnitDir \in S /\ Names \subseteq S
          OBVIOUS
        <5> HIDE DEF S
        <5> QED BY <1>1, <5>1
      <4>2. p[k + 1] # ".." /\ k < Len(p) /\ k \in Nat
        BY <1>1, <3>2
      <4> HIDE DEF S, org
      <4> QED BY <4>1, <4>2, WalkDown
    <3>7. it[L + 1 + (k + 1)] = org \o SubSeq(p, 1, k + 1)
      BY <3>1, <3>2, <3>3, <3>5, <3>6
    <3> QED BY <3>2, <3>7 DEF Down
  <2>3. L \in Nat
    BY <1>1
  <2> HIDE DEF Down
  <2> QED BY <2>1, <2>2, <2>3, LoopInduction
<1>7. SubSeq(p, 1, Len(p)) = p
  BY <1>1, SubSeqFull
<1>8. it[L + 1 + L] = org \o p
  <2>1. it[L + 1 + L] = org \o SubSeq(p, 1, L)
    BY <1>6
  <2> QED BY <1>7, <2>1
<1> QED BY <1>4, <1>8 DEF dir, t

LEMMA LinkedPathFacts ==
    ASSUME SInv, stage = "done", NEW ou \in DOMAIN shareTrees
    PROVE  /\ \A f \in LinksOf(shareTrees[ou]) : LinkedPath(shareTrees[ou], f) \in Linked(ou, shares)
           /\ \A p \in Linked(ou, shares) :
                 \E f \in LinksOf(shareTrees[ou]) : LinkedPath(shareTrees[ou], f) = p
<1> DEFINE tree == shareTrees[ou]
<1>1. ou \in TreeNames /\ Linked(ou, shares) \subseteq LogicalPath
  BY ForestFacts, TreeFacts, ProductFacts
<1>2. ASSUME NEW p \in Linked(ou, shares)
      PROVE  /\ Len(p) \in Nat \ {0} /\ p \in Seq(Names) /\ Prefix(p, Len(p)) = p
             /\ FileOf(ou, p, Len(p)).target = LinkTarget(p)
             /\ LinkTarget(p) # Directory
             /\ tree[FileAt(ou, p)] = LinkTarget(p) => LinkedPath(tree, FileAt(ou, p)) = p
  <2>1. p \in LogicalPath
    BY <1>1
  <2>2. Len(p) \in Nat \ {0} /\ p \in Seq(Names)
    BY <2>1, PathFacts DEF LogicalPath
  <2>3. Prefix(p, Len(p)) = p
    BY <2>2, SubSeqFull DEF Prefix
  <2>4. FileOf(ou, p, Len(p)).target = LinkTarget(p)
    BY <2>2 DEF FileOf
  <2>5. LinkTarget(p) # Directory
    <3> DEFINE ups == [i \in 1 .. Len(p) + 1 |-> ".."]
               E == Names \cup {".."}
    <3>1. ups \in Seq(E) /\ Len(ups) = Len(p) + 1
      <4>1. Len(p) + 1 \in Nat /\ ups \in [1 .. Len(p) + 1 -> E]
        BY <2>2
      <4> QED BY <4>1
    <3>2. p \in Seq(E) /\ LinkTarget(p) = ups \o p
      BY <2>2 DEF LinkTarget
    <3> HIDE DEF ups, E
    <3>3. Len(LinkTarget(p)) = Len(ups) + Len(p)
      BY <3>1, <3>2, ConcatProperties
    <3>4. Len(LinkTarget(p)) # 0
      BY <2>2, <3>1, <3>3
    <3> QED BY <3>4 DEF Directory
  <2>6. ASSUME tree[FileAt(ou, p)] = LinkTarget(p) PROVE LinkedPath(tree, FileAt(ou, p)) = p
    <3> DEFINE org == <<OrgUnitDir>>
               S == Names \cup {OrgUnitDir}
    <3>1. Follow(Front(FileAt(ou, p)), LinkTarget(p)) = org \o p
      BY <1>1, <2>1, LinkLeads
    <3>2. org \in Seq(S) /\ Len(org) = 1 /\ p \in Seq(S)
      <4>1. OrgUnitDir \in S /\ Names \subseteq S
        OBVIOUS
      <4> HIDE DEF S
      <4> QED BY <2>2, <4>1
    <3> HIDE DEF org, S
    <3>3. Len(org \o p) = 1 + Len(p)
      BY <3>2, ConcatProperties
    <3>4. SubSeq(org \o p, 2, 1 + Len(p)) = p
      <4> DEFINE m == 2
                 n == 1 + Len(p)
      <4>1. m \in Len(org) + 1 .. Len(org) + Len(p) /\ n \in Len(org) + 1 .. Len(org) + Len(p)
        BY <2>2, <3>2
      <4>2. m - Len(org) = 1 /\ n - Len(org) = Len(p)
        BY <2>2, <3>2
      <4> HIDE DEF m, n
      <4>3. SubSeq(org \o p, m, n) = SubSeq(p, m - Len(org), n - Len(org))
        BY <3>2, <4>1, SubSeqOfConcat2
      <4>4. SubSeq(p, 1, Len(p)) = p
        BY <2>2, SubSeqFull
      <4> QED BY <4>2, <4>3, <4>4 DEF m, n
    <3>5. LinkedPath(tree, FileAt(ou, p)) = Rest(org \o p, 1)
      BY <2>6, <3>1 DEF LinkedPath
    <3>6. 1 + 1 = 2
      OBVIOUS
    <3> QED BY <3>3, <3>4, <3>5, <3>6 DEF Rest
  <2> QED BY <2>2, <2>3, <2>4, <2>5, <2>6
<1>3. ASSUME NEW f \in LinksOf(tree) PROVE LinkedPath(tree, f) \in Linked(ou, shares)
  <2>1. f \in DOMAIN tree /\ tree[f] # Directory
    BY DEF LinksOf
  <2>2. PICK p \in Linked(ou, shares) : \E n \in 1 .. Len(p) :
                f = FileAt(ou, Prefix(p, n)) /\ tree[f] = FileOf(ou, p, n).target
    BY <2>1, TreeFiles
  <2>3. PICK n \in 1 .. Len(p) : f = FileAt(ou, Prefix(p, n)) /\ tree[f] = FileOf(ou, p, n).target
    BY <2>2
  <2>4. n = Len(p)
    <3>1. ~ (n < Len(p))
      BY <2>1, <2>3 DEF FileOf
    <3> QED BY <1>2, <3>1
  <2> HIDE DEF tree
  <2>5. f = FileAt(ou, p) /\ tree[f] = LinkTarget(p)
    BY <1>2, <2>3, <2>4
  <2> QED BY <1>2, <2>5
<1>4. ASSUME NEW p \in Linked(ou, shares)
      PROVE  \E f \in LinksOf(tree) : LinkedPath(tree, f) = p
  <2>1. Len(p) \in 1 .. Len(p)
    BY <1>2
  <2>2. /\ FileAt(ou, Prefix(p, Len(p))) \in DOMAIN tree
        /\ tree[FileAt(ou, Prefix(p, Len(p)))] = FileOf(ou, p, Len(p)).target
    BY <2>1, TreeIsExact
  <2> HIDE DEF tree
  <2>3. FileAt(ou, p) \in DOMAIN tree /\ tree[FileAt(ou, p)] = LinkTarget(p)
    BY <1>2, <2>2
  <2>4. FileAt(ou, p) \in LinksOf(tree)
    BY <1>2, <2>3 DEF LinksOf
  <2> QED BY <1>2, <2>3, <2>4
<1> QED BY <1>3, <1>4

LEMMA LinksLead ==
    ASSUME SInv, OwnFacilities PROVE LinksLeadToShares
<1> SUFFICES ASSUME stage = "done", NEW ou \in DOMAIN shareTrees, NEW f \in LinksOf(shareTrees[ou])
             PROVE  LET p == LinkedPath(shareTrees[ou], f)
                    IN \E i \in DOMAIN realShares :
                          /\ realShares[i].path = ResolveLogical(p)
                          /\ ou = p[1] \/ ou \in Groups(realShares[i].acl)
  BY DEF LinksLeadToShares
<1> DEFINE p == LinkedPath(shareTrees[ou], f)
<1>1. p \in Linked(ou, shares)
  BY LinkedPathFacts
<1> HIDE DEF p
<1>2. PICK s \in ToSet(shares) : s.path = p /\ (s.path[1] = ou \/ ou \in Groups(s.acl))
  BY <1>1 DEF Linked
<1>3. ResolveLogical(p) = Realpath(p)
  BY <1>2, ResolveFacts
<1>4. PICK i \in DOMAIN realShares : /\ realShares[i].path = Realpath(s.path)
                                     /\ Groups(s.acl) \subseteq Groups(realShares[i].acl)
  BY RealShareOf
<1> QED BY <1>2, <1>3, <1>4 DEF p

\* The links of a tree lead to directories that the ACLs are for, and to no others.
THEOREM LinksLeadToSharesCorrect == ASSUME OwnFacilities PROVE Spec => []LinksLeadToShares
<1>1. SInv => LinksLeadToShares
  BY LinksLead
<1> QED BY <1>1, StagesFollow, PTL

LEMMA SharesReachable ==
    ASSUME SInv, OwnFacilities PROVE SharesAreReachable
<1> SUFFICES ASSUME stage = "done", NEW i \in DOMAIN shares, NEW ou \in Groups(shares[i].acl)
             PROVE  /\ \E f \in LinksOf(shareTrees[ou]) :
                          LinkedPath(shareTrees[ou], f) = shares[i].path
                    /\ \A d \in GuardedOnTheWay(shares[i].path) :
                          <<d, ou, "x">> \in Permissions(traversal)
  BY DEF SharesAreReachable
<1>1. shares[i] \in ToSet(shares)
  BY DEF ToSet
<1>2. ou \in DOMAIN shareTrees /\ shares[i].path \in Linked(ou, shares)
  BY <1>1, ForestFacts DEF Linked
<1> QED BY <1>1, <1>2, LinkedPathFacts, WayIsOpen

\* Who is granted a share has a link to it and may pass every directory on the way:
\* the ACL on the share, the traversal ACLs and the tree are of no use alone.
THEOREM SharesAreReachableCorrect == ASSUME OwnFacilities PROVE Spec => []SharesAreReachable
<1>1. SInv => SharesAreReachable
  BY SharesReachable
<1> QED BY <1>1, StagesFollow, PTL
-----------------------------------------------------------------------------
\* What `apply --sharing` makes of the products.

\* The managers of the directory of an org unit manage all that is below it.
LEMMA ManagersBelow ==
    ASSUME NEW r \in RealPath, Len(r) >= TopOf(r), NEW n, IsList(n), IsAbove(r, n)
    PROVE  ManagersOf(n) = ManagersOf(r)
<1>1. PICK k \in 1 .. Len(n) - 1 : r = Prefix(n, k)
  BY DEF IsAbove
<1>2. n \in Seq(ToSet(n)) /\ Len(n) \in Nat
  BY DEF IsList
<1>3. Len(r) = k /\ \A i \in 1 .. k : r[i] = n[i]
  <2>1. k \in Nat /\ 1 =< k /\ k =< Len(n)
    BY <1>2
  <2>2. Len(SubSeq(n, 1, k)) = k /\ \A i \in 1 .. k : SubSeq(n, 1, k)[i] = n[i]
    BY <1>2, <2>1
  <2> QED BY <1>1, <2>2 DEF Prefix
<1>4. r[1] = n[1] /\ r[2] = n[2] /\ (TopOf(r) = 3 => r[3] = n[3])
  <2>1. k >= 2 /\ (TopOf(r) = 3 => k >= 3)
    BY <1>3 DEF TopOf
  <2>2. 1 \in 1 .. k /\ 2 \in 1 .. k /\ (TopOf(r) = 3 => 3 \in 1 .. k)
    BY <1>1, <1>2, <2>1
  <2> QED BY <1>3, <2>2
<1> QED BY <1>4 DEF ManagersOf, IsServiceRealpath, TopOf

\* A real share is not above the directory of an org unit.
LEMMA RealSharesAreDeep ==
    ASSUME SInv, PlainPaths, stage = "done", NEW i \in DOMAIN realShares
    PROVE  realShares[i].path \in RealPath /\ Len(realShares[i].path) >= TopOf(realShares[i].path)
<1>1. PICK s \in ToSet(shares) : realShares[i].path = Realpath(s.path)
  BY RealShareOrigin
<1>2. PICK k \in DOMAIN exps : s.path = exps[k].path /\ s \in Entry
  BY ShareOrigin
<1>3. exps = Compiled /\ cfg \in Configs /\ k \in DOMAIN cfg.exports
  BY CompiledFacts DEF SInv
<1>4. exps[k] = CompileExport(cfg.exports[k]) /\ ~ TooShort(cfg.exports[k].path)
  BY <1>3 DEF SInv, Compiled
<1>5. exps[k].path = cfg.exports[k].path
  BY <1>3, <1>4 DEF PlainPaths, CompileExport
<1>6. s.path \in LogicalPath /\ ~ TooShort(s.path)
  BY <1>2, <1>4, <1>5 DEF Entry
<1> DEFINE p == s.path
           r == Realpath(p)
<1>7. Len(p) \in Nat \ {0}
  BY <1>6, PathFacts
<1>8. /\ r \in RealPath
      /\ IsServiceRealpath(r) <=> IsServicePath(p)
      /\ ~ IsServicePath(p) => Len(r) = Len(p) + 1
      /\ IsServicePath(p) /\ IsFacilityPath(p) => Len(r) = Len(p)
      /\ IsServicePath(p) /\ ~ IsFacilityPath(p) => Len(r) = Len(p) + 1
  BY <1>6, RealpathFacts
<1>9. IsServicePath(p) /\ IsFacilityPath(p) => Len(p) >= 3
  BY <1>6, <1>7 DEF TooShort
<1>10. IsServicePath(p) => Len(p) >= 2
  BY <1>7 DEF IsServicePath
<1> HIDE DEF r, p
<1>11. Len(r) >= TopOf(r)
  BY <1>7, <1>8, <1>9, <1>10 DEF TopOf
<1> QED BY <1>1, <1>8, <1>11 DEF r, p

\* What SharingApply and ShareTrees take for granted of a configuration (their
\* ConfigAssumption): below a real share nobody but its managing groups manages a
\* directory; ACLs name other groups; the file of a tree is in the root of the tree or
\* in a directory of the tree.
MayBeApplied ==
    /\ \A i \in DOMAIN realShares : \A n :
          n = realShares[i].path \/ (IsList(n) /\ IsAbove(realShares[i].path, n)) =>
             /\ ManagersOf(n) \subseteq realShares[i].managing
             /\ \A ou \in Groups(realShares[i].acl) : OuGroup(ou) \notin ManagersOf(n)
    /\ \A t \in Permissions(traversal) : OuGroup(t[2]) \notin ManagersOf(t[1])
    /\ \A ou \in DOMAIN shareTrees : \A f \in DOMAIN shareTrees[ou] :
          /\ IsAbove(Root(ou), f)
          /\ \/ Front(f) = Root(ou)
             \/ Front(f) \in DOMAIN shareTrees[ou] /\ shareTrees[ou][Front(f)] = Directory

LEMMA FilesAreBelowRoot ==
    ASSUME SInv, stage = "done", NEW ou \in DOMAIN shareTrees, NEW f \in DOMAIN shareTrees[ou]
    PROVE  /\ IsAbove(Root(ou), f)
           /\ \/ Front(f) = Root(ou)
              \/ Front(f) \in DOMAIN shareTrees[ou] /\ shareTrees[ou][Front(f)] = Directory
<1>1. PICK p \in Linked(ou, shares) : \E n \in 1 .. Len(p) :
              /\ p \in LogicalPath /\ Len(p) \in Nat
              /\ Len(f) = n + 3 /\ Prefix(f, 3) = <<OrgUnitDir, ou, "shared">>
              /\ Front(f) = FileAt(ou, Prefix(p, n - 1))
  BY TreeFiles
<1>2. PICK n \in 1 .. Len(p) : Len(f) = n + 3 /\ Front(f) = FileAt(ou, Prefix(p, n - 1))
  BY <1>1
<1>3. IsAbove(Root(ou), f)
  <2>1. 3 \in 1 .. Len(f) - 1
    BY <1>1, <1>2
  <2> QED BY <1>1, <2>1 DEF IsAbove, Root
<1>4. CASE Len(f) = 4
  <2>1. n - 1 = 0 /\ n - 1 < 1 /\ n - 1 \in Int
    <3>1. n \in Int
      BY <1>1
    <3>2. n + 3 = 4
      BY <1>2, <1>4
    <3> QED BY <3>1, <3>2
  <2>2. Prefix(p, n - 1) = <<>>
    BY <2>1, SubSeqEmpty DEF Prefix
  <2>3. ou \in TreeNames
    BY ForestFacts
  <2>4. Root(ou) \in Seq(TreeNames)
    BY <2>3 DEF Root, TreeNames
  <2>5. Root(ou) \o <<>> = Root(ou)
    BY <2>4, ConcatEmptySeq
  <2>6. Front(f) = Root(ou)
    BY <1>2, <2>2, <2>5 DEF FileAt
  <2> QED BY <1>3, <2>6
<1>5. CASE Len(f) # 4
  BY <1>3, <1>5, TreesStand DEF TreesAreTrees
<1> QED BY <1>4, <1>5

LEMMA ProductsMayBeApplied ==
    ASSUME SInv, PlainPaths, stage = "done", \A i \in DOMAIN realShares : ~ ByFacility(realShares[i])
    PROVE  MayBeApplied
<1>1. ASSUME NEW i \in DOMAIN realShares, NEW n,
             n = realShares[i].path \/ (IsList(n) /\ IsAbove(realShares[i].path, n))
      PROVE  /\ ManagersOf(n) \subseteq realShares[i].managing
             /\ \A ou \in Groups(realShares[i].acl) : OuGroup(ou) \notin ManagersOf(n)
  <2>1. ManagersOf(n) = ManagersOf(realShares[i].path)
    BY <1>1, RealSharesAreDeep, ManagersBelow
  <2>2. realShares[i].managing = ManagersOf(realShares[i].path)
    BY ManagersAreOfDirectory DEF ManagersOfDirectory
  <2>3. \A ou \in Groups(realShares[i].acl) : OuGroup(ou) \notin ManagersOf(realShares[i].path)
    BY OwnPathsAreScoped
  <2> QED BY <2>1, <2>2, <2>3
<1>2. \A t \in Permissions(traversal) : OuGroup(t[2]) \notin ManagersOf(t[1])
  BY TraversalSpares DEF TraversalSparesManagers
<1> QED BY <1>1, <1>2, FilesAreBelowRoot DEF MayBeApplied

\* Whatever is compiled, from paths without outer slashes and with no export by the path
\* of a facility, is what the models of EnsureRealShares(), EnsureTraversal() and
\* EnsureShareTrees() start from.
THEOREM CompiledMayBeApplied ==
    ASSUME PlainPaths
    PROVE  Spec => [](stage = "done" /\ (\A i \in DOMAIN realShares : ~ ByFacility(realShares[i]))
                         => MayBeApplied)
<1>1. SInv => (stage = "done" /\ (\A i \in DOMAIN realShares : ~ ByFacility(realShares[i]))
                  => MayBeApplied)
  BY ProductsMayBeApplied
<1> QED BY <1>1, StagesFollow, PTL
=============================================================================
