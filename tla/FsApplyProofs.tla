---------------------------- MODULE FsApplyProofs ----------------------------
(***************************************************************************)
(* The program of `bcpfs-perms apply` consists of what `check` expects, and *)
(* what a run has done stays done.                                         *)
(***************************************************************************)
EXTENDS FsApply, FiniteSetTheorems, WellFoundedInduction, TLAPS

-----------------------------------------------------------------------------
\* Sequences.

\* Induction on numbers, for sets of them.
LEMMA SetInduction ==
    ASSUME NEW T \in SUBSET Nat, 0 \in T, \A n \in T : n + 1 \in T
    PROVE  T = Nat
<1> SUFFICES ASSUME Nat \ T # {} PROVE FALSE
  OBVIOUS
<1> DEFINE U == {0 .. n : n \in Nat \ T}
<1>1. U \subseteq FiniteSubsetsOf(Nat)
  <2>1. ASSUME NEW n \in Nat
        PROVE  0 .. n \in FiniteSubsetsOf(Nat)
    <3>1. 0 \in Int /\ n \in Int /\ 0 .. n \subseteq Nat
      OBVIOUS
    <3>2. IsFiniteSet(0 .. n)
      BY <3>1, FS_Interval
    <3> QED BY <3>1, <3>2 DEF FiniteSubsetsOf
  <2> QED BY <2>1
<1>2. U # {}
  OBVIOUS
<1>3. PICK x \in U : \A y \in U : ~ (<<y, x>> \in StrictSubsetOrdering(Nat))
  <2>1. IsWellFoundedOn(StrictSubsetOrdering(Nat), FiniteSubsetsOf(Nat))
    BY FS_StrictSubsetOrderingWellFounded
  <2> HIDE DEF U
  <2> QED BY <1>1, <1>2, <2>1, WFMin
<1>4. PICK n \in Nat \ T : x = 0 .. n
  OBVIOUS
<1>5. n # 0 /\ n - 1 \in Nat
  OBVIOUS
<1>6. n - 1 \notin T
  BY <1>5
<1>7. 0 .. (n - 1) \in U /\ 0 .. (n - 1) \subseteq 0 .. n /\ n \in 0 .. n /\ n \notin 0 .. (n - 1)
  BY <1>5, <1>6
<1>8. <<0 .. (n - 1), 0 .. n>> \in StrictSubsetOrdering(Nat)
  <2> DEFINE a == 0 .. (n - 1)
             b == 0 .. n
  <2>1. a \in SUBSET Nat /\ b \in SUBSET Nat
    BY <1>5
  <2>2. a \subseteq b /\ a # b
    BY <1>7
  <2> HIDE DEF a, b
  <2>3. <<a, b>> \in StrictSubsetOrdering(Nat)
    BY <2>1, <2>2 DEF StrictSubsetOrdering
  <2> QED BY <2>3 DEF a, b
<1> QED BY <1>3, <1>4, <1>7, <1>8

\* part is in t, after the first n elements.
Occurs(part, n, t) ==
    n \in Nat /\ n + Len(part) <= Len(t) /\ \A j \in 1 .. Len(part) : t[n + j] = part[j]

LEMMA Concatenation ==
    ASSUME NEW S, NEW s \in Seq(S), NEW t \in Seq(S)
    PROVE  /\ s \o t \in Seq(S) /\ Len(s \o t) = Len(s) + Len(t)
           /\ \A k \in 1 .. Len(s) : (s \o t)[k] = s[k]
           /\ \A k \in 1 .. Len(t) : (s \o t)[Len(s) + k] = t[k]
           /\ Occurs(s, 0, s \o t) /\ Occurs(t, Len(s), s \o t)
           /\ \A k \in 1 .. Len(s \o t) :
                 k \in 1 .. Len(s) \/ (k - Len(s)) \in 1 .. Len(t)
  BY DEF Occurs

\* FlattenSeq() runs through the parts one after the other.
IsFlat(f, ss, n) == f = [i \in 1 .. n |-> IF i = 1 THEN ss[i] ELSE f[i - 1] \o ss[i]]

LEMMA FlatExists ==
    ASSUME NEW ss, NEW n \in Nat
    PROVE  \E f : IsFlat(f, ss, n)
<1> DEFINE T == {m \in Nat : \E f : IsFlat(f, ss, m)}
<1>1. 0 \in T
  <2> DEFINE f == [i \in 1 .. 0 |-> <<>>]
  <2>1. f = [i \in 1 .. 0 |-> IF i = 1 THEN ss[i] ELSE f[i - 1] \o ss[i]]
    OBVIOUS
  <2>2. IsFlat(f, ss, 0)
    BY <2>1 DEF IsFlat
  <2> QED BY <2>2
<1>2. ASSUME NEW m \in T PROVE m + 1 \in T
  <2>1. PICK f : IsFlat(f, ss, m)
    OBVIOUS
  <2> DEFINE F(i) == IF i = 1 THEN ss[i] ELSE f[i - 1] \o ss[i]
             h == [i \in 1 .. m + 1 |-> F(i)]
  <2>2. \A i \in 1 .. m : f[i] = F(i)
    BY <2>1 DEF IsFlat
  <2>3. \A i \in 1 .. m + 1 : i = 1 \/ i - 1 \in 1 .. m
    OBVIOUS
  <2>4. \A i \in 1 .. m : h[i] = f[i]
    BY <2>2
  <2>5. \A i \in 1 .. m + 1 : F(i) = IF i = 1 THEN ss[i] ELSE h[i - 1] \o ss[i]
    BY <2>3, <2>4
  <2>6. h = [i \in 1 .. m + 1 |-> IF i = 1 THEN ss[i] ELSE h[i - 1] \o ss[i]]
    BY <2>5
  <2> HIDE DEF h
  <2>7. IsFlat(h, ss, m + 1)
    BY <2>6 DEF IsFlat
  <2> QED BY <2>7
<1>3. T = Nat
  <2> HIDE DEF T
  <2>1. T \in SUBSET Nat
    BY DEF T
  <2> QED BY <1>1, <1>2, <2>1, SetInduction
<1> QED BY <1>3

\* t consists of the first n parts.
ConsistsOf(t, ss, n) ==
    /\ \A i \in 1 .. n : \E o \in Nat : Occurs(ss[i], o, t)
    /\ \A k \in 1 .. Len(t) : \E i \in 1 .. n : \E o \in Nat : \E j \in 1 .. Len(ss[i]) :
          Occurs(ss[i], o, t) /\ k = o + j

LEMMA OneMore ==
    ASSUME NEW S, NEW ss \in Seq(Seq(S)), NEW n \in Nat, n + 1 \in 1 .. Len(ss),
           NEW t \in Seq(S), ConsistsOf(t, ss, n)
    PROVE  ConsistsOf(t \o ss[n + 1], ss, n + 1)
<1> DEFINE b == ss[n + 1]
           u == t \o b
<1>1. \A i \in 1 .. n + 1 : ss[i] \in Seq(S)
  OBVIOUS
<1>2. /\ u \in Seq(S) /\ Len(t) \in Nat /\ Len(b) \in Nat /\ Len(u) = Len(t) + Len(b)
      /\ \A k \in 1 .. Len(t) : u[k] = t[k]
      /\ Occurs(b, Len(t), u)
      /\ \A k \in 1 .. Len(u) : k \in 1 .. Len(t) \/ (k - Len(t)) \in 1 .. Len(b)
  BY <1>1, Concatenation
<1> HIDE DEF b, u
<1>3. ASSUME NEW i \in 1 .. n, NEW o \in Nat, Occurs(ss[i], o, t)
      PROVE  Occurs(ss[i], o, u)
  <2>1. Len(ss[i]) \in Nat
    BY <1>1
  <2>2. o + Len(ss[i]) <= Len(t) /\ \A j \in 1 .. Len(ss[i]) : t[o + j] = ss[i][j]
    BY <1>3 DEF Occurs
  <2> DEFINE l == Len(ss[i])
  <2>3. l \in Nat /\ o + l <= Len(t)
    BY <2>1, <2>2
  <2> HIDE DEF l
  <2>4. o + l <= Len(u) /\ \A j \in 1 .. l : o + j \in 1 .. Len(t)
    BY <1>2, <2>3
  <2> QED BY <1>2, <2>2, <2>4 DEF Occurs, l
<1>4. \A i \in 1 .. n + 1 : i \in 1 .. n \/ i = n + 1
  OBVIOUS
<1>5. \A i \in 1 .. n + 1 : \E o \in Nat : Occurs(ss[i], o, u)
  BY <1>2, <1>3, <1>4 DEF ConsistsOf, b
<1>6. ASSUME NEW k \in 1 .. Len(u)
      PROVE  \E i \in 1 .. n + 1 : \E o \in Nat : \E j \in 1 .. Len(ss[i]) :
                Occurs(ss[i], o, u) /\ k = o + j
  <2>1. CASE k \in 1 .. Len(t)
    <3>1. PICK i \in 1 .. n, o \in Nat : \E j \in 1 .. Len(ss[i]) : Occurs(ss[i], o, t) /\ k = o + j
      BY <2>1 DEF ConsistsOf
    <3>2. Occurs(ss[i], o, u) /\ i \in 1 .. n + 1
      BY <1>3, <3>1
    <3> QED BY <3>1, <3>2
  <2>2. CASE (k - Len(t)) \in 1 .. Len(b)
    <3>1. k = Len(t) + (k - Len(t)) /\ n + 1 \in 1 .. n + 1
      BY <1>2
    <3> QED BY <1>2, <2>2, <3>1 DEF b
  <2> QED BY <1>2, <2>1, <2>2
<1>7. ConsistsOf(u, ss, n + 1)
  BY <1>5, <1>6 DEF ConsistsOf
<1> QED BY <1>7 DEF u, b

LEMMA FlattenFacts ==
    ASSUME NEW S, NEW ss \in Seq(Seq(S))
    PROVE  FlattenSeq(ss) \in Seq(S) /\ ConsistsOf(FlattenSeq(ss), ss, Len(ss))
<1>1. Len(ss) \in Nat /\ DOMAIN ss = 1 .. Len(ss) /\ \A i \in DOMAIN ss : ss[i] \in Seq(S)
  OBVIOUS
<1>2. CASE Len(ss) = 0
  <2>1. FlattenSeq(ss) = ss /\ ss = <<>>
    BY <1>2 DEF FlattenSeq
  <2> QED BY <2>1 DEF ConsistsOf
<1>3. CASE Len(ss) # 0
  <2> DEFINE f == CHOOSE f : IsFlat(f, ss, Len(ss))
  <2>1. FlattenSeq(ss) = f[Len(ss)]
    BY <1>3 DEF FlattenSeq, IsFlat
  <2>2. IsFlat(f, ss, Len(ss))
    BY <1>1, FlatExists
  <2>3. \A i \in 1 .. Len(ss) : f[i] = IF i = 1 THEN ss[i] ELSE f[i - 1] \o ss[i]
    BY <2>2 DEF IsFlat
  <2> HIDE DEF f
  <2> DEFINE Good(n) == f[n] \in Seq(S) /\ ConsistsOf(f[n], ss, n)
             T == {n \in Nat : n + 1 \in 1 .. Len(ss) => Good(n + 1)}
  <2>4. 0 \in T
    <3>1. f[1] = ss[1] /\ ss[1] \in Seq(S)
      BY <1>1, <1>3, <2>3
    <3>2. Occurs(ss[1], 0, ss[1]) /\ Len(ss[1]) \in Nat
      BY <3>1 DEF Occurs
    <3>3. ConsistsOf(ss[1], ss, 1)
      BY <3>2 DEF ConsistsOf
    <3>4. 0 + 1 = 1
      OBVIOUS
    <3>5. Good(0 + 1)
      BY <3>1, <3>3, <3>4
    <3> HIDE DEF Good
    <3> QED BY <3>5
  <2>5. ASSUME NEW n \in T PROVE n + 1 \in T
    <3>1. ASSUME n + 1 + 1 \in 1 .. Len(ss) PROVE Good(n + 1 + 1)
      <4> DEFINE m == n + 1
      <4>1. m \in Nat /\ m \in 1 .. Len(ss) /\ Good(m)
        BY <1>1, <3>1
      <4>2. f[m + 1] = f[m] \o ss[m + 1]
        <5>1. m + 1 \in 1 .. Len(ss) /\ m + 1 # 1 /\ (m + 1) - 1 = m
          BY <3>1, <4>1
        <5> HIDE DEF m
        <5> QED BY <2>3, <5>1
      <4>3. ss[m + 1] \in Seq(S)
        BY <1>1, <3>1
      <4> HIDE DEF m
      <4>4. m + 1 \in 1 .. Len(ss)
        BY <3>1 DEF m
      <4>5. ConsistsOf(f[m] \o ss[m + 1], ss, m + 1)
        BY <4>1, <4>4, OneMore
      <4>6. f[m] \o ss[m + 1] \in Seq(S)
        BY <4>1, <4>3
      <4>7. Good(m + 1)
        BY <4>2, <4>5, <4>6
      <4> QED BY <4>7 DEF m
    <3> HIDE DEF Good
    <3> QED BY <3>1
  <2>6. T = Nat
    <3> HIDE DEF T
    <3>1. T \in SUBSET Nat
      BY DEF T
    <3> QED BY <2>4, <2>5, <3>1, SetInduction
  <2>7. Good(Len(ss))
    <3> HIDE DEF Good
    <3>1. Len(ss) - 1 \in T /\ (Len(ss) - 1) + 1 = Len(ss) /\ Len(ss) \in 1 .. Len(ss)
      <4>1. Len(ss) - 1 \in Nat
        BY <1>1, <1>3
      <4> HIDE DEF T
      <4> QED BY <1>1, <2>6, <4>1
    <3> QED BY <3>1
  <2> QED BY <2>1, <2>7
<1> QED BY <1>2, <1>3

-----------------------------------------------------------------------------
\* Programs.

Making(p, group) == [kind |-> "mkdir", path |-> p, group |-> group]
Modifying(p, gs, perms, default) ==
    [kind |-> "modify", path |-> p, groups |-> gs, perms |-> perms, default |-> default]
Removing(p, gs) == [kind |-> "remove", path |-> p, groups |-> gs]
Linking(p, target) == [kind |-> "link", path |-> p, target |-> target]

\* The directories that are made before an operation.
MadeBefore(ops, i) == {ops[k].path : k \in {j \in 1 .. i - 1 : ops[j].kind = "mkdir"}}
MadeBy(ops) == MadeBefore(ops, Len(ops) + 1)

\* An operation on a directory comes after the one that makes it, and that one after the one
\* for its parent.
HasBase(op, made) ==
    /\ op.kind = "mkdir" => Len(op.path) = 1 \/ Parent(op.path) \in made
    /\ op.kind \in {"modify", "remove"} => op.path \in made
Grounded(ops, made) ==
    \A i \in 1 .. Len(ops) : HasBase(ops[i], made \cup MadeBefore(ops, i))

LEMMA PartIsGrounded ==
    ASSUME NEW S, NEW part \in Seq(S), NEW t \in Seq(S), NEW n, Occurs(part, n, t),
           NEW made, Grounded(part, made), NEW before, made \subseteq before \cup MadeBefore(t, n + 1),
           NEW j \in 1 .. Len(part)
    PROVE  HasBase(t[n + j], before \cup MadeBefore(t, n + j))
<1>1. n \in Nat /\ Len(part) \in Nat /\ t[n + j] = part[j]
  BY DEF Occurs
<1>2. HasBase(part[j], made \cup MadeBefore(part, j))
  BY DEF Grounded
<1>3. MadeBefore(part, j) \subseteq MadeBefore(t, n + j)
  <2> SUFFICES ASSUME NEW k \in 1 .. j - 1, part[k].kind = "mkdir"
               PROVE  part[k].path \in MadeBefore(t, n + j)
    BY DEF MadeBefore
  <2>1. k \in 1 .. Len(part) /\ n + k \in 1 .. (n + j) - 1
    BY <1>1
  <2>2. t[n + k] = part[k]
    BY <2>1 DEF Occurs
  <2> QED BY <2>1, <2>2 DEF MadeBefore
<1>4. MadeBefore(t, n + 1) \subseteq MadeBefore(t, n + j)
  <2>1. \A k \in 1 .. (n + 1) - 1 : k \in 1 .. (n + j) - 1
    BY <1>1
  <2> QED BY <2>1 DEF MadeBefore
<1> QED BY <1>1, <1>2, <1>3, <1>4 DEF HasBase

LEMMA ElementsOf ==
    ASSUME NEW S, NEW t \in Seq(S)
    PROVE  /\ Elements(t) = {t[k] : k \in 1 .. Len(t)} /\ Elements(t) \subseteq S
           /\ MadeBy(t) = {op.path : op \in {o \in Elements(t) : o.kind = "mkdir"}}
<1>1. DOMAIN t = 1 .. Len(t) /\ Len(t) \in Nat /\ \A k \in 1 .. Len(t) : t[k] \in S
  OBVIOUS
<1>2. (Len(t) + 1) - 1 = Len(t)
  BY <1>1
<1> QED BY <1>1, <1>2 DEF Elements, MadeBy, MadeBefore

LEMMA ConcatenationOps ==
    ASSUME NEW S, NEW s \in Seq(S), NEW t \in Seq(S)
    PROVE  /\ s \o t \in Seq(S) /\ Elements(s \o t) = Elements(s) \cup Elements(t)
           /\ \A made : Grounded(s, made) /\ Grounded(t, made \cup MadeBy(s))
                           => Grounded(s \o t, made)
<1> DEFINE u == s \o t
<1>1. /\ u \in Seq(S) /\ Len(u) = Len(s) + Len(t) /\ Len(s) \in Nat /\ Len(t) \in Nat
      /\ \A k \in 1 .. Len(s) : u[k] = s[k]
      /\ \A k \in 1 .. Len(t) : u[Len(s) + k] = t[k]
      /\ Occurs(s, 0, u) /\ Occurs(t, Len(s), u)
      /\ \A k \in 1 .. Len(u) : k \in 1 .. Len(s) \/ (k - Len(s)) \in 1 .. Len(t)
  BY Concatenation
<1> HIDE DEF u
<1>2. \A k \in 1 .. Len(s) : k \in 1 .. Len(u)
  BY <1>1
<1>3. \A k \in 1 .. Len(t) : Len(s) + k \in 1 .. Len(u)
  BY <1>1
<1>4. \A k \in 1 .. Len(u) : k = Len(s) + (k - Len(s))
  BY <1>1
<1>5. /\ Elements(u) = {u[k] : k \in 1 .. Len(u)} /\ Elements(s) = {s[k] : k \in 1 .. Len(s)}
      /\ Elements(t) = {t[k] : k \in 1 .. Len(t)}
  BY <1>1, ElementsOf
<1>6. Elements(u) = Elements(s) \cup Elements(t)
  <2>1. \A x \in Elements(u) : x \in Elements(s) \cup Elements(t)
    BY <1>1, <1>4, <1>5
  <2>2. \A x \in Elements(s) : x \in Elements(u)
    BY <1>1, <1>2, <1>5
  <2>3. \A x \in Elements(t) : x \in Elements(u)
    BY <1>1, <1>3, <1>5
  <2> QED BY <2>1, <2>2, <2>3
<1>7. ASSUME NEW made, Grounded(s, made), Grounded(t, made \cup MadeBy(s)), NEW k \in 1 .. Len(u)
      PROVE  HasBase(u[k], made \cup MadeBefore(u, k))
  <2>1. CASE k \in 1 .. Len(s)
    <3>1. 0 + k = k
      OBVIOUS
    <3>2. HasBase(u[0 + k], made \cup MadeBefore(u, 0 + k))
      BY <1>1, <1>7, <2>1, PartIsGrounded
    <3> QED BY <3>1, <3>2
  <2>2. CASE (k - Len(s)) \in 1 .. Len(t)
    <3>1. MadeBy(s) \subseteq MadeBefore(u, Len(s) + 1)
      <4>1. \A j \in 1 .. (Len(s) + 1) - 1 : j \in 1 .. Len(s)
        BY <1>1
      <4> QED BY <1>1, <4>1 DEF MadeBy, MadeBefore
    <3>2. HasBase(u[Len(s) + (k - Len(s))], made \cup MadeBefore(u, Len(s) + (k - Len(s))))
      <4> DEFINE j == k - Len(s)
                 m == made \cup MadeBy(s)
      <4>1. Grounded(t, m) /\ m \subseteq made \cup MadeBefore(u, Len(s) + 1)
        BY <1>7, <3>1
      <4>2. j \in 1 .. Len(t)
        BY <2>2
      <4>3. t \in Seq(S) /\ u \in Seq(S) /\ Occurs(t, Len(s), u)
        BY <1>1
      <4> HIDE DEF j, m
      <4>4. HasBase(u[Len(s) + j], made \cup MadeBefore(u, Len(s) + j))
        BY <4>1, <4>2, <4>3, PartIsGrounded
      <4> QED BY <4>4 DEF j
    <3> QED BY <1>4, <3>2
  <2> QED BY <1>1, <2>1, <2>2
<1>8. \A made : Grounded(s, made) /\ Grounded(t, made \cup MadeBy(s)) => Grounded(u, made)
  BY <1>7 DEF Grounded
<1> QED BY <1>1, <1>6, <1>8 DEF u

LEMMA FlattenOps ==
    ASSUME NEW S, NEW n \in Nat, NEW ss, DOMAIN ss = 1 .. n, ss \in Seq(Seq(S))
    PROVE  /\ FlattenSeq(ss) \in Seq(S)
           /\ Elements(FlattenSeq(ss)) = UNION {Elements(ss[i]) : i \in 1 .. n}
           /\ \A made : (\A i \in 1 .. n : Grounded(ss[i], made)) => Grounded(FlattenSeq(ss), made)
<1> DEFINE t == FlattenSeq(ss)
<1>1. t \in Seq(S) /\ ConsistsOf(t, ss, n) /\ Len(ss) = n
  <2>1. Len(ss) = n
    OBVIOUS
  <2> QED BY <2>1, FlattenFacts
<1> HIDE DEF t
<1>2. \A i \in 1 .. n : ss[i] \in Seq(S) /\ Len(ss[i]) \in Nat
  OBVIOUS
<1>3. Len(t) \in Nat /\ Elements(t) = {t[k] : k \in 1 .. Len(t)}
  BY <1>1, ElementsOf
<1>4. ASSUME NEW x \in Elements(t) PROVE \E i \in 1 .. n : x \in Elements(ss[i])
  <2>1. PICK k \in 1 .. Len(t) : x = t[k]
    BY <1>3
  <2>2. PICK i \in 1 .. n, o \in Nat : \E j \in 1 .. Len(ss[i]) : Occurs(ss[i], o, t) /\ k = o + j
    BY <1>1 DEF ConsistsOf
  <2>3. PICK j \in 1 .. Len(ss[i]) : x = ss[i][j]
    BY <2>1, <2>2 DEF Occurs
  <2>4. Elements(ss[i]) = {ss[i][l] : l \in 1 .. Len(ss[i])}
    BY <1>2, ElementsOf
  <2> QED BY <2>3, <2>4
<1>5. ASSUME NEW i \in 1 .. n, NEW x \in Elements(ss[i]) PROVE x \in Elements(t)
  <2>1. PICK j \in 1 .. Len(ss[i]) : x = ss[i][j]
    BY <1>2, ElementsOf
  <2>2. PICK o \in Nat : Occurs(ss[i], o, t)
    BY <1>1 DEF ConsistsOf
  <2>3. o + j \in 1 .. Len(t) /\ t[o + j] = x
    <3>1. o + Len(ss[i]) <= Len(t) /\ t[o + j] = ss[i][j]
      BY <2>2 DEF Occurs
    <3> DEFINE l == Len(ss[i])
    <3>2. l \in Nat /\ o + l <= Len(t) /\ j \in 1 .. l
      BY <1>2, <3>1
    <3> HIDE DEF l
    <3>3. o + j \in 1 .. Len(t)
      BY <1>3, <3>2
    <3> QED BY <2>1, <3>1, <3>3
  <2> QED BY <1>3, <2>3
<1>6. Elements(t) = UNION {Elements(ss[i]) : i \in 1 .. n}
  BY <1>4, <1>5
<1>7. ASSUME NEW made, \A i \in 1 .. n : Grounded(ss[i], made), NEW k \in 1 .. Len(t)
      PROVE  HasBase(t[k], made \cup MadeBefore(t, k))
  <2>1. PICK i \in 1 .. n, o \in Nat : \E j \in 1 .. Len(ss[i]) : Occurs(ss[i], o, t) /\ k = o + j
    BY <1>1 DEF ConsistsOf
  <2>2. PICK j \in 1 .. Len(ss[i]) : k = o + j
    BY <2>1
  <2>3. Grounded(ss[i], made) /\ made \subseteq made \cup MadeBefore(t, o + 1)
    BY <1>7
  <2>4. HasBase(t[o + j], made \cup MadeBefore(t, o + j))
    BY <1>1, <1>2, <2>1, <2>3, PartIsGrounded
  <2> QED BY <2>2, <2>4
<1>8. \A made : (\A i \in 1 .. n : Grounded(ss[i], made)) => Grounded(t, made)
  BY <1>7 DEF Grounded
<1> QED BY <1>1, <1>6, <1>8 DEF t

\* A list of things.
IsList(t) == t \in Seq(Elements(t))

\* A program with these operations, given these directories.
Performs(t, ops, made) == IsList(t) /\ Elements(t) = ops /\ Grounded(t, made)

LEMMA MoreIsMade ==
    ASSUME NEW t, NEW made, NEW more, Grounded(t, made), made \subseteq more
    PROVE  Grounded(t, more)
<1> SUFFICES ASSUME NEW i \in 1 .. Len(t)
             PROVE  HasBase(t[i], more \cup MadeBefore(t, i))
  BY DEF Grounded
<1>1. HasBase(t[i], made \cup MadeBefore(t, i))
  BY DEF Grounded
<1> QED BY <1>1 DEF HasBase

\* The paths of the directories that operations make.
Makes(ops) == {op.path : op \in {o \in ops : o.kind = "mkdir"}}

LEMMA OneOperation ==
    ASSUME NEW op, NEW made, HasBase(op, made)
    PROVE  Performs(<<op>>, {op}, made)
<1>1. <<op>> \in Seq({op}) /\ Len(<<op>>) = 1 /\ <<op>>[1] = op
  OBVIOUS
<1>2. Elements(<<op>>) = {op}
  BY DEF Elements
<1>3. Grounded(<<op>>, made)
  <2>1. \A i \in 1 .. Len(<<op>>) : i = 1
    BY <1>1
  <2>2. HasBase(<<op>>[1], made \cup MadeBefore(<<op>>, 1))
    BY <1>1 DEF HasBase
  <2> QED BY <2>1, <2>2 DEF Grounded
<1> QED BY <1>1, <1>2, <1>3 DEF Performs, IsList

LEMMA NoOperation ==
    ASSUME NEW made
    PROVE  Performs(<<>>, {}, made)
<1>1. <<>> \in Seq({}) /\ Len(<<>>) = 0
  OBVIOUS
<1>2. Elements(<<>>) = {}
  BY DEF Elements
<1>3. Grounded(<<>>, made)
  BY <1>1 DEF Grounded
<1> QED BY <1>1, <1>2, <1>3 DEF Performs, IsList

LEMMA FirstThen ==
    ASSUME NEW s, NEW ops, NEW t, NEW ops2, NEW made, Performs(s, ops, made),
           Performs(t, ops2, made \cup Makes(ops))
    PROVE  Performs(s \o t, ops \cup ops2, made)
<1> DEFINE S == ops \cup ops2
<1>1. s \in Seq(S) /\ t \in Seq(S)
  <2>1. \A A, B : A \subseteq B => Seq(A) \subseteq Seq(B)
    OBVIOUS
  <2> QED BY <2>1 DEF Performs, IsList
<1>2. /\ Elements(s \o t) = Elements(s) \cup Elements(t) /\ s \o t \in Seq(S)
      /\ \A m : Grounded(s, m) /\ Grounded(t, m \cup MadeBy(s)) => Grounded(s \o t, m)
  BY <1>1, ConcatenationOps
<1>3. MadeBy(s) = Makes(ops)
  <2>1. MadeBy(s) = {op.path : op \in {o \in Elements(s) : o.kind = "mkdir"}}
    BY <1>1, ElementsOf
  <2> QED BY <2>1 DEF Performs, Makes
<1> QED BY <1>2, <1>3 DEF Performs, IsList

\* A loop runs the programs of all elements.
LEMMA Loop ==
    ASSUME NEW list, IsList(list), NEW F, NEW G, NEW made,
           \A x \in Elements(list) : Performs(F[x], G[x], made)
    PROVE  Performs(FlattenSeq([i \in DOMAIN list |-> F[list[i]]]),
                    UNION {G[x] : x \in Elements(list)}, made)
<1> DEFINE S == UNION {G[x] : x \in Elements(list)}
           n == Len(list)
           ss == [i \in DOMAIN list |-> F[list[i]]]
<1>1. n \in Nat /\ DOMAIN list = 1 .. n /\ Elements(list) = {list[i] : i \in 1 .. n}
  BY ElementsOf DEF IsList
<1>2. \A A, B : A \subseteq B => Seq(A) \subseteq Seq(B)
  OBVIOUS
<1>3. ASSUME NEW i \in 1 .. n PROVE ss[i] \in Seq(S) /\ Elements(ss[i]) = G[list[i]] /\ Grounded(ss[i], made)
  <2>1. list[i] \in Elements(list) /\ ss[i] = F[list[i]]
    BY <1>1
  <2>2. Performs(F[list[i]], G[list[i]], made) /\ G[list[i]] \subseteq S
    BY <2>1
  <2> QED BY <1>2, <2>1, <2>2 DEF Performs, IsList
<1>4. ss \in [1 .. n -> Seq(S)] /\ DOMAIN ss = 1 .. n
  BY <1>1, <1>3
<1> HIDE DEF ss, n
<1>5. ss \in Seq(Seq(S))
  BY <1>1, <1>4
<1>6. /\ FlattenSeq(ss) \in Seq(S)
      /\ Elements(FlattenSeq(ss)) = UNION {Elements(ss[i]) : i \in 1 .. n}
      /\ \A m : (\A i \in 1 .. n : Grounded(ss[i], m)) => Grounded(FlattenSeq(ss), m)
  BY <1>1, <1>4, <1>5, FlattenOps
<1>7. UNION {Elements(ss[i]) : i \in 1 .. n} = S
  <2>1. \A i \in 1 .. n : Elements(ss[i]) = G[list[i]] /\ list[i] \in Elements(list)
    BY <1>1, <1>3
  <2>2. \A x \in Elements(list) : \E i \in 1 .. n : x = list[i]
    BY <1>1
  <2> QED BY <2>1, <2>2
<1>8. Performs(FlattenSeq(ss), S, made)
  BY <1>3, <1>6, <1>7 DEF Performs, IsList
<1> QED BY <1>8 DEF ss

-----------------------------------------------------------------------------
\* Paths.

LEMMA ParentFacts ==
    ASSUME NEW S, NEW q \in Seq(S), q # <<>>
    PROVE  /\ Parent(q) \in Seq(S) /\ Len(Parent(q)) = Len(q) - 1
           /\ \A i \in 1 .. Len(q) - 1 : Parent(q)[i] = q[i]
  BY DEF Parent, Prefix

LEMMA ParentOf ==
    /\ \A a, b : Parent(<<a, b>>) = <<a>>
    /\ \A a, b, c : Parent(<<a, b, c>>) = <<a, b>>
<1>1. ASSUME NEW S, NEW q \in Seq(S), Len(q) = 2 PROVE Parent(q) = <<q[1]>>
  <2> DEFINE r == Parent(q)
  <2>1. r \in Seq(S) /\ Len(r) = 1 /\ r[1] = q[1]
    <3>1. q # <<>>
      BY <1>1
    <3>2. r \in Seq(S) /\ Len(r) = Len(q) - 1 /\ \A i \in 1 .. Len(q) - 1 : r[i] = q[i]
      BY <3>1, ParentFacts
    <3> HIDE DEF r
    <3> DEFINE l == Len(q) - 1
    <3>3. l = 1
      BY <1>1
    <3>4. r \in Seq(S) /\ Len(r) = l /\ \A i \in 1 .. l : r[i] = q[i]
      BY <3>2
    <3> HIDE DEF l
    <3> QED BY <3>3, <3>4
  <2> HIDE DEF r
  <2>2. r = <<q[1]>>
    BY <2>1
  <2> QED BY <2>2 DEF r
<1>2. ASSUME NEW S, NEW q \in Seq(S), Len(q) = 3 PROVE Parent(q) = <<q[1], q[2]>>
  <2> DEFINE r == Parent(q)
  <2>1. r \in Seq(S) /\ Len(r) = 2 /\ r[1] = q[1] /\ r[2] = q[2]
    <3>1. q # <<>>
      BY <1>2
    <3>2. r \in Seq(S) /\ Len(r) = Len(q) - 1 /\ \A i \in 1 .. Len(q) - 1 : r[i] = q[i]
      BY <3>1, ParentFacts
    <3> HIDE DEF r
    <3> DEFINE l == Len(q) - 1
    <3>3. l = 2
      BY <1>2
    <3>4. r \in Seq(S) /\ Len(r) = l /\ \A i \in 1 .. l : r[i] = q[i]
      BY <3>2
    <3> HIDE DEF l
    <3> QED BY <3>3, <3>4
  <2> HIDE DEF r
  <2>2. r = <<q[1], q[2]>>
    BY <2>1
  <2> QED BY <2>2 DEF r
<1>3. ASSUME NEW a, NEW b PROVE Parent(<<a, b>>) = <<a>>
  <2>1. /\ <<a, b>> \in Seq({a, b}) /\ Len(<<a, b>>) = 2 /\ <<a, b>>[1] = a
    OBVIOUS
  <2>2. Parent(<<a, b>>) = <<<<a, b>>[1]>>
    BY <1>1, <2>1
  <2> QED BY <2>1, <2>2
<1>4. ASSUME NEW a, NEW b, NEW c PROVE Parent(<<a, b, c>>) = <<a, b>>
  <2>1. /\ <<a, b, c>> \in Seq({a, b, c}) /\ Len(<<a, b, c>>) = 3
        /\ <<a, b, c>>[1] = a /\ <<a, b, c>>[2] = b
    OBVIOUS
  <2>2. Parent(<<a, b, c>>) = <<<<a, b, c>>[1], <<a, b, c>>[2]>>
    BY <1>2, <2>1
  <2> QED BY <2>1, <2>2
<1> QED BY <1>3, <1>4
-----------------------------------------------------------------------------
\* The parts of EnsurePermissions().

\* There is a directory for p.
HasParent(p, made) == Len(p) = 1 \/ Parent(p) \in made

LEMMA DirParts ==
    ASSUME NEW p, NEW group, NEW gs, NEW perms, NEW default, NEW gs2, NEW made,
           HasParent(p, made)
    PROVE  /\ Performs(MkdirOp(p, group), {Making(p, group)}, made)
           /\ Performs(MkdirOp(p, group) \o ModifyOp(p, gs, perms, default),
                       {Making(p, group), Modifying(p, gs, perms, default)}, made)
           /\ Performs(MkdirOp(p, group) \o ModifyOp(p, gs, perms, default) \o RemoveOp(p, gs2),
                       {Making(p, group), Modifying(p, gs, perms, default), Removing(p, gs2)}, made)
<1> DEFINE a == Making(p, group)
           b == Modifying(p, gs, perms, default)
           c == Removing(p, gs2)
<1>1. /\ MkdirOp(p, group) = <<a>> /\ ModifyOp(p, gs, perms, default) = <<b>>
      /\ RemoveOp(p, gs2) = <<c>>
  BY DEF MkdirOp, ModifyOp, RemoveOp, Making, Modifying, Removing
<1>2. /\ a.kind = "mkdir" /\ a.path = p /\ b.kind = "modify" /\ b.path = p
      /\ c.kind = "remove" /\ c.path = p
  BY DEF Making, Modifying, Removing
<1> HIDE DEF a, b, c
<1>3. Makes({a}) = {p} /\ p \in Makes({a} \cup {b})
  BY <1>2 DEF Makes
<1>4. HasBase(a, made)
  BY <1>2 DEF HasBase, HasParent
<1>5. HasBase(b, made \cup Makes({a})) /\ HasBase(c, made \cup Makes({a} \cup {b}))
  BY <1>2, <1>3 DEF HasBase
<1>6. Performs(<<a>>, {a}, made)
  BY <1>4, OneOperation
<1>7. Performs(<<b>>, {b}, made \cup Makes({a}))
  BY <1>5, OneOperation
<1>8. Performs(<<c>>, {c}, made \cup Makes({a} \cup {b}))
  BY <1>5, OneOperation
<1>9. Performs(<<a>> \o <<b>>, {a} \cup {b}, made)
  BY <1>6, <1>7, FirstThen
<1>10. Performs((<<a>> \o <<b>>) \o <<c>>, ({a} \cup {b}) \cup {c}, made)
  BY <1>8, <1>9, FirstThen
<1>11. {a} \cup {b} = {a, b} /\ ({a} \cup {b}) \cup {c} = {a, b, c}
  OBVIOUS
<1> QED BY <1>1, <1>6, <1>9, <1>10, <1>11 DEF a, b, c

\* What is done for a directory that `check` expects.
DirOps(e) ==
    {Making(e.path, e.group)}
    \cup (IF e.compared = {} THEN {}
          ELSE {Modifying(e.path, DOMAIN e.acl.named, e.acl.mask, e.dfl.mask)})
    \cup (IF e.compared = DOMAIN e.acl.named THEN {}
          ELSE {Removing(e.path, e.compared \ DOMAIN e.acl.named)})

LEMMA DirOpsOf ==
    ASSUME NEW p, NEW group, NEW gs, NEW compared, NEW perms, NEW default
    PROVE  /\ DOMAIN DirEntry(p, group, gs, compared, perms, default).acl.named = gs
           /\ DirOps(DirEntry(p, group, gs, compared, perms, default))
                = {Making(p, group)}
                  \cup (IF compared = {} THEN {} ELSE {Modifying(p, gs, perms, default)})
                  \cup (IF compared = gs THEN {} ELSE {Removing(p, compared \ gs)})
  BY DEF DirOps, DirEntry, Acl, Entries

LEMMA GroupsDiffer ==
    ASSUME NEW s, NEW ou
    PROVE  /\ SuperGroup \notin {ServiceGroup(s), OpsGroup(s), OuGroup(ou)}
           /\ ServiceGroup(s) # OuGroup(ou) /\ OpsGroup(s) # OuGroup(ou)
           /\ ServiceGroup(s) # OpsGroup(s)
<1>1. SuperGroup # ServiceGroup(s) /\ SuperGroup # OpsGroup(s) /\ SuperGroup # OuGroup(ou)
  BY DEF ServiceGroup, OpsGroup, OuGroup, SuperGroup
<1>2. /\ ServiceGroup(s) # OuGroup(ou) /\ OpsGroup(s) # OuGroup(ou)
      /\ ServiceGroup(s) # OpsGroup(s)
  BY DEF ServiceGroup, OpsGroup, OuGroup
<1> QED BY <1>1, <1>2

LEMMA RootPart ==
    ASSUME NEW p, Len(p) = 1, NEW made
    PROVE  Performs(MkdirOp(p, RootGroup), DirOps(RootEntry(p)), made)
<1>1. DirOps(RootEntry(p)) = {Making(p, RootGroup)}
  BY DirOpsOf DEF RootEntry
<1>2. HasParent(p, made)
  BY DEF HasParent
<1> QED BY <1>1, <1>2, DirParts

LEMMA ServicePart ==
    ASSUME NEW s, s.access \in {"perService", "allOrgUnits"}, NEW made, SrvRoot \in made
    PROVE  Performs(ServiceOps(s), DirOps(ServiceEntry(s)), made)
<1> DEFINE own == {ServiceGroup(s), OpsGroup(s)}
           gs == IF s.access = "allOrgUnits" THEN {SuperGroup} ELSE own
           all == own \cup {SuperGroup}
           p == ServicePath(s)
<1>1. HasParent(p, made)
  BY ParentOf DEF HasParent, ServicePath, SrvRoot
<1>2. all # {} /\ all # gs
  BY GroupsDiffer
<1>3. ServiceEntry(s) = DirEntry(p, ServiceGroup(s), gs, all, RX, RX)
  BY DEF ServiceEntry
<1>4. ServiceOps(s) = MkdirOp(p, ServiceGroup(s)) \o ModifyOp(p, gs, RX, RX) \o RemoveOp(p, all \ gs)
  BY DEF ServiceOps
<1> HIDE DEF all, gs, p
<1>5. DirOps(ServiceEntry(s)) = {Making(p, ServiceGroup(s)), Modifying(p, gs, RX, RX), Removing(p, all \ gs)}
  <2>1. DirOps(ServiceEntry(s))
          = {Making(p, ServiceGroup(s))}
            \cup (IF all = {} THEN {} ELSE {Modifying(p, gs, RX, RX)})
            \cup (IF all = gs THEN {} ELSE {Removing(p, all \ gs)})
    BY <1>3, DirOpsOf
  <2> QED BY <1>2, <2>1
<1>6. Performs(MkdirOp(p, ServiceGroup(s)) \o ModifyOp(p, gs, RX, RX) \o RemoveOp(p, all \ gs),
               {Making(p, ServiceGroup(s)), Modifying(p, gs, RX, RX), Removing(p, all \ gs)}, made)
  BY <1>1, DirParts
<1> QED BY <1>4, <1>5, <1>6

LEMMA SouPart ==
    ASSUME NEW s, NEW ou, NEW made, ServicePath(s) \in made
    PROVE  Performs(SouOps(s, ou), DirOps(SouEntry(s, ou)), made)
<1> DEFINE gs == {OuGroup(ou), OpsGroup(s)}
           gs2 == {ServiceGroup(s), SuperGroup}
           p == SouPath(s, ou)
<1>1. HasParent(p, made)
  BY ParentOf DEF HasParent, ServicePath, SouPath
<1>2. gs \cup gs2 # {} /\ gs \cup gs2 # gs /\ (gs \cup gs2) \ gs = gs2
  BY GroupsDiffer
<1>3. SouEntry(s, ou) = DirEntry(p, OuGroup(ou), gs, gs \cup gs2, RWX, RWX)
  BY DEF SouEntry
<1>4. SouOps(s, ou) = MkdirOp(p, OuGroup(ou)) \o ModifyOp(p, gs, RWX, RWX) \o RemoveOp(p, gs2)
  BY DEF SouOps
<1> HIDE DEF gs, gs2, p
<1>5. DirOps(SouEntry(s, ou)) = {Making(p, OuGroup(ou)), Modifying(p, gs, RWX, RWX), Removing(p, gs2)}
  <2> DEFINE all == gs \cup gs2
  <2>1. DirOps(DirEntry(p, OuGroup(ou), gs, all, RWX, RWX))
          = {Making(p, OuGroup(ou))}
            \cup (IF all = {} THEN {} ELSE {Modifying(p, gs, RWX, RWX)})
            \cup (IF all = gs THEN {} ELSE {Removing(p, all \ gs)})
    BY DirOpsOf
  <2> QED BY <1>2, <1>3, <2>1
<1>6. Performs(MkdirOp(p, OuGroup(ou)) \o ModifyOp(p, gs, RWX, RWX) \o RemoveOp(p, gs2),
               {Making(p, OuGroup(ou)), Modifying(p, gs, RWX, RWX), Removing(p, gs2)}, made)
  BY <1>1, DirParts
<1> QED BY <1>4, <1>5, <1>6

LEMMA OuDirPart ==
    ASSUME NEW p, NEW ou, NEW perms, NEW default, NEW made, HasParent(p, made)
    PROVE  Performs(MkdirOp(p, OuGroup(ou)) \o ModifyOp(p, {OuGroup(ou)}, perms, default),
                    DirOps(OuDirEntry(p, ou, perms, default)), made)
<1> DEFINE gs == {OuGroup(ou)}
<1>1. gs # {}
  OBVIOUS
<1>2. OuDirEntry(p, ou, perms, default) = DirEntry(p, OuGroup(ou), gs, gs, perms, default)
  BY DEF OuDirEntry
<1> HIDE DEF gs
<1>3. DirOps(OuDirEntry(p, ou, perms, default)) = {Making(p, OuGroup(ou)), Modifying(p, gs, perms, default)}
  <2>1. \A all : DirOps(DirEntry(p, OuGroup(ou), gs, all, perms, default))
          = {Making(p, OuGroup(ou))}
            \cup (IF all = {} THEN {} ELSE {Modifying(p, gs, perms, default)})
            \cup (IF all = gs THEN {} ELSE {Removing(p, all \ gs)})
    BY DirOpsOf
  <2> QED BY <1>1, <1>2, <2>1
<1>4. Performs(MkdirOp(p, OuGroup(ou)) \o ModifyOp(p, gs, perms, default),
               {Making(p, OuGroup(ou)), Modifying(p, gs, perms, default)}, made)
  BY DirParts
<1> QED BY <1>3, <1>4 DEF gs

LEMMA SubdirPart ==
    ASSUME NEW ou, NEW d, d.policy \in {"group", "owner", "manager"}, NEW made, OuPath(ou) \in made
    PROVE  Performs(SubdirOps(ou, d), DirOps(SubdirEntry(ou, d)), made)
<1> DEFINE perms == IF d.policy = "manager" THEN RX ELSE RWX
           default == IF d.policy = "group" THEN RWX ELSE RX
           p == SubdirPath(ou, d)
<1>1. HasParent(p, made)
  BY ParentOf DEF HasParent, OuPath, SubdirPath
<1>2. SubdirEntry(ou, d) = OuDirEntry(p, ou, perms, default)
  BY DEF SubdirEntry
<1>3. SubdirOps(ou, d) = MkdirOp(p, OuGroup(ou)) \o ModifyOp(p, {OuGroup(ou)}, perms, default)
  BY DEF SubdirOps
<1> HIDE DEF perms, default, p
<1> QED BY <1>1, <1>2, <1>3, OuDirPart
LEMMA MorePerforms ==
    ASSUME NEW t, NEW ops, NEW made, NEW more, Performs(t, ops, made), made \subseteq more
    PROVE  Performs(t, ops, more)
  BY MoreIsMade DEF Performs

LEMMA MadeForEntry ==
    ASSUME NEW e, NEW ops, DirOps(e) \subseteq ops
    PROVE  e.path \in Makes(ops)
<1>1. Making(e.path, e.group) \in ops
  BY DEF DirOps
<1>2. Making(e.path, e.group).kind = "mkdir" /\ Making(e.path, e.group).path = e.path
  BY DEF Making
<1> QED BY <1>1, <1>2 DEF Makes

RemovingDirs(c, s) ==
    [kind |-> "rmdirs", path |-> ServicePath(s),
     expected |-> {SouPath(s, ou) : ou \in AcceptedOus(c, s)}]
RemovingLinks(c, ou) ==
    [kind |-> "rmlinks", path |-> OuPath(ou),
     expected |-> {LinkPath(ou, s) : s \in AcceptedServices(c, ou)}]
LinkingOf(l) == Linking(l.path, l.target)
OuLink(ou, s) == [path |-> LinkPath(ou, s), target |-> ExpectedDest(ou, s)]

LEMMA ServiceDirsPart ==
    ASSUME NEW c, ConfigIsSound(c), NEW made, SrvRoot \in made
    PROVE  Performs(ServiceDirsOps(c),
                    UNION {DirOps(ServiceEntry(s)) : s \in Elements(c.services)}, made)
<1> DEFINE S == Elements(c.services)
           F == [s \in S |-> ServiceOps(s)]
           G == [s \in S |-> DirOps(ServiceEntry(s))]
<1>1. IsList(c.services) /\ \A s \in S : s.access \in {"perService", "allOrgUnits"}
  BY DEF ConfigIsSound, IsList
<1>2. \A s \in S : Performs(F[s], G[s], made)
  BY <1>1, ServicePart
<1>3. [i \in DOMAIN c.services |-> ServiceOps(c.services[i])] = [i \in DOMAIN c.services |-> F[c.services[i]]]
  BY DEF Elements
<1>4. UNION {DirOps(ServiceEntry(s)) : s \in S} = UNION {G[s] : s \in S}
  OBVIOUS
<1> HIDE DEF F, G
<1>5. Performs(FlattenSeq([i \in DOMAIN c.services |-> F[c.services[i]]]), UNION {G[s] : s \in S}, made)
  BY <1>1, <1>2, Loop
<1> QED BY <1>3, <1>4, <1>5 DEF ServiceDirsOps, Each

LEMMA SrvSubdirsPart ==
    ASSUME NEW c, ConfigIsSound(c), NEW s, NEW made, ServicePath(s) \in made
    PROVE  Performs(SrvSubdirsOps(c, s),
                    (UNION {DirOps(SouEntry(s, ou)) : ou \in AcceptedOus(c, s)}) \cup {RemovingDirs(c, s)},
                    made)
<1> DEFINE S == Elements(c.ous)
           A == AcceptedOus(c, s)
           F == [ou \in S |-> IF ou \in A THEN SouOps(s, ou) ELSE <<>>]
           G == [ou \in S |-> IF ou \in A THEN DirOps(SouEntry(s, ou)) ELSE {}]
           rm == RemovingDirs(c, s)
           loop == FlattenSeq([i \in DOMAIN c.ous |-> IF c.ous[i] \in A THEN SouOps(s, c.ous[i]) ELSE <<>>])
<1>1. IsList(c.ous) /\ A \subseteq S
  BY DEF ConfigIsSound, IsList, AcceptedOus
<1>2. \A ou \in S : Performs(F[ou], G[ou], made)
  BY SouPart, NoOperation
<1>3. [i \in DOMAIN c.ous |-> IF c.ous[i] \in A THEN SouOps(s, c.ous[i]) ELSE <<>>]
        = [i \in DOMAIN c.ous |-> F[c.ous[i]]]
  BY DEF Elements
<1>4. UNION {DirOps(SouEntry(s, ou)) : ou \in A} = UNION {G[ou] : ou \in S}
  BY <1>1
<1> HIDE DEF F, G
<1>5. Performs(loop, UNION {G[ou] : ou \in S}, made)
  BY <1>1, <1>2, <1>3, Loop
<1>6. SrvSubdirsOps(c, s) = loop \o <<rm>>
  BY DEF SrvSubdirsOps, Each, RemovingDirs
<1>7. \A m : HasBase(rm, m)
  BY DEF HasBase, RemovingDirs
<1> HIDE DEF rm, loop
<1>8. \A m : Performs(<<rm>>, {rm}, m)
  BY <1>7, OneOperation
<1>9. Performs(loop \o <<rm>>, (UNION {G[ou] : ou \in S}) \cup {rm}, made)
  BY <1>5, <1>8, FirstThen
<1> QED BY <1>4, <1>6, <1>9 DEF rm

LEMMA ServiceOrgUnitDirsPart ==
    ASSUME NEW c, ConfigIsSound(c), NEW made, \A s \in Elements(c.services) : ServicePath(s) \in made
    PROVE  Performs(ServiceOrgUnitDirsOps(c),
                    UNION {(UNION {DirOps(SouEntry(s, ou)) : ou \in AcceptedOus(c, s)}) \cup {RemovingDirs(c, s)} :
                             s \in Elements(c.services)}, made)
<1> DEFINE S == Elements(c.services)
           H(s) == (UNION {DirOps(SouEntry(s, ou)) : ou \in AcceptedOus(c, s)}) \cup {RemovingDirs(c, s)}
           F == [s \in S |-> SrvSubdirsOps(c, s)]
           G == [s \in S |-> H(s)]
<1>1. IsList(c.services)
  BY DEF ConfigIsSound, IsList
<1>2. \A s \in S : Performs(F[s], G[s], made)
  BY SrvSubdirsPart
<1>3. [i \in DOMAIN c.services |-> SrvSubdirsOps(c, c.services[i])] = [i \in DOMAIN c.services |-> F[c.services[i]]]
  BY DEF Elements
<1>4. UNION {H(s) : s \in S} = UNION {G[s] : s \in S}
  <2> HIDE DEF H
  <2> QED OBVIOUS
<1> HIDE DEF F, G
<1>5. Performs(FlattenSeq([i \in DOMAIN c.services |-> F[c.services[i]]]), UNION {G[s] : s \in S}, made)
  BY <1>1, <1>2, Loop
<1> QED BY <1>3, <1>4, <1>5 DEF ServiceOrgUnitDirsOps, Each

LEMMA OrgUnitDirsPart ==
    ASSUME NEW c, ConfigIsSound(c), NEW made, OrgRoot \in made
    PROVE  Performs(OrgUnitDirsOps(c),
                    UNION {DirOps(OuDirEntry(OuPath(ou), ou, RX, RX)) : ou \in Elements(c.ous)}, made)
<1> DEFINE S == Elements(c.ous)
           F == [ou \in S |-> OuOps(ou)]
           G == [ou \in S |-> DirOps(OuDirEntry(OuPath(ou), ou, RX, RX))]
<1>1. IsList(c.ous)
  BY DEF ConfigIsSound, IsList
<1>2. \A ou \in S : Performs(F[ou], G[ou], made)
  <2> SUFFICES ASSUME NEW ou \in S
               PROVE  Performs(OuOps(ou), DirOps(OuDirEntry(OuPath(ou), ou, RX, RX)), made)
    OBVIOUS
  <2>1. HasParent(OuPath(ou), made)
    BY ParentOf DEF HasParent, OuPath, OrgRoot
  <2> QED BY <2>1, OuDirPart DEF OuOps
<1>3. [i \in DOMAIN c.ous |-> OuOps(c.ous[i])] = [i \in DOMAIN c.ous |-> F[c.ous[i]]]
  BY DEF Elements
<1>4. UNION {DirOps(OuDirEntry(OuPath(ou), ou, RX, RX)) : ou \in S} = UNION {G[ou] : ou \in S}
  OBVIOUS
<1> HIDE DEF F, G
<1>5. Performs(FlattenSeq([i \in DOMAIN c.ous |-> F[c.ous[i]]]), UNION {G[ou] : ou \in S}, made)
  BY <1>1, <1>2, Loop
<1> QED BY <1>3, <1>4, <1>5 DEF OrgUnitDirsOps, Each

LEMMA OuLinksPart ==
    ASSUME NEW c, ConfigIsSound(c), NEW ou, NEW made
    PROVE  Performs(OuLinksOps(c, ou),
                    {LinkingOf(OuLink(ou, s)) : s \in AcceptedServices(c, ou)} \cup {RemovingLinks(c, ou)},
                    made)
<1> DEFINE S == Elements(c.services)
           A == AcceptedServices(c, ou)
           F == [s \in S |-> IF s \in A THEN OuLinkOps(ou, s) ELSE <<>>]
           G == [s \in S |-> IF s \in A THEN {LinkingOf(OuLink(ou, s))} ELSE {}]
           rm == RemovingLinks(c, ou)
           loop == FlattenSeq([i \in DOMAIN c.services |->
                                 IF c.services[i] \in A THEN OuLinkOps(ou, c.services[i]) ELSE <<>>])
<1>1. IsList(c.services) /\ A \subseteq S
  BY DEF ConfigIsSound, IsList, AcceptedServices
<1>2. \A s \in S : Performs(F[s], G[s], made)
  <2>1. \A s : OuLinkOps(ou, s) = <<LinkingOf(OuLink(ou, s))>>
    BY DEF OuLinkOps, LinkOp, LinkingOf, Linking, OuLink, ExpectedDest, ServiceIsOfFacility
  <2>2. \A s : HasBase(LinkingOf(OuLink(ou, s)), made)
    BY DEF HasBase, LinkingOf, Linking
  <2>3. \A s : Performs(OuLinkOps(ou, s), {LinkingOf(OuLink(ou, s))}, made)
    BY <2>1, <2>2, OneOperation
  <2> QED BY <2>3, NoOperation
<1>3. [i \in DOMAIN c.services |-> IF c.services[i] \in A THEN OuLinkOps(ou, c.services[i]) ELSE <<>>]
        = [i \in DOMAIN c.services |-> F[c.services[i]]]
  BY DEF Elements
<1>4. {LinkingOf(OuLink(ou, s)) : s \in A} = UNION {G[s] : s \in S}
  BY <1>1
<1> HIDE DEF F, G
<1>5. Performs(loop, UNION {G[s] : s \in S}, made)
  BY <1>1, <1>2, <1>3, Loop
<1>6. OuLinksOps(c, ou) = loop \o <<rm>>
  BY DEF OuLinksOps, Each, RemovingLinks
<1>7. \A m : HasBase(rm, m)
  BY DEF HasBase, RemovingLinks
<1> HIDE DEF rm, loop
<1>8. \A m : Performs(<<rm>>, {rm}, m)
  BY <1>7, OneOperation
<1>9. Performs(loop \o <<rm>>, (UNION {G[s] : s \in S}) \cup {rm}, made)
  BY <1>5, <1>8, FirstThen
<1> QED BY <1>4, <1>6, <1>9 DEF rm
LEMMA OrgUnitServiceLinksPart ==
    ASSUME NEW c, ConfigIsSound(c), NEW made
    PROVE  Performs(OrgUnitServiceLinksOps(c),
                    UNION {{LinkingOf(OuLink(ou, s)) : s \in AcceptedServices(c, ou)}
                             \cup {RemovingLinks(c, ou)} : ou \in Elements(c.ous)}, made)
<1> DEFINE S == Elements(c.ous)
           H(ou) == {LinkingOf(OuLink(ou, s)) : s \in AcceptedServices(c, ou)}
                      \cup {RemovingLinks(c, ou)}
           F == [ou \in S |-> OuLinksOps(c, ou)]
           G == [ou \in S |-> H(ou)]
<1>1. IsList(c.ous)
  BY DEF ConfigIsSound, IsList
<1>2. \A ou \in S : Performs(F[ou], G[ou], made)
  BY OuLinksPart
<1>3. [i \in DOMAIN c.ous |-> OuLinksOps(c, c.ous[i])] = [i \in DOMAIN c.ous |-> F[c.ous[i]]]
  BY DEF Elements
<1>4. UNION {H(ou) : ou \in S} = UNION {G[ou] : ou \in S}
  <2> HIDE DEF H
  <2> QED OBVIOUS
<1> HIDE DEF F, G
<1>5. Performs(FlattenSeq([i \in DOMAIN c.ous |-> F[c.ous[i]]]), UNION {G[ou] : ou \in S}, made)
  BY <1>1, <1>2, Loop
<1> QED BY <1>3, <1>4, <1>5 DEF OrgUnitServiceLinksOps, Each

LEMMA SubdirsPart ==
    ASSUME NEW c, ConfigIsSound(c), NEW ou \in Elements(c.ous), NEW made, OuPath(ou) \in made
    PROVE  Performs(FlattenSeq([i \in DOMAIN ou.subdirs |-> SubdirOps(ou, ou.subdirs[i])]),
                    UNION {DirOps(SubdirEntry(ou, d)) : d \in Elements(ou.subdirs)}, made)
<1> DEFINE S == Elements(ou.subdirs)
           F == [d \in S |-> SubdirOps(ou, d)]
           G == [d \in S |-> DirOps(SubdirEntry(ou, d))]
<1>1. IsList(ou.subdirs) /\ \A d \in S : d.policy \in {"group", "owner", "manager"}
  BY DEF ConfigIsSound, IsList
<1>2. \A d \in S : Performs(F[d], G[d], made)
  BY <1>1, SubdirPart
<1>3. [i \in DOMAIN ou.subdirs |-> SubdirOps(ou, ou.subdirs[i])] = [i \in DOMAIN ou.subdirs |-> F[ou.subdirs[i]]]
  BY DEF Elements
<1>4. UNION {DirOps(SubdirEntry(ou, d)) : d \in S} = UNION {G[d] : d \in S}
  OBVIOUS
<1> HIDE DEF F, G
<1>5. Performs(FlattenSeq([i \in DOMAIN ou.subdirs |-> F[ou.subdirs[i]]]), UNION {G[d] : d \in S}, made)
  BY <1>1, <1>2, Loop
<1> QED BY <1>3, <1>4, <1>5

LEMMA OrgUnitSubdirsPart ==
    ASSUME NEW c, ConfigIsSound(c), NEW made, \A ou \in Elements(c.ous) : OuPath(ou) \in made
    PROVE  Performs(OrgUnitSubdirsOps(c),
                    UNION {UNION {DirOps(SubdirEntry(ou, d)) : d \in Elements(ou.subdirs)} :
                             ou \in Elements(c.ous)}, made)
<1> DEFINE S == Elements(c.ous)
           O(ou) == FlattenSeq([i \in DOMAIN ou.subdirs |-> SubdirOps(ou, ou.subdirs[i])])
           H(ou) == UNION {DirOps(SubdirEntry(ou, d)) : d \in Elements(ou.subdirs)}
           F == [ou \in S |-> O(ou)]
           G == [ou \in S |-> H(ou)]
<1>1. IsList(c.ous)
  BY DEF ConfigIsSound, IsList
<1>2. \A ou \in S : Performs(F[ou], G[ou], made)
  BY SubdirsPart
<1> HIDE DEF O, H
<1>3. [i \in DOMAIN c.ous |-> O(c.ous[i])] = [i \in DOMAIN c.ous |-> F[c.ous[i]]]
  BY DEF Elements
<1>4. UNION {H(ou) : ou \in S} = UNION {G[ou] : ou \in S}
  OBVIOUS
<1> HIDE DEF F, G
<1>5. Performs(FlattenSeq([i \in DOMAIN c.ous |-> F[c.ous[i]]]), UNION {G[ou] : ou \in S}, made)
  BY <1>1, <1>2, Loop
<1>6. OrgUnitSubdirsOps(c) = FlattenSeq([i \in DOMAIN c.ous |-> O(c.ous[i])])
  BY DEF OrgUnitSubdirsOps, Each, O
<1> QED BY <1>3, <1>4, <1>5, <1>6 DEF H

LEMMA SymlinksPart ==
    ASSUME NEW c, ConfigIsSound(c), NEW made
    PROVE  Performs(SymlinksOps(c), {LinkingOf(l) : l \in Elements(c.symlinks)}, made)
<1> DEFINE S == Elements(c.symlinks)
           F == [l \in S |-> LinkOp(l.path, l.target)]
           G == [l \in S |-> {LinkingOf(l)}]
<1>1. IsList(c.symlinks)
  BY DEF ConfigIsSound, IsList
<1>2. \A l \in S : Performs(F[l], G[l], made)
  <2>1. \A l : LinkOp(l.path, l.target) = <<LinkingOf(l)>>
    BY DEF LinkOp, LinkingOf, Linking
  <2>2. \A l : HasBase(LinkingOf(l), made)
    BY DEF HasBase, LinkingOf, Linking
  <2>3. \A l : Performs(LinkOp(l.path, l.target), {LinkingOf(l)}, made)
    BY <2>1, <2>2, OneOperation
  <2> QED BY <2>3
<1>3. [i \in DOMAIN c.symlinks |-> LinkOp(c.symlinks[i].path, c.symlinks[i].target)]
        = [i \in DOMAIN c.symlinks |-> F[c.symlinks[i]]]
  BY DEF Elements
<1>4. {LinkingOf(l) : l \in S} = UNION {G[l] : l \in S}
  OBVIOUS
<1> HIDE DEF F, G
<1>5. Performs(FlattenSeq([i \in DOMAIN c.symlinks |-> F[c.symlinks[i]]]), UNION {G[l] : l \in S}, made)
  BY <1>1, <1>2, Loop
<1> QED BY <1>3, <1>4, <1>5 DEF SymlinksOps, Each

\* The operations for what `check` expects, and the explicit symlinks after them.
MostOps(c) ==
    (UNION {DirOps(e) : e \in ExpectedDirs(c)})
    \cup {LinkingOf(l) : l \in ExpectedLinks(c)}
    \cup {RemovingDirs(c, s) : s \in Elements(c.services)}
    \cup {RemovingLinks(c, ou) : ou \in Elements(c.ous)}
ExplicitOps(c) == {LinkingOf(l) : l \in Elements(c.symlinks)}

LEMMA PartsCompose ==
    ASSUME NEW s, NEW ops, Performs(s, ops, {}), NEW t, NEW ops2, NEW made,
           Performs(t, ops2, made), made \subseteq Makes(ops)
    PROVE  Performs(s \o t, ops \cup ops2, {})
<1>1. Performs(t, ops2, {} \cup Makes(ops))
  BY MorePerforms
<1> QED BY <1>1, FirstThen

LEMMA ExpectedLinksAre ==
    ASSUME NEW c
    PROVE  ExpectedLinks(c) = UNION {{OuLink(ou, s) : s \in AcceptedServices(c, ou)} : ou \in Elements(c.ous)}
  BY Zenon DEF ExpectedLinks, AcceptedServices, OuLink

\* Apply does what check expects, although they share no code.
LEMMA MostOpsAre ==
    ASSUME NEW c
    PROVE  MostOps(c) =
             DirOps(RootEntry(SrvRoot))
             \cup (UNION {DirOps(ServiceEntry(s)) : s \in Elements(c.services)})
             \cup (UNION {(UNION {DirOps(SouEntry(s, ou)) : ou \in AcceptedOus(c, s)})
                            \cup {RemovingDirs(c, s)} : s \in Elements(c.services)})
             \cup DirOps(RootEntry(OrgRoot))
             \cup (UNION {DirOps(OuDirEntry(OuPath(ou), ou, RX, RX)) : ou \in Elements(c.ous)})
             \cup (UNION {{LinkingOf(OuLink(ou, s)) : s \in AcceptedServices(c, ou)}
                            \cup {RemovingLinks(c, ou)} : ou \in Elements(c.ous)})
             \cup (UNION {UNION {DirOps(SubdirEntry(ou, d)) : d \in Elements(ou.subdirs)} :
                            ou \in Elements(c.ous)})
<1> DEFINE D1 == UNION {DirOps(ServiceEntry(s)) : s \in Elements(c.services)}
           D2 == UNION {UNION {DirOps(SouEntry(s, ou)) : ou \in AcceptedOus(c, s)} : s \in Elements(c.services)}
           D3 == UNION {DirOps(OuDirEntry(OuPath(ou), ou, RX, RX)) : ou \in Elements(c.ous)}
           D4 == UNION {UNION {DirOps(SubdirEntry(ou, d)) : d \in Elements(ou.subdirs)} : ou \in Elements(c.ous)}
           L == UNION {{LinkingOf(OuLink(ou, s)) : s \in AcceptedServices(c, ou)} : ou \in Elements(c.ous)}
           R1 == {RemovingDirs(c, s) : s \in Elements(c.services)}
           R2 == {RemovingLinks(c, ou) : ou \in Elements(c.ous)}
<1>1. UNION {DirOps(e) : e \in ServiceDirsList(c)} = D1
  BY DEF ServiceDirsList
<1>2. UNION {DirOps(e) : e \in ServiceOrgUnitDirsList(c)} = D2
  BY DEF ServiceOrgUnitDirsList, AcceptedOus
<1>3. UNION {DirOps(e) : e \in OrgUnitDirsList(c)} = D3
  BY DEF OrgUnitDirsList
<1>4. UNION {DirOps(e) : e \in OrgUnitSubdirsList(c)} = D4
  BY DEF OrgUnitSubdirsList
<1>5. {LinkingOf(l) : l \in ExpectedLinks(c)} = L
  <2>1. ExpectedLinks(c) = UNION {{OuLink(ou, s) : s \in AcceptedServices(c, ou)} : ou \in Elements(c.ous)}
    BY ExpectedLinksAre
  <2> QED BY <2>1
<1>6. UNION {(UNION {DirOps(SouEntry(s, ou)) : ou \in AcceptedOus(c, s)})
                \cup {RemovingDirs(c, s)} : s \in Elements(c.services)} = D2 \cup R1
  OBVIOUS
<1>7. UNION {{LinkingOf(OuLink(ou, s)) : s \in AcceptedServices(c, ou)}
                \cup {RemovingLinks(c, ou)} : ou \in Elements(c.ous)} = L \cup R2
  OBVIOUS
<1>8. UNION {DirOps(e) : e \in ExpectedDirs(c)}
        = DirOps(RootEntry(SrvRoot)) \cup DirOps(RootEntry(OrgRoot))
          \cup (UNION {DirOps(e) : e \in ServiceDirsList(c)})
          \cup (UNION {DirOps(e) : e \in ServiceOrgUnitDirsList(c)})
          \cup (UNION {DirOps(e) : e \in OrgUnitDirsList(c)})
          \cup (UNION {DirOps(e) : e \in OrgUnitSubdirsList(c)})
  BY DEF ExpectedDirs
<1>9. MostOps(c) = (UNION {DirOps(e) : e \in ExpectedDirs(c)})
                   \cup {LinkingOf(l) : l \in ExpectedLinks(c)} \cup R1 \cup R2
  BY DEF MostOps
<1> HIDE DEF D1, D2, D3, D4, L, R1, R2
<1>10. MostOps(c) = DirOps(RootEntry(SrvRoot)) \cup D1 \cup (D2 \cup R1)
                    \cup DirOps(RootEntry(OrgRoot)) \cup D3 \cup (L \cup R2) \cup D4
  BY <1>1, <1>2, <1>3, <1>4, <1>5, <1>8, <1>9
<1> QED BY <1>6, <1>7, <1>10 DEF D1, D3, D4
LEMMA ProgramOps ==
    ASSUME NEW c, ConfigIsSound(c)
    PROVE  \E most, rest :
              /\ ProgramOf(c) = most \o rest
              /\ Performs(most, MostOps(c), {}) /\ Performs(rest, ExplicitOps(c), {})
              /\ Performs(most \o rest, MostOps(c) \cup ExplicitOps(c), {})
<1> DEFINE S == Elements(c.services)
           O == Elements(c.ous)
           A1 == DirOps(RootEntry(SrvRoot))
           A2 == UNION {DirOps(ServiceEntry(s)) : s \in S}
           A3 == UNION {(UNION {DirOps(SouEntry(s, ou)) : ou \in AcceptedOus(c, s)})
                          \cup {RemovingDirs(c, s)} : s \in S}
           A4 == DirOps(RootEntry(OrgRoot))
           A5 == UNION {DirOps(OuDirEntry(OuPath(ou), ou, RX, RX)) : ou \in O}
           A6 == UNION {{LinkingOf(OuLink(ou, s)) : s \in AcceptedServices(c, ou)}
                          \cup {RemovingLinks(c, ou)} : ou \in O}
           A7 == UNION {UNION {DirOps(SubdirEntry(ou, d)) : d \in Elements(ou.subdirs)} : ou \in O}
           A8 == ExplicitOps(c)
           B2 == A1 \cup A2
           B3 == B2 \cup A3
           B4 == B3 \cup A4
           B5 == B4 \cup A5
           B6 == B5 \cup A6
           B7 == B6 \cup A7
           t1 == MkdirOp(SrvRoot, RootGroup)
           t2 == ServiceDirsOps(c)
           t3 == ServiceOrgUnitDirsOps(c)
           t4 == MkdirOp(OrgRoot, RootGroup)
           t5 == OrgUnitDirsOps(c)
           t6 == OrgUnitServiceLinksOps(c)
           t7 == OrgUnitSubdirsOps(c)
           t8 == SymlinksOps(c)
<1>1. B7 = MostOps(c)
  BY MostOpsAre
<1>2. \A ou \in O : OuDirEntry(OuPath(ou), ou, RX, RX).path = OuPath(ou)
  BY DEF OuDirEntry, DirEntry
<1>3. \A s \in S : ServiceEntry(s).path = ServicePath(s)
  BY DEF ServiceEntry, DirEntry
<1>4. RootEntry(SrvRoot).path = SrvRoot /\ RootEntry(OrgRoot).path = OrgRoot
  BY DEF RootEntry, DirEntry
<1>5. SrvRoot \in Makes(A1)
  BY <1>4, MadeForEntry
<1>6. \A s \in S : ServicePath(s) \in Makes(B2)
  <2>1. \A s \in S : DirOps(ServiceEntry(s)) \subseteq B2
    OBVIOUS
  <2> HIDE DEF B2
  <2> QED BY <1>3, <2>1, MadeForEntry
<1>7. OrgRoot \in Makes(B4)
  <2>1. DirOps(RootEntry(OrgRoot)) \subseteq B4
    OBVIOUS
  <2> HIDE DEF B4
  <2> QED BY <1>4, <2>1, MadeForEntry
<1>8. \A ou \in O : OuPath(ou) \in Makes(B6)
  <2>1. \A ou \in O : DirOps(OuDirEntry(OuPath(ou), ou, RX, RX)) \subseteq A5
    OBVIOUS
  <2>2. A5 \subseteq B6
    OBVIOUS
  <2> HIDE DEF B6, A5
  <2> QED BY <1>2, <2>1, <2>2, MadeForEntry
<1>9. Len(SrvRoot) = 1 /\ Len(OrgRoot) = 1
  BY DEF SrvRoot, OrgRoot
<1>11. Performs(t1, A1, {}) /\ Performs(t4, A4, {})
  BY <1>9, RootPart
<1>12. Performs(t2, A2, Makes(A1))
  BY <1>5, ServiceDirsPart
<1>13. Performs(t3, A3, Makes(B2))
  BY <1>6, ServiceOrgUnitDirsPart
<1>15. Performs(t5, A5, Makes(B4))
  BY <1>7, OrgUnitDirsPart
<1>16. Performs(t6, A6, {})
  BY OrgUnitServiceLinksPart
<1>17. Performs(t7, A7, Makes(B6))
  BY <1>8, OrgUnitSubdirsPart
<1>18. Performs(t8, A8, {})
  BY SymlinksPart DEF ExplicitOps
<1>19. ProgramOf(c) = t1 \o t2 \o t3 \o t4 \o t5 \o t6 \o t7 \o t8
  BY DEF ProgramOf
<1> HIDE DEF A1, A2, A3, A4, A5, A6, A7, A8, t1, t2, t3, t4, t5, t6, t7, t8
<1>22. Performs(t1 \o t2, B2, {})
  BY <1>11, <1>12, PartsCompose
<1> HIDE DEF B2
<1>23. Performs(t1 \o t2 \o t3, B3, {})
  BY <1>22, <1>13, PartsCompose DEF B3
<1> HIDE DEF B3
<1>24. Performs(t1 \o t2 \o t3 \o t4, B4, {})
  BY <1>23, <1>11, PartsCompose DEF B4
<1> HIDE DEF B4
<1>25. Performs(t1 \o t2 \o t3 \o t4 \o t5, B5, {})
  BY <1>24, <1>15, PartsCompose DEF B5
<1> HIDE DEF B5
<1>26. Performs(t1 \o t2 \o t3 \o t4 \o t5 \o t6, B6, {})
  BY <1>25, <1>16, PartsCompose DEF B6
<1> HIDE DEF B6
<1>27. Performs(t1 \o t2 \o t3 \o t4 \o t5 \o t6 \o t7, B7, {})
  BY <1>26, <1>17, PartsCompose DEF B7
<1> HIDE DEF B7
<1>28. Performs(t1 \o t2 \o t3 \o t4 \o t5 \o t6 \o t7 \o t8, B7 \cup A8, {})
  BY <1>27, <1>18, PartsCompose
<1> QED BY <1>1, <1>18, <1>19, <1>27, <1>28 DEF A8
LEMMA ProgramFacts ==
    ASSUME NEW c, ConfigIsSound(c)
    PROVE  /\ Len(ProgramOf(c)) \in Nat
           /\ \A i \in 1 .. Len(ProgramOf(c)) : ProgramOf(c)[i] \in MostOps(c) \cup ExplicitOps(c)
           /\ \A op \in MostOps(c) \cup ExplicitOps(c) :
                 \E i \in 1 .. Len(ProgramOf(c)) : ProgramOf(c)[i] = op
           /\ \A i \in 1 .. Len(ProgramOf(c)) : HasBase(ProgramOf(c)[i], MadeBefore(ProgramOf(c), i))
           /\ \A i, j \in 1 .. Len(ProgramOf(c)) :
                 i < j /\ ProgramOf(c)[j].kind = "rmlinks" => ProgramOf(c)[i] \in MostOps(c)
<1> DEFINE all == MostOps(c) \cup ExplicitOps(c)
<1>1. PICK most, rest :
         /\ ProgramOf(c) = most \o rest
         /\ Performs(most, MostOps(c), {}) /\ Performs(rest, ExplicitOps(c), {})
         /\ Performs(most \o rest, all, {})
  BY ProgramOps
<1> DEFINE t == most \o rest
<1>2. IsList(t) /\ Elements(t) = all /\ Grounded(t, {})
  BY <1>1 DEF Performs
<1>3. IsList(most) /\ IsList(rest) /\ Elements(most) = MostOps(c) /\ Elements(rest) = ExplicitOps(c)
  BY <1>1 DEF Performs
<1>4. \A i \in 1 .. Len(t) : HasBase(t[i], MadeBefore(t, i))
  <2>1. \A S : {} \cup S = S
    OBVIOUS
  <2> QED BY <1>2, <2>1 DEF Grounded
<1>5. /\ Len(t) = Len(most) + Len(rest) /\ Len(most) \in Nat /\ Len(rest) \in Nat
      /\ \A k \in 1 .. Len(most) : t[k] = most[k]
      /\ \A k \in 1 .. Len(rest) : t[Len(most) + k] = rest[k]
      /\ \A k \in 1 .. Len(t) : k \in 1 .. Len(most) \/ (k - Len(most)) \in 1 .. Len(rest)
  <2>1. most \in Seq(MostOps(c) \cup ExplicitOps(c)) /\ rest \in Seq(MostOps(c) \cup ExplicitOps(c))
    <3>1. \A A, B : A \subseteq B => Seq(A) \subseteq Seq(B)
      OBVIOUS
    <3> QED BY <1>3, <3>1 DEF IsList
  <2> QED BY <2>1, Concatenation
<1> HIDE DEF t
<1>6. Elements(t) = {t[k] : k \in 1 .. Len(t)} /\ Len(t) \in Nat
  BY <1>2, ElementsOf DEF IsList
<1>7. Elements(rest) = {rest[k] : k \in 1 .. Len(rest)} /\ Elements(most) = {most[k] : k \in 1 .. Len(most)}
  BY <1>3, ElementsOf DEF IsList
<1>8. ASSUME NEW i \in 1 .. Len(t), NEW j \in 1 .. Len(t), i < j, t[j].kind = "rmlinks"
      PROVE  t[i] \in MostOps(c)
  <2>1. j \in 1 .. Len(most)
    <3>1. SUFFICES ASSUME (j - Len(most)) \in 1 .. Len(rest) PROVE FALSE
      BY <1>5
    <3>2. t[j] = rest[j - Len(most)]
      <4>1. j = Len(most) + (j - Len(most))
        BY <1>5
      <4> QED BY <1>5, <3>1, <4>1
    <3>3. t[j] \in ExplicitOps(c)
      BY <1>3, <1>7, <3>1, <3>2
    <3>4. \A op \in ExplicitOps(c) : op.kind = "link"
      BY DEF ExplicitOps, LinkingOf, Linking
    <3> QED BY <1>8, <3>3, <3>4
  <2>2. i \in 1 .. Len(most)
    BY <1>5, <1>8, <2>1
  <2>3. t[i] = most[i]
    BY <1>5, <2>2
  <2> QED BY <1>3, <1>7, <2>2, <2>3
<1>9. ProgramOf(c) = t
  BY <1>1 DEF t
<1> QED BY <1>2, <1>4, <1>6, <1>8, <1>9

LEMMA KindsOfOps ==
    ASSUME NEW c, NEW op \in MostOps(c) \cup ExplicitOps(c)
    PROVE  \/ \E e \in ExpectedDirs(c) : op = Making(e.path, e.group)
           \/ \E e \in ExpectedDirs(c) :
                 e.compared # {} /\ op = Modifying(e.path, DOMAIN e.acl.named, e.acl.mask, e.dfl.mask)
           \/ \E e \in ExpectedDirs(c) :
                 /\ e.compared # DOMAIN e.acl.named
                 /\ op = Removing(e.path, e.compared \ DOMAIN e.acl.named)
           \/ \E l \in ExpectedLinks(c) : op = LinkingOf(l)
           \/ \E l \in Elements(c.symlinks) : op = LinkingOf(l) /\ op \in ExplicitOps(c)
           \/ \E s \in Elements(c.services) : op = RemovingDirs(c, s)
           \/ \E ou \in Elements(c.ous) : op = RemovingLinks(c, ou)
<1>1. CASE \E e \in ExpectedDirs(c) : op \in DirOps(e)
  BY <1>1 DEF DirOps
<1>2. CASE ~ \E e \in ExpectedDirs(c) : op \in DirOps(e)
  <2>1. \/ op \in {LinkingOf(l) : l \in ExpectedLinks(c)}
        \/ op \in {RemovingDirs(c, s) : s \in Elements(c.services)}
        \/ op \in {RemovingLinks(c, ou) : ou \in Elements(c.ous)}
        \/ op \in ExplicitOps(c)
    BY <1>2 DEF MostOps
  <2> QED BY <2>1 DEF ExplicitOps
<1> QED BY <1>1, <1>2

LEMMA FieldsOfOps ==
    /\ \A p, g : /\ Making(p, g).kind = "mkdir" /\ Making(p, g).path = p
                 /\ Making(p, g).group = g
    /\ \A p, gs, x, y : /\ Modifying(p, gs, x, y).kind = "modify" /\ Modifying(p, gs, x, y).path = p
                        /\ Modifying(p, gs, x, y).groups = gs
                        /\ Modifying(p, gs, x, y).perms = x /\ Modifying(p, gs, x, y).default = y
    /\ \A p, gs : /\ Removing(p, gs).kind = "remove" /\ Removing(p, gs).path = p
                  /\ Removing(p, gs).groups = gs
    /\ \A l : /\ LinkingOf(l).kind = "link" /\ LinkingOf(l).path = l.path
              /\ LinkingOf(l).target = l.target
    /\ \A c, s : /\ RemovingDirs(c, s).kind = "rmdirs" /\ RemovingDirs(c, s).path = ServicePath(s)
                 /\ RemovingDirs(c, s).expected = {SouPath(s, ou) : ou \in AcceptedOus(c, s)}
    /\ \A c, ou : /\ RemovingLinks(c, ou).kind = "rmlinks" /\ RemovingLinks(c, ou).path = OuPath(ou)
                  /\ RemovingLinks(c, ou).expected = {LinkPath(ou, s) : s \in AcceptedServices(c, ou)}
  BY DEF Making, Modifying, Removing, LinkingOf, Linking, RemovingDirs, RemovingLinks
-----------------------------------------------------------------------------
\* What check expects.

LEMMA Unique ==
    ASSUME NEW seq, NamesAreUnique(seq), NEW x \in Elements(seq), NEW y \in Elements(seq),
           x.name = y.name
    PROVE  x = y
  BY DEF NamesAreUnique, Elements

LEMMA KindsOfEntries ==
    ASSUME NEW c, NEW e \in ExpectedDirs(c)
    PROVE  \/ \E p \in {SrvRoot, OrgRoot} : e = RootEntry(p)
           \/ \E s \in Elements(c.services) : e = ServiceEntry(s)
           \/ \E s \in Elements(c.services) : \E ou \in AcceptedOus(c, s) : e = SouEntry(s, ou)
           \/ \E ou \in Elements(c.ous) : e = OuDirEntry(OuPath(ou), ou, RX, RX)
           \/ \E ou \in Elements(c.ous) : \E d \in Elements(ou.subdirs) : e = SubdirEntry(ou, d)
<1>1. CASE e \in {RootEntry(SrvRoot), RootEntry(OrgRoot)}
  BY <1>1
<1>2. CASE e \in ServiceDirsList(c)
  BY <1>2 DEF ServiceDirsList
<1>3. CASE e \in ServiceOrgUnitDirsList(c)
  BY <1>3 DEF ServiceOrgUnitDirsList, AcceptedOus
<1>4. CASE e \in OrgUnitDirsList(c)
  BY <1>4 DEF OrgUnitDirsList
<1>5. CASE e \in OrgUnitSubdirsList(c)
  BY <1>5 DEF OrgUnitSubdirsList
<1> QED BY <1>1, <1>2, <1>3, <1>4, <1>5 DEF ExpectedDirs

LEMMA PathsOfEntries ==
    /\ \A p : RootEntry(p).path = p
    /\ \A s : ServiceEntry(s).path = <<ServiceDir, s.name>>
    /\ \A s, ou : SouEntry(s, ou).path = <<ServiceDir, s.name, ou.name>>
    /\ \A ou : OuDirEntry(OuPath(ou), ou, RX, RX).path = <<OrgUnitDir, ou.name>>
<1>1. \A p : RootEntry(p).path = p
  BY DEF RootEntry, DirEntry
<1>2. \A s : ServiceEntry(s).path = <<ServiceDir, s.name>>
  BY DEF ServiceEntry, DirEntry, ServicePath
<1>3. \A s, ou : SouEntry(s, ou).path = <<ServiceDir, s.name, ou.name>>
  BY DEF SouEntry, DirEntry, SouPath
<1>4. \A p, ou, x, y : OuDirEntry(p, ou, x, y).path = p
  BY DEF OuDirEntry, DirEntry
<1>5. \A ou : OuDirEntry(OuPath(ou), ou, RX, RX).path = <<OrgUnitDir, ou.name>>
  BY <1>4 DEF OuPath
<1> QED BY <1>1, <1>2, <1>3, <1>5

LEMMA PathOfSubdir ==
    ASSUME NEW ou, NEW d, d.policy \in {"group", "owner", "manager"}
    PROVE  SubdirEntry(ou, d).path = <<OrgUnitDir, ou.name, d.name>>
<1>1. \A p, x, y : OuDirEntry(p, ou, x, y).path = p
  BY DEF OuDirEntry, DirEntry
<1> QED BY <1>1 DEF SubdirEntry, SubdirPath

\* The kind of an entry follows from its path.
IsRootOf(c, e) == e.path \in {SrvRoot, OrgRoot} /\ e = RootEntry(e.path)
IsServiceOf(c, e) ==
    \E s \in Elements(c.services) : e = ServiceEntry(s) /\ e.path = <<ServiceDir, s.name>>
IsSouOf(c, e) ==
    \E s \in Elements(c.services) : \E ou \in AcceptedOus(c, s) :
        e = SouEntry(s, ou) /\ e.path = <<ServiceDir, s.name, ou.name>>
IsOuOf(c, e) ==
    \E ou \in Elements(c.ous) :
        e = OuDirEntry(OuPath(ou), ou, RX, RX) /\ e.path = <<OrgUnitDir, ou.name>>
IsSubdirOf(c, e) ==
    \E ou \in Elements(c.ous) : \E d \in Elements(ou.subdirs) :
        /\ d.policy \in {"group", "owner", "manager"}
        /\ e = SubdirEntry(ou, d) /\ e.path = <<OrgUnitDir, ou.name, d.name>>

LEMMA EntryByPath ==
    ASSUME NEW c, ConfigIsSound(c), NEW e \in ExpectedDirs(c)
    PROVE  \/ IsRootOf(c, e) /\ Len(e.path) = 1
           \/ IsServiceOf(c, e) /\ Len(e.path) = 2 /\ e.path[1] = ServiceDir
           \/ IsSouOf(c, e) /\ Len(e.path) = 3 /\ e.path[1] = ServiceDir
           \/ IsOuOf(c, e) /\ Len(e.path) = 2 /\ e.path[1] = OrgUnitDir
           \/ IsSubdirOf(c, e) /\ Len(e.path) = 3 /\ e.path[1] = OrgUnitDir
<1>1. CASE \E p \in {SrvRoot, OrgRoot} : e = RootEntry(p)
  <2>1. IsRootOf(c, e)
    BY <1>1, PathsOfEntries DEF IsRootOf
  <2>2. Len(e.path) = 1
    BY <2>1 DEF IsRootOf, SrvRoot, OrgRoot
  <2> QED BY <2>1, <2>2
<1>2. CASE \E s \in Elements(c.services) : e = ServiceEntry(s)
  <2>1. IsServiceOf(c, e)
    BY <1>2, PathsOfEntries DEF IsServiceOf
  <2>2. Len(e.path) = 2 /\ e.path[1] = ServiceDir
    BY <2>1 DEF IsServiceOf
  <2> QED BY <2>1, <2>2
<1>3. CASE \E s \in Elements(c.services) : \E ou \in AcceptedOus(c, s) : e = SouEntry(s, ou)
  <2>1. IsSouOf(c, e)
    <3>1. PICK s, ou : s \in Elements(c.services) /\ ou \in AcceptedOus(c, s) /\ e = SouEntry(s, ou)
      BY <1>3
    <3>2. SouEntry(s, ou).path = <<ServiceDir, s.name, ou.name>>
      BY PathsOfEntries
    <3> QED BY <3>1, <3>2 DEF IsSouOf
  <2>2. Len(e.path) = 3 /\ e.path[1] = ServiceDir
    BY <2>1 DEF IsSouOf
  <2> QED BY <2>1, <2>2
<1>4. CASE \E ou \in Elements(c.ous) : e = OuDirEntry(OuPath(ou), ou, RX, RX)
  <2>1. IsOuOf(c, e)
    BY <1>4, PathsOfEntries DEF IsOuOf
  <2>2. Len(e.path) = 2 /\ e.path[1] = OrgUnitDir
    BY <2>1 DEF IsOuOf
  <2> QED BY <2>1, <2>2
<1>5. CASE \E ou \in Elements(c.ous) : \E d \in Elements(ou.subdirs) : e = SubdirEntry(ou, d)
  <2>1. PICK ou, d : ou \in Elements(c.ous) /\ d \in Elements(ou.subdirs) /\ e = SubdirEntry(ou, d)
    BY <1>5
  <2>2. d.policy \in {"group", "owner", "manager"}
    BY <2>1 DEF ConfigIsSound
  <2>3. e.path = <<OrgUnitDir, ou.name, d.name>>
    <3>1. SubdirEntry(ou, d).path = <<OrgUnitDir, ou.name, d.name>>
      BY <2>2, PathOfSubdir
    <3> QED BY <2>1, <3>1
  <2>4. IsSubdirOf(c, e)
    BY <2>1, <2>2, <2>3 DEF IsSubdirOf
  <2>5. Len(e.path) = 3 /\ e.path[1] = OrgUnitDir
    BY <2>3
  <2> QED BY <2>4, <2>5
<1> QED BY <1>1, <1>2, <1>3, <1>4, <1>5, KindsOfEntries

LEMMA SameEntry ==
    ASSUME NEW c, ConfigIsSound(c), NEW e \in ExpectedDirs(c), NEW f \in ExpectedDirs(c),
           e.path = f.path
    PROVE  e = f
<1>1. OrgUnitDir # ServiceDir
  BY ConfigAssumption
<1>2. NamesAreUnique(c.services) /\ NamesAreUnique(c.ous)
  BY DEF ConfigIsSound
<1>3. \A s, t \in Elements(c.services) : s.name = t.name => s = t
  BY <1>2, Unique
<1>4. \A s, t \in Elements(c.ous) : s.name = t.name => s = t
  BY <1>2, Unique
<1>5. CASE IsRootOf(c, e) /\ IsRootOf(c, f)
  BY <1>5 DEF IsRootOf
<1>6. CASE IsServiceOf(c, e) /\ IsServiceOf(c, f)
  <2>1. PICK s \in Elements(c.services) : e = ServiceEntry(s) /\ e.path = <<ServiceDir, s.name>>
    BY <1>6 DEF IsServiceOf
  <2>2. PICK t \in Elements(c.services) : f = ServiceEntry(t) /\ f.path = <<ServiceDir, t.name>>
    BY <1>6 DEF IsServiceOf
  <2>3. s.name = t.name
    BY <2>1, <2>2
  <2> QED BY <1>3, <2>1, <2>2, <2>3
<1>7. CASE IsSouOf(c, e) /\ IsSouOf(c, f)
  <2>1. PICK s \in Elements(c.services), ou \in Elements(c.ous) :
           e = SouEntry(s, ou) /\ e.path = <<ServiceDir, s.name, ou.name>>
    BY <1>7 DEF IsSouOf, AcceptedOus
  <2>2. PICK t \in Elements(c.services), ou2 \in Elements(c.ous) :
           f = SouEntry(t, ou2) /\ f.path = <<ServiceDir, t.name, ou2.name>>
    BY <1>7 DEF IsSouOf, AcceptedOus
  <2>3. s.name = t.name /\ ou.name = ou2.name
    BY <2>1, <2>2
  <2> QED BY <1>3, <1>4, <2>1, <2>2, <2>3
<1>8. CASE IsOuOf(c, e) /\ IsOuOf(c, f)
  <2>1. PICK ou \in Elements(c.ous) :
           e = OuDirEntry(OuPath(ou), ou, RX, RX) /\ e.path = <<OrgUnitDir, ou.name>>
    BY <1>8 DEF IsOuOf
  <2>2. PICK ou2 \in Elements(c.ous) :
           f = OuDirEntry(OuPath(ou2), ou2, RX, RX) /\ f.path = <<OrgUnitDir, ou2.name>>
    BY <1>8 DEF IsOuOf
  <2>3. ou.name = ou2.name
    BY <2>1, <2>2
  <2> QED BY <1>4, <2>1, <2>2, <2>3
<1>9. CASE IsSubdirOf(c, e) /\ IsSubdirOf(c, f)
  <2>1. PICK ou, d :
           /\ ou \in Elements(c.ous)
           /\ d \in Elements(ou.subdirs)
           /\ e = SubdirEntry(ou, d) /\ e.path = <<OrgUnitDir, ou.name, d.name>>
    BY <1>9 DEF IsSubdirOf
  <2>2. PICK ou2, d2 :
           /\ ou2 \in Elements(c.ous)
           /\ d2 \in Elements(ou2.subdirs)
           /\ f = SubdirEntry(ou2, d2) /\ f.path = <<OrgUnitDir, ou2.name, d2.name>>
    BY <1>9 DEF IsSubdirOf
  <2>3. ou.name = ou2.name /\ d.name = d2.name
    BY <2>1, <2>2
  <2>4. ou = ou2 /\ NamesAreUnique(ou.subdirs)
    BY <2>1, <2>2, <1>4, <2>3 DEF ConfigIsSound
  <2>5. d = d2
    BY <2>1, <2>2, <2>3, <2>4, Unique
  <2> QED BY <2>1, <2>2, <2>4, <2>5
<1> QED BY <1>1, <1>5, <1>6, <1>7, <1>8, <1>9, EntryByPath
\* What the entries of a directory may allow: nobody may write into the directory of a service.
Bound(p) == IF Len(p) = 2 /\ p[1] = ServiceDir THEN RX ELSE RWX

\* The groups of org units that an entry is about are those in its path.
OwnOnly(p, gs) == \A g \in gs : g[1] = "ou" => \E name \in Elements(p) : g = OuGroup([name |-> name])

IsEntry(p, gs, compared, perms, default) ==
    /\ gs \subseteq compared
    /\ perms \subseteq Bound(p) /\ default \subseteq Bound(p)
    /\ Len(p) = 1 => compared = {} /\ perms = {} /\ default = {}
    /\ Len(p) # 1 => gs # {}
    /\ compared # gs => perms = Bound(p) /\ default = Bound(p)
    /\ OwnOnly(p, compared)

LEMMA Kinds ==
    /\ \A s : ServiceGroup(s)[1] # "ou" /\ OpsGroup(s)[1] # "ou" /\ SuperGroup[1] # "ou"
    /\ \A ou : OuGroup(ou) = OuGroup([name |-> ou.name])
    /\ \A a, b, c : c \in Elements(<<a, b, c>>) /\ b \in Elements(<<a, b, c>>)
    /\ \A a, b : b \in Elements(<<a, b>>)
    /\ RX \subseteq RWX
<1>1. \A s : ServiceGroup(s)[1] # "ou" /\ OpsGroup(s)[1] # "ou" /\ SuperGroup[1] # "ou"
  BY DEF ServiceGroup, OpsGroup, SuperGroup
<1>2. \A ou : OuGroup(ou) = OuGroup([name |-> ou.name])
  BY DEF OuGroup
<1>3. \A a, b, c : c \in Elements(<<a, b, c>>) /\ b \in Elements(<<a, b, c>>)
  BY DEF Elements
<1>4. \A a, b : b \in Elements(<<a, b>>)
  BY DEF Elements
<1> QED BY <1>1, <1>2, <1>3, <1>4 DEF RX, RWX

LEMMA EntryIs ==
    ASSUME NEW c, ConfigIsSound(c), NEW e \in ExpectedDirs(c)
    PROVE  \E group, gs, compared, perms, default :
              /\ e = DirEntry(e.path, group, gs, compared, perms, default)
              /\ IsEntry(e.path, gs, compared, perms, default)
<1>1. OrgUnitDir # ServiceDir
  BY ConfigAssumption
<1>2. CASE IsRootOf(c, e) /\ Len(e.path) = 1
  <2>1. e = DirEntry(e.path, RootGroup, {}, {}, {}, {})
    BY <1>2 DEF IsRootOf, RootEntry
  <2>2. IsEntry(e.path, {}, {}, {}, {})
    BY <1>2 DEF IsEntry, OwnOnly
  <2> QED BY <2>1, <2>2
<1>3. CASE IsServiceOf(c, e) /\ Len(e.path) = 2 /\ e.path[1] = ServiceDir
  <2>1. PICK s \in Elements(c.services) : e = ServiceEntry(s) /\ e.path = <<ServiceDir, s.name>>
    BY <1>3 DEF IsServiceOf
  <2> DEFINE own == {ServiceGroup(s), OpsGroup(s)}
             gs == IF s.access = "perService" THEN own ELSE {SuperGroup}
             all == own \cup {SuperGroup}
  <2>2. e = DirEntry(e.path, ServiceGroup(s), gs, all, RX, RX)
    BY <2>1 DEF ServiceEntry, ServicePath
  <2>3. gs \subseteq all /\ gs # {} /\ Bound(e.path) = RX
    BY <1>3 DEF Bound
  <2>4. OwnOnly(e.path, all)
    BY Kinds DEF OwnOnly
  <2> HIDE DEF gs, all
  <2>5. IsEntry(e.path, gs, all, RX, RX)
    BY <1>3, <2>3, <2>4 DEF IsEntry
  <2> QED BY <2>2, <2>5
<1>4. CASE IsSouOf(c, e) /\ Len(e.path) = 3 /\ e.path[1] = ServiceDir
  <2>1. PICK s, ou :
           /\ s \in Elements(c.services)
           /\ e = SouEntry(s, ou) /\ e.path = <<ServiceDir, s.name, ou.name>>
    BY <1>4 DEF IsSouOf
  <2> DEFINE gs == {OuGroup(ou), OpsGroup(s)}
             all == gs \cup {ServiceGroup(s), SuperGroup}
  <2>2. e = DirEntry(e.path, OuGroup(ou), gs, all, RWX, RWX)
    BY <2>1 DEF SouEntry, SouPath
  <2>3. gs \subseteq all /\ gs # {} /\ Bound(e.path) = RWX
    BY <1>4 DEF Bound
  <2>4. OwnOnly(e.path, all)
    <3>1. ou.name \in Elements(e.path)
      BY <2>1, Kinds
    <3> QED BY <3>1, Kinds DEF OwnOnly
  <2> HIDE DEF gs, all
  <2>5. IsEntry(e.path, gs, all, RWX, RWX)
    BY <1>4, <2>3, <2>4 DEF IsEntry
  <2> QED BY <2>2, <2>5
<1>5. ASSUME NEW p, Len(p) \in {2, 3}, p[1] = OrgUnitDir, NEW ou, ou.name \in Elements(p),
             NEW x \in {RX, RWX}, NEW y \in {RX, RWX}, e = OuDirEntry(p, ou, x, y), e.path = p
      PROVE  \E group, gs, compared, perms, default :
                /\ e = DirEntry(e.path, group, gs, compared, perms, default)
                /\ IsEntry(e.path, gs, compared, perms, default)
  <2> DEFINE gs == {OuGroup(ou)}
  <2>1. e = DirEntry(e.path, OuGroup(ou), gs, gs, x, y)
    BY <1>5 DEF OuDirEntry
  <2>2. gs # {} /\ Bound(p) = RWX /\ x \subseteq RWX /\ y \subseteq RWX /\ Len(p) # 1
    BY <1>1, <1>5, Kinds DEF Bound
  <2>3. OwnOnly(p, gs)
    BY <1>5, Kinds DEF OwnOnly
  <2> HIDE DEF gs
  <2>4. IsEntry(e.path, gs, gs, x, y)
    BY <1>5, <2>2, <2>3 DEF IsEntry
  <2> QED BY <2>1, <2>4
<1>6. CASE IsOuOf(c, e) /\ Len(e.path) = 2 /\ e.path[1] = OrgUnitDir
  <2>1. PICK ou \in Elements(c.ous) :
           e = OuDirEntry(OuPath(ou), ou, RX, RX) /\ e.path = <<OrgUnitDir, ou.name>>
    BY <1>6 DEF IsOuOf
  <2>2. ou.name \in Elements(e.path) /\ e.path = OuPath(ou)
    BY <2>1, Kinds DEF OuPath
  <2> QED BY <1>5, <1>6, <2>1, <2>2
<1>7. CASE IsSubdirOf(c, e) /\ Len(e.path) = 3 /\ e.path[1] = OrgUnitDir
  <2>1. PICK ou, d :
           /\ ou \in Elements(c.ous)
           /\ d.policy \in {"group", "owner", "manager"}
           /\ e = SubdirEntry(ou, d) /\ e.path = <<OrgUnitDir, ou.name, d.name>>
    BY <1>7 DEF IsSubdirOf
  <2>2. ou.name \in Elements(e.path) /\ e.path = SubdirPath(ou, d)
    BY <2>1, Kinds DEF SubdirPath
  <2>3. PICK x \in {RX, RWX}, y \in {RX, RWX} : e = OuDirEntry(e.path, ou, x, y)
    BY <2>1, <2>2 DEF SubdirEntry
  <2> QED BY <1>5, <1>7, <2>2, <2>3
<1> QED BY <1>2, <1>3, <1>4, <1>6, <1>7, EntryByPath
LEMMA EntryFacts ==
    ASSUME NEW c, ConfigIsSound(c), NEW e \in ExpectedDirs(c)
    PROVE  /\ e.acl = Acl(Entries(DOMAIN e.acl.named, e.acl.mask), e.acl.mask)
           /\ e.dfl = Acl(Entries(DOMAIN e.acl.named, e.dfl.mask), e.dfl.mask)
           /\ IsEntry(e.path, DOMAIN e.acl.named, e.compared, e.acl.mask, e.dfl.mask)
<1>1. PICK group, gs, compared, perms, default :
              /\ e = DirEntry(e.path, group, gs, compared, perms, default)
              /\ IsEntry(e.path, gs, compared, perms, default)
  BY EntryIs
<1>2. e.acl = Acl(Entries(gs, perms), perms) /\ e.dfl = Acl(Entries(gs, default), default) /\ e.compared = compared
  BY <1>1 DEF DirEntry
<1>3. e.acl.mask = perms /\ e.dfl.mask = default /\ e.acl.named = Entries(gs, perms)
  BY <1>2 DEF Acl
<1>4. DOMAIN e.acl.named = gs
  BY <1>3 DEF Entries
<1> QED BY <1>1, <1>2, <1>3, <1>4

LEMMA OpOfKind ==
    ASSUME NEW c, NEW op \in MostOps(c) \cup ExplicitOps(c)
    PROVE  /\ op.kind = "mkdir" => \E e \in ExpectedDirs(c) : op = Making(e.path, e.group)
           /\ op.kind = "modify" =>
                \E e \in ExpectedDirs(c) :
                   /\ e.compared # {}
                   /\ op = Modifying(e.path, DOMAIN e.acl.named, e.acl.mask, e.dfl.mask)
           /\ op.kind = "remove" =>
                \E e \in ExpectedDirs(c) :
                   /\ e.compared # DOMAIN e.acl.named
                   /\ op = Removing(e.path, e.compared \ DOMAIN e.acl.named)
           /\ op.kind = "link" =>
                \E l \in ExpectedLinks(c) \cup Elements(c.symlinks) : op = LinkingOf(l)
           /\ op.kind = "rmdirs" => \E s \in Elements(c.services) : op = RemovingDirs(c, s)
           /\ op.kind = "rmlinks" => \E ou \in Elements(c.ous) : op = RemovingLinks(c, ou)
           /\ op.kind \in {"mkdir", "modify", "remove", "link", "rmdirs", "rmlinks"}
<1>1. CASE \E e \in ExpectedDirs(c) : op = Making(e.path, e.group)
  BY <1>1, FieldsOfOps
<1>2. CASE \E e \in ExpectedDirs(c) :
             e.compared # {} /\ op = Modifying(e.path, DOMAIN e.acl.named, e.acl.mask, e.dfl.mask)
  <2>1. op.kind = "modify"
    BY <1>2, FieldsOfOps
  <2> QED BY <1>2, <2>1
<1>3. CASE \E e \in ExpectedDirs(c) :
             /\ e.compared # DOMAIN e.acl.named
             /\ op = Removing(e.path, e.compared \ DOMAIN e.acl.named)
  <2>1. op.kind = "remove"
    BY <1>3, FieldsOfOps
  <2> QED BY <1>3, <2>1
<1>4. CASE \E l \in ExpectedLinks(c) \cup Elements(c.symlinks) : op = LinkingOf(l)
  <2>1. op.kind = "link"
    BY <1>4, FieldsOfOps
  <2> QED BY <1>4, <2>1
<1>5. CASE \E s \in Elements(c.services) : op = RemovingDirs(c, s)
  <2>1. op.kind = "rmdirs"
    BY <1>5, FieldsOfOps
  <2> QED BY <1>5, <2>1
<1>6. CASE \E ou \in Elements(c.ous) : op = RemovingLinks(c, ou)
  <2>1. op.kind = "rmlinks"
    BY <1>6, FieldsOfOps
  <2> QED BY <1>6, <2>1
<1>7. \/ \E e \in ExpectedDirs(c) : op = Making(e.path, e.group)
      \/ \E e \in ExpectedDirs(c) :
             e.compared # {} /\ op = Modifying(e.path, DOMAIN e.acl.named, e.acl.mask, e.dfl.mask)
      \/ \E e \in ExpectedDirs(c) :
             /\ e.compared # DOMAIN e.acl.named
             /\ op = Removing(e.path, e.compared \ DOMAIN e.acl.named)
      \/ \E l \in ExpectedLinks(c) \cup Elements(c.symlinks) : op = LinkingOf(l)
      \/ \E s \in Elements(c.services) : op = RemovingDirs(c, s)
      \/ \E ou \in Elements(c.ous) : op = RemovingLinks(c, ou)
  BY KindsOfOps
<1> QED BY <1>1, <1>2, <1>3, <1>4, <1>5, <1>6, <1>7

\* The paths that check expects have two parts at least below the roots.
IsToplevel(p) ==
    /\ p \in Seq(Elements(p)) /\ p[1] \in {ServiceDir, OrgUnitDir}
    /\ p = <<p[1]>> \/ p = <<p[1], p[2]>> \/ p = <<p[1], p[2], p[3]>>

LEMMA Toplevels ==
    ASSUME NEW a \in {ServiceDir, OrgUnitDir}, NEW b, NEW d
    PROVE  IsToplevel(<<a>>) /\ IsToplevel(<<a, b>>) /\ IsToplevel(<<a, b, d>>)
<1>1. IsToplevel(<<a>>)
  <2>1. <<a>> \in Seq({a}) /\ Elements(<<a>>) = {a} /\ <<a>>[1] = a
    BY DEF Elements
  <2> QED BY <2>1 DEF IsToplevel
<1>2. IsToplevel(<<a, b>>)
  <2>1. <<a, b>> \in Seq({a, b}) /\ Elements(<<a, b>>) = {a, b} /\ <<a, b>>[1] = a /\ <<a, b>>[2] = b
    BY DEF Elements
  <2> QED BY <2>1 DEF IsToplevel
<1>3. IsToplevel(<<a, b, d>>)
  <2>1. /\ <<a, b, d>> \in Seq({a, b, d}) /\ Elements(<<a, b, d>>) = {a, b, d}
        /\ <<a, b, d>>[1] = a /\ <<a, b, d>>[2] = b /\ <<a, b, d>>[3] = d
    BY DEF Elements
  <2> QED BY <2>1 DEF IsToplevel
<1> QED BY <1>1, <1>2, <1>3

LEMMA ExpectedAreToplevel ==
    ASSUME NEW c, ConfigIsSound(c), NEW e \in ExpectedDirs(c)
    PROVE  IsToplevel(e.path)
<1>1. CASE IsRootOf(c, e)
  BY <1>1, Toplevels DEF IsRootOf, SrvRoot, OrgRoot
<1>2. CASE IsServiceOf(c, e)
  BY <1>2, Toplevels DEF IsServiceOf
<1>3. CASE IsSouOf(c, e)
  <2>1. PICK a, b : e.path = <<ServiceDir, a, b>>
    BY <1>3 DEF IsSouOf
  <2> QED BY <2>1, Toplevels
<1>4. CASE IsOuOf(c, e)
  BY <1>4, Toplevels DEF IsOuOf
<1>5. CASE IsSubdirOf(c, e)
  <2>1. PICK a, b : e.path = <<OrgUnitDir, a, b>>
    BY <1>5 DEF IsSubdirOf
  <2> QED BY <2>1, Toplevels
<1> QED BY <1>1, <1>2, <1>3, <1>4, <1>5, EntryByPath

\* What check expects in the directory of a service is what apply keeps there, and so for
\* the links in the directory of an org unit.
LEMMA KeptDirs ==
    ASSUME NEW c, ConfigIsSound(c), NEW e \in ExpectedDirs(c), NEW s \in Elements(c.services),
           Len(e.path) = 3, Parent(e.path) = ServicePath(s)
    PROVE  e.path \in RemovingDirs(c, s).expected
<1>1. OrgUnitDir # ServiceDir
  BY ConfigAssumption
<1>2. \A x, y \in Elements(c.services) : x.name = y.name => x = y
  BY Unique DEF ConfigIsSound
<1>3. CASE IsSouOf(c, e)
  <2>1. PICK t, ou :
           /\ t \in Elements(c.services)
           /\ ou \in AcceptedOus(c, t) /\ e.path = <<ServiceDir, t.name, ou.name>>
    BY <1>3 DEF IsSouOf
  <2>2. <<ServiceDir, t.name>> = <<ServiceDir, s.name>>
    BY <2>1, ParentOf DEF ServicePath
  <2>3. t = s
    BY <2>1, <1>2, <2>2
  <2> QED BY <2>1, <2>3, FieldsOfOps DEF SouPath
<1>4. CASE IsSubdirOf(c, e)
  <2>1. PICK a, b : e.path = <<OrgUnitDir, a, b>>
    BY <1>4 DEF IsSubdirOf
  <2>2. <<OrgUnitDir, a>> = <<ServiceDir, s.name>>
    BY <2>1, ParentOf DEF ServicePath
  <2> QED BY <1>1, <2>2
<1> QED BY <1>3, <1>4, EntryByPath

LEMMA KeptLinks ==
    ASSUME NEW c, ConfigIsSound(c), NEW l \in ExpectedLinks(c)
    PROVE  /\ IsToplevel(l.path) /\ Len(l.path) = 3 /\ l.path[1] = OrgUnitDir
           /\ \A ou \in Elements(c.ous) : Parent(l.path) = OuPath(ou) => l.path \in RemovingLinks(c, ou).expected
<1>1. PICK ou, s : ou \in Elements(c.ous) /\ s \in AcceptedServices(c, ou) /\ l = OuLink(ou, s)
  BY ExpectedLinksAre
<1>2. l.path = <<OrgUnitDir, ou.name, s.name>>
  BY <1>1 DEF OuLink, LinkPath
<1>3. \A x, y \in Elements(c.ous) : x.name = y.name => x = y
  BY Unique DEF ConfigIsSound
<1>4. ASSUME NEW ou2 \in Elements(c.ous), Parent(l.path) = OuPath(ou2)
      PROVE  l.path \in RemovingLinks(c, ou2).expected
  <2>1. <<OrgUnitDir, ou.name>> = <<OrgUnitDir, ou2.name>>
    BY <1>2, <1>4, ParentOf DEF OuPath
  <2>2. ou = ou2
    BY <1>1, <1>3, <2>1
  <2> QED BY <1>1, <1>2, <2>2, FieldsOfOps DEF LinkPath
<1>5. Len(l.path) = 3 /\ l.path[1] = OrgUnitDir
  BY <1>2
<1>6. IsToplevel(l.path)
  BY <1>2, Toplevels
<1> QED BY <1>4, <1>5, <1>6
-----------------------------------------------------------------------------
\* States.

IsAcl(a) == a = Acl([g \in DOMAIN a.named |-> a.named[g]], a.mask)
IsDir(d) == d = [group |-> d.group, acl |-> d.acl, dfl |-> d.dfl] /\ IsAcl(d.acl) /\ IsAcl(d.dfl)

\* No entry of the ACL allows more.
Limited(a, perms) == \A g \in DOMAIN a.named : a.named[g] \subseteq perms
Fits(p, d) ==
    /\ IsDir(d) /\ Limited(d.acl, Bound(p)) /\ Limited(d.dfl, Bound(p))
    /\ Len(p) = 1 => d.acl = NoAcl /\ d.dfl = NoAcl

\* What some configuration knows of.
KnownDirs == UNION {{e.path : e \in ExpectedDirs(Config[i])} : i \in DOMAIN Config}
KnownLinks ==
    UNION {{l.path : l \in ExpectedLinks(Config[i]) \cup Elements(Config[i].symlinks)} :
             i \in DOMAIN Config}

\* Whatever happens, only that is there, and the directories have fitting ACLs.
FilesAreKnown ==
    /\ dirs = [p \in DOMAIN dirs |-> dirs[p]] /\ links = [p \in DOMAIN links |-> links[p]]
    /\ DOMAIN dirs \subseteq KnownDirs /\ DOMAIN links \subseteq KnownLinks
    /\ \A p \in DOMAIN dirs : Fits(p, dirs[p])

\* A run never loses a directory that it has made.
MadeStays == pc > 0 => MadeBefore(Program[mine], pc) \subseteq DOMAIN dirs

BaseInv == TypeOK /\ FilesAreKnown /\ MadeStays

LEMMA ConfigFacts ==
    ASSUME NEW i \in DOMAIN Config
    PROVE  ConfigIsSound(Config[i]) /\ Program[i] = ProgramOf(Config[i])
  BY SoundAssumption DEF Program

LEMMA DirsAndLinks ==
    /\ KnownDirs \cap KnownLinks = {}
    /\ \A p \in KnownDirs : IsToplevel(p)
    /\ \A p \in KnownLinks : p \in Seq(Elements(p)) /\ p # <<>>
<1>1. ASSUME NEW i \in DOMAIN Config, NEW j \in DOMAIN Config,
             NEW e \in ExpectedDirs(Config[i]),
             NEW l \in ExpectedLinks(Config[j]) \cup Elements(Config[j].symlinks), e.path = l.path
      PROVE  FALSE
  <2>1. {x.path : x \in ExpectedDirs(Config[i])}
           \cap ({x.path : x \in ExpectedLinks(Config[j])} \cup {x.path : x \in Elements(Config[j].symlinks)}) = {}
    BY ConfigAssumption
  <2> QED BY <1>1, <2>1
<1>2. KnownDirs \cap KnownLinks = {}
  BY <1>1 DEF KnownDirs, KnownLinks
<1>3. \A p \in KnownDirs : IsToplevel(p)
  BY ConfigFacts, ExpectedAreToplevel DEF KnownDirs
<1>4. ASSUME NEW i \in DOMAIN Config, NEW l \in ExpectedLinks(Config[i]) \cup Elements(Config[i].symlinks)
      PROVE  l.path \in Seq(Elements(l.path)) /\ l.path # <<>>
  <2>1. CASE l \in ExpectedLinks(Config[i])
    <3>1. IsToplevel(l.path) /\ Len(l.path) = 3
      BY <2>1, ConfigFacts, KeptLinks
    <3> QED BY <3>1 DEF IsToplevel
  <2>2. CASE l \in Elements(Config[i].symlinks)
    BY <2>2, ConfigFacts DEF ConfigIsSound
  <2> QED BY <2>1, <2>2
<1>5. \A p \in KnownLinks : p \in Seq(Elements(p)) /\ p # <<>>
  BY <1>4 DEF KnownLinks
<1> QED BY <1>2, <1>3, <1>5

\* The operation that is due.
LEMMA DueOp ==
    ASSUME mine \in DOMAIN Config, pc \in 1 .. Len(Program[mine])
    PROVE  /\ Op \in MostOps(Config[mine]) \cup ExplicitOps(Config[mine])
           /\ HasBase(Op, MadeBefore(Program[mine], pc))
           /\ ConfigIsSound(Config[mine])
  BY ConfigFacts, ProgramFacts DEF Op

LEMMA NextMade ==
    ASSUME mine \in DOMAIN Config, pc \in 1 .. Len(Program[mine])
    PROVE  /\ Op.kind = "mkdir" =>
                 MadeBefore(Program[mine], pc + 1) = MadeBefore(Program[mine], pc) \cup {Op.path}
           /\ Op.kind # "mkdir" => MadeBefore(Program[mine], pc + 1) = MadeBefore(Program[mine], pc)
<1>1. pc \in Nat
  BY ConfigFacts, ProgramFacts
<1>2. \A k \in 1 .. (pc + 1) - 1 : k \in 1 .. pc - 1 \/ k = pc
  BY <1>1
<1>3. pc \in 1 .. (pc + 1) - 1 /\ \A k \in 1 .. pc - 1 : k \in 1 .. (pc + 1) - 1
  BY <1>1
<1> QED BY <1>2, <1>3 DEF MadeBefore, Op

\* What the operations on directories do to the filesystem.
LEMMA MakeDirEffect ==
    ASSUME BaseInv, MakeDir
    PROVE  \E e \in ExpectedDirs(Config[mine]) :
              /\ Op = Making(e.path, e.group)
              /\ DOMAIN dirs' = DOMAIN dirs \cup {e.path}
              /\ \A p \in DOMAIN dirs : p # e.path => dirs'[p] = dirs[p]
              /\ e.path \in DOMAIN dirs =>
                    dirs'[e.path] = [group |-> e.group, acl |-> dirs[e.path].acl, dfl |-> dirs[e.path].dfl]
              /\ e.path \notin DOMAIN dirs /\ Len(e.path) = 1 =>
                    dirs'[e.path] = [group |-> e.group, acl |-> NoAcl, dfl |-> NoAcl]
              /\ e.path \notin DOMAIN dirs /\ Len(e.path) # 1 =>
                    /\ Parent(e.path) \in DOMAIN dirs
                    /\ dirs'[e.path] = [group |-> e.group, acl |-> dirs[Parent(e.path)].dfl,
                                        dfl |-> dirs[Parent(e.path)].dfl]
              /\ Len(e.path) = 1 \/ Parent(e.path) \in DOMAIN dirs
              /\ dirs' = [p \in DOMAIN dirs' |-> dirs'[p]]
<1>1. mine \in DOMAIN Config /\ pc \in 1 .. Len(Program[mine]) /\ Op.kind = "mkdir"
  BY DEF BaseInv, TypeOK, MakeDir, IsDue
<1>2. PICK e \in ExpectedDirs(Config[mine]) : Op = Making(e.path, e.group)
  BY <1>1, DueOp, OpOfKind
<1>3. Op.path = e.path /\ Op.group = e.group
  BY <1>2, FieldsOfOps
<1>4. Len(e.path) = 1 \/ Parent(e.path) \in DOMAIN dirs
  <2>1. Len(e.path) = 1 \/ Parent(e.path) \in MadeBefore(Program[mine], pc)
    BY <1>1, <1>3, DueOp DEF HasBase
  <2>2. pc > 0
    BY <1>1, ConfigFacts, ProgramFacts
  <2> QED BY <2>1, <2>2 DEF BaseInv, MadeStays
<1> DEFINE inherited == IF Len(e.path) = 1 THEN NoAcl ELSE dirs[Parent(e.path)].dfl
           dir == IF e.path \in DOMAIN dirs
                  THEN [dirs[e.path] EXCEPT !.group = e.group]
                  ELSE [group |-> e.group, acl |-> inherited, dfl |-> inherited]
<1>5. dirs' = Put(dirs, e.path, dir)
  BY <1>3 DEF MakeDir
<1>6. dirs' = [p \in DOMAIN dirs \cup {e.path} |-> IF p = e.path THEN dir ELSE dirs[p]]
  BY <1>5 DEF Put
<1>8. e.path \in DOMAIN dirs => dir = [group |-> e.group, acl |-> dirs[e.path].acl, dfl |-> dirs[e.path].dfl]
  <2> SUFFICES ASSUME e.path \in DOMAIN dirs
               PROVE  dir = [group |-> e.group, acl |-> dirs[e.path].acl, dfl |-> dirs[e.path].dfl]
    OBVIOUS
  <2> DEFINE d == dirs[e.path]
             a == d.group
             b == d.acl
             c == d.dfl
             group == e.group
  <2>1. d = [group |-> a, acl |-> b, dfl |-> c]
    BY DEF BaseInv, FilesAreKnown, Fits, IsDir
  <2>2. dir = [d EXCEPT !.group = group]
    OBVIOUS
  <2>3. [d EXCEPT !.group = group] = [group |-> group, acl |-> b, dfl |-> c]
    <3> HIDE DEF a, b, c, d, group
    <3> QED BY <2>1
  <2> QED BY <2>2, <2>3
<1> HIDE DEF dir
<1>7. /\ DOMAIN dirs' = DOMAIN dirs \cup {e.path} /\ dirs'[e.path] = dir
      /\ \A p \in DOMAIN dirs : p # e.path => dirs'[p] = dirs[p]
      /\ dirs' = [p \in DOMAIN dirs' |-> dirs'[p]]
  BY <1>6
<1>9. e.path \notin DOMAIN dirs => dir = [group |-> e.group, acl |-> inherited, dfl |-> inherited]
  BY DEF dir
<1> QED BY <1>2, <1>4, <1>7, <1>8, <1>9

\* setfacl -M, and setfacl -X.
SetEntries(d, gs, perms, default) ==
    [group |-> d.group, acl |-> Modified(d.acl, gs, perms), dfl |-> Modified(d.dfl, gs, default)]
DropEntries(d, gs) ==
    [group |-> d.group, acl |-> Unmasked(Without(d.acl.named, gs)),
     dfl |-> Unmasked(Without(d.dfl.named, gs))]

LEMMA ModifyAclEffect ==
    ASSUME BaseInv, ModifyAcl
    PROVE  \E e \in ExpectedDirs(Config[mine]) :
              /\ e.compared # {} /\ e.path \in DOMAIN dirs
              /\ Op = Modifying(e.path, DOMAIN e.acl.named, e.acl.mask, e.dfl.mask)
              /\ DOMAIN dirs' = DOMAIN dirs
              /\ \A p \in DOMAIN dirs : p # e.path => dirs'[p] = dirs[p]
              /\ dirs'[e.path] = SetEntries(dirs[e.path], DOMAIN e.acl.named, e.acl.mask, e.dfl.mask)
              /\ dirs' = [p \in DOMAIN dirs' |-> dirs'[p]]
<1>1. mine \in DOMAIN Config /\ pc \in 1 .. Len(Program[mine]) /\ Op.kind = "modify"
  BY DEF BaseInv, TypeOK, ModifyAcl, IsDue
<1>2. PICK e \in ExpectedDirs(Config[mine]) :
         e.compared # {} /\ Op = Modifying(e.path, DOMAIN e.acl.named, e.acl.mask, e.dfl.mask)
  BY <1>1, DueOp, OpOfKind
<1>3. Op.path = e.path /\ Op.groups = DOMAIN e.acl.named /\ Op.perms = e.acl.mask /\ Op.default = e.dfl.mask
  BY <1>2, FieldsOfOps
<1>4. e.path \in DOMAIN dirs
  <2>1. e.path \in MadeBefore(Program[mine], pc)
    BY <1>1, <1>3, DueOp DEF HasBase
  <2>2. pc > 0
    BY <1>1, ConfigFacts, ProgramFacts
  <2> QED BY <2>1, <2>2 DEF BaseInv, MadeStays
<1> DEFINE d == dirs[e.path]
           x == Modified(d.acl, Op.groups, Op.perms)
           y == Modified(d.dfl, Op.groups, Op.default)
<1>5. dirs' = [dirs EXCEPT ![e.path] = [d EXCEPT !.acl = x, !.dfl = y]]
  BY <1>3 DEF ModifyAcl
<1>6. d = [group |-> d.group, acl |-> d.acl, dfl |-> d.dfl]
  BY <1>4 DEF BaseInv, FilesAreKnown, Fits, IsDir
<1>7. [d EXCEPT !.acl = x, !.dfl = y] = SetEntries(d, DOMAIN e.acl.named, e.acl.mask, e.dfl.mask)
  <2>1. [group |-> d.group, acl |-> x, dfl |-> y] = SetEntries(d, DOMAIN e.acl.named, e.acl.mask, e.dfl.mask)
    BY <1>3 DEF SetEntries
  <2> HIDE DEF d, x, y
  <2>2. [d EXCEPT !.acl = x, !.dfl = y] = [group |-> d.group, acl |-> x, dfl |-> y]
    <3> DEFINE a == d.group
               b == d.acl
               c == d.dfl
               r == [d EXCEPT !.acl = x]
               t == [r EXCEPT !.dfl = y]
    <3>1. d = [group |-> a, acl |-> b, dfl |-> c]
      BY <1>6
    <3> HIDE DEF a, b, c
    <3>2. r = [group |-> a, acl |-> x, dfl |-> c]
      BY <3>1
    <3>3. t = [group |-> a, acl |-> x, dfl |-> y]
      <4> HIDE DEF r
      <4> QED BY <3>2
    <3>4. t = [d EXCEPT !.acl = x, !.dfl = y]
      BY <3>1
    <3> QED BY <3>3, <3>4 DEF a
  <2> QED BY <2>1, <2>2
<1> HIDE DEF d, x, y
<1>8. dirs' = [dirs EXCEPT ![e.path] = SetEntries(d, DOMAIN e.acl.named, e.acl.mask, e.dfl.mask)]
  BY <1>5, <1>7
<1>9. dirs = [p \in DOMAIN dirs |-> dirs[p]]
  BY DEF BaseInv, FilesAreKnown
<1> QED BY <1>2, <1>4, <1>8, <1>9 DEF d

LEMMA RemoveEntriesEffect ==
    ASSUME BaseInv, RemoveEntries
    PROVE  \E e \in ExpectedDirs(Config[mine]) :
              /\ e.compared # DOMAIN e.acl.named /\ e.path \in DOMAIN dirs
              /\ Op = Removing(e.path, e.compared \ DOMAIN e.acl.named)
              /\ DOMAIN dirs' = DOMAIN dirs
              /\ \A p \in DOMAIN dirs : p # e.path => dirs'[p] = dirs[p]
              /\ dirs'[e.path] = DropEntries(dirs[e.path], e.compared \ DOMAIN e.acl.named)
              /\ dirs' = [p \in DOMAIN dirs' |-> dirs'[p]]
<1>1. mine \in DOMAIN Config /\ pc \in 1 .. Len(Program[mine]) /\ Op.kind = "remove"
  BY DEF BaseInv, TypeOK, RemoveEntries, IsDue
<1>2. PICK e \in ExpectedDirs(Config[mine]) :
         e.compared # DOMAIN e.acl.named /\ Op = Removing(e.path, e.compared \ DOMAIN e.acl.named)
  BY <1>1, DueOp, OpOfKind
<1>3. Op.path = e.path /\ Op.groups = e.compared \ DOMAIN e.acl.named
  BY <1>2, FieldsOfOps
<1>4. e.path \in DOMAIN dirs
  <2>1. e.path \in MadeBefore(Program[mine], pc)
    BY <1>1, <1>3, DueOp DEF HasBase
  <2>2. pc > 0
    BY <1>1, ConfigFacts, ProgramFacts
  <2> QED BY <2>1, <2>2 DEF BaseInv, MadeStays
<1> DEFINE d == dirs[e.path]
           x == Unmasked(Without(d.acl.named, Op.groups))
           y == Unmasked(Without(d.dfl.named, Op.groups))
<1>5. dirs' = [dirs EXCEPT ![e.path] = [d EXCEPT !.acl = x, !.dfl = y]]
  BY <1>3 DEF RemoveEntries
<1>6. d = [group |-> d.group, acl |-> d.acl, dfl |-> d.dfl]
  BY <1>4 DEF BaseInv, FilesAreKnown, Fits, IsDir
<1>7. [d EXCEPT !.acl = x, !.dfl = y] = DropEntries(d, e.compared \ DOMAIN e.acl.named)
  <2>1. [group |-> d.group, acl |-> x, dfl |-> y] = DropEntries(d, e.compared \ DOMAIN e.acl.named)
    BY <1>3 DEF DropEntries
  <2> HIDE DEF d, x, y
  <2>2. [d EXCEPT !.acl = x, !.dfl = y] = [group |-> d.group, acl |-> x, dfl |-> y]
    <3> DEFINE a == d.group
               b == d.acl
               c == d.dfl
               r == [d EXCEPT !.acl = x]
               t == [r EXCEPT !.dfl = y]
    <3>1. d = [group |-> a, acl |-> b, dfl |-> c]
      BY <1>6
    <3> HIDE DEF a, b, c
    <3>2. r = [group |-> a, acl |-> x, dfl |-> c]
      BY <3>1
    <3>3. t = [group |-> a, acl |-> x, dfl |-> y]
      <4> HIDE DEF r
      <4> QED BY <3>2
    <3>4. t = [d EXCEPT !.acl = x, !.dfl = y]
      BY <3>1
    <3> QED BY <3>3, <3>4 DEF a
  <2> QED BY <2>1, <2>2
<1> HIDE DEF d, x, y
<1>8. dirs' = [dirs EXCEPT ![e.path] = DropEntries(d, e.compared \ DOMAIN e.acl.named)]
  BY <1>5, <1>7
<1>9. dirs = [p \in DOMAIN dirs |-> dirs[p]]
  BY DEF BaseInv, FilesAreKnown
<1> QED BY <1>2, <1>4, <1>8, <1>9 DEF d
LEMMA ModifiedFacts ==
    ASSUME NEW a, NEW gs, NEW perms
    PROVE  /\ IsAcl(Modified(a, gs, perms))
           /\ DOMAIN Modified(a, gs, perms).named = DOMAIN a.named \cup gs
           /\ \A g \in gs : Modified(a, gs, perms).named[g] = perms
           /\ \A g \in DOMAIN a.named \ gs : Modified(a, gs, perms).named[g] = a.named[g]
           /\ Modified(a, gs, perms).mask = perms
<1> DEFINE f == [g \in DOMAIN a.named \cup gs |-> IF g \in gs THEN perms ELSE a.named[g]]
<1>1. Modified(a, gs, perms) = Acl(f, perms)
  BY DEF Modified
<1>2. f = [g \in DOMAIN f |-> f[g]]
  OBVIOUS
<1>3. /\ DOMAIN f = DOMAIN a.named \cup gs /\ \A g \in gs : f[g] = perms
      /\ \A g \in DOMAIN a.named \ gs : f[g] = a.named[g]
  OBVIOUS
<1> HIDE DEF f
<1>4. Acl(f, perms).named = f /\ Acl(f, perms).mask = perms
  BY DEF Acl
<1>5. IsAcl(Acl(f, perms))
  BY <1>2, <1>4 DEF IsAcl
<1> QED BY <1>1, <1>3, <1>4, <1>5

LEMMA UnmaskedFacts ==
    ASSUME NEW h, NEW gs
    PROVE  /\ IsAcl(Unmasked(Without(h, gs)))
           /\ DOMAIN Unmasked(Without(h, gs)).named = DOMAIN h \ gs
           /\ \A g \in DOMAIN h \ gs : Unmasked(Without(h, gs)).named[g] = h[g]
           /\ Unmasked(Without(h, gs)).mask = UNION {h[g] : g \in DOMAIN h \ gs}
<1> DEFINE f == [g \in DOMAIN h \ gs |-> h[g]]
           m == UNION {f[g] : g \in DOMAIN f}
<1>1. Unmasked(Without(h, gs)) = Acl(f, m)
  BY DEF Unmasked, Without
<1>2. f = [g \in DOMAIN f |-> f[g]]
  OBVIOUS
<1>3. DOMAIN f = DOMAIN h \ gs /\ \A g \in DOMAIN h \ gs : f[g] = h[g]
  OBVIOUS
<1>4. m = UNION {h[g] : g \in DOMAIN h \ gs}
  OBVIOUS
<1> HIDE DEF f, m
<1>5. Acl(f, m).named = f /\ Acl(f, m).mask = m
  BY DEF Acl
<1>6. IsAcl(Acl(f, m))
  BY <1>2, <1>5 DEF IsAcl
<1> QED BY <1>1, <1>3, <1>4, <1>5, <1>6

LEMMA SetFits ==
    ASSUME NEW p, NEW d, Fits(p, d), Len(p) # 1, NEW gs, NEW x, x \subseteq Bound(p),
           NEW y, y \subseteq Bound(p)
    PROVE  Fits(p, SetEntries(d, gs, x, y))
<1> DEFINE a == Modified(d.acl, gs, x)
           b == Modified(d.dfl, gs, y)
<1>1. SetEntries(d, gs, x, y) = [group |-> d.group, acl |-> a, dfl |-> b]
  BY DEF SetEntries
<1>2. IsAcl(a) /\ IsAcl(b)
  BY ModifiedFacts
<1>3. Limited(a, Bound(p)) /\ Limited(b, Bound(p))
  BY ModifiedFacts DEF Limited, Fits
<1> HIDE DEF a, b
<1> QED BY <1>1, <1>2, <1>3 DEF Fits, IsDir

LEMMA DropFits ==
    ASSUME NEW p, NEW d, Fits(p, d), Len(p) # 1, NEW gs
    PROVE  Fits(p, DropEntries(d, gs))
<1> DEFINE a == Unmasked(Without(d.acl.named, gs))
           b == Unmasked(Without(d.dfl.named, gs))
<1>1. DropEntries(d, gs) = [group |-> d.group, acl |-> a, dfl |-> b]
  BY DEF DropEntries
<1>2. IsAcl(a) /\ IsAcl(b)
  BY UnmaskedFacts
<1>3. Limited(a, Bound(p)) /\ Limited(b, Bound(p))
  BY UnmaskedFacts DEF Limited, Fits
<1> HIDE DEF a, b
<1> QED BY <1>1, <1>2, <1>3 DEF Fits, IsDir

LEMMA GroupFits ==
    ASSUME NEW p, NEW d, Fits(p, d), NEW group
    PROVE  Fits(p, [group |-> group, acl |-> d.acl, dfl |-> d.dfl])
  BY DEF Fits, IsDir

\* A new directory inherits what its parent allows, and that fits.
LEMMA InheritedFits ==
    ASSUME NEW p, IsToplevel(p), Len(p) # 1, NEW d, Fits(Parent(p), d), NEW group
    PROVE  Fits(p, [group |-> group, acl |-> d.dfl, dfl |-> d.dfl])
<1>1. IsAcl(d.dfl) /\ Limited(d.dfl, Bound(Parent(p)))
  BY DEF Fits, IsDir
<1>2. CASE Len(p) = 2
  <2>1. p = <<p[1], p[2]>>
    BY <1>2 DEF IsToplevel
  <2>2. Parent(p) = <<p[1]>>
    BY <2>1, ParentOf
  <2>3. Len(Parent(p)) = 1
    BY <2>2
  <2>4. d.dfl = NoAcl
    BY <2>3 DEF Fits
  <2>5. DOMAIN d.dfl.named = {}
    BY <2>4 DEF NoAcl, Acl
  <2>6. Limited(d.dfl, Bound(p))
    BY <2>5 DEF Limited
  <2> QED BY <1>1, <1>2, <2>6 DEF Fits, IsDir
<1>3. CASE Len(p) = 3
  <2>1. Bound(p) = RWX /\ Bound(Parent(p)) \subseteq RWX
    BY <1>3, Kinds DEF Bound
  <2>2. Limited(d.dfl, Bound(p))
    BY <1>1, <2>1 DEF Limited
  <2> QED BY <1>1, <1>3, <2>2 DEF Fits, IsDir
<1>4. Len(p) \in {1, 2, 3}
  <2>1. p = <<p[1]>> \/ p = <<p[1], p[2]>> \/ p = <<p[1], p[2], p[3]>>
    BY DEF IsToplevel
  <2>2. \A a, b, c : Len(<<a>>) = 1 /\ Len(<<a, b>>) = 2 /\ Len(<<a, b, c>>) = 3
    OBVIOUS
  <2> QED BY <2>1, <2>2
<1> QED BY <1>2, <1>3, <1>4
-----------------------------------------------------------------------------
\* Every action keeps the filesystem in order.

IsTree ==
    /\ \A p \in DOMAIN dirs \cup DOMAIN links : Len(p) = 1 \/ Parent(p) \in DOMAIN dirs
    /\ DOMAIN links \cap DOMAIN dirs = {}
    /\ filled \subseteq DOMAIN dirs

LEMMA KnownIsDisjoint ==
    ASSUME DOMAIN dirs \subseteq KnownDirs, DOMAIN links \subseteq KnownLinks
    PROVE  DOMAIN links \cap DOMAIN dirs = {}
  BY DirsAndLinks

LEMMA StepKeeps ==
    ASSUME BaseInv, pc \in 1 .. Len(Program[mine]), UNCHANGED <<filled, conf, mine, calm, acts>>,
           Done, IsTree', FilesAreKnown', MadeBefore(Program[mine], pc) \subseteq DOMAIN dirs',
           Op.kind = "mkdir" => Op.path \in DOMAIN dirs'
    PROVE  BaseInv'
<1>1. mine \in DOMAIN Config /\ pc' = pc + 1 /\ last' = last /\ mine' = mine
  BY DEF BaseInv, TypeOK, Done
<1>2. Len(Program[mine]) \in Nat
  BY <1>1, ConfigFacts, ProgramFacts
<1>3. pc' \in 0 .. Len(Program[mine']) + 1
  BY <1>1, <1>2
<1>4. TypeOK'
  BY <1>1, <1>3 DEF BaseInv, TypeOK, IsTree
<1>5. MadeBefore(Program[mine], pc + 1) \subseteq DOMAIN dirs'
  BY <1>1, NextMade
<1>6. MadeStays'
  BY <1>1, <1>5 DEF MadeStays
<1> QED BY <1>4, <1>6 DEF BaseInv

LEMMA InKnownDirs ==
    ASSUME mine \in DOMAIN Config, NEW e \in ExpectedDirs(Config[mine])
    PROVE  e.path \in KnownDirs /\ IsToplevel(e.path)
<1>1. e.path \in KnownDirs
  BY DEF KnownDirs
<1> QED BY <1>1, DirsAndLinks

LEMMA MakeDirKeeps ==
    ASSUME BaseInv, MakeDir
    PROVE  BaseInv'
<1>1. PICK e \in ExpectedDirs(Config[mine]) :
              /\ Op = Making(e.path, e.group)
              /\ DOMAIN dirs' = DOMAIN dirs \cup {e.path}
              /\ \A p \in DOMAIN dirs : p # e.path => dirs'[p] = dirs[p]
              /\ e.path \in DOMAIN dirs =>
                    dirs'[e.path] = [group |-> e.group, acl |-> dirs[e.path].acl, dfl |-> dirs[e.path].dfl]
              /\ e.path \notin DOMAIN dirs /\ Len(e.path) = 1 =>
                    dirs'[e.path] = [group |-> e.group, acl |-> NoAcl, dfl |-> NoAcl]
              /\ e.path \notin DOMAIN dirs /\ Len(e.path) # 1 =>
                    /\ Parent(e.path) \in DOMAIN dirs
                    /\ dirs'[e.path] = [group |-> e.group, acl |-> dirs[Parent(e.path)].dfl,
                                        dfl |-> dirs[Parent(e.path)].dfl]
              /\ Len(e.path) = 1 \/ Parent(e.path) \in DOMAIN dirs
              /\ dirs' = [p \in DOMAIN dirs' |-> dirs'[p]]
  BY MakeDirEffect
<1>2. /\ pc \in 1 .. Len(Program[mine]) /\ UNCHANGED <<filled, conf, mine, calm, acts>> /\ Done
      /\ links' = links /\ mine \in DOMAIN Config
  BY DEF MakeDir, IsDue, BaseInv, TypeOK
<1>3. e.path \in KnownDirs /\ IsToplevel(e.path)
  BY <1>2, InKnownDirs
<1>4. \A p \in DOMAIN dirs : Fits(p, dirs[p])
  BY DEF BaseInv, FilesAreKnown
<1>5. Fits(e.path, dirs'[e.path])
  <2>1. CASE e.path \in DOMAIN dirs
    BY <1>1, <1>4, <2>1, GroupFits
  <2>2. CASE e.path \notin DOMAIN dirs /\ Len(e.path) = 1
    <3>1. IsAcl(NoAcl) /\ DOMAIN NoAcl.named = {}
      BY DEF IsAcl, NoAcl, Acl
    <3>2. dirs'[e.path] = [group |-> e.group, acl |-> NoAcl, dfl |-> NoAcl]
      BY <1>1, <2>2
    <3> QED BY <3>1, <3>2 DEF Fits, IsDir, Limited
  <2>3. CASE e.path \notin DOMAIN dirs /\ Len(e.path) # 1
    <3>1. Fits(Parent(e.path), dirs[Parent(e.path)])
      BY <1>1, <1>4, <2>3
    <3> QED BY <1>1, <1>3, <2>3, <3>1, InheritedFits
  <2> QED BY <2>1, <2>2, <2>3
<1>6. FilesAreKnown'
  <2>1. DOMAIN dirs' \subseteq KnownDirs
    BY <1>1, <1>3 DEF BaseInv, FilesAreKnown
  <2>2. \A p \in DOMAIN dirs' : Fits(p, dirs'[p])
    BY <1>1, <1>4, <1>5
  <2> QED BY <1>1, <1>2, <2>1, <2>2 DEF BaseInv, FilesAreKnown
<1>7. IsTree'
  <2>1. \A p \in DOMAIN dirs' \cup DOMAIN links' : Len(p) = 1 \/ Parent(p) \in DOMAIN dirs'
    BY <1>1, <1>2 DEF BaseInv, TypeOK
  <2>2. DOMAIN links' \cap DOMAIN dirs' = {}
    BY <1>6, DirsAndLinks DEF FilesAreKnown
  <2>3. filled' \subseteq DOMAIN dirs'
    BY <1>1, <1>2 DEF BaseInv, TypeOK
  <2> QED BY <2>1, <2>2, <2>3 DEF IsTree
<1>8. MadeBefore(Program[mine], pc) \subseteq DOMAIN dirs' /\ Op.path \in DOMAIN dirs'
  <2>1. Op.path = e.path /\ pc > 0
    BY <1>1, <1>2, FieldsOfOps, ConfigFacts, ProgramFacts
  <2> QED BY <1>1, <2>1 DEF BaseInv, MadeStays
<1> QED BY <1>2, <1>6, <1>7, <1>8, StepKeeps

\* setfacl changes nothing but the ACLs.
LEMMA AclsKeep ==
    ASSUME BaseInv, pc \in 1 .. Len(Program[mine]), Op.kind # "mkdir",
           UNCHANGED <<links, filled, conf, mine, calm, acts>>, Done,
           DOMAIN dirs' = DOMAIN dirs, dirs' = [p \in DOMAIN dirs' |-> dirs'[p]],
           \A p \in DOMAIN dirs : Fits(p, dirs'[p])
    PROVE  BaseInv'
<1>1. FilesAreKnown'
  BY DEF BaseInv, FilesAreKnown
<1>2. IsTree'
  BY DEF BaseInv, TypeOK, IsTree
<1>3. pc > 0
  BY ConfigFacts, ProgramFacts DEF BaseInv, TypeOK
<1>4. MadeBefore(Program[mine], pc) \subseteq DOMAIN dirs'
  BY <1>3 DEF BaseInv, MadeStays
<1> QED BY <1>1, <1>2, <1>4, StepKeeps

LEMMA CertainlyBelow ==
    ASSUME mine \in DOMAIN Config, NEW e \in ExpectedDirs(Config[mine])
    PROVE  /\ IsEntry(e.path, DOMAIN e.acl.named, e.compared, e.acl.mask, e.dfl.mask)
           /\ e.compared # {} => Len(e.path) # 1
           /\ e.compared # DOMAIN e.acl.named => Len(e.path) # 1
<1>1. IsEntry(e.path, DOMAIN e.acl.named, e.compared, e.acl.mask, e.dfl.mask)
  BY ConfigFacts, EntryFacts
<1> QED BY <1>1 DEF IsEntry

LEMMA ModifyAclKeeps ==
    ASSUME BaseInv, ModifyAcl
    PROVE  BaseInv'
<1>1. PICK e \in ExpectedDirs(Config[mine]) :
              /\ e.compared # {} /\ e.path \in DOMAIN dirs
              /\ Op = Modifying(e.path, DOMAIN e.acl.named, e.acl.mask, e.dfl.mask)
              /\ DOMAIN dirs' = DOMAIN dirs
              /\ \A p \in DOMAIN dirs : p # e.path => dirs'[p] = dirs[p]
              /\ dirs'[e.path] = SetEntries(dirs[e.path], DOMAIN e.acl.named, e.acl.mask, e.dfl.mask)
              /\ dirs' = [p \in DOMAIN dirs' |-> dirs'[p]]
  BY ModifyAclEffect
<1>2. /\ pc \in 1 .. Len(Program[mine]) /\ UNCHANGED <<links, filled, conf, mine, calm, acts>> /\ Done
      /\ mine \in DOMAIN Config /\ Op.kind # "mkdir"
  BY DEF ModifyAcl, IsDue, BaseInv, TypeOK
<1>3. \A p \in DOMAIN dirs : Fits(p, dirs[p])
  BY DEF BaseInv, FilesAreKnown
<1>4. e.acl.mask \subseteq Bound(e.path) /\ e.dfl.mask \subseteq Bound(e.path) /\ Len(e.path) # 1
  BY <1>1, <1>2, CertainlyBelow DEF IsEntry
<1>5. Fits(e.path, dirs'[e.path])
  BY <1>1, <1>3, <1>4, SetFits
<1>6. \A p \in DOMAIN dirs : Fits(p, dirs'[p])
  BY <1>1, <1>3, <1>5
<1> QED BY <1>1, <1>2, <1>6, AclsKeep

LEMMA RemoveEntriesKeeps ==
    ASSUME BaseInv, RemoveEntries
    PROVE  BaseInv'
<1>1. PICK e \in ExpectedDirs(Config[mine]) :
              /\ e.compared # DOMAIN e.acl.named /\ e.path \in DOMAIN dirs
              /\ Op = Removing(e.path, e.compared \ DOMAIN e.acl.named)
              /\ DOMAIN dirs' = DOMAIN dirs
              /\ \A p \in DOMAIN dirs : p # e.path => dirs'[p] = dirs[p]
              /\ dirs'[e.path] = DropEntries(dirs[e.path], e.compared \ DOMAIN e.acl.named)
              /\ dirs' = [p \in DOMAIN dirs' |-> dirs'[p]]
  BY RemoveEntriesEffect
<1>2. /\ pc \in 1 .. Len(Program[mine]) /\ UNCHANGED <<links, filled, conf, mine, calm, acts>> /\ Done
      /\ mine \in DOMAIN Config /\ Op.kind # "mkdir"
  BY DEF RemoveEntries, IsDue, BaseInv, TypeOK
<1>3. \A p \in DOMAIN dirs : Fits(p, dirs[p])
  BY DEF BaseInv, FilesAreKnown
<1>4. Len(e.path) # 1
  BY <1>1, <1>2, CertainlyBelow
<1>5. Fits(e.path, dirs'[e.path])
  BY <1>1, <1>3, <1>4, DropFits
<1>6. \A p \in DOMAIN dirs : Fits(p, dirs'[p])
  BY <1>1, <1>3, <1>5
<1> QED BY <1>1, <1>2, <1>6, AclsKeep
LEMMA MadeAreExpected ==
    ASSUME mine \in DOMAIN Config, pc \in 1 .. Len(Program[mine]),
           NEW p \in MadeBefore(Program[mine], pc)
    PROVE  \E e \in ExpectedDirs(Config[mine]) : p = e.path
<1> DEFINE c == Config[mine]
           t == Program[mine]
<1>1. PICK k \in 1 .. pc - 1 : t[k].kind = "mkdir" /\ p = t[k].path
  BY DEF MadeBefore
<1>2. Len(t) \in Nat /\ \A i \in 1 .. Len(t) : t[i] \in MostOps(c) \cup ExplicitOps(c)
  BY ConfigFacts, ProgramFacts
<1> HIDE DEF c, t
<1>3. k \in 1 .. Len(t)
  BY <1>1, <1>2 DEF t
<1>4. PICK e \in ExpectedDirs(c) : t[k] = Making(e.path, e.group)
  BY <1>1, <1>2, <1>3, OpOfKind
<1>5. p = e.path
  BY <1>1, <1>4, FieldsOfOps
<1> QED BY <1>5 DEF c

LEMMA RemoveSubdirsEffect ==
    ASSUME BaseInv, RemoveUnexpectedSubdirs
    PROVE  \E s \in Elements(Config[mine].services) : \E gone :
              /\ Op = RemovingDirs(Config[mine], s)
              /\ gone = ChildrenIn(dirs, ServicePath(s)) \ (Op.expected \cup NotEmpty)
              /\ dirs' = [p \in DOMAIN dirs \ gone |-> dirs[p]]
              /\ \A p \in gone : Len(p) = 3 /\ p \in DOMAIN dirs /\ p \notin NotEmpty
              /\ \A e \in ExpectedDirs(Config[mine]) : e.path \notin gone
<1>1. mine \in DOMAIN Config /\ pc \in 1 .. Len(Program[mine]) /\ Op.kind = "rmdirs"
  BY DEF BaseInv, TypeOK, RemoveUnexpectedSubdirs, IsDue
<1>2. PICK s \in Elements(Config[mine].services) : Op = RemovingDirs(Config[mine], s)
  BY <1>1, DueOp, OpOfKind
<1> DEFINE gone == ChildrenIn(dirs, ServicePath(s)) \ (Op.expected \cup NotEmpty)
<1>3. Op.path = ServicePath(s) /\ Len(ServicePath(s)) = 2
  BY <1>2, FieldsOfOps DEF ServicePath
<1>4. dirs' = [p \in DOMAIN dirs \ gone |-> dirs[p]]
  BY <1>3 DEF RemoveUnexpectedSubdirs, Without
<1>5. \A p \in gone : /\ Len(p) = 3 /\ Parent(p) = ServicePath(s) /\ p \in DOMAIN dirs
                      /\ p \notin NotEmpty /\ p \notin Op.expected
  BY <1>3 DEF ChildrenIn
<1>6. ASSUME NEW e \in ExpectedDirs(Config[mine]), e.path \in gone PROVE FALSE
  <2>1. Len(e.path) = 3 /\ Parent(e.path) = ServicePath(s) /\ e.path \notin Op.expected
    BY <1>5, <1>6
  <2>2. e.path \in RemovingDirs(Config[mine], s).expected
    BY <1>1, <2>1, ConfigFacts, KeptDirs
  <2> QED BY <1>2, <2>1, <2>2
<1> HIDE DEF gone
<1>7. gone = ChildrenIn(dirs, ServicePath(s)) \ (Op.expected \cup NotEmpty)
  BY DEF gone
<1> QED BY <1>2, <1>4, <1>5, <1>6, <1>7

LEMMA RemoveSubdirsKeeps ==
    ASSUME BaseInv, RemoveUnexpectedSubdirs
    PROVE  BaseInv'
<1>1. PICK s, gone :
              /\ s \in Elements(Config[mine].services)
              /\ Op = RemovingDirs(Config[mine], s)
              /\ dirs' = [p \in DOMAIN dirs \ gone |-> dirs[p]]
              /\ \A p \in gone : Len(p) = 3 /\ p \in DOMAIN dirs /\ p \notin NotEmpty
              /\ \A e \in ExpectedDirs(Config[mine]) : e.path \notin gone
  BY RemoveSubdirsEffect
<1>2. /\ pc \in 1 .. Len(Program[mine]) /\ UNCHANGED <<filled, conf, mine, calm, acts>> /\ Done
      /\ links' = links /\ mine \in DOMAIN Config /\ Op.kind # "mkdir"
  BY DEF RemoveUnexpectedSubdirs, IsDue, BaseInv, TypeOK
<1>3. DOMAIN dirs' = DOMAIN dirs \ gone /\ \A p \in DOMAIN dirs' : dirs'[p] = dirs[p]
  BY <1>1
<1>4. FilesAreKnown'
  <2>1. dirs' = [p \in DOMAIN dirs' |-> dirs'[p]]
    BY <1>1
  <2>2. DOMAIN dirs' \subseteq KnownDirs /\ \A p \in DOMAIN dirs' : Fits(p, dirs'[p])
    BY <1>3 DEF BaseInv, FilesAreKnown
  <2> QED BY <1>2, <2>1, <2>2 DEF BaseInv, FilesAreKnown
<1>5. IsTree'
  <2>1. ASSUME NEW p \in DOMAIN dirs' \cup DOMAIN links', Len(p) # 1
        PROVE  Parent(p) \in DOMAIN dirs'
    <3>1. p \in DOMAIN dirs \cup DOMAIN links
      BY <1>2, <1>3
    <3>2. Parent(p) \in DOMAIN dirs
      BY <2>1, <3>1 DEF BaseInv, TypeOK
    <3>3. Parent(p) \in NotEmpty
      BY <3>1 DEF NotEmpty
    <3> QED BY <1>1, <1>3, <3>2, <3>3
  <2>2. DOMAIN links' \cap DOMAIN dirs' = {}
    BY <1>2, <1>3 DEF BaseInv, TypeOK
  <2>3. filled' \subseteq DOMAIN dirs'
    BY <1>1, <1>2, <1>3 DEF BaseInv, TypeOK, NotEmpty
  <2> QED BY <2>1, <2>2, <2>3 DEF IsTree
<1>6. MadeBefore(Program[mine], pc) \subseteq DOMAIN dirs'
  <2>1. pc > 0
    BY <1>2, ConfigFacts, ProgramFacts
  <2>2. MadeBefore(Program[mine], pc) \subseteq DOMAIN dirs
    BY <2>1 DEF BaseInv, MadeStays
  <2>3. \A p \in MadeBefore(Program[mine], pc) : p \notin gone
    BY <1>1, <1>2, MadeAreExpected
  <2> QED BY <1>3, <2>2, <2>3
<1> QED BY <1>2, <1>4, <1>5, <1>6, StepKeeps

LEMMA EnsureLinkEffect ==
    ASSUME BaseInv, EnsureLink
    PROVE  \E l \in ExpectedLinks(Config[mine]) \cup Elements(Config[mine].symlinks) :
              /\ Op = LinkingOf(l)
              /\ \/ /\ l.path \in DOMAIN links /\ links[l.path] = l.target
                    /\ Done /\ links' = links
                 \/ /\ l.path \notin DOMAIN links /\ l.path \notin DOMAIN dirs
                    /\ Parent(l.path) \in DOMAIN dirs /\ Done
                    /\ links' = [p \in DOMAIN links \cup {l.path} |-> IF p = l.path THEN l.target ELSE links[p]]
                 \/ End("failed") /\ links' = links
<1>1. mine \in DOMAIN Config /\ pc \in 1 .. Len(Program[mine]) /\ Op.kind = "link"
  BY DEF BaseInv, TypeOK, EnsureLink, IsDue
<1>2. PICK l \in ExpectedLinks(Config[mine]) \cup Elements(Config[mine].symlinks) : Op = LinkingOf(l)
  BY <1>1, DueOp, OpOfKind
<1>3. Op.path = l.path /\ Op.target = l.target
  BY <1>2, FieldsOfOps
<1>4. \/ /\ l.path \in DOMAIN links /\ links[l.path] = l.target
         /\ Done /\ links' = links
      \/ /\ l.path \notin DOMAIN links /\ l.path \notin DOMAIN dirs
         /\ Parent(l.path) \in DOMAIN dirs /\ Done
         /\ links' = Put(links, l.path, l.target)
      \/ End("failed") /\ links' = links
  BY <1>3 DEF EnsureLink
<1> QED BY <1>2, <1>4 DEF Put

LEMMA EnsureLinkKeeps ==
    ASSUME BaseInv, EnsureLink
    PROVE  BaseInv'
<1>1. PICK l \in ExpectedLinks(Config[mine]) \cup Elements(Config[mine].symlinks) :
              /\ Op = LinkingOf(l)
              /\ \/ /\ l.path \in DOMAIN links /\ links[l.path] = l.target
                    /\ Done /\ links' = links
                 \/ /\ l.path \notin DOMAIN links /\ l.path \notin DOMAIN dirs
                    /\ Parent(l.path) \in DOMAIN dirs /\ Done
                    /\ links' = [p \in DOMAIN links \cup {l.path} |-> IF p = l.path THEN l.target ELSE links[p]]
                 \/ End("failed") /\ links' = links
  BY EnsureLinkEffect
<1>2. /\ pc \in 1 .. Len(Program[mine]) /\ UNCHANGED <<filled, conf, mine, calm, acts>>
      /\ dirs' = dirs /\ mine \in DOMAIN Config /\ Op.kind # "mkdir"
  BY DEF EnsureLink, IsDue, BaseInv, TypeOK
<1>3. MadeBefore(Program[mine], pc) \subseteq DOMAIN dirs'
  <2>1. pc > 0
    BY <1>2, ConfigFacts, ProgramFacts
  <2> QED BY <1>2, <2>1 DEF BaseInv, MadeStays
<1>4. CASE Done /\ links' = links
  <2>1. FilesAreKnown' /\ IsTree'
    BY <1>2, <1>4 DEF BaseInv, TypeOK, FilesAreKnown, IsTree
  <2> QED BY <1>2, <1>3, <1>4, <2>1, StepKeeps
<1>5. CASE /\ l.path \notin DOMAIN links /\ l.path \notin DOMAIN dirs
           /\ Parent(l.path) \in DOMAIN dirs /\ Done
           /\ links' = [p \in DOMAIN links \cup {l.path} |-> IF p = l.path THEN l.target ELSE links[p]]
  <2>1. l.path \in KnownLinks
    BY <1>2 DEF KnownLinks
  <2>2. DOMAIN links' = DOMAIN links \cup {l.path} /\ links' = [p \in DOMAIN links' |-> links'[p]]
    BY <1>5
  <2>3. FilesAreKnown'
    BY <1>2, <2>1, <2>2 DEF BaseInv, FilesAreKnown
  <2>4. IsTree'
    BY <1>2, <1>5, <2>2 DEF BaseInv, TypeOK, IsTree
  <2> QED BY <1>2, <1>3, <1>5, <2>3, <2>4, StepKeeps
<1>6. CASE End("failed") /\ links' = links
  <2>1. FilesAreKnown'
    BY <1>2, <1>6 DEF BaseInv, FilesAreKnown
  <2>2. MadeStays'
    BY <1>6 DEF MadeStays, End
  <2>3. TypeOK'
    <3>1. pc' = 0 /\ last' = "failed" /\ mine' = mine
      BY <1>2, <1>6 DEF End
    <3>2. pc' \in 0 .. Len(Program[mine']) + 1
      BY <1>2, <3>1, ConfigFacts, ProgramFacts
    <3> QED BY <1>2, <1>6, <3>1, <3>2 DEF BaseInv, TypeOK
  <2> QED BY <2>1, <2>2, <2>3 DEF BaseInv
<1> QED BY <1>1, <1>4, <1>5, <1>6

LEMMA RemoveLinksEffect ==
    ASSUME BaseInv, RemoveUnexpectedLinks
    PROVE  \E ou \in Elements(Config[mine].ous) : \E gone :
              /\ Op = RemovingLinks(Config[mine], ou)
              /\ gone = ChildrenIn(links, OuPath(ou)) \ Op.expected
              /\ links' = [p \in DOMAIN links \ gone |-> links[p]]
              /\ \A p \in gone : Len(p) = 3 /\ p \in DOMAIN links
              /\ \A l \in ExpectedLinks(Config[mine]) : l.path \notin gone
<1>1. mine \in DOMAIN Config /\ pc \in 1 .. Len(Program[mine]) /\ Op.kind = "rmlinks"
  BY DEF BaseInv, TypeOK, RemoveUnexpectedLinks, IsDue
<1>2. PICK ou \in Elements(Config[mine].ous) : Op = RemovingLinks(Config[mine], ou)
  BY <1>1, DueOp, OpOfKind
<1> DEFINE gone == ChildrenIn(links, OuPath(ou)) \ Op.expected
<1>3. Op.path = OuPath(ou) /\ Len(OuPath(ou)) = 2
  BY <1>2, FieldsOfOps DEF OuPath
<1>4. links' = [p \in DOMAIN links \ gone |-> links[p]]
  BY <1>3 DEF RemoveUnexpectedLinks, Without
<1>5. \A p \in gone : /\ Len(p) = 3 /\ Parent(p) = OuPath(ou) /\ p \in DOMAIN links
                      /\ p \notin Op.expected
  BY <1>3 DEF ChildrenIn
<1>6. ASSUME NEW l \in ExpectedLinks(Config[mine]), l.path \in gone PROVE FALSE
  <2>1. Parent(l.path) = OuPath(ou) /\ l.path \notin Op.expected
    BY <1>5, <1>6
  <2>2. l.path \in RemovingLinks(Config[mine], ou).expected
    BY <1>1, <2>1, ConfigFacts, KeptLinks
  <2> QED BY <1>2, <2>1, <2>2
<1> HIDE DEF gone
<1>7. gone = ChildrenIn(links, OuPath(ou)) \ Op.expected
  BY DEF gone
<1> QED BY <1>2, <1>4, <1>5, <1>6, <1>7

LEMMA RemoveLinksKeeps ==
    ASSUME BaseInv, RemoveUnexpectedLinks
    PROVE  BaseInv'
<1>1. PICK gone : links' = [p \in DOMAIN links \ gone |-> links[p]]
  BY RemoveLinksEffect
<1>2. /\ pc \in 1 .. Len(Program[mine]) /\ UNCHANGED <<filled, conf, mine, calm, acts>> /\ Done
      /\ dirs' = dirs /\ mine \in DOMAIN Config /\ Op.kind # "mkdir"
  BY DEF RemoveUnexpectedLinks, IsDue, BaseInv, TypeOK
<1>3. DOMAIN links' \subseteq DOMAIN links /\ links' = [p \in DOMAIN links' |-> links'[p]]
  BY <1>1
<1>4. FilesAreKnown' /\ IsTree'
  BY <1>2, <1>3 DEF BaseInv, TypeOK, FilesAreKnown, IsTree
<1>5. MadeBefore(Program[mine], pc) \subseteq DOMAIN dirs'
  <2>1. pc > 0
    BY <1>2, ConfigFacts, ProgramFacts
  <2> QED BY <1>2, <2>1 DEF BaseInv, MadeStays
<1> QED BY <1>2, <1>4, <1>5, StepKeeps
\* setfacl -n -M for one group.
Granted(a, g, perms) == Acl(Put(a.named, g, perms), a.mask)

LEMMA GrantedFacts ==
    ASSUME NEW a, NEW g, NEW perms, NEW b, Limited(a, b), perms \subseteq b
    PROVE  IsAcl(Granted(a, g, perms)) /\ Limited(Granted(a, g, perms), b)
<1> DEFINE f == [h \in DOMAIN a.named \cup {g} |-> IF h = g THEN perms ELSE a.named[h]]
<1>1. Granted(a, g, perms) = Acl(f, a.mask)
  BY DEF Granted, Put
<1>2. f = [h \in DOMAIN f |-> f[h]] /\ \A h \in DOMAIN f : f[h] \subseteq b
  BY DEF Limited
<1> HIDE DEF f
<1>3. Acl(f, a.mask).named = f /\ Acl(f, a.mask).mask = a.mask
  BY DEF Acl
<1> QED BY <1>1, <1>2, <1>3 DEF IsAcl, Limited

LEMMA AclUpdate ==
    ASSUME NEW a, IsAcl(a), NEW f
    PROVE  [a EXCEPT !.named = f] = Acl(f, a.mask)
<1> DEFINE n == a.named
           m == a.mask
<1>1. a = [named |-> n, mask |-> m]
  BY DEF IsAcl, Acl
<1>2. [a EXCEPT !.named = f] = [named |-> f, mask |-> m]
  <2> HIDE DEF n, m
  <2> QED BY <1>1
<1> QED BY <1>2 DEF Acl

LEMMA ShareDirEffect ==
    ASSUME BaseInv, NEW p \in DOMAIN dirs, NEW g \in SharedWith, ShareDir(p, g)
    PROVE  \E perms :
              /\ dirs' = [dirs EXCEPT ![p] = dirs'[p]]
              /\ perms \subseteq Bound(p) /\ Len(p) # 1
              /\ \/ dirs'[p] = [group |-> dirs[p].group, acl |-> Granted(dirs[p].acl, g, perms),
                                dfl |-> dirs[p].dfl]
                 \/ dirs'[p] = [group |-> dirs[p].group, acl |-> Granted(dirs[p].acl, g, perms),
                                dfl |-> Granted(dirs[p].dfl, g, perms)]
<1> DEFINE d == dirs[p]
           a == d.group
           b == d.acl
           c == d.dfl
<1>1. d = [group |-> a, acl |-> b, dfl |-> c] /\ IsAcl(b) /\ IsAcl(c)
  BY DEF BaseInv, FilesAreKnown, Fits, IsDir
<1>2. X \subseteq Bound(p) /\ RX \subseteq Bound(p) /\ Len(p) # 1
  <2>1. Len(p) # 1
    <3>1. Len(p) > 1 /\ IsToplevel(p)
      BY DirsAndLinks DEF ShareDir, MayShare, BaseInv, FilesAreKnown
    <3> DEFINE l == Len(p)
    <3>2. l \in Nat /\ l > 1
      BY <3>1 DEF IsToplevel
    <3> HIDE DEF l
    <3>3. l # 1
      BY <3>2
    <3> QED BY <3>3 DEF l
  <2> QED BY <2>1 DEF Bound, X, RX, RWX
<1>3. \A f : [d EXCEPT !.acl.named = f] = [group |-> a, acl |-> Acl(f, b.mask), dfl |-> c]
  <2> TAKE f
  <2> DEFINE n == [b EXCEPT !.named = f]
             m == Acl(f, b.mask)
  <2>1. n = m
    <3> HIDE DEF b
    <3> QED BY <1>1, AclUpdate
  <2>2. d.acl = b
    OBVIOUS
  <2>3. [d EXCEPT !.acl.named = f] = [d EXCEPT !.acl = n]
    OBVIOUS
  <2>4. [d EXCEPT !.acl = m] = [group |-> a, acl |-> m, dfl |-> c]
    <3> HIDE DEF a, b, c, d, m
    <3> QED BY <1>1
  <2> HIDE DEF n, m, d
  <2> QED BY <2>1, <2>3, <2>4 DEF m
<1>4. \A f, h : [d EXCEPT !.acl.named = f, !.dfl.named = h]
                  = [group |-> a, acl |-> Acl(f, b.mask), dfl |-> Acl(h, c.mask)]
  <2> TAKE f, h
  <2> DEFINE e == [group |-> a, acl |-> Acl(f, b.mask), dfl |-> c]
             n == [c EXCEPT !.named = h]
             m == Acl(h, c.mask)
             k == Acl(f, b.mask)
  <2>1. n = m
    <3> HIDE DEF c
    <3> QED BY <1>1, AclUpdate
  <2>2. [d EXCEPT !.acl.named = f, !.dfl.named = h] = [[d EXCEPT !.acl.named = f] EXCEPT !.dfl.named = h]
    OBVIOUS
  <2>3. [d EXCEPT !.acl.named = f] = e
    BY <1>3
  <2>4. [e EXCEPT !.dfl.named = h] = [e EXCEPT !.dfl = n]
    <3>1. e.dfl = c
      OBVIOUS
    <3> HIDE DEF e, c
    <3> QED BY <3>1
  <2>5. [e EXCEPT !.dfl = m] = [group |-> a, acl |-> k, dfl |-> m]
    <3>1. e = [group |-> a, acl |-> k, dfl |-> c]
      OBVIOUS
    <3> HIDE DEF a, c, k, m, e
    <3> QED BY <3>1
  <2> HIDE DEF n, m, k, e
  <2> QED BY <2>1, <2>2, <2>3, <2>4, <2>5 DEF m, k
<1>5. dirs = [q \in DOMAIN dirs |-> dirs[q]]
  BY DEF BaseInv, FilesAreKnown
<1>6. CASE dirs' = [dirs EXCEPT ![p].acl.named = Put(@, g, X)]
  <2> DEFINE f == Put(b.named, g, X)
             r == [d EXCEPT !.acl.named = f]
  <2>1. dirs' = [dirs EXCEPT ![p] = r]
    BY <1>6
  <2>2. r = [group |-> a, acl |-> Granted(b, g, X), dfl |-> c]
    BY <1>3 DEF Granted
  <2> HIDE DEF r
  <2>3. dirs'[p] = r
    BY <2>1
  <2> QED BY <1>2, <2>1, <2>2, <2>3
<1>7. ASSUME NEW perms \in {RX, RWX}, p \in Shareable,
             dirs' = [dirs EXCEPT ![p].acl.named = Put(@, g, perms), ![p].dfl.named = Put(@, g, perms)]
      PROVE  \E x :
              /\ dirs' = [dirs EXCEPT ![p] = dirs'[p]]
              /\ x \subseteq Bound(p) /\ Len(p) # 1
              /\ dirs'[p] = [group |-> dirs[p].group, acl |-> Granted(dirs[p].acl, g, x),
                             dfl |-> Granted(dirs[p].dfl, g, x)]
  <2> DEFINE f == Put(b.named, g, perms)
             h == Put(c.named, g, perms)
             r == [d EXCEPT !.acl.named = f, !.dfl.named = h]
  <2>1. dirs' = [dirs EXCEPT ![p] = r]
    BY <1>7
  <2>2. r = [group |-> a, acl |-> Granted(b, g, perms), dfl |-> Granted(c, g, perms)]
    BY <1>4 DEF Granted
  <2> HIDE DEF r
  <2>3. dirs'[p] = r
    BY <2>1
  <2>4. perms \subseteq Bound(p)
    <3>1. p[1] = ServiceDir => Len(p) > 2
      BY <1>7, SoundAssumption
    <3> DEFINE l == Len(p)
    <3>2. p[1] = ServiceDir => l > 2
      BY <3>1
    <3> HIDE DEF l
    <3>3. ~ (l = 2 /\ p[1] = ServiceDir)
      BY <3>2
    <3>4. Bound(p) = RWX
      BY <3>3 DEF Bound, l
    <3> QED BY <1>7, <3>4, Kinds
  <2> QED BY <1>2, <2>1, <2>2, <2>3, <2>4
<1>8. \/ dirs' = [dirs EXCEPT ![p].acl.named = Put(@, g, X)]
      \/ \E perms \in {RX, RWX} :
            /\ p \in Shareable
            /\ dirs' = [dirs EXCEPT ![p].acl.named = Put(@, g, perms), ![p].dfl.named = Put(@, g, perms)]
  BY DEF ShareDir
<1> QED BY <1>6, <1>7, <1>8
LEMMA ShareDirKeeps ==
    ASSUME BaseInv, NEW p \in DOMAIN dirs, NEW g \in SharedWith, ShareDir(p, g)
    PROVE  BaseInv'
<1>1. PICK perms :
              /\ dirs' = [dirs EXCEPT ![p] = dirs'[p]]
              /\ perms \subseteq Bound(p) /\ Len(p) # 1
              /\ \/ dirs'[p] = [group |-> dirs[p].group, acl |-> Granted(dirs[p].acl, g, perms),
                                dfl |-> dirs[p].dfl]
                 \/ dirs'[p] = [group |-> dirs[p].group, acl |-> Granted(dirs[p].acl, g, perms),
                                dfl |-> Granted(dirs[p].dfl, g, perms)]
  BY ShareDirEffect
<1>2. \A q \in DOMAIN dirs : Fits(q, dirs[q])
  BY DEF BaseInv, FilesAreKnown
<1>3. /\ IsAcl(dirs[p].dfl) /\ Limited(dirs[p].dfl, Bound(p))
      /\ IsAcl(Granted(dirs[p].acl, g, perms)) /\ Limited(Granted(dirs[p].acl, g, perms), Bound(p))
      /\ IsAcl(Granted(dirs[p].dfl, g, perms)) /\ Limited(Granted(dirs[p].dfl, g, perms), Bound(p))
  BY <1>1, <1>2, GrantedFacts DEF Fits, IsDir
<1>4. Fits(p, dirs'[p])
  BY <1>1, <1>3 DEF Fits, IsDir
<1>5. dirs = [q \in DOMAIN dirs |-> dirs[q]]
  BY DEF BaseInv, FilesAreKnown
<1>6. /\ DOMAIN dirs' = DOMAIN dirs /\ dirs' = [q \in DOMAIN dirs' |-> dirs'[q]]
      /\ \A q \in DOMAIN dirs : q # p => dirs'[q] = dirs[q]
  BY <1>1, <1>5
<1>7. /\ UNCHANGED <<links, filled, conf, mine, pc, last>> /\ pc = 0 /\ acts < MaxActs
      /\ acts' = acts + 1 /\ calm' = FALSE
  BY DEF ShareDir, Besides
<1>8. FilesAreKnown'
  <2>1. \A q \in DOMAIN dirs' : Fits(q, dirs'[q])
    BY <1>2, <1>4, <1>6
  <2> QED BY <1>6, <1>7, <2>1 DEF BaseInv, FilesAreKnown
<1>9. acts' \in 0 .. MaxActs
  BY <1>7, SoundAssumption DEF BaseInv, TypeOK
<1>10. TypeOK'
  BY <1>6, <1>7, <1>9 DEF BaseInv, TypeOK
<1>11. MadeStays'
  BY <1>6, <1>7 DEF BaseInv, MadeStays
<1> QED BY <1>8, <1>10, <1>11 DEF BaseInv

LEMMA OthersKeep ==
    ASSUME BaseInv, \/ StartRun \/ Finish \/ Configure \/ Kill
                    \/ (\E p \in Fillable : Fill(p)) \/ UNCHANGED vars
    PROVE  BaseInv'
<1>1. mine \in DOMAIN Config /\ conf \in DOMAIN Config
  BY DEF BaseInv, TypeOK
<1>2. Len(Program[mine]) \in Nat /\ Len(Program[conf]) \in Nat
  BY <1>1, ConfigFacts, ProgramFacts
<1>3. MaxActs \in Nat
  BY SoundAssumption
<1>4. CASE StartRun
  <2>1. pc' = 1 /\ mine' = conf /\ calm' = TRUE /\ UNCHANGED <<dirs, links, filled, conf, last, acts>>
    BY <1>4 DEF StartRun, fs
  <2>2. pc' \in 0 .. Len(Program[mine']) + 1
    BY <1>2, <2>1
  <2>3. TypeOK'
    BY <2>1, <2>2 DEF BaseInv, TypeOK
  <2>4. FilesAreKnown'
    BY <2>1 DEF BaseInv, FilesAreKnown
  <2>5. MadeStays'
    <3>1. \A k \in 1 .. 1 - 1 : FALSE
      OBVIOUS
    <3> QED BY <2>1, <3>1 DEF MadeStays, MadeBefore
  <2> QED BY <2>3, <2>4, <2>5 DEF BaseInv
<1>5. CASE Finish
  <2>1. pc' = 0 /\ last' = "ok" /\ UNCHANGED <<dirs, links, filled, conf, mine, calm, acts>>
    BY <1>5 DEF Finish, fs, End
  <2>2. pc' \in 0 .. Len(Program[mine']) + 1
    BY <1>2, <2>1
  <2>3. TypeOK' /\ FilesAreKnown' /\ MadeStays'
    BY <2>1, <2>2 DEF BaseInv, TypeOK, FilesAreKnown, MadeStays
  <2> QED BY <2>3 DEF BaseInv
<1>6. CASE Configure
  <2>1. /\ conf' \in DOMAIN Config /\ calm' = FALSE /\ acts' = acts + 1 /\ acts < MaxActs
        /\ UNCHANGED <<dirs, links, filled, mine, pc, last>>
    BY <1>6 DEF Configure, Besides, fs
  <2>2. acts' \in 0 .. MaxActs
    BY <1>3, <2>1 DEF BaseInv, TypeOK
  <2>3. TypeOK' /\ FilesAreKnown' /\ MadeStays'
    BY <2>1, <2>2 DEF BaseInv, TypeOK, FilesAreKnown, MadeStays
  <2> QED BY <2>3 DEF BaseInv
<1>7. CASE Kill
  <2>1. /\ pc' = 0 /\ last' = "killed" /\ calm' = FALSE /\ acts' = acts + 1 /\ acts < MaxActs
        /\ UNCHANGED <<dirs, links, filled, conf, mine>>
    BY <1>7 DEF Kill, Besides, fs, End
  <2>2. acts' \in 0 .. MaxActs /\ pc' \in 0 .. Len(Program[mine']) + 1
    BY <1>2, <1>3, <2>1 DEF BaseInv, TypeOK
  <2>3. TypeOK'
    BY <2>1, <2>2 DEF BaseInv, TypeOK
  <2>4. FilesAreKnown'
    BY <2>1 DEF BaseInv, FilesAreKnown
  <2>5. MadeStays'
    BY <2>1 DEF MadeStays
  <2> QED BY <2>3, <2>4, <2>5 DEF BaseInv
<1>8. ASSUME NEW p \in Fillable, Fill(p)
      PROVE  BaseInv'
  <2>1. /\ filled' \subseteq filled \cup {p} /\ p \in DOMAIN dirs
        /\ calm' = FALSE /\ acts' = acts + 1 /\ acts < MaxActs
        /\ UNCHANGED <<dirs, links, conf, mine, pc, last>>
    BY <1>8 DEF Fill, Besides
  <2>2. acts' \in 0 .. MaxActs
    BY <1>3, <2>1 DEF BaseInv, TypeOK
  <2>3. TypeOK' /\ FilesAreKnown' /\ MadeStays'
    BY <2>1, <2>2 DEF BaseInv, TypeOK, FilesAreKnown, MadeStays
  <2> QED BY <2>3 DEF BaseInv
<1>9. CASE UNCHANGED vars
  BY <1>9 DEF vars, fs, BaseInv, TypeOK, FilesAreKnown, MadeStays
<1> QED BY <1>4, <1>5, <1>6, <1>7, <1>8, <1>9

LEMMA BaseInvHolds == Spec => []BaseInv
<1>1. Init => BaseInv
  <2> SUFFICES ASSUME Init PROVE BaseInv
    OBVIOUS
  <2>1. DOMAIN dirs = {} /\ DOMAIN links = {} /\ filled = {} /\ pc = 0 /\ acts = 0
    BY DEF Init
  <2>2. mine \in DOMAIN Config /\ conf \in DOMAIN Config /\ last = "none" /\ calm = FALSE
    BY DEF Init
  <2>3. Len(Program[mine]) \in Nat /\ MaxActs \in Nat
    BY <2>2, ConfigFacts, ProgramFacts, SoundAssumption
  <2>4. TypeOK
    <3>1. pc \in 0 .. Len(Program[mine]) + 1 /\ acts \in 0 .. MaxActs
      BY <2>1, <2>3
    <3>2. DOMAIN dirs \cup DOMAIN links = {}
      BY <2>1
    <3> QED BY <2>1, <2>2, <3>1, <3>2 DEF TypeOK
  <2>5. FilesAreKnown
    <3>1. dirs = [p \in DOMAIN dirs |-> dirs[p]] /\ links = [p \in DOMAIN links |-> links[p]]
      BY DEF Init
    <3> QED BY <2>1, <3>1 DEF FilesAreKnown
  <2>6. MadeStays
    BY <2>1 DEF MadeStays
  <2> QED BY <2>4, <2>5, <2>6 DEF BaseInv
<1>2. BaseInv /\ [Next]_vars => BaseInv'
  <2> SUFFICES ASSUME BaseInv, [Next]_vars PROVE BaseInv'
    OBVIOUS
  <2>1. CASE RunStep
    BY <2>1, MakeDirKeeps, ModifyAclKeeps, RemoveEntriesKeeps, RemoveSubdirsKeeps, EnsureLinkKeeps,
       RemoveLinksKeeps, OthersKeep DEF RunStep
  <2>2. CASE \E p \in DOMAIN dirs, g \in SharedWith : ShareDir(p, g)
    BY <2>2, ShareDirKeeps
  <2>3. CASE StartRun \/ Configure \/ Kill \/ (\E p \in Fillable : Fill(p)) \/ UNCHANGED vars
    BY <2>3, OthersKeep
  <2> QED BY <2>1, <2>2, <2>3 DEF Next
<1> QED BY <1>1, <1>2, PTL DEF Spec

\* The filesystem stays a tree in which no files of users get lost: what runs that are
\* killed anywhere, changes of the configuration and sharing leave behind, EnsurePermissions()
\* never makes a directory without its parent or where a link is, and rmUnexpectedSubdirs()
\* never removes one with something in it.
THEOREM TypeCorrect == Spec => []TypeOK
<1>1. BaseInv => TypeOK
  BY DEF BaseInv
<1> QED BY <1>1, BaseInvHolds, PTL
-----------------------------------------------------------------------------
\* What a run may do to the ACLs.

LEMMA EntryPerms ==
    ASSUME NEW c, ConfigIsSound(c), NEW e \in ExpectedDirs(c), NEW g \in DOMAIN e.acl.named
    PROVE  e.acl.named[g] = e.acl.mask /\ e.dfl.named[g] = e.dfl.mask
<1> DEFINE gs == DOMAIN e.acl.named
           m == e.acl.mask
           n == e.dfl.mask
<1>1. e.acl = Acl(Entries(gs, m), m) /\ e.dfl = Acl(Entries(gs, n), n) /\ g \in gs
  BY EntryFacts
<1> HIDE DEF gs, m, n
<1>2. e.acl.named = Entries(gs, m) /\ e.dfl.named = Entries(gs, n)
  BY <1>1 DEF Acl
<1>3. \A x : Entries(gs, x)[g] = x
  BY <1>1 DEF Entries
<1>4. e.acl.named[g] = m /\ e.dfl.named[g] = n
  BY <1>2, <1>3
<1> QED BY <1>4 DEF m, n

LEMMA SharedIsOther ==
    ASSUME mine \in DOMAIN Config, NEW e \in ExpectedDirs(Config[mine]), NEW g \in SharedWith,
           MayShare(e.path, g)
    PROVE  g \notin e.compared
<1>1. OwnOnly(e.path, e.compared)
  BY CertainlyBelow DEF IsEntry
<1>2. g[1] = "ou"
  BY SoundAssumption
<1> QED BY <1>1, <1>2 DEF OwnOnly, MayShare

LEMMA RunStepOnAcls ==
    ASSUME BaseInv, RunStep, NEW p \in DOMAIN dirs, p \in DOMAIN dirs'
    PROVE  \/ dirs'[p].acl = dirs[p].acl /\ dirs'[p].dfl = dirs[p].dfl
           \/ \E e \in ExpectedDirs(Config[mine]) :
                 /\ e.path = p
                 /\ \/ dirs'[p] = SetEntries(dirs[p], DOMAIN e.acl.named, e.acl.mask, e.dfl.mask)
                    \/ /\ e.compared # DOMAIN e.acl.named
                       /\ dirs'[p] = DropEntries(dirs[p], e.compared \ DOMAIN e.acl.named)
<1>1. CASE MakeDir
  <2>1. PICK e \in ExpectedDirs(Config[mine]) :
              /\ \A q \in DOMAIN dirs : q # e.path => dirs'[q] = dirs[q]
              /\ e.path \in DOMAIN dirs =>
                    dirs'[e.path] = [group |-> e.group, acl |-> dirs[e.path].acl, dfl |-> dirs[e.path].dfl]
    BY <1>1, MakeDirEffect
  <2> QED BY <2>1
<1>2. CASE ModifyAcl
  <2>1. PICK e \in ExpectedDirs(Config[mine]) :
              /\ \A q \in DOMAIN dirs : q # e.path => dirs'[q] = dirs[q]
              /\ dirs'[e.path] = SetEntries(dirs[e.path], DOMAIN e.acl.named, e.acl.mask, e.dfl.mask)
    BY <1>2, ModifyAclEffect
  <2> QED BY <2>1
<1>3. CASE RemoveEntries
  <2>1. PICK e \in ExpectedDirs(Config[mine]) :
              /\ e.compared # DOMAIN e.acl.named
              /\ \A q \in DOMAIN dirs : q # e.path => dirs'[q] = dirs[q]
              /\ dirs'[e.path] = DropEntries(dirs[e.path], e.compared \ DOMAIN e.acl.named)
    BY <1>3, RemoveEntriesEffect
  <2> QED BY <2>1
<1>4. CASE RemoveUnexpectedSubdirs
  <2>1. PICK gone : dirs' = [q \in DOMAIN dirs \ gone |-> dirs[q]]
    BY <1>4, RemoveSubdirsEffect
  <2>2. dirs'[p] = dirs[p]
    BY <2>1
  <2> QED BY <2>2
<1>5. CASE EnsureLink \/ RemoveUnexpectedLinks \/ Finish
  BY <1>5 DEF EnsureLink, RemoveUnexpectedLinks, Finish, fs
<1> QED BY <1>1, <1>2, <1>3, <1>4, <1>5 DEF RunStep

\* The entries of the groups that a directory is shared with survive every step of
\* EnsurePermissions(), for it names only groups that own the directory or something above
\* it, and setfacl leaves the entries of others as they are.
THEOREM SharedEntriesCorrect == Spec => SharedEntriesStay
<1> DEFINE Step ==
        RunStep =>
          \A p \in DOMAIN dirs \cap DOMAIN dirs' : \A g \in {h \in SharedWith : MayShare(p, h)} :
            /\ EntriesStay(dirs[p].acl, dirs'[p].acl, g)
            /\ EntriesStay(dirs[p].dfl, dirs'[p].dfl, g)
<1>1. BaseInv /\ [Next]_vars => [Step]_vars
  <2> SUFFICES ASSUME BaseInv, RunStep, NEW p \in DOMAIN dirs, p \in DOMAIN dirs',
                      NEW g \in SharedWith, MayShare(p, g)
               PROVE  /\ EntriesStay(dirs[p].acl, dirs'[p].acl, g)
                      /\ EntriesStay(dirs[p].dfl, dirs'[p].dfl, g)
    OBVIOUS
  <2>1. mine \in DOMAIN Config
    BY DEF BaseInv, TypeOK
  <2>2. CASE dirs'[p].acl = dirs[p].acl /\ dirs'[p].dfl = dirs[p].dfl
    BY <2>2 DEF EntriesStay
  <2>3. ASSUME NEW e \in ExpectedDirs(Config[mine]), e.path = p,
               dirs'[p] = SetEntries(dirs[p], DOMAIN e.acl.named, e.acl.mask, e.dfl.mask)
        PROVE  /\ EntriesStay(dirs[p].acl, dirs'[p].acl, g)
               /\ EntriesStay(dirs[p].dfl, dirs'[p].dfl, g)
    <3>1. g \notin DOMAIN e.acl.named
      BY <2>1, <2>3, SharedIsOther, CertainlyBelow DEF IsEntry
    <3>2. /\ dirs'[p].acl = Modified(dirs[p].acl, DOMAIN e.acl.named, e.acl.mask)
          /\ dirs'[p].dfl = Modified(dirs[p].dfl, DOMAIN e.acl.named, e.dfl.mask)
      BY <2>3 DEF SetEntries
    <3> QED BY <3>1, <3>2, ModifiedFacts DEF EntriesStay
  <2>4. ASSUME NEW e \in ExpectedDirs(Config[mine]), e.path = p,
               dirs'[p] = DropEntries(dirs[p], e.compared \ DOMAIN e.acl.named)
        PROVE  /\ EntriesStay(dirs[p].acl, dirs'[p].acl, g)
               /\ EntriesStay(dirs[p].dfl, dirs'[p].dfl, g)
    <3>1. g \notin e.compared \ DOMAIN e.acl.named
      BY <2>1, <2>4, SharedIsOther
    <3>2. /\ dirs'[p].acl = Unmasked(Without(dirs[p].acl.named, e.compared \ DOMAIN e.acl.named))
          /\ dirs'[p].dfl = Unmasked(Without(dirs[p].dfl.named, e.compared \ DOMAIN e.acl.named))
      BY <2>4 DEF DropEntries
    <3> QED BY <3>1, <3>2, UnmaskedFacts DEF EntriesStay
  <2> QED BY <2>2, <2>3, <2>4, RunStepOnAcls
<1>2. Spec => [][Step]_vars
  <2> HIDE DEF Step
  <2> QED BY <1>1, BaseInvHolds, PTL DEF Spec
<1> QED BY <1>2, PTL DEF SharedEntriesStay

LEMMA SetKeepsAccess ==
    ASSUME NEW a, NEW gs, NEW x, NEW g \in gs
    PROVE  x \subseteq Effective(Modified(a, gs, x), g)
  BY ModifiedFacts DEF Effective

LEMMA DropKeepsAccess ==
    ASSUME NEW a, NEW gs, NEW g, g \notin gs, NEW x, x \subseteq Effective(a, g)
    PROVE  x \subseteq Effective(Unmasked(Without(a.named, gs)), g)
<1> DEFINE b == Unmasked(Without(a.named, gs))
<1>1. CASE g \in DOMAIN a.named
  <2>1. g \in DOMAIN b.named /\ b.named[g] = a.named[g] /\ a.named[g] \subseteq b.mask
    BY <1>1, UnmaskedFacts
  <2>2. x \subseteq a.named[g]
    BY <1>1 DEF Effective
  <2> HIDE DEF b
  <2>3. x \subseteq Effective(b, g)
    BY <2>1, <2>2 DEF Effective
  <2> QED BY <2>3 DEF b
<1>2. CASE g \notin DOMAIN a.named
  BY <1>2 DEF Effective
<1> QED BY <1>1, <1>2

\* No step of EnsurePermissions() takes away, not even for a moment, the access that a group
\* has and is to have, to a directory or by its default entries: setfacl -M comes first, and
\* what setfacl -X leaves is not masked more than what the entries allow.
THEOREM AccessCorrect == Spec => AccessStays
<1> DEFINE Step ==
        RunStep =>
          \A e \in {x \in ExpectedDirs(Config[mine]) : x.path \in DOMAIN dirs} :
            /\ e.path \in DOMAIN dirs'
            /\ \A g \in DOMAIN e.acl.named :
                 /\ e.acl.named[g] \subseteq Effective(dirs[e.path].acl, g) =>
                       e.acl.named[g] \subseteq Effective(dirs'[e.path].acl, g)
                 /\ e.dfl.named[g] \subseteq Effective(dirs[e.path].dfl, g) =>
                       e.dfl.named[g] \subseteq Effective(dirs'[e.path].dfl, g)
<1>1. BaseInv /\ [Next]_vars => [Step]_vars
  <2> SUFFICES ASSUME BaseInv, RunStep, NEW e \in ExpectedDirs(Config[mine]), e.path \in DOMAIN dirs
               PROVE  /\ e.path \in DOMAIN dirs'
                      /\ \A g \in DOMAIN e.acl.named :
                           /\ e.acl.named[g] \subseteq Effective(dirs[e.path].acl, g) =>
                                 e.acl.named[g] \subseteq Effective(dirs'[e.path].acl, g)
                           /\ e.dfl.named[g] \subseteq Effective(dirs[e.path].dfl, g) =>
                                 e.dfl.named[g] \subseteq Effective(dirs'[e.path].dfl, g)
    OBVIOUS
  <2> DEFINE p == e.path
             gs == DOMAIN e.acl.named
  <2>1. mine \in DOMAIN Config /\ ConfigIsSound(Config[mine])
    BY ConfigFacts DEF BaseInv, TypeOK
  <2>2. p \in DOMAIN dirs'
    <3>1. CASE MakeDir
      BY <3>1, MakeDirEffect
    <3>2. CASE ModifyAcl
      BY <3>2, ModifyAclEffect
    <3>3. CASE RemoveEntries
      BY <3>3, RemoveEntriesEffect
    <3>4. CASE RemoveUnexpectedSubdirs
      <4>1. PICK gone : /\ dirs' = [q \in DOMAIN dirs \ gone |-> dirs[q]]
                        /\ \A f \in ExpectedDirs(Config[mine]) : f.path \notin gone
        BY <3>4, RemoveSubdirsEffect
      <4> QED BY <4>1
    <3>5. CASE EnsureLink \/ RemoveUnexpectedLinks \/ Finish
      BY <3>5 DEF EnsureLink, RemoveUnexpectedLinks, Finish, fs
    <3> QED BY <3>1, <3>2, <3>3, <3>4, <3>5 DEF RunStep
  <2>3. \A g \in gs : e.acl.named[g] = e.acl.mask /\ e.dfl.named[g] = e.dfl.mask
    BY <2>1, EntryPerms
  <2>4. \A f \in ExpectedDirs(Config[mine]) : f.path = p => f = e
    BY <2>1, SameEntry
  <2>5. CASE dirs'[p].acl = dirs[p].acl /\ dirs'[p].dfl = dirs[p].dfl
    BY <2>2, <2>5
  <2>6. CASE dirs'[p] = SetEntries(dirs[p], gs, e.acl.mask, e.dfl.mask)
    <3>1. /\ dirs'[p].acl = Modified(dirs[p].acl, gs, e.acl.mask)
          /\ dirs'[p].dfl = Modified(dirs[p].dfl, gs, e.dfl.mask)
      BY <2>6 DEF SetEntries
    <3>2. \A g \in gs : /\ e.acl.mask \subseteq Effective(dirs'[p].acl, g)
                        /\ e.dfl.mask \subseteq Effective(dirs'[p].dfl, g)
      BY <3>1, SetKeepsAccess
    <3> QED BY <2>2, <2>3, <3>2
  <2>7. CASE dirs'[p] = DropEntries(dirs[p], e.compared \ gs)
    <3>1. /\ dirs'[p].acl = Unmasked(Without(dirs[p].acl.named, e.compared \ gs))
          /\ dirs'[p].dfl = Unmasked(Without(dirs[p].dfl.named, e.compared \ gs))
      BY <2>7 DEF DropEntries
    <3>2. \A g \in gs : g \notin e.compared \ gs
      OBVIOUS
    <3> HIDE DEF gs
    <3>3. \A g \in gs : \A x : /\ x \subseteq Effective(dirs[p].acl, g) => x \subseteq Effective(dirs'[p].acl, g)
                               /\ x \subseteq Effective(dirs[p].dfl, g) => x \subseteq Effective(dirs'[p].dfl, g)
      BY <3>1, <3>2, DropKeepsAccess
    <3> QED BY <2>2, <3>3 DEF gs
  <2> QED BY <2>2, <2>4, <2>5, <2>6, <2>7, RunStepOnAcls
<1>2. Spec => [][Step]_vars
  <2> HIDE DEF Step
  <2> QED BY <1>1, BaseInvHolds, PTL DEF Spec
<1> QED BY <1>2, PTL DEF AccessStays

\* A service link that is right is never removed or changed by a run, although
\* rmUnexpectedLinks() looks at all links of the org unit: those that the run ensures are
\* the expected ones, whatever made them.
THEOREM ServiceLinksCorrect == Spec => ServiceLinksStay
<1> DEFINE Step ==
        RunStep => \A l \in ExpectedLinks(Config[mine]) : LinkOk(l, links) => LinkOk(l, links')
<1>1. BaseInv /\ [Next]_vars => [Step]_vars
  <2> SUFFICES ASSUME BaseInv, RunStep, NEW l \in ExpectedLinks(Config[mine]), LinkOk(l, links)
               PROVE  LinkOk(l, links')
    OBVIOUS
  <2>1. CASE EnsureLink
    <3>1. PICK k : \/ links' = links
                   \/ /\ k.path \notin DOMAIN links
                      /\ links' = [p \in DOMAIN links \cup {k.path} |-> IF p = k.path THEN k.target ELSE links[p]]
      BY <2>1, EnsureLinkEffect
    <3> QED BY <3>1 DEF LinkOk
  <2>2. CASE RemoveUnexpectedLinks
    <3>1. PICK gone : /\ links' = [p \in DOMAIN links \ gone |-> links[p]]
                      /\ \A k \in ExpectedLinks(Config[mine]) : k.path \notin gone
      BY <2>2, RemoveLinksEffect
    <3> QED BY <3>1 DEF LinkOk
  <2>3. CASE MakeDir \/ ModifyAcl \/ RemoveEntries \/ RemoveUnexpectedSubdirs \/ Finish
    BY <2>3 DEF MakeDir, ModifyAcl, RemoveEntries, RemoveUnexpectedSubdirs, Finish, fs
  <2> QED BY <2>1, <2>2, <2>3 DEF RunStep
<1>2. Spec => [][Step]_vars
  <2> HIDE DEF Step
  <2> QED BY <1>1, BaseInvHolds, PTL DEF Spec
<1> QED BY <1>2, PTL DEF ServiceLinksStay
-----------------------------------------------------------------------------
\* What a run achieves, operation by operation.

AllOps(c) == MostOps(c) \cup ExplicitOps(c)
ExplicitPaths(c) == {l.path : l \in Elements(c.symlinks)}

Holds(a, gs, perms) ==
    gs \subseteq DOMAIN a.named /\ (\A g \in gs : a.named[g] = perms) /\ a.mask = perms
Lacks(a, gs) == gs \cap DOMAIN a.named = {}

\* What is so once an operation has been done, and stays so: for directories ds, links ls
\* and directories `kept` that are not empty.
IsAchieved(op, c, ds, ls, kept) ==
    /\ op.kind = "mkdir" => op.path \in DOMAIN ds /\ ds[op.path].group = op.group
    /\ op.kind = "modify" =>
          /\ op.path \in DOMAIN ds
          /\ Holds(ds[op.path].acl, op.groups, op.perms)
          /\ Holds(ds[op.path].dfl, op.groups, op.default)
    /\ op.kind = "remove" =>
          /\ op.path \in DOMAIN ds
          /\ Lacks(ds[op.path].acl, op.groups) /\ Lacks(ds[op.path].dfl, op.groups)
    /\ op.kind = "link" => LinkOk(op, ls)
    /\ op.kind = "rmdirs" => ChildrenIn(ds, op.path) \subseteq op.expected \cup kept
    /\ op.kind = "rmlinks" => ChildrenIn(ls, op.path) \subseteq op.expected \cup ExplicitPaths(c)

\* A run that nothing disturbs has achieved what it has done so far, and in the end all.
RunInv ==
    /\ calm /\ pc > 0 =>
          /\ mine = conf
          /\ \A k \in 1 .. pc - 1 :
                IsAchieved(Program[mine][k], Config[mine], dirs, links, NotEmpty)
    /\ Settled =>
          /\ mine = conf
          /\ \A op \in AllOps(Config[mine]) : IsAchieved(op, Config[mine], dirs, links, NotEmpty)
LEMMA MakeDirAchieves ==
    ASSUME BaseInv, MakeDir
    PROVE  IsAchieved(Op, Config[mine], dirs', links', NotEmpty')
<1>1. PICK e \in ExpectedDirs(Config[mine]) :
         /\ Op = Making(e.path, e.group)
         /\ DOMAIN dirs' = DOMAIN dirs \cup {e.path}
         /\ e.path \in DOMAIN dirs =>
               dirs'[e.path] = [group |-> e.group, acl |-> dirs[e.path].acl, dfl |-> dirs[e.path].dfl]
         /\ e.path \notin DOMAIN dirs /\ Len(e.path) = 1 =>
               dirs'[e.path] = [group |-> e.group, acl |-> NoAcl, dfl |-> NoAcl]
         /\ e.path \notin DOMAIN dirs /\ Len(e.path) # 1 =>
               dirs'[e.path] = [group |-> e.group, acl |-> dirs[Parent(e.path)].dfl,
                                dfl |-> dirs[Parent(e.path)].dfl]
  BY MakeDirEffect
<1>2. Op.kind = "mkdir" /\ Op.path = e.path /\ Op.group = e.group
  BY <1>1, FieldsOfOps
<1>3. e.path \in DOMAIN dirs' /\ dirs'[e.path].group = e.group
  BY <1>1
<1> QED BY <1>2, <1>3 DEF IsAchieved

LEMMA SetHolds ==
    ASSUME NEW a, NEW gs, NEW perms
    PROVE  Holds(Modified(a, gs, perms), gs, perms)
  BY ModifiedFacts DEF Holds

LEMMA ModifyAclAchieves ==
    ASSUME BaseInv, ModifyAcl
    PROVE  IsAchieved(Op, Config[mine], dirs', links', NotEmpty')
<1>1. PICK e \in ExpectedDirs(Config[mine]) :
         /\ e.path \in DOMAIN dirs
         /\ Op = Modifying(e.path, DOMAIN e.acl.named, e.acl.mask, e.dfl.mask)
         /\ DOMAIN dirs' = DOMAIN dirs
         /\ dirs'[e.path] = SetEntries(dirs[e.path], DOMAIN e.acl.named, e.acl.mask, e.dfl.mask)
  BY ModifyAclEffect
<1>2. /\ Op.kind = "modify" /\ Op.path = e.path /\ Op.groups = DOMAIN e.acl.named
      /\ Op.perms = e.acl.mask /\ Op.default = e.dfl.mask
  BY <1>1, FieldsOfOps
<1>3. /\ dirs'[e.path].acl = Modified(dirs[e.path].acl, DOMAIN e.acl.named, e.acl.mask)
      /\ dirs'[e.path].dfl = Modified(dirs[e.path].dfl, DOMAIN e.acl.named, e.dfl.mask)
  BY <1>1 DEF SetEntries
<1>4. /\ Holds(dirs'[e.path].acl, DOMAIN e.acl.named, e.acl.mask)
      /\ Holds(dirs'[e.path].dfl, DOMAIN e.acl.named, e.dfl.mask)
  BY <1>3, SetHolds
<1> QED BY <1>1, <1>2, <1>4 DEF IsAchieved

LEMMA DropLacks ==
    ASSUME NEW h, NEW gs
    PROVE  Lacks(Unmasked(Without(h, gs)), gs)
  BY UnmaskedFacts DEF Lacks

LEMMA RemoveEntriesAchieves ==
    ASSUME BaseInv, RemoveEntries
    PROVE  IsAchieved(Op, Config[mine], dirs', links', NotEmpty')
<1>1. PICK e \in ExpectedDirs(Config[mine]) :
         /\ e.path \in DOMAIN dirs
         /\ Op = Removing(e.path, e.compared \ DOMAIN e.acl.named)
         /\ DOMAIN dirs' = DOMAIN dirs
         /\ dirs'[e.path] = DropEntries(dirs[e.path], e.compared \ DOMAIN e.acl.named)
  BY RemoveEntriesEffect
<1> DEFINE gs == e.compared \ DOMAIN e.acl.named
<1>2. Op.kind = "remove" /\ Op.path = e.path /\ Op.groups = gs
  BY <1>1, FieldsOfOps
<1>3. /\ dirs'[e.path].acl = Unmasked(Without(dirs[e.path].acl.named, gs))
      /\ dirs'[e.path].dfl = Unmasked(Without(dirs[e.path].dfl.named, gs))
  BY <1>1 DEF DropEntries
<1>4. Lacks(dirs'[e.path].acl, gs) /\ Lacks(dirs'[e.path].dfl, gs)
  BY <1>3, DropLacks
<1> QED BY <1>1, <1>2, <1>4 DEF IsAchieved

LEMMA EnsureLinkAchieves ==
    ASSUME BaseInv, EnsureLink
    PROVE  End("failed") \/ (Done /\ IsAchieved(Op, Config[mine], dirs', links', NotEmpty'))
<1>1. PICK l :
         /\ Op = LinkingOf(l)
         /\ \/ l.path \in DOMAIN links /\ links[l.path] = l.target /\ Done /\ links' = links
            \/ /\ Done
               /\ links' = [p \in DOMAIN links \cup {l.path} |-> IF p = l.path THEN l.target ELSE links[p]]
            \/ End("failed")
  BY EnsureLinkEffect
<1>2. Op.kind = "link" /\ Op.path = l.path /\ Op.target = l.target
  BY <1>1, FieldsOfOps
<1>3. End("failed") \/ (Done /\ l.path \in DOMAIN links' /\ links'[l.path] = l.target)
  BY <1>1
<1> QED BY <1>2, <1>3 DEF IsAchieved, LinkOk
\* What a step of a run may change of the tree.
LEMMA RunStepOnDirs ==
    ASSUME BaseInv, RunStep
    PROVE  /\ \A e \in ExpectedDirs(Config[mine]) : e.path \in DOMAIN dirs => e.path \in DOMAIN dirs'
           /\ \A p \in DOMAIN dirs' : p \notin DOMAIN dirs => \E e \in ExpectedDirs(Config[mine]) : p = e.path
           /\ \A p \in DOMAIN dirs : p \notin DOMAIN dirs' => Len(p) = 3
<1>1. CASE MakeDir
  <2>1. PICK e \in ExpectedDirs(Config[mine]) : DOMAIN dirs' = DOMAIN dirs \cup {e.path}
    BY <1>1, MakeDirEffect
  <2> QED BY <2>1
<1>2. CASE ModifyAcl \/ RemoveEntries
  <2>1. DOMAIN dirs' = DOMAIN dirs
    BY <1>2, ModifyAclEffect, RemoveEntriesEffect
  <2> QED BY <2>1
<1>3. CASE RemoveUnexpectedSubdirs
  <2>1. PICK gone : /\ dirs' = [p \in DOMAIN dirs \ gone |-> dirs[p]]
                    /\ \A p \in gone : Len(p) = 3
                    /\ \A e \in ExpectedDirs(Config[mine]) : e.path \notin gone
    BY <1>3, RemoveSubdirsEffect
  <2>2. DOMAIN dirs' = DOMAIN dirs \ gone
    BY <2>1
  <2> QED BY <2>1, <2>2
<1>4. CASE EnsureLink \/ RemoveUnexpectedLinks \/ Finish
  <2>1. dirs' = dirs
    BY <1>4 DEF EnsureLink, RemoveUnexpectedLinks, Finish, fs
  <2> QED BY <2>1
<1> QED BY <1>1, <1>2, <1>3, <1>4 DEF RunStep

LEMMA RunStepOnLinks ==
    ASSUME BaseInv, RunStep
    PROVE  /\ \A p \in DOMAIN links' : p \notin DOMAIN links =>
                \E l \in ExpectedLinks(Config[mine]) \cup Elements(Config[mine].symlinks) : p = l.path
           /\ \A p \in DOMAIN links : p \notin DOMAIN links' => Len(p) = 3
           /\ ~ RemoveUnexpectedLinks =>
                \A p \in DOMAIN links : p \in DOMAIN links' /\ links'[p] = links[p]
<1>1. CASE EnsureLink
  <2>1. PICK l \in ExpectedLinks(Config[mine]) \cup Elements(Config[mine].symlinks) :
           \/ links' = links
           \/ /\ l.path \notin DOMAIN links
              /\ links' = [p \in DOMAIN links \cup {l.path} |-> IF p = l.path THEN l.target ELSE links[p]]
    BY <1>1, EnsureLinkEffect
  <2> QED BY <2>1
<1>2. CASE RemoveUnexpectedLinks
  <2>1. PICK gone : /\ links' = [p \in DOMAIN links \ gone |-> links[p]]
                    /\ \A p \in gone : Len(p) = 3
    BY <1>2, RemoveLinksEffect
  <2>2. DOMAIN links' = DOMAIN links \ gone
    BY <2>1
  <2> QED BY <1>2, <2>1, <2>2
<1>3. CASE MakeDir \/ ModifyAcl \/ RemoveEntries \/ RemoveUnexpectedSubdirs \/ Finish
  <2>1. links' = links
    BY <1>3 DEF MakeDir, ModifyAcl, RemoveEntries, RemoveUnexpectedSubdirs, Finish, fs
  <2> QED BY <2>1
<1> QED BY <1>1, <1>2, <1>3 DEF RunStep

\* What is removed is below the directories of services and org units, so that the
\* directories in them stay as full as they are.
LEMMA StillNotEmpty ==
    ASSUME BaseInv, RunStep, NEW p \in NotEmpty, Len(p) = 3
    PROVE  p \in NotEmpty'
<1>1. filled' = filled
  BY DEF RunStep, MakeDir, ModifyAcl, RemoveEntries, RemoveUnexpectedSubdirs, EnsureLink,
         RemoveUnexpectedLinks, Finish, IsDue, fs
<1>2. CASE p \in filled
  BY <1>1, <1>2 DEF NotEmpty
<1>3. ASSUME NEW q \in DOMAIN dirs \cup DOMAIN links, p = Parent(q)
      PROVE  q \in DOMAIN dirs' \cup DOMAIN links'
  <2>1. q \in Seq(Elements(q)) /\ q # <<>>
    <3>1. q \in KnownDirs \/ q \in KnownLinks
      BY DEF BaseInv, FilesAreKnown
    <3>2. q \in KnownDirs => q \in Seq(Elements(q)) /\ q # <<>>
      BY DirsAndLinks DEF IsToplevel
    <3> QED BY <3>1, <3>2, DirsAndLinks
  <2>2. Len(p) = Len(q) - 1 /\ Len(q) \in Nat
    <3> DEFINE S == Elements(q)
    <3>1. q \in Seq(S) /\ q # <<>>
      BY <2>1
    <3> HIDE DEF S
    <3>2. Len(Parent(q)) = Len(q) - 1
      BY <3>1, ParentFacts
    <3>3. Len(q) \in Nat
      BY <3>1
    <3>4. Len(p) = Len(Parent(q))
      BY <1>3
    <3> QED BY <3>2, <3>3, <3>4
  <2>3. Len(q) # 3
    <3> DEFINE l == Len(q)
               k == Len(p)
    <3>1. k = l - 1 /\ k = 3
      BY <2>2
    <3> HIDE DEF l, k
    <3>2. l # 3
      BY <3>1
    <3> QED BY <3>2 DEF l
  <2> QED BY <2>3, RunStepOnDirs, RunStepOnLinks
<1> QED BY <1>2, <1>3 DEF NotEmpty
LEMMA RemoveSubdirsAchieves ==
    ASSUME BaseInv, RemoveUnexpectedSubdirs
    PROVE  IsAchieved(Op, Config[mine], dirs', links', NotEmpty')
<1>1. PICK s, gone :
         /\ Op = RemovingDirs(Config[mine], s)
         /\ gone = ChildrenIn(dirs, ServicePath(s)) \ (Op.expected \cup NotEmpty)
         /\ dirs' = [p \in DOMAIN dirs \ gone |-> dirs[p]]
  BY RemoveSubdirsEffect
<1>2. Op.kind = "rmdirs" /\ Op.path = ServicePath(s) /\ Len(ServicePath(s)) = 2
  BY <1>1, FieldsOfOps DEF ServicePath
<1>3. ASSUME NEW q \in ChildrenIn(dirs', ServicePath(s))
      PROVE  q \in Op.expected \cup NotEmpty'
  <2>1. Len(q) = 3 /\ q \in ChildrenIn(dirs, ServicePath(s)) /\ q \notin gone
    BY <1>1, <1>2 DEF ChildrenIn
  <2>2. q \in Op.expected \/ q \in NotEmpty
    BY <1>1, <2>1
  <2> QED BY <2>1, <2>2, StillNotEmpty DEF RunStep
<1> QED BY <1>2, <1>3 DEF IsAchieved

LEMMA RemoveLinksAchieves ==
    ASSUME BaseInv, RemoveUnexpectedLinks
    PROVE  IsAchieved(Op, Config[mine], dirs', links', NotEmpty')
<1>1. PICK ou, gone :
         /\ Op = RemovingLinks(Config[mine], ou)
         /\ gone = ChildrenIn(links, OuPath(ou)) \ Op.expected
         /\ links' = [p \in DOMAIN links \ gone |-> links[p]]
  BY RemoveLinksEffect
<1>2. Op.kind = "rmlinks" /\ Op.path = OuPath(ou)
  BY <1>1, FieldsOfOps
<1>3. ChildrenIn(links', OuPath(ou)) \subseteq Op.expected
  BY <1>1 DEF ChildrenIn
<1> QED BY <1>2, <1>3 DEF IsAchieved
-----------------------------------------------------------------------------
\* What has been achieved stays.

LEMMA GroupStays ==
    ASSUME BaseInv, RunStep, NEW e \in ExpectedDirs(Config[mine]), e.path \in DOMAIN dirs,
           dirs[e.path].group = e.group
    PROVE  dirs'[e.path].group = e.group
<1>1. CASE MakeDir
  <2>1. PICK f \in ExpectedDirs(Config[mine]) :
           /\ \A p \in DOMAIN dirs : p # f.path => dirs'[p] = dirs[p]
           /\ f.path \in DOMAIN dirs =>
                 dirs'[f.path] = [group |-> f.group, acl |-> dirs[f.path].acl, dfl |-> dirs[f.path].dfl]
    BY <1>1, MakeDirEffect
  <2>2. f.path = e.path => f = e
    BY ConfigFacts, SameEntry DEF BaseInv, TypeOK
  <2> QED BY <2>1, <2>2
<1>2. CASE ModifyAcl
  <2>1. PICK f : /\ \A p \in DOMAIN dirs : p # f.path => dirs'[p] = dirs[p]
                 /\ dirs'[f.path] = SetEntries(dirs[f.path], DOMAIN f.acl.named, f.acl.mask, f.dfl.mask)
    BY <1>2, ModifyAclEffect
  <2> QED BY <2>1 DEF SetEntries
<1>3. CASE RemoveEntries
  <2>1. PICK f : /\ \A p \in DOMAIN dirs : p # f.path => dirs'[p] = dirs[p]
                 /\ dirs'[f.path] = DropEntries(dirs[f.path], f.compared \ DOMAIN f.acl.named)
    BY <1>3, RemoveEntriesEffect
  <2> QED BY <2>1 DEF DropEntries
<1>4. CASE RemoveUnexpectedSubdirs
  <2>1. PICK gone : /\ dirs' = [p \in DOMAIN dirs \ gone |-> dirs[p]]
                    /\ \A f \in ExpectedDirs(Config[mine]) : f.path \notin gone
    BY <1>4, RemoveSubdirsEffect
  <2> QED BY <2>1
<1>5. CASE EnsureLink \/ RemoveUnexpectedLinks \/ Finish
  BY <1>5 DEF EnsureLink, RemoveUnexpectedLinks, Finish, fs
<1> QED BY <1>1, <1>2, <1>3, <1>4, <1>5 DEF RunStep

\* setfacl -X leaves the mask as it is, for a group that is to have all that may be allowed
\* is among the entries that stay.
LEMMA DropHolds ==
    ASSUME NEW a, NEW gs, NEW perms, Holds(a, gs, perms), gs # {}, NEW others,
           others \cap gs = {}, Limited(a, perms)
    PROVE  Holds(Unmasked(Without(a.named, others)), gs, perms)
<1> DEFINE b == Unmasked(Without(a.named, others))
           left == DOMAIN a.named \ others
<1>1. gs \subseteq left /\ \A g \in gs : a.named[g] = perms
  BY DEF Holds
<1>2. DOMAIN b.named = left /\ \A g \in left : b.named[g] = a.named[g]
  BY UnmaskedFacts
<1>3. b.mask = UNION {a.named[g] : g \in left}
  BY UnmaskedFacts
<1>4. \A g \in left : a.named[g] \subseteq perms
  BY DEF Limited
<1> HIDE DEF b, left
<1>5. UNION {a.named[g] : g \in left} \subseteq perms
  BY <1>4
<1>6. perms \subseteq UNION {a.named[g] : g \in left}
  <2>1. PICK g \in gs : TRUE
    OBVIOUS
  <2> QED BY <1>1, <2>1
<1>7. b.mask = perms
  BY <1>3, <1>5, <1>6
<1>8. Holds(b, gs, perms)
  BY <1>1, <1>2, <1>7 DEF Holds
<1> QED BY <1>8 DEF b

LEMMA HeldStay ==
    ASSUME BaseInv, RunStep, NEW e \in ExpectedDirs(Config[mine]), e.compared # {},
           e.path \in DOMAIN dirs,
           Holds(dirs[e.path].acl, DOMAIN e.acl.named, e.acl.mask),
           Holds(dirs[e.path].dfl, DOMAIN e.acl.named, e.dfl.mask)
    PROVE  /\ Holds(dirs'[e.path].acl, DOMAIN e.acl.named, e.acl.mask)
           /\ Holds(dirs'[e.path].dfl, DOMAIN e.acl.named, e.dfl.mask)
<1> DEFINE p == e.path
           gs == DOMAIN e.acl.named
           others == e.compared \ gs
<1>1. ConfigIsSound(Config[mine]) /\ mine \in DOMAIN Config
  BY ConfigFacts DEF BaseInv, TypeOK
<1>2. p \in DOMAIN dirs'
  BY RunStepOnDirs
<1>3. \A f \in ExpectedDirs(Config[mine]) : f.path = p => f = e
  BY <1>1, SameEntry
<1>4. CASE dirs'[p].acl = dirs[p].acl /\ dirs'[p].dfl = dirs[p].dfl
  BY <1>4
<1>5. CASE dirs'[p] = SetEntries(dirs[p], gs, e.acl.mask, e.dfl.mask)
  <2>1. /\ dirs'[p].acl = Modified(dirs[p].acl, gs, e.acl.mask)
        /\ dirs'[p].dfl = Modified(dirs[p].dfl, gs, e.dfl.mask)
    BY <1>5 DEF SetEntries
  <2> QED BY <2>1, SetHolds
<1>6. CASE dirs'[p] = DropEntries(dirs[p], others) /\ e.compared # gs
  <2>1. /\ dirs'[p].acl = Unmasked(Without(dirs[p].acl.named, others))
        /\ dirs'[p].dfl = Unmasked(Without(dirs[p].dfl.named, others))
    BY <1>6 DEF DropEntries
  <2>2. IsEntry(p, gs, e.compared, e.acl.mask, e.dfl.mask) /\ Len(p) # 1
    BY <1>1, CertainlyBelow
  <2>3. gs # {} /\ e.acl.mask = Bound(p) /\ e.dfl.mask = Bound(p)
    BY <1>6, <2>2 DEF IsEntry
  <2>4. Limited(dirs[p].acl, Bound(p)) /\ Limited(dirs[p].dfl, Bound(p))
    BY DEF BaseInv, FilesAreKnown, Fits
  <2>5. others \cap gs = {}
    OBVIOUS
  <2> HIDE DEF p, gs, others
  <2>6. Holds(dirs[p].acl, gs, e.acl.mask) /\ Holds(dirs[p].dfl, gs, e.dfl.mask)
    BY DEF p, gs
  <2>7. Holds(dirs'[p].acl, gs, e.acl.mask) /\ Holds(dirs'[p].dfl, gs, e.dfl.mask)
    BY <2>1, <2>3, <2>4, <2>5, <2>6, DropHolds
  <2> QED BY <2>7 DEF p, gs
<1>7. ASSUME NEW f \in ExpectedDirs(Config[mine]), f.path = p,
             \/ dirs'[p] = SetEntries(dirs[p], DOMAIN f.acl.named, f.acl.mask, f.dfl.mask)
             \/ /\ f.compared # DOMAIN f.acl.named
                /\ dirs'[p] = DropEntries(dirs[p], f.compared \ DOMAIN f.acl.named)
      PROVE  /\ Holds(dirs'[e.path].acl, DOMAIN e.acl.named, e.acl.mask)
             /\ Holds(dirs'[e.path].dfl, DOMAIN e.acl.named, e.dfl.mask)
  BY <1>3, <1>5, <1>6, <1>7
<1> HIDE DEF p
<1>8. p \in DOMAIN dirs
  BY DEF p
<1> QED BY <1>2, <1>4, <1>7, <1>8, RunStepOnAcls
LEMMA StillLacks ==
    ASSUME BaseInv, RunStep, NEW e \in ExpectedDirs(Config[mine]), e.path \in DOMAIN dirs,
           Lacks(dirs[e.path].acl, e.compared \ DOMAIN e.acl.named),
           Lacks(dirs[e.path].dfl, e.compared \ DOMAIN e.acl.named)
    PROVE  /\ Lacks(dirs'[e.path].acl, e.compared \ DOMAIN e.acl.named)
           /\ Lacks(dirs'[e.path].dfl, e.compared \ DOMAIN e.acl.named)
<1> DEFINE p == e.path
           gs == DOMAIN e.acl.named
           others == e.compared \ gs
<1>1. ConfigIsSound(Config[mine]) /\ mine \in DOMAIN Config
  BY ConfigFacts DEF BaseInv, TypeOK
<1>2. p \in DOMAIN dirs'
  BY RunStepOnDirs
<1>3. \A f \in ExpectedDirs(Config[mine]) : f.path = p => f = e
  BY <1>1, SameEntry
<1>4. CASE dirs'[p].acl = dirs[p].acl /\ dirs'[p].dfl = dirs[p].dfl
  BY <1>4
<1>5. CASE dirs'[p] = SetEntries(dirs[p], gs, e.acl.mask, e.dfl.mask)
  <2>1. /\ dirs'[p].acl = Modified(dirs[p].acl, gs, e.acl.mask)
        /\ dirs'[p].dfl = Modified(dirs[p].dfl, gs, e.dfl.mask)
    BY <1>5 DEF SetEntries
  <2>2. /\ DOMAIN dirs'[p].acl.named = DOMAIN dirs[p].acl.named \cup gs
        /\ DOMAIN dirs'[p].dfl.named = DOMAIN dirs[p].dfl.named \cup gs
    BY <2>1, ModifiedFacts
  <2> QED BY <2>2 DEF Lacks
<1>6. CASE dirs'[p] = DropEntries(dirs[p], others)
  <2>1. /\ dirs'[p].acl = Unmasked(Without(dirs[p].acl.named, others))
        /\ dirs'[p].dfl = Unmasked(Without(dirs[p].dfl.named, others))
    BY <1>6 DEF DropEntries
  <2> QED BY <2>1, DropLacks
<1>7. ASSUME NEW f \in ExpectedDirs(Config[mine]), f.path = p,
             \/ dirs'[p] = SetEntries(dirs[p], DOMAIN f.acl.named, f.acl.mask, f.dfl.mask)
             \/ dirs'[p] = DropEntries(dirs[p], f.compared \ DOMAIN f.acl.named)
      PROVE  /\ Lacks(dirs'[e.path].acl, e.compared \ DOMAIN e.acl.named)
             /\ Lacks(dirs'[e.path].dfl, e.compared \ DOMAIN e.acl.named)
  BY <1>3, <1>5, <1>6, <1>7
<1> HIDE DEF p
<1>8. p \in DOMAIN dirs
  BY DEF p
<1> QED BY <1>2, <1>4, <1>7, <1>8, RunStepOnAcls

\* A link that has been ensured is removed by no later step: rmUnexpectedLinks() comes before
\* the explicit symlinks.
LEMMA MostLinks ==
    ASSUME NEW c, NEW op \in MostOps(c), op.kind = "link"
    PROVE  \E l \in ExpectedLinks(c) : op = LinkingOf(l)
<1>1. CASE op \in UNION {DirOps(e) : e \in ExpectedDirs(c)}
  <2>1. PICK e : op \in DirOps(e)
    BY <1>1
  <2> QED BY <2>1, FieldsOfOps DEF DirOps
<1>2. op \notin {RemovingDirs(c, s) : s \in Elements(c.services)}
  BY FieldsOfOps
<1>3. op \notin {RemovingLinks(c, ou) : ou \in Elements(c.ous)}
  BY FieldsOfOps
<1> QED BY <1>1, <1>2, <1>3 DEF MostOps

LEMMA LinkStays ==
    ASSUME BaseInv, RunStep, NEW op \in AllOps(Config[mine]), op.kind = "link",
           LinkOk(op, links), RemoveUnexpectedLinks => op \in MostOps(Config[mine])
    PROVE  LinkOk(op, links')
<1>1. CASE ~ RemoveUnexpectedLinks
  BY <1>1, RunStepOnLinks DEF LinkOk
<1>2. CASE RemoveUnexpectedLinks
  <2>1. PICK l \in ExpectedLinks(Config[mine]) : op = LinkingOf(l)
    BY <1>2, MostLinks
  <2>2. PICK gone : /\ links' = [p \in DOMAIN links \ gone |-> links[p]]
                    /\ \A k \in ExpectedLinks(Config[mine]) : k.path \notin gone
    BY <1>2, RemoveLinksEffect
  <2>3. op.path = l.path
    BY <2>1, FieldsOfOps
  <2> QED BY <2>2, <2>3 DEF LinkOk
<1> QED BY <1>1, <1>2
LEMMA StaysAchieved ==
    ASSUME BaseInv, RunStep, NEW op \in AllOps(Config[mine]),
           RemoveUnexpectedLinks => op \in MostOps(Config[mine]),
           IsAchieved(op, Config[mine], dirs, links, NotEmpty)
    PROVE  IsAchieved(op, Config[mine], dirs', links', NotEmpty')
<1> DEFINE c == Config[mine]
<1>1. ConfigIsSound(c) /\ mine \in DOMAIN Config
  BY ConfigFacts DEF BaseInv, TypeOK
<1>2. op \in MostOps(c) \cup ExplicitOps(c)
  BY DEF AllOps
<1>3. CASE op.kind = "mkdir"
  <2>1. PICK e \in ExpectedDirs(c) : op = Making(e.path, e.group)
    BY <1>2, <1>3, OpOfKind
  <2>2. op.path = e.path /\ op.group = e.group
    BY <2>1, FieldsOfOps
  <2>3. e.path \in DOMAIN dirs /\ dirs[e.path].group = e.group
    BY <1>3, <2>2 DEF IsAchieved
  <2>4. e.path \in DOMAIN dirs' /\ dirs'[e.path].group = e.group
    BY <2>3, GroupStays, RunStepOnDirs
  <2> QED BY <1>3, <2>2, <2>4 DEF IsAchieved
<1>4. CASE op.kind = "modify"
  <2>1. PICK e \in ExpectedDirs(c) :
           e.compared # {} /\ op = Modifying(e.path, DOMAIN e.acl.named, e.acl.mask, e.dfl.mask)
    BY <1>2, <1>4, OpOfKind
  <2>2. /\ op.path = e.path /\ op.groups = DOMAIN e.acl.named
        /\ op.perms = e.acl.mask /\ op.default = e.dfl.mask
    BY <2>1, FieldsOfOps
  <2>3. /\ e.path \in DOMAIN dirs
        /\ Holds(dirs[e.path].acl, DOMAIN e.acl.named, e.acl.mask)
        /\ Holds(dirs[e.path].dfl, DOMAIN e.acl.named, e.dfl.mask)
    BY <1>4, <2>2 DEF IsAchieved
  <2>4. /\ e.path \in DOMAIN dirs'
        /\ Holds(dirs'[e.path].acl, DOMAIN e.acl.named, e.acl.mask)
        /\ Holds(dirs'[e.path].dfl, DOMAIN e.acl.named, e.dfl.mask)
    BY <2>1, <2>3, HeldStay, RunStepOnDirs
  <2> QED BY <1>4, <2>2, <2>4 DEF IsAchieved
<1>5. CASE op.kind = "remove"
  <2>1. PICK e \in ExpectedDirs(c) : op = Removing(e.path, e.compared \ DOMAIN e.acl.named)
    BY <1>2, <1>5, OpOfKind
  <2>2. op.path = e.path /\ op.groups = e.compared \ DOMAIN e.acl.named
    BY <2>1, FieldsOfOps
  <2>3. /\ e.path \in DOMAIN dirs
        /\ Lacks(dirs[e.path].acl, e.compared \ DOMAIN e.acl.named)
        /\ Lacks(dirs[e.path].dfl, e.compared \ DOMAIN e.acl.named)
    BY <1>5, <2>2 DEF IsAchieved
  <2>4. /\ e.path \in DOMAIN dirs'
        /\ Lacks(dirs'[e.path].acl, e.compared \ DOMAIN e.acl.named)
        /\ Lacks(dirs'[e.path].dfl, e.compared \ DOMAIN e.acl.named)
    BY <2>3, StillLacks, RunStepOnDirs
  <2> QED BY <1>5, <2>2, <2>4 DEF IsAchieved
<1>6. CASE op.kind = "link"
  BY <1>6, LinkStays DEF IsAchieved
<1>7. CASE op.kind = "rmdirs"
  <2>1. PICK s \in Elements(c.services) : op = RemovingDirs(c, s)
    BY <1>2, <1>7, OpOfKind
  <2>2. op.path = ServicePath(s) /\ Len(ServicePath(s)) = 2
    BY <2>1, FieldsOfOps DEF ServicePath
  <2>3. ASSUME NEW q \in ChildrenIn(dirs', op.path)
        PROVE  q \in op.expected \cup NotEmpty'
    <3>1. Len(q) = 3 /\ Parent(q) = ServicePath(s) /\ q \in DOMAIN dirs'
      BY <2>2, <2>3 DEF ChildrenIn
    <3>2. CASE q \in DOMAIN dirs
      <4>1. q \in op.expected \cup NotEmpty
        BY <1>7, <2>2, <3>1, <3>2 DEF IsAchieved, ChildrenIn
      <4> QED BY <3>1, <4>1, StillNotEmpty
    <3>3. CASE q \notin DOMAIN dirs
      <4>1. PICK e \in ExpectedDirs(c) : q = e.path
        BY <3>1, <3>3, RunStepOnDirs
      <4> QED BY <1>1, <2>1, <3>1, <4>1, KeptDirs
    <3> QED BY <3>2, <3>3
  <2> QED BY <1>7, <2>3 DEF IsAchieved
<1>8. CASE op.kind = "rmlinks"
  <2>1. PICK ou \in Elements(c.ous) : op = RemovingLinks(c, ou)
    BY <1>2, <1>8, OpOfKind
  <2>2. op.path = OuPath(ou)
    BY <2>1, FieldsOfOps
  <2>3. ASSUME NEW q \in ChildrenIn(links', op.path)
        PROVE  q \in op.expected \cup ExplicitPaths(c)
    <3>1. Parent(q) = OuPath(ou) /\ q \in DOMAIN links'
      BY <2>2, <2>3 DEF ChildrenIn
    <3>2. CASE q \in DOMAIN links
      BY <1>8, <2>3, <3>2 DEF IsAchieved, ChildrenIn
    <3>3. CASE q \notin DOMAIN links
      <4>1. PICK l \in ExpectedLinks(c) \cup Elements(c.symlinks) : q = l.path
        BY <3>1, <3>3, RunStepOnLinks
      <4>2. CASE l \in ExpectedLinks(c)
        BY <1>1, <2>1, <3>1, <4>1, <4>2, KeptLinks
      <4>3. CASE l \in Elements(c.symlinks)
        BY <4>1, <4>3 DEF ExplicitPaths
      <4> QED BY <4>2, <4>3
    <3> QED BY <3>2, <3>3
  <2> QED BY <1>8, <2>3 DEF IsAchieved
<1> QED BY <1>2, <1>3, <1>4, <1>5, <1>6, <1>7, <1>8, OpOfKind
-----------------------------------------------------------------------------
\* What a run that has not been disturbed leaves.

LEMMA WorkKeeps ==
    ASSUME BaseInv, RunInv, RunStep, ~ Finish
    PROVE  RunInv'
<1> DEFINE c == Config[mine]
           t == Program[mine]
<1>1. /\ mine \in DOMAIN Config /\ pc \in 1 .. Len(t) /\ mine' = mine /\ conf' = conf /\ calm' = calm
      /\ RemoveUnexpectedLinks => Op.kind = "rmlinks"
  BY DEF BaseInv, TypeOK, RunStep, MakeDir, ModifyAcl, RemoveEntries, RemoveUnexpectedSubdirs,
         EnsureLink, RemoveUnexpectedLinks, IsDue
<1>2. End("failed") \/ (Done /\ IsAchieved(Op, c, dirs', links', NotEmpty'))
  <2>1. MakeDir \/ ModifyAcl \/ RemoveEntries \/ RemoveUnexpectedSubdirs \/ RemoveUnexpectedLinks => Done
    BY DEF MakeDir, ModifyAcl, RemoveEntries, RemoveUnexpectedSubdirs, RemoveUnexpectedLinks
  <2> QED BY <2>1, MakeDirAchieves, ModifyAclAchieves, RemoveEntriesAchieves, RemoveSubdirsAchieves,
             EnsureLinkAchieves, RemoveLinksAchieves DEF RunStep
<1>3. CASE End("failed")
  BY <1>3 DEF End, RunInv, Settled
<1>4. CASE Done /\ IsAchieved(Op, c, dirs', links', NotEmpty')
  <2>1. Len(t) \in Nat /\ pc' = pc + 1
    BY <1>1, <1>4, ConfigFacts, ProgramFacts DEF Done
  <2>2. ~ Settled'
    BY <1>1, <2>1 DEF Settled
  <2>3. ASSUME calm, NEW k \in 1 .. pc
        PROVE  mine = conf /\ IsAchieved(t[k], c, dirs', links', NotEmpty')
    <3>1. pc > 0
      BY <1>1, <2>1
    <3>2. mine = conf /\ \A i \in 1 .. pc - 1 : IsAchieved(t[i], c, dirs, links, NotEmpty)
      BY <2>3, <3>1 DEF RunInv
    <3>3. CASE k = pc
      BY <1>4, <3>2, <3>3 DEF Op
    <3>4. CASE k \in 1 .. pc - 1
      <4>1. k \in 1 .. Len(t) /\ k < pc
        BY <1>1, <2>1, <3>4
      <4>2. t[k] \in AllOps(c)
        BY <1>1, <4>1, ConfigFacts, ProgramFacts DEF AllOps
      <4>3. Op.kind = "rmlinks" => t[k] \in MostOps(c)
        BY <1>1, <4>1, ConfigFacts, ProgramFacts DEF Op
      <4> QED BY <1>1, <3>2, <3>4, <4>2, <4>3, StaysAchieved
    <3> QED BY <1>1, <2>1, <3>3, <3>4
  <2>4. pc \in 1 .. pc /\ pc' - 1 = pc
    BY <1>1, <2>1
  <2>5. calm' /\ pc' > 0 =>
          /\ mine' = conf'
          /\ \A k \in 1 .. pc' - 1 : IsAchieved(Program[mine'][k], Config[mine'], dirs', links', NotEmpty')
    BY <1>1, <2>3, <2>4
  <2> QED BY <2>2, <2>5 DEF RunInv
<1> QED BY <1>2, <1>3, <1>4

LEMMA FinishKeeps ==
    ASSUME BaseInv, RunInv, Finish
    PROVE  RunInv'
<1> DEFINE c == Config[mine]
           t == Program[mine]
<1>1. /\ mine \in DOMAIN Config /\ pc = Len(t) + 1 /\ mine' = mine /\ conf' = conf /\ calm' = calm
      /\ pc' = 0 /\ dirs' = dirs /\ links' = links /\ filled' = filled
  BY DEF BaseInv, TypeOK, Finish, End, fs
<1>2. NotEmpty' = NotEmpty
  BY <1>1 DEF NotEmpty
<1>3. Len(t) \in Nat /\ \A op \in AllOps(c) : \E i \in 1 .. Len(t) : t[i] = op
  BY <1>1, ConfigFacts, ProgramFacts DEF AllOps
<1>4. ASSUME calm
      PROVE  mine = conf /\ \A op \in AllOps(c) : IsAchieved(op, c, dirs, links, NotEmpty)
  <2>1. pc > 0 /\ pc - 1 = Len(t)
    BY <1>1, <1>3
  <2>2. mine = conf /\ \A i \in 1 .. pc - 1 : IsAchieved(t[i], c, dirs, links, NotEmpty)
    BY <1>4, <2>1 DEF RunInv
  <2> QED BY <1>3, <2>1, <2>2
<1>5. ~ (calm' /\ pc' > 0)
  BY <1>1
<1>6. Settled' =>
        /\ mine' = conf'
        /\ \A op \in AllOps(Config[mine']) : IsAchieved(op, Config[mine'], dirs', links', NotEmpty')
  BY <1>1, <1>2, <1>4 DEF Settled
<1> QED BY <1>5, <1>6 DEF RunInv

LEMMA RunInvHolds == Spec => []RunInv
<1>1. Init => RunInv
  BY DEF Init, RunInv, Settled
<1>2. BaseInv /\ RunInv /\ [Next]_vars => RunInv'
  <2> SUFFICES ASSUME BaseInv, RunInv, [Next]_vars PROVE RunInv'
    OBVIOUS
  <2>1. CASE RunStep
    BY <2>1, WorkKeeps, FinishKeeps
  <2>2. CASE StartRun
    BY <2>2 DEF StartRun, RunInv, Settled
  <2>3. CASE Configure \/ Kill \/ (\E p \in Fillable : Fill(p))
             \/ (\E p \in DOMAIN dirs, g \in SharedWith : ShareDir(p, g))
    <3>1. calm' = FALSE
      BY <2>3 DEF Configure, Kill, Fill, ShareDir, Besides
    <3> QED BY <3>1 DEF RunInv, Settled
  <2>4. CASE UNCHANGED vars
    <3>1. NotEmpty' = NotEmpty
      BY <2>4 DEF vars, fs, NotEmpty
    <3> QED BY <2>4, <3>1 DEF vars, fs, RunInv, Settled
  <2> QED BY <2>1, <2>2, <2>3, <2>4 DEF Next
<1> QED BY <1>1, <1>2, BaseInvHolds, PTL DEF Spec
-----------------------------------------------------------------------------
\* What check finds then.

LEMMA ComparedIs ==
    ASSUME NEW a, IsAcl(a), NEW all
    PROVE  Compared(a, all) = Acl([g \in DOMAIN a.named \cap all |-> a.named[g]], a.mask)
<1> DEFINE h == a.named
           m == a.mask
           k == [g \in DOMAIN h \cap all |-> h[g]]
<1>1. a = [named |-> h, mask |-> m]
  <2>1. a = Acl([g \in DOMAIN a.named |-> a.named[g]], a.mask)
    BY DEF IsAcl
  <2> QED BY <2>1 DEF Acl
<1>2. Compared(a, all) = [a EXCEPT !.named = k]
  BY DEF Compared
<1>3. [a EXCEPT !.named = k] = [named |-> k, mask |-> m]
  <2> HIDE DEF h, m, k
  <2> QED BY <1>1
<1> QED BY <1>2, <1>3 DEF Acl

LEMMA ComparedSame ==
    ASSUME NEW a, IsAcl(a), NEW all, NEW gs, gs \subseteq all, NEW perms,
           Holds(a, gs, perms), Lacks(a, all \ gs)
    PROVE  Compared(a, all) = Acl(Entries(gs, perms), perms)
<1>1. DOMAIN a.named \cap all = gs
  BY DEF Holds, Lacks
<1>2. [g \in DOMAIN a.named \cap all |-> a.named[g]] = Entries(gs, perms)
  BY <1>1 DEF Entries, Holds
<1>3. a.mask = perms
  BY DEF Holds
<1> QED BY <1>2, <1>3, ComparedIs

LEMMA EntryIsOk ==
    ASSUME NEW c, ConfigIsSound(c), NEW e \in ExpectedDirs(c), e.path \in DOMAIN dirs,
           Fits(e.path, dirs[e.path]), dirs[e.path].group = e.group,
           e.compared # {} =>
              /\ Holds(dirs[e.path].acl, DOMAIN e.acl.named, e.acl.mask)
              /\ Holds(dirs[e.path].dfl, DOMAIN e.acl.named, e.dfl.mask),
           e.compared # DOMAIN e.acl.named =>
              /\ Lacks(dirs[e.path].acl, e.compared \ DOMAIN e.acl.named)
              /\ Lacks(dirs[e.path].dfl, e.compared \ DOMAIN e.acl.named)
    PROVE  AclOk(e, dirs)
<1> DEFINE gs == DOMAIN e.acl.named
           m == e.acl.mask
           n == e.dfl.mask
           a == dirs[e.path].acl
           b == dirs[e.path].dfl
<1>1. /\ e.acl = Acl(Entries(gs, m), m) /\ e.dfl = Acl(Entries(gs, n), n)
      /\ IsEntry(e.path, gs, e.compared, m, n)
  BY EntryFacts
<1>2. IsAcl(a) /\ IsAcl(b)
  BY DEF Fits, IsDir
<1>3. gs \subseteq e.compared
  BY <1>1 DEF IsEntry
<1>4. Holds(a, gs, m) /\ Holds(b, gs, n)
  <2>1. CASE Len(e.path) = 1
    <3>1. a = NoAcl /\ b = NoAcl
      BY <2>1 DEF Fits
    <3>2. gs = {} /\ m = {} /\ n = {}
      BY <1>1, <2>1 DEF IsEntry
    <3>3. NoAcl.mask = {}
      BY DEF NoAcl, Acl
    <3> HIDE DEF gs, m, n, a, b
    <3> QED BY <3>1, <3>2, <3>3 DEF Holds
  <2>2. CASE Len(e.path) # 1
    BY <1>1, <2>2 DEF IsEntry
  <2> QED BY <2>1, <2>2
<1>5. Lacks(a, e.compared \ gs) /\ Lacks(b, e.compared \ gs)
  <2>1. CASE e.compared = gs
    <3>1. e.compared \ gs = {}
      BY <2>1
    <3> HIDE DEF gs, a, b
    <3> QED BY <3>1 DEF Lacks
  <2> QED BY <2>1
<1> HIDE DEF gs, m, n, a, b
<1>6. Compared(a, e.compared) = e.acl /\ Compared(b, e.compared) = e.dfl
  BY <1>1, <1>2, <1>3, <1>4, <1>5, ComparedSame
<1> QED BY <1>6 DEF AclOk, a, b
LEMMA AllIsOk ==
    ASSUME BaseInv, NEW c, ConfigIsSound(c),
           \A op \in AllOps(c) : IsAchieved(op, c, dirs, links, NotEmpty)
    PROVE  /\ \A e \in ExpectedDirs(c) : AclOk(e, dirs)
           /\ \A l \in ExpectedLinks(c) \cup Elements(c.symlinks) : LinkOk(l, links)
           /\ \A s \in Elements(c.services) :
                 ChildrenIn(dirs, ServicePath(s)) \subseteq RemovingDirs(c, s).expected \cup NotEmpty
           /\ \A ou \in Elements(c.ous) :
                 ChildrenIn(links, OuPath(ou)) \subseteq RemovingLinks(c, ou).expected \cup ExplicitPaths(c)
<1>1. ASSUME NEW e \in ExpectedDirs(c)
      PROVE  AclOk(e, dirs)
  <2>1. DirOps(e) \subseteq AllOps(c)
    BY DEF AllOps, MostOps
  <2>2. e.path \in DOMAIN dirs /\ dirs[e.path].group = e.group
    <3> DEFINE op == Making(e.path, e.group)
    <3>1. op.kind = "mkdir" /\ op.path = e.path /\ op.group = e.group
      BY FieldsOfOps
    <3>2. op \in AllOps(c)
      BY <2>1 DEF DirOps
    <3> HIDE DEF op
    <3>3. IsAchieved(op, c, dirs, links, NotEmpty)
      BY <3>2
    <3> QED BY <3>1, <3>3 DEF IsAchieved
  <2>3. ASSUME e.compared # {}
        PROVE  /\ Holds(dirs[e.path].acl, DOMAIN e.acl.named, e.acl.mask)
               /\ Holds(dirs[e.path].dfl, DOMAIN e.acl.named, e.dfl.mask)
    <3> DEFINE op == Modifying(e.path, DOMAIN e.acl.named, e.acl.mask, e.dfl.mask)
    <3>1. /\ op.kind = "modify" /\ op.path = e.path /\ op.groups = DOMAIN e.acl.named
          /\ op.perms = e.acl.mask /\ op.default = e.dfl.mask
      BY FieldsOfOps
    <3>2. op \in AllOps(c)
      BY <2>1, <2>3 DEF DirOps
    <3> HIDE DEF op
    <3>3. IsAchieved(op, c, dirs, links, NotEmpty)
      BY <3>2
    <3> QED BY <3>1, <3>3 DEF IsAchieved
  <2>4. ASSUME e.compared # DOMAIN e.acl.named
        PROVE  /\ Lacks(dirs[e.path].acl, e.compared \ DOMAIN e.acl.named)
               /\ Lacks(dirs[e.path].dfl, e.compared \ DOMAIN e.acl.named)
    <3> DEFINE op == Removing(e.path, e.compared \ DOMAIN e.acl.named)
    <3>1. op.kind = "remove" /\ op.path = e.path /\ op.groups = e.compared \ DOMAIN e.acl.named
      BY FieldsOfOps
    <3>2. op \in AllOps(c)
      BY <2>1, <2>4 DEF DirOps
    <3> HIDE DEF op
    <3>3. IsAchieved(op, c, dirs, links, NotEmpty)
      BY <3>2
    <3> QED BY <3>1, <3>3 DEF IsAchieved
  <2>5. Fits(e.path, dirs[e.path])
    BY <2>2 DEF BaseInv, FilesAreKnown
  <2> QED BY <2>2, <2>3, <2>4, <2>5, EntryIsOk
<1>2. ASSUME NEW l \in ExpectedLinks(c) \cup Elements(c.symlinks)
      PROVE  LinkOk(l, links)
  <2> DEFINE op == LinkingOf(l)
  <2>1. op.kind = "link" /\ op.path = l.path /\ op.target = l.target
    BY FieldsOfOps
  <2>2. op \in AllOps(c)
    BY DEF AllOps, MostOps, ExplicitOps
  <2> HIDE DEF op
  <2>3. IsAchieved(op, c, dirs, links, NotEmpty)
    BY <2>2
  <2> QED BY <2>1, <2>3 DEF IsAchieved, LinkOk
<1>3. ASSUME NEW s \in Elements(c.services)
      PROVE  ChildrenIn(dirs, ServicePath(s)) \subseteq RemovingDirs(c, s).expected \cup NotEmpty
  <2> DEFINE op == RemovingDirs(c, s)
  <2>1. op.kind = "rmdirs" /\ op.path = ServicePath(s)
    BY FieldsOfOps
  <2>2. op \in AllOps(c)
    BY DEF AllOps, MostOps
  <2> HIDE DEF op
  <2>3. IsAchieved(op, c, dirs, links, NotEmpty)
    BY <2>2
  <2>4. ChildrenIn(dirs, ServicePath(s)) \subseteq op.expected \cup NotEmpty
    BY <2>1, <2>3 DEF IsAchieved
  <2> QED BY <2>4 DEF op
<1>4. ASSUME NEW ou \in Elements(c.ous)
      PROVE  ChildrenIn(links, OuPath(ou)) \subseteq RemovingLinks(c, ou).expected \cup ExplicitPaths(c)
  <2> DEFINE op == RemovingLinks(c, ou)
  <2>1. op.kind = "rmlinks" /\ op.path = OuPath(ou)
    BY FieldsOfOps
  <2>2. op \in AllOps(c)
    BY DEF AllOps, MostOps
  <2> HIDE DEF op
  <2>3. IsAchieved(op, c, dirs, links, NotEmpty)
    BY <2>2
  <2>4. ChildrenIn(links, OuPath(ou)) \subseteq op.expected \cup ExplicitPaths(c)
    BY <2>1, <2>3 DEF IsAchieved
  <2> QED BY <2>4 DEF op
<1> QED BY <1>1, <1>2, <1>3, <1>4

LEMMA ExpectedPaths ==
    ASSUME NEW c
    PROVE  /\ \E e \in ExpectedDirs(c) : e.path = <<ServiceDir>>
           /\ \E e \in ExpectedDirs(c) : e.path = <<OrgUnitDir>>
           /\ \A s \in Elements(c.services) : \E e \in ExpectedDirs(c) : e.path = <<ServiceDir, s.name>>
           /\ \A s \in Elements(c.services) : \A ou \in AcceptedOus(c, s) :
                 \E e \in ExpectedDirs(c) : e.path = SouPath(s, ou)
           /\ \A ou \in Elements(c.ous) : \E e \in ExpectedDirs(c) : e.path = <<OrgUnitDir, ou.name>>
           /\ \A ou \in Elements(c.ous) : \A s \in AcceptedServices(c, ou) :
                 \E l \in ExpectedLinks(c) : l.path = LinkPath(ou, s)
<1>1. /\ RootEntry(SrvRoot) \in ExpectedDirs(c) /\ RootEntry(OrgRoot) \in ExpectedDirs(c)
      /\ RootEntry(SrvRoot).path = <<ServiceDir>> /\ RootEntry(OrgRoot).path = <<OrgUnitDir>>
  BY PathsOfEntries DEF ExpectedDirs, SrvRoot, OrgRoot
<1>2. \A s \in Elements(c.services) : ServiceEntry(s) \in ExpectedDirs(c)
  BY DEF ExpectedDirs, ServiceDirsList
<1>3. \A s \in Elements(c.services) : \A ou \in AcceptedOus(c, s) : SouEntry(s, ou) \in ServiceOrgUnitDirsList(c)
  BY DEF ServiceOrgUnitDirsList, AcceptedOus
<1>4. \A s \in Elements(c.services) : \A ou \in AcceptedOus(c, s) :
         SouEntry(s, ou) \in ExpectedDirs(c) /\ SouEntry(s, ou).path = SouPath(s, ou)
  BY <1>3, PathsOfEntries DEF ExpectedDirs, SouPath
<1>5. \A ou \in Elements(c.ous) : OuDirEntry(OuPath(ou), ou, RX, RX) \in ExpectedDirs(c)
  BY DEF ExpectedDirs, OrgUnitDirsList
<1>6. \A ou \in Elements(c.ous) : \A s \in AcceptedServices(c, ou) :
         OuLink(ou, s) \in ExpectedLinks(c) /\ OuLink(ou, s).path = LinkPath(ou, s)
  BY ExpectedLinksAre DEF OuLink
<1> QED BY <1>1, <1>2, <1>4, <1>5, <1>6, PathsOfEntries
\* Of the paths that are not expected, which apply leaves.
ServiceNames(c) == {s.name : s \in Elements(c.services)}
OuNames(c) == {ou.name : ou \in Elements(c.ous)}
IsLeft(c, p) ==
    \/ p[1] = ServiceDir /\ Len(p) > 1 /\ p[2] \notin ServiceNames(c)
    \/ p[1] = OrgUnitDir /\ Len(p) > 1 /\ p[2] \notin OuNames(c)
    \/ p[1] = OrgUnitDir /\ Len(p) = 3 /\ p \in DOMAIN dirs
    \/ p \in NotEmpty
    \/ p[1] = ServiceDir /\ p \in DOMAIN links

LEMMA DirIsLeft ==
    ASSUME BaseInv, NEW c, NEW p \in DOMAIN dirs, \A e \in ExpectedDirs(c) : p # e.path,
           \A s \in Elements(c.services) :
              ChildrenIn(dirs, ServicePath(s)) \subseteq RemovingDirs(c, s).expected \cup NotEmpty
    PROVE  IsLeft(c, p)
<1>1. IsToplevel(p)
  BY DirsAndLinks DEF BaseInv, FilesAreKnown
<1>2. ~ \E a \in {ServiceDir, OrgUnitDir} : p = <<a>>
  BY ExpectedPaths
<1>3. ASSUME NEW a \in {ServiceDir, OrgUnitDir}, NEW b, p = <<a, b>>
      PROVE  IsLeft(c, p)
  <2>1. p[1] = a /\ p[2] = b /\ Len(p) > 1
    BY <1>3
  <2>2. a = ServiceDir => b \notin ServiceNames(c)
    BY <1>3, ExpectedPaths DEF ServiceNames
  <2>3. a = OrgUnitDir => b \notin OuNames(c)
    BY <1>3, ExpectedPaths DEF OuNames
  <2> QED BY <2>1, <2>2, <2>3 DEF IsLeft
<1>4. ASSUME NEW a \in {ServiceDir, OrgUnitDir}, NEW b, NEW d, p = <<a, b, d>>
      PROVE  IsLeft(c, p)
  <2>1. p[1] = a /\ p[2] = b /\ Len(p) > 1 /\ Len(p) = 3
    BY <1>4
  <2>2. CASE a = OrgUnitDir
    BY <2>1, <2>2 DEF IsLeft
  <2>3. CASE a = ServiceDir /\ b \notin ServiceNames(c)
    BY <2>1, <2>3 DEF IsLeft
  <2>4. CASE a = ServiceDir /\ b \in ServiceNames(c)
    <3>1. PICK s \in Elements(c.services) : b = s.name
      BY <2>4 DEF ServiceNames
    <3>2. Parent(p) = ServicePath(s) /\ Len(ServicePath(s)) = 2
      BY <1>4, <2>4, <3>1, ParentOf DEF ServicePath
    <3>3. p \in ChildrenIn(dirs, ServicePath(s))
      BY <2>1, <3>2 DEF ChildrenIn
    <3>4. p \notin RemovingDirs(c, s).expected
      <4>1. ASSUME NEW ou \in AcceptedOus(c, s)
            PROVE  p # SouPath(s, ou)
        <5>1. PICK e \in ExpectedDirs(c) : e.path = SouPath(s, ou)
          BY ExpectedPaths
        <5> QED BY <5>1
      <4>2. RemovingDirs(c, s).expected = {SouPath(s, ou) : ou \in AcceptedOus(c, s)}
        BY FieldsOfOps
      <4> QED BY <4>1, <4>2
    <3>5. p \in NotEmpty
      BY <3>3, <3>4
    <3> QED BY <3>5 DEF IsLeft
  <2> QED BY <2>2, <2>3, <2>4
<1> QED BY <1>1, <1>2, <1>3, <1>4 DEF IsToplevel

LEMMA LinkIsLeft ==
    ASSUME BaseInv, NEW c, NEW p \in DOMAIN links, p[1] \in {ServiceDir, OrgUnitDir}, Len(p) <= 3,
           \A e \in ExpectedDirs(c) : p # e.path, \A l \in ExpectedLinks(c) : p # l.path,
           p \notin ExplicitPaths(c),
           \A ou \in Elements(c.ous) :
              ChildrenIn(links, OuPath(ou)) \subseteq RemovingLinks(c, ou).expected \cup ExplicitPaths(c)
    PROVE  IsLeft(c, p)
<1>1. CASE p[1] = ServiceDir
  BY <1>1 DEF IsLeft
<1>2. CASE p[1] = OrgUnitDir /\ p = <<p[1]>>
  BY <1>2, ExpectedPaths
<1>3. CASE p[1] = OrgUnitDir /\ p = <<p[1], p[2]>>
  <2>1. PICK b : p = <<OrgUnitDir, b>>
    BY <1>3
  <2>2. p[2] = b /\ Len(p) > 1
    BY <2>1
  <2>3. b \notin OuNames(c)
    <3>1. ASSUME NEW ou \in Elements(c.ous) PROVE b # ou.name
      <4>1. PICK e \in ExpectedDirs(c) : e.path = <<OrgUnitDir, ou.name>>
        BY ExpectedPaths
      <4> QED BY <2>1, <4>1
    <3> QED BY <3>1 DEF OuNames
  <2> QED BY <1>3, <2>2, <2>3 DEF IsLeft
<1>4. CASE p[1] = OrgUnitDir /\ p = <<p[1], p[2], p[3]>>
  <2>1. PICK b, d : p = <<OrgUnitDir, b, d>>
    BY <1>4
  <2>2. p[2] = b /\ Len(p) > 1 /\ Len(p) = 3
    BY <2>1
  <2>3. CASE b \notin OuNames(c)
    BY <1>4, <2>2, <2>3 DEF IsLeft
  <2>4. CASE b \in OuNames(c)
    <3>1. PICK ou \in Elements(c.ous) : b = ou.name
      BY <2>4 DEF OuNames
    <3>2. Parent(p) = OuPath(ou) /\ Len(OuPath(ou)) = 2
      BY <2>1, <3>1, ParentOf DEF OuPath
    <3>3. p \in ChildrenIn(links, OuPath(ou))
      BY <2>2, <3>2 DEF ChildrenIn
    <3>4. p \notin RemovingLinks(c, ou).expected
      <4>1. ASSUME NEW s \in AcceptedServices(c, ou)
            PROVE  p # LinkPath(ou, s)
        <5>1. PICK l \in ExpectedLinks(c) : l.path = LinkPath(ou, s)
          BY ExpectedPaths
        <5> QED BY <5>1
      <4>2. RemovingLinks(c, ou).expected = {LinkPath(ou, s) : s \in AcceptedServices(c, ou)}
        BY FieldsOfOps
      <4> QED BY <4>1, <4>2
    <3> QED BY <3>3, <3>4
  <2> QED BY <2>3, <2>4
<1>5. p = <<p[1]>> \/ p = <<p[1], p[2]>> \/ p = <<p[1], p[2], p[3]>>
  <2>1. p \in Seq(Elements(p)) /\ p # <<>>
    BY DirsAndLinks DEF BaseInv, FilesAreKnown
  <2> DEFINE S == Elements(p)
  <2>2. p \in Seq(S) /\ p # <<>>
    BY <2>1
  <2> HIDE DEF S
  <2>3. Len(p) \in {1, 2, 3}
    <3> DEFINE l == Len(p)
    <3>1. l \in Nat /\ l # 0 /\ l <= 3
      BY <2>2
    <3> HIDE DEF l
    <3>2. l \in {1, 2, 3}
      BY <3>1
    <3> QED BY <3>2 DEF l
  <2> QED BY <2>2, <2>3
<1> QED BY <1>1, <1>2, <1>3, <1>4, <1>5
\* After a run that has succeeded and that nothing has disturbed, check finds nothing but
\* what apply leaves to the administrator: for all sequences of configurations, and whatever
\* former runs, killed ones among them, users and sharing have left.  The two share no code
\* but that of the organization.  What a run has done stays done until it ends (RunInv):
\* setfacl -X spares what setfacl -M has set and leaves the mask, rmUnexpectedSubdirs() and
\* rmUnexpectedLinks() spare what has been made, and explicit symlinks come last.
THEOREM CheckAcceptsAppliedCorrect == Spec => []CheckAcceptsApplied
<1>1. BaseInv /\ RunInv => CheckAcceptsApplied
  <2> SUFFICES ASSUME BaseInv, RunInv, Settled,
                      NEW p \in Failures(Config[conf], dirs, links)
               PROVE  p \in Unexpected(Config[conf], dirs, links) \cap LeftToAdmin
    BY DEF CheckAcceptsApplied
  <2> DEFINE c == Config[conf]
  <2>1. conf \in DOMAIN Config /\ ConfigIsSound(c)
    BY ConfigFacts DEF BaseInv, TypeOK
  <2>2. \A op \in AllOps(c) : IsAchieved(op, c, dirs, links, NotEmpty)
    BY DEF RunInv
  <2> HIDE DEF c
  <2>3. /\ \A e \in ExpectedDirs(c) : AclOk(e, dirs)
        /\ \A l \in ExpectedLinks(c) \cup Elements(c.symlinks) : LinkOk(l, links)
        /\ \A s \in Elements(c.services) :
              ChildrenIn(dirs, ServicePath(s)) \subseteq RemovingDirs(c, s).expected \cup NotEmpty
        /\ \A ou \in Elements(c.ous) :
              ChildrenIn(links, OuPath(ou)) \subseteq RemovingLinks(c, ou).expected \cup ExplicitPaths(c)
    BY <2>1, <2>2, AllIsOk
  <2>4. p \in Failures(c, dirs, links)
    BY DEF c
  <2>5. p \in Unexpected(c, dirs, links)
    BY <2>3, <2>4 DEF Failures
  <2>6. /\ p \in DOMAIN dirs \cup DOMAIN links /\ p[1] \in {ServiceDir, OrgUnitDir} /\ Len(p) <= 3
        /\ \A e \in ExpectedDirs(c) : p # e.path
        /\ \A l \in ExpectedLinks(c) : p # l.path
        /\ p \notin ExplicitPaths(c)
    BY <2>5 DEF Unexpected, ExplicitPaths
  <2>7. IsLeft(c, p)
    BY <2>3, <2>6, DirIsLeft, LinkIsLeft
  <2>8. p \in LeftToAdmin
    BY <2>6, <2>7 DEF LeftToAdmin, IsLeft, ServiceNames, OuNames, c
  <2> QED BY <2>5, <2>8 DEF c
<1> QED BY <1>1, BaseInvHolds, RunInvHolds, PTL
=============================================================================
