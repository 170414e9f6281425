--------------------------- MODULE NestingProofs ---------------------------
(***************************************************************************)
(* The nesting check is right for every set of names and every list of     *)
(* paths.                                                                  *)
(***************************************************************************)
EXTENDS Nesting, TLAPS

(***************************************************************************)
(* Prefixes of paths: slashpath.Join(parts[0:i]...) of the loop.           *)
(***************************************************************************)

\* A prefix of a path is a path of its own, with the prefixes of the path.
LEMMA PrefixFacts ==
    ASSUME NEW p \in Path, NEW n \in 1 .. Len(p)
    PROVE  /\ Prefix(p, n) \in Path
           /\ Len(Prefix(p, n)) = n
           /\ \A m \in 1 .. n : Prefix(Prefix(p, n), m) = Prefix(p, m)
<1>1. p \in Seq(Name) /\ Len(p) \in Nat /\ Len(p) > 0
  BY PathAssumption
<1>2. Prefix(p, n) \in Path
  BY PathAssumption
<1>3. Len(Prefix(p, n)) = n
  BY <1>1 DEF Prefix
<1>4. ASSUME NEW m \in 1 .. n
      PROVE  Prefix(Prefix(p, n), m) = Prefix(p, m)
  BY <1>1, <1>3 DEF Prefix
<1>5. QED
  BY <1>2, <1>3, <1>4

\* Being above is a strict order: shorter, and transitive.
LEMMA AboveFacts ==
    ASSUME NEW p \in Path, NEW q, IsAbove(q, p)
    PROVE  /\ q \in Path
           /\ Len(q) < Len(p)
           /\ \A r : IsAbove(r, q) => IsAbove(r, p)
<1>1. Len(p) \in Nat
  BY PathAssumption
<1>2. PICK n \in 1 .. Len(p) - 1 : q = Prefix(p, n)
  BY DEF IsAbove
<1>3. n \in 1 .. Len(p)
  BY <1>1
<1>4. q \in Path /\ Len(q) = n /\ \A m \in 1 .. n : Prefix(q, m) = Prefix(p, m)
  BY <1>2, <1>3, PrefixFacts
<1>5. ASSUME NEW r, IsAbove(r, q)
      PROVE  IsAbove(r, p)
  <2>1. PICK m \in 1 .. n - 1 : r = Prefix(q, m)
    BY <1>4, <1>5 DEF IsAbove
  <2>2. r = Prefix(p, m) /\ m \in 1 .. Len(p) - 1
    BY <1>1, <1>2, <1>4, <2>1
  <2>3. QED
    BY <2>2 DEF IsAbove
<1>6. QED
  BY <1>1, <1>2, <1>4, <1>5

-----------------------------------------------------------------------------
\* The variables keep their types, and the loop stays inside the path.
THEOREM TypeCorrect == Spec => []TypeOK
<1>1. Init => TypeOK
  BY ListsAssumption DEF Init, TypeOK, NodeType
<1>2. TypeOK /\ [Next]_vars => TypeOK'
  <2> SUFFICES ASSUME TypeOK, [Next]_vars PROVE TypeOK'
    OBVIOUS
  <2>1. exps \in Seq(Path) /\ Len(exps) \in Nat
    BY ListsAssumption DEF TypeOK
  <2>2. ASSUME next <= Len(exps)
        PROVE  exps[next] \in Path /\ Len(exps[next]) \in Nat \ {0}
    <3>1. next \in 1 .. Len(exps)
      BY <2>1, <2>2 DEF TypeOK
    <3>2. exps[next] \in Path
      BY <2>1, <3>1
    <3>3. QED
      BY <3>2, PathAssumption
  <2>3. CASE SeeDuplicate
    BY <2>1, <2>3 DEF TypeOK, SeeDuplicate, NextPath, Fail, Running
  <2>4. CASE SeeNestedPrefix
    BY <2>1, <2>4 DEF TypeOK, SeeNestedPrefix, Fail, Running
  <2>5. CASE EnterLeaf
    BY <2>1, <2>2, <2>5 DEF TypeOK, EnterLeaf, NodeType, Running
  <2>6. CASE SeeNestedSuffix
    BY <2>1, <2>6 DEF TypeOK, SeeNestedSuffix, Fail, Running
  <2>7. CASE SeeInner
    BY <2>1, <2>7 DEF TypeOK, SeeInner, NextPath, Running
  <2>8. CASE EnterInner
    <3>1. next <= Len(exps) /\ up \in Nat \ {0} /\ up < Len(exps[next])
      BY <2>8 DEF TypeOK, EnterInner, Running
    <3>2. up' \in Nat /\ up' < Len(exps[next])
      BY <2>2, <2>8, <3>1 DEF EnterInner
    <3>3. tree' \in [Path -> NodeType]
      BY <2>8 DEF TypeOK, EnterInner, NodeType
    <3>4. QED
      BY <2>8, <3>1, <3>2, <3>3 DEF TypeOK, EnterInner
  <2>9. CASE ReachTop
    BY <2>1, <2>9 DEF TypeOK, ReachTop, NextPath, Running
  <2>10. CASE Accept
    BY <2>1, <2>10 DEF TypeOK, Accept, Running
  <2>11. CASE UNCHANGED vars
    BY <2>11 DEF TypeOK, vars
  <2>12. QED
    BY <2>3, <2>4, <2>5, <2>6, <2>7, <2>8, <2>9, <2>10, <2>11 DEF Next
<1>3. QED
  BY <1>1, <1>2, PTL DEF Spec

-----------------------------------------------------------------------------
(***************************************************************************)
(* The inductive invariant: while the check runs, the tree mirrors the     *)
(* paths entered so far; when it has ended, the verdict is right.          *)
(***************************************************************************)
IInv == TypeOK /\ TreeMirrorsPaths /\ VerdictIsRight

\* Every entry of the list that is due or through is a path.
LEMMA ListFacts ==
    ASSUME TypeOK
    PROVE  /\ exps \in Seq(Path) /\ Len(exps) \in Nat /\ next \in Nat \ {0}
           /\ \A k \in 1 .. Len(exps) : exps[k] \in Path
           /\ \A k \in 1 .. next - 1 : k \in 1 .. Len(exps)
           /\ next <= Len(exps) =>
                 /\ next \in 1 .. Len(exps)
                 /\ exps[next] \in Path
                 /\ Len(exps[next]) \in Nat \ {0}
<1>1. exps \in Seq(Path) /\ Len(exps) \in Nat /\ next \in 1 .. Len(exps) + 1
  BY ListsAssumption DEF TypeOK
<1>2. \A k \in 1 .. Len(exps) : exps[k] \in Path
  BY <1>1
<1>3. \A p \in Path : Len(p) \in Nat \ {0}
  BY PathAssumption
<1>4. QED
  BY <1>1, <1>2, <1>3

\* The step of the loop over exps that ends checkPath() without an error, taken
\* when all directories above the path are inner nodes.
LEMMA PathIsThrough ==
    ASSUME IInv, Running("prefix"), NextPath, UNCHANGED tree,
           \A n \in 1 .. up : tree[Prefix(exps[next], n)] = "inner"
    PROVE  TreeMirrorsPaths'
<1> DEFINE p == exps[next]
<1>1. /\ LeavesAreEntered /\ InnerAreAbove /\ ThroughIsAcceptable /\ TypeOK
      /\ next <= Len(exps) /\ up \in Nat /\ up < Len(p) /\ pc = "prefix"
  BY DEF IInv, TreeMirrorsPaths, Running, TypeOK
<1>2. /\ p \in Path /\ Len(p) \in Nat \ {0} /\ next \in Nat \ {0}
      /\ \A k \in 1 .. next : exps[k] \in Path
  BY <1>1, ListFacts
<1>3. /\ exps' = exps /\ dupsAllowed' = dupsAllowed
      /\ next' = next + 1 /\ pc' = "path" /\ tree' = tree
      /\ next' - 1 = next
  BY <1>2 DEF NextPath
<1>4. Entered' = Entered
  <2>1. Entered' = {exps[k] : k \in 1 .. next}
    BY <1>3 DEF Entered
  <2>2. Entered = {exps[k] : k \in 1 .. next - 1} \cup {exps[next]}
    BY <1>1 DEF Entered
  <2>3. QED
    BY <1>2, <2>1, <2>2
<1>5. \A q : IsAbove(q, p) => q \in Path /\ tree[q] = "inner"
  <2> SUFFICES ASSUME NEW q, IsAbove(q, p) PROVE q \in Path /\ tree[q] = "inner"
    OBVIOUS
  <2>1. PICK n \in 1 .. Len(p) - 1 : q = Prefix(p, n)
    BY DEF IsAbove
  <2>2. q \in Path
    BY <1>2, AboveFacts
  <2>3. CASE n \in 1 .. up
    BY <2>1, <2>2, <2>3
  <2>4. CASE n \in up + 1 .. Len(p) - 1
    BY <1>1, <2>1, <2>2, <2>4 DEF InnerAreAbove
  <2>5. QED
    BY <1>1, <1>2, <2>1, <2>3, <2>4
<1>6. LeavesAreEntered'
  BY <1>1, <1>3, <1>4 DEF LeavesAreEntered
<1>7. InnerAreAbove'
  <2> SUFFICES ASSUME NEW q \in Path
               PROVE  tree[q] = "inner" <=> \E k \in 1 .. next : IsAbove(q, exps[k])
    BY <1>3 DEF InnerAreAbove
  <2>1. ASSUME tree[q] = "inner"
        PROVE  \E k \in 1 .. next : IsAbove(q, exps[k])
    <3>1. CASE \E k \in 1 .. next - 1 : IsAbove(q, exps[k])
      BY <1>2, <3>1
    <3>2. CASE \E n \in up + 1 .. Len(p) - 1 : q = Prefix(p, n)
      <4>1. IsAbove(q, p)
        BY <1>1, <3>2 DEF IsAbove
      <4>2. QED
        BY <1>2, <4>1
    <3>3. QED
      BY <1>1, <2>1, <3>1, <3>2 DEF InnerAreAbove
  <2>2. ASSUME NEW k \in 1 .. next, IsAbove(q, exps[k])
        PROVE  tree[q] = "inner"
    <3>1. CASE k = next
      BY <1>5, <2>2, <3>1
    <3>2. CASE k \in 1 .. next - 1
      BY <1>1, <2>2, <3>2 DEF InnerAreAbove
    <3>3. QED
      BY <1>2, <3>1, <3>2
  <2>3. QED
    BY <2>1, <2>2
<1>8. ThroughIsAcceptable'
  <2> SUFFICES ASSUME NEW k \in 1 .. next, NEW l \in 1 .. next
               PROVE  /\ ~ IsAbove(exps[k], exps[l])
                      /\ dupsAllowed \/ (exps[k] = exps[l] => k = l)
    BY <1>3 DEF ThroughIsAcceptable
  <2>1. CASE k \in 1 .. next - 1 /\ l \in 1 .. next - 1
    BY <1>1, <2>1 DEF ThroughIsAcceptable
  <2>2. CASE k = next /\ l \in 1 .. next - 1
    BY <1>1, <2>2 DEF ThroughIsAcceptable
  <2>3. CASE k \in 1 .. next - 1 /\ l = next
    <3>1. tree[exps[k]] = "leaf"
      BY <1>1, <1>2, <2>3 DEF LeavesAreEntered, Entered
    <3>2. ~ IsAbove(exps[k], p)
      BY <1>5, <3>1
    <3>3. exps[k] # p
      BY <1>1, <2>3 DEF ThroughIsAcceptable
    <3>4. QED
      BY <2>3, <3>2, <3>3
  <2>4. CASE k = next /\ l = next
    <3>1. ~ IsAbove(p, p)
      BY <1>2, AboveFacts
    <3>2. QED
      BY <2>4, <3>1
  <2>5. QED
    BY <1>2, <2>1, <2>2, <2>3, <2>4
<1>9. QED
  BY <1>6, <1>7, <1>8 DEF TreeMirrorsPaths

\* A realpath that is in the tree already changes nothing about it.
LEMMA DuplicateIsThrough ==
    ASSUME IInv, SeeDuplicate, dupsAllowed
    PROVE  TreeMirrorsPaths'
<1>1. /\ LeavesAreEntered /\ InnerAreAbove /\ ThroughIsAcceptable /\ TypeOK
      /\ next <= Len(exps) /\ pc = "path" /\ tree[exps[next]] = "leaf"
  BY DEF IInv, TreeMirrorsPaths, Running, SeeDuplicate
<1>2. /\ exps[next] \in Path /\ next \in Nat \ {0}
      /\ \A k \in 1 .. next : exps[k] \in Path
  BY <1>1, ListFacts
<1>3. /\ exps' = exps /\ dupsAllowed' = dupsAllowed
      /\ next' = next + 1 /\ pc' = "path" /\ tree' = tree
      /\ next' - 1 = next
  BY <1>1, <1>2 DEF SeeDuplicate, NextPath
<1>4. PICK d \in 1 .. next - 1 : exps[next] = exps[d]
  BY <1>1, <1>2 DEF LeavesAreEntered, Entered
<1>5. \A k \in 1 .. next : \E j \in 1 .. next - 1 : exps[k] = exps[j]
  BY <1>2, <1>4
<1>6. Entered' = Entered
  <2>1. Entered' = {exps[k] : k \in 1 .. next}
    BY <1>3 DEF Entered
  <2>2. Entered = {exps[k] : k \in 1 .. next - 1}
    BY <1>1 DEF Entered
  <2>3. QED
    BY <1>2, <1>5, <2>1, <2>2
<1>7. LeavesAreEntered'
  BY <1>1, <1>3, <1>6 DEF LeavesAreEntered
<1>8. InnerAreAbove'
  <2> SUFFICES ASSUME NEW q \in Path
               PROVE  tree[q] = "inner" <=> \E k \in 1 .. next : IsAbove(q, exps[k])
    BY <1>3 DEF InnerAreAbove
  <2>1. tree[q] = "inner" <=> \E k \in 1 .. next - 1 : IsAbove(q, exps[k])
    BY <1>1 DEF InnerAreAbove
  <2>2. QED
    BY <1>2, <1>5, <2>1
<1>9. ThroughIsAcceptable'
  <2> SUFFICES ASSUME NEW k \in 1 .. next, NEW l \in 1 .. next
               PROVE  ~ IsAbove(exps[k], exps[l])
    BY <1>3 DEF ThroughIsAcceptable
  <2>1. PICK i \in 1 .. next - 1, j \in 1 .. next - 1 :
             exps[k] = exps[i] /\ exps[l] = exps[j]
    BY <1>5
  <2>2. QED
    BY <1>1, <2>1 DEF ThroughIsAcceptable
<1>10. QED
  BY <1>7, <1>8, <1>9 DEF TreeMirrorsPaths

\* Each step keeps the tree a mirror of the paths entered.
LEMMA MirrorStep ==
    ASSUME IInv, Next
    PROVE  TreeMirrorsPaths'
<1> SUFFICES ASSUME verdict' = "none"
             PROVE  LeavesAreEntered' /\ InnerAreAbove' /\ ThroughIsAcceptable'
  BY DEF TreeMirrorsPaths
<1>1. verdict = "none"
  BY DEF Next, SeeDuplicate, SeeNestedPrefix, EnterLeaf, SeeNestedSuffix,
         SeeInner, EnterInner, ReachTop, Accept, Running
<1>2. LeavesAreEntered /\ InnerAreAbove /\ ThroughIsAcceptable /\ TypeOK
  BY <1>1 DEF IInv, TreeMirrorsPaths
<1>3. /\ next \in Nat \ {0} /\ up \in Nat
      /\ \A k \in 1 .. next - 1 : exps[k] \in Path
      /\ next <= Len(exps) => exps[next] \in Path /\ Len(exps[next]) \in Nat \ {0}
  BY <1>2, ListFacts DEF TypeOK
<1> DEFINE p == exps[next]
<1>4. CASE SeeDuplicate
  <2>1. dupsAllowed
    BY <1>4 DEF SeeDuplicate, Fail
  <2>2. QED
    BY <1>4, <2>1, DuplicateIsThrough DEF TreeMirrorsPaths
<1>5. CASE EnterLeaf
  <2>1. /\ p \in Path /\ pc = "path" /\ tree[p] = "unspecified"
        /\ tree' = [tree EXCEPT ![p] = "leaf"] /\ up' = Len(p) - 1
        /\ exps' = exps /\ dupsAllowed' = dupsAllowed /\ next' = next /\ pc' = "prefix"
    BY <1>3, <1>5 DEF EnterLeaf, Running
  <2>2. \A k \in 1 .. next - 1 : exps[k] # p /\ ~ IsAbove(p, exps[k])
    <3>1. p \notin Entered
      BY <1>2, <2>1 DEF LeavesAreEntered
    <3>2. ~ \E k \in 1 .. next - 1 : IsAbove(p, exps[k])
      BY <1>2, <2>1 DEF InnerAreAbove
    <3>3. QED
      BY <3>1, <3>2 DEF Entered
  <2>3. LeavesAreEntered'
    BY <1>2, <2>1 DEF LeavesAreEntered, Entered, TypeOK
  <2>4. InnerAreAbove'
    <3> SUFFICES ASSUME NEW q \in Path
                 PROVE  tree'[q] = "inner" <=>
                          \E k \in 1 .. next - 1 : IsAbove(q, exps[k])
      <4>1. (up' + 1 .. Len(exps[next]) - 1) = {}
        BY <1>3, <1>5, <2>1 DEF EnterLeaf
      <4>2. QED
        BY <2>1, <4>1 DEF InnerAreAbove
    <3>1. tree[q] = "inner" <=> \E k \in 1 .. next - 1 : IsAbove(q, exps[k])
      BY <1>2, <2>1 DEF InnerAreAbove
    <3>2. CASE q = p
      BY <1>2, <2>1, <2>2, <3>2 DEF TypeOK
    <3>3. CASE q # p
      BY <1>2, <2>1, <3>1, <3>3 DEF TypeOK
    <3>4. QED
      BY <3>2, <3>3
  <2>5. ThroughIsAcceptable'
    BY <1>2, <2>1, <2>2 DEF ThroughIsAcceptable
  <2>6. QED
    BY <2>3, <2>4, <2>5
<1>6. CASE EnterInner
  <2>1. /\ p \in Path /\ pc = "prefix" /\ up > 0 /\ up < Len(p)
        /\ tree[Above] = "unspecified" /\ Above = Prefix(p, up)
        /\ tree' = [tree EXCEPT ![Above] = "inner"] /\ up' = up - 1
        /\ exps' = exps /\ dupsAllowed' = dupsAllowed /\ next' = next /\ pc' = "prefix"
    BY <1>2, <1>3, <1>6 DEF EnterInner, Running, Above, TypeOK
  <2>2. Above \in Path
    BY <1>3, <2>1, PrefixFacts
  <2>3. LeavesAreEntered'
    BY <1>2, <2>1, <2>2 DEF LeavesAreEntered, Entered, TypeOK
  <2>4. InnerAreAbove'
    <3> SUFFICES ASSUME NEW q \in Path
                 PROVE  tree'[q] = "inner" <=>
                          \/ \E k \in 1 .. next - 1 : IsAbove(q, exps[k])
                          \/ \E n \in up .. Len(p) - 1 : q = Prefix(p, n)
      BY <1>3, <2>1 DEF InnerAreAbove
    <3>1. tree[q] = "inner" <=>
            \/ \E k \in 1 .. next - 1 : IsAbove(q, exps[k])
            \/ \E n \in up + 1 .. Len(p) - 1 : q = Prefix(p, n)
      BY <1>2, <2>1 DEF InnerAreAbove
    <3>2. tree'[q] = "inner" <=> tree[q] = "inner" \/ q = Prefix(p, up)
      BY <1>2, <2>1, <2>2 DEF TypeOK
    <3>3. (\E n \in up .. Len(p) - 1 : q = Prefix(p, n)) <=>
            \/ q = Prefix(p, up)
            \/ \E n \in up + 1 .. Len(p) - 1 : q = Prefix(p, n)
      BY <1>3, <2>1
    <3>4. QED
      BY <3>1, <3>2, <3>3
  <2>5. ThroughIsAcceptable'
    BY <1>2, <2>1 DEF ThroughIsAcceptable
  <2>6. QED
    BY <2>3, <2>4, <2>5
<1>7. CASE SeeInner
  <2>1. /\ p \in Path /\ pc = "prefix" /\ up > 0 /\ up < Len(p)
        /\ tree[Prefix(p, up)] = "inner"
    BY <1>2, <1>3, <1>7 DEF SeeInner, Running, Above, TypeOK
  <2>2. ASSUME NEW n \in 1 .. up - 1
        PROVE  tree[Prefix(p, n)] = "inner"
    <3>1. /\ Prefix(p, up) \in Path /\ Len(Prefix(p, up)) = up
          /\ Prefix(p, n) \in Path /\ Prefix(Prefix(p, up), n) = Prefix(p, n)
      BY <1>3, <2>1, PrefixFacts
    <3>2. IsAbove(Prefix(p, n), Prefix(p, up))
      BY <3>1 DEF IsAbove
    <3>3. CASE \E k \in 1 .. next - 1 : IsAbove(Prefix(p, up), exps[k])
      <4>1. PICK k \in 1 .. next - 1 : IsAbove(Prefix(p, up), exps[k])
        BY <3>3
      <4>2. IsAbove(Prefix(p, n), exps[k])
        BY <1>3, <3>2, <4>1, AboveFacts
      <4>3. QED
        BY <1>2, <3>1, <4>2 DEF InnerAreAbove
    <3>4. CASE \E m \in up + 1 .. Len(p) - 1 : Prefix(p, up) = Prefix(p, m)
      <4>1. PICK m \in up + 1 .. Len(p) - 1 : Prefix(p, up) = Prefix(p, m)
        BY <3>4
      <4>2. Len(Prefix(p, m)) = m
        BY <1>3, <2>1, PrefixFacts
      <4>3. QED
        BY <1>3, <3>1, <4>1, <4>2
    <3>5. QED
      BY <1>2, <2>1, <3>1, <3>3, <3>4 DEF InnerAreAbove
  <2>3. \A n \in 1 .. up : tree[Prefix(p, n)] = "inner"
    BY <1>3, <2>1, <2>2
  <2>4. QED
    BY <1>7, <2>3, PathIsThrough DEF SeeInner, TreeMirrorsPaths
<1>8. CASE ReachTop
  <2>1. \A n \in 1 .. up : tree[Prefix(p, n)] = "inner"
    BY <1>8 DEF ReachTop
  <2>2. QED
    BY <1>8, <2>1, PathIsThrough DEF ReachTop, TreeMirrorsPaths
<1>9. QED
  BY <1>4, <1>5, <1>6, <1>7, <1>8
     DEF Next, SeeNestedPrefix, SeeNestedSuffix, Accept, Fail

\* Each step that gives a verdict gives the right one.
LEMMA VerdictStep ==
    ASSUME IInv, Next
    PROVE  VerdictIsRight'
<1>1. /\ LeavesAreEntered /\ InnerAreAbove /\ ThroughIsAcceptable /\ TypeOK
      /\ verdict = "none" /\ exps' = exps /\ dupsAllowed' = dupsAllowed
  BY DEF Next, SeeDuplicate, SeeNestedPrefix, EnterLeaf, SeeNestedSuffix,
         SeeInner, EnterInner, ReachTop, Accept, Running, Fail, NextPath,
         IInv, TreeMirrorsPaths
<1>2. /\ next \in Nat \ {0} /\ Len(exps) \in Nat
      /\ \A k \in 1 .. next - 1 : k \in 1 .. Len(exps)
      /\ next <= Len(exps) => /\ next \in 1 .. Len(exps)
                             /\ exps[next] \in Path
                             /\ Len(exps[next]) \in Nat \ {0}
  BY <1>1, ListFacts
<1>3. CASE SeeDuplicate
  <2>1. CASE dupsAllowed
    BY <1>1, <1>3, <2>1 DEF SeeDuplicate, NextPath, VerdictIsRight
  <2>2. CASE ~ dupsAllowed
    <3>1. PICK d \in 1 .. next - 1 : exps[next] = exps[d]
      BY <1>1, <1>2, <1>3 DEF SeeDuplicate, LeavesAreEntered, Entered, Running
    <3>2. ~ NoneTwice(exps)
      BY <1>2, <1>3, <3>1 DEF NoneTwice, SeeDuplicate
    <3>3. QED
      BY <1>1, <1>3, <2>2, <3>2 DEF SeeDuplicate, Fail, VerdictIsRight, Acceptable
  <2>3. QED
    BY <2>1, <2>2
<1>4. CASE SeeNestedPrefix
  <2>1. PICK k \in 1 .. next - 1 : IsAbove(exps[next], exps[k])
    BY <1>1, <1>2, <1>4 DEF SeeNestedPrefix, InnerAreAbove, Running
  <2>2. ~ NoneAbove(exps)
    BY <1>2, <1>4, <2>1 DEF NoneAbove, SeeNestedPrefix
  <2>3. QED
    BY <1>1, <1>4, <2>2 DEF SeeNestedPrefix, Fail, VerdictIsRight, Acceptable
<1>5. CASE SeeNestedSuffix
  <2>1. /\ next <= Len(exps) /\ up \in 1 .. Len(exps[next]) - 1
        /\ tree[Prefix(exps[next], up)] = "leaf" /\ pc = "prefix"
    BY <1>1, <1>2, <1>5 DEF SeeNestedSuffix, Running, TypeOK, Above
  <2>2. /\ IsAbove(Prefix(exps[next], up), exps[next])
        /\ Prefix(exps[next], up) \in Path
        /\ Prefix(exps[next], up) # exps[next]
    BY <1>2, <2>1, PrefixFacts DEF IsAbove
  <2>3. PICK k \in 1 .. next - 1 : exps[k] = Prefix(exps[next], up)
    BY <1>1, <2>1, <2>2 DEF LeavesAreEntered, Entered
  <2>4. ~ NoneAbove(exps)
    BY <1>2, <2>1, <2>2, <2>3 DEF NoneAbove
  <2>5. QED
    BY <1>1, <1>5, <2>4 DEF SeeNestedSuffix, Fail, VerdictIsRight, Acceptable
<1>6. CASE Accept
  <2>1. next - 1 = Len(exps)
    BY <1>1, <1>2, <1>6 DEF Accept, TypeOK
  <2>2. Acceptable(exps, dupsAllowed)
    BY <1>1, <2>1 DEF ThroughIsAcceptable, Acceptable, NoneAbove, NoneTwice
  <2>3. QED
    BY <1>1, <1>6, <2>2 DEF Accept, VerdictIsRight
<1>7. CASE EnterLeaf \/ EnterInner \/ SeeInner \/ ReachTop
  BY <1>1, <1>7 DEF EnterLeaf, EnterInner, SeeInner, ReachTop, NextPath, VerdictIsRight
<1>8. QED
  BY <1>3, <1>4, <1>5, <1>6, <1>7 DEF Next

\* The tree of a running check mirrors the paths entered: the fact that makes the
\* early return of checkPath() right.
THEOREM MirrorCorrect == Spec => [](TypeOK /\ TreeMirrorsPaths /\ VerdictIsRight)
<1>1. Init => IInv
  <2> SUFFICES ASSUME Init PROVE IInv
    OBVIOUS
  <2>1. TypeOK
    BY ListsAssumption DEF Init, TypeOK, NodeType
  <2>2. TreeMirrorsPaths
    BY DEF Init, TreeMirrorsPaths, LeavesAreEntered, Entered, InnerAreAbove,
           ThroughIsAcceptable
  <2>3. VerdictIsRight
    BY DEF Init, VerdictIsRight
  <2>4. QED
    BY <2>1, <2>2, <2>3 DEF IInv
<1>2. TypeOK /\ TypeOK' /\ IInv /\ [Next]_vars => IInv'
  <2> SUFFICES ASSUME TypeOK', IInv, [Next]_vars PROVE IInv'
    OBVIOUS
  <2>1. CASE Next
    BY <2>1, MirrorStep, VerdictStep DEF IInv
  <2>2. CASE UNCHANGED vars
    BY <2>2 DEF vars, IInv, TypeOK, TreeMirrorsPaths, VerdictIsRight,
                LeavesAreEntered, Entered, InnerAreAbove, ThroughIsAcceptable
  <2>3. QED
    BY <2>1, <2>2
<1>3. IInv => TypeOK /\ TreeMirrorsPaths /\ VerdictIsRight
  BY DEF IInv
<1>4. QED
  BY <1>1, <1>2, <1>3, TypeCorrect, PTL DEF Spec

\* The verdict of a nesting check is right: "ok" only for lists without nested
\* paths (and, for exports, without duplicates), "error" only for the others.
THEOREM VerdictCorrect == Spec => []VerdictIsRight
  BY MirrorCorrect, PTL

\* The safety part of Implements: the steps of the loop are steps of the
\* specification of the check, or do not matter to it.
THEOREM LoopImplementsSpec == Spec => Abs!Init /\ [][Abs!Next]_(Abs!vars)
<1>1. Init => Abs!Init
  BY DEF Init, Abs!Init
<1>2. IInv /\ IInv' /\ [Next]_vars => [Abs!Next]_(Abs!vars)
  <2> SUFFICES ASSUME IInv', [Next]_vars PROVE [Abs!Next]_(Abs!vars)
    OBVIOUS
  <2>1. CASE verdict' = verdict
    BY <2>1 DEF vars, Abs!vars, Next, SeeDuplicate, SeeNestedPrefix, EnterLeaf,
                SeeNestedSuffix, SeeInner, EnterInner, ReachTop, Accept, Fail,
                NextPath
  <2>2. CASE verdict' # verdict
    <3>1. /\ exps' = exps /\ dupsAllowed' = dupsAllowed
          /\ verdict = "none" /\ verdict' \in {"ok", "error"}
      BY <2>2 DEF vars, Next, SeeDuplicate, SeeNestedPrefix, EnterLeaf,
                  SeeNestedSuffix, SeeInner, EnterInner, ReachTop, Accept, Fail,
                  NextPath, Running
    <3>2. VerdictIsRight'
      BY DEF IInv
    <3>3. Abs!Acceptable(exps, dupsAllowed) <=> Acceptable(exps, dupsAllowed)
      BY DEF Acceptable, NoneAbove, NoneTwice, IsAbove, Prefix, Abs!Acceptable,
             Abs!NoneAbove, Abs!NoneTwice, Abs!IsAbove, Abs!Prefix
    <3>4. QED
      BY <3>1, <3>2, <3>3 DEF VerdictIsRight, Abs!Next, Abs!Decide
  <2>3. QED
    BY <2>1, <2>2
<1>3. QED
  BY <1>1, <1>2, MirrorCorrect, PTL DEF Spec, IInv
=============================================================================
