------------------------------ MODULE Nesting ------------------------------
(***************************************************************************)
(* The nesting check of bcpsharing.go, which runs once over the exported   *)
(* paths (checkNoNesting) and once over their realpaths                    *)
(* (checkNoRealpathNesting).  It enters one path after the other into a    *)
(* tree: the path itself as a leaf, then the directories above it, from    *)
(* the longest to the shortest, as inner nodes, stopping early at a        *)
(* directory that is an inner node already.  The two checks differ only in *)
(* what they do with a path that is a leaf already.                        *)
(*                                                                         *)
(* The early return is the delicate part: it is right only because         *)
(* whatever made the directory an inner node has also entered all          *)
(* directories above it, and has met no leaf among them.                   *)
(***************************************************************************)
EXTENDS Paths

CONSTANTS Name,          \* the names that paths are made of
          Path,          \* the paths that may occur
          Lists          \* the lists of paths that may be checked

ASSUME PathAssumption ==
    /\ Path \subseteq Seq(Name) \ {<<>>}
    /\ \A p \in Path : \A n \in 1 .. Len(p) : Prefix(p, n) \in Path

ASSUME ListsAssumption == Lists \subseteq Seq(Path)

\* NodeType: UnspecifiedNode, InnerNode, LeafNode.
NodeType == {"unspecified", "inner", "leaf"}

VARIABLES
    exps,          \* the paths to check, in the order of the configuration
    dupsAllowed,   \* TRUE in checkNoRealpathNesting()
    tree,          \* the type of each path
    next,          \* index into exps of the path to check
    up,            \* loop index of checkPath(): Prefix(exps[next], up) is due
    pc,            \* "path": at the head of checkPath(), "prefix": in its loop
    verdict        \* "none" while the check runs, then "ok" or "error"

vars == <<exps, dupsAllowed, tree, next, up, pc, verdict>>

Init ==
    /\ exps \in Lists /\ dupsAllowed \in BOOLEAN
    /\ tree = [p \in Path |-> "unspecified"]
    /\ next = 1
    /\ up = 0
    /\ pc = "path"
    /\ verdict = "none"

Running(label) == verdict = "none" /\ pc = label

Fail == verdict' = "error" /\ UNCHANGED <<exps, dupsAllowed, tree, next, up, pc>>

\* `return nil` of checkPath(): the loop over exps takes the next path.
NextPath == next' = next + 1 /\ pc' = "path" /\ UNCHANGED <<exps, dupsAllowed, up, verdict>>

\* A duplicate: an error for exports, skipped for realpaths.
SeeDuplicate ==
    /\ Running("path") /\ next <= Len(exps)
    /\ tree[exps[next]] = "leaf"
    /\ IF dupsAllowed THEN NextPath /\ UNCHANGED tree ELSE Fail

\* The path is a directory above one that is in the tree.
SeeNestedPrefix ==
    /\ Running("path") /\ next <= Len(exps)
    /\ tree[exps[next]] = "inner"
    /\ Fail

EnterLeaf ==
    /\ Running("path") /\ next <= Len(exps)
    /\ tree[exps[next]] = "unspecified"
    /\ tree' = [tree EXCEPT ![exps[next]] = "leaf"]
    /\ up' = Len(exps[next]) - 1
    /\ pc' = "prefix"
    /\ UNCHANGED <<exps, dupsAllowed, next, verdict>>

Above == Prefix(exps[next], up)

\* A path that is in the tree is above this one.
SeeNestedSuffix ==
    /\ Running("prefix") /\ up > 0
    /\ tree[Above] = "leaf"
    /\ Fail

\* A bug: the early return is taken at any known path.
SeeKnown ==
    /\ Running("prefix") /\ up > 0
    /\ tree[Above] # "unspecified"
    /\ NextPath /\ UNCHANGED tree

\* The early return.
SeeInner ==
    /\ Running("prefix") /\ up > 0
    /\ tree[Above] = "inner"
    /\ NextPath /\ UNCHANGED tree

\* A bug: only the directory that the path is in gets entered.
EnterParentOnly ==
    /\ Running("prefix") /\ up > 0
    /\ tree[Above] = "unspecified"
    /\ tree' = [tree EXCEPT ![Above] = "inner"]
    /\ NextPath

EnterInner ==
    /\ Running("prefix") /\ up > 0
    /\ tree[Above] = "unspecified"
    /\ tree' = [tree EXCEPT ![Above] = "inner"]
    /\ up' = up - 1
    /\ UNCHANGED <<exps, dupsAllowed, next, pc, verdict>>

\* The loop is through.
ReachTop == Running("prefix") /\ up = 0 /\ NextPath /\ UNCHANGED tree

\* All paths are checked.
Accept ==
    /\ Running("path") /\ next > Len(exps)
    /\ verdict' = "ok"
    /\ UNCHANGED <<exps, dupsAllowed, tree, next, up, pc>>

Next ==
    \/ SeeDuplicate \/ SeeNestedPrefix \/ EnterLeaf
    \/ SeeNestedSuffix \/ SeeInner \/ EnterInner \/ ReachTop
    \/ Accept

\* The check is a plain loop: it keeps running until it has a verdict.
Spec == Init /\ [][Next]_vars /\ WF_vars(Next)

-----------------------------------------------------------------------------

TypeOK ==
    /\ exps \in Lists /\ dupsAllowed \in BOOLEAN
    /\ tree \in [Path -> NodeType]
    /\ next \in 1 .. Len(exps) + 1
    /\ up \in Nat
    /\ pc \in {"path", "prefix"}
    /\ verdict \in {"none", "ok", "error"}
    /\ pc = "prefix" => next <= Len(exps) /\ up < Len(exps[next])

\* The paths entered as leaves so far, the one in the loop included.
Entered == {exps[k] : k \in 1 .. next - 1} \cup
           (IF pc = "prefix" THEN {exps[next]} ELSE {})

\* The leaves are the paths entered so far.
LeavesAreEntered == \A p \in Path : tree[p] = "leaf" <=> p \in Entered

\* The inner nodes are the directories above the paths that are through, and
\* those above the path in the loop that the loop has passed.
InnerAreAbove ==
    \A p \in Path : tree[p] = "inner" <=>
        \/ \E k \in 1 .. next - 1 : IsAbove(p, exps[k])
        \/ /\ pc = "prefix"
           /\ \E n \in up + 1 .. Len(exps[next]) - 1 : p = Prefix(exps[next], n)

\* The paths that are through are acceptable; the one in the loop is not one of
\* them nor above any of them.
ThroughIsAcceptable ==
    /\ \A k, l \in 1 .. next - 1 :
          /\ ~ IsAbove(exps[k], exps[l])
          /\ dupsAllowed \/ (exps[k] = exps[l] => k = l)
    /\ pc = "prefix" => \A k \in 1 .. next - 1 :
          exps[k] # exps[next] /\ ~ IsAbove(exps[next], exps[k])

\* The tree of a running check mirrors the paths entered.  This is what makes the
\* early return right: above an inner node there are only inner nodes.
TreeMirrorsPaths ==
    verdict = "none" => LeavesAreEntered /\ InnerAreAbove /\ ThroughIsAcceptable

\* checkNoNesting() accepts exactly the lists without nested or duplicate paths,
\* checkNoRealpathNesting() exactly those without nested paths.
VerdictIsRight ==
    /\ verdict = "ok" => Acceptable(exps, dupsAllowed)
    /\ verdict = "error" => ~ Acceptable(exps, dupsAllowed)

\* The loop computes the verdict that the specification of the check asks for.
Abs == INSTANCE NestingSpec
Implements == Abs!Spec
=============================================================================
