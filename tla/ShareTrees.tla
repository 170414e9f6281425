----------------------------- MODULE ShareTrees -----------------------------
(***************************************************************************)
(* EnsureShareTrees(): how `bcpfs-perms apply --sharing` brings the trees  *)
(* <org>/<ou>/shared to the filesystem.  A run takes one tree after the    *)
(* other.  It walks through it, sorts what it meets into expected and      *)
(* unexpected files, removes the unexpected ones, deepest first, and       *)
(* creates the missing ones, topmost first.  What it removes and creates   *)
(* is decided by the walk, however the tree has changed since.  The first  *)
(* error ends the run.                                                     *)
(*                                                                         *)
(* Nothing locks the trees: runs may overlap, for cron starts one while    *)
(* the administrator's is still going on, users with write access change   *)
(* files, and runs get killed.                                             *)
(***************************************************************************)
EXTENDS Paths

CONSTANTS
    Run,           \* the runs that may overlap
    Sorted,        \* the paths that may exist, in the order of their strings
    Dir,           \* what a directory is, among the contents
    UserContent,   \* what users create
    Config,        \* the compiled trees: sequences of [root, files]
    Initial,       \* the files that may exist at the beginning
    Acts,          \* what may happen besides: "put", "drop", "configure", "kill"
    MaxActs        \* how often something happens besides

Node == {Sorted[i] : i \in DOMAIN Sorted}

\* Partial functions from paths to what is there: a directory, the target of a
\* symlink, or the file of a user.
Content ==
    {Dir} \cup UserContent \cup
    UNION {UNION {{c[i].files[p] : p \in DOMAIN c[i].files} : i \in DOMAIN c} : c \in Config}
IsFiles(f) == DOMAIN f \subseteq Node /\ \A p \in DOMAIN f : f[p] \in Content

Parent(p) == Prefix(p, Len(p) - 1)

Roots == UNION {{c[i].root : i \in DOMAIN c} : c \in Config}
IsRoot(p) == p \in Roots
InTree(p) == \E t \in Roots : p = t \/ IsAbove(t, p)

\* Only what is in the trees matters.
ASSUME NodeAssumption ==
    /\ Node \subseteq Seq(UNION {{p[k] : k \in DOMAIN p} : p \in Node}) \ {<<>>}
    /\ \A p \in Node : InTree(p)
    /\ MaxActs \in Nat

\* Each org unit has a tree of its own.
ASSUME RootsAssumption ==
    /\ Roots \subseteq Node
    /\ \A t, u \in Roots : ~ IsAbove(t, u)
    /\ \A c \in Config : \A i, j \in DOMAIN c : c[i].root = c[j].root => i = j

\* A tree is a tree: SharingCompile checks it as TreesAreTrees.
ASSUME ConfigAssumption ==
    /\ \A c \in Config : c \in Seq({c[i] : i \in DOMAIN c})
    /\ \A c \in Config : \A i \in DOMAIN c : \A p \in DOMAIN c[i].files :
          /\ p \in Node /\ IsAbove(c[i].root, p)
          /\ \/ Parent(p) = c[i].root
             \/ Parent(p) \in DOMAIN c[i].files /\ c[i].files[Parent(p)] = Dir

\* What a file is in, is a directory.
IsTree(f) ==
    \A p \in DOMAIN f : \A n \in 1 .. Len(p) - 1 :
        InTree(Prefix(p, n)) => Prefix(p, n) \in DOMAIN f /\ f[Prefix(p, n)] = Dir

\* `apply` has created the roots.
ASSUME InitialAssumption ==
    \A f \in Initial :
       /\ IsFiles(f) /\ IsTree(f)
       /\ \A t \in Roots : t \in DOMAIN f /\ f[t] = Dir

\* A directory comes before what is in it.
ASSUME SortedAssumption ==
    \A i, j \in DOMAIN Sorted : IsAbove(Sorted[i], Sorted[j]) => i < j

VARIABLES
    fs,            \* the files that exist
    conf,          \* the configuration file
    run,           \* the state of each run
    acts           \* how often something has happened besides

vars == <<fs, conf, run, acts>>

-----------------------------------------------------------------------------
Position(p) == CHOOSE i \in DOMAIN Sorted : Sorted[i] = p
IsFirst(p, ps) == p \in ps /\ \A q \in ps : Position(p) <= Position(q)
\* A bug: what is unexpected gets removed topmost first.
IsTopmost(p, ps) == IsFirst(p, ps)
IsLast(p, ps) == p \in ps /\ \A q \in ps : Position(p) >= Position(q)

IsDir(p) == p \in DOMAIN fs /\ fs[p] = Dir
ChildrenOf(p) == {q \in DOMAIN fs : Len(q) > 1 /\ Parent(q) = p}

Idle(result) ==
    [pc |-> "idle", mine |-> <<>>, i |-> 0, todo |-> {}, rm |-> {}, existing |-> {},
     result |-> result, alone |-> FALSE]

Init ==
    /\ fs \in Initial
    /\ conf \in Config
    /\ run = [r \in Run |-> Idle("none")]
    /\ acts = 0

Tree(r) == run[r].mine[run[r].i]

Go(r, state) == run' = [run EXCEPT ![r] = state]

\* The walk of the next tree, or the end.  A run that was alone to its end says so
\* in its result.
WalkNext(r, i) ==
    IF i <= Len(run[r].mine)
    THEN Go(r, [run[r] EXCEPT !.pc = "walk", !.i = i, !.todo = {run[r].mine[i].root},
                              !.rm = {}, !.existing = {}])
    ELSE Go(r, [Idle("ok") EXCEPT !.alone = run[r].alone])

Fail(r) == Go(r, Idle("failed"))

\* Whoever starts is alone if nobody else is on the way, and nobody else is any more.
StartRun(r) ==
    /\ run[r].pc = "idle"
    /\ run' = [q \in Run |->
                 IF q = r
                 THEN [Idle("none") EXCEPT !.pc = "start", !.mine = conf,
                         !.alone = \A o \in Run \ {r} : run[o].pc = "idle"]
                 ELSE [run[q] EXCEPT !.alone = FALSE]]
    /\ UNCHANGED <<fs, conf, acts>>

StartTrees(r) ==
    /\ run[r].pc = "start"
    /\ WalkNext(r, 1)
    /\ UNCHANGED <<fs, conf, acts>>

\* The order of filepath.Walk().
IsVisited(r, p) == run[r].pc = "walk" /\ IsFirst(p, run[r].todo)

\* The file is gone that the walk has read the name of.
VisitMissing(r) ==
    \E p \in run[r].todo :
       /\ IsVisited(r, p) /\ p \notin DOMAIN fs
       /\ Fail(r)
       /\ UNCHANGED <<fs, conf, acts>>

\* Bugs: a target is not compared, or a directory is never expected.
IsExpectedName(r, p) == p \in DOMAIN Tree(r).files
IsExpectedLink(r, p) == p \in DOMAIN Tree(r).files /\ fs[p] = Tree(r).files[p] /\ fs[p] # Dir

\* A directory or a symlink with the right target.
IsExpected(r, p) == p \in DOMAIN Tree(r).files /\ fs[p] = Tree(r).files[p]

\* walkFn(), and the names in a directory.
Visit(r) ==
    \E p \in run[r].todo :
       /\ IsVisited(r, p) /\ p \in DOMAIN fs
       /\ Go(r, [run[r] EXCEPT
                !.todo = (@ \ {p}) \cup (IF fs[p] = Dir THEN ChildrenOf(p) ELSE {}),
                !.existing = @ \cup (IF IsExpected(r, p) THEN {p} ELSE {}),
                !.rm = @ \cup (IF IsExpected(r, p) \/ p = Tree(r).root THEN {} ELSE {p})])
       /\ UNCHANGED <<fs, conf, acts>>

WalkDone(r) ==
    /\ run[r].pc = "walk" /\ run[r].todo = {}
    /\ Go(r, [run[r] EXCEPT !.pc = "remove"])
    /\ UNCHANGED <<fs, conf, acts>>

\* os.Remove() fails for a file that is gone and for a directory with files.
RemoveLast(r) ==
    /\ run[r].pc = "remove"
    /\ \E p \in run[r].rm :
          /\ IsLast(p, run[r].rm)
          /\ IF p \in DOMAIN fs /\ ChildrenOf(p) = {}
             THEN /\ fs' = [q \in DOMAIN fs \ {p} |-> fs[q]]
                  /\ Go(r, [run[r] EXCEPT !.rm = @ \ {p}])
             ELSE Fail(r) /\ UNCHANGED fs
    /\ UNCHANGED <<conf, acts>>

RemoveDone(r) ==
    /\ run[r].pc = "remove" /\ run[r].rm = {}
    /\ Go(r, [run[r] EXCEPT !.pc = "create"])
    /\ UNCHANGED <<fs, conf, acts>>

Missing(r) == DOMAIN Tree(r).files \ run[r].existing

\* A bug: what is in the way gets replaced.
ReplaceFirst(r) ==
    /\ run[r].pc = "create"
    /\ \E p \in {q \in Missing(r) : IsFirst(q, Missing(r))} :
          /\ fs' = [q \in DOMAIN fs \cup {p} |-> IF q = p THEN Tree(r).files[p] ELSE fs[q]]
          /\ Go(r, [run[r] EXCEPT !.existing = @ \cup {p}])
    /\ UNCHANGED <<conf, acts>>

\* os.Mkdir() and os.Symlink() fail if there is a file, or no directory to put it in.
CreateFirst(r) ==
    /\ run[r].pc = "create"
    /\ \E p \in Missing(r) :
          /\ IsFirst(p, Missing(r))
          /\ IF p \notin DOMAIN fs /\ IsDir(Parent(p))
             THEN /\ fs' = [q \in DOMAIN fs \cup {p} |->
                              IF q = p THEN Tree(r).files[p] ELSE fs[q]]
                  /\ Go(r, [run[r] EXCEPT !.existing = @ \cup {p}])
             ELSE Fail(r) /\ UNCHANGED fs
    /\ UNCHANGED <<conf, acts>>

CreateDone(r) ==
    /\ run[r].pc = "create" /\ Missing(r) = {}
    /\ WalkNext(r, run[r].i + 1)
    /\ UNCHANGED <<fs, conf, acts>>

RunStep(r) ==
    \/ StartTrees(r)
    \/ VisitMissing(r) \/ Visit(r) \/ WalkDone(r)
    \/ RemoveLast(r) \/ RemoveDone(r)
    \/ CreateFirst(r) \/ CreateDone(r)

-----------------------------------------------------------------------------
\* What happens besides.

Besides(act) == act \in Acts /\ acts < MaxActs /\ acts' = acts + 1

Disturb == run' = [r \in Run |-> [run[r] EXCEPT !.alone = FALSE]]

\* A user creates a file, a symlink or a directory.
Put(p) ==
    /\ Besides("put")
    /\ p \notin DOMAIN fs /\ ~ IsRoot(p) /\ IsDir(Parent(p))
    /\ \E x \in UserContent : fs' = [q \in DOMAIN fs \cup {p} |-> IF q = p THEN x ELSE fs[q]]
    /\ Disturb
    /\ UNCHANGED conf

\* A user removes a file or an empty directory.
Drop(p) ==
    /\ Besides("drop")
    /\ p \in DOMAIN fs /\ ~ IsRoot(p) /\ ChildrenOf(p) = {}
    /\ fs' = [q \in DOMAIN fs \ {p} |-> fs[q]]
    /\ Disturb
    /\ UNCHANGED conf

Configure ==
    /\ Besides("configure")
    /\ conf' \in Config
    /\ Disturb
    /\ UNCHANGED fs

Kill(r) ==
    /\ run[r].pc # "idle" /\ Besides("kill")
    /\ Go(r, Idle("killed"))
    /\ UNCHANGED <<fs, conf>>

Next ==
    \/ \E r \in Run : StartRun(r) \/ RunStep(r) \/ Kill(r)
    \/ \E p \in Node : Put(p) \/ Drop(p)
    \/ Configure

\* A run that has started goes on to its end, and cron starts another one.
Spec ==
    /\ Init /\ [][Next]_vars
    /\ \A r \in Run : WF_vars(RunStep(r)) /\ WF_vars(StartRun(r))

-----------------------------------------------------------------------------
RunType ==
    [pc : {"idle", "start", "walk", "remove", "create"},
     mine : Config \cup {<<>>}, i : Nat,
     todo : SUBSET Node, rm : SUBSET Node, existing : SUBSET Node,
     result : {"none", "ok", "failed", "killed"}, alone : BOOLEAN]

TypeOK ==
    /\ IsFiles(fs) /\ IsTree(fs)
    /\ conf \in Config /\ acts \in 0 .. MaxActs
    /\ run \in [Run -> RunType]
    /\ \A r \in Run :
          /\ run[r].pc # "idle" => run[r].mine \in Config
          /\ run[r].pc \notin {"idle", "start"} => run[r].i \in DOMAIN run[r].mine

\* Below a root, there is what the tree says and nothing else.
IsApplied(tree) ==
    /\ {p \in DOMAIN fs : IsAbove(tree.root, p)} = DOMAIN tree.files
    /\ \A p \in DOMAIN tree.files : fs[p] = tree.files[p]

AllApplied == \A i \in DOMAIN conf : IsApplied(conf[i])

\* "`EnsureShareTrees()` applies the shared tree to the filesystem", if it says so and
\* has been alone: whatever was there before, left by other configurations, users
\* or runs that were killed.
TreesAreApplied == \A r \in Run : run[r].result = "ok" /\ run[r].alone => AllApplied

\* A run that is alone never takes a file away that is as its tree expects it, not
\* even to give it back.
RightFilesStay ==
    [][\A r \in Run : run[r].alone /\ RunStep(r) /\ run[r].pc \notin {"idle", "start"} =>
          \A p \in DOMAIN Tree(r).files :
             p \in DOMAIN fs /\ fs[p] = Tree(r).files[p] =>
                p \in DOMAIN fs' /\ fs'[p] = fs[p]]_vars

\* When nothing happens besides any more, the trees become right and stay so, even if
\* runs keep overlapping: they may remove what the other one has just created, and
\* fail because of one another, but not for ever.
TreesConverge == <>[]AllApplied
=============================================================================
