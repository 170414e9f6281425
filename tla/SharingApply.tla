---------------------------- MODULE SharingApply ----------------------------
(***************************************************************************)
(* EnsureRealShares() and EnsureTraversal(): how `bcpfs-perms apply        *)
(* --sharing` brings the ACLs of a compiled sharing configuration to the   *)
(* filesystem, while users work in the directories, the administrator      *)
(* changes the configuration, and runs get killed.                         *)
(*                                                                         *)
(* A run reads the ACLs of the shared directories once, decides by them,   *)
(* and then runs pipelines `find | xargs setfacl` that visit the files     *)
(* below a directory one by one.  What a pipeline visits is what find      *)
(* listed: a directory comes before the files in it.  A pipeline that      *)
(* meets a file that has gone visits the others and then fails the run.    *)
(*                                                                         *)
(* Only named group entries are modelled.  They are a function from the    *)
(* groups that have one to their mode, a subset of {"r", "w", "x"}.  The   *)
(* mask limits what they grant.  setfacl -n leaves it alone, and users do  *)
(* not change default masks.                                               *)
(***************************************************************************)
EXTENDS Paths, FiniteSets

CONSTANTS
    Name,          \* the names of files
    Node,          \* the paths that may exist below the root dir
    DirNode,       \* those that are directories if they exist
    Group,         \* filesystem groups
    Mode,          \* the modes that entries may have
    Mask,          \* the masks that directories may have
    Config,        \* the compiled configurations: realShares and traversal
    InitialAcl,    \* what `bcpfs-perms apply` has set on the toplevel directories
    InitialMask,   \* the default mask that it has set, of the toplevel directory that
                   \* a path is in
    Acts,          \* what may happen besides: "create", "remove", "chmod",
                   \* "configure", "kill"
    ActsMidRun,    \* those of them that may happen during a run, too
    MaxActs        \* how often something happens besides

\* Partial functions from groups to modes.
AclType == UNION {[S -> Mode] : S \in SUBSET Group}

ShareType == [path : Node, acl : Seq([group : Group, mode : Mode]),
              managing : SUBSET Group]

GroupsOf(s) == {s.acl[i].group : i \in DOMAIN s.acl}

\* Without the x-bit, for files.
WithoutX(m) == m \ {"x"}

\* The groups that `bcpfs-perms apply` has given entries that pass on to a path.
Managers(n) ==
    UNION {DOMAIN InitialAcl[t].dfl :
             t \in {t \in DOMAIN InitialAcl : t = n \/ IsAbove(t, n)}}

ASSUME NodeAssumption == Node \subseteq Seq(Name) \ {<<>>} /\ DirNode \subseteq Node

ASSUME ModeAssumption ==
    /\ {"x"} \in Mode /\ \A m \in Mode : WithoutX(m) \in Mode
    /\ InitialMask \in [Node -> Mask]
    /\ MaxActs \in Nat

\* `apply` gives a toplevel directory the entries that it inherits, too.
ASSUME InitialAssumption ==
    /\ DOMAIN InitialAcl \subseteq DirNode
    /\ \A t \in DOMAIN InitialAcl :
          /\ InitialAcl[t].acl \in AclType /\ InitialAcl[t].dfl \in AclType
          /\ Managers(t) \subseteq DOMAIN InitialAcl[t].acl
          /\ Managers(t) \subseteq DOMAIN InitialAcl[t].dfl

\* What Compile() makes of a configuration.  SharingCompile checks the conjuncts about managing
\* groups as ManagersOfDirectory, OwnPathsSpareManagers and TraversalSparesManagers;
\* CompiledMayBeApplied is the theorem.
ASSUME ConfigAssumption ==
    /\ Config # {}
    /\ \A c \in Config :
          /\ c.realShares \in Seq(ShareType)
          /\ c.traversal \subseteq [path : Node, group : Group]
          /\ \A i \in 1 .. Len(c.realShares) : \A n \in Node :
                n = c.realShares[i].path \/ IsAbove(c.realShares[i].path, n) =>
                   /\ Managers(n) \subseteq c.realShares[i].managing
                   /\ GroupsOf(c.realShares[i]) \cap Managers(n) = {}
          /\ \A t \in c.traversal : t.group \notin Managers(t.path)

VARIABLES
    exists,        \* the files that exist
    acl,           \* their ACLs
    dfl,           \* the default ACLs of directories
    mask,          \* the masks of directories
    conf,          \* the configuration file
    pc,            \* where the run is, "idle" if there is none
    mine,          \* the configuration of the run
    facls,         \* what getfacl printed: path -> [acl, dfl]
    k,             \* the real share that is due
    work,          \* what the pipeline still has to visit
    broken,        \* the pipeline has met an error
    last,          \* how the last run ended: "none", "ok", "failed", "killed"
    acts,          \* how often something has happened besides
    calm           \* nothing has happened besides since the last run started

fs == <<exists, acl, dfl, mask>>
run == <<pc, mine, facls, k, work, broken, last>>
env == <<conf, acts, calm>>
vars == <<fs, run, env>>

-----------------------------------------------------------------------------
\* ACLs.

NoEntries == [g \in {} |-> {}]

Entries(s) == {s.acl[i] : i \in DOMAIN s.acl}

\* The mode that setfacl -m gives the group: its last entry wins.
ModeFor(s, g) ==
    LET i == CHOOSE i \in DOMAIN s.acl :
                /\ s.acl[i].group = g
                /\ \A j \in DOMAIN s.acl : s.acl[j].group = g => j <= i
    IN s.acl[i].mode

ModifyDir(f, s) ==
    [g \in DOMAIN f \cup GroupsOf(s) |-> IF g \in GroupsOf(s) THEN ModeFor(s, g) ELSE f[g]]
ModifyFile(f, s) ==
    [g \in DOMAIN f \cup GroupsOf(s) |->
        IF g \in GroupsOf(s) THEN WithoutX(ModeFor(s, g)) ELSE f[g]]

\* setfacl -x.
RemoveGroups(f, gs) == [g \in DOMAIN f \ gs |-> f[g]]

HasEntry(f, g, m) == g \in DOMAIN f /\ f[g] = m

\* A bug: only new groups are noticed.
NeedGroups(actual, s) ==
    \E a \in Entries(s) : a.group \notin DOMAIN actual.acl \cap DOMAIN actual.dfl

\* faclNeedModify(): a desired entry is missing, as a normal or as a default one.
NeedModify(actual, s) ==
    \E a \in Entries(s) :
        ~ HasEntry(actual.acl, a.group, a.mode) \/ ~ HasEntry(actual.dfl, a.group, a.mode)

\* Bugs: the managing groups, or those of the share itself, are not spared.
GroupsNotShared(actual, s) == (DOMAIN actual.acl \cup DOMAIN actual.dfl) \ GroupsOf(s)
GroupsNotManaging(actual, s) == (DOMAIN actual.acl \cup DOMAIN actual.dfl) \ s.managing

\* faclGroupsToRemove().
GroupsToRemove(actual, s) ==
    (DOMAIN actual.acl \cup DOMAIN actual.dfl) \ (GroupsOf(s) \cup s.managing)

\* The desired traversal entries that are not among the normal entries read.
TraversalMissing(actual, traversal) ==
    {t \in traversal : t.path \in DOMAIN actual
                       /\ ~ HasEntry(actual[t.path].acl, t.group, {"x"})}

\* find <path>.
Below(p) == {n \in exists : n = p \/ IsAbove(p, n)}

\* The mask cuts off a bit of an entry.  getfacl then adds an `#effective` comment,
\* and ParseGetfaclText() calls the line malformed.
Unreadable(n) ==
    \/ \E g \in DOMAIN acl[n] : ~ (acl[n][g] \subseteq mask[n])
    \/ \E g \in DOMAIN dfl[n] : ~ (dfl[n][g] \subseteq InitialMask[n])

\* getfaclDirPaths(): the ACLs of those paths that are directories.
Getfacl(paths) ==
    [p \in paths \cap exists \cap DirNode |-> [acl |-> acl[p], dfl |-> dfl[p]]]

SharePaths(c) == {c.realShares[i].path : i \in DOMAIN c.realShares}
TraversalPaths(c) == {t.path : t \in c.traversal}

-----------------------------------------------------------------------------
Init ==
    /\ exists = DOMAIN InitialAcl
    /\ acl = [n \in Node |-> IF n \in exists THEN InitialAcl[n].acl ELSE NoEntries]
    /\ dfl = [n \in Node |-> IF n \in exists THEN InitialAcl[n].dfl ELSE NoEntries]
    /\ mask = InitialMask
    /\ conf \in Config
    /\ pc = "idle" /\ mine = conf /\ facls = <<>> /\ k = 1 /\ work = {}
    /\ broken = FALSE /\ last = "none"
    /\ acts = 0 /\ calm = FALSE

\* The run goes on at a label with work for a pipeline; find fails if the path it
\* starts at has gone.
Goto(label) == pc' = label /\ UNCHANGED <<mine, facls, k, last>>
Pipe(label, todo) == Goto(label) /\ work' = todo /\ broken' = FALSE

\* The end of a run, by success or by the first error.
End(result) ==
    /\ pc' = "idle" /\ last' = result
    /\ facls' = <<>> /\ k' = 1 /\ work' = {} /\ broken' = FALSE
    /\ UNCHANGED mine

StartRun ==
    /\ pc = "idle"
    /\ pc' = "getfacl" /\ mine' = conf /\ calm' = TRUE
    /\ UNCHANGED <<fs, conf, acts, facls, k, work, broken, last>>

\* EnsureRealShares() reads all real shares that exist.
GetShareFacls ==
    /\ pc = "getfacl"
    /\ LET actual == Getfacl(SharePaths(mine))
       IN IF \E p \in DOMAIN actual : Unreadable(p) THEN End("failed")
          ELSE /\ pc' = "share" /\ facls' = actual
               /\ UNCHANGED <<mine, k, work, broken, last>>
    /\ UNCHANGED <<fs, env>>

Share == mine.realShares[k]
ShareIsDue == pc = "share" /\ k <= Len(mine.realShares)

NextShare ==
    /\ pc' = "share" /\ k' = k + 1 /\ work' = {} /\ broken' = FALSE
    /\ UNCHANGED <<mine, facls, last>>

\* A bug: a share that does not exist is an error.
FailMissingShare ==
    /\ ShareIsDue /\ Share.path \notin DOMAIN facls
    /\ End("failed")
    /\ UNCHANGED <<fs, env>>

SkipMissingShare ==
    /\ ShareIsDue /\ Share.path \notin DOMAIN facls
    /\ NextShare
    /\ UNCHANGED <<fs, env>>

\* ensureFacl(): find lists the directories for setfacl -m, if there is a need.
FindDirs ==
    /\ ShareIsDue /\ Share.path \in DOMAIN facls
    /\ IF ~ NeedModify(facls[Share.path], Share) THEN Pipe("modified", {})
       ELSE IF Share.path \in exists THEN Pipe("dirs", Below(Share.path) \cap DirNode)
       ELSE End("failed")
    /\ UNCHANGED <<fs, env>>

\* A pipeline visits a file of its list, a directory before what is in it.
IsNext(n) == n \in work /\ \A m \in work : ~ IsAbove(m, n)
Visit(n) ==
    /\ IsNext(n) /\ work' = work \ {n}
    /\ broken' = (broken \/ n \notin exists)
    /\ UNCHANGED <<pc, mine, facls, k, last, exists, mask, env>>

ModifyNextDir(n) ==
    /\ pc = "dirs" /\ Visit(n)
    /\ acl' = IF n \in exists THEN [acl EXCEPT ![n] = ModifyDir(@, Share)] ELSE acl
    /\ dfl' = IF n \in exists THEN [dfl EXCEPT ![n] = ModifyDir(@, Share)] ELSE dfl

\* The next pipeline of the script, unless the one before has failed.
FindFiles ==
    /\ pc = "dirs" /\ work = {}
    /\ IF broken \/ Share.path \notin exists THEN End("failed")
       ELSE Pipe("files", Below(Share.path) \ DirNode)
    /\ UNCHANGED <<fs, env>>

ModifyNextFile(n) ==
    /\ pc = "files" /\ Visit(n)
    /\ acl' = IF n \in exists THEN [acl EXCEPT ![n] = ModifyFile(@, Share)] ELSE acl
    /\ UNCHANGED dfl

FilesDone ==
    /\ pc = "files" /\ work = {}
    /\ IF broken THEN End("failed") ELSE Pipe("modified", {})
    /\ UNCHANGED <<fs, env>>

\* What to remove is decided by what was read before the modification.
FindAll ==
    /\ pc = "modified"
    /\ IF GroupsToRemove(facls[Share.path], Share) = {} THEN NextShare
       ELSE IF Share.path \in exists THEN Pipe("remove", Below(Share.path))
       ELSE End("failed")
    /\ UNCHANGED <<fs, env>>

\* A bug: default entries are left behind.
RemoveNormalFromNext(n) ==
    LET gs == GroupsToRemove(facls[Share.path], Share)
    IN /\ pc = "remove" /\ Visit(n)
       /\ acl' = IF n \in exists THEN [acl EXCEPT ![n] = RemoveGroups(@, gs)] ELSE acl
       /\ UNCHANGED dfl

RemoveFromNext(n) ==
    LET gs == GroupsToRemove(facls[Share.path], Share)
    IN /\ pc = "remove" /\ Visit(n)
       /\ acl' = IF n \in exists THEN [acl EXCEPT ![n] = RemoveGroups(@, gs)] ELSE acl
       /\ dfl' = IF n \in exists THEN [dfl EXCEPT ![n] = RemoveGroups(@, gs)] ELSE dfl

RemoveDone ==
    /\ pc = "remove" /\ work = {}
    /\ IF broken THEN End("failed") ELSE NextShare
    /\ UNCHANGED <<fs, env>>

\* EnsureTraversal() reads the directories afresh.
GetTraversalFacls ==
    /\ pc = "share" /\ k > Len(mine.realShares)
    /\ LET actual == Getfacl(TraversalPaths(mine))
       IN IF \E p \in DOMAIN actual : Unreadable(p) THEN End("failed")
          ELSE /\ pc' = "traverse" /\ facls' = actual
               /\ work' = TraversalMissing(actual, mine.traversal)
               /\ UNCHANGED <<mine, k, broken, last>>
    /\ UNCHANGED <<fs, env>>

\* One pipeline per group, in any order: the groups whose pipeline has started and
\* has not ended.
InPipeline ==
    {w.group : w \in work} \cap
    {w.group : w \in TraversalMissing(facls, mine.traversal) \ work}

Traverse(w) ==
    /\ pc = "traverse" /\ w \in work
    /\ IF InPipeline = {} THEN ~ broken ELSE w.group \in InPipeline
    /\ work' = work \ {w}
    /\ broken' = (broken \/ w.path \notin exists)
    /\ acl' = IF w.path \in exists
              THEN [acl EXCEPT ![w.path] =
                      [g \in DOMAIN @ \cup {w.group} |->
                          IF g = w.group THEN {"x"} ELSE @[g]]]
              ELSE acl
    /\ UNCHANGED <<exists, dfl, mask, pc, mine, facls, k, last, env>>

TraversalDone ==
    /\ pc = "traverse" /\ InPipeline = {}
    /\ \/ broken /\ End("failed")
       \/ ~ broken /\ work = {} /\ End("ok")
    /\ UNCHANGED <<fs, env>>

RunStep ==
    \/ GetShareFacls \/ SkipMissingShare
    \/ FindDirs \/ (\E n \in Node : ModifyNextDir(n))
    \/ FindFiles \/ (\E n \in Node : ModifyNextFile(n)) \/ FilesDone
    \/ FindAll \/ (\E n \in Node : RemoveFromNext(n)) \/ RemoveDone
    \/ GetTraversalFacls \/ (\E w \in work : Traverse(w)) \/ TraversalDone

-----------------------------------------------------------------------------
\* What happens besides.

Besides(act) ==
    /\ act \in Acts /\ (pc # "idle" => act \in ActsMidRun)
    /\ acts < MaxActs /\ acts' = acts + 1
    /\ calm' = FALSE

\* The directory that a file is in.
Parent(n) == Prefix(n, Len(n) - 1)

\* A user creates a file or directory.  The default ACL of the directory becomes
\* its ACL, and the default ACL of a directory.
Create(n) ==
    /\ Besides("create")
    /\ n \notin exists /\ Parent(n) \in exists /\ Parent(n) \in DirNode
    /\ exists' = exists \cup {n}
    /\ acl' = [acl EXCEPT ![n] = dfl[Parent(n)]]
    /\ dfl' = [dfl EXCEPT ![n] = IF n \in DirNode THEN dfl[Parent(n)] ELSE NoEntries]
    /\ mask' = [mask EXCEPT ![n] = InitialMask[n]]
    /\ UNCHANGED <<conf, run>>

\* A user removes what users have created.
Delete(n) ==
    /\ Besides("remove")
    /\ n \in exists /\ n \notin DOMAIN InitialAcl
    /\ \A m \in exists : ~ IsAbove(n, m)
    /\ exists' = exists \ {n}
    /\ acl' = [acl EXCEPT ![n] = NoEntries]
    /\ dfl' = [dfl EXCEPT ![n] = NoEntries]
    /\ UNCHANGED <<mask, conf, run>>

\* A user changes the mode of a directory, the group bits of which are the mask.
Chmod(n) ==
    /\ Besides("chmod")
    /\ n \in exists \cap DirNode /\ n \notin DOMAIN InitialAcl
    /\ \E m \in Mask : mask' = [mask EXCEPT ![n] = m]
    /\ UNCHANGED <<exists, acl, dfl, conf, run>>

Configure ==
    /\ Besides("configure")
    /\ conf' \in Config
    /\ UNCHANGED <<fs, run>>

\* The process is killed, and with it the pipeline.
Kill ==
    /\ pc # "idle" /\ Besides("kill")
    /\ End("killed")
    /\ UNCHANGED <<fs, conf>>

Next ==
    \/ StartRun \/ RunStep
    \/ (\E n \in Node : Create(n) \/ Delete(n) \/ Chmod(n))
    \/ Configure \/ Kill

\* A run that has started goes on to its end, and cron starts another one.
Spec == Init /\ [][Next]_vars /\ WF_vars(RunStep) /\ WF_vars(StartRun)

-----------------------------------------------------------------------------
TypeOK ==
    /\ exists \subseteq Node
    /\ acl \in [Node -> AclType] /\ dfl \in [Node -> AclType]
    /\ mask \in [Node -> Mask]
    /\ conf \in Config /\ mine \in Config
    /\ pc \in {"idle", "getfacl", "share", "dirs", "files", "modified", "remove",
               "traverse"}
    /\ k \in 1 .. Len(mine.realShares) + 1
    /\ pc \in {"dirs", "files", "modified", "remove"} =>
          k <= Len(mine.realShares) /\ Share.path \in DOMAIN facls
    /\ pc \in {"dirs", "files", "remove"} => work \subseteq Node
    /\ pc = "traverse" => work \subseteq mine.traversal
    /\ DOMAIN facls \subseteq Node
    /\ broken \in BOOLEAN /\ calm \in BOOLEAN /\ acts \in 0 .. MaxActs
    /\ last \in {"none", "ok", "failed", "killed"}

\* A file's entries for the sharing groups are what the share grants; those of a
\* file do so up to the x-bit.
IsApplied(s, n) ==
    LET granted == [g \in GroupsOf(s) |-> ModeFor(s, g)]
        shared(f) == [g \in DOMAIN f \ s.managing |-> f[g]]
    IN IF n \in DirNode THEN shared(acl[n]) = granted /\ shared(dfl[n]) = granted
       ELSE /\ DOMAIN shared(acl[n]) = DOMAIN granted
            /\ \A g \in DOMAIN granted : WithoutX(acl[n][g]) = WithoutX(granted[g])

\* The last run has succeeded, and nothing has happened since it started.
Settled == pc = "idle" /\ last = "ok" /\ calm

\* "`EnsureRealShares()` applies the filesystem ACLs for `realShares`": after a run
\* that nothing has disturbed, each real share that exists grants what it should,
\* with all that is below it.
SharesAreApplied ==
    Settled => \A i \in DOMAIN conf.realShares :
        \A n \in Below(conf.realShares[i].path) : IsApplied(conf.realShares[i], n)

\* After such a run, the next one would find nothing to do and would not fail: the
\* decisions by the ACLs read, the modifications and the removals agree.
SettledIsFixpoint ==
    Settled =>
        /\ \A p \in (SharePaths(conf) \cup TraversalPaths(conf)) \cap exists : ~ Unreadable(p)
        /\ \A i \in DOMAIN conf.realShares :
              LET s == conf.realShares[i]
              IN s.path \in exists =>
                    /\ ~ NeedModify([acl |-> acl[s.path], dfl |-> dfl[s.path]], s)
                    /\ GroupsToRemove([acl |-> acl[s.path], dfl |-> dfl[s.path]], s) = {}
        /\ TraversalMissing(Getfacl(TraversalPaths(conf)), conf.traversal) = {}

\* Whatever runs do, and wherever they stop, the groups that `bcpfs-perms apply`
\* manages keep their entries on all that users create.
ManagersKeepAccess ==
    \A n \in exists :
        /\ Managers(n) \subseteq DOMAIN acl[n]
        /\ n \in DirNode => Managers(n) \subseteq DOMAIN dfl[n]

\* No step changes the entries of these groups on what exists before and after it.
ManagersUntouched ==
    [][\A n \in exists \cap exists' : \A g \in Managers(n) :
          /\ g \in DOMAIN acl[n] => HasEntry(acl'[n], g, acl[n][g])
          /\ g \in DOMAIN dfl[n] => HasEntry(dfl'[n], g, dfl[n][g])]_vars

\* What a share of the run grants for a directory, if it is in one.
Granted(n, g) ==
    UNION {ModeFor(s, g) : s \in {s \in {mine.realShares[i] : i \in DOMAIN mine.realShares} :
                                   n \in Below(s.path) /\ g \in GroupsOf(s)}}

ModeIn(f, g) == IF g \in DOMAIN f THEN f[g] ELSE {}

\* Shares do not nest, as checkNoRealpathNesting() has found, and none of them needs
\* traversal of a directory in a share: only an org unit that is shared as a whole does.
SharesApart ==
    \A c \in Config :
       /\ Acceptable([i \in DOMAIN c.realShares |-> c.realShares[i].path], FALSE)
       /\ \A t \in c.traversal : \A i \in DOMAIN c.realShares :
             ~ (t.path = c.realShares[i].path \/ IsAbove(c.realShares[i].path, t.path))

\* No configuration shares what is below a share of another one, nor needs traversal
\* of it: what is shared never moves up or down.
SharesStayPut ==
    \A c, d \in Config : \A i \in DOMAIN c.realShares :
       /\ \A j \in DOMAIN d.realShares : ~ IsAbove(c.realShares[i].path, d.realShares[j].path)
       /\ \A t \in d.traversal : ~ IsAbove(c.realShares[i].path, t.path)

\* Shares are directories.  Their ACLs spare the groups that manage them, as
\* checkExportAclScopes() has found, and name a group once.
PlainShares ==
    \A c \in Config : \A i \in DOMAIN c.realShares :
       LET s == c.realShares[i]
       IN /\ s.path \in DirNode
          /\ GroupsOf(s) \cap s.managing = {}
          /\ \A a, b \in Entries(s) : a.group = b.group => a = b

\* A toplevel directory in a share is below a toplevel directory that has the entries,
\* but for those of its managers.
InitiallyEven ==
    \A c \in Config : \A i \in DOMAIN c.realShares :
       LET p == c.realShares[i].path
       IN \A t \in DOMAIN InitialAcl : IsAbove(p, t) =>
             /\ p \in DOMAIN InitialAcl
             /\ DOMAIN InitialAcl[t].acl \subseteq DOMAIN InitialAcl[p].acl \cup Managers(t)

\* Nothing touches the filesystem during a run but the run, and it is not killed.
RunsUndisturbed == ActsMidRun \cap {"create", "remove", "kill"} = {}

\* The masks that directories have for good let pass what they are to grant.
MasksSuffice ==
    /\ "chmod" \notin Acts
    /\ \A c \in Config :
          /\ \A i \in DOMAIN c.realShares : \A a \in Entries(c.realShares[i]) :
                a.mode \subseteq InitialMask[c.realShares[i].path]
          /\ \A t \in c.traversal : t.path \in DirNode /\ "x" \in InitialMask[t.path]

\* A run never takes from a group what the configuration grants it, not even to
\* give it back: who has access before and after has it in between.
RunsKeepGrants ==
    [][RunStep => \A n \in exists \cap DirNode : \A g \in Group :
          ModeIn(acl[n], g) \cap Granted(n, g) \subseteq ModeIn(acl'[n], g)]_vars

\* When nothing happens besides any more, runs end, they stop failing, and nothing
\* is left for them to do.
RunsConverge == <>[](pc = "idle" => Settled)
=============================================================================
