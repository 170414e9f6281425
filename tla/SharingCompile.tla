--------------------------- MODULE SharingCompile ---------------------------
(***************************************************************************)
(* bcpsharing.Compile(): from the `sharing` block of the configuration to  *)
(* the ACLs on realpaths, the traversal ACLs and the trees of symlinks     *)
(* that `bcpfs-perms apply --sharing` brings to the filesystem.  One step  *)
(* for each function that Compile() calls, in its order; the first error   *)
(* ends it.                                                                *)
(*                                                                         *)
(* The configuration parser has already refused malformed ACL entries and  *)
(* unknown actions.                                                        *)
(***************************************************************************)
EXTENDS SharingProducts

CONSTANT Configs     \* the `sharing` blocks that may be compiled

\* Lists are lists.  A path has names between the slashes, and none of them is "..", which
\* slashpath.Join() would resolve.
IsList(s) == s \in Seq(ToSet(s))
IsExport(e) ==
    /\ e \in [path : {e.path}, acl : {e.acl}]
    /\ IsList(e.path) /\ Trim(e.path) # <<>> /\ ToSet(Trim(e.path)) \cap {"", ".."} = {}
    /\ IsList(e.acl)
    /\ \A a \in ToSet(e.acl) : a \in [group : {a.group}, mode : SUBSET {"r", "w", "x"}]

ASSUME ConfigAssumption ==
    \A c \in Configs :
        /\ IsList(c.exports) /\ IsList(c.imports) /\ IsList(c.namingPolicy)
        /\ \A i \in DOMAIN c.exports : IsExport(c.exports[i])

\* Org units and services are in directories of their own, and each service is that of a
\* facility that is configured.
ASSUME DirAssumption ==
    /\ OrgUnitDir # ServiceDir
    /\ \A s \in Services : FacilityOf[s] \in DOMAIN FacilityDirOf

VARIABLES
    cfg,             \* the sharing block: exports, namingPolicy, imports
    stage,           \* the step that is due, "done" or "error"
    exps,            \* Exports: logical paths
    shares,          \* the exports that are also imported
    realShares,      \* RealShares
    traversal,       \* Traversal
    shareTrees       \* ShareTrees: ou -> path -> target, <<>> for a directory

vars == <<cfg, stage, exps, shares, realShares, traversal, shareTrees>>

-----------------------------------------------------------------------------

Init ==
    /\ cfg \in Configs
    /\ stage = "exports"
    /\ exps = <<>> /\ shares = <<>> /\ realShares = <<>> /\ traversal = <<>>
    /\ shareTrees = <<>>

\* A step of Compile(): an error if the check fails, else on to the next step.
Check(ok, this, then) ==
    /\ stage = this
    /\ stage' = IF ok THEN then ELSE "error"
    /\ UNCHANGED <<cfg, shares, realShares, traversal, shareTrees>>

CompileExports ==
    LET ok == \A i \in DOMAIN cfg.exports : ~ TooShort(cfg.exports[i].path)
    IN /\ Check(ok, "exports", "naming")
       /\ exps' = IF ok
                  THEN [i \in DOMAIN cfg.exports |-> CompileExport(cfg.exports[i])]
                  ELSE exps

CheckExportPaths ==
    /\ Check(\A i \in DOMAIN exps : NamingAction(cfg.namingPolicy, exps[i].path) = "allow",
             "naming", "scopes")
    /\ UNCHANGED exps

CheckExportAclScopes ==
    /\ Check(\A i \in DOMAIN exps : AclInScope(exps[i]), "scopes", "nesting")
    /\ UNCHANGED exps

\* A bug: nested paths are left to the check of realpaths.
CheckNoDuplicates ==
    /\ Check(NoneTwice(PathsOf(exps)), "nesting", "realpathNesting")
    /\ UNCHANGED exps

CheckNoNesting ==
    /\ Check(Acceptable(PathsOf(exps), FALSE), "nesting", "realpathNesting")
    /\ UNCHANGED exps

CheckNoRealpathNesting ==
    /\ Check(Acceptable(RealpathsOf(exps), TRUE), "realpathNesting", "compile")
    /\ UNCHANGED exps

CompileProducts ==
    /\ stage = "compile"
    /\ shares' = SelectImportedExports(exps, cfg.imports)
    /\ realShares' = CompileRealShares(shares')
    /\ traversal' = CompileTraversal(shares', realShares')
    /\ shareTrees' = CompileShareTrees(shares')
    /\ stage' = "done"
    /\ UNCHANGED <<cfg, exps>>

Next ==
    \/ CompileExports \/ CheckExportPaths \/ CheckExportAclScopes
    \/ CheckNoNesting \/ CheckNoRealpathNesting \/ CompileProducts

Spec == Init /\ [][Next]_vars /\ WF_vars(Next)

-----------------------------------------------------------------------------
\* Exports are written without slashes at the ends.
PlainPaths ==
    \A c \in Configs : \A i \in DOMAIN c.exports :
        Trim(c.exports[i].path) = c.exports[i].path

\* The path of a facility leads to a service that the facility operates.
OwnFacilities ==
    \A c \in Configs : \A i \in DOMAIN c.exports :
        LET p == Trim(c.exports[i].path)
        IN IsServicePath(p) /\ IsFacilityPath(p) => p[1] = FacilityDirOf[FacilityOf[p[2]]]

-----------------------------------------------------------------------------
\* What the products are for, stated without the order in which they are built.

\* Paths are below the root dir, modes are modes, and a tree has no file at or
\* above its root <org>/<ou>/shared.
TypeOK ==
    /\ cfg \in Configs
    /\ stage \in {"exports", "naming", "scopes", "nesting", "realpathNesting",
                  "compile", "done", "error"}
    /\ \A es \in {exps, shares, realShares, traversal} : \A i \in DOMAIN es :
          /\ es[i].path # <<>>
          /\ \A a \in ToSet(es[i].acl) : a.mode \subseteq {"r", "w", "x"}
    /\ \A ou \in DOMAIN shareTrees : \A f \in DOMAIN shareTrees[ou] :
          Len(f) > 3 /\ Prefix(f, 3) = <<OrgUnitDir, ou, "shared">>

\* The import rules let the group have the exported path: a rule accepts it, and
\* no rule before that one rejects it.
Imported(p, group) ==
    \E i \in DOMAIN cfg.imports :
        LET applies(j) == cfg.imports[j].group = group /\ p \in cfg.imports[j].match
        IN /\ applies(i) /\ cfg.imports[i].action = "accept"
           /\ \A j \in 1 .. i - 1 : ~ applies(j)

Permissions(entries) ==
    UNION {UNION {{<<entries[i].path, a.group, bit>> : bit \in a.mode} :
                    a \in ToSet(entries[i].acl)} : i \in DOMAIN entries}

\* The realpath ACLs grant what some export grants and the importing group
\* accepts, nothing less and nothing more, however many logical paths lead to one
\* directory and in whatever order they are listed.
AccessIsGrantedAndImported ==
    stage = "done" =>
        Permissions(realShares) =
            {<<Realpath(x[1]), x[2], x[3]>> :
               x \in {y \in Permissions([i \in DOMAIN cfg.exports |->
                                  [cfg.exports[i] EXCEPT !.path = Trim(@)]]) :
                      Imported(y[1], y[2])}}

\* What the kernel makes of a relative target in a directory.
Follow(dir, target) ==
    FoldLeft(LAMBDA d, part : IF part = ".." THEN Front(d) ELSE Append(d, part),
             dir, target)

LinksOf(tree) == {f \in DOMAIN tree : tree[f] # Directory}

\* The path below <org> that a link of a tree leads to.
LinkedPath(tree, f) == Rest(Follow(Front(f), tree[f]), 1)

\* A link of a tree leads, through the service links, to a real share that grants
\* the org unit of the tree something or that the org unit itself exports.
LinksLeadToShares ==
    stage = "done" =>
        \A ou \in DOMAIN shareTrees : \A f \in LinksOf(shareTrees[ou]) :
            LET p == LinkedPath(shareTrees[ou], f)
            IN \E i \in DOMAIN realShares :
                  /\ realShares[i].path = ResolveLogical(p)
                  /\ ou = p[1] \/ ou \in Groups(realShares[i].acl)

\* The directories on the way of a link to the path that only its org unit and the
\* service operators can pass without traversal ACLs.  <srvdir>/<srv> is for the
\* members of the service group.
GuardedOnTheWay(p) ==
    LET real == ResolveLogical(p)
        top == IF IsServiceRealpath(real) THEN 3 ELSE 2
    IN {<<OrgUnitDir, p[1]>>} \cup {Prefix(real, n) : n \in top .. Len(real) - 1}

\* Who is granted a share finds it in its own tree and passes every directory on
\* the way.
SharesAreReachable ==
    stage = "done" =>
        \A i \in DOMAIN shares : \A ou \in Groups(shares[i].acl) :
            /\ \E f \in LinksOf(shareTrees[ou]) :
                  LinkedPath(shareTrees[ou], f) = shares[i].path
            /\ \A d \in GuardedOnTheWay(shares[i].path) :
                  <<d, ou, "x">> \in Permissions(traversal)

\* Nobody gets to traverse a directory that is not on the way to a share of theirs.
TraversalIsNarrow ==
    stage = "done" =>
        \A t \in Permissions(traversal) :
            /\ t[3] = "x"
            /\ \E i \in DOMAIN shares :
                  /\ t[2] \in Groups(shares[i].acl)
                  /\ t[1] \in GuardedOnTheWay(shares[i].path)

\* Each tree can be built: the directory of each file is a directory of the tree.
\* No link of a share lies on the way to another one.
TreesAreTrees ==
    stage = "done" =>
        \A ou \in DOMAIN shareTrees : \A f \in DOMAIN shareTrees[ou] :
            \/ Len(f) = 4
            \/ Front(f) \in DOMAIN shareTrees[ou] /\ shareTrees[ou][Front(f)] = Directory

\* The groups whose entries `apply` manages at a directory of an org unit, be it in its own
\* directory or in that of a service.
ManagersOf(r) ==
    IF IsServiceRealpath(r) THEN {OuGroup(r[3]), OpsGroup(FacilityOf[r[2]])} ELSE {OuGroup(r[2])}

\* A real share keeps the managing groups of the first export that leads to it:
\* they are those of the directory, whichever logical path that one uses.
ManagersOfDirectory ==
    stage = "done" =>
        \A i \in DOMAIN realShares : realShares[i].managing = ManagersOf(realShares[i].path)

\* The real shares that are exported by the path of the facility.
ByFacility(r) ==
    \E i \in DOMAIN shares :
        /\ Realpath(shares[i].path) = r.path
        /\ IsServicePath(shares[i].path) /\ IsFacilityPath(shares[i].path)

\* checkExportEntryAclScopes() compares an ACL with the first component of the path and
\* the facility: this is enough for the ACL of a directory to have no entry for a group
\* that manages it, unless it is exported by the path of the facility.
OwnPathsSpareManagers ==
    stage = "done" =>
        \A i \in DOMAIN realShares : \A ou \in Groups(realShares[i].acl) :
            ByFacility(realShares[i]) \/ OuGroup(ou) \notin realShares[i].managing

\* compileTraversal() passes the groups of an ACL on to the directories above, whose managing
\* groups nobody compares them with.  `--x` still replaces no entry of a group that manages
\* such a directory, unless a share below it is exported by the path of the facility.
TraversalSparesManagers ==
    stage = "done" =>
        \A t \in Permissions(traversal) :
            OuGroup(t[2]) \in ManagersOf(t[1]) =>
                \E i \in DOMAIN realShares :
                    /\ ByFacility(realShares[i]) /\ IsAbove(t[1], realShares[i].path)
                    /\ t[2] \in Groups(realShares[i].acl)

\* "Export ACLs must grant permissions only to other groups, so that they do not
\* interfere with `bcpfs-perms`": no ACL has an entry for a group that manages the
\* directory.
ManagersAreSpared ==
    stage = "done" =>
        \A i \in DOMAIN realShares : \A ou \in Groups(realShares[i].acl) :
            OuGroup(ou) \notin realShares[i].managing
=============================================================================
