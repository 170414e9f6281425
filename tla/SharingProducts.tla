-------------------------- MODULE SharingProducts --------------------------
(***************************************************************************)
(* The functions that bcpsharing.Compile() is made of: ACLs and their      *)
(* union, the checks of one export, and the products - realpath ACLs,      *)
(* traversal ACLs and share trees.                                         *)
(*                                                                         *)
(* A regular expression of the configuration is the set of paths that it   *)
(* matches; an ACL is a sequence of [group, mode] with a mode that is a    *)
(* subset of {"r", "w", "x"}.                                              *)
(***************************************************************************)
EXTENDS Bcpfs, ListOps

-----------------------------------------------------------------------------
\* Acl.

Groups(acl) == {acl[i].group : i \in DOMAIN acl}

\* A bug: the last entry of a group wins.
ReplaceAce(acl, ace) ==
    LET i == SelectLastInSeq(acl, LAMBDA a : a.group = ace.group)
    IN IF i = 0 THEN Append(acl, ace) ELSE [acl EXCEPT ![i] = ace]

\* Update the entry of the group, or append a new one.
MergeAce(acl, ace) ==
    LET i == SelectLastInSeq(acl, LAMBDA a : a.group = ace.group)
    IN IF i = 0 THEN Append(acl, ace)
       ELSE [acl EXCEPT ![i].mode = @ \cup ace.mode]

AclUnion(a, b) == FoldLeft(MergeAce, a, b)

TraversalAcl(acl) ==
    [i \in DOMAIN acl |-> [group |-> acl[i].group, mode |-> {"x"}]]

\* A bug: the last entry of a path wins.
ReplaceEntry(entries, e) ==
    LET i == SelectInSeq(entries, LAMBDA x : x.path = e.path)
    IN IF i = 0 THEN Append(entries, e) ELSE [entries EXCEPT ![i] = e]

\* Update the entry of the path, or append a new one.  An entry that is updated
\* keeps its managing groups.
MergeEntry(entries, e) ==
    LET i == SelectInSeq(entries, LAMBDA x : x.path = e.path)
    IN IF i = 0 THEN Append(entries, e)
       ELSE [entries EXCEPT ![i].acl = AclUnion(@, e.acl)]

MergeEntries(es) == FoldLeft(MergeEntry, <<>>, es)

-----------------------------------------------------------------------------
\* The checks.

\* strings.Trim(c.Path, "/"): slashes at either end are empty parts of the path.
Trim(p) ==
    LET parts == {i \in 1 .. Len(p) : p[i] # ""}
    IN IF parts = {} THEN <<>> ELSE SubSeq(p, Min(parts), Max(parts))

\* The entry of an export: the managing groups are those of the path as it is
\* written in the configuration.
CompileExport(c) ==
    [path |-> Trim(c.path), acl |-> c.acl,
     managing |-> ManagingGroupsOfPath(c.path)]

\* The action of the first rule that applies, deny if none does.
NamingAction(rules, p) ==
    LET i == SelectInSeq(rules, LAMBDA r : p \in r.match)
    IN IF i = 0 THEN "deny" ELSE rules[i].action

\* A bug: only the owning facility is out of scope.
AclInFacilityScope(e) ==
    IsServicePath(e.path) => FacilityDirOf[FacilityOf[e.path[2]]] \notin Groups(e.acl)

\* An ACL may name neither the org unit of the path nor the owning facility.
AclInScope(e) ==
    /\ e.path[1] \notin Groups(e.acl)
    /\ IsServicePath(e.path) =>
          FacilityDirOf[FacilityOf[e.path[2]]] \notin Groups(e.acl)

PathsOf(entries) == [i \in DOMAIN entries |-> entries[i].path]
RealpathsOf(entries) == [i \in DOMAIN entries |-> Realpath(entries[i].path)]

-----------------------------------------------------------------------------
\* The products.

\* The action of the first import rule for the group and path, reject if none is.
ImportAction(rules, p, ace) ==
    LET i == SelectInSeq(rules, LAMBDA r : r.group = ace.group /\ p \in r.match)
    IN IF i = 0 THEN "reject" ELSE rules[i].action

\* An export with an empty ACL stays, to unexport its path; one that loses all
\* its entries to the import filter is dropped.
SelectImportedExports(es, rules) ==
    LET accepted(e) == Passing(e.acl, LAMBDA a :
                          ImportAction(rules, e.path, a) = "accept")
    IN FlattenSeq([i \in DOMAIN es |->
          IF es[i].acl = <<>> \/ accepted(es[i]) # <<>>
          THEN <<[es[i] EXCEPT !.acl = accepted(es[i])]>>
          ELSE <<>>])

CompileRealShares(shs) ==
    MergeEntries([i \in DOMAIN shs |-> [shs[i] EXCEPT !.path = Realpath(@)]])

\* A bug: `<srvdir>/<srv>` gets traversal ACLs, too.
TraversalOfWholeReal(r) ==
    [n \in 1 .. Len(r.path) - 2 |->
       [path |-> Prefix(r.path, n + 1), acl |-> TraversalAcl(r.acl)]]

\* `--x` on the directories along a realpath, but not on `<srvdir>/<srv>`.
TraversalOfReal(r) ==
    LET begin == IF IsServiceRealpath(r.path) THEN 3 ELSE 2
    IN [n \in 1 .. Len(r.path) - begin |->
          [path |-> Prefix(r.path, begin + n - 1), acl |-> TraversalAcl(r.acl)]]

\* `--x` on the toplevel directory of the org unit, where the symlink is.
TraversalOfShare(s) ==
    [path |-> <<OrgUnitDir, s.path[1]>>, acl |-> TraversalAcl(s.acl)]

CompileTraversal(shs, reals) ==
    MergeEntries(FlattenSeq([i \in DOMAIN reals |-> TraversalOfReal(reals[i])])
                 \o [i \in DOMAIN shs |-> TraversalOfShare(shs[i])])

Directory == <<>>

\* A bug: one `..` too few.
LinkTargetInTree(p) == [i \in 1 .. Len(p) |-> ".."] \o p

\* `../../../ag-bob/x` for `<org>/<ou>/shared/ag-bob/x`: up to <org>.
LinkTarget(p) == [i \in 1 .. Len(p) + 1 |-> ".."] \o p

\* The files that one share adds to the tree of an org unit, in their order.
FilesOfShare(ou, p) ==
    LET file(q) == <<OrgUnitDir, ou, "shared">> \o q
    IN [n \in 1 .. Len(p) |->
          IF n < Len(p) THEN [path |-> file(Prefix(p, n)), target |-> Directory]
          ELSE [path |-> file(p), target |-> LinkTarget(p)]]

\* The tree of an org unit: a later file replaces an earlier one at its path.
TreeOf(ou, shs) ==
    LET self == Passing(shs, LAMBDA s : s.path[1] = ou)
        others == Passing(shs, LAMBDA s : ou \in Groups(s.acl))
        files == FlattenSeq([i \in DOMAIN (self \o others) |->
                               FilesOfShare(ou, (self \o others)[i].path)])
    IN [p \in {files[i].path : i \in DOMAIN files} |->
          files[SelectLastInSeq(files, LAMBDA f : f.path = p)].target]

\* Only org units that export or import something have a tree.
CompileShareTrees(shs) ==
    LET ous == UNION {{shs[i].path[1]} \cup Groups(shs[i].acl) : i \in DOMAIN shs}
    IN [ou \in ous |-> TreeOf(ou, shs)]
=============================================================================
