-------------------------------- MODULE Fsck --------------------------------
(***************************************************************************)
(* `bcpfs-perms check`: CheckPermissions() lists the entries that should   *)
(* be there and compares them with the filesystem.  It "deliberately       *)
(* shares little code with `fsapply`", and this module shares nothing with *)
(* FsApply but the organization.  The root dir, which it checks as well    *)
(* and apply does not touch, is left out.                                  *)
(*                                                                         *)
(* The filesystem is given as two partial functions: dirs from paths to    *)
(* [group, acl, dfl], the owning group, the ACL and the default ACL, and   *)
(* links from paths to targets.                                            *)
(***************************************************************************)
EXTENDS Toplevel

\* The group, the ACL and the default ACL of the same groups, and the groups whose
\* entries are compared.
DirEntry(path, group, gs, compared, perms, default) ==
    [path |-> path, group |-> group, compared |-> compared,
     acl |-> Acl(Entries(gs, perms), perms), dfl |-> Acl(Entries(gs, default), default)]

\* SimpleACL.
RootEntry(path) == DirEntry(path, RootGroup, {}, {}, {}, {})

\* ServiceACL.
ServiceEntry(s) ==
    LET own == {ServiceGroup(s), OpsGroup(s)}
    IN DirEntry(ServicePath(s), ServiceGroup(s),
                IF s.access = "perService" THEN own ELSE {SuperGroup},
                own \cup {SuperGroup}, RX, RX)

\* ServiceOrgUnitACL: the groups of the service and the supergroup must have no entry.
SouEntry(s, ou) ==
    LET gs == {OuGroup(ou), OpsGroup(s)}
    IN DirEntry(SouPath(s, ou), OuGroup(ou), gs, gs \cup {ServiceGroup(s), SuperGroup},
                RWX, RWX)

\* OrgUnitACL, and the three ACLs of subdirs.
OuDirEntry(path, ou, perms, default) ==
    DirEntry(path, OuGroup(ou), {OuGroup(ou)}, {OuGroup(ou)}, perms, default)
SubdirEntry(ou, d) ==
    CASE d.policy = "group" -> OuDirEntry(SubdirPath(ou, d), ou, RWX, RWX)
      [] d.policy = "owner" -> OuDirEntry(SubdirPath(ou, d), ou, RWX, RX)
      [] d.policy = "manager" -> OuDirEntry(SubdirPath(ou, d), ou, RX, RX)

\* The dir of the service itself for the facility that operates it.
ExpectedDest(ou, s) ==
    IF IsFacility(ou) /\ s.facility = ou.facility THEN ServicePath(s) ELSE SouPath(s, ou)

ServiceDirsList(c) == {ServiceEntry(s) : s \in Elements(c.services)}
ServiceOrgUnitDirsList(c) ==
    UNION {{SouEntry(s, ou) : ou \in {o \in Elements(c.ous) : Accept(c, s, o)}} :
             s \in Elements(c.services)}
OrgUnitDirsList(c) == {OuDirEntry(OuPath(ou), ou, RX, RX) : ou \in Elements(c.ous)}
OrgUnitSubdirsList(c) ==
    UNION {{SubdirEntry(ou, d) : d \in Elements(ou.subdirs)} : ou \in Elements(c.ous)}

ExpectedDirs(c) ==
    {RootEntry(SrvRoot), RootEntry(OrgRoot)}
    \cup ServiceDirsList(c) \cup ServiceOrgUnitDirsList(c)
    \cup OrgUnitDirsList(c) \cup OrgUnitSubdirsList(c)

\* OrgUnitServiceLinksList().
ExpectedLinks(c) ==
    UNION {{[path |-> LinkPath(ou, s), target |-> ExpectedDest(ou, s)] :
              s \in {x \in Elements(c.services) : Accept(c, x, ou)}} : ou \in Elements(c.ous)}

\* CheckNoUnexpected(), of the paths that `find -maxdepth 2` lists.
Unexpected(c, dirs, links) ==
    {p \in DOMAIN dirs \cup DOMAIN links : p[1] \in {ServiceDir, OrgUnitDir} /\ Len(p) <= 3}
    \ ({e.path : e \in ExpectedDirs(c)} \cup {e.path : e \in ExpectedLinks(c)}
       \cup {l.path : l \in Elements(c.symlinks)})

\* CheckSymlinks(), CheckExplicitSymlinks().
LinkOk(e, links) == e.path \in DOMAIN links /\ links[e.path] = e.target

\* CheckACLs(): entries of other named groups are ignored, but the mask is not.
Compared(acl, gs) == [acl EXCEPT !.named = [g \in DOMAIN @ \cap gs |-> @[g]]]
AclOk(e, dirs) ==
    /\ e.path \in DOMAIN dirs
    /\ dirs[e.path].group = e.group
    /\ Compared(dirs[e.path].acl, e.compared) = e.acl
    /\ Compared(dirs[e.path].dfl, e.compared) = e.dfl

\* CheckPermissions(): what it complains of.
Failures(c, dirs, links) ==
    Unexpected(c, dirs, links)
    \cup {e.path : e \in {x \in ExpectedLinks(c) \cup Elements(c.symlinks) : ~ LinkOk(x, links)}}
    \cup {e.path : e \in {x \in ExpectedDirs(c) : ~ AclOk(x, dirs)}}
=============================================================================
