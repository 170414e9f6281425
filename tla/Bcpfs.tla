------------------------------- MODULE Bcpfs -------------------------------
(***************************************************************************)
(* The helper type Bcpfs of bcpsharing.go: how the logical paths of the    *)
(* sharing configuration map to directories below the root dir and to the  *)
(* groups that manage them, and how `bcpfs-perms apply` links an org unit  *)
(* to its services.                                                        *)
(*                                                                         *)
(* A logical path is <<ou, dir, ...>>, <<ou, service, ...>> or, below a    *)
(* facility, <<facility dir, service, ou, ...>>.                           *)
(***************************************************************************)
EXTENDS Paths

CONSTANTS OrgUnitDir, ServiceDir,   \* `orgUnitDir` and `serviceDir`
          FacilityOf,               \* facilityByService: service -> facility
          FacilityDirOf             \* facility -> its org unit "<facility>-facility"

Services == DOMAIN FacilityOf
FacilityDirs == {FacilityDirOf[f] : f \in DOMAIN FacilityDirOf}

IsServicePath(p) == Len(p) >= 2 /\ p[2] \in Services

IsFacilityPath(p) == p[1] \in FacilityDirs

\* The rest of a path: parts[n:].
Rest(p, n) == SubSeq(p, n + 1, Len(p))

\* The path to the directory relative to the root dir.
Realpath(p) ==
    IF ~ IsServicePath(p) THEN <<OrgUnitDir>> \o p
    ELSE IF IsFacilityPath(p) THEN <<ServiceDir>> \o Rest(p, 1)
    ELSE <<ServiceDir, p[2], p[1]>> \o Rest(p, 2)

OuGroup(ou) == <<"ou", ou>>
OpsGroup(facility) == <<"ops", facility>>

\* `<facility dir>/<service>` names no org unit: "service path too short".
TooShort(p) == IsServicePath(p) /\ IsFacilityPath(p) /\ Len(p) < 3

\* A bug: a facility path is managed by the group of the facility.
ManagingGroupsOfFirst(p) ==
    {OuGroup(p[1])} \cup (IF IsServicePath(p) THEN {OpsGroup(FacilityOf[p[2]])} ELSE {})

\* The groups whose entries `bcpfs-perms apply` manages at the path.
ManagingGroupsOfPath(p) ==
    IF ~ IsServicePath(p) THEN {OuGroup(p[1])}
    ELSE {OuGroup(IF IsFacilityPath(p) THEN p[3] ELSE p[1]),
          OpsGroup(FacilityOf[p[2]])}

IsServiceRealpath(p) == p[1] = ServiceDir

\* The symlink `<org>/<ou>/<srv>` that `apply` creates: to the toplevel directory
\* of the service if the org unit is the facility that operates it, otherwise to
\* the org unit's directory there.
ServiceLinkTarget(ou, srv) ==
    IF ou = FacilityDirOf[FacilityOf[srv]]
    THEN <<ServiceDir, srv>>
    ELSE <<ServiceDir, srv, ou>>

\* Where the kernel ends up for `<org>/<p>` once these symlinks exist.
ResolveLogical(p) ==
    IF IsServicePath(p) THEN ServiceLinkTarget(p[1], p[2]) \o Rest(p, 2)
    ELSE <<OrgUnitDir>> \o p
=============================================================================
