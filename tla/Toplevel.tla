------------------------------ MODULE Toplevel ------------------------------
(***************************************************************************)
(* What `bcpfs-perms apply` and `bcpfs-perms check` share: the             *)
(* organization as it has been read from the configuration and the Unix    *)
(* groups, and the filter that decides which org unit uses which service.  *)
(*                                                                         *)
(* A configuration is a record of                                          *)
(*   services  a sequence of [name, facility, access],                     *)
(*   ous       a sequence of [name, facility, subdirs], where facility is  *)
(*             NoFacility unless it is one, and subdirs is a               *)
(*             sequence of [name, policy],                                 *)
(*   rules     the filter rules, a sequence of [action, services, ous]     *)
(*             with the sets of the names that match,                      *)
(*   symlinks  the explicit symlinks, a sequence of [path, target].        *)
(* Paths are relative to the root dir, and so are targets of links.        *)
(***************************************************************************)
EXTENDS Paths, SequencesExt

CONSTANTS
    OrgUnitDir, ServiceDir,   \* `orgUnitDir` and `serviceDir`
    NoFacility,               \* the facility of an org unit that is none
    StartsWith                \* the pairs <<ou, facility>> with the one name a
                              \* prefix of the other

\* Permissions of an entry.
X == {"x"}
RX == {"r", "x"}
RWX == {"r", "w", "x"}

\* The named group entries of an ACL and its mask, which limits what they allow.
Acl(named, mask) == [named |-> named, mask |-> mask]
NoAcl == Acl(<<>>, {})
Entries(gs, perms) == [g \in gs |-> perms]

OuGroup(ou) == <<"ou", ou.name>>
ServiceGroup(s) == <<"srv", s.name>>
OpsGroup(s) == <<"ops", s.facility>>
SuperGroup == <<"super">>
RootGroup == <<"root">>

IsFacility(ou) == ou.facility # NoFacility

SrvRoot == <<ServiceDir>>
OrgRoot == <<OrgUnitDir>>
ServicePath(s) == <<ServiceDir, s.name>>
SouPath(s, ou) == <<ServiceDir, s.name, ou.name>>
OuPath(ou) == <<OrgUnitDir, ou.name>>
LinkPath(ou, s) == <<OrgUnitDir, ou.name, s.name>>
SubdirPath(ou, d) == <<OrgUnitDir, ou.name, d.name>>

Parent(p) == Prefix(p, Len(p) - 1)

\* RegexpDecider: passes unless both names match.
Matches(rule, s, ou) == s.name \in rule.services /\ ou.name \in rule.ous

\* SameFacilityDecider, the last rule: it passes unless the org unit is a facility.
SameFacilityAccepts(s, ou) == IsFacility(ou) /\ <<ou.name, s.facility>> \in StartsWith

\* DecidersFilter: the first rule that does not pass decides, reject by default.
Accept(c, s, ou) ==
    LET i == SelectInSeq(c.rules, LAMBDA rule : Matches(rule, s, ou))
    IN IF i # 0 THEN c.rules[i].action = "accept" ELSE SameFacilityAccepts(s, ou)

Elements(seq) == {seq[i] : i \in DOMAIN seq}

\* parseOrgUnits(), parseServices() and DedupGroups() see to this, after the configuration file has
\* been validated: names are unique, access and policies are known.
NamesAreUnique(seq) == \A i, j \in DOMAIN seq : seq[i].name = seq[j].name => i = j
ConfigIsSound(c) ==
    /\ c.services \in Seq(Elements(c.services)) /\ NamesAreUnique(c.services)
    /\ \A s \in Elements(c.services) : s.access \in {"perService", "allOrgUnits"}
    /\ c.ous \in Seq(Elements(c.ous)) /\ NamesAreUnique(c.ous)
    /\ c.symlinks \in Seq(Elements(c.symlinks))
    /\ \A l \in Elements(c.symlinks) : l.path \in Seq(Elements(l.path)) /\ l.path # <<>>
    /\ \A ou \in Elements(c.ous) :
          /\ ou.subdirs \in Seq(Elements(ou.subdirs)) /\ NamesAreUnique(ou.subdirs)
          /\ \A d \in Elements(ou.subdirs) : d.policy \in {"group", "owner", "manager"}
=============================================================================
