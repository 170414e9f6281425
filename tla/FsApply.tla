------------------------------ MODULE FsApply -------------------------------
(***************************************************************************)
(* EnsurePermissions(): how `bcpfs-perms apply` creates the toplevel       *)
(* directories, their ACLs and the symlinks between them, step by step,    *)
(* while the configuration changes, services and org units come and go,    *)
(* users fill directories, sharing adds entries, and runs get killed.      *)
(*                                                                         *)
(* A run works off a fixed list of operations that follows from the        *)
(* configuration; the first error ends it.  A script that ensures a        *)
(* directory is two or three operations, for it may be killed between      *)
(* them.                                                                   *)
(***************************************************************************)
EXTENDS Fsck

CONSTANTS
    Config,        \* a sequence of configurations
    SharedWith,    \* the groups that sharing adds entries for
    Shareable,     \* the directories that may be exported
    Fillable,      \* the directories that users may put files into
    Acts,          \* what may happen besides: "configure", "fill", "share", "kill"
    MaxActs        \* how often something happens besides

\* The configurations are as Organization shows that they are (ConfigurationIsSound).
\* Sharing grants access to the groups of org units (FsGroupOrgUnit()), and the path of an
\* export is "too short" at the directory of a service.
ASSUME SoundAssumption ==
    /\ \A i \in DOMAIN Config : ConfigIsSound(Config[i])
    /\ \A g \in SharedWith : g[1] = "ou"
    /\ \A p \in Shareable : p[1] = ServiceDir => Len(p) > 2
    /\ MaxActs \in Nat

\* The naming conventions see to it, but nothing checks it.
ASSUME ConfigAssumption ==
    /\ OrgUnitDir # ServiceDir
    /\ \A i, j \in DOMAIN Config :
        LET dirPaths == {e.path : e \in ExpectedDirs(Config[i])}
            linkPaths == {e.path : e \in ExpectedLinks(Config[i])}
            explicit == {l.path : l \in Elements(Config[j].symlinks)}
        IN /\ dirPaths \cap ({e.path : e \in ExpectedLinks(Config[j])} \cup explicit) = {}
           /\ linkPaths \cap explicit = {}

VARIABLES
    dirs,          \* the toplevel directories that exist: path -> [group, acl, dfl]
    links,         \* the symlinks: path -> target
    filled,        \* the directories with files of users
    conf,          \* the configuration file, as an index of Config
    mine,          \* the configuration of the run
    pc,            \* the index of the operation that is due, 0 if there is no run
    last,          \* how the last run ended: "none", "ok", "failed", "killed"
    calm,          \* nothing has happened besides since the last run started
    acts           \* how often something has happened besides

fs == <<dirs, links, filled>>
vars == <<fs, conf, mine, pc, last, calm, acts>>

-----------------------------------------------------------------------------
\* The operations.

MkdirOp(p, group) == <<[kind |-> "mkdir", path |-> p, group |-> group]>>
ModifyOp(p, gs, perms, default) ==
    <<[kind |-> "modify", path |-> p, groups |-> gs, perms |-> perms, default |-> default]>>
RemoveOp(p, gs) == <<[kind |-> "remove", path |-> p, groups |-> gs]>>

\* A bug: the entries are built from scratch.
ServiceOpsFromScratch(s) ==
    LET own == {ServiceGroup(s), OpsGroup(s)}
        gs == IF s.access = "allOrgUnits" THEN {SuperGroup} ELSE own
    IN MkdirOp(ServicePath(s), ServiceGroup(s))
       \o RemoveOp(ServicePath(s), own \cup {SuperGroup})
       \o ModifyOp(ServicePath(s), gs, RX, RX)

\* ensureServiceSh or ensureServiceAllOrgUnitsSh.
ServiceOps(s) ==
    LET own == {ServiceGroup(s), OpsGroup(s)}
        gs == IF s.access = "allOrgUnits" THEN {SuperGroup} ELSE own
    IN MkdirOp(ServicePath(s), ServiceGroup(s))
       \o ModifyOp(ServicePath(s), gs, RX, RX)
       \o RemoveOp(ServicePath(s), (own \cup {SuperGroup}) \ gs)

\* A bug: the inherited entries stay.
SouOpsInherited(s, ou) ==
    MkdirOp(SouPath(s, ou), OuGroup(ou))
    \o ModifyOp(SouPath(s, ou), {OuGroup(ou), OpsGroup(s)}, RWX, RWX)

\* ensureSOUSh: the mkdir passes the default entries of the service on.
SouOps(s, ou) ==
    MkdirOp(SouPath(s, ou), OuGroup(ou))
    \o ModifyOp(SouPath(s, ou), {OuGroup(ou), OpsGroup(s)}, RWX, RWX)
    \o RemoveOp(SouPath(s, ou), {ServiceGroup(s), SuperGroup})

\* A loop over a slice.
Each(seq, Ops(_)) == FlattenSeq([i \in DOMAIN seq |-> Ops(seq[i])])

\* ensureSrvSubdirs().
AcceptedOus(c, s) == {ou \in Elements(c.ous) : Accept(c, s, ou)}
SrvSubdirsOps(c, s) ==
    Each(c.ous, LAMBDA ou : IF ou \in AcceptedOus(c, s) THEN SouOps(s, ou) ELSE <<>>)
    \o <<[kind |-> "rmdirs", path |-> ServicePath(s),
          expected |-> {SouPath(s, ou) : ou \in AcceptedOus(c, s)}]>>

\* ensureOrgUnitSh, and ensureOrgUnit{Group,Owner,Manager}SubdirSh.
OuOps(ou) ==
    MkdirOp(OuPath(ou), OuGroup(ou)) \o ModifyOp(OuPath(ou), {OuGroup(ou)}, RX, RX)
SubdirOps(ou, d) ==
    MkdirOp(SubdirPath(ou, d), OuGroup(ou))
    \o ModifyOp(SubdirPath(ou, d), {OuGroup(ou)},
                IF d.policy = "manager" THEN RX ELSE RWX,
                IF d.policy = "group" THEN RWX ELSE RX)

\* ensureOUSLn(): the dir of the service itself for the facility that operates it.
LinkOp(p, target) == <<[kind |-> "link", path |-> p, target |-> target]>>
ServiceIsOfFacility(ou, s) == IsFacility(ou) /\ s.facility = ou.facility
OuLinkOps(ou, s) ==
    LinkOp(LinkPath(ou, s),
           IF ServiceIsOfFacility(ou, s) THEN ServicePath(s) ELSE SouPath(s, ou))

\* ensureOULinks().
AcceptedServices(c, ou) == {s \in Elements(c.services) : Accept(c, s, ou)}
OuLinksOps(c, ou) ==
    Each(c.services, LAMBDA s : IF s \in AcceptedServices(c, ou) THEN OuLinkOps(ou, s) ELSE <<>>)
    \o <<[kind |-> "rmlinks", path |-> OuPath(ou),
          expected |-> {LinkPath(ou, s) : s \in AcceptedServices(c, ou)}]>>

\* One part of EnsurePermissions() after the other.
ServiceDirsOps(c) == Each(c.services, ServiceOps)
ServiceOrgUnitDirsOps(c) == Each(c.services, LAMBDA s : SrvSubdirsOps(c, s))
OrgUnitDirsOps(c) == Each(c.ous, OuOps)
OrgUnitServiceLinksOps(c) == Each(c.ous, LAMBDA ou : OuLinksOps(c, ou))
OrgUnitSubdirsOps(c) ==
    Each(c.ous, LAMBDA ou : Each(ou.subdirs, LAMBDA d : SubdirOps(ou, d)))
SymlinksOps(c) == Each(c.symlinks, LAMBDA l : LinkOp(l.path, l.target))

\* EnsurePermissions().
ProgramOf(c) ==
    MkdirOp(SrvRoot, RootGroup) \o ServiceDirsOps(c) \o ServiceOrgUnitDirsOps(c)
    \o MkdirOp(OrgRoot, RootGroup) \o OrgUnitDirsOps(c) \o OrgUnitServiceLinksOps(c)
    \o OrgUnitSubdirsOps(c) \o SymlinksOps(c)

Program == [i \in DOMAIN Config |-> ProgramOf(Config[i])]

-----------------------------------------------------------------------------
Init ==
    /\ dirs = <<>> /\ links = <<>> /\ filled = {}
    /\ conf \in DOMAIN Config /\ mine = conf
    /\ pc = 0 /\ last = "none" /\ calm = FALSE /\ acts = 0

StartRun ==
    /\ pc = 0
    /\ pc' = 1 /\ mine' = conf /\ calm' = TRUE
    /\ UNCHANGED <<fs, conf, last, acts>>

End(result) == pc' = 0 /\ last' = result

Op == Program[mine][pc]
IsDue(kind) ==
    /\ pc \in 1 .. Len(Program[mine]) /\ Op.kind = kind
    /\ UNCHANGED <<filled, conf, mine, calm, acts>>

Done == pc' = pc + 1 /\ UNCHANGED last
Put(f, x, y) == [z \in DOMAIN f \cup {x} |-> IF z = x THEN y ELSE f[z]]
Without(f, xs) == [z \in DOMAIN f \ xs |-> f[z]]

\* A new directory inherits the default ACL of its parent.  An existing one only gets
\* its owning group.
MakeDir ==
    /\ IsDue("mkdir")
    /\ LET inherited == IF Len(Op.path) = 1 THEN NoAcl ELSE dirs[Parent(Op.path)].dfl
           dir == IF Op.path \in DOMAIN dirs
                  THEN [dirs[Op.path] EXCEPT !.group = Op.group]
                  ELSE [group |-> Op.group, acl |-> inherited, dfl |-> inherited]
       IN dirs' = Put(dirs, Op.path, dir)
    /\ Done /\ UNCHANGED links

\* A bug: setfacl --set-file.
Replaced(acl, gs, perms) == Acl(Entries(gs, perms), perms)

\* setfacl -M with a mask: entries of other named groups stay.
Modified(acl, gs, perms) ==
    Acl([g \in DOMAIN acl.named \cup gs |-> IF g \in gs THEN perms ELSE acl.named[g]], perms)
ModifyAcl ==
    /\ IsDue("modify")
    /\ dirs' = [dirs EXCEPT ![Op.path].acl = Modified(@, Op.groups, Op.perms),
                            ![Op.path].dfl = Modified(@, Op.groups, Op.default)]
    /\ Done /\ UNCHANGED links

\* setfacl makes the mask the union of the entries, unless it is told the mask.
Unmasked(named) == Acl(named, UNION {named[g] : g \in DOMAIN named})

\* setfacl -X.
RemoveEntries ==
    /\ IsDue("remove")
    /\ dirs' = [dirs EXCEPT ![Op.path].acl = Unmasked(Without(@.named, Op.groups)),
                            ![Op.path].dfl = Unmasked(Without(@.named, Op.groups))]
    /\ Done /\ UNCHANGED links

ChildrenIn(f, p) == {q \in DOMAIN f : Len(q) = Len(p) + 1 /\ Parent(q) = p}

\* A bug: os.RemoveAll().
RemoveAllUnexpected ==
    /\ IsDue("rmdirs")
    /\ dirs' = Without(dirs, ChildrenIn(dirs, Op.path) \ Op.expected)
    /\ Done /\ UNCHANGED links

\* ENOTEMPTY.
NotEmpty == filled \cup {Parent(q) : q \in DOMAIN dirs \cup DOMAIN links}

\* rmUnexpectedSubdirs(): a directory with files is kept.  It looks at directories only.
RemoveUnexpectedSubdirs ==
    /\ IsDue("rmdirs")
    /\ dirs' = Without(dirs, ChildrenIn(dirs, Op.path) \ (Op.expected \cup NotEmpty))
    /\ Done /\ UNCHANGED links

\* A bug: a link that is right is an error, too.
CreateLink ==
    /\ IsDue("link")
    /\ IF Op.path \notin DOMAIN links \cup DOMAIN dirs /\ Parent(Op.path) \in DOMAIN dirs
       THEN links' = Put(links, Op.path, Op.target) /\ Done
       ELSE End("failed") /\ UNCHANGED links
    /\ UNCHANGED dirs

\* ensureOUSLn(), ensureSymlink(): os.Symlink() fails if there is a file already, and
\* where there is no directory for it.
EnsureLink ==
    /\ IsDue("link")
    /\ IF Op.path \in DOMAIN links /\ links[Op.path] = Op.target THEN Done /\ UNCHANGED links
       ELSE IF Op.path \notin DOMAIN links \cup DOMAIN dirs /\ Parent(Op.path) \in DOMAIN dirs
       THEN links' = Put(links, Op.path, Op.target) /\ Done
       ELSE End("failed") /\ UNCHANGED links
    /\ UNCHANGED dirs

\* A bug: only the links that the run has created are expected.
RemoveAllLinks ==
    /\ IsDue("rmlinks")
    /\ links' = Without(links, ChildrenIn(links, Op.path))
    /\ Done /\ UNCHANGED dirs

\* rmUnexpectedLinks(): explicit symlinks, too.
RemoveUnexpectedLinks ==
    /\ IsDue("rmlinks")
    /\ links' = Without(links, ChildrenIn(links, Op.path) \ Op.expected)
    /\ Done /\ UNCHANGED dirs

Finish ==
    /\ pc = Len(Program[mine]) + 1
    /\ End("ok")
    /\ UNCHANGED <<fs, conf, mine, calm, acts>>

RunStep ==
    \/ MakeDir \/ ModifyAcl \/ RemoveEntries \/ RemoveUnexpectedSubdirs
    \/ EnsureLink \/ RemoveUnexpectedLinks \/ Finish

-----------------------------------------------------------------------------
\* What happens besides.

Besides(act) == act \in Acts /\ acts < MaxActs /\ acts' = acts + 1 /\ calm' = FALSE

Configure ==
    /\ Besides("configure")
    /\ conf' \in DOMAIN Config \ {conf}
    /\ UNCHANGED <<fs, mine, pc, last>>

\* Users put the first file into a directory, or remove the last one.
Fill(p) ==
    /\ Besides("fill")
    /\ p \in DOMAIN dirs
    /\ filled' = IF p \in filled THEN filled \ {p} ELSE filled \cup {p}
    /\ UNCHANGED <<dirs, links, conf, mine, pc, last>>

\* `apply --sharing` grants a group that does not manage a directory access to it or to
\* something below it, by setfacl -n, which leaves the mask alone.
MayShare(p, g) == Len(p) > 1 /\ \A name \in Elements(p) : g # OuGroup([name |-> name])
ShareDir(p, g) ==
    /\ Besides("share")
    /\ pc = 0 /\ p \in DOMAIN dirs /\ MayShare(p, g)
    /\ \/ dirs' = [dirs EXCEPT ![p].acl.named = Put(@, g, X)]
       \/ \E perms \in {RX, RWX} :
              /\ p \in Shareable
              /\ dirs' = [dirs EXCEPT ![p].acl.named = Put(@, g, perms),
                                      ![p].dfl.named = Put(@, g, perms)]
    /\ UNCHANGED <<links, filled, conf, mine, pc, last>>

Kill ==
    /\ pc # 0 /\ Besides("kill")
    /\ End("killed")
    /\ UNCHANGED <<fs, conf, mine>>

Next ==
    \/ StartRun \/ RunStep
    \/ Configure \/ Kill
    \/ \E p \in Fillable : Fill(p)
    \/ \E p \in DOMAIN dirs, g \in SharedWith : ShareDir(p, g)

\* A run that has started goes on to its end, and cron starts another one.
Spec == Init /\ [][Next]_vars /\ WF_vars(RunStep) /\ WF_vars(StartRun)

-----------------------------------------------------------------------------
\* The filesystem is a tree, in which no files of users get lost.
TypeOK ==
    /\ \A p \in DOMAIN dirs \cup DOMAIN links : Len(p) = 1 \/ Parent(p) \in DOMAIN dirs
    /\ DOMAIN links \cap DOMAIN dirs = {}
    /\ filled \subseteq DOMAIN dirs
    /\ conf \in DOMAIN Config /\ mine \in DOMAIN Config
    /\ pc \in 0 .. Len(Program[mine]) + 1
    /\ last \in {"none", "ok", "failed", "killed"}
    /\ calm \in BOOLEAN /\ acts \in 0 .. MaxActs

\* The last run has succeeded, and nothing has happened since it started.
Settled == pc = 0 /\ last = "ok" /\ calm

\* What apply leaves for the administrator to remove: the directories of services and
\* org units that are gone, with all in them, dropped subdirs, dropped directories of
\* services in which there are files, and explicit symlinks outside of org units.
LeftToAdmin ==
    LET services == {s.name : s \in Elements(Config[conf].services)}
        ous == {ou.name : ou \in Elements(Config[conf].ous)}
    IN {p \in DOMAIN dirs \cup DOMAIN links :
          \/ p[1] = ServiceDir /\ Len(p) > 1 /\ p[2] \notin services
          \/ p[1] = OrgUnitDir /\ Len(p) > 1 /\ p[2] \notin ous
          \/ p[1] = OrgUnitDir /\ Len(p) = 3 /\ p \in DOMAIN dirs
          \/ p \in NotEmpty
          \/ p[1] = ServiceDir /\ p \in DOMAIN links}

\* `check` "independently verif[ies] the result" of EnsurePermissions(): after a run that
\* nothing has disturbed, it finds nothing wrong but what apply does not remove, whatever
\* the configurations before, sharing, and the runs that were killed have left.
CheckAcceptsApplied ==
    Settled =>
        LET wrong == Failures(Config[conf], dirs, links)
        IN wrong \subseteq Unexpected(Config[conf], dirs, links) \cap LeftToAdmin

\* "Use `setfacl -M`, so that other named group entries [...] are preserved" (apply-sh.go):
\* a run never touches the entries of the groups that a directory is shared with.
EntriesStay(acl, acl2, g) ==
    g \in DOMAIN acl.named => g \in DOMAIN acl2.named /\ acl2.named[g] = acl.named[g]
SharedEntriesStay ==
    [][RunStep =>
        \A p \in DOMAIN dirs \cap DOMAIN dirs' : \A g \in {h \in SharedWith : MayShare(p, h)} :
            /\ EntriesStay(dirs[p].acl, dirs'[p].acl, g)
            /\ EntriesStay(dirs[p].dfl, dirs'[p].dfl, g)]_vars

\* What the entry of a group allows.
Effective(acl, g) == IF g \in DOMAIN acl.named THEN acl.named[g] \cap acl.mask ELSE {}

\* A run does not interrupt access (ensureServiceSh, ensureSOUSh: first -M, then -X): a
\* group that is to have access to a directory and has it never loses it meanwhile, for
\* the directory and for what is created in it.
AccessStays ==
    [][RunStep =>
        \A e \in {x \in ExpectedDirs(Config[mine]) : x.path \in DOMAIN dirs} :
            /\ e.path \in DOMAIN dirs'
            /\ \A g \in DOMAIN e.acl.named :
                 /\ e.acl.named[g] \subseteq Effective(dirs[e.path].acl, g) =>
                       e.acl.named[g] \subseteq Effective(dirs'[e.path].acl, g)
                 /\ e.dfl.named[g] \subseteq Effective(dirs[e.path].dfl, g) =>
                       e.dfl.named[g] \subseteq Effective(dirs'[e.path].dfl, g)]_vars

\* "It leaves existing links alone" (EnsureOrgUnitServiceLinks()): a run never removes a
\* service link that is right, although it removes what it does not expect right after
\* it has ensured the links of an org unit.
ServiceLinksStay ==
    [][RunStep =>
        \A l \in ExpectedLinks(Config[mine]) : LinkOk(l, links) => LinkOk(l, links')]_vars

\* When nothing happens besides any more, runs end, and at last they succeed.
RunsConverge == <>[](pc = 0 => Settled)
=============================================================================
