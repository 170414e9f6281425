---------------------------- MODULE Organization ----------------------------
(***************************************************************************)
(* How `bcpfs-perms` starts: the config file is read and validated, the    *)
(* Unix groups are listed, selected and freed from duplicates, and both    *)
(* are combined into the organization, on which `apply` and `check` go on, *)
(* and which `describe` prints.                                            *)
(*                                                                         *)
(* The result is composed with what uses it: Toplevel, which decides by    *)
(* the compiled filter which org unit uses which service, and Bcpfs, by    *)
(* which `apply --sharing` finds the managing groups of a path on its own. *)
(*                                                                         *)
(* Names are sequences of syllables, so that prefixes and suffixes are     *)
(* what they are in the code; "" is <<>>.  HCL is taken as decoded: a file *)
(* is a record with the blocks of each kind in sequences.                  *)
(***************************************************************************)
EXTENDS Naturals, Sequences, FilterPatterns, ListOps

CONSTANTS
    Syllables,    \* what names are made of
    Files,        \* config files
    Databases,    \* what `getent group` prints: sequences of [name, gid, wellFormed]
    NameOrder,    \* all names of groups, as they are sorted
    NoFacility    \* the facility of an org unit that is none

Name == Seq(Syllables)
Pattern == Seq([lit : Name, open : BOOLEAN])

\* A config file: the attributes of a block and the blocks in it.
ConfigFile ==
    [absolute : BOOLEAN,
     serviceDir : Name, orgUnitDir : Name, superGroup : Name, orgUnitPrefix : Name,
     servicePrefix : Name, opsSuffix : Name, facilitySuffix : Name,
     facilities : Seq([name : Name, services : Seq(Name), access : STRING]),
     orgUnits : Seq([name : Name, extraDirs : Seq(Name),
                     subdirs : Seq([name : Name, policy : STRING])]),
     filter : Seq([action : STRING, service : Pattern, services : Seq(Pattern),
                   orgUnit : Pattern, orgUnits : Seq(Pattern)]),
     symlinks : Seq([path : Name, target : Name]),
     sharing : Seq([policies : Seq(STRING), imports : Seq(STRING),
                    exports : Seq([acl : Seq([group : Name, perms : SUBSET STRING])])])]

ASSUME DatabasesAssumption ==
    \A db \in Databases : db \in Seq([name : Name, gid : Nat, wellFormed : BOOLEAN])

ASSUME SyllablesAssumption == {"_", "-", "ops", "facility"} \subseteq Syllables

ASSUME FilesAssumption == Files \subseteq ConfigFile

ASSUME NoFacilityAssumption == NoFacility \notin Name

ASSUME NameOrderAssumption ==
    /\ NameOrder \in Seq(Name)
    /\ \A db \in Databases : \A i \in DOMAIN db : db[i].name \in Range(NameOrder)

VARIABLES
    pc,           \* "load", "getent", "select", "dedup", "sort", "new", "filter",
                  \* "ready", "described"; "conflict", "fatal"
    command,      \* what is run
    file, lines,  \* the config file and the group database
    cfg,          \* the config with its defaults
    gs,           \* the groups
    next, res,    \* the loops over groups: which one is next, and the result so far
    byName, byGid,
    org,          \* [services, ous, facilities]
    unconf        \* the services without a facility

inputs == <<command, file, lines>>
dedup == <<next, byName, byGid, res>>
vars == <<pc, inputs, cfg, gs, dedup, org, unconf>>

\* `check` goes on as `apply` does, `describe groups` as `describe org`.
Commands == {"apply", "describe", "describe --strict"}

NoOrg == [services |-> <<>>, ous |-> <<>>, facilities |-> <<>>]
None == [x \in {} |-> x]

Fatal == pc' = "fatal"

Init ==
    /\ pc = "load"
    /\ command \in Commands /\ file \in Files /\ lines \in Databases
    /\ cfg = file
    /\ gs = <<>>
    /\ next = 1 /\ byName = None /\ byGid = None /\ res = <<>>
    /\ org = NoOrg /\ unconf = {}

-----------------------------------------------------------------------------
\* Parse() and MustLoadConfig().

ValidFacility(f) == f.access \in {"perService", "allOrgUnits", ""}

ValidOrgUnit(ou) == \A i \in DOMAIN ou.subdirs : ou.subdirs[i].policy \in {"owner", "group", "manager"}

\* Either one pattern or a list of them.  A pattern is empty if there is none.
ValidPatterns(one, list) == (one = <<>>) # (list = <<>>)

ValidRule(r) ==
    /\ r.action \in {"accept", "reject"}
    /\ ValidPatterns(r.service, r.services)
    /\ ValidPatterns(r.orgUnit, r.orgUnits)

ValidSymlink(l) == l.path # <<>> /\ l.target # <<>>

\* `group:[a-z0-9-]+:[r-][w-][x-]`
ValidAce(ace) == ace.group # <<>> /\ \A i \in DOMAIN ace.group : ace.group[i] # "_"

ValidSharing(s) ==
    /\ \A i \in DOMAIN s.policies : s.policies[i] \in {"allow", "deny"}
    /\ \A i \in DOMAIN s.exports : \A j \in DOMAIN s.exports[i].acl : ValidAce(s.exports[i].acl[j])
    /\ \A i \in DOMAIN s.imports : s.imports[i] \in {"accept", "reject"}

All(s, Valid(_)) == \A i \in DOMAIN s : Valid(s[i])

Valid(f) ==
    /\ All(f.facilities, ValidFacility) /\ All(f.orgUnits, ValidOrgUnit)
    /\ All(f.filter, ValidRule) /\ All(f.symlinks, ValidSymlink)
    /\ Len(f.sharing) <= 1 /\ All(f.sharing, ValidSharing)
    /\ f.absolute
    /\ \A name \in {f.orgUnitPrefix, f.servicePrefix, f.serviceDir, f.orgUnitDir} : name # <<>>

\* ValidateFilterRule(): what is left is two lists.
ListOf(one, list) == IF one = <<>> THEN list ELSE <<one>>
RuleOf(r) ==
    [action |-> r.action,
     services |-> ListOf(r.service, r.services), orgUnits |-> ListOf(r.orgUnit, r.orgUnits)]

Default(name, default) == IF name = <<>> THEN <<default>> ELSE name

Configured(f) ==
    [f EXCEPT !.opsSuffix = Default(@, "ops"), !.facilitySuffix = Default(@, "facility"),
              !.filter = Mapped(@, RuleOf)]

LoadConfig ==
    /\ pc = "load"
    /\ IF Valid(file) THEN pc' = "getent" /\ cfg' = Configured(file)
                      ELSE Fatal /\ UNCHANGED cfg
    /\ UNCHANGED <<inputs, gs, dedup, org, unconf>>

-----------------------------------------------------------------------------
\* grp.Groups(), SelectGroups(), DedupGroups() and the sort.

GroupOf(line) == [name |-> line.name, gid |-> line.gid]

GetGroups ==
    /\ pc = "getent"
    /\ IF \A i \in DOMAIN lines : lines[i].wellFormed
       THEN pc' = "select" /\ gs' = Mapped(lines, GroupOf)
       ELSE Fatal /\ UNCHANGED gs
    /\ UNCHANGED <<inputs, cfg, dedup, org, unconf>>

OrgUnitGroupName(name) == cfg.orgUnitPrefix \o <<"_">> \o name
ServiceGroupName(name) == cfg.servicePrefix \o <<"_">> \o name
FacilityDirName(name) == name \o <<"-">> \o cfg.facilitySuffix
OpsName(name) == name \o <<"-">> \o cfg.opsSuffix

IsSelected(g) ==
    \/ g.name = cfg.superGroup
    \/ IsPrefix(OrgUnitGroupName(<<>>), g.name)
    \/ IsPrefix(ServiceGroupName(<<>>), g.name)

SelectGroup ==
    /\ pc = "select" /\ next <= Len(gs)
    /\ res' = IF IsSelected(gs[next]) THEN Append(res, gs[next]) ELSE res
    /\ next' = next + 1
    /\ UNCHANGED <<pc, inputs, cfg, gs, byName, byGid, org, unconf>>

SelectDone ==
    /\ pc = "select" /\ next > Len(gs)
    /\ pc' = "dedup"
    /\ gs' = res /\ res' = <<>> /\ next' = 1
    /\ UNCHANGED <<inputs, cfg, byName, byGid, org, unconf>>

Put(f, k, v) == [x \in DOMAIN f \cup {k} |-> IF x = k THEN v ELSE f[x]]
Seen(f, k) == IF k \in DOMAIN f THEN {f[k]} ELSE {}

\* A bug: gids are not looked at.
SeenByName(g) == Seen(byName, g.name)

SeenGroups(g) == Seen(byName, g.name) \cup Seen(byGid, g.gid)

\* isDuplicate(): a group that has been seen, by its name or else by its gid, is either the
\* same or in conflict.
DedupGroup ==
    /\ pc = "dedup" /\ next <= Len(gs)
    /\ LET g == gs[next]
       IN IF SeenGroups(g) = {}
          THEN /\ byName' = Put(byName, g.name, g) /\ byGid' = Put(byGid, g.gid, g)
               /\ res' = Append(res, g)
               /\ next' = next + 1 /\ UNCHANGED pc
          ELSE /\ IF SeenGroups(g) = {g} THEN next' = next + 1 /\ UNCHANGED pc
                                         ELSE pc' = "conflict" /\ UNCHANGED next
               /\ UNCHANGED <<byName, byGid, res>>
    /\ UNCHANGED <<inputs, cfg, gs, org, unconf>>

DedupDone ==
    /\ pc = "dedup" /\ next > Len(gs)
    /\ pc' = "sort" /\ gs' = res
    /\ UNCHANGED <<inputs, cfg, dedup, org, unconf>>

Rank(name) == CHOOSE i \in DOMAIN NameOrder : NameOrder[i] = name

\* The groups that a stable sort by name puts before the i-th one.
Before(i) ==
    {j \in DOMAIN gs : \/ Rank(gs[j].name) < Rank(gs[i].name)
                       \/ gs[j].name = gs[i].name /\ j < i}

SortGroups ==
    /\ pc = "sort"
    /\ gs' = [k \in DOMAIN gs |->
                gs[CHOOSE i \in DOMAIN gs : Cardinality(Before(i)) = k - 1]]
    /\ pc' = "new"
    /\ UNCHANGED <<inputs, cfg, dedup, org, unconf>>

-----------------------------------------------------------------------------
\* bcp.New().

HasGroup(name) == \E i \in DOMAIN gs : gs[i].name = name
GetByName(name) == CHOOSE g \in Range(gs) : g.name = name

\* The groups with a prefix, without it.
NamesWith(prefix) ==
    LET StripPrefix(g) == From(g.name, Len(prefix))
    IN Mapped(Passing(gs, LAMBDA g : IsPrefix(prefix, g.name)), StripPrefix)

OrgUnitNames == NamesWith(OrgUnitGroupName(<<>>))

\* Groups with the suffix of ops groups are no services.
ServiceNames == Passing(NamesWith(ServiceGroupName(<<>>)),
                          LAMBDA name : ~ IsSuffix(OpsName(<<>>), name))

IsFacilityDir(name) == IsSuffix(FacilityDirName(<<>>), name)
FacilityOfDir(name) == SubSeq(name, 1, Len(name) - Len(FacilityDirName(<<>>)))
FacilityNames == Mapped(Passing(OrgUnitNames, IsFacilityDir), FacilityOfDir)

\* Several blocks may be about one thing.  The last one counts.
LastSuch(s, Test(_)) ==
    LET found == {i \in DOMAIN s : Test(s[i])}
    IN IF found = {} THEN 0 ELSE CHOOSE i \in found : \A j \in found : j <= i

Lists(s, x) == \E i \in DOMAIN s : s[i] = x

FacilityBySrv(name) == LastSuch(cfg.facilities, LAMBDA f : Lists(f.services, name))

\* parseOrgUnits(): `extraDirs` are `subdirs` with the policy group.
DirsOf(block) ==
    block.subdirs \o [i \in DOMAIN block.extraDirs |->
                        [name |-> block.extraDirs[i], policy |-> "group"]]

\* A bug: `extraDirs` are not looked at.
DuplicateSubdirs(block) ==
    LET dirs == block.subdirs
    IN \E i, j \in DOMAIN dirs : i # j /\ dirs[i].name = dirs[j].name

DuplicateDirs(block) ==
    LET dirs == DirsOf(block)
    IN \E i, j \in DOMAIN dirs : i # j /\ dirs[i].name = dirs[j].name

SubdirsOf(ou) ==
    LET i == LastSuch(cfg.orgUnits, LAMBDA block : block.name = ou)
    IN IF i = 0 THEN <<>> ELSE DirsOf(cfg.orgUnits[i])

OrgUnitOf(ou) ==
    [name |-> ou, subdirs |-> SubdirsOf(ou),
     facility |-> IF IsFacilityDir(ou) THEN FacilityOfDir(ou) ELSE NoFacility,
     group |-> GetByName(OrgUnitGroupName(ou))]

\* parseServices().
HasFacility(srv) == FacilityBySrv(srv) # 0

AccessOf(f) == IF f.access = "" THEN "perService" ELSE f.access

GroupsAreMissing(srv) ==
    LET f == cfg.facilities[FacilityBySrv(srv)]
    IN \/ cfg.superGroup = <<>> /\ AccessOf(f) = "allOrgUnits"
       \/ cfg.superGroup # <<>> /\ ~ HasGroup(cfg.superGroup)
       \/ ~ HasGroup(ServiceGroupName(OpsName(f.name)))

ServiceOf(srv) ==
    LET f == cfg.facilities[FacilityBySrv(srv)]
    IN [name |-> srv, facility |-> f.name, access |-> AccessOf(f),
        group |-> GetByName(ServiceGroupName(srv)),
        opsGroup |-> GetByName(ServiceGroupName(OpsName(f.name)))]

\* The group of each org unit and each service exists, as it is from there that they are
\* known.
NewFails ==
    \/ \E i \in DOMAIN cfg.orgUnits : DuplicateDirs(cfg.orgUnits[i])
    \/ \E i \in DOMAIN cfg.facilities : ~ Lists(FacilityNames, cfg.facilities[i].name)
    \/ \E i \in DOMAIN ServiceNames :
          HasFacility(ServiceNames[i]) /\ GroupsAreMissing(ServiceNames[i])

\* Messages about services that belong to no facility.
UnconfServices == {name \in Range(ServiceNames) : ~ HasFacility(name)}

\* A bug: the loop ends at a service that belongs to no facility (`break` for `continue`).
NewOrgUpToUnconfigured ==
    LET first == SelectInSeq(ServiceNames, LAMBDA name : ~ HasFacility(name))
        names == IF first = 0 THEN ServiceNames ELSE SubSeq(ServiceNames, 1, first - 1)
    IN [services |-> Mapped(names, ServiceOf),
        ous |-> Mapped(OrgUnitNames, OrgUnitOf), facilities |-> FacilityNames]

NewOrg ==
    [services |-> Mapped(Passing(ServiceNames, HasFacility), ServiceOf),
     ous |-> Mapped(OrgUnitNames, OrgUnitOf), facilities |-> FacilityNames]

New ==
    /\ pc = "new"
    /\ IF NewFails THEN Fatal /\ UNCHANGED <<org, unconf>>
       ELSE /\ pc' = "filter"
            /\ org' = NewOrg
            /\ unconf' = UnconfServices
    /\ UNCHANGED <<inputs, cfg, gs, dedup>>

\* MustCompileFilter().
FilterCompiles ==
    \A i \in DOMAIN cfg.filter :
        Compiles(cfg.filter[i].services) /\ Compiles(cfg.filter[i].orgUnits)

\* cmdApply() and cmdCheck(): services without a facility are fatal.
CompileFilter ==
    /\ pc = "filter" /\ command = "apply"
    /\ IF unconf = {} /\ FilterCompiles THEN pc' = "ready" ELSE Fatal
    /\ UNCHANGED <<inputs, cfg, gs, dedup, org, unconf>>

\* cmdDescribeGroups() and cmdDescribeOrg(): they are fatal with `--strict` only.
Describe ==
    /\ pc = "filter" /\ command # "apply"
    /\ IF command = "describe --strict" /\ unconf # {} THEN Fatal ELSE pc' = "described"
    /\ UNCHANGED <<inputs, cfg, gs, dedup, org, unconf>>

Next ==
    \/ LoadConfig \/ GetGroups \/ SelectGroup \/ SelectDone \/ DedupGroup \/ DedupDone \/ SortGroups
    \/ New \/ CompileFilter \/ Describe

Spec == Init /\ [][Next]_vars /\ WF_vars(Next)

-----------------------------------------------------------------------------
\* What uses the organization.

ServicesOf(o) == Range(o.services)
OusOf(o) == Range(o.ous)

\* SameFacilityDecider: strings.HasPrefix(ou.Name, s.Facility).
NameIsPrefix ==
    {p \in {o.name : o \in OusOf(org)} \X {s.facility : s \in ServicesOf(org)} :
        IsPrefix(p[2], p[1])}

\* The configuration as `apply` and `check` use it.
CompiledRule(rule) ==
    [action |-> rule.action,
     services |-> {name \in {s.name : s \in ServicesOf(org)} : MatchesPatterns(rule.services, name)},
     ous |-> {name \in {o.name : o \in OusOf(org)} : MatchesPatterns(rule.orgUnits, name)}]
Compiled == [services |-> org.services, ous |-> org.ous, rules |-> Mapped(cfg.filter, CompiledRule),
             symlinks |-> cfg.symlinks]

Apply == INSTANCE Toplevel WITH
    OrgUnitDir <- cfg.orgUnitDir, ServiceDir <- cfg.serviceDir, StartsWith <- NameIsPrefix

\* NewBcpfs(): built from the configuration alone, with suffixes of its own.
ListedServices == UNION {Range(f.services) : f \in Range(cfg.facilities)}

\* A bug: the first facility that lists a service has it.
FirstFacilityOf(srv) ==
    cfg.facilities[SelectInSeq(cfg.facilities, LAMBDA f : Lists(f.services, srv))].name

FacilityOfService(srv) ==
    cfg.facilities[LastSuch(cfg.facilities, LAMBDA f : Lists(f.services, srv))].name

Sharing == INSTANCE Bcpfs WITH
    OrgUnitDir <- cfg.orgUnitDir, ServiceDir <- cfg.serviceDir,
    FacilityOf <- [srv \in ListedServices |-> FacilityOfService(srv)],
    FacilityDirOf <- [f \in {g.name : g \in Range(cfg.facilities)} |-> f \o <<"-", "facility">>]

\* FsGroups(): the names of groups.
FsGroup(g) == IF g[1] = "ou" THEN OrgUnitGroupName(g[2])
              ELSE ServiceGroupName(g[2] \o <<"-", "ops">>)
FsGroups(logical) == {FsGroup(g) : g \in Sharing!ManagingGroupsOfPath(logical)}

-----------------------------------------------------------------------------
\* The groups of all databases.
AllGroups == UNION {{GroupOf(db[i]) : i \in DOMAIN db} : db \in Databases}

TypeOK ==
    /\ pc \in {"load", "getent", "select", "dedup", "sort", "new", "filter", "ready",
              "described", "conflict", "fatal"}
    /\ command \in Commands
    /\ file \in Files /\ lines \in Databases
    /\ next \in Nat \ {0}
    /\ res \in Seq(AllGroups)
    /\ pc \in {"select", "dedup", "conflict", "sort"} => gs \in Seq(AllGroups)

\* Groups that are not the same, and of which only one can be looked up.
Conflict(g, h) == g # h /\ (g.name = h.name \/ g.gid = h.gid)

\* The groups of the database that matter to the configuration.
Selected == {g \in {GroupOf(line) : line \in Range(lines)} : IsSelected(g)}

\* DedupGroups(): "returns an error if the input contains conflicting duplicates", in any
\* order and with any number of others between them; if not, it loses none of the groups
\* and leaves none twice.
DedupIsRight ==
    /\ pc = "conflict" => \E g, h \in Selected : Conflict(g, h)
    /\ pc = "sort" =>
          /\ \A g, h \in Selected : ~ Conflict(g, h)
          /\ Range(gs) = Selected
          /\ \A i, j \in DOMAIN gs : gs[i] = gs[j] => i = j

\* The groups of services, and their names.
ServiceGroups ==
    {g \in Selected : IsPrefix(ServiceGroupName(<<>>), g.name) /\ ~ IsSuffix(OpsName(<<>>), g.name)}
ServiceNameOf(g) == From(g.name, Len(ServiceGroupName(<<>>)))

\* A service has all that it has from one block, of which the groups exist.
IsServiceOf(s, f) ==
    /\ Lists(f.services, s.name)
    /\ s.facility = f.name /\ s.access = AccessOf(f)
    /\ s.opsGroup \in Selected /\ s.opsGroup.name = ServiceGroupName(OpsName(f.name))
    /\ \E h \in Selected : h.name = OrgUnitGroupName(FacilityDirName(f.name))

\* "The structure of the organization is determined from the Unix groups and a configuration"
\* (bcp.go): if bcp.New() returns one, then each service that has a group and that a block lists
\* is in it once, with its group and as one of the blocks says; each one that no block lists
\* is reported and not in it, and takes nothing from the others.
ServicesAreComplete ==
    pc \in {"filter", "ready", "described"} =>
        \A g \in ServiceGroups :
            LET srv == ServiceNameOf(g)
                entries == {i \in DOMAIN org.services : org.services[i].name = srv}
            IN IF \E f \in Range(cfg.facilities) : Lists(f.services, srv)
               THEN /\ srv \notin unconf
                    /\ \E i \in entries :
                          /\ entries = {i}
                          /\ org.services[i].group = g
                          /\ \E f \in Range(cfg.facilities) : IsServiceOf(org.services[i], f)
               ELSE srv \in unconf /\ entries = {}

\* "Every service must be owned by a single facility" (bcp.go:34-35), "assigned to exactly one"
\* (generic-example-bcpfs.hcl): apply and check go on only if no two facilities list a service.
\* It is not so: parseServices() has a map from services to facilities, of which the last one wins.
OwnedBySingleFacility ==
    pc = "ready" =>
        \A s \in ServicesOf(org), f, g \in Range(cfg.facilities) :
            Lists(f.services, s.name) /\ Lists(g.services, s.name) => f.name = g.name

\* "`bcpfs-perms` handles service Unix groups that are not mentioned in the configuration
\* gracefully, so that new Unix groups can be added without affecting cron jobs that still use
\* the old configuration" (CHANGELOG.md:88-90): such groups are no reason for apply and check
\* to end.  It is not so: cmdApply() and cmdCheck() call logger.Fatal.
NewGroupsAreHarmless ==
    command = "apply" /\ unconf # {} /\ FilterCompiles => pc # "fatal"

\* What `apply` and `check` go on with is what they rely on: each service, org unit and dir of
\* an org unit is there once, with an access and a policy that they know; if there are two in
\* the configuration or in the groups, the program has ended before.
ConfigurationIsSound == pc = "ready" => Apply!ConfigIsSound(Compiled)

\* What a rule says: whole names match, one of the alternatives of one of the patterns.
NamesWhole(patterns, name) ==
    \E i \in DOMAIN patterns : \E j \in DOMAIN patterns[i] :
        LET alt == patterns[i][j]
        IN IF alt.open THEN IsPrefix(alt.lit, name) ELSE alt.lit = name

RuleIsAbout(rule, s, ou) ==
    NamesWhole(rule.services, s.name) /\ NamesWhole(rule.orgUnits, ou.name)

\* A pattern that is not in a list has one alternative: the anchors of `^a|b$` do not bind to
\* both of them.
OneAlternative(files) ==
    \A f \in files : \A i \in DOMAIN f.filter :
        LET rule == RuleOf(f.filter[i])
        IN \A patterns \in {rule.services, rule.orgUnits} :
              Len(patterns) = 1 => Len(patterns[1]) = 1

\* The org unit of a facility begins with the name of no other one.
FacilitiesApart(files, databases) ==
    \A f \in files, db \in databases : \A i \in DOMAIN f.facilities, j \in DOMAIN db :
        LET facility == f.facilities[i].name
            ou == From(db[j].name, Len(f.orgUnitPrefix) + 1)
            suffix == <<"-">> \o Configured(f).facilitySuffix
        IN IsSuffix(suffix, ou) /\ IsPrefix(facility, ou) => ou = facility \o suffix

\* "Regexes are automatically anchored"; the first rule that matches decides; otherwise
\* SameFacilityDecider "accepts combinations of (service, org unit) if the facility owns the
\* service, and rejects otherwise" (bcpfilter.go).
FilterDecidesAsConfigured ==
    pc = "ready" =>
        \A s \in ServicesOf(org), ou \in OusOf(org) :
            LET hits == {i \in DOMAIN cfg.filter : RuleIsAbout(cfg.filter[i], s, ou)}
                first == CHOOSE i \in hits : \A j \in hits : i <= j
            IN Apply!Accept(Compiled, s, ou) <=>
                  IF hits # {} THEN cfg.filter[first].action = "accept"
                  ELSE ou.facility = s.facility

\* The suffixes that NewBcpfs() takes for granted.
DefaultSuffixes(files) ==
    \A f \in files :
        f.opsSuffix \in {<<>>, <<"ops">>} /\ f.facilitySuffix \in {<<>>, <<"facility">>}

\* No directory of an org unit has the name of a service.
DirsAreNoServices(files) ==
    \A f \in files : \A i \in DOMAIN f.orgUnits, j \in DOMAIN f.facilities :
        \A d \in Range(DirsOf(f.orgUnits[i])) : ~ Lists(f.facilities[j].services, d.name)

\* The groups that EnsureRealShares() must not touch, found by the sharing step from the
\* configuration alone, are the groups that EnsurePermissions() has set on the directory
\* from the organization, and in the same place: for an org unit's directory of a service, by
\* either of its logical paths, and for its other directories.
SharingManagesAsApply ==
    pc = "ready" =>
        \A s \in ServicesOf(org), ou \in OusOf(org) : ou.facility = NoFacility =>
            /\ \A logical \in {<<ou.name, s.name>>,
                               <<FacilityDirName(s.facility), s.name, ou.name>>} :
                  /\ FsGroups(logical) = {ou.group.name, s.opsGroup.name}
                  /\ Sharing!Realpath(logical) = Apply!SouPath(s, ou)
            /\ \A d \in Range(ou.subdirs) :
                  /\ FsGroups(<<ou.name, d.name>>) = {ou.group.name}
                  /\ Sharing!Realpath(<<ou.name, d.name>>) = Apply!SubdirPath(ou, d)
=============================================================================
