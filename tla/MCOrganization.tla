--------------------------- MODULE MCOrganization ---------------------------
\* Two facilities with a service each, a research group, the group of all users, and what
\* may be wrong with the database or with the configuration.
EXTENDS Organization

MCSyllables == {
    "org", "srv", "_", "-", "facility", "ops", "em", "lm", "tem", "mic", "afm", "ag", "alice", "2",
    "users", "root", "wheel", "old", "people", "projects", "shared", "guides", "manuals", "("}

Group(name, gid) == [name |-> name, gid |-> gid, wellFormed |-> TRUE]
OrgGroup(name) == <<"org", "_">> \o name
SrvGroup(name) == <<"srv", "_">> \o name

Em == <<"em">>
Lm == <<"lm">>
Tem == <<"tem">>
Mic == <<"mic">>
Lab == <<"ag", "-", "alice">>
EmDir == <<"em", "-", "facility">>
LmDir == <<"lm", "-", "facility">>
Users == <<"users">>

Base == <<
    Group(SrvGroup(Tem), 8), Group(OrgGroup(Lab), 2), Group(<<"root">>, 0),
    Group(OrgGroup(EmDir), 3), Group(SrvGroup(<<"em", "-", "ops">>), 5),
    Group(OrgGroup(LmDir), 4), Group(SrvGroup(Mic), 7),
    Group(SrvGroup(<<"lm", "-", "ops">>), 6), Group(Users, 9)>>

\* What else may be listed: a group twice, with another gid, with the gid of another one,
\* services that belong to no facility, an org unit, and garbage.
Extra == {
    Group(OrgGroup(Lab), 2), Group(SrvGroup(Tem), 8), Group(OrgGroup(Lab), 10),
    Group(SrvGroup(Mic), 5), Group(OrgGroup(<<"ag", "-", "alice", "2">>), 4),
    Group(OrgGroup(<<"ag", "-", "alice", "2">>), 11), Group(SrvGroup(<<"afm">>), 12),
    Group(SrvGroup(<<"tem", "-", "ops">>), 13), Group(<<"wheel">>, 2), Group(Users, 14),
    [Group(<<"root">>, 0) EXCEPT !.wellFormed = FALSE]}

Inserted(s, i, x) == SubSeq(s, 1, i) \o <<x>> \o SubSeq(s, i + 1, Len(s))
Dropped(s, i) == SubSeq(s, 1, i - 1) \o SubSeq(s, i + 1, Len(s))

MCDatabases ==
    {Base, Reverse(Base)}
    \cup {Inserted(Base, i, x) : i \in 0 .. Len(Base), x \in Extra}
    \cup {Dropped(Base, i) : i \in DOMAIN Base}
    \cup {Inserted(Dropped(Base, i), 4, x) : i \in DOMAIN Base, x \in Extra}

MCNameOrder == <<
    OrgGroup(<<"ag", "-", "alice">>), OrgGroup(<<"ag", "-", "alice", "2">>), OrgGroup(EmDir),
    OrgGroup(<<"em", "2", "-", "facility">>), OrgGroup(LmDir), SrvGroup(<<"afm">>),
    SrvGroup(<<"em", "-", "ops">>), SrvGroup(<<"em", "2", "-", "ops">>),
    SrvGroup(<<"lm", "-", "ops">>), SrvGroup(Mic), SrvGroup(Tem),
    SrvGroup(<<"tem", "-", "ops">>), <<"root">>, Users, <<"wheel">>>>

-----------------------------------------------------------------------------
Lit(name) == <<[lit |-> name, open |-> FALSE]>>
Starting(name) == <<[lit |-> name, open |-> TRUE]>>

Rule(action, services, orgUnits) ==
    [action |-> action, service |-> <<>>, services |-> services,
     orgUnit |-> <<>>, orgUnits |-> orgUnits]

Facility(name, services, access) == [name |-> name, services |-> services, access |-> access]
OrgUnit(name, subdirs, extraDirs) == [name |-> name, subdirs |-> subdirs, extraDirs |-> extraDirs]
Dir(name, policy) == [name |-> name, policy |-> policy]

Good == [
    absolute |-> TRUE, serviceDir |-> <<"srv">>, orgUnitDir |-> <<"org">>,
    superGroup |-> Users, orgUnitPrefix |-> <<"org">>, servicePrefix |-> <<"srv">>,
    opsSuffix |-> <<>>, facilitySuffix |-> <<"facility">>,
    facilities |-> <<Facility(Em, <<Tem>>, "allOrgUnits"), Facility(Lm, <<Mic, <<"old">>>>, "")>>,
    orgUnits |-> <<OrgUnit(Lab, <<Dir(<<"people">>, "owner")>>, <<<<"projects">>>>)>>,
    filter |-> <<Rule("reject", <<Lit(Mic), Starting(<<"afm">>)>>, <<Starting(Lab)>>),
                 [Rule("accept", <<>>, <<Lit(Lab), Lit(EmDir)>>) EXCEPT !.service = Starting(<<>>)]>>,
    symlinks |-> <<[path |-> <<"guides">>, target |-> <<"manuals">>]>>,
    sharing |-> <<[policies |-> <<"allow">>, imports |-> <<"accept">>,
                   exports |-> <<[acl |-> <<[group |-> Lab, perms |-> {"r"}]>>]>>]>>]

\* Files that are as valid.
Others == {
    [Good EXCEPT !.superGroup = <<>>, !.facilities[1].access = "perService"],
    [Good EXCEPT !.superGroup = <<>>],
    [Good EXCEPT !.filter = <<>>, !.sharing = <<>>, !.symlinks = <<>>],
    [Good EXCEPT !.facilities[2].services = <<Tem, Mic>>],
    [Good EXCEPT !.facilities = @ \o <<Facility(Em, <<<<"afm">>>>, "")>>],
    [Good EXCEPT !.facilities[1].services = <<>>],
    [Good EXCEPT !.orgUnits = @ \o <<OrgUnit(Lab, <<Dir(<<"shared">>, "manager")>>, <<>>)>>],
    [Good EXCEPT !.orgUnits[1].extraDirs = <<<<"people">>>>],
    [Good EXCEPT !.filter[1].services = <<Lit(<<"(">>)>>],
    [Good EXCEPT !.filter = <<Rule("accept", <<Lit(Tem), Lit(Mic)>>, <<Lit(Lab), Starting(<<"lm">>)>>),
                              Rule("reject", <<Lit(Tem)>>, <<Starting(<<>>)>>)>>]}

\* Files that are not.
Bad == {
    [Good EXCEPT !.absolute = FALSE], [Good EXCEPT !.servicePrefix = <<>>],
    [Good EXCEPT !.facilities[1].access = "all"],
    [Good EXCEPT !.orgUnits[1].subdirs[1].policy = "none"],
    [Good EXCEPT !.filter[1].action = "pass"], [Good EXCEPT !.filter[1].orgUnits = <<>>],
    [Good EXCEPT !.filter[2].services = <<Lit(Tem)>>],
    [Good EXCEPT !.symlinks[1].target = <<>>], [Good EXCEPT !.sharing = @ \o @],
    [Good EXCEPT !.sharing[1].policies = <<"accept">>],
    [Good EXCEPT !.sharing[1].exports[1].acl[1].group = OrgGroup(Lab)]}

MCFiles == {Good} \cup Others \cup Bad

ASSUME OrdinaryFiles ==
    /\ OneAlternative(MCFiles) /\ FacilitiesApart(MCFiles, MCDatabases)
    /\ DefaultSuffixes(MCFiles) /\ DirsAreNoServices(MCFiles)

-----------------------------------------------------------------------------
\* A facility of which the name starts with that of another one.
TwoEm == [Good EXCEPT !.filter = <<>>,
                      !.facilities = <<Facility(Em, <<Tem>>, ""), Facility(<<"em", "2">>, <<Mic>>, "")>>]
TwoEmGroups == <<
    Group(SrvGroup(Tem), 8), Group(OrgGroup(Lab), 2), Group(OrgGroup(EmDir), 3),
    Group(SrvGroup(<<"em", "-", "ops">>), 5), Group(OrgGroup(<<"em", "2", "-", "facility">>), 4),
    Group(SrvGroup(Mic), 7), Group(SrvGroup(<<"em", "2", "-", "ops">>), 6), Group(Users, 9)>>

MCFilesTwoEm == {TwoEm}
MCDatabasesTwoEm == {TwoEmGroups, Reverse(TwoEmGroups)}
-----------------------------------------------------------------------------
\* A pattern `a|b` that is not in a list, and an org unit of which the name starts with a.
Alternatives(a, b) == Lit(a) \o Lit(b)
MCFilesBar == {
    [Good EXCEPT !.filter = <<[Rule("accept", <<Lit(Tem), Lit(Mic)>>, <<>>)
                                  EXCEPT !.orgUnit = Alternatives(Lab, LmDir)]>>]}
MCDatabasesBar == {
    Inserted(Base, i, Group(OrgGroup(<<"ag", "-", "alice", "2">>), 11)) : i \in 0 .. Len(Base)}
=============================================================================
