----------------------------- MODULE MCFsApply ------------------------------
\* Two services, a research group and a facility, and what may change about them.
EXTENDS FsApply

Tem == [name |-> "tem", facility |-> "em", access |-> "perService"]
Mic == [name |-> "mic", facility |-> "lm", access |-> "perService"]
Open(s) == [s EXCEPT !.access = "allOrgUnits"]

Bob(policy) == [name |-> "ag-bob", facility |-> "",
                subdirs |-> <<[name |-> "people", policy |-> policy]>>]
Em == [name |-> "em-facility", facility |-> "em", subdirs |-> <<>>]

Rule(action, ss, os) == [action |-> action, services |-> ss, ous |-> os]
Link(p, target) == [path |-> p, target |-> target]
Guides == Link(<<"org", "ag-bob", "guides">>, <<"org", "em-facility", "service">>)

Setup(services, ous, rules, symlinks) ==
    [services |-> services, ous |-> ous, rules |-> rules, symlinks |-> symlinks]
Notes == Link(<<"srv", "tem", "ag-bob", "notes">>, <<"org", "em-facility", "service">>)

\* The em-facility may use a service of the lm-facility.
Base ==
    Setup(<<Tem, Mic>>, <<Bob("owner"), Em>>,
          <<Rule("accept", {"tem"}, {"ag-bob"}), Rule("accept", {"mic"}, {"em-facility"})>>,
          <<Guides, Notes>>)
\* ag-bob changes its microscope, and a service is opened to all.
Moved ==
    Setup(<<Open(Tem), Mic>>, <<Bob("group"), Em>>,
          <<Rule("reject", {"tem", "mic"}, {"em-facility"}),
            Rule("accept", {"mic"}, {"ag-bob"})>>,
          <<Guides>>)
\* A service and an org unit are dropped.
Smaller ==
    Setup(<<Tem>>, <<Bob("manager")>>, <<Rule("accept", {"tem"}, {"ag-bob"})>>, <<>>)

\* The service that the em-facility uses becomes its own.
Taken == [Base EXCEPT !.services = <<Tem, [Mic EXCEPT !.facility = "em"]>>]

MCSameFacilities == <<Base, Moved, Smaller>>
MCNewFacility == <<Base, Taken>>

MCStartsWith == {<<"em-facility", "em">>}

MCSharedWith == {<<"ou", "ag-zoe">>}
MCShareable == {<<"org", "ag-bob", "people">>, <<"srv", "tem", "ag-bob">>}
MCFillable == {<<"srv", "tem", "ag-bob">>}
=============================================================================
