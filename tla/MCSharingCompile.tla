-------------------------- MODULE MCSharingCompile --------------------------
(***************************************************************************)
(* Two facilities, `em` with the service `tem` and `lm` with the service   *)
(* `mic`, and two labs.  The paths are those of the example configuration  *)
(* and their neighbours: two logical paths with one realpath, paths above  *)
(* and below one another, and a path that is too short.                    *)
(***************************************************************************)
EXTENDS SharingCompile

CONSTANTS ExportPaths, ExportAcls, MaxExports

MCFacilityOf == [s \in {"tem", "mic"} |-> IF s = "tem" THEN "em" ELSE "lm"]
MCFacilityDirOf == [f \in {"em", "lm"} |-> IF f = "em" THEN "em-facility" ELSE "lm-facility"]

BobFoo == <<"ag-bob", "tem", "foo">>
FacilityBobFoo == <<"em-facility", "tem", "ag-bob", "foo">>
FacilityBob == <<"em-facility", "tem", "ag-bob">>
FacilityTem == <<"em-facility", "tem">>
BobProjects == <<"ag-bob", "projects">>
BobProjectsX == <<"ag-bob", "projects", "x">>
BobTop == <<"ag-bob">>
Guides == <<"em-facility", "service", "guides">>
SlashBobFoo == <<"", "ag-bob", "tem", "foo">>
FacilityMic == <<"em-facility", "mic", "ag-bob">>

Ace(g, m) == [group |-> g, mode |-> m]
Nobody == <<>>
AliceReads == <<Ace("ag-alice", {"r", "x"})>>
BobReads == <<Ace("ag-bob", {"r", "x"})>>
FacilityReads == <<Ace("em-facility", {"r", "x"})>>
AliceTwice == <<Ace("ag-alice", {"r"}), Ace("lm-facility", {"r", "x"}),
                Ace("ag-alice", {"w", "x"})>>

Rule(action, paths) == [action |-> action, match |-> paths]
ImportRule(g, action, paths) == [group |-> g, action |-> action, match |-> paths]

AllPaths == {Trim(p) : p \in ExportPaths}

\* Everything may be exported, or not the toplevel directory of an org unit.
MCNamingPolicies == {
    <<Rule("allow", AllPaths)>>,
    <<Rule("deny", {BobTop, FacilityBob}), Rule("allow", AllPaths)>>}

\* Everybody takes everything; alice takes nothing from the facility unless it is
\* by the example's rule; bob takes nothing.
MCImports == {
    <<ImportRule("ag-alice", "accept", AllPaths),
      ImportRule("ag-bob", "accept", AllPaths),
      ImportRule("em-facility", "accept", AllPaths),
      ImportRule("lm-facility", "accept", AllPaths)>>,
    <<ImportRule("ag-alice", "accept", {Guides, BobFoo}),
      ImportRule("ag-alice", "reject", AllPaths),
      ImportRule("ag-alice", "accept", {BobProjects}),
      ImportRule("lm-facility", "accept", AllPaths)>>}

MCExports == UNION {[1 .. n -> [path : ExportPaths, acl : ExportAcls]] :
                      n \in 1 .. MaxExports}

MCConfigs == [exports : MCExports, namingPolicy : MCNamingPolicies,
              imports : MCImports]

\* The paths of the runs.
BothPaths == {BobFoo, FacilityBobFoo, FacilityBob, FacilityTem, BobProjects,
              BobProjectsX, BobTop, Guides}
FacilityPaths == {FacilityBobFoo}
\* For ManagersOfDirectory and LinksLeadToShares, which do not hold of them.
SlashPaths == {SlashBobFoo}
ForeignPaths == {FacilityMic}
AllAcls == {Nobody, AliceReads, BobReads, FacilityReads, AliceTwice}

\* The paths of the run are ordinary ones.
ASSUME OrdinaryPaths == ExportPaths \in {BothPaths, FacilityPaths} => PlainPaths /\ OwnFacilities
=============================================================================
