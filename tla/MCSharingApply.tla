--------------------------- MODULE MCSharingApply ---------------------------
(***************************************************************************)
(* The lab ag-bob with its toplevel directories <org>/ag-bob,              *)
(* <org>/ag-bob/projects (policy `group`), <org>/ag-bob/service (policy    *)
(* `manager`) and <srv>/tem/ag-bob, what users create there, and the       *)
(* toplevel directory of the facility that operates tem.  The              *)
(* configurations are compiled from exports by the functions of            *)
(* bcpsharing.go.                                                          *)
(***************************************************************************)
EXTENDS SharingApply, SharingProducts

CONSTANTS Exports     \* the lists of exports, everything imported

MCFacilityOf == [s \in {"tem"} |-> "em"]
MCFacilityDirOf == [f \in {"em"} |-> "em-facility"]

rx == {"r", "x"}
rwx == {"r", "w", "x"}

Bob == <<"org", "ag-bob">>
EmFacility == <<"org", "em-facility">>
Projects == <<"org", "ag-bob", "projects">>
Service == <<"org", "ag-bob", "service">>
X == <<"org", "ag-bob", "projects", "x">>
XFile == <<"org", "ag-bob", "projects", "x", "file">>
XSub == <<"org", "ag-bob", "projects", "x", "sub">>
TemBob == <<"srv", "tem", "ag-bob">>
TemFoo == <<"srv", "tem", "ag-bob", "foo">>

MCNode == {Bob, EmFacility, Projects, Service, X, XFile, XSub, TemBob, TemFoo}
MCName == UNION {{n[i] : i \in DOMAIN n} : n \in MCNode}
MCDirNode == MCNode \ {XFile}

Managed(m, gs) == [acl |-> [g \in gs |-> m], dfl |-> [g \in gs |-> m]]
MCInitialAcl ==
    [n \in {Bob, EmFacility, Projects, Service, TemBob} |->
        CASE n \in {Bob, Service} -> Managed(rx, {OuGroup("ag-bob")})
          [] n = EmFacility -> Managed(rx, {OuGroup("em-facility")})
          [] n = Projects -> Managed(rwx, {OuGroup("ag-bob")})
          [] n = TemBob -> Managed(rwx, {OuGroup("ag-bob"), OpsGroup("em")})]

MCInitialMask == [n \in MCNode |-> IF n \in {Bob, EmFacility, Service} THEN rx ELSE rwx]

MCGroup == {OuGroup("ag-alice"), OuGroup("ag-bob"), OuGroup("ag-carol"),
            OuGroup("em-facility"), OpsGroup("em")}

Export(p, gs, m) ==
    [path |-> p, managing |-> ManagingGroupsOfPath(p),
     acl |-> SetToSeq({[group |-> g, mode |-> m] : g \in gs})]

\* Compile(), and AsFacl() for the names of the groups.
Compiled(es) ==
    LET reals == CompileRealShares(es)
        travs == CompileTraversal(es, reals)
        facl(a) == [i \in DOMAIN a |-> [group |-> OuGroup(a[i].group), mode |-> a[i].mode]]
    IN [realShares |-> [i \in DOMAIN reals |-> [reals[i] EXCEPT !.acl = facl(@)]],
        traversal |-> UNION {{[path |-> travs[i].path, group |-> OuGroup(g)] :
                                g \in Groups(travs[i].acl)} : i \in DOMAIN travs}]

MCConfig == {Compiled(es) : es \in Exports}

ProjectsX == <<"ag-bob", "projects", "x">>
\* The share of a directory comes, changes its groups and modes, and goes.
ExportsOfX == {
    <<Export(ProjectsX, {"ag-alice"}, rx)>>,
    <<Export(ProjectsX, {"ag-alice", "ag-carol"}, rwx)>>,
    <<Export(ProjectsX, {}, rx)>>,
    <<>>}
\* Besides, a directory of a service is shared by both of its logical paths.
ExportsOfBoth == {
    <<Export(ProjectsX, {"ag-alice"}, rx),
      Export(<<"ag-bob", "tem", "foo">>, {"ag-alice"}, rx),
      Export(<<"em-facility", "tem", "ag-bob", "foo">>, {"ag-alice", "ag-carol"}, {"x"})>>,
    <<Export(<<"em-facility", "tem", "ag-bob", "foo">>, {"ag-carol"}, rx),
      Export(ProjectsX, {"ag-carol"}, rwx)>>}
\* The toplevel directory of the lab.
ExportsOfTop == {<<Export(<<"ag-bob">>, {"ag-alice"}, rx)>>}
\* Now the directory, now the one above it.
ExportsNested == {
    <<Export(<<"ag-bob", "projects">>, {"ag-alice"}, rx)>>,
    <<Export(ProjectsX, {"ag-carol"}, rx)>>}

\* A directory of policy `manager`, to write into.
ExportsWritable == {<<Export(<<"ag-bob", "service">>, {"ag-alice"}, rwx)>>}

\* A group that the ACL of an export names twice.
ExportsTwice == {
    <<[Export(ProjectsX, {}, rx) EXCEPT
         !.acl = <<[group |-> "ag-alice", mode |-> rwx], [group |-> "ag-alice", mode |-> rx]>>]>>}

MCMode == {{}, {"x"}, {"r"}, rx, {"r", "w"}, rwx}

\* The ordinary configurations are of the kind that the theorems on runs are about.
ASSUME OrdinaryExports ==
    Exports \in {ExportsOfX, ExportsOfBoth} =>
       /\ SharesApart /\ SharesStayPut /\ PlainShares /\ InitiallyEven
       /\ "chmod" \notin Acts => MasksSuffice
=============================================================================
