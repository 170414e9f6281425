---------------------------- MODULE MCShareTrees ----------------------------
(***************************************************************************)
(* The trees of the labs ag-bob, which exports, and ag-alice, which        *)
(* imports.  The trees are compiled from shares by the functions of        *)
(* bcpsharing.go.  Where one configuration has a link, the other has a     *)
(* directory.                                                              *)
(***************************************************************************)
EXTENDS ShareTrees, SharingProducts

CONSTANTS Shares     \* the lists of shares that may be configured

MCFacilityOf == [s \in {"tem"} |-> "em"]
MCFacilityDirOf == [f \in {"em"} |-> "em-facility"]

\* Files of users, unlike any target.
UserFile == <<"user">>
UserFiles == {UserFile, Directory}

Share(p, gs) ==
    [path |-> p, managing |-> {},
     acl |-> SetToSeq({[group |-> g, mode |-> {"r", "x"}] : g \in gs})]

Projects == <<"ag-bob", "projects">>
ProjectsX == <<"ag-bob", "projects", "x">>

\* ag-alice has a share in one configuration and none in the other.
TwoShares == {
    <<Share(Projects, {"ag-alice"})>>,
    <<Share(ProjectsX, {})>>}

Root(ou) == <<"org", ou, "shared">>

\* The trees, sorted by org unit.
Compiled(shs) ==
    LET trees == CompileShareTrees(shs)
        ous == SelectSeq(<<"ag-alice", "ag-bob">>, LAMBDA ou : ou \in DOMAIN trees)
    IN [i \in DOMAIN ous |-> [root |-> Root(ous[i]), files |-> trees[ous[i]]]]

MCConfig == {Compiled(shs) : shs \in Shares}

\* The files of a tree in the order of their strings.
Below(ou) == LET at(rest) == Root(ou) \o rest IN
    <<at(<<>>), at(<<"ag-bob">>), at(<<"ag-bob", "projects">>),
      at(<<"ag-bob", "projects", "u">>), at(<<"ag-bob", "projects", "x">>),
      at(<<"ag-bob", "tem">>)>>

MCSorted == SelectSeq(Below("ag-alice"), LAMBDA p : \E c \in MCConfig : \E i \in DOMAIN c : c[i].root = Root("ag-alice"))
            \o Below("ag-bob")

\* Nothing but the roots, or what one of the configurations has left.
MCInitial ==
    LET left(c) == [p \in Roots \cup UNION {DOMAIN c[i].files : i \in DOMAIN c} |->
                      IF p \in Roots THEN Directory
                      ELSE c[CHOOSE i \in DOMAIN c : IsAbove(c[i].root, p)].files[p]]
    IN {[p \in Roots |-> Directory]} \cup {left(c) : c \in MCConfig}
=============================================================================
