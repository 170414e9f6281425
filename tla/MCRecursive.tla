----------------------------- MODULE MCRecursive -----------------------------
\* A directory with a directory and a file in it, and a link beside it.
EXTENDS Recursive

MCKindOf ==
    [n \in {<<"d">>, <<"d", "e">>, <<"d", "f">>, <<"l">>} |->
        IF n = <<"d", "f">> THEN "file" ELSE IF n = <<"l">> THEN "link" ELSE "dir"]
MCNode == DOMAIN MCKindOf

Zoe == [g \in {"zoe"} |-> RX]

\* Without any ACL; and with an entry of a share, a mask too narrow and an entry too wide.
MCForeign == {
    NoAttr,
    [gid |-> "ou", sgid |-> TRUE, base |-> "open",
     acl |-> [g \in {"ou", "zoe"} |-> RWX], mask |-> RX, dfl |-> Zoe, dmask |-> RX]}

\* No file, or all of them, as they were left by other means.
MCInitial == {[n \in {} |-> NoAttr]} \cup {[n \in MCNode |-> OfKind(a, n)] : a \in MCForeign}
=============================================================================
