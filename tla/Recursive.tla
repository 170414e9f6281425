------------------------------ MODULE Recursive ------------------------------
(***************************************************************************)
(* `bcpfs-perms apply --recursive`: how the scripts of apply-sh.go bring   *)
(* the files below one toplevel directory to what its policy says, while   *)
(* users create, move, change and remove files, the policy is changed, and *)
(* runs get killed.                                                        *)
(*                                                                         *)
(* The script of the toplevel directory itself is one step here; FsApply   *)
(* has its details.  Then come four pipelines `find | xargs`: they visit   *)
(* what find has listed file by file, and one that meets a file that has   *)
(* gone visits the others and then fails the run.                          *)
(*                                                                         *)
(* Attributes of a file are a record of                                    *)
(*   gid       the owning group, "ou" or "other",                          *)
(*   sgid      the SGID bit,                                               *)
(*   base      "closed" if `group::---` and `other::---`, else "open",     *)
(*   acl, mask     named group entries and what the mask lets through,     *)
(*   dfl, dmask    the same of the default ACL, if there is one.           *)
(***************************************************************************)
EXTENDS Paths, Functions, FiniteSets

CONSTANTS
    Node,          \* the paths of the files below the toplevel directory
    KindOf,        \* "dir", "file" or "link"
    Policies,      \* the policies that may be configured
    OtherGroups,   \* groups of which no policy says anything
    Foreign,       \* attributes that users bring about: they move files here, and call
                   \* chmod, chgrp and setfacl on their own
    Initial,       \* the trees that there may be at first: path -> attributes
    Acts,          \* what may happen besides: "create", "move", "change", "remove",
                   \* "configure", "kill"
    MaxActs        \* how often something happens besides

RX == {"r", "x"}
RWX == {"r", "w", "x"}

Groups == {"ou", "ops"} \cup OtherGroups
Entries == UNION {[S -> SUBSET RWX] : S \in SUBSET Groups}
Attr == [gid : {"ou", "other"}, sgid : BOOLEAN, base : {"closed", "open"},
         acl : Entries, mask : SUBSET RWX, dfl : Entries, dmask : SUBSET RWX]

ASSUME NodeAssumption ==
    /\ Node \subseteq Seq(UNION {Range(n) : n \in Node}) \ {<<>>}
    /\ KindOf \in [Node -> {"dir", "file", "link"}]
    /\ MaxActs \in Nat

ASSUME AttrAssumption ==
    /\ Foreign \subseteq Attr
    /\ \A left \in Initial : DOMAIN left \subseteq Node /\ left \in [DOMAIN left -> Attr]

VARIABLES
    exists,        \* the files that exist
    attr,          \* their attributes
    top,           \* those of the toplevel directory
    policy,        \* as configured: "sou", "group", "owner", "manager"
    mine,          \* the policy of the run
    pc,            \* "idle", "top", "find group", "chgrp", "find sgid", "chmod",
                   \* "find dirs", "setfacl dirs", "find files", "setfacl files"
    work,          \* what the pipeline still has to visit
    broken,        \* the pipeline has met an error
    last,          \* how the last run ended: "none", "ok", "failed", "killed"
    acts,          \* how often something has happened besides
    calm           \* nothing has happened since the last run started but that users have
                   \* created files after it

fs == <<exists, attr, top>>
run == <<mine, pc, work, broken, last>>
vars == <<fs, run, policy, acts, calm>>

WithoutX(m) == m \ {"x"}
NoEntries == [g \in {} |-> {}]

-----------------------------------------------------------------------------
\* The policies: which groups have entries, what they allow on the toplevel directory, and
\* what on all below it.
GroupsOf(p) == IF p = "sou" THEN {"ou", "ops"} ELSE {"ou"}
OnTop(p) == IF p = "manager" THEN RX ELSE RWX
BelowTop(p) == IF p \in {"sou", "group"} THEN RWX ELSE RX

EntriesOf(p, perms) == [g \in GroupsOf(p) |-> perms]

\* A bug: the entries are replaced.
SetEntries(f, entries) == entries

\* setfacl -m: other entries stay.
ModifyEntries(f, entries) ==
    [g \in DOMAIN f \cup DOMAIN entries |-> IF g \in DOMAIN entries THEN entries[g] ELSE f[g]]

\* A bug: the default mask is left alone.
WithDefaultEntries(a, p) == [a EXCEPT !.dfl = ModifyEntries(@, EntriesOf(p, BelowTop(p)))]

WithDefaults(a, p) ==
    [a EXCEPT !.dfl = ModifyEntries(@, EntriesOf(p, BelowTop(p))), !.dmask = BelowTop(p)]

\* dirAcl, and fileAcl: "keeping the x-bit for group entries, so that the effective group
\* permissions are only restricted via mask".
DirAcl(a, p) ==
    WithDefaults([a EXCEPT !.base = "closed", !.mask = BelowTop(p),
                           !.acl = ModifyEntries(@, EntriesOf(p, BelowTop(p)))], p)
FileAcl(a, p) ==
    [a EXCEPT !.base = "closed", !.mask = WithoutX(BelowTop(p)),
              !.acl = ModifyEntries(@, EntriesOf(p, BelowTop(p)))]

\* The script of the toplevel directory: chown, chmod g+s, setfacl.
TopAcl(a, p) ==
    WithDefaults([a EXCEPT !.gid = "ou", !.sgid = TRUE, !.base = "closed", !.mask = OnTop(p),
                           !.acl = ModifyEntries(@, EntriesOf(p, OnTop(p)))], p)

NoAttr == [gid |-> "other", sgid |-> FALSE, base |-> "open",
           acl |-> NoEntries, mask |-> {}, dfl |-> NoEntries, dmask |-> {}]

IsKind(n, kind) == KindOf[n] = kind

\* What a file can have of attributes.
OfKind(a, n) ==
    IF IsKind(n, "dir") THEN a
    ELSE [a EXCEPT !.sgid = FALSE, !.dfl = NoEntries, !.dmask = {}]

Parent(n) == Prefix(n, Len(n) - 1)
AttrOfParent(n) == IF Len(n) = 1 THEN top ELSE attr[Parent(n)]

\* The kernel: what a new file takes from its directory.
Inherited(n) ==
    LET d == AttrOfParent(n)
        isDir == IsKind(n, "dir")
        hasDefault == d.dfl # NoEntries
    IN [gid |-> IF d.sgid THEN d.gid ELSE "other", sgid |-> d.sgid /\ isDir,
        base |-> IF hasDefault THEN "closed" ELSE "open",
        acl |-> d.dfl,
        mask |-> IF isDir THEN d.dmask ELSE WithoutX(d.dmask),
        dfl |-> IF isDir THEN d.dfl ELSE NoEntries,
        dmask |-> IF isDir THEN d.dmask ELSE {}]

Init ==
    /\ \E left \in Initial :
          /\ exists = DOMAIN left
          /\ attr = [n \in Node |-> IF n \in exists THEN left[n] ELSE NoAttr]
    /\ policy \in Policies /\ mine = policy
    /\ top = TopAcl(NoAttr, policy)
    /\ pc = "idle" /\ work = {} /\ broken = FALSE /\ last = "none"
    /\ acts = 0 /\ calm = FALSE

-----------------------------------------------------------------------------
\* A run.

End(result) ==
    /\ pc' = "idle" /\ last' = result
    /\ work' = {} /\ broken' = FALSE
    /\ UNCHANGED mine

StartRun ==
    /\ pc = "idle"
    /\ pc' = "top" /\ mine' = policy /\ calm' = TRUE
    /\ UNCHANGED <<fs, work, broken, last, policy, acts>>

\* ensureSOUSh, ensureOrgUnit{Group,Owner,Manager}SubdirSh.
EnsureTop ==
    /\ pc = "top"
    /\ top' = TopAcl(top, mine) /\ pc' = "find group"
    /\ UNCHANGED <<exists, attr, mine, work, broken, last, policy, acts, calm>>

\* A bug: without --no-run-if-empty, a command without files fails.
FindOrFail(label, next, listed) ==
    /\ pc = label
    /\ pc' = next /\ work' = listed /\ broken' = (listed = {})
    /\ UNCHANGED <<fs, mine, last, policy, acts, calm>>

\* A pipeline starts with what find lists.
Find(label, next, listed) ==
    /\ pc = label
    /\ pc' = next /\ work' = listed /\ broken' = FALSE
    /\ UNCHANGED <<fs, mine, last, policy, acts, calm>>

FindGroup == Find("find group", "chgrp", {n \in exists : attr[n].gid # "ou"})
FindSgid == Find("find sgid", "chmod", {n \in exists : IsKind(n, "dir") /\ ~ attr[n].sgid})
FindDirs == Find("find dirs", "setfacl dirs", {n \in exists : IsKind(n, "dir")})
FindFiles == Find("find files", "setfacl files", {n \in exists : IsKind(n, "file")})

Visited(n) ==
    LET a == attr[n]
    IN CASE pc = "chgrp" -> [a EXCEPT !.gid = "ou"]
         [] pc = "chmod" -> [a EXCEPT !.sgid = TRUE]
         [] pc = "setfacl dirs" -> DirAcl(a, mine)
         [] pc = "setfacl files" -> FileAcl(a, mine)

\* find lists a directory before what is in it, and xargs keeps the order.
IsNext(n) == n \in work /\ \A m \in work : ~ IsAbove(m, n)

VisitNext(n) ==
    /\ pc \in {"chgrp", "chmod", "setfacl dirs", "setfacl files"}
    /\ IsNext(n)
    /\ work' = work \ {n}
    /\ IF n \in exists THEN attr' = [attr EXCEPT ![n] = Visited(n)] /\ UNCHANGED broken
       ELSE broken' = TRUE /\ UNCHANGED attr
    /\ UNCHANGED <<exists, top, mine, pc, last, policy, acts, calm>>

\* errexit, pipefail.
PipelineDone(label, next) ==
    /\ pc = label /\ work = {}
    /\ IF broken THEN End("failed")
       ELSE IF next = "idle" THEN End("ok")
       ELSE pc' = next /\ UNCHANGED <<mine, work, broken, last>>
    /\ UNCHANGED <<fs, policy, acts, calm>>

ChgrpDone == PipelineDone("chgrp", "find sgid")
ChmodDone == PipelineDone("chmod", "find dirs")
DirsDone == PipelineDone("setfacl dirs", "find files")
FilesDone == PipelineDone("setfacl files", "idle")

RunStep ==
    \/ EnsureTop \/ FindGroup \/ FindSgid \/ FindDirs \/ FindFiles
    \/ \E n \in Node : VisitNext(n)
    \/ ChgrpDone \/ ChmodDone \/ DirsDone \/ FilesDone

-----------------------------------------------------------------------------
\* What happens besides.

Besides(act) == act \in Acts /\ acts < MaxActs /\ acts' = acts + 1

CanBeCreated(n) ==
    n \notin exists /\ (Len(n) > 1 => Parent(n) \in exists /\ IsKind(Parent(n), "dir"))

\* A user creates a file.
Create(n) ==
    /\ Besides("create") /\ CanBeCreated(n)
    /\ exists' = exists \cup {n} /\ attr' = [attr EXCEPT ![n] = Inherited(n)]
    /\ calm' = (calm /\ pc = "idle")
    /\ UNCHANGED <<top, run, policy>>

\* A user moves a file here: it keeps its attributes.
MoveIn(n) ==
    /\ Besides("move") /\ CanBeCreated(n)
    /\ exists' = exists \cup {n}
    /\ \E a \in Foreign : attr' = [attr EXCEPT ![n] = OfKind(a, n)]
    /\ calm' = FALSE
    /\ UNCHANGED <<top, run, policy>>

\* The owner of a file changes its attributes.
Change(n) ==
    /\ Besides("change") /\ n \in exists
    /\ \E a \in Foreign : attr' = [attr EXCEPT ![n] = OfKind(a, n)]
    /\ calm' = FALSE
    /\ UNCHANGED <<exists, top, run, policy>>

Delete(n) ==
    /\ Besides("remove") /\ n \in exists /\ \A m \in exists : ~ IsAbove(n, m)
    /\ exists' = exists \ {n} /\ attr' = [attr EXCEPT ![n] = NoAttr]
    /\ calm' = FALSE
    /\ UNCHANGED <<top, run, policy>>

Configure ==
    /\ Besides("configure")
    /\ policy' \in Policies /\ calm' = FALSE
    /\ UNCHANGED <<fs, run>>

Kill ==
    /\ Besides("kill") /\ pc # "idle"
    /\ End("killed") /\ calm' = FALSE
    /\ UNCHANGED <<fs, policy>>

User == \E n \in Node : Create(n) \/ MoveIn(n) \/ Change(n) \/ Delete(n)

Next == StartRun \/ RunStep \/ User \/ Configure \/ Kill

\* A run that has started goes on to its end, and the administrator starts another one.
Spec == Init /\ [][Next]_vars /\ WF_vars(RunStep) /\ WF_vars(StartRun)

-----------------------------------------------------------------------------
TypeOK ==
    /\ exists \subseteq Node
    /\ attr \in [Node -> Attr] /\ top \in Attr
    /\ policy \in Policies /\ mine \in Policies
    /\ pc \in {"idle", "top", "find group", "chgrp", "find sgid", "chmod",
               "find dirs", "setfacl dirs", "find files", "setfacl files"}
    /\ work \subseteq Node /\ broken \in BOOLEAN
    /\ last \in {"none", "ok", "failed", "killed"}
    /\ acts \in 0 .. MaxActs /\ calm \in BOOLEAN

\* The entries for the groups of the policy are among those of a file.
Has(f, entries) == \A g \in DOMAIN entries : g \in DOMAIN f /\ f[g] = entries[g]

\* A file is as the policy says.
IsRepaired(n) ==
    LET a == attr[n]
        entries == EntriesOf(policy, BelowTop(policy))
        file == a.base = "closed" /\ Has(a.acl, entries)
    IN /\ a.gid = "ou"
       /\ IsKind(n, "dir") =>
             /\ file /\ a.sgid /\ a.mask = BelowTop(policy)
             /\ Has(a.dfl, entries) /\ a.dmask = BelowTop(policy)
       /\ IsKind(n, "file") => file /\ a.mask = WithoutX(BelowTop(policy))

\* The last run has succeeded, and nothing has happened since but that users have created
\* files.
Settled == pc = "idle" /\ last = "ok" /\ calm

\* "in order to set owning groups, SGID bits, and ACLs for files below a toplevel directory"
\* (findXargsIncSh): a run that nothing disturbs repairs everything, whatever users, other
\* policies and killed runs have left; and what users create from then on is like that by
\* itself, as "the toplevel default ACL becomes the normal ACL".
RecursionRepairs == Settled => \A n \in exists : IsRepaired(n)

\* "Use `setfacl -M`, so that other named group entries [...] are preserved" (apply-sh.go):
\* no step of a run takes an entry away from a group of which the policy says nothing, like
\* those of shares, or changes it.
OtherEntriesStay ==
    [][RunStep => \A n \in exists :
          \A g \in DOMAIN attr[n].acl \ GroupsOf(mine) :
              g \in DOMAIN attr'[n].acl /\ attr'[n].acl[g] = attr[n].acl[g]]_vars

\* When nothing else happens any more, runs end, they stop failing, and all is repaired.
RunsConverge == <>[](pc = "idle" => Settled)
=============================================================================
