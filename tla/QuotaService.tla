---------------------------- MODULE QuotaService ----------------------------
(***************************************************************************)
(* What `bcpctl setquota` promises its users, whatever becomes of the      *)
(* daemon, the connections and the commands in between: a call asks for    *)
(* limits of some xids.  They are set one by one, at most once each, maybe *)
(* long after the caller has given up; a call that is answered `ok` has    *)
(* set all of them and sets nothing any more.                              *)
(***************************************************************************)
EXTENDS Naturals

CONSTANTS
    Calls,         \* the calls that may be made
    Xids,          \* users or groups that have limits
    Unset,         \* stands for: no call has set the limits
    DryRun         \* nothing is set at all

VARIABLES
    calls,         \* what has become of each call
    quota          \* the call that has set the limits of an xid last

vars == <<calls, quota>>

Unmade == [lines |-> {}, todo |-> {}, before |-> {}, state |-> "closed", answer |-> "unmade"]

Init ==
    /\ calls = [k \in Calls |-> Unmade]
    /\ quota = [x \in Xids |-> Unset]

Answered == {k \in Calls : calls[k].answer \in {"ok", "error"}}

\* A call is made.  The service may not be there.
Ask(k, lines, state) ==
    /\ calls[k].answer = "unmade"
    /\ calls' = [calls EXCEPT ![k] =
                   [lines |-> lines, todo |-> lines, before |-> Answered, state |-> state,
                    answer |-> IF state = "open" THEN "none" ELSE "lost"]]
    /\ UNCHANGED quota

\* The limits of one xid.
SetOne(k, x) ==
    /\ calls[k].state = "open" /\ x \in calls[k].todo
    /\ calls' = [calls EXCEPT ![k].todo = @ \ {x}]
    /\ quota' = IF DryRun THEN quota ELSE [quota EXCEPT ![x] = k]

\* Some callers get no answer, and some calls come to their end: a deadline, an exit, a crash.
Lost(k, lost) == IF k \in lost THEN [calls[k] EXCEPT !.answer = "lost"] ELSE calls[k]
Closed(call) == [call EXCEPT !.state = "closed"]
GiveUp(lost, closed) ==
    /\ \A k \in lost : calls[k].answer = "none"
    /\ \A k \in closed : calls[k].state = "open"
    /\ calls' = [k \in Calls |-> IF k \in closed THEN Closed(Lost(k, lost))
                                 ELSE Lost(k, lost)]
    /\ UNCHANGED quota

Reply(k, answer) ==
    /\ calls[k].answer = "none" /\ calls[k].state = "closed"
    /\ answer = "ok" => calls[k].todo = {}
    /\ calls' = [calls EXCEPT ![k].answer = answer]
    /\ UNCHANGED quota

Next ==
    \/ \E k \in Calls, lines \in SUBSET Xids, state \in {"open", "closed"} : Ask(k, lines, state)
    \/ \E k \in Calls, x \in Xids : SetOne(k, x)
    \/ \E lost, closed \in SUBSET Calls : GiveUp(lost, closed)
    \/ \E k \in Calls, answer \in {"ok", "error"} : Reply(k, answer)

Spec == Init /\ [][Next]_vars

-----------------------------------------------------------------------------
Call == [lines : SUBSET Xids, todo : SUBSET Xids, before : SUBSET Calls,
         state : {"open", "closed"}, answer : {"unmade", "none", "ok", "error", "lost"}]

TypeOK ==
    /\ calls \in [Calls -> Call]
    /\ quota \in [Xids -> Calls \cup {Unset}]

\* quotad.SetQuota() answers when the command has ended: once a call is ok, nothing is left
\* of the limits of calls that had been answered when it was made, whatever the calls of
\* other clients, those that timed out, and the orphans of a killed daemon do.
OkIsInForce ==
    \A k \in Calls : calls[k].answer = "ok" /\ ~ DryRun =>
        \A x \in calls[k].lines : quota[x] \notin calls[k].before \cup {Unset}
=============================================================================
