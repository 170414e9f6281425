---------------------------- MODULE NestingSpec ----------------------------
(***************************************************************************)
(* What checkNoNesting() and checkNoRealpathNesting() promise: a list of   *)
(* exports gets one verdict, and the verdict is "ok" exactly for a list    *)
(* without nested paths.                                                   *)
(***************************************************************************)
EXTENDS Paths

CONSTANTS Lists          \* the lists of paths that may be checked

VARIABLES exps,
          dupsAllowed,   \* TRUE for the check of realpaths
          verdict

vars == <<exps, dupsAllowed, verdict>>

Init == exps \in Lists /\ dupsAllowed \in BOOLEAN /\ verdict = "none"

Decide ==
    /\ verdict = "none"
    /\ verdict' = IF Acceptable(exps, dupsAllowed) THEN "ok" ELSE "error"
    /\ UNCHANGED <<exps, dupsAllowed>>

Next == Decide

Spec == Init /\ [][Next]_vars /\ WF_vars(Next)
=============================================================================
