----------------------------- MODULE MCNesting -----------------------------
(***************************************************************************)
(* All lists of at most MaxLists paths over two names, at most MaxDepth    *)
(* names deep.                                                             *)
(***************************************************************************)
EXTENDS Nesting, FiniteSets

CONSTANTS MaxDepth, MaxLists

MCPath == UNION {[1 .. n -> Name] : n \in 1 .. MaxDepth}
MCLists == UNION {[1 .. n -> MCPath] : n \in 0 .. MaxLists}
=============================================================================
