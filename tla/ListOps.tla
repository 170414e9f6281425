------------------------------ MODULE ListOps ------------------------------
(***************************************************************************)
(* The two loops over a list that the Go code writes out: one makes a new  *)
(* element of each, the other one takes what passes a test.                *)
(***************************************************************************)
EXTENDS SequencesExt

Mapped(s, Op(_)) == [i \in DOMAIN s |-> Op(s[i])]

\* The elements of a sequence that pass the test, in their order.
Passing(s, Test(_)) ==
    FlattenSeq([i \in DOMAIN s |-> IF Test(s[i]) THEN <<s[i]>> ELSE <<>>])
=============================================================================
