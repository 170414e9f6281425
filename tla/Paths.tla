------------------------------- MODULE Paths -------------------------------
(***************************************************************************)
(* Slash paths as non-empty sequences of names, and what "nested" means    *)
(* for a list of them.  A path `a/b/c` of the Go code is <<a, b, c>>:      *)
(* strings.Split and slashpath.Join convert between the two, and every     *)
(* path the sharing code handles is already trimmed and free of empty      *)
(* elements.                                                               *)
(***************************************************************************)
EXTENDS Naturals, Sequences

\* `slashpath.Join(parts[0:n]...)`.
Prefix(p, n) == SubSeq(p, 1, n)

\* q is a directory strictly above p.
IsAbove(q, p) == \E n \in 1 .. Len(p) - 1 : q = Prefix(p, n)

\* No path of the list is above another one.
NoneAbove(list) ==
    \A k, l \in 1 .. Len(list) : ~ IsAbove(list[k], list[l])

\* No path is listed twice.
NoneTwice(list) ==
    \A k, l \in 1 .. Len(list) : list[k] = list[l] => k = l

\* What the two nesting checks promise of the list they accept; the check of
\* realpaths tolerates duplicates.
Acceptable(list, dupsAllowed) ==
    NoneAbove(list) /\ (dupsAllowed \/ NoneTwice(list))
=============================================================================
