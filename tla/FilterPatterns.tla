--------------------------- MODULE FilterPatterns ---------------------------
(***************************************************************************)
(* The regular expressions of filter rules in bcpfilter.go, as far as they *)
(* are names, `name.*` and alternatives of them: how a list of patterns    *)
(* becomes one anchored expression, and what that matches.                 *)
(*                                                                         *)
(* A name is a sequence of syllables, none of which begins with another    *)
(* one.  A pattern is a sequence of alternatives [lit, open], `lit.*` if   *)
(* open; no pattern has anchors of its own.                                *)
(***************************************************************************)
EXTENDS Naturals, Sequences, SequencesExt

\* A syllable that no regular expression compiles with.
Unbalanced == "("

\* What follows the first n syllables: name[n:].
From(name, n) == SubSeq(name, n + 1, Len(name))

\* An alternative matches from some place on, which is the first one if it is bound to the
\* start, and up to the last one if it is bound to the end.
MatchesAlternative(alt, name, atStart, atEnd) ==
    \E i \in 0 .. Len(name) :
        /\ IsPrefix(alt.lit, From(name, i))
        /\ atStart => i = 0
        /\ atEnd /\ ~ alt.open => i + Len(alt.lit) = Len(name)

\* `^a|b|c$`: the anchors bind to the first and the last alternative.
MatchesAnchored(pattern, name) ==
    \E j \in DOMAIN pattern :
        MatchesAlternative(pattern[j], name, j = 1, j = Len(pattern))

\* A bug: a list is joined without parentheses.
MatchesJoined(patterns, name) == MatchesAnchored(FlattenSeq(patterns), name)

\* strings2Pattern(): a single pattern is anchored as it is, `^$` if it is empty; a list
\* becomes `^(p|q|...)$`.
MatchesPatterns(patterns, name) ==
    IF Len(patterns) = 1
    THEN IF patterns[1] = <<>> THEN name = <<>> ELSE MatchesAnchored(patterns[1], name)
    ELSE \E i \in DOMAIN patterns : \E j \in DOMAIN patterns[i] :
            MatchesAlternative(patterns[i][j], name, TRUE, TRUE)

\* regexp.Compile()
Compiles(patterns) ==
    \A i \in DOMAIN patterns : \A j \in DOMAIN patterns[i] :
        \A k \in DOMAIN patterns[i][j].lit : patterns[i][j].lit[k] # Unbalanced
=============================================================================
