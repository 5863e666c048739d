-------------------------------- MODULE Glob --------------------------------
(***************************************************************************)
(* The globs of the path and name predicates (crates/alefs-query/src/       *)
(* eval.rs): the search by recursion, as the code has it, and what it is    *)
(* meant to find. A text is a sequence of characters, a path a sequence of  *)
(* texts; a slice of the code is given by how much of it is left or gone.   *)
(***************************************************************************)
EXTENDS Naturals, Sequences

ANY_DEPTH == <<"*", "*">>

(* A search in which a star stands for at least one character. *)
GlobFromNonempty(p, t) ==
    LET from[n \in 0..Len(p)] ==
            {j \in 0..Len(t) :
                IF n = 0 THEN j = Len(t)
                ELSE LET c == p[Len(p) - n + 1] IN
                     CASE c = "*" -> \E i \in (j + 1)..Len(t) : i \in from[n - 1]
                       [] c = "?" -> j < Len(t) /\ j + 1 \in from[n - 1]
                       [] OTHER   -> j < Len(t) /\ t[j + 1] = c /\ j + 1 \in from[n - 1]}
    IN  from

(* The places in t from which the last n characters of p match the rest.     *)
GlobFrom(p, t) ==
    LET from[n \in 0..Len(p)] ==
            {j \in 0..Len(t) :
                IF n = 0 THEN j = Len(t)
                ELSE LET c == p[Len(p) - n + 1] IN
                     CASE c = "*" -> \E i \in j..Len(t) : i \in from[n - 1]
                       [] c = "?" -> j < Len(t) /\ j + 1 \in from[n - 1]
                       [] OTHER   -> j < Len(t) /\ t[j + 1] = c /\ j + 1 \in from[n - 1]}
    IN  from

glob_rec(p, t) == 0 \in GlobFrom(p, t)[Len(p)]

(* The places in a path from which the last n segments of pat match the rest.*)
SegmentsFrom(pat, path) ==
    LET from[n \in 0..Len(pat)] ==
            {j \in 0..Len(path) :
                IF n = 0 THEN j = Len(path)
                ELSE LET s == pat[Len(pat) - n + 1] IN
                     IF s = ANY_DEPTH
                     THEN n = 1 \/ \E i \in j..Len(path) : i \in from[n - 1]
                     ELSE j < Len(path) /\ glob_rec(s, path[j + 1]) /\ j + 1 \in from[n - 1]}
    IN  from

match_segments(pat, path) == 0 \in SegmentsFrom(pat, path)[Len(pat)]

-----------------------------------------------------------------------------
(* The cuts of a sequence of n things into k pieces. *)
Cuts(n, k) ==
    {c \in [0..k -> 0..n] : c[0] = 0 /\ c[k] = n /\ \A i \in 1..k : c[i - 1] <= c[i]}

(* A text can be cut into pieces that the characters of a glob stand for;    *)
(* a path into pieces that its segments stand for.                           *)
Matches(glob, text) ==
    \E c \in Cuts(Len(text), Len(glob)) : \A i \in 1..Len(glob) :
        glob[i] = "*" \/ (c[i] = c[i - 1] + 1 /\ glob[i] \in {"?", text[c[i]]})

PathMatches(segments, path) ==
    \E c \in Cuts(Len(path), Len(segments)) : \A i \in 1..Len(segments) :
        segments[i] = ANY_DEPTH \/ (c[i] = c[i - 1] + 1 /\ Matches(segments[i], path[c[i]]))
=============================================================================
