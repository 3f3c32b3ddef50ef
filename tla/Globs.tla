-------------------------------- MODULE Globs --------------------------------
(* The glob patterns of write sets and grants (validate_work_package.py,     *)
(* work_package_manifest.py): do two patterns share a path, is one pattern   *)
(* within another, does a pattern leave the workspace.                       *)
(*                                                                           *)
(* A pattern is its text split at "/": a sequence of segments, each a        *)
(* sequence of letters, "*" and "?".  A leading or a trailing "/" is an      *)
(* empty segment.                                                            *)
EXTENDS Naturals, Sequences, FiniteSets, SequencesExt, FiniteSetsExt

Wild == {"*", "?"}
Stars == <<"*", "*">>
DotDot == <<".", ".">>
\* A letter that no pattern names.
Other == "other"

\* What is left without the empty segments, read from the left.
Named(pattern) ==
  LET read[k \in 0..Len(pattern)] ==
        IF k = 0 THEN <<>>
        ELSE IF pattern[k] = <<>> THEN read[k - 1] ELSE Append(read[k - 1], pattern[k])
  IN read[Len(pattern)]

\* _segments: empty segments mean nothing, a trailing "/" means everything below.
Segments(pattern) ==
  Named(pattern)
    \o IF Len(pattern) > 1 /\ Last(pattern) = <<>> THEN <<Stars>> ELSE <<>>

\* _pattern_escapes_workspace.
Escapes(pattern) ==
  \/ Len(pattern) > 1 /\ Head(pattern) = <<>>
  \/ \E k \in DOMAIN pattern : pattern[k] = DotDot

\* _glob_language_overlap: is the end of both patterns reachable, skipping a
\* star or reading one token on both sides, a star staying where it is;
\* "compatible" holds the places whose tokens can read the same.
LanguagesMeet(a, b, star, compatible) ==
  LET meets[at \in (0..Len(a)) \X (0..Len(b))] ==
        LET i == at[1] j == at[2] IN
        \/ i = Len(a) /\ j = Len(b)
        \/ i < Len(a) /\ a[i + 1] = star /\ meets[<<i + 1, j>>]
        \/ j < Len(b) /\ b[j + 1] = star /\ meets[<<i, j + 1>>]
        \/ /\ i < Len(a) /\ j < Len(b)
           /\ ~(a[i + 1] = star /\ b[j + 1] = star)
           /\ <<i + 1, j + 1>> \in compatible
           /\ meets[<<IF a[i + 1] = star THEN i ELSE i + 1, IF b[j + 1] = star THEN j ELSE j + 1>>]
  IN meets[<<0, 0>>]

SegmentsOverlap(s, t) ==
  s = t \/ LanguagesMeet(s, t, "*",
             {k \in (DOMAIN s) \X (DOMAIN t) : {s[k[1]], t[k[2]]} \cap Wild # {} \/ s[k[1]] = t[k[2]]})

\* Mutant: a "**" can be left but not stayed in.
CanOverlapOnce(p, q) ==
  LET a == Segments(p) b == Segments(q)
      Meet(s, t) == Stars \in {s, t} \/ SegmentsOverlap(s, t)
      meets[at \in (0..Len(a)) \X (0..Len(b))] ==
        LET i == at[1] j == at[2] IN
        \/ i = Len(a) /\ j = Len(b)
        \/ i < Len(a) /\ a[i + 1] = Stars /\ meets[<<i + 1, j>>]
        \/ j < Len(b) /\ b[j + 1] = Stars /\ meets[<<i, j + 1>>]
        \/ i < Len(a) /\ j < Len(b) /\ Meet(a[i + 1], b[j + 1]) /\ meets[<<i + 1, j + 1>>]
  IN meets[<<0, 0>>]

\* _patterns_can_overlap.
CanOverlap(p, q) ==
  LET a == Segments(p) b == Segments(q)
  IN LanguagesMeet(a, b, Stars,
       {k \in (DOMAIN a) \X (DOMAIN b) :
          Stars \in {a[k[1]], b[k[2]]} \/ SegmentsOverlap(a[k[1]], b[k[2]])})

\* _pattern_covers_path: a path is a pattern without wildcards.
CoversPath(pattern, path) == CanOverlap(pattern, path)

(***************************************************************************)
(* Containment.                                                            *)
(***************************************************************************)

\* The positions of a segment reachable from S without reading a letter.
Closure(segment, S) ==
  S \cup {q \in 1..Len(segment) :
            \E p \in S : p < q /\ \A k \in (p + 1)..q : segment[k] = "*"}

Advance(segment, S, letter) ==
  Closure(segment,
    {p \in S : p < Len(segment) /\ segment[p + 1] = "*"}
      \cup {p + 1 : p \in {q \in S : q < Len(segment) /\ segment[q + 1] \in {"?", letter}}})

\* _segment_language_is_subset: in every pair of position sets the two segments
\* reach together, as far as the candidate can still read, the container has
\* ended where the candidate has.
SegmentWithin(s, t) ==
  LET letters == (Range(s) \cup Range(t) \cup {Other}) \ Wild
      pairs == (SUBSET (0..Len(s))) \X (SUBSET (0..Len(t)))
      grown[reached \in SUBSET pairs] ==
        LET next == {<<Advance(s, pair[1], c), Advance(t, pair[2], c)>> :
                       pair \in reached, c \in letters}
            more == {pair \in next : pair[1] # {}} \ reached
        IN IF more = {} THEN reached ELSE grown[reached \cup more]
  IN s = t \/ \A pair \in grown[{<<Closure(s, {0}), Closure(t, {0})>>}] :
                Len(s) \in pair[1] => Len(t) \in pair[2]

\* _pattern_is_subset: segment by segment up to the container's last "**".
PatternWithin(candidate, container) ==
  LET a == Segments(candidate) b == Segments(container)
      stops == {k \in 1..Min({Len(a), Len(b)}) :
                  b[k] = Stars \/ a[k] = Stars \/ ~SegmentWithin(a[k], b[k])}
  IN \/ candidate = container
     \/ stops # {} /\ b[Min(stops)] = Stars /\ Min(stops) = Len(b)
     \/ /\ stops = {} /\ Len(a) <= Len(b)
        /\ \A k \in (Len(a) + 1)..Len(b) : b[k] = Stars

(***************************************************************************)
(* What the patterns mean, told by where each of their parts begins.       *)
(***************************************************************************)

Reads(parts, word, star, One(_, _)) ==
  \E cut \in [0..Len(parts) -> 0..Len(word)] :
    /\ cut[0] = 0 /\ cut[Len(parts)] = Len(word)
    /\ \A k \in DOMAIN parts :
         IF parts[k] = star THEN cut[k - 1] <= cut[k]
         ELSE cut[k] = cut[k - 1] + 1 /\ One(parts[k], word[cut[k]])

SegmentMatches(segment, name) == Reads(segment, name, "*", LAMBDA t, c : t \in {"?", c})

\* A path, as the sequence of its names, is one the pattern stands for.
Matches(pattern, path) == Reads(Segments(pattern), path, Stars, SegmentMatches)
=============================================================================
