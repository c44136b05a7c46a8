------------------------------ MODULE TextMatch ------------------------------
(***************************************************************************)
(* The one answer to "is this canary still in that text" that the detector, *)
(* the erasure scans and the truncation refusals of the adapters share.     *)
(* A token is a sequence of atoms, a text its tokens and how its bytes      *)
(* render them: as given, in other case or width (what normalization        *)
(* undoes), or with other separators (what only tokenizing undoes).         *)
(***************************************************************************)
EXTENDS Naturals, SequencesExt

CONSTANT OpaqueTokens  \* the canary bodies: tokens of sixteen characters or more

\* The tokens with their separators, as normalize_for_match leaves them.
Spelled(tokens) == FlattenSeq([i \in DOMAIN tokens |-> IF i = 1 THEN tokens[i] ELSE <<"-">> \o tokens[i]])

\* _squash: every separator dropped.
Squashed(tokens) == FlattenSeq(tokens)

Within(needle, haystack) ==
    \E i \in 0..(Len(haystack) - Len(needle)) : SubSeq(haystack, i + 1, i + Len(needle)) = needle

Least(set) == CHOOSE n \in set : \A m \in set : n <= m

\* The greedy scan of one window: from the anchor, each token that is the next
\* one wanted is taken.
TakenFrom(haystack, start, needle, span) ==
    LET last == Least({start + span - 1, Len(haystack)})
        Take(n, i) == IF n < Len(needle) /\ haystack[i] = needle[n + 1] THEN n + 1 ELSE n
    IN FoldLeft(Take, 1, [k \in 1..(last - start) |-> start + k])

ordered_within_span(haystack, needle, maxInterposed) ==
    /\ needle # <<>>
    /\ \E start \in DOMAIN haystack :
          /\ haystack[start] = needle[1]
          /\ TakenFrom(haystack, start, needle, Len(needle) + maxInterposed) = Len(needle)

residual_present(needle, text) ==
    /\ needle # <<>>
    /\ \/ text.bytes # "repunctuated" /\ Within(Spelled(needle), Spelled(text.tokens))
       \/ ordered_within_span(text.tokens, needle, 0)
       \/ /\ \E i \in DOMAIN needle : needle[i] \in OpaqueTokens
          /\ Within(Squashed(needle), Squashed(text.tokens))

\* Byte containment, Python's `in`: what may be put in quotation marks.
Quotable(span, text) ==
    /\ span.tokens # <<>>
    /\ span.bytes = text.bytes
    /\ Within(Spelled(span.tokens), Spelled(text.tokens))
=============================================================================
