--------------------------- MODULE SearchExpression ---------------------------
(***************************************************************************)
(* What a query asks for: RecallStore.ftsExpression, which turns the text  *)
(* of a search into a full-text expression character by character, and the *)
(* meaning the documentation gives to a query.                             *)
(***************************************************************************)
EXTENDS Integers, Sequences, FiniteSets, SequencesExt

CONSTANTS
    Letters,      \* characters of words
    Space, Quote

ASSUME CharactersAssumption == Space # Quote

Characters == Letters \cup {Space, Quote}

-----------------------------------------------------------------------------
(* ftsExpression                                                           *)

Start == [terms |-> <<>>, current |-> <<>>, inside |-> FALSE]

\* Outside quotes `current` is never blank, so that what is left is one term.
EndTerm(scan) ==
    [scan EXCEPT !.terms = IF scan.current = <<>> THEN @ ELSE Append(@, scan.current),
                 !.current = <<>>]

\* One turn of the loop.
Scan(scan, character) ==
    IF character = Quote THEN [EndTerm(scan) EXCEPT !.inside = ~scan.inside]
    ELSE IF character = Space /\ ~scan.inside THEN EndTerm(scan)
    ELSE [scan EXCEPT !.current = Append(@, character)]

\* What the loop has after each character of the query.
Scans(query) ==
    LET after[i \in 0 .. Len(query)] ==
            IF i = 0 THEN Start ELSE Scan(after[i - 1], query[i])
    IN  after

\* Faulty, for the checks: what follows the last space or quote is dropped.
TermsClosed(query) == Scans(query)[Len(query)].terms

\* The terms that ftsExpression joins with OR.
Terms(query) == EndTerm(Scans(query)[Len(query)]).terms

-----------------------------------------------------------------------------
(* FTS5's tokenizer                                                        *)

\* The elements of a finite set in the order Before, which is total on it.
Ordered(set, Before(_, _)) ==
    CHOOSE seq \in [1 .. Cardinality(set) -> set] :
       \A i, j \in 1 .. Cardinality(set) : i < j => Before(seq[i], seq[j])

\* The longest stretches of s without a character of breaks: their first and last
\* places in s.
Stretches(s, breaks) ==
    {p \in (1 .. Len(s)) \X (1 .. Len(s)) :
        /\ p[1] <= p[2]
        /\ \A k \in p[1] .. p[2] : s[k] \notin breaks
        /\ p[1] = 1 \/ s[p[1] - 1] \in breaks
        /\ p[2] = Len(s) \/ s[p[2] + 1] \in breaks}

At(s, stretch) == SubSeq(s, stretch[1], stretch[2])

Earlier(a, b) == a[1] < b[1]

\* A string as its words.
Tokens(s) ==
    LET words == Ordered(Stretches(s, {Space, Quote}), Earlier)
    IN  [i \in 1 .. Cardinality(Stretches(s, {Space, Quote})) |-> At(s, words[i])]

\* What MATCH is given: each term is a phrase; one without words matches nothing.
Phrases(query) == {Tokens(term) : term \in ToSet(Terms(query))} \ {<<>>}

-----------------------------------------------------------------------------
(* "Quotes create phrase terms. Unquoted terms are combined with OR"       *)
(* (docs/cli.md:79)                                                        *)

\* A quote opens or closes: a place is inside when the quotes before it are odd.
Inside(query, i) == Cardinality({j \in 1 .. i - 1 : query[j] = Quote}) % 2 = 1

\* Each word outside quotes, and each quoted text as one phrase.
Asked(query) ==
    {<<At(query, w)>> :
        w \in {p \in Stretches(query, {Space, Quote}) : ~Inside(query, p[1])}}
    \cup
    ({Tokens(At(query, w)) :
        w \in {p \in Stretches(query, {Quote}) : Inside(query, p[1])}} \ {<<>>})

=============================================================================
