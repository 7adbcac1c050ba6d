---------------------------- MODULE TimelineSearch ----------------------------
(***************************************************************************)
(* `rapp-recall search` and `recent` on a timeline that is being recorded, *)
(* starred and purged: RecallStore.search, which reads the full-text index *)
(* and joins it with the table, against what the documentation promises of *)
(* its answer.                                                             *)
(***************************************************************************)
EXTENDS Timeline, SearchExpression

CONSTANTS
    Queries,       \* the texts whose meaning is checked
    Requests,      \* searches that are made: [text, application, starred, limit]
    NoApplication, \* no --app, or an empty one
    ResultLimit    \* the cap of search(_:) on results, 1000 in the code

ASSUME SearchAssumption ==
    /\ Queries \subseteq Seq(Characters)
    /\ \A request \in Requests :
          request.text \in Seq(Characters) /\ request.limit \in Int
    /\ ResultLimit \in Nat \ {0}

-----------------------------------------------------------------------------
(* search(_:)                                                              *)

HasText(query) == \E i \in DOMAIN query : query[i] # Space

\* trimmingCharacters(in: .whitespacesAndNewlines)
Trimmed(query) ==
    LET ink == {i \in DOMAIN query : query[i] # Space}
    IN  IF ink = {} THEN <<>> ELSE SubSeq(query, Min(ink), Max(ink))

\* moments_fts MATCH ?, joined with moments by id.
Matches(query) ==
    {row \in rows : \E entry \in index :
        /\ entry.id = row.id
        /\ \E phrase \in Phrases(Trimmed(query)), column \in entry.columns :
              Occurs(FoldAll(phrase), column)}

\* m.application_name = ? COLLATE NOCASE OR m.bundle_id = ?
OfApplication(row, application) ==
    \/ Fold(row.context.name) = Fold(application)
    \/ row.context.bundle # NoBundle /\ row.context.bundle = application

Selected(request) ==
    {row \in (IF HasText(request.text) THEN Matches(request.text) ELSE rows) :
        /\ request.application # NoApplication
              => OfApplication(row, request.application)
        /\ request.starred => row.starred}

Newer(row, other) == row.at > other.at \/ (row.at = other.at /\ row.id > other.id)

BoundedLimit(limit) == Min({Max({limit, 1}), ResultLimit})

\* ORDER BY captured_at DESC LIMIT; the order of equal times is SQLite's own.
Search(request) ==
    LET found == Selected(request)
    IN  SubSeq(Ordered(found, Newer), 1,
               Min({Cardinality(found), BoundedLimit(request.limit)}))

-----------------------------------------------------------------------------
(* What the documentation promises                                         *)

\* The row's own words, not the index.
Says(row, phrase) ==
    \E text \in {row.text, row.context.title, <<row.context.name>>} :
       Occurs(FoldAll(phrase), FoldAll(text))

Answers(row, request) ==
    /\ HasText(request.text) => \E phrase \in Asked(request.text) : Says(row, phrase)
    /\ request.application # NoApplication
          => OfApplication(row, request.application)
    /\ request.starred => row.starred

\* The scan of the query finds exactly the words and quoted phrases it is
\* documented to ask for: unclosed quotes, empty quotes and words next to a quote
\* included.
ExpressionsMeanQueries == \A query \in Queries : Phrases(query) = Asked(query)

\* "Results are newest-first" (docs/cli.md:80): a result holds moments that answer
\* the request, each once and newest first, and leaves one out only for its limit,
\* when every moment it holds is at least as new.
IsResult(result, request) ==
    LET answers == {row \in rows : Answers(row, request)}
    IN  /\ ToSet(result) \subseteq answers
        /\ IsInjective(result)
        /\ \A i \in 1 .. Len(result) - 1 : result[i].at >= result[i + 1].at
        /\ \A row \in answers \ ToSet(result) :
              /\ Len(result) = BoundedLimit(request.limit)
              /\ \A i \in DOMAIN result : result[i].at >= row.at

\* Whatever has been recorded, starred and purged meanwhile, a search of the
\* command line returns what the documentation promises of the rows there are.
SearchFindsWhatIsAsked ==
    /\ ExpressionsMeanQueries
    /\ \A request \in Requests : IsResult(Search(request), request)

=============================================================================
