------------------------------ MODULE MCTimeline ------------------------------
(* Characters are strings of one letter; words and names are their sequences. *)
EXTENDS TimelineSearch

MCFold(word) == [i \in DOMAIN word |-> CASE word[i] = "A" -> "a"
                                         [] word[i] = "B" -> "b"
                                         [] OTHER -> word[i]]

\* Two screens with the same two words in either order.
MCText == [image \in Images |-> IF image = "i1" THEN << <<"A">>, <<"b">> >>
                                              ELSE << <<"b">>, <<"a">> >>]

Notes == [name |-> <<"A", "b">>, bundle |-> <<"n">>, title |-> << <<"b">> >>]
Tool == [name |-> <<"b">>, bundle |-> << >>, title |-> << >>]
Vault == [name |-> <<"a">>, bundle |-> <<"v">>, title |-> << >>]
Private == [name |-> <<"b">>, bundle |-> << >>, title |-> << <<"a">>, <<"A">> >>]
Nobody == [name |-> << >>, bundle |-> << >>, title |-> << >>]
MCContexts == {Notes, Tool, Vault, Private, Nobody}

\* As the command line builds it: bundles, no names, the default marker.
MCPolicy == [bundles |-> {<<"v">>}, names |-> {}, markers |-> {<< <<"a">>, <<"a">> >>},
             unknown |-> TRUE]
MCQuote == "\""
MCBlank == << >>
MCNoBundle == << >>
MCNoApplication == << >>

MCQueries == UNION {[1 .. n -> {"a", "b", " ", MCQuote}] : n \in 0 .. 5}

MCTexts == { << >>, <<" ">>, <<MCQuote>>, <<"a">>, <<"a", " ", "b">>, <<"a", "b">>,
             <<MCQuote, "a", " ", "b", MCQuote>>, <<" ", MCQuote, "b", " ", "a">> }

MCRequests ==
    [text : MCTexts, application : {MCNoApplication, <<"a", "B">>, <<"a", "b">>, <<"n">>},
     starred : BOOLEAN, limit : {-1, 3}]

=============================================================================
