---------------------------- MODULE MCFilterEval ----------------------------
(* Filters of one to three conditions, with and without NOT, joined by AND  *)
(* and OR in every way, those that leave CV alone in filters of up to two.  *)
(* Two rows: the second finds in CV what the first one left there.          *)
EXTENDS FilterEval

Terms == {<<"GE">>, <<"NOT", "GE">>, <<"LIKE">>, <<"NOT", "LIKE">>, <<"IN">>}
MoreTerms ==
    Terms \cup {<<"NOT", "NOT", "GE">>, <<"BETWEEN">>, <<"NOT", "BETWEEN">>, <<"IS">>,
                <<"CONST BETWEEN">>, <<"NOT", "CONST BETWEEN">>}
Joins == {<<"AND">>, <<"OR">>}

One == MoreTerms
Two == {s \o c \o t : s \in MoreTerms, c \in Joins, t \in MoreTerms}
Three == {s \o c \o t \o d \o u : s \in Terms, c \in Joins, t \in Terms, d \in Joins, u \in Terms}

MCFilters == One \cup Two \cup Three
=============================================================================
