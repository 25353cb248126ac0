--------------------------- MODULE MCLineTransport --------------------------
(***************************************************************************)
(* A transport whose limit is four bytes: a frame of three bytes fills it  *)
(* with its newline, one of four is over it, one of six leaves a remainder *)
(* of its own.                                                             *)
(***************************************************************************)
EXTENDS LineTransport

\* What role-halves send: single lines of UTF-8 that fit and end in no CR.
Fitting == {<< >>, <<"a">>, <<"b", "a">>, <<"a", "b", "a">>, <<"lead", "cont", "b">>}

\* What any peer may send: lines that end in CR, that are too long, that are
\* not UTF-8, that the limit cuts in the middle of a character.
Any == {<<"a", "cr">>, <<"a", "b", "a">>, <<"a", "b", "a", "b">>,
        <<"a", "b", "a", "lead", "cont", "b">>}
=============================================================================
