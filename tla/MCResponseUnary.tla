-------------------------- MODULE MCResponseUnary ---------------------------
(***************************************************************************)
(* Vocabularies and stop strings for ResponseUnary.                        *)
(***************************************************************************)
EXTENDS ResponseUnary

\* Tokens of one and two characters, some of two bytes, the two halves of a
\* character, and end of sequence.
Tokens == {<<"a">>, <<"b">>, <<"e">>, <<"b", "a">>, <<"lead">>, <<"cont">>, Eos}

\* No stop string; two that overlap themselves and each other; one of three
\* characters and four bytes.
SomeStops == {{}, {<<"a", "b">>, <<"b", "b">>}, {<<"a", "e", "b">>}}
=============================================================================
