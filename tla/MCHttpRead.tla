----------------------------- MODULE MCHttpRead -----------------------------
(* Finite values for the constants of HttpRead.                            *)
EXTENDS HttpRead

CONSTANT CR

Bytes == {"h", "{", "a", "}", CR}

\* A header of one line and one of two lines.
ShortHeaders == {<<"h">>, <<"h", CR, "h">>}

\* Texts that fit in one piece with the header, and one that may not and has another
\* one inside.
ShortBodies == {<<"{", "}">>, <<"{", "a", "}">>, <<"{", "{", "}", "}">>}

=============================================================================
