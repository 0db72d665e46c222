----------------------------- MODULE MCFormatter -----------------------------
(* Finite instances of SimpleFormatter for TLC.                             *)
EXTENDS SimpleFormatter

Alphabet == {"{", "}", "\\", "x", "0", "4", "6"}

\* Every word of up to four letters, and words that insert an argument twice
\* or mix the two ways to insert one.
SomeFormats ==
  (UNION {[1 .. n -> Alphabet] : n \in 0 .. 4}) \cup
    {<<"{", "0", "}", "{", "0", "}">>, <<"{", "0", "}", "{", "0", "}", "x", "x">>,
     <<"{", "0", "}", "{", "0", "}", "\\", "x">>,
     <<"{", "}", "{", "0", "}", "{", "}">>, <<"{", "0", "0", "0", "}">>,
     <<"x", "{", "}", "{", "}", "x">>, <<"\\", "{", "{", "6", "4", "}">>}

\* One long string and many empty ones.
LongAndEmpty == <<8>> \o [n \in 1 .. 18 |-> 0]

NullLength == -1

SomeArgLists == {<<>>, <<2>>, <<NullLength, 1>>, LongAndEmpty}

\* Valid formats that insert one argument, twice, and argument arrays without
\* a null string.
RepeatedFormats == {<<"{", "0", "}">>, <<"{", "0", "}", "{", "0", "}">>}

ManyArgLists == {<<2>>, LongAndEmpty}

=============================================================================
