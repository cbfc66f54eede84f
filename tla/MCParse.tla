------------------------------- MODULE MCParse -------------------------------
(****************************************************************************)
(* Parse on the tables of ParseTables.                                      *)
(****************************************************************************)
EXTENDS ParseProperties, ParseTables

CONSTANT MaxTokens  \* length of the inputs

\* Every input of up to MaxTokens tokens, unrecognised ones included.
Words == UNION {[1 .. n -> {TokenError, a, b, semi}] : n \in 0 .. MaxTokens}

WordLength == [w \in Words |-> Len(w)]
WordCodes  == [w \in Words |-> w]

\* What is proved of markers takes this of a table (Names, Parts and the other
\* runs have it evaluated).
ASSUME TablesRecordAlike == StartsRecordAlike

\* And of the symbols on the stack, that the tables are those of the productions.
ASSUME TablesOfGrammars == TableOfGrammar

\* On the tables of Statements and Names one error is dealt with at a time; in Parts
\* a reduction can lead nowhere.
ASSUME TablesWithPlaces == ErrorsFindPlace <=> ActionTable # PartActions
=============================================================================
