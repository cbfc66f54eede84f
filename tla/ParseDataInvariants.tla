------------------------- MODULE ParseDataInvariants -------------------------
(****************************************************************************)
(* The properties of ParseData that are proved in ParseDataProofs.          *)
(****************************************************************************)
EXTENDS ParseData

Loaded == phase = "idle" /\ result = "loaded"

EndOf(expression) == expression.start + expression.count

\* How many lexemes the expressions have.
Divided == IF lex.expressions = <<>> THEN 0 ELSE EndOf(Last(lex.expressions))

\* Lexemes share a code exactly when they share their name, the codes are dense, a code leads
\* back to a lexeme of its name, and the expressions divide the lexemes among them: the
\* tokenizer, the parse tables and the enumerations number the tokens alike, whatever an
\* earlier load left.  (ParseData.cpp, ExprLine, ExprLineAlias, ExprSection.)
TokensNamed ==
  Loaded =>
    LET lexemes == lex.lexemes
        named   == {j \in DOMAIN lexemes : lexemes[j].code # 0}
        codes   == TokenFirstID .. TokenFirstID + Len(lex.tokenLexemes) - 1
    IN  /\ \A i, j \in named : lexemes[i].code = lexemes[j].code <=> lexemes[i].name = lexemes[j].name
        /\ {lexemes[j].code : j \in named} = codes
        /\ \A c \in codes : lexemes[lex.tokenLexemes[c - TokenFirstID + 1] + 1].code = c
        /\ \A e \in DOMAIN lex.expressions :
             lex.expressions[e].start = IF e = 1 THEN 0 ELSE EndOf(lex.expressions[e - 1])
        /\ clean => Divided = Len(lexemes)

\* No two symbols of the grammar have one id: nonterminals, tokens and the errors with names are
\* numbered by three counters.  (CreateSymbolMap, idCounter and terminalIdCounter.)
SymbolsDistinct ==
  Loaded =>
    LET thrown == {p.throws : p \in {q \in ToSet(grammar.productions) : q.throws # NothingThrown}}
        used   == {grammar.symbols[name] : name \in DOMAIN grammar.symbols}
        tokens == TokenFirstID .. TokenFirstID + Len(lex.tokenLexemes) - 1
    IN  /\ \A m, n \in DOMAIN ids.nonTerminals : ids.nonTerminals[m] = ids.nonTerminals[n] => m = n
        /\ \A s \in thrown \cup used : "error" \in s.flags => s.id \notin tokens \cup {TokenError}
        /\ \A m, n \in DOMAIN grammar.symbols :
             "error" \in grammar.symbols[m].flags /\ grammar.symbols[m].id = grammar.symbols[n].id
               /\ IsTerminal(grammar.symbols[n]) => m = n

=============================================================================
