-------------------------- MODULE ParseDataProperties --------------------------
(****************************************************************************)
(* What a loaded grammar has to do with the file: the reference reads the   *)
(* parse tree of the file, without stacks, markers or tables.               *)
(****************************************************************************)
EXTENDS ParseDataInvariants

----------------------------------------------------------------------------
\* Reading a tree: [prod, kids], and [prod, text] for what is shifted.

RECURSIVE Within(_, _), WithinAll(_, _)
Within(tree, prods) ==
  IF tree.prod \in prods THEN <<tree>> ELSE WithinAll(tree.kids, prods)
WithinAll(kids, prods) ==
  IF kids = <<>> THEN <<>> ELSE Within(Head(kids), prods) \o WithinAll(Tail(kids), prods)

All(prods) == ToSet(Within(file.tree, prods))

\* The names in a tree, in their order.
Texts(tree) ==
  LET tokens == SelectSeq(Within(tree, {"token"}), LAMBDA t : t.text # <<>>)
  IN  [k \in DOMAIN tokens |-> tokens[k].text]

Text(tree, k) == Texts(tree)[k]

IsDistinct(seq) == Cardinality(ToSet(seq)) = Len(seq)

----------------------------------------------------------------------------
\* Productions

Referred(terminal) ==
  IF terminal.prod \in {"TerminalQuote", "ProdSymbolQuote", "ProdPrecQuote"}
  THEN Terminal(lex.aliasToToken[Text(terminal, 1)])
  ELSE IF Text(terminal, 1) \in DOMAIN lex.nameToToken THEN Terminal(lex.nameToToken[Text(terminal, 1)])
  ELSE NonTerminal(ids.nonTerminals[Text(terminal, 1)])

Names(trees) == UNION {ToSet(Texts(t)) : t \in ToSet(trees)}

Elems == {"ProdSymbolCombine", "ProdSymbolCombineSingle", "ProdRHSError", "ProdRHSErrorBacktrack",
          "ProdRHSErrorNamed"}

\* %shifton and %reduceon in front of a symbol, without what is in front of them.
RECURSIVE PrefixesOf(_)
PrefixesOf(tree) ==
  IF tree.prod \in {"ProdPrefixShift", "ProdPrefixReduce"}
  THEN Append(PrefixesOf(tree.kids[1]), [prod |-> tree.prod, kids |-> <<tree.kids[4]>>]) ELSE <<>>

\* An alternative: its symbol and the actions of the conflict before it.
Alternative(tree) ==
  IF tree.prod # "ProdFullSymbol"
  THEN [symbol |-> CASE tree.prod = "ProdRHSError" -> Terminal(TokenError)
                     [] tree.prod = "ProdRHSErrorBacktrack" ->
                          [id |-> TokenError, flags |-> {"terminal", "backtrack"}]
                     [] tree.prod = "ProdRHSErrorNamed" -> ids.symbols[<<"%error(">> \o Text(tree, 1)],
        shift |-> {}, reduce |-> {}]
  ELSE [symbol |-> Referred(tree.kids[2]),
        shift  |-> Names(SelectSeq(PrefixesOf(tree.kids[1]), LAMBDA p : p.prod = "ProdPrefixShift")),
        reduce |-> Names(SelectSeq(PrefixesOf(tree.kids[1]), LAMBDA p : p.prod = "ProdPrefixReduce"))]

Alternatives(element) ==
  {Alternative(t) : t \in ToSet(Within(element, {"ProdFullSymbol"} \cup (Elems \ {"ProdSymbolCombine",
                                                                    "ProdSymbolCombineSingle"})))}

RightSides(line) ==
  LET elements == Within(line.kids[2], Elems)
      choices  == [k \in DOMAIN elements |-> Alternatives(elements[k])]
  IN  {r \in [DOMAIN choices -> UNION {choices[k] : k \in DOMAIN choices}] :
         \A k \in DOMAIN choices : r[k] \in choices[k]}

\* The precedence of %prec or of the last terminal.
PrecOf(line, right) ==
  LET given     == Within(line.kids[2], {"ProdPrecId", "ProdPrecQuote"})
      terminals == SelectSeq([k \in DOMAIN right |-> right[k].symbol], IsTerminal)
      symbol    == IF given # <<>> THEN Referred(given[1])
                   ELSE IF terminals # <<>> THEN Last(terminals) ELSE NothingThrown
  IN  IF symbol.flags = {"terminal"} /\ symbol.id \in DOMAIN lex.precedence
      THEN lex.precedence[symbol.id].value ELSE 0

ConflictsOf(right) ==
  LET with    == {k \in DOMAIN right : right[k].shift \cup right[k].reduce # {}}
      ids_(s) == {ids.nonTerminals[n] : n \in s}
  IN  [i \in {k - 1 : k \in with} |->
         [n \in ids_(right[i + 1].shift \cup right[i + 1].reduce) |->
            IF n \in ids_(right[i + 1].shift) THEN "shift" ELSE "reduce"]]

OverridesOf(line) ==
  LET exprs == ToSet(Within(line.kids[2], {"ReduceExpr", "ReduceExprWithTerminals"}))
      nonTerminals(e) == {ids.nonTerminals[n] : n \in ToSet(Texts(e.kids[1]))}
      terminals(e) == {Referred(t).id : t \in ToSet(Within(e, {"TerminalQuote"}))}
  IN  [n \in UNION {nonTerminals(e) : e \in exprs} |->
         UNION {terminals(e) : e \in {x \in exprs : n \in nonTerminals(x)}}]

LeftsOf(line) ==
  LET names == Within(line.kids[1], {"ProdLHSId", "ProdLHSNamedError"})
  IN  [k \in DOMAIN names |-> ids.nonTerminals[Text(names[k], 1)]]

Declared(line) ==
  {[name |-> Text(line, 1), left |-> LeftsOf(line)[l],
    right |-> [k \in DOMAIN r |-> r[k].symbol], prec |-> PrecOf(line, r),
    conflicts |-> ConflictsOf(r), overrides |-> OverridesOf(line),
    chain |-> LeftChain([k \in DOMAIN LeftsOf(line) |-> [id |-> LeftsOf(line)[k]]], l)] :
     l \in DOMAIN LeftsOf(line), r \in RightSides(line)}

Action(tree) ==
  {[name |-> Text(tree, 1), left |-> ids.nonTerminals[Text(tree, 1)], right |-> <<>>, prec |-> 0,
    conflicts |-> <<>>, overrides |-> <<>>, chain |-> <<>>]}

Produced(p) ==
  [name |-> p.name, left |-> p.left, right |-> p.right, prec |-> p.prec, conflicts |-> p.conflicts,
   overrides |-> p.overrides, chain |-> p.chain]

----------------------------------------------------------------------------
\* Files without mistakes

FirstTexts(prods) ==
  LET trees == Within(file.tree, prods) IN [k \in DOMAIN trees |-> Text(trees[k], 1)]

LexemeNames == {Text(line, 2) : line \in All({"ExprLine", "ExprLineAlias"})}
Aliases     == {Text(line, 3) : line \in All({"ExprLineAlias"})}

SoundExpressions ==
  /\ IsDistinct(FirstTexts({"MacroLine"}))
  /\ IsDistinct(FirstTexts({"ExprSection"}))
  /\ \A a, b \in All({"ExprLineAlias"}) : Text(a, 3) = Text(b, 3) => Text(a, 2) = Text(b, 2)

SoundReferences ==
  /\ \A t \in All({"Terminal", "ProdPrecId"}) : Text(t, 1) \in LexemeNames
  /\ \A t \in All({"TerminalQuote", "ProdPrecQuote", "ProdSymbolQuote"}) : Text(t, 1) \in Aliases

\* Conflict actions stand before terminals, one for a nonterminal.
SoundPrefix(full) ==
  LET prefixes == PrefixesOf(full.kids[1])
      names    == FlattenSeq([k \in DOMAIN prefixes |-> Texts(prefixes[k])])
      symbol   == full.kids[2]
  IN  names # <<>> => /\ IsDistinct(names)
                      /\ symbol.prod = "ProdSymbolQuote" \/ Text(symbol, 1) \in LexemeNames

NonTerminalNames ==
  Names(Within(file.tree, {"ProdLHSId", "NonterminalListId", "NonterminalListNested1",
                           "NonterminalListNested2", "ReduceNonterminalList",
                           "ReduceNonterminalListNested", "ProdSymbolAction"}))
    \cup {Text(t, 1) : t \in All({"ProdLHSNamedError"})}
    \cup (Names(Within(file.tree, {"ProdSymbolId"})) \ LexemeNames)

SoundProductions ==
  /\ IsDistinct(FirstTexts({"ProdLine"})
                  \o FlattenSeq([k \in DOMAIN Within(file.tree, {"ProdLine"}) |->
                       LET actions == Within(Within(file.tree, {"ProdLine"})[k], {"ProdSymbolAction"})
                       IN  [a \in DOMAIN actions |-> Text(actions[a], 1)]]))
  /\ \A full \in All({"ProdFullSymbol"}) : SoundPrefix(full)
  /\ LET starts == FlattenSeq([k \in DOMAIN Within(file.tree, {"ProdStartSymbolDecl"}) |->
                                 Texts(Within(file.tree, {"ProdStartSymbolDecl"})[k])])
     IN  IsDistinct(starts) /\ ToSet(starts) \subseteq NonTerminalNames

Mistaken ==
  \/ ~file.complete \/ All(Errors) # {}
  \/ ~SoundExpressions \/ ~SoundReferences \/ ~SoundProductions

\* %push and %goto enter expressions of the file.
SoundActions ==
  \A action \in All({"OptActionPush", "OptActionGoto"}) : Text(action, 1) \in ToSet(FirstTexts({"ExprSection"}))

\* An expression without lexemes is a warning.
Warned == \E section \in All({"ExprSection"}) : Within(section, Lines) = <<>>

\* A right hand side with more choices among symbols around '|' than the code can enumerate.
ManyChoices == \E line \in All({"ProdLine"}) : Len(Within(line, {"ProdSymbolCombine"})) > 2

----------------------------------------------------------------------------
\* Precedences

PrecLines ==
  Within(file.tree, {"PrecTerminalListAssoc1", "PrecTerminalListAssoc2", "PrecAssocTerminalList1",
                     "PrecAssocTerminalList2"})

\* A line without a quoted terminal declares nothing.
QuotedIn(line) == {Referred(t).id : t \in ToSet(Within(line, {"TerminalQuote"}))}
Declaring == SelectSeq(PrecLines, LAMBDA line : QuotedIn(line) # {})

NumberOf(line) == Texts(line.kids[1])

RECURSIVE ValueOf(_)
ValueOf(k) ==
  IF NumberOf(Declaring[k]) # <<>> THEN NumberOf(Declaring[k])[1][1]
  ELSE IF k = 1 THEN 0 ELSE ValueOf(k - 1) + 1

LastLine(code) ==
  CHOOSE k \in DOMAIN Declaring : /\ code \in QuotedIn(Declaring[k])
                                  /\ \A j \in k + 1 .. Len(Declaring) : code \notin QuotedIn(Declaring[j])

----------------------------------------------------------------------------
\* Properties

ElementOK(e) == e.type \in {"Empty", "String", "Vec", "Elements"} /\ Len(e.data) <= 1

TypeOK ==
  /\ phase \in {"idle", "parse", "map", "end", "crashed"}
  /\ result \in {"none", "refused", "cleared", "failed", "loaded"}
  /\ \A k \in DOMAIN stack : ElementOK(stack[k])
  /\ handler.errors \in Nat /\ mapErrors \in Nat
  /\ ToSet(lex.tokenLexemes) \subseteq 0 .. Len(lex.lexemes) - 1
  /\ \A c \in DOMAIN lex.precedence : lex.precedence[c].assoc \subseteq {"right", "nonassoc"}

\* The grammar has the productions of the file: every choice among the symbols around '|'
\* with every left hand side, with the precedence, conflict actions and overrides written there, and
\* an alias stands for the lexeme of its line.
\* (ParseData.cpp, BuildProductionRHS and CreateSymbolMap.)
ProductionsAsWritten ==
  Loaded /\ clean =>
    /\ {Produced(p) : p \in ToSet(grammar.productions)} =
      UNION {Declared(line) : line \in All({"ProdLine"})} \cup UNION {Action(a) : a \in All({"ProdSymbolAction"})}
    /\ \A line \in All({"ExprLineAlias"}) : lex.aliasToToken[Text(line, 3)] = lex.nameToToken[Text(line, 2)]

\* A file without mistakes and warnings is loaded, and one with a mistake is not: whichever handler
\* meets the mistake, and whatever the parse goes on with behind it.  The loader crashes only on
\* mistakes, and on three choices in one right hand side.  Nothing is said of two kinds of files the code is
\* wrong about: one with just an undefined expression in %push or %goto, which loads, and one with
\* just a warning, which is refused.  (checkForErrorAndReport, ErrorCount and errorCount.)
SoundFilesLoad ==
  clean =>
    /\ phase = "idle" /\ result = "loaded" => ~Mistaken
    /\ phase = "idle" /\ result = "failed" => Mistaken \/ ~SoundActions \/ Warned
    /\ phase = "crashed" => Mistaken \/ ManyChoices

\* Lines below bind tighter, from the number the last numbered line gives; a terminal that two
\* lines list has the precedence of the second.  (setupPrecedence.)
PrecedenceRises ==
  Loaded /\ clean =>
    \A c \in UNION {QuotedIn(Declaring[k]) : k \in DOMAIN Declaring} :
      lex.precedence[c].value = ValueOf(LastLine(c))

----------------------------------------------------------------------------
\* Claims of the documents and comments that do not hold

\* "Whenever a reduction by the `ErrLabel` as defined above occurs, an error will be generated
\* (instead of the nonterminal).  The parser will then skip tokens as expected, and unwind the
\* stack until it finds a named error terminal": a production that throws under a name throws the
\* terminal that %error() with this name stands for.  (doc/SGYacc_Grammar_Notes.md:89)
NamedErrorsCaught ==
  Loaded /\ clean =>
    \A t \in All({"ProdLHSNamedError"}) :
      LET name == <<"%error(">> \o Text(t, 2)
      IN  name \in DOMAIN grammar.symbols =>
            \E p \in ToSet(grammar.productions) :
              p.throws # NothingThrown /\ p.throws.id = grammar.symbols[name].id

=============================================================================
