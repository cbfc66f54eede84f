---------------------------- MODULE GrammarHandler ----------------------------
(****************************************************************************)
(* StdGrammarParseHandler (src/src/ParserGen/ParseData.cpp) collects what a *)
(* grammar file declares.  The file is parsed by the driver of Parse; every *)
(* reduction calls Reduce, which puts the values of the right hand side     *)
(* together into the value of the left hand side, adds lexemes, precedences *)
(* and productions, or reports a mistake.                                   *)
(*                                                                          *)
(* A file is the sequence of the steps of its parse: tokens shifted, errors *)
(* shifted by the recovery, and reductions.  A string is the sequence of    *)
(* the markers in front of a name and the name: <<"$", "'", "plus">>.       *)
(****************************************************************************)
EXTENDS Integers, FiniteSets, SequencesExt, TLC

TokenFirstID == 2

VARIABLES
  steps,    \* what is left of the parse
  stack,    \* values on the parse stack: [type, data]
  lex,      \* UserLex
  handler,  \* the fields of the handler
  phase     \* the part of LoadGrammar that runs

IsSeq(s) == Len(s) \in Nat /\ s = [k \in 1 .. Len(s) |-> s[k]]

\* std::map: insertion keeps the value a key has, assignment replaces it.
Inserted(table, key, value) ==
  [k \in DOMAIN table \cup {key} |-> IF k \in DOMAIN table THEN table[k] ELSE value]

Assigned(table, key, value) ==
  [k \in DOMAIN table \cup {key} |-> IF k = key THEN value ELSE table[k]]

handlerVars == <<steps, stack, lex, handler, phase>>

NoLex == [macros |-> <<>>, lexemes |-> <<>>, expressions |-> <<>>, expressionNames |-> <<>>,
          nameToToken |-> <<>>, aliasToToken |-> <<>>, tokenLexemes |-> <<>>, precedence |-> <<>>]

NewHandler == [errors |-> 0, labels |-> {}, startSymbols |-> <<>>, productions |-> <<>>,
               prec |-> [assoc |-> {}, value |-> 0]]

----------------------------------------------------------------------------
\* Stack elements: a pointer, with the type it had last.  data is empty when it is null.

Empty       == [type |-> "Empty", data |-> <<>>]
String(s)   == [type |-> "String", data |-> <<s>>]
Vec(v)      == [type |-> "Vec", data |-> <<v>>]
Elements(e) == [type |-> "Elements", data |-> <<e>>]

IsNull(element)  == element.data = <<>>
Of(element)      == element.data[1]
Cleanup(element) == [element EXCEPT !.data = <<>>]

\* The strings of a vector that may be null.
Strings(element) == IF IsNull(element) THEN <<>> ELSE Of(element)

Step == Head(steps)

AtEnd == steps = <<>>

Reducing(prods) == phase = "parse" /\ ~AtEnd /\ Step.kind = "reduce" /\ Step.prod \in prods

\* parse[i], the i-th symbol of the right hand side.
Parse(i) == stack[Len(stack) - Step.length + 1 + i]

\* The reduction's value goes to parse[0]; the driver cleans up what was above it.
Leave(element) ==
  /\ stack' = Append(SubSeq(stack, 1, Len(stack) - Step.length), element)
  /\ steps' = Tail(steps)
  /\ UNCHANGED phase

Hand(element) == Leave(element) /\ UNCHANGED <<lex, handler>>

\* checkForErrorAndReport, and for warnings too.
Reported(n) == [handler EXCEPT !.errors = @ + n]

----------------------------------------------------------------------------
\* ShiftToken, and SetErrorData for the errors of the recovery: identifiers, numbers
\* and quoted names leave their text.
Shift ==
  /\ phase = "parse" /\ ~AtEnd /\ Step.kind = "shift"
  /\ stack' = Append(stack, IF Step.text = <<>> THEN Empty ELSE String(Step.text))
  /\ steps' = Tail(steps)
  /\ UNCHANGED <<lex, handler, phase>>

\* Reductions that pass their first value on.
ReduceHanding ==
  /\ Reducing({"MacroExpr", "Num", "NumComma", "ProdLHSNameList", "ProdSymbolCombineSingle",
               "ProdSymbolId", "ProdRHSErrorNamed", "ProdPostfixReduce", "ReduceList"})
  /\ Hand(Parse(0))

\* Reductions that are there for their left hand side only.
EmptyMacros == {"RootBlock", "MacroSection", "MacroSectionEmpty", "MacroBlock", "MacroBlockEmpty"}
EmptyExpressions == {"ExprSectionList", "ExprSectionListEmpty", "ExprBlock", "ExprBlockEmpty"}
EmptyPrecedences == {"PrecSection", "PrecSectionEmpty", "PrecBlock", "PrecBlockEmpty", "NumEmpty"}
EmptyProductions ==
  {"ProdSection", "ProdSectionEmpty", "ProdStartNameList", "ProdStartNameListNested", "ProdBlock",
   "ProdBlockEmpty", "ProdPrefixEmpty", "ProdPostfixEmpty"}

ReduceEmpty ==
  /\ Reducing(EmptyMacros \cup EmptyExpressions \cup EmptyPrecedences \cup EmptyProductions)
  /\ Hand(Empty)

\* Reductions of an error report it and drop the values.
MacroErrors ==
  {"RootBlockError", "MacroSectionError", "MacroLineError", "MacroNameError", "MacroExprError"}
ExpressionErrors == {"ExprSectionError", "ExprLineError"}
PrecedenceErrors == {"PrecSectionError", "PrecError"}
ProductionErrors ==
  {"ProdStartSymbolDeclError", "ProdLeftError", "ProdRightError", "ProdFullSymbolError",
   "ProdPrefixShiftError", "ProdPrefixReduceError", "ProdSymbolActionError", "NamedErrorError"}

Errors == MacroErrors \cup ExpressionErrors \cup PrecedenceErrors \cup ProductionErrors

ReduceError ==
  /\ Reducing(Errors)
  /\ Leave(Cleanup(Parse(0)))
  /\ handler' = Reported(1)
  /\ UNCHANGED lex

----------------------------------------------------------------------------
\* Macros and expressions

ReduceMacroName == Reducing({"MacroName"}) /\ Hand(Parse(1))

ReduceMacroLine ==
  /\ Reducing({"MacroLine"})
  /\ LET sound   == ~IsNull(Parse(0)) /\ ~IsNull(Parse(1))
         defined == \E m \in ToSet(lex.macros) : m.name = Of(Parse(0))
     IN  /\ lex' = IF sound /\ ~defined
                   THEN [lex EXCEPT !.macros = Append(@, [name |-> Of(Parse(0)), regexp |-> Of(Parse(1))])]
                   ELSE lex
         /\ handler' = Reported(IF sound /\ defined THEN 1 ELSE 0)
  /\ Leave(Cleanup(Parse(0)))

\* The lines of an expression that add a lexeme.
Lines == {"ExprLine", "ExprLineAlias", "ExprLineIgnore"}

\* A block of expressions holds the lexemes since the end of the one before.
ReduceExprSection ==
  /\ Reducing({"ExprSection"})
  /\ LET name    == Of(Parse(1))
         before  == lex.expressions
         start   == IF before = <<>> THEN 0 ELSE Last(before).start + Last(before).count
         count   == Len(lex.lexemes) - start
         defined == name \in DOMAIN lex.expressionNames
     IN  /\ lex' = IF defined THEN lex
                   ELSE [lex EXCEPT !.expressionNames = Inserted(@, name, Len(before)),
                                    !.expressions = Append(@, [start |-> start, count |-> count])]
         /\ handler' = Reported((IF defined THEN 1 ELSE 0) + (IF count = 0 THEN 1 ELSE 0))
  /\ Leave(Empty)

ReduceOptAction ==
  /\ Reducing({"OptActionPush", "OptActionPop", "OptActionGoto", "OptActionNone"})
  /\ Hand(String(CASE Step.prod = "OptActionPush" -> <<"p">> \o Of(Parse(2))
                   [] Step.prod = "OptActionPop"  -> <<"o">>
                   [] Step.prod = "OptActionGoto" -> <<"g">> \o Of(Parse(2))
                   [] Step.prod = "OptActionNone" -> <<"n">>))

NewLexeme(name, regexp, action, code) ==
  [name |-> name, regexp |-> regexp, action |-> Head(action), param |-> Tail(action), value |-> 0,
   code |-> code]

\* Fault: a name met again gets the code of the name before it.
FaultyTokenOf(name) ==
  Len(lex.tokenLexemes) + TokenFirstID - (IF name \in DOMAIN lex.nameToToken THEN 1 ELSE 0)

\* Lexemes of one name share its code.
TokenOf(name) ==
  IF name \in DOMAIN lex.nameToToken THEN lex.nameToToken[name] ELSE Len(lex.tokenLexemes) + TokenFirstID

\* Fault: the lexeme is counted before its index is taken.
FaultyWithLexeme(name, regexp, action) ==
  LET code == TokenOf(name)
  IN  [lex EXCEPT !.lexemes = Append(@, NewLexeme(name, regexp, action, code)),
                  !.nameToToken = Inserted(@, name, code),
                  !.tokenLexemes = IF name \in DOMAIN lex.nameToToken THEN @ ELSE Append(@, Len(lex.lexemes) + 1)]

WithLexeme(name, regexp, action) ==
  LET known == name \in DOMAIN lex.nameToToken
      code  == TokenOf(name)
  IN  [lex EXCEPT !.lexemes = Append(@, NewLexeme(name, regexp, action, code)),
                  !.nameToToken = Inserted(@, name, code),
                  !.tokenLexemes = IF known THEN @ ELSE Append(@, Len(lex.lexemes))]

ReduceExprLine ==
  /\ Reducing({"ExprLine"})
  /\ lex' = WithLexeme(Of(Parse(1)), Of(Parse(0)), Of(Parse(2)))
  /\ Leave(Empty)
  /\ UNCHANGED handler

\* An alias stands for one name.
AliasTaken(alias, name) ==
  alias \in DOMAIN lex.aliasToToken /\
    lex.lexemes[lex.tokenLexemes[lex.aliasToToken[alias] - TokenFirstID + 1] + 1].name # name

ReduceExprLineAlias ==
  /\ Reducing({"ExprLineAlias"})
  /\ LET name  == Of(Parse(1))
         alias == Of(Parse(3))
         taken == AliasTaken(alias, name)
     IN  /\ lex' = IF taken THEN lex
                   ELSE [WithLexeme(name, Of(Parse(0)), Of(Parse(4)))
                           EXCEPT !.aliasToToken = Assigned(@, alias, TokenOf(name))]
         /\ handler' = Reported(IF taken THEN 1 ELSE 0)
  /\ Leave(Empty)

ReduceExprLineIgnore ==
  /\ Reducing({"ExprLineIgnore"})
  /\ lex' = [lex EXCEPT !.lexemes = Append(@, NewLexeme(<<>>, Of(Parse(0)), Of(Parse(2)), 0))]
  /\ Leave(Empty)
  /\ UNCHANGED handler

----------------------------------------------------------------------------
\* Precedence

ReduceAssoc ==
  /\ Reducing({"AssocLeft", "AssocRight", "AssocNon"})
  /\ Hand(String(CASE Step.prod = "AssocLeft" -> <<"l">> [] Step.prod = "AssocRight" -> <<"r">>
                   [] Step.prod = "AssocNon" -> <<"n">>))

\* A name keeps its string only when something is wrong with it, a quoted one gets a marker.
\* PrecedenceLines, that would tell a terminal with two precedences, is never filled.
ReduceTerminal ==
  /\ Reducing({"Terminal", "TerminalQuote"})
  /\ LET quoted  == Step.prod = "TerminalQuote"
         name    == Of(Parse(0))
         defined == name \in DOMAIN (IF quoted THEN lex.aliasToToken ELSE lex.nameToToken)
     IN  /\ Leave(IF quoted /\ defined THEN String(<<"'">> \o name) ELSE Cleanup(Parse(0)))
         /\ handler' = Reported(IF defined THEN 0 ELSE 1)
  /\ UNCHANGED lex

\* Lists of terminals, names and nonterminals: the last symbol of the right hand side is added
\* to the list in front, or begins one.
ReduceListBegins ==
  /\ Reducing({"TerminalOne", "ProdStartSymbolListId", "NonterminalListId", "ProdLHSId",
               "ReduceNonterminalList", "ReduceTerminalList", "ProdPostfixPrec"})
  /\ LET mark == IF Step.prod = "ReduceTerminalList" THEN <<"+">> ELSE <<>>
     IN  Hand(IF IsNull(Parse(0)) THEN Parse(0) ELSE Vec(<<mark \o Of(Parse(0))>>))

ListGrows ==
  {"TerminalList", "TerminalListComma", "ProdStartSymbolListNested", "NonterminalListNested1",
   "NonterminalListNested2", "ReduceNonterminalListNested", "ReduceTerminalListNested"}

\* A string for a list whose first element was dropped.
ListMissing == Reducing(ListGrows) /\ ~IsNull(Parse(Step.length - 1)) /\ IsNull(Parse(0))

ReduceListGrows ==
  /\ Reducing(ListGrows) /\ ~ListMissing
  /\ LET mark == IF Step.prod = "ReduceTerminalListNested" THEN <<"+">> ELSE <<>>
         last == Parse(Step.length - 1)
     IN  Hand(IF IsNull(last) THEN Parse(0) ELSE Vec(Append(Of(Parse(0)), mark \o Of(last))))

Associated(assoc) == CASE assoc = <<"l">> -> {} [] assoc = <<"r">> -> {"right"}
                       [] assoc = <<"n">> -> {"nonassoc"}

CodeOf(terminal) ==
  IF Head(terminal) = "'" THEN lex.aliasToToken[Tail(terminal)] ELSE lex.nameToToken[terminal]

\* Fault: all lines get the same value.
FaultyRaised(prec) == prec

Raised(prec) == [prec EXCEPT !.value = @ + 1]

\* setupPrecedence: the value of a line is its number, or one more than that of the line
\* before, whose associativity it keeps when that line had a number.
ReducePrecedence ==
  /\ Reducing({"PrecTerminalListAssoc1", "PrecTerminalListAssoc2", "PrecAssocTerminalList1",
               "PrecAssocTerminalList2"})
  /\ LET from     == [PrecTerminalListAssoc1 |-> <<1, 2>>, PrecTerminalListAssoc2 |-> <<1, 3>>,
                      PrecAssocTerminalList1 |-> <<2, 1>>, PrecAssocTerminalList2 |-> <<3, 1>>][Step.prod]
         list     == Parse(from[1])
         assoc    == Parse(from[2])
         numbered == ~IsNull(Parse(0))
         declared == Associated(Of(assoc))
         prec     == IF numbered THEN [assoc |-> declared, value |-> Of(Parse(0))[1]]
                     ELSE [assoc |-> declared \cup handler.prec.assoc, value |-> handler.prec.value]
         codes    == {CodeOf(Of(list)[k]) : k \in DOMAIN Of(list)}
     IN  IF IsNull(list) \/ IsNull(assoc) THEN UNCHANGED <<lex, handler>>
         ELSE /\ handler' = [handler EXCEPT !.prec = Raised(IF numbered THEN prec ELSE @)]
              /\ lex' = [lex EXCEPT !.precedence = [c \in codes |-> prec] @@ @]
  /\ Leave(Empty)

----------------------------------------------------------------------------
\* Start symbols and the left hand side of productions

NewStarts(names) ==
  {k \in DOMAIN names : names[k] \notin ToSet(handler.startSymbols) \cup ToSet(SubSeq(names, 1, k - 1))}

\* The symbols up to the first one that is there already.
ReduceStartSymbols ==
  /\ Reducing({"ProdStartSymbolDecl"})
  /\ LET names  == Of(Parse(1))
         fresh  == {k \in DOMAIN names : 1 .. k \subseteq NewStarts(names)}
         twice  == Cardinality(fresh) < Len(names)
     IN  handler' = [Reported(IF twice THEN 1 ELSE 0) EXCEPT
                       !.startSymbols = @ \o SubSeq(names, 1, Cardinality(fresh))]
  /\ Leave(Empty)
  /\ UNCHANGED lex

\* Label and left hand sides, each with the error it throws behind it.
ReduceProdLeft ==
  /\ Reducing({"ProdLeft"})
  /\ Hand(Vec(<<Of(Parse(0))>> \o Of(Parse(1))))

ReduceLHSNamedError ==
  /\ Reducing({"ProdLHSNamedError"})
  /\ Hand(Vec(<<Of(Parse(0))>> \o (IF IsNull(Parse(1)) THEN <<>> ELSE <<Of(Parse(1))>>)))

\* Vectors that are joined: left hand sides and reduce expressions.
ReduceVecGrows ==
  /\ Reducing({"ProdLHSNameListNested", "ReduceListNested"})
  /\ Hand(Vec(Strings(Parse(0)) \o Strings(Parse(2))))

----------------------------------------------------------------------------
\* The right hand side of productions

ReduceSymbol ==
  /\ Reducing({"ProdSymbolQuote", "ProdRHSError", "ProdRHSErrorBacktrack", "NamedError"})
  /\ Hand(String(CASE Step.prod = "ProdSymbolQuote"       -> <<"'">> \o Of(Parse(0))
                   [] Step.prod = "ProdRHSError"          -> <<"%error">>
                   [] Step.prod = "ProdRHSErrorBacktrack" -> <<"%error_backtrack">>
                   [] Step.prod = "NamedError"            -> <<"%error(">> \o Of(Parse(2))))

\* An action is an empty production of its own name.
ReduceSymbolAction ==
  /\ Reducing({"ProdSymbolAction"})
  /\ LET name == Of(Parse(2))
     IN  IF name \in handler.labels THEN Leave(Cleanup(Parse(2))) /\ handler' = Reported(1)
         ELSE /\ Leave(Parse(2))
              /\ handler' = [handler EXCEPT
                   !.labels = @ \cup {name},
                   !.productions = Append(@, [name |-> name, left |-> <<name>>, right |-> <<>>])]
  /\ UNCHANGED lex

ReducePrefix ==
  /\ Reducing({"ProdPrefixShift", "ProdPrefixReduce"})
  /\ LET mark == IF Step.prod = "ProdPrefixShift" THEN <<">">> ELSE <<"<">>
         list == Of(Parse(3))
     IN  Hand(Vec(Strings(Parse(0)) \o [k \in DOMAIN list |-> mark \o list[k]]))

\* The symbol and behind it its conflict actions.
ReduceFullSymbol ==
  /\ Reducing({"ProdFullSymbol"})
  /\ Hand(Vec((IF IsNull(Parse(1)) THEN <<>> ELSE <<Of(Parse(1))>>) \o Strings(Parse(0))))

\* Symbols with '|' between them become elements of one vector.  What the first one left
\* when it was dropped is no vector.
CombineMissing == Reducing({"ProdSymbolCombine"}) /\ Parse(0).type # "Vec" /\ IsNull(Parse(0))

ReduceSymbolCombine ==
  /\ Reducing({"ProdSymbolCombine"}) /\ ~CombineMissing
  /\ LET before == IF Parse(0).type = "Vec" THEN <<Parse(0)>> ELSE Of(Parse(0))
     IN  Hand(Elements(Append(before, [type |-> "Vec", data |-> Parse(2).data])))

ReduceRHSEmpty == Reducing({"ProdRHSEmpty"}) /\ Hand(Elements(<<>>))

ReduceRHS ==
  /\ Reducing({"ProdRHS", "ProdRHSErrorToken"})
  /\ LET added == IF Step.prod = "ProdRHSErrorToken" THEN <<[type |-> "String", data |-> Parse(1).data]>>
                  ELSE IF IsNull(Parse(1)) THEN <<>> ELSE <<Parse(1)>>
     IN  Hand(Elements(Of(Parse(0)) \o added))

ReduceRight ==
  /\ Reducing({"ProdRight"})
  /\ Hand(Elements(Of(Parse(0)) \o (IF IsNull(Parse(1)) THEN <<>> ELSE <<Vec(Of(Parse(1)))>>)))

ReducePrec ==
  /\ Reducing({"ProdPrecId", "ProdPrecQuote"})
  /\ LET quoted  == Step.prod = "ProdPrecQuote"
         name    == Of(Parse(1))
         defined == name \in DOMAIN (IF quoted THEN lex.aliasToToken ELSE lex.nameToToken)
     IN  /\ Leave(IF ~defined THEN Cleanup(Parse(0))
                  ELSE String((IF quoted THEN <<"$", "'">> ELSE <<"$">>) \o name))
         /\ handler' = Reported(IF defined THEN 0 ELSE 1)
  /\ UNCHANGED lex

\* The precedence comes first.
ReducePostfix ==
  /\ Reducing({"ProdPostfixPrecReduce", "ProdPostfixReducePrec"})
  /\ LET prec   == IF Step.prod = "ProdPostfixPrecReduce" THEN Parse(0) ELSE Parse(1)
         reduce == IF Step.prod = "ProdPostfixPrecReduce" THEN Parse(1) ELSE Parse(0)
     IN  Hand(IF IsNull(prec) THEN [type |-> "Vec", data |-> reduce.data]
              ELSE Vec(<<Of(prec)>> \o Strings(reduce)))

ReduceReduce == Reducing({"ProdReduce"}) /\ Hand([type |-> "Vec", data |-> Parse(2).data])

\* Nonterminals, the first one with a mark, and the terminals they are reduced before.
ReduceExpr ==
  /\ Reducing({"ReduceExpr", "ReduceExprWithTerminals"})
  /\ LET nonterminals == Of(Parse(0))
         terminals    == IF Step.prod = "ReduceExpr" THEN <<>> ELSE Strings(Parse(2))
     IN  Hand(Vec(<<<<"*">> \o Head(nonterminals)>> \o Tail(nonterminals) \o terminals))

----------------------------------------------------------------------------
\* BuildProductionRHS: one production for every choice among the elements that were
\* combined.  A counter for each of them is turned on, the last one first.

IsGroup(element) == element.type = "Elements"

Groups(elements) == SelectSeq(elements, IsGroup)

Sizes(elements) == [g \in DOMAIN Groups(elements) |-> Len(Of(Groups(elements)[g]))]

ProductionCount(sizes) == FoldLeft(LAMBDA n, size : n * size, 1, sizes)

\* A turn of the loop.  When a counter is at its end the one in front is turned, and then the
\* one behind that, which is not always the last.
Turned(sizes, turn) ==
  LET group == turn.group
      next  == [turn.counters EXCEPT ![group] = @ + 1]
  IN  IF Len(turn.made) = ProductionCount(sizes) \/ group = 0 THEN turn
      ELSE IF next[group] = sizes[group]
           THEN [turn EXCEPT !.counters[group] = 0, !.group = group - 1]
      ELSE [counters |-> next, made |-> Append(turn.made, next),
            group |-> IF group = Len(sizes) THEN group ELSE group + 1]

\* The settings of the counters.  There are none when the search leaves the counters.
Settings(sizes) ==
  LET zeros   == [g \in DOMAIN sizes |-> 0]
      turns[k \in Nat] == IF k = 0 THEN [counters |-> zeros, made |-> <<zeros>>, group |-> Len(sizes)]
                          ELSE Turned(sizes, turns[k - 1])
      made    == turns[2 * ProductionCount(sizes) + Len(sizes)].made
  IN  IF Len(made) = ProductionCount(sizes) THEN made ELSE <<>>

\* Fault: the first counter chooses in all of them.
FaultyChosen(elements, setting, k) ==
  CASE elements[k].type = "String"   -> <<Of(elements[k])>>
    [] elements[k].type = "Vec"      -> Of(elements[k])
    [] elements[k].type = "Elements" -> Of(Of(elements[k])[setting[1] + 1])

\* The strings of the k-th element under a setting.
Chosen(elements, setting, k) ==
  LET group == Len(Groups(SubSeq(elements, 1, k)))
  IN  CASE elements[k].type = "String"   -> <<Of(elements[k])>>
        [] elements[k].type = "Vec"      -> Of(elements[k])
        [] elements[k].type = "Elements" -> Of(Of(elements[k])[setting[group] + 1])

BuildProductionRHS(elements) ==
  LET settings == Settings(Sizes(elements))
  IN  [s \in DOMAIN settings |->
         FlattenSeq([k \in DOMAIN elements |-> Chosen(elements, settings[s], k)])]

\* It reads elements that were dropped after an error, and counters that are not there.
RightMissing(elements) ==
  \/ \E k \in DOMAIN elements :
       \/ IsNull(elements[k])
       \/ IsGroup(elements[k]) /\ \E j \in DOMAIN Of(elements[k]) : IsNull(Of(elements[k])[j])
  \/ Settings(Sizes(elements)) = <<>>

LineSound == ~IsNull(Parse(0)) /\ ~IsNull(Parse(1)) /\ Head(Of(Parse(0))) \notin handler.labels

LineMissing == Reducing({"ProdLine"}) /\ LineSound /\ RightMissing(Of(Parse(1)))

ReduceProdLine ==
  /\ Reducing({"ProdLine"}) /\ ~LineMissing
  /\ LET known == ~IsNull(Parse(0)) /\ ~IsNull(Parse(1))
     IN  IF ~LineSound THEN handler' = Reported(IF known THEN 1 ELSE 0)
         ELSE \E right \in {BuildProductionRHS(Of(Parse(1)))} :
                LET label == Head(Of(Parse(0)))
                    made(r) == [name |-> label, left |-> Tail(Of(Parse(0))), right |-> r]
                IN  handler' = [handler EXCEPT !.labels = @ \cup {label},
                                  !.productions = @ \o [k \in DOMAIN right |-> made(right[k])]]
  /\ Leave(Empty)
  /\ UNCHANGED lex

\* A null pointer is read, or a counter that is not there.
Crash ==
  /\ ListMissing \/ CombineMissing \/ LineMissing
  /\ phase' = "crashed"
  /\ UNCHANGED <<steps, stack, lex, handler>>

Reduce ==
  \/ ReduceHanding \/ ReduceEmpty \/ ReduceError
  \/ ReduceMacroName \/ ReduceMacroLine
  \/ ReduceExprSection \/ ReduceOptAction \/ ReduceExprLine \/ ReduceExprLineAlias \/ ReduceExprLineIgnore
  \/ ReduceAssoc \/ ReduceTerminal \/ ReduceListBegins \/ ReduceListGrows \/ ReducePrecedence
  \/ ReduceStartSymbols \/ ReduceProdLeft \/ ReduceLHSNamedError \/ ReduceVecGrows
  \/ ReduceSymbol \/ ReduceSymbolAction \/ ReducePrefix \/ ReduceFullSymbol \/ ReduceSymbolCombine
  \/ ReduceRHSEmpty \/ ReduceRHS \/ ReduceRight
  \/ ReducePrec \/ ReducePostfix \/ ReduceReduce \/ ReduceExpr
  \/ ReduceProdLine \/ Crash

=============================================================================
