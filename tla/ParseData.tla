------------------------------ MODULE ParseData ------------------------------
(****************************************************************************)
(* StdGrammarParseData (src/src/ParserGen/ParseData.cpp) loads a grammar    *)
(* file: it has it parsed by GrammarHandler, gives the symbols of the       *)
(* productions ids (CreateSymbolMap), and fills in the grammar the parse    *)
(* tables are made from.                                                    *)
(****************************************************************************)
EXTENDS GrammarHandler

CONSTANTS
  Files,    \* the grammar files: [tree, steps, complete], the steps are those of the parse
  MaxLoads  \* bound on the loads

\* A line of an expression is followed by the end of the expression, if the parse gets there
\* without an error.
Closes(step) ==
  \/ step.kind = "giveUp"
  \/ step.kind = "reduce" /\ step.prod \in {"ExprSection"} \cup Errors

SectionsClose(parse) ==
  \A i \in DOMAIN parse :
    parse[i].kind = "reduce" /\ parse[i].prod \in Lines => \E j \in DOMAIN parse : j > i /\ Closes(parse[j])

ASSUME FilesAssumption == \A f \in Files : IsSeq(f.steps) /\ SectionsClose(f.steps)

VARIABLES
  file,     \* the file loaded last
  loads,    \* loads so far
  clean,    \* whether nothing was left when the load began
  ids,      \* nonTerminals, symbols and the two counters
  map,      \* the production CreateSymbolMap is at
  productions, startSymbols, mapErrors,
  grammar,  \* UserGrammar
  result    \* what the last call returned

mapVars == <<ids, map, productions, startSymbols, mapErrors>>
vars    == <<handlerVars, mapVars, file, loads, clean, grammar, result>>

NoGrammar == [productions |-> <<>>, startSymbols |-> <<>>, symbols |-> <<>>, precedence |-> <<>>]

NoFile == [tree |-> <<>>, complete |-> FALSE]

TokenError == 0

NonTerminal(id) == [id |-> id, flags |-> {}]
Terminal(code)  == [id |-> code, flags |-> {"terminal"}]
IsTerminal(symbol) == "terminal" \in symbol.flags

----------------------------------------------------------------------------
\* LoadGrammar and ClearGrammar

IsValid == lex.lexemes # <<>> /\ grammar.productions # <<>>

NoIds == [nonTerminals |-> <<>>, symbols |-> <<>>, next |-> 0, nextTerminal |-> 0]

NoMap == [index |-> 0, right |-> <<>>, read |-> <<>>, rhs |-> <<>>, conflicts |-> <<>>, prec |-> 0,
          reduces |-> FALSE, nonTerminals |-> {}, terminals |-> {}, overrides |-> <<>>,
          left |-> <<>>, lefts |-> <<>>]

\* The k-th production is begun with.
Begun(k) ==
  IF k <= Len(handler.productions)
  THEN [NoMap EXCEPT !.index = k, !.right = handler.productions[k].right, !.left = handler.productions[k].left]
  ELSE [NoMap EXCEPT !.index = k]

Refuse ==
  /\ phase = "idle" /\ loads < MaxLoads /\ IsValid
  /\ loads' = loads + 1 /\ result' = "refused"
  /\ UNCHANGED <<handlerVars, mapVars, file, clean, grammar>>

\* What BuildParser and the handler have of their own is new for each load.
Fresh ==
  /\ stack' = <<>> /\ handler' = NewHandler
  /\ ids' = NoIds /\ map' = NoMap /\ productions' = <<>> /\ startSymbols' = <<>> /\ mapErrors' = 0

LoadGrammar ==
  /\ phase = "idle" /\ loads < MaxLoads /\ ~IsValid
  /\ phase' = "parse" /\ loads' = loads + 1 /\ result' = "none"
  /\ \E f \in Files : file' = [tree |-> f.tree, complete |-> f.complete] /\ steps' = f.steps
  /\ clean' = (lex = NoLex)
  /\ Fresh
  /\ UNCHANGED <<lex, grammar>>

\* Lex::Clear leaves the precedences.
ClearGrammar ==
  /\ phase = "idle" /\ lex # [NoLex EXCEPT !.precedence = lex.precedence]
  /\ lex' = [NoLex EXCEPT !.precedence = lex.precedence]
  /\ grammar' = NoGrammar
  /\ result' = "cleared"
  /\ Fresh
  /\ file' = NoFile
  /\ UNCHANGED <<steps, phase, clean, loads>>

\* BuildParser ends without touching the grammar; the lexemes read so far stay.
Fail ==
  /\ phase' = "idle" /\ result' = "failed"
  /\ Fresh
  /\ steps' = <<>>
  /\ UNCHANGED <<file, lex, loads, clean, grammar>>

GivesUp == ~AtEnd /\ Step.kind = "giveUp"

ParseFails == phase = "parse" /\ (GivesUp \/ (AtEnd /\ handler.errors > 0)) /\ Fail

\* ConvertActionParam, whose result is not looked at.
Converted(lexeme) ==
  [lexeme EXCEPT !.value = IF lexeme.param \in DOMAIN lex.expressionNames
                           THEN lex.expressionNames[lexeme.param] ELSE @]

\* Fault: the codes in front of the tokens are forgotten.
FaultyFirstErrorId == Len(lex.tokenLexemes)

\* Named errors are numbered behind the tokens.
FirstErrorId == Len(lex.tokenLexemes) + TokenFirstID

ParseEnds ==
  /\ phase = "parse" /\ AtEnd /\ handler.errors = 0
  /\ phase' = "map"
  /\ lex' = [lex EXCEPT !.lexemes = [j \in DOMAIN lex.lexemes |-> Converted(lex.lexemes[j])]]
  /\ ids' = [NoIds EXCEPT !.nextTerminal = FirstErrorId]
  /\ map' = Begun(1)
  /\ UNCHANGED <<file, steps, stack, handler, productions, startSymbols, mapErrors, loads, clean, grammar,
                 result>>

----------------------------------------------------------------------------
\* CreateSymbolMap

MapStep == UNCHANGED <<file, steps, stack, lex, handler, loads, clean>>

InProduction == phase = "map" /\ map.index <= Len(handler.productions)

Production == handler.productions[map.index]

\* A nonterminal met for the first time gets the next id.
Known(table, name) ==
  IF name \in DOMAIN table.nonTerminals THEN table
  ELSE [table EXCEPT !.nonTerminals = Inserted(@, name, table.next), !.next = @ + 1]

IdOf(table, name) == table.nonTerminals[name]

ErrorSymbol(id) == [id |-> id, flags |-> {"terminal", "error"}]

IsErrorName(name) == Head(name) = "%error("

\* An error with a name has the terminal it was given first.
NamedError(name) ==
  IF name \in DOMAIN ids.symbols THEN ids.symbols[name] ELSE ErrorSymbol(ids.nextTerminal)

\* The terminal a string refers to, in a set: none for nonterminals and for quoted
\* names nobody declared.
Found(name, quoted) ==
  CASE quoted -> {Terminal(lex.aliasToToken[n]) : n \in {name} \cap DOMAIN lex.aliasToToken}
    [] ~quoted /\ IsErrorName(name) -> {NamedError(name)}
    [] ~quoted /\ name = <<"%error">> -> {Terminal(TokenError)}
    [] ~quoted /\ name = <<"%error_backtrack">> ->
         {[id |-> TokenError, flags |-> {"terminal", "backtrack"}]}
    [] OTHER -> {Terminal(lex.nameToToken[n]) : n \in {name} \cap DOMAIN lex.nameToToken}

ReadsSymbol == InProduction /\ map.read = <<>> /\ map.right # <<>>

\* What a string of the right hand side refers to is looked up: the string without its
\* markers, whether it is the precedence, and the terminal it was found to be.
FindSymbol ==
  /\ ReadsSymbol /\ ~map.reduces /\ Head(Head(map.right)) # "*"
  /\ LET written  == Head(map.right)
         prec     == Head(written) = "$"
         referred == IF prec THEN Tail(written) ELSE written
         quoted   == Head(referred) = "'"
         name     == IF quoted THEN Tail(referred) ELSE referred
         found    == Found(name, quoted)
         isNew    == ~quoted /\ IsErrorName(name) /\ name \notin DOMAIN ids.symbols
     IN  /\ ids' = [ids EXCEPT !.nextTerminal = @ + (IF isNew THEN 1 ELSE 0)]
         /\ map' = [map EXCEPT !.right = Tail(@),
                               !.read = <<[name |-> name, prec |-> prec, found |-> found, misplaced |-> FALSE]>>]
         /\ mapErrors' = mapErrors + (IF found = {} /\ quoted THEN 1 ELSE 0)
  /\ UNCHANGED <<phase, productions, startSymbols, grammar, result>>
  /\ MapStep

Read == map.read[1]

ActionBehind == map.right # <<>> /\ Head(Head(map.right)) \in {">", "<"}

\* Fault: an action replaces the one the nonterminal has.
FaultyWithAction(made, action) ==
  LET table == Known(made.table, Tail(action))
      id    == IdOf(table, Tail(action))
  IN  [made EXCEPT !.table = table,
                   !.actions = Assigned(@, id, IF Head(action) = ">" THEN "shift" ELSE "reduce")]

\* A nonterminal has one action before a symbol.
WithAction(made, action) ==
  LET table == Known(made.table, Tail(action))
      id    == IdOf(table, Tail(action))
      taken == id \in DOMAIN made.actions
  IN  [table   |-> table,
       errors  |-> made.errors + (IF taken THEN 1 ELSE 0),
       actions |-> Inserted(made.actions, id, IF Head(action) = ">" THEN "shift" ELSE "reduce")]

\* The actions written at a place of the right hand side.
ActionsAt(k) == IF k \in DOMAIN map.conflicts THEN map.conflicts[k] ELSE <<>>

\* A conflict action behind the symbol read, which has to be a terminal.
MapAction ==
  /\ InProduction /\ map.read # <<>> /\ ActionBehind
  /\ LET place == Len(map.rhs)
         made  == WithAction([table |-> ids, errors |-> mapErrors, actions |-> ActionsAt(place)], Head(map.right))
     IN  IF Read.found = {}
         THEN /\ map' = [map EXCEPT !.right = Tail(@), !.read = <<[Read EXCEPT !.misplaced = TRUE]>>]
              /\ UNCHANGED <<ids, mapErrors>>
         ELSE /\ map' = [map EXCEPT !.right = Tail(@), !.conflicts = Assigned(@, place, made.actions)]
              /\ ids' = made.table /\ mapErrors' = made.errors
  /\ UNCHANGED <<phase, productions, startSymbols, grammar, result>>
  /\ MapStep

\* What is no terminal is a nonterminal.  The symbol goes to the right hand side.
MapSymbol ==
  /\ InProduction /\ map.read # <<>> /\ ~ActionBehind
  /\ LET terminal == Read.found # {}
         table    == IF terminal THEN ids ELSE Known(ids, Read.name)
         symbol   == IF terminal THEN CHOOSE s \in Read.found : TRUE ELSE NonTerminal(IdOf(table, Read.name))
     IN  /\ ids' = IF Read.prec THEN table ELSE [table EXCEPT !.symbols = Inserted(@, Read.name, symbol)]
         /\ map' = [map EXCEPT
              !.read = <<>>,
              !.rhs = IF Read.prec THEN @ ELSE Append(@, symbol),
              !.prec = IF ~terminal THEN @
                       ELSE IF symbol.flags = {"terminal"} /\ symbol.id \in DOMAIN lex.precedence
                            THEN lex.precedence[symbol.id].value ELSE 0]
         /\ mapErrors' = mapErrors + (IF Read.misplaced THEN 1 ELSE 0)
  /\ UNCHANGED <<phase, productions, startSymbols, grammar, result>>
  /\ MapStep

\* The nonterminals read so far are reduced to before the terminals read so far.
Stored(made) ==
  [made EXCEPT
     !.overrides = [n \in DOMAIN @ \cup made.nonTerminals |->
                      (IF n \in DOMAIN @ THEN @[n] ELSE {}) \cup
                      (IF n \in made.nonTerminals THEN made.terminals ELSE {})],
     !.nonTerminals = {}, !.terminals = {}]

OverrideTerminal(made, written) ==
  LET quoted == Head(written) = "'"
      table  == IF quoted THEN lex.aliasToToken ELSE lex.nameToToken
      name   == IF quoted THEN Tail(written) ELSE written
  IN  IF name \in DOMAIN table THEN [made EXCEPT !.terminals = @ \cup {table[name]}]
      ELSE [made EXCEPT !.errors = @ + 1]

OverrideNonTerminal(made, name) ==
  LET table == Known(made.table, name)
  IN  [made EXCEPT !.table = table, !.nonTerminals = @ \cup {IdOf(table, name)}]

WithOverride(made, written) ==
  CASE Head(written) = "+" -> OverrideTerminal(made, Tail(written))
    [] Head(written) = "*" -> OverrideNonTerminal(Stored(made), Tail(written))
    [] OTHER -> OverrideNonTerminal(made, written)

\* %reduce at the end of the right hand side.
MapOverride ==
  /\ ReadsSymbol /\ (map.reduces \/ Head(Head(map.right)) = "*")
  /\ LET before == [table |-> ids, overrides |-> map.overrides, nonTerminals |-> map.nonTerminals,
                    terminals |-> map.terminals, errors |-> mapErrors]
         read   == WithOverride(before, Head(map.right))
         made   == IF Len(map.right) = 1 THEN Stored(read) ELSE read
     IN  /\ ids' = made.table
         /\ map' = [map EXCEPT !.right = Tail(@), !.reduces = TRUE, !.overrides = made.overrides,
                               !.nonTerminals = made.nonTerminals, !.terminals = made.terminals]
         /\ mapErrors' = made.errors
  /\ UNCHANGED <<phase, productions, startSymbols, grammar, result>>
  /\ MapStep

NothingThrown == [id |-> 0, flags |-> {}]

\* A left hand side that is not known yet is a symbol, too.
WithLeft(made, name) ==
  IF IsErrorName(name)
  THEN LET symbols == made.table.symbols
           known   == name \in DOMAIN symbols
           thrown  == IF known THEN symbols[name] ELSE [id |-> made.table.nextTerminal, flags |-> {"error"}]
       IN  [table |-> [made.table EXCEPT !.nextTerminal = @ + (IF known THEN 0 ELSE 1)],
            lefts |-> [made.lefts EXCEPT ![Len(made.lefts)].throws = thrown]]
  ELSE LET isNew == name \notin DOMAIN made.table.nonTerminals
           table == Known(made.table, name)
           id    == IdOf(table, name)
       IN  [table |-> [table EXCEPT !.symbols = IF isNew THEN Assigned(@, name, NonTerminal(id)) ELSE @],
            lefts |-> Append(made.lefts, [id |-> id, throws |-> NothingThrown])]

\* The left hand sides but the k-th.
LeftChain(lefts, k) == [j \in 1 .. Len(lefts) - 1 |-> lefts[IF j < k THEN j ELSE j + 1].id]

MapLeft ==
  /\ InProduction /\ map.read = <<>> /\ map.right = <<>> /\ map.left # <<>>
  /\ LET made == WithLeft([table |-> ids, lefts |-> map.lefts], Head(map.left))
     IN  /\ ids' = made.table
         /\ map' = [map EXCEPT !.left = Tail(@), !.lefts = made.lefts]
  /\ UNCHANGED <<phase, productions, startSymbols, mapErrors, grammar, result>>
  /\ MapStep

\* One production for every left hand side.
MapProductions ==
  /\ InProduction /\ map.read = <<>> /\ map.right = <<>> /\ map.left = <<>>
  /\ productions' = productions \o [k \in DOMAIN map.lefts |->
       [name |-> Production.name, left |-> map.lefts[k].id, right |-> map.rhs, prec |-> map.prec,
        conflicts |-> map.conflicts, overrides |-> map.overrides,
        chain |-> LeftChain(map.lefts, k), throws |-> map.lefts[k].throws]]
  /\ map' = Begun(map.index + 1)
  /\ UNCHANGED <<phase, ids, startSymbols, mapErrors, grammar, result>>
  /\ MapStep

Starting(name) == name \in DOMAIN ids.nonTerminals

MapStartSymbols ==
  /\ phase = "map" /\ map.index > Len(handler.productions)
  /\ LET known == SelectSeq(handler.startSymbols, Starting)
     IN  /\ startSymbols' = [k \in DOMAIN known |-> ids.nonTerminals[known[k]]]
         /\ mapErrors' = mapErrors + Len(handler.startSymbols) - Len(known)
  /\ phase' = "end"
  /\ UNCHANGED <<ids, map, productions, grammar, result>>
  /\ MapStep

MapFails == phase = "end" /\ mapErrors > 0 /\ Fail

MapEnds ==
  /\ phase = "end" /\ mapErrors = 0
  /\ grammar' = [productions |-> productions, startSymbols |-> startSymbols, symbols |-> ids.symbols,
                 precedence |-> lex.precedence]
  /\ phase' = "idle" /\ result' = "loaded"
  /\ UNCHANGED mapVars /\ MapStep

----------------------------------------------------------------------------
Init ==
  /\ file = NoFile /\ steps = <<>> /\ stack = <<>> /\ lex = NoLex /\ handler = NewHandler /\ phase = "idle"
  /\ loads = 0 /\ clean = TRUE
  /\ ids = NoIds /\ map = NoMap /\ productions = <<>> /\ startSymbols = <<>> /\ mapErrors = 0
  /\ grammar = NoGrammar /\ result = "none"

Handle == (Shift \/ Reduce) /\ UNCHANGED <<mapVars, file, loads, clean, grammar, result>>

CreateSymbolMap ==
  \/ FindSymbol \/ MapAction \/ MapSymbol \/ MapOverride \/ MapLeft \/ MapProductions
  \/ MapStartSymbols \/ MapFails \/ MapEnds

Client == Refuse \/ ClearGrammar \/ LoadGrammar

Loading == Handle \/ ParseFails \/ ParseEnds \/ CreateSymbolMap

Next == Client \/ Loading

Spec == Init /\ [][Next]_vars

=============================================================================
