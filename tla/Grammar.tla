------------------------------- MODULE Grammar -------------------------------
(****************************************************************************)
(* Grammar builds an LR(1), LALR(1) or compact LR(1) parse table from a     *)
(* list of productions (src/src/ParserGen/Grammar.cpp).  MakeParseTable is  *)
(* one long function; here every turn of its loops is a step:               *)
(*                                                                          *)
(*   add      one production is added to the grammar                        *)
(*   check    CheckProductions                                              *)
(*   closure  one item of the set under construction is expanded            *)
(*   goto     the next symbol of the current state is tried                 *)
(*   merge    one lookahead moves one state on, after two sets were merged  *)
(*   reduce   one item of one finished state sets its reduce actions        *)
(*                                                                          *)
(* Symbols are numbers as in the code, with one bit for terminals and one   *)
(* for the accepting nonterminals.  States are numbered from 1, the code    *)
(* numbers them from 0.  Wording of messages, the conflict report and the   *)
(* dump of the canonical sets are left out.                                 *)
(****************************************************************************)
EXTENDS Integers, Sequences, FiniteSets, SequencesExt

CONSTANTS
  Inputs,  \* the grammars: [symbols, starts, decls, prec, named, backtrack]
  Types    \* the kinds of table asked for, of {"LR", "LALR", "CLR"}

AcceptingMask == 50    \* ProductionMask::AcceptingNonTerminal
TerminalMask  == 100   \* ProductionMask::Terminal

Terminal(code)     == TerminalMask + code
IsTerminal(symbol) == symbol >= TerminalMask
IsAccepting(symbol) == symbol >= AcceptingMask /\ symbol < TerminalMask

TokenError == Terminal(0)
TokenEOF   == Terminal(1)

\* A declared production: the id is given when it is added; at a dot, actions say
\* what to do about reductions to a nonterminal.
IsDeclaration(d) ==
  /\ d \in [name : {d.name}, id : Nat, left : Int, right : Seq(Int), prec : Int, throws : Int,
           chain : Seq(Int), actions : {d.actions}, overrides : {d.overrides}]
  /\ \A dot \in DOMAIN d.actions : \A left \in DOMAIN d.actions[dot] :
       d.actions[dot][left] \in {"shift", "reduce"}

\* Symbols are numbers; a terminal that goes by two names, its own and an alias, is listed
\* twice.  The generator adds the accepting nonterminals and the end of the input itself.
IsSymbolList(symbols) ==
  /\ symbols \in Seq(Int)
  /\ \A k \in DOMAIN symbols : ~IsAccepting(symbols[k]) /\ symbols[k] # TokenEOF

ASSUME InputsAssumption ==
  \A i \in Inputs :
    /\ IsSymbolList(i.symbols)
    /\ i.starts \in Seq(Int) /\ Len(i.starts) <= TerminalMask - AcceptingMask
    /\ i.decls \in Seq(ToSet(i.decls)) /\ \A d \in ToSet(i.decls) : IsDeclaration(d)

VARIABLES
  input,           \* the grammar asked for
  type,            \* the kind of table asked for
  phase,           \* the loop that runs
  symbolList,      \* GrammarSymbolList
  productions,     \* Productions, in the order they were added
  productionCount, \* ProductionCount, the next Id
  warnings,        \* unreachable symbols that were reported
  canonicalSet,    \* the states: sequences of items [prod, dot, la]
  sourceStates,    \* for every state the states that lead to it
  actionTable,     \* for every state a map from terminals to actions
  gotoTable,       \* for every state a map from nonterminals to states
  startStates,     \* NonTerminals[].StartState
  state,           \* the state the current loop is at
  symbol,          \* the position in symbolList, or of the item, it is at
  gotoSet,         \* the set under construction
  lookAt,          \* the positions in gotoSet that wait to be expanded
  searchIndex,     \* where the search for an equal state starts
  spread,          \* lookaheads to move on: <<state, item, terminal>>
  terminalItems,   \* in this state, the item that set the action of a terminal
  stateInfos,      \* for every state its Record and BacktrackOnError flags
  conflicts        \* the conflicts reported: <<state, terminal, kind>>

building == <<symbolList, productions, productionCount, warnings>>
closing  == <<gotoSet, lookAt>>
tables   == <<canonicalSet, sourceStates, actionTable, gotoTable, startStates>>
reducing == <<terminalItems, stateInfos, conflicts>>

vars == <<input, type, phase, building, tables, state, symbol, closing, searchIndex,
          spread, reducing>>

NoAction        == [kind |-> "none", arg |-> 0]
ShiftTo(target) == [kind |-> "shift", arg |-> target]
ReduceBy(id)    == [kind |-> "reduce", arg |-> id]
Accept          == [kind |-> "accept", arg |-> 0]

\* The map f with the entries of g put over it.
Over(f, g) == [x \in DOMAIN f \cup DOMAIN g |-> IF x \in DOMAIN g THEN g[x] ELSE f[x]]

Entry(f, x, default) == IF x \in DOMAIN f THEN f[x] ELSE default

\* The elements of a set, in the order of their rank if that is an order.
Ranked(set, rank) ==
  LET ranked == [k \in 1 .. Cardinality(set) |-> CHOOSE x \in set : rank[x] = k - 1]
  IN  IF ToSet(ranked) = set THEN ranked
      ELSE CHOOSE seq \in [1 .. Cardinality(set) -> set] : ToSet(seq) = set

\* The elements of a set in the order of below.
InOrder(set, below(_, _)) ==
  Ranked(set, [x \in set |-> Cardinality({y \in set : below(y, x)})])

----------------------------------------------------------------------------
\* Adding productions

AcceptingCount == IF input.starts = <<>> THEN 1 ELSE Len(input.starts)

\* [Accept] -> start, for every start symbol or for the left side that comes first.
AcceptingProduction(left, k) ==
  [name |-> "[Accept]", id |-> k - 1, left |-> AcceptingMask + k - 1,
   right |-> <<IF input.starts = <<>> THEN left ELSE input.starts[k]>>,
   prec |-> 0, throws |-> 0, chain |-> <<>>, actions |-> <<>>, overrides |-> <<>>]

CreateAcceptingProductions(left) ==
  [k \in 1 .. AcceptingCount |-> AcceptingProduction(left, k)]

\* Productions of one label share the Id when one is in the other's chain of lefts.
SharedIds(prods, decl) ==
  {prods[i].id : i \in {j \in DOMAIN prods : /\ prods[j].left \in ToSet(decl.chain)
                                             /\ prods[j].name = decl.name}}

AddProductionImpl(prods, count, decl) ==
  LET shared == SharedIds(prods, decl)
      id     == IF shared = {} THEN count ELSE CHOOSE n \in shared : TRUE
  IN  [productions |-> Append(prods, [decl EXCEPT !.id = id]),
       count       |-> IF shared = {} THEN count + 1 ELSE count]

AddProduction ==
  /\ phase = "add" /\ state < Len(input.decls)
  /\ LET decl   == input.decls[state + 1]
         first  == productionCount = 0
         accept == IF first THEN CreateAcceptingProductions(decl.left) ELSE <<>>
         added  == AddProductionImpl(productions \o accept, productionCount + Len(accept), decl)
     IN  /\ productions' = added.productions
         /\ productionCount' = added.count
         /\ symbolList' = symbolList \o [k \in DOMAIN accept |-> accept[k].left]
                                     \o (IF first THEN <<TokenEOF>> ELSE <<>>)
  /\ state' = state + 1
  /\ UNCHANGED <<input, type, phase, warnings, tables, symbol, closing, searchIndex,
                 spread, reducing>>

----------------------------------------------------------------------------
\* CheckProductions

Derivations(left) == SelectSeq(productions, LAMBDA p : p.left = left)

Lefts == {productions[i].left : i \in DOMAIN productions}

\* A symbol that is not declared, or a nonterminal no production derives.
Undefined(s) == s \notin ToSet(symbolList) \/ (~IsTerminal(s) /\ s \notin Lefts)

Erroneous ==
  \/ productionCount = 0
  \/ \E i \in DOMAIN productions :
        \/ productions[i].left \notin ToSet(symbolList)
        \/ \E k \in DOMAIN productions[i].right : Undefined(productions[i].right[k])

\* The least set of nonterminals that holds those of from and, with every one, the
\* ones seen in the right side of one of its productions.
Reached(from, seen) ==
  LET closed(N) == /\ from \cap Lefts \subseteq N
                   /\ \A i \in DOMAIN productions : productions[i].left \in N =>
                        seen[i] \cap Lefts \subseteq N
  IN  CHOOSE N \in SUBSET Lefts : closed(N) /\ \A n \in N : \A M \in SUBSET (N \ {n}) : ~closed(M)

\* Without start symbols the walk starts at the accepting nonterminal.
CheckRoots == IF input.starts = <<>> THEN {AcceptingMask} ELSE ToSet(input.starts)

Unreachable ==
  {s \in Lefts \ Reached(CheckRoots, [i \in DOMAIN productions |-> ToSet(productions[i].right)]) :
      ~IsAccepting(s) /\ Derivations(s)[1].throws = 0}

CheckProductions ==
  /\ phase = "add" /\ state = Len(input.decls)
  /\ phase' = IF Erroneous THEN "error" ELSE "start"
  /\ warnings' = Unreachable
  /\ state' = 1
  /\ UNCHANGED <<input, type, symbolList, productions, productionCount, tables, symbol,
                 closing, searchIndex, spread, reducing>>

----------------------------------------------------------------------------
\* First, Goto and Closure

DerivesEmpty(s) ==
  ~IsTerminal(s) /\ \E i \in DOMAIN productions : productions[i].left = s /\ productions[i].right = <<>>

\* Fault: the symbols behind one that can be empty are not looked at.
FaultyVisible(symbols) == {symbols[k] : k \in {j \in DOMAIN symbols : j = 1}}

\* The symbols looked at from the left, up to one without an empty production.
Visible(symbols) ==
  {symbols[k] : k \in {j \in DOMAIN symbols : \A i \in 1 .. j - 1 : DerivesEmpty(symbols[i])}}

FirstSymbols(symbols) ==
  Visible(symbols) \cup
    UNION {UNION {Visible(productions[i].right) : i \in {j \in DOMAIN productions :
                                                           productions[j].left = n}} :
             n \in Reached(Visible(symbols), [i \in DOMAIN productions |-> Visible(productions[i].right)])}

\* Fault: nonterminals are left in the set.
FaultyFirst(symbols) ==
  [terminals |-> FirstSymbols(symbols), empty |-> \A k \in DOMAIN symbols : DerivesEmpty(symbols[k])]

First(symbols) ==
  [terminals |-> {s \in FirstSymbols(symbols) : IsTerminal(s)},
   empty     |-> \A k \in DOMAIN symbols : DerivesEmpty(symbols[k])]

Prod(item)     == productions[item.prod]
AtEnd(item)    == item.dot = Len(Prod(item).right)
AfterDot(item) == Prod(item).right[item.dot + 1]

SameRule(p, q) == p.left = q.left /\ p.right = q.right

\* The items are the same but for their lookaheads.
SameCore(x, y) == x.dot = y.dot /\ SameRule(Prod(x), Prod(y))

\* The lookaheads of the items derived from the nonterminal after the dot.
DerivedLookAhead(item) ==
  LET first == First(SubSeq(Prod(item).right, item.dot + 2, Len(Prod(item).right)))
  IN  first.terminals \cup (IF first.empty THEN item.la ELSE {})

\* The productions of a nonterminal; of two that are equal the first.
Derived(left) ==
  {i \in DOMAIN productions : /\ productions[i].left = left
                              /\ \A j \in 1 .. i - 1 : ~SameRule(productions[i], productions[j])}

\* An item is looked at: the productions of the nonterminal after its dot join the
\* set, or their items take the lookaheads and, if they are new, wait to be looked
\* at again.
Closure ==
  /\ phase = "closure" /\ lookAt # <<>>
  /\ LET item   == gotoSet[Head(lookAt)]
         others == Tail(lookAt)
     IN  IF AtEnd(item) \/ IsTerminal(AfterDot(item))
         THEN lookAt' = others /\ UNCHANGED gotoSet
         ELSE \E terminals \in {DerivedLookAhead(item)} :
           LET derived == Derived(AfterDot(item))
               has(k, i) == gotoSet[k].dot = 0 /\ SameRule(Prod(gotoSet[k]), productions[i])
               added == InOrder({i \in derived : \A k \in DOMAIN gotoSet : ~has(k, i)}, <)
               grown == {k \in DOMAIN gotoSet : /\ \E i \in derived : has(k, i)
                                                /\ ~(terminals \subseteq gotoSet[k].la)}
           IN  /\ gotoSet' = [k \in DOMAIN gotoSet |->
                                [gotoSet[k] EXCEPT !.la = IF k \in grown THEN @ \cup terminals ELSE @]]
                             \o [k \in DOMAIN added |-> [prod |-> added[k], dot |-> 0, la |-> terminals]]
               /\ lookAt' = others \o InOrder(grown \ ToSet(others), <)
                                   \o [k \in DOMAIN added |-> Len(gotoSet) + k]
  /\ UNCHANGED <<input, type, phase, building, tables, state, symbol, searchIndex, spread,
                 reducing>>

\* Sets of terminals in the order of std::set, that of their elements.
SetBelow(A, B) ==
  A # B /\ LET m == CHOOSE x \in SymDiff(A, B) : \A y \in SymDiff(A, B) : x <= y
           IN  IF m \in A THEN \E x \in B : x > m ELSE ~ \E x \in A : x > m

ItemBelow(x, y) ==
  \/ Prod(x).id < Prod(y).id
  \/ Prod(x).id = Prod(y).id /\ x.dot < y.dot
  \/ Prod(x).id = Prod(y).id /\ x.dot = y.dot /\ SetBelow(x.la, y.la)

\* The items with s after the dot, the dot moved over it, in order.
Kernel(items, s) ==
  LET shifted == {i \in DOMAIN items : ~AtEnd(items[i]) /\ AfterDot(items[i]) = s}
      before(i, j) == \/ ItemBelow(items[i], items[j])
                      \/ ~ItemBelow(items[j], items[i]) /\ i < j
      order == InOrder(shifted, before)
  IN  [k \in DOMAIN order |-> [items[order[k]] EXCEPT !.dot = @ + 1]]

----------------------------------------------------------------------------
\* The canonical sets

EmptyRow == [x \in {} |-> NoAction]

NewState(items, sources) ==
  /\ canonicalSet' = Append(canonicalSet, items)
  /\ sourceStates' = Append(sourceStates, sources)

Starting == Len(canonicalSet) < AcceptingCount

StartItem ==
  /\ phase = "start"
  /\ gotoSet' = <<[prod |-> Len(canonicalSet) + 1, dot |-> 0, la |-> {TokenEOF}]>>
  /\ lookAt' = <<1>>
  /\ phase' = "closure"
  /\ UNCHANGED <<input, type, building, tables, state, symbol, searchIndex, spread, reducing>>

AddStartState ==
  /\ phase = "closure" /\ lookAt = <<>> /\ Starting
  /\ NewState(gotoSet, {})
  /\ actionTable' = Append(actionTable, EmptyRow)
  /\ gotoTable' = Append(gotoTable, EmptyRow)
  /\ startStates' = Over(startStates,
                         [n \in {Prod(gotoSet[1]).right[1]} |-> Len(canonicalSet) + 1])
  /\ phase' = IF Len(canonicalSet) + 1 < AcceptingCount THEN "start" ELSE "goto"
  /\ gotoSet' = <<>>
  /\ UNCHANGED <<input, type, building, state, symbol, lookAt, searchIndex, spread, reducing>>

CurrentSymbol == symbolList[symbol]

\* The loop over the symbols of a state, and over the states.
NextSymbol ==
  IF symbol < Len(symbolList) THEN symbol' = symbol + 1 /\ UNCHANGED state
  ELSE symbol' = 1 /\ state' = state + 1

Goto ==
  /\ phase = "goto" /\ state <= Len(canonicalSet)
  /\ gotoSet' = Kernel(canonicalSet[state], CurrentSymbol)
  /\ lookAt' = [i \in DOMAIN gotoSet' |-> i]
  /\ searchIndex' = 1
  /\ IF gotoSet' = <<>> THEN NextSymbol /\ UNCHANGED phase
     ELSE phase' = "closure" /\ UNCHANGED <<state, symbol>>
  /\ UNCHANGED <<input, type, building, tables, spread, reducing>>

\* FindVectorInSetOfSets: items are compared one by one, in their order.
SameSet(xs, ys, withLookAhead) ==
  /\ Len(xs) = Len(ys)
  /\ \A i \in DOMAIN xs : SameCore(xs[i], ys[i]) /\ (withLookAhead => xs[i].la = ys[i].la)

\* Fault: LR(1) sets are compared without their lookaheads.
FaultyFoundState ==
  SelectInSubSeq(canonicalSet, searchIndex, Len(canonicalSet),
                 LAMBDA items : SameSet(gotoSet, items, FALSE))

FoundState ==
  SelectInSubSeq(canonicalSet, searchIndex, Len(canonicalSet),
                 LAMBDA items : SameSet(gotoSet, items, type = "LR"))

\* Merging would let one terminal reduce to two different nonterminals here.
MergeConflict(items) ==
  \E i \in DOMAIN items, j \in DOMAIN gotoSet :
    /\ AtEnd(items[i]) /\ AtEnd(gotoSet[j])
    /\ \E t \in items[i].la \cap gotoSet[j].la :
          \* The last item of the state that reduces on t is the one compared with.
          /\ \A k \in i + 1 .. Len(items) : ~(AtEnd(items[k]) /\ t \in items[k].la)
          /\ Prod(items[i]).left # Prod(gotoSet[j]).left

\* The shift or goto of the current symbol; accepting nonterminals have none.
SetTransition(target, actions, gotos) ==
  IF IsTerminal(CurrentSymbol)
  THEN /\ actionTable' = [actions EXCEPT ![state] =
                            Over(@, [t \in {CurrentSymbol} |-> ShiftTo(target)])]
       /\ gotoTable' = gotos
  ELSE /\ actionTable' = actions
       /\ gotoTable' = IF IsAccepting(CurrentSymbol) THEN gotos
                       ELSE [gotos EXCEPT ![state] =
                               Over(@, [n \in {CurrentSymbol} |-> target])]

Searching == phase = "closure" /\ lookAt = <<>> /\ ~Starting

AddState ==
  /\ Searching /\ FoundState = 0
  /\ NewState(gotoSet, {state})
  /\ SetTransition(Len(canonicalSet) + 1, Append(actionTable, EmptyRow),
                   Append(gotoTable, EmptyRow))
  /\ NextSymbol
  /\ phase' = "goto"
  /\ gotoSet' = <<>>
  /\ UNCHANGED <<input, type, building, startStates, lookAt, searchIndex, spread, reducing>>

\* Fault: the search goes on at the state that was refused.
FaultyRefuseMerge ==
  /\ Searching /\ FoundState # 0
  /\ type = "CLR" /\ MergeConflict(canonicalSet[FoundState])
  /\ searchIndex' = FoundState
  /\ UNCHANGED <<input, type, phase, building, tables, state, symbol, closing, spread, reducing>>

RefuseMerge ==
  /\ Searching /\ FoundState # 0
  /\ type = "CLR" /\ MergeConflict(canonicalSet[FoundState])
  /\ searchIndex' = FoundState + 1
  /\ UNCHANGED <<input, type, phase, building, tables, state, symbol, closing, spread, reducing>>

\* The lookaheads of the set that the state found does not have yet, item by item.
NewLookAheads(found) ==
  InOrder(UNION {{<<found, i, t>> : t \in gotoSet[i].la \ canonicalSet[found][i].la} : i \in DOMAIN gotoSet},
          LAMBDA x, y : x[2] < y[2] \/ (x[2] = y[2] /\ x[3] < y[3]))

MergeState ==
  /\ Searching /\ FoundState # 0
  /\ ~(type = "CLR" /\ MergeConflict(canonicalSet[FoundState]))
  /\ searchIndex' = FoundState
  /\ IF type = "LR" THEN UNCHANGED <<sourceStates, spread>>
     ELSE /\ sourceStates' = [sourceStates EXCEPT ![FoundState] = @ \cup {state}]
          /\ spread' = NewLookAheads(FoundState)
  /\ phase' = "merge"
  /\ gotoSet' = <<>>
  /\ UNCHANGED <<input, type, building, canonicalSet, actionTable, gotoTable, startStates,
                 state, symbol, lookAt, reducing>>

\* Where the symbol after the dot leads from a state, 0 when that is not known yet.
Successor(from, item) ==
  IF IsTerminal(AfterDot(item)) THEN Entry(actionTable[from], AfterDot(item), NoAction).arg
  ELSE Entry(gotoTable[from], AfterDot(item), 0)

\* The place of an item among those of a state.
Place(items, item) == SelectInSeq(items, LAMBDA x : SameCore(x, item))

\* Fault: the lookahead replaces those of the item.
FaultySpreadLookAhead ==
  /\ phase = "merge" /\ spread # <<>>
  /\ LET s == Head(spread)[1]
         i == Head(spread)[2]
     IN  canonicalSet' = [canonicalSet EXCEPT ![s][i].la = {Head(spread)[3]}]
  /\ spread' = Tail(spread)
  /\ UNCHANGED <<input, type, phase, building, sourceStates, actionTable, gotoTable,
                 startStates, state, symbol, closing, searchIndex, reducing>>

\* A lookahead enters an item and follows that item into the next state.
SpreadLookAhead ==
  /\ phase = "merge" /\ spread # <<>>
  /\ LET s    == Head(spread)[1]
         i    == Head(spread)[2]
         t    == Head(spread)[3]
         item == canonicalSet[s][i]
         next == IF AtEnd(item) THEN 0 ELSE Successor(s, item)
         moved == [item EXCEPT !.dot = @ + 1]
     IN  IF t \in item.la THEN spread' = Tail(spread) /\ UNCHANGED canonicalSet
         ELSE /\ canonicalSet' = [canonicalSet EXCEPT ![s][i].la = @ \cup {t}]
              /\ spread' = IF next = 0 THEN Tail(spread)
                           ELSE <<<<next, Place(canonicalSet[next], moved), t>>>> \o Tail(spread)
  /\ UNCHANGED <<input, type, phase, building, sourceStates, actionTable, gotoTable,
                 startStates, state, symbol, closing, searchIndex, reducing>>

EndMerge ==
  /\ phase = "merge" /\ spread = <<>>
  /\ SetTransition(searchIndex, actionTable, gotoTable)
  /\ NextSymbol
  /\ phase' = "goto"
  /\ UNCHANGED <<input, type, building, canonicalSet, sourceStates, startStates, closing,
                 searchIndex, spread, reducing>>

EndGoto ==
  /\ phase = "goto" /\ state > Len(canonicalSet)
  /\ phase' = "reduce"
  /\ state' = 1 /\ symbol' = 1
  /\ stateInfos' = [s \in DOMAIN canonicalSet |-> [record |-> FALSE, backtrack |-> FALSE]]
  /\ UNCHANGED <<input, type, building, tables, closing, searchIndex, spread, terminalItems,
                 conflicts>>

----------------------------------------------------------------------------
\* The reduce actions

Reduction(prod, t) ==
  IF t = TokenEOF /\ IsAccepting(prod.left) THEN Accept ELSE ReduceBy(prod.id)

\* What an item declares about reductions before the symbol after its dot.
Told(item) == Entry(Prod(item).actions, item.dot, <<>>)

\* The items that shift t and declare what to do about reducing to left.
Telling(items, t, left) ==
  {i \in DOMAIN items : /\ ~AtEnd(items[i]) /\ AfterDot(items[i]) = t
                        /\ left \in DOMAIN Told(items[i])}

\* Fault: left and right associativity are exchanged.
FaultyShiftReduceConflict(items, prod, t) ==
  LET prec == Entry(input.prec, t, [value |-> 0, assoc |-> "left"])
  IN  [decision |-> IF prec.value > prod.prec \/ (prec.value = prod.prec /\ prec.assoc = "left")
                    THEN "shift" ELSE "reduce",
       report   |-> {}]

\* Shift, reduce or neither, and whether the conflict is reported.
ShiftReduceConflict(items, prod, t) ==
  LET telling == Telling(items, t, prod.left)
      prec    == input.prec[t]
      quiet(decision) == [decision |-> decision, report |-> {}]
  IN  IF telling # {} THEN quiet(Told(items[Min(telling)])[prod.left])
      ELSE IF t \notin DOMAIN input.prec THEN [decision |-> "shift", report |-> {"S/R"}]
      ELSE IF prec.value > prod.prec THEN quiet("shift")
      ELSE IF prec.value < prod.prec \/ prec.assoc = "left" THEN quiet("reduce")
      ELSE IF prec.assoc = "nonassoc" THEN quiet("neither")
      ELSE quiet("shift")

\* The production takes precedence over reductions to left on t.
Overrides(prod, left, t) ==
  /\ left \in DOMAIN prod.overrides
  /\ prod.overrides[left] = {} \/ t \in prod.overrides[left]

\* Fault: a conflict that the earlier production loses is not reported.
FaultyReduceReduceConflict(prod1, prod2, t) ==
  [decision |-> IF prod2.id > prod1.id THEN "reduce" ELSE "keep",
   report   |-> IF prod2.id > prod1.id THEN {} ELSE {"R/R"}]

ReduceReduceConflict(prod1, prod2, t) ==
  IF Overrides(prod1, prod2.left, t) THEN [decision |-> "keep", report |-> {}]
  ELSE IF Overrides(prod2, prod1.left, t) THEN [decision |-> "reduce", report |-> {}]
  ELSE [decision |-> IF prod2.id > prod1.id THEN "reduce" ELSE "keep",
        report   |-> IF prod2.left \in ToSet(prod1.chain) THEN {} ELSE {"R/R"}]

\* What item i of the state makes of the action on t, [decision, report].
Decide(items, i, t, action) ==
  IF action = NoAction THEN [decision |-> "reduce", report |-> {}]
  ELSE IF action.kind = "shift" THEN ShiftReduceConflict(items, Prod(items[i]), t)
  ELSE IF action.kind = "reduce"
       THEN ReduceReduceConflict(Prod(items[terminalItems[t]]), Prod(items[i]), t)
  ELSE [decision |-> "keep", report |-> {"R/R"}]

\* Fault: only %error itself is looked for.
FaultyRecording(item) ==
  LET t == AfterDot(item)
  IN  [record |-> t = TokenError /\ input.backtrack, backtrack |-> t = TokenError /\ input.backtrack]

\* Named errors and %error blocks after the dot make the parser record tokens.
Recording(item) ==
  LET t == AfterDot(item)
  IN  [record    |-> t \in input.named \/ (t = TokenError /\ input.backtrack),
       backtrack |-> t = TokenError /\ input.backtrack]

EndItem ==
  IF symbol < Len(canonicalSet[state]) THEN symbol' = symbol + 1 /\ UNCHANGED <<state, phase>>
  ELSE /\ symbol' = 1 /\ state' = state + 1
       /\ phase' = IF state = Len(canonicalSet) THEN "done" ELSE phase

ShiftItem ==
  /\ phase = "reduce" /\ ~AtEnd(canonicalSet[state][symbol])
  /\ LET flags == Recording(canonicalSet[state][symbol])
     IN  stateInfos' = [stateInfos EXCEPT
                          ![state] = [record    |-> @.record \/ flags.record,
                                      backtrack |-> @.backtrack \/ flags.backtrack]]
  /\ terminalItems' = IF symbol = Len(canonicalSet[state]) THEN <<>> ELSE terminalItems
  /\ EndItem
  /\ UNCHANGED <<input, type, building, tables, closing, searchIndex, spread, conflicts>>

ReduceItem ==
  /\ phase = "reduce" /\ AtEnd(canonicalSet[state][symbol])
  /\ LET items == canonicalSet[state]
         item  == items[symbol]
         act(t)    == Entry(actionTable[state], t, NoAction)
         result(t) == Decide(items, symbol, t, act(t))
         taken     == {t \in item.la : result(t).decision = "reduce"}
         cleared   == {t \in item.la : result(t).decision = "neither"}
     IN  /\ actionTable' = [actionTable EXCEPT ![state] =
              Over(@, [t \in taken \cup cleared |->
                        IF t \in taken THEN Reduction(Prod(item), t) ELSE NoAction])]
         /\ terminalItems' = IF symbol = Len(items) THEN <<>>
                             ELSE Over(terminalItems, [t \in taken |-> symbol])
         /\ conflicts' = conflicts \cup
              UNION {{<<state, t, r>> : r \in result(t).report} : t \in item.la}
  /\ EndItem
  /\ UNCHANGED <<input, type, building, canonicalSet, sourceStates, gotoTable, startStates,
                 closing, searchIndex, spread, stateInfos>>

----------------------------------------------------------------------------
\* ReduceProductions: of the productions with one Id the highest left side is kept.
ReduceProductions ==
  [id \in 0 .. productionCount - 1 |->
     LET same == {i \in DOMAIN productions : productions[i].id = id}
         kept == CHOOSE i \in same : \A j \in same : productions[j].left <= productions[i].left
     IN  [Left |-> productions[kept].left, Length |-> Len(productions[kept].right),
          ErrorTerminalFlag |-> \E i \in same : productions[i].throws # 0]]

Init ==
  /\ input \in Inputs /\ type \in Types
  /\ phase = "add"
  /\ symbolList = input.symbols /\ productions = <<>> /\ productionCount = 0 /\ warnings = {}
  /\ canonicalSet = <<>> /\ sourceStates = <<>> /\ actionTable = <<>> /\ gotoTable = <<>>
  /\ startStates = <<>>
  /\ state = 0 /\ symbol = 1
  /\ gotoSet = <<>> /\ lookAt = <<>> /\ searchIndex = 1 /\ spread = <<>>
  /\ terminalItems = <<>> /\ stateInfos = <<>> /\ conflicts = {}

Next ==
  \/ AddProduction \/ CheckProductions
  \/ StartItem \/ Closure \/ AddStartState
  \/ Goto \/ AddState \/ RefuseMerge \/ MergeState \/ SpreadLookAhead \/ EndMerge \/ EndGoto
  \/ ShiftItem \/ ReduceItem

Spec == Init /\ [][Next]_vars

\* MakeParseTable runs to its end.
FairSpec == Spec /\ WF_vars(Next)

=============================================================================
