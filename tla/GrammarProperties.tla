-------------------------- MODULE GrammarProperties --------------------------
(****************************************************************************)
(* What the tables of Grammar are for: they parse the language of the       *)
(* productions they were made from, and every choice the generator made for *)
(* the user was declared by the user or reported.                           *)
(*                                                                          *)
(* The reference definitions are those of the textbook: derivation as a     *)
(* least fixed point, FIRST from nullability, the lookaheads as the least   *)
(* assignment closed under derivation and under the transitions.            *)
(****************************************************************************)
EXTENDS GrammarInvariants

CONSTANTS
  MaxWord,  \* length of the words the tables are tried on
  MaxOps    \* operators in the expressions they are tried on

InputTerminals == {s \in ToSet(symbolList) : IsTerminal(s)} \ {TokenEOF}

----------------------------------------------------------------------------
\* Derivation

Words == UNION {[1 .. n -> InputTerminals] : n \in 0 .. MaxWord}

\* The words a right hand side derives, given those of the nonterminals.
RECURSIVE WordsOf(_, _)
WordsOf(symbols, language) ==
  IF symbols = <<>> THEN {<<>>}
  ELSE LET first == IF IsTerminal(Head(symbols)) THEN {<<Head(symbols)>>} ELSE language[Head(symbols)]
       IN  {w \in {u \o v : u \in first, v \in WordsOf(Tail(symbols), language)} : Len(w) <= MaxWord}

RECURSIVE LanguageFrom(_)
LanguageFrom(language) ==
  LET more == [n \in Lefts |-> UNION {WordsOf(productions[i].right, language) :
                                        i \in {j \in DOMAIN productions : productions[j].left = n}}]
  IN  IF more = language THEN language ELSE LanguageFrom(more)

\* For every nonterminal the words of up to MaxWord terminals it derives.
Language == LanguageFrom([n \in Lefts |-> {}])

RECURSIVE NullableFrom(_)
NullableFrom(found) ==
  LET more == {n \in Lefts : \E i \in DOMAIN productions :
                 productions[i].left = n /\ ToSet(productions[i].right) \subseteq found}
  IN  IF more = found THEN found ELSE NullableFrom(more)

Nullable == NullableFrom({})

RECURSIVE StartersFrom(_, _)
StartersFrom(found, nullable) ==
  LET starts(rhs) == {rhs[k] : k \in {j \in DOMAIN rhs : \A i \in 1 .. j - 1 : rhs[i] \in nullable}}
      more == found \cup UNION {starts(productions[i].right) :
                                  i \in {j \in DOMAIN productions : productions[j].left \in found}}
  IN  IF more = found THEN found ELSE StartersFrom(more, nullable)

\* FIRST of a string of symbols.
FirstSet(symbols) ==
  LET nullable == Nullable
      visible  == {symbols[k] : k \in {j \in DOMAIN symbols :
                                         \A i \in 1 .. j - 1 : symbols[i] \in nullable}}
  IN  {s \in StartersFrom(visible, nullable) : IsTerminal(s)}

\* First looks for an empty production and not for an empty derivation.
FirstIsExact == Nullable = {n \in Lefts : DerivesEmpty(n)}

----------------------------------------------------------------------------
\* The canonical collection of LR(1) item sets, an item being a rule, a dot and
\* one lookahead.

Rule(i) == [left |-> productions[i].left, right |-> productions[i].right]

Rest(x) == SubSeq(x.rule.right, x.dot + 2, Len(x.rule.right))

Expandable(x) == x.dot < Len(x.rule.right) /\ ~IsTerminal(x.rule.right[x.dot + 1])

RECURSIVE ClosureOf(_)
ClosureOf(S) ==
  LET derived(x) == [rule : {Rule(i) : i \in {j \in DOMAIN productions :
                                                productions[j].left = x.rule.right[x.dot + 1]}},
                     dot  : {0},
                     la   : FirstSet(Append(Rest(x), x.la))]
      more == S \cup UNION {derived(x) : x \in {y \in S : Expandable(y)}}
  IN  IF more = S THEN S ELSE ClosureOf(more)

MovedOver(S, s) ==
  {[x EXCEPT !.dot = @ + 1] : x \in {y \in S : /\ y.dot < Len(y.rule.right)
                                               /\ y.rule.right[y.dot + 1] = s}}

RECURSIVE CollectionFrom(_)
CollectionFrom(sets) ==
  LET more == sets \cup ({ClosureOf(MovedOver(S, s)) : S \in sets, s \in ToSet(symbolList)} \ {{}})
  IN  IF more = sets THEN sets ELSE CollectionFrom(more)

CanonicalCollection ==
  CollectionFrom({ClosureOf({[rule |-> Rule(k), dot |-> 0, la |-> TokenEOF]}) : k \in 1 .. AcceptingCount})

\* The item sets of Grammar, seen as sets of such items.
Items(s) ==
  UNION {[rule : {Rule(canonicalSet[s][i].prod)}, dot : {canonicalSet[s][i].dot},
          la : canonicalSet[s][i].la] : i \in DOMAIN canonicalSet[s]}

Core(S) == {[rule |-> x.rule, dot |-> x.dot] : x \in S}

----------------------------------------------------------------------------
\* Running the tables

Leaf(t) == [op |-> t, kids |-> <<>>]

\* The tree the tables build for the word, or none.
RECURSIVE RunFrom(_, _, _)
RunFrom(states, trees, rest) ==
  LET t   == IF rest = <<>> THEN TokenEOF ELSE Head(rest)
      act == Entry(actionTable[Last(states)], t, NoAction)
  IN  CASE act.kind = "none"   -> {}
        [] act.kind = "accept" -> {Last(trees)}
        [] act.kind = "shift"  -> RunFrom(Append(states, act.arg), Append(trees, Leaf(t)), Tail(rest))
        [] act.kind = "reduce" ->
             LET rule   == ReduceProductions[act.arg]
                 depth  == Len(states) - rule.Length
                 left   == Len(trees) - rule.Length
                 target == Entry(gotoTable[states[depth]], rule.Left, 0)
             IN  IF target = 0 THEN {}
                 ELSE RunFrom(Append(SubSeq(states, 1, depth), target),
                              Append(SubSeq(trees, 1, left),
                                     [op |-> rule.Left, kids |-> SubSeq(trees, left + 1, Len(trees))]),
                              rest)

RunTables(start, word) == RunFrom(<<start>>, <<>>, word)

Starts == {[symbol |-> n, state |-> startStates[n]] : n \in DOMAIN startStates}

\* Nothing is left to a declaration.
Undeclared ==
  /\ input.prec = <<>>
  /\ \A i \in DOMAIN productions : productions[i].actions = <<>> /\ productions[i].overrides = <<>>
                                   /\ productions[i].chain = <<>>

Undisputed == conflicts = {} /\ Undeclared

----------------------------------------------------------------------------
\* Properties

\* The state sets are the canonical LR(1) collection; for LALR and compact LR
\* they have its cores, an LALR table each of them once, and no lookahead that
\* no LR(1) state of the core has.  (Grammar.cpp, Closure, Goto and the merging
\* loop: a lookahead missed in the closure worklist or a set compared with the
\* wrong one changes the collection.)
ItemSetsExact ==
  Done /\ Undeclared /\ FirstIsExact =>
    LET sets   == CanonicalCollection
        mine   == {Items(s) : s \in DOMAIN canonicalSet}
        united(c) == UNION {S \in sets : Core(S) = c}
    IN  IF type = "LR" THEN mine = sets /\ Cardinality(sets) = Len(canonicalSet)
        ELSE /\ {Core(S) : S \in mine} = {Core(S) : S \in sets}
             /\ type = "LALR" => Cardinality({Core(S) : S \in mine}) = Len(canonicalSet)
             /\ \A S \in mine : S \subseteq united(Core(S))

\* When no conflict was reported the tables accept only words of the grammar,
\* and LR(1) tables all of them.  (Grammar::MakeParseTable as a whole.)
TablesParseTheLanguage ==
  Done /\ Undisputed /\ FirstIsExact =>
    LET language == Language
    IN  \A s \in Starts, w \in Words :
          LET accepted == RunTables(s.state, w) # {}
          IN  IF type = "LR" THEN accepted <=> w \in language[s.symbol]
              ELSE accepted => w \in language[s.symbol]

\* Expressions with one operand and the operators that have a precedence.
Operators == DOMAIN input.prec
Operands  == InputTerminals \ Operators

RECURSIVE Expressions(_)
Expressions(n) ==
  {<<x>> : x \in Operands} \cup
    (IF n = 0 THEN {} ELSE {<<x, o>> \o e : x \in Operands, o \in Operators, e \in Expressions(n - 1)})

Op(tree) == IF Len(tree.kids) = 3 THEN tree.kids[2].op ELSE 0

\* An operand of an operator binds tighter, or as tight on the side it associates to.
RECURSIVE Respects(_)
Respects(tree) ==
  LET binds(kid, assoc) ==
        Op(kid) = 0 \/ LET own == input.prec[Op(tree)] in == input.prec[Op(kid)]
                       IN  in.value > own.value \/ (in.value = own.value /\ own.assoc = assoc)
  IN  Op(tree) # 0 => /\ binds(tree.kids[1], "left") /\ Respects(tree.kids[1])
                      /\ binds(tree.kids[3], "right") /\ Respects(tree.kids[3])

\* All the trees of an expression.
RECURSIVE Trees(_)
Trees(word) ==
  IF Len(word) = 1 THEN {[op |-> 0, kids |-> <<Leaf(word[1])>>]}
  ELSE UNION {{[op |-> 0, kids |-> <<l, Leaf(word[k]), r>>] :
                 l \in Trees(SubSeq(word, 1, k - 1)), r \in Trees(SubSeq(word, k + 1, Len(word)))} :
                k \in {j \in DOMAIN word : word[j] \in Operators}}

\* The declared precedence and associativity give every expression the tree that
\* respects them, and no tree where nothing does: `a < b < c` of a nonassociative
\* operator.  (Grammar.cpp, "Check if precedence can resolve this conflict".)
PrecedenceShapesTrees ==
  Done /\ Operators # {} /\ conflicts = {} =>
    \A w \in Expressions(MaxOps), s \in Starts :
      RunTables(s.state, w) = {tree \in Trees(w) : Respects(tree)}

\* The worklists run empty: the closure, the states and the lookaheads.  This is about grammars
\* in which no set with a conflict of its own leads back to the same set: compact LR takes
\* that for another set each time and does not end.  (Grammar.cpp, MakeParseTable.)
Terminates == <>(phase \in {"done", "error"})

----------------------------------------------------------------------------
\* Claims of the comments and the documentation that do not hold

\* "we need to store this lookahead into all other productions that were
\* originally derived from this one" (Grammar.cpp:836): every merged state has the
\* lookaheads of the LR(1) states it stands for.
LookAheadsReachAll ==
  Done /\ type = "LALR" /\ FirstIsExact =>
    LET sets == CanonicalCollection
    IN  \A s \in DOMAIN canonicalSet :
          UNION {S \in sets : Core(S) = Core(Items(s))} \subseteq Items(s)

============================================================================
