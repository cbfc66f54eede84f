------------------------------ MODULE MCGrammar ------------------------------
(****************************************************************************)
(* Small grammars for Grammar.                                              *)
(****************************************************************************)
EXTENDS GrammarProperties

P == INSTANCE ParseTables

S == 0
A == 1
B == 2
a == Terminal(2)
b == Terminal(3)
c == Terminal(4)
d == Terminal(5)
e == Terminal(6)
f == Terminal(7)

Declared(name, left, right) ==
  [name |-> name, id |-> 0, left |-> left, right |-> right, prec |-> 0, throws |-> 0,
   chain |-> <<>>, actions |-> <<>>, overrides |-> <<>>]

\* One production for every right hand side of a nonterminal.
Rules(left, rights) == [k \in DOMAIN rights |-> Declared("", left, rights[k])]

Symbols(decls) ==
  LET all == {decls[i].left : i \in DOMAIN decls} \cup UNION {ToSet(decls[i].right) : i \in DOMAIN decls}
  IN  InOrder(all, <)

Plain(decls) ==
  [symbols |-> Symbols(decls), starts |-> <<>>, decls |-> decls, prec |-> <<>>,
   named |-> {}, backtrack |-> FALSE]

----------------------------------------------------------------------------
\* Every pair of two rules for S and two for A.

StartRights == <<<<A>>, <<A, a>>, <<a, A>>, <<S, a>>, <<a, S, b>>, <<A, A, b>>, <<b>>>>
OtherRights == <<<<>>, <<a>>, <<b>>, <<a, A>>, <<A, b>>>>

Ordered(rights) ==
  UNION {{<<rights[i], rights[j]>> : j \in i + 1 .. Len(rights)} : i \in DOMAIN rights}

Enumerated == {Plain(Rules(S, s) \o Rules(A, r)) : s \in Ordered(StartRights), r \in Ordered(OtherRights)}

----------------------------------------------------------------------------
\* Expressions: the production of an operator has the precedence of its token.

Levels == [t \in {b, c, d, e} |-> CASE t = b -> [value |-> 3, assoc |-> "left"]
                                    [] t = c -> [value |-> 4, assoc |-> "left"]
                                    [] t = d -> [value |-> 1, assoc |-> "right"]
                                    [] t = e -> [value |-> 2, assoc |-> "nonassoc"]]

ExpressionDecls ==
  [k \in 1 .. 4 |-> [Declared("", S, <<S, Terminal(k + 2), S>>)
                       EXCEPT !.prec = Levels[Terminal(k + 2)].value]]
    \o <<Declared("", S, <<a>>)>>

ExpressionInput == [Plain(ExpressionDecls) EXCEPT !.prec = Levels]

\* One of the operators has no precedence.
HalfDeclaredInput ==
  [Plain([ExpressionDecls EXCEPT ![3].prec = 0]) EXCEPT !.prec = [t \in {b, c, e} |-> Levels[t]]]

\* if / else, bare and with the else declared to shift and to reduce.
Branches(actions) ==
  <<Declared("", S, <<a, S>>), [Declared("", S, <<a, S, b, S>>) EXCEPT !.actions = actions],
    Declared("", S, <<c>>)>>

ElseInputs ==
  {Plain(Branches(<<>>)), Plain(Branches([k \in {2} |-> [n \in {S} |-> "shift"]])),
   Plain(Branches([k \in {2} |-> [n \in {S} |-> "reduce"]]))}

\* A name that reduces to one of two nonterminals: undeclared, and with one of
\* them taking precedence over the other on every terminal or on one.
Clashing(first, second) ==
  <<Declared("", S, <<A, a>>), Declared("", S, <<B, b>>), Declared("", S, <<A, c>>),
    Declared("", S, <<B, c>>), [Declared("", A, <<d>>) EXCEPT !.overrides = first],
    [Declared("", B, <<d>>) EXCEPT !.overrides = second]>>

ClashInputs ==
  {Plain(Clashing(<<>>, <<>>)), Plain(Clashing([n \in {B} |-> {}], <<>>)),
   Plain(Clashing(<<>>, [n \in {A} |-> {c}]))}

\* The two names clash on a terminal where one takes precedence and on another
\* where none does; and where a terminal that does not associate is shifted too.
MixedInputs ==
  {Plain(Clashing([n \in {B} |-> {c}], <<>>) \o Rules(S, <<<<A, e>>, <<B, e>>>>)),
   [Plain(Rules(S, <<<<A, e, a>>, <<B, e, b>>, <<d, e, c>>, <<A, f>>, <<B, f>>>>)
            \o <<[Declared("", A, <<d>>) EXCEPT !.prec = 2], Declared("", B, <<d>>)>>)
      EXCEPT !.prec = [t \in {e} |-> Levels[t]]]}

\* The handler chooses: one production, two left sides.
ChosenInput ==
  Plain(<<Declared("", S, <<A, a>>), Declared("", S, <<B, b>>), Declared("", S, <<B, a>>),
          [Declared("name", A, <<d>>) EXCEPT !.chain = <<A, B>>],
          [Declared("name", B, <<d>>) EXCEPT !.chain = <<A, B>>]>>)

\* No productions, a nonterminal without any, a symbol that was not declared, and
\* one that nothing reaches.
BrokenInputs ==
  {Plain(<<>>), Plain(<<Declared("", S, <<A, a>>)>>),
   [Plain(<<Declared("", S, <<a>>)>>) EXCEPT !.symbols = <<S>>],
   Plain(<<Declared("", S, <<a>>), Declared("", A, <<b>>)>>),
   [Plain(Rules(S, <<<<a>>, <<A>>>>) \o Rules(A, <<<<b, A>>, <<>>>>)) EXCEPT !.starts = <<A, S>>]}

\* Two rules that end alike and are told apart by what came first: merging their
\* states at once would make them clash.
TwoEnds(ends) ==
  Plain(Rules(S, <<<<a, A, d>>, <<b, B, d>>, <<a, B, e>>, <<b, A, e>>>>)
          \o Rules(A, <<ends>>) \o Rules(B, <<ends>>))

\* The terminals go by two names, and are listed twice.
Aliased(i) == [i EXCEPT !.symbols = @ \o SelectSeq(@, IsTerminal)]

AliasedInputs == {Aliased(i) : i \in ClashInputs \cup {ExpressionInput, ChosenInput, TwoEnds(<<c>>)}}

\* The same three grammars the parser is checked on.
Named(symbols, starts, decls) ==
  [symbols |-> symbols, starts |-> starts, decls |-> decls, prec |-> <<>>,
   named |-> {Terminal(P!unknown)}, backtrack |-> FALSE]

semi == Terminal(P!semi)
unknown == Terminal(P!unknown)

StatementInput ==
  Named(<<TokenError, semi, a, b, 0, 1>>, <<0>>,
        Rules(0, <<<<>>, <<0, 1>>>>) \o Rules(1, <<<<a, b, semi>>, <<TokenError, semi>>>>))

NameInput ==
  Named(<<TokenError, unknown, semi, a, b, 3, 0, 2, 1>>, <<0>>,
        Rules(0, <<<<0, 1>>, <<1>>>>) \o Rules(1, <<<<unknown, semi>>, <<2, b, semi>>, <<3, semi>>>>)
          \o <<[Declared("Name", 3, <<a>>) EXCEPT !.chain = <<3, 2>>, !.throws = unknown],
               [Declared("Name", 2, <<a>>) EXCEPT !.chain = <<3, 2>>]>>)

PartInput ==
  Named(<<TokenError, semi, a, b, 0, 2, 1, 3>>, <<0, 1>>,
        Rules(0, <<<<0, 1>>, <<1>>>>)
          \o Rules(1, <<<<2, semi>>, <<3, b>>, <<b, 2, 1>>, <<b, b, 1>>, <<TokenError, semi>>>>)
          \o <<[Declared("Name", 2, <<a>>) EXCEPT !.chain = <<2, 3>>],
               [Declared("Name", 3, <<a>>) EXCEPT !.chain = <<2, 3>>]>>)

\* The generated tables, as Parse numbers them.
Generated(codes) ==
  LET number(act) == CASE act.kind = "shift"  -> P!ShiftTo(act.arg - 1)
                       [] act.kind = "accept" -> P!Accepts
                       [] OTHER               -> act
  IN  [n \in 0 .. Len(actionTable) - 1 |->
         [t \in codes |-> number(Entry(actionTable[n + 1], Terminal(t), NoAction))]]

Gotos(lefts) ==
  [n \in 0 .. Len(gotoTable) - 1 |->
     [l \in lefts |-> Entry(gotoTable[n + 1], l, 0) - 1]]

StartsOf(lefts) == [l \in lefts |-> IF l \in DOMAIN startStates THEN startStates[l] - 1 ELSE P!NoStart]

\* The tables on which the parser is checked are those the generator makes of
\* their grammars.
ParserTablesGenerated ==
  Done /\ type = "LALR" =>
    /\ input = StatementInput =>
         /\ Generated(0 .. 4) = P!StatementActions /\ Gotos(0 .. 1) = P!StatementGotos
         /\ StartsOf(0 .. 1) = P!StatementStarts
    /\ input = NameInput =>
         /\ Generated(0 .. 5) = P!NameActions /\ Gotos(0 .. 3) = P!NameGotos
         /\ StartsOf(0 .. 3) = P!NameStarts
         /\ {n \in DOMAIN stateInfos : stateInfos[n].record} = {1, 5}
    /\ input = PartInput =>
         /\ Generated(0 .. 4) = P!PartActions /\ Gotos(0 .. 3) = P!PartGotos
         /\ StartsOf(0 .. 3) = P!PartStarts

AllInputs ==
  Enumerated \cup ElseInputs \cup ClashInputs \cup MixedInputs \cup AliasedInputs \cup BrokenInputs
    \cup {ExpressionInput, HalfDeclaredInput, ChosenInput, TwoEnds(<<c>>), StatementInput, NameInput, PartInput}

----------------------------------------------------------------------------
\* Where a claim fails

\* The state after c c is reached, and its successors are made, before the longer
\* way to c c adds the lookahead e.
LongWay ==
  {Plain(Rules(S, <<<<a, A, d>>, <<b, b, A, e>>>>) \o Rules(A, <<<<c, c, B>>>>) \o Rules(B, <<<<f>>>>))}

=============================================================================
