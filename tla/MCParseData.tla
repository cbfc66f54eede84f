------------------------------ MODULE MCParseData ------------------------------
(****************************************************************************)
(* Small grammar files for ParseData, as parse trees.                       *)
(****************************************************************************)
EXTENDS ParseDataProperties

\* Op of the value of x, found once.
Valued(Op(_), x) == CHOOSE y \in {Op(v) : v \in {x}} : TRUE

\* Trees together with the steps of their parse.
Shifted(kind, text) ==
  [node |-> [prod |-> kind, text |-> text, kids |-> <<>>],
   steps |-> <<[kind |-> "shift", text |-> text, prod |-> "", length |-> 0]>>]
T(name)  == Shifted("token", <<name>>)
Key      == Shifted("token", <<>>)
Mistake  == Shifted("error", <<"mistake">>)

N(prod, kids) ==
  Valued(LAMBDA k :
           [node |-> [prod |-> prod, text |-> <<>>, kids |-> <<>> \o [i \in DOMAIN k |-> k[i].node]],
            steps |-> FlattenSeq([i \in DOMAIN k |-> k[i].steps])
                        \o <<[kind |-> "reduce", text |-> <<>>, prod |-> prod, length |-> Len(k)]>>], kids)

Complete(tree) == Valued(LAMBDA t : [tree |-> t.node, steps |-> t.steps, complete |-> TRUE], tree)

\* The parse stops behind the tree.
Broken(tree) ==
  [tree |-> tree.node, complete |-> FALSE,
   steps |-> Append(tree.steps, [kind |-> "giveUp", text |-> <<>>, prod |-> "", length |-> 0])]

\* Lists that grow to the left and to the right, and lists without an empty one.
LeftList(prod, empty, items) ==
  Valued(LAMBDA i : FoldLeft(LAMBDA list, item : N(prod, <<list, item>>), N(empty, <<>>), i), items)

RightList(prod, empty, items) ==
  Valued(LAMBDA i : FoldRight(LAMBDA item, list : N(prod, <<item, list>>), i, N(empty, <<>>)), items)

Chain(one, more, between, items) ==
  Valued(LAMBDA i : FoldLeft(LAMBDA list, item : N(more, <<list>> \o between \o <<item>>), N(one, <<i[1]>>), Tail(i)),
      items)

----------------------------------------------------------------------------
Macros(lines) ==
  IF lines = <<>> THEN N("MacroSectionEmpty", <<>>)
  ELSE N("MacroSection", <<Key, LeftList("MacroBlock", "MacroBlockEmpty", lines)>>)
Macro(name) == N("MacroLine", <<N("MacroName", <<Key, T(name), Key>>), N("MacroExpr", <<T("r"), Key>>)>>)

Section(name, lines) == N("ExprSection", <<Key, T(name), LeftList("ExprBlock", "ExprBlockEmpty", lines)>>)
None     == N("OptActionNone", <<>>)
Push(to) == N("OptActionPush", <<Key, Key, T(to)>>)
Goto(to) == N("OptActionGoto", <<Key, Key, T(to)>>)
Pop      == N("OptActionPop", <<Key, Key>>)
Line(name, action) == N("ExprLine", <<T("r"), T(name), action, Key>>)
AliasLine(name, alias, action) == N("ExprLineAlias", <<T("r"), T(name), Key, T(alias), action, Key>>)
Ignore(action) == N("ExprLineIgnore", <<T("r"), Key, action, Key>>)

NoNum   == N("NumEmpty", <<>>)
Num(n)  == N("Num", <<T(n)>>)
Quote(alias) == N("TerminalQuote", <<T(alias)>>)
Name(name)   == N("Terminal", <<T(name)>>)
Left  == N("AssocLeft", <<Key>>)
Right == N("AssocRight", <<Key>>)
Terms(terminals)  == Chain("TerminalOne", "TerminalList", <<>>, terminals)
Commas(terminals) == Chain("TerminalOne", "TerminalListComma", <<Key>>, terminals)
Prec1(num, terms, assoc) == N("PrecTerminalListAssoc1", <<num, terms, assoc, Key>>)
Prec2(num, terms, assoc) == N("PrecTerminalListAssoc2", <<num, terms, Key, assoc, Key>>)
Prec3(num, assoc, terms) == N("PrecAssocTerminalList1", <<num, assoc, terms, Key>>)
Prec4(num, assoc, terms) == N("PrecAssocTerminalList2", <<num, assoc, Key, terms, Key>>)
Precs(lines) ==
  IF lines = <<>> THEN N("PrecSectionEmpty", <<>>)
  ELSE N("PrecSection", <<Key, LeftList("PrecBlock", "PrecBlockEmpty", lines)>>)

Starts(names) ==
  N("ProdStartSymbolDecl",
    <<Key, Chain("ProdStartSymbolListId", "ProdStartSymbolListNested", <<Key>>,
                 [k \in DOMAIN names |-> T(names[k])])>>)
Prods(starts, lines) ==
  N("ProdSection",
    <<IF Len(starts) = 1 THEN N("ProdStartNameList", starts)
      ELSE N("ProdStartNameListNested", <<starts[1], N("ProdStartNameList", <<starts[2]>>)>>),
      LeftList("ProdBlock", "ProdBlockEmpty", lines)>>)

Thrown(name)   == N("NamedError", <<Key, Key, T(name), Key>>)
To(name)       == N("ProdLHSId", <<T(name)>>)
Throwing(name, error) == N("ProdLHSNamedError", <<T(name), Thrown(error)>>)
Lefts(names)   == Chain("ProdLHSNameList", "ProdLHSNameListNested", <<Key>>, names)

NoPrefix       == N("ProdPrefixEmpty", <<>>)
NonTerms(names) == Chain("NonterminalListId", "NonterminalListNested2", <<Key>>, [k \in DOMAIN names |-> T(names[k])])
NonTermsPlain(names) == Chain("NonterminalListId", "NonterminalListNested1", <<>>, [k \in DOMAIN names |-> T(names[k])])
ShiftOn(prefix, names)  == N("ProdPrefixShift", <<prefix, Key, Key, NonTerms(names), Key>>)
ReduceOn(prefix, names) == N("ProdPrefixReduce", <<prefix, Key, Key, NonTermsPlain(names), Key>>)
Prefixed(prefix, symbol) == N("ProdFullSymbol", <<prefix, symbol>>)
Sym(name)  == N("ProdSymbolId", <<T(name)>>)
Lit(alias) == N("ProdSymbolQuote", <<T(alias)>>)
Act(name)  == N("ProdSymbolAction", <<Key, Key, T(name), Key>>)
Full(symbol) == Prefixed(NoPrefix, symbol)
Either(fulls) == Chain("ProdSymbolCombineSingle", "ProdSymbolCombine", <<Key>>, fulls)
One(symbol) == Either(<<Full(symbol)>>)
AnError == N("ProdRHSError", <<Key>>)
Backtrack == N("ProdRHSErrorBacktrack", <<Key>>)
Named(name) == N("ProdRHSErrorNamed", <<Thrown(name)>>)

RHS(elements) ==
  Valued(LAMBDA e :
        FoldLeft(LAMBDA right, element :
                   N(IF element.node.prod \in {"ProdSymbolCombine", "ProdSymbolCombineSingle"} THEN "ProdRHS"
                     ELSE "ProdRHSErrorToken", <<right, element>>),
                 N("ProdRHSEmpty", <<>>), e), elements)

NoPostfix  == N("ProdPostfixEmpty", <<>>)
WithPrec(alias) == N("ProdPrecQuote", <<Key, T(alias)>>)
WithPrecName(name) == N("ProdPrecId", <<Key, T(name)>>)
NonTermSet(names) == Chain("ReduceNonterminalList", "ReduceNonterminalListNested", <<>>,
                           [k \in DOMAIN names |-> T(names[k])])
Before(names, aliases) ==
  N("ReduceExprWithTerminals", <<NonTermSet(names), Key,
     Chain("ReduceTerminalList", "ReduceTerminalListNested", <<>>, [k \in DOMAIN aliases |-> Quote(aliases[k])])>>)
Always(names) == N("ReduceExpr", <<NonTermSet(names)>>)
Reduces(exprs) == N("ProdReduce", <<Key, Key, Chain("ReduceList", "ReduceListNested", <<Key>>, exprs), Key>>)

Produce(label, lefts, elements, postfix) ==
  N("ProdLine", <<N("ProdLeft", <<T(label), Lefts(lefts), Key>>),
                  N("ProdRight", <<RHS(elements), postfix, Key>>)>>)

File(macros, sections, precs, prods) ==
  N("RootBlock", <<Macros(macros), RightList("ExprSectionList", "ExprSectionListEmpty", sections),
                   Precs(precs), prods>>)

----------------------------------------------------------------------------
MainLines == <<AliasLine("A", "a", None), AliasLine("B", "b", Push("main")), Line("C", None), Ignore(None)>>
Main   == Section("main", MainLines)
Other  == Section("other", <<AliasLine("A", "a", Pop), AliasLine("D", "d", Goto("main")), Line("C", Pop)>>)

Simple == Prods(<<Starts(<<"s">>)>>, <<Produce("P", <<To("s")>>, <<One(Lit("a"))>>, NoPostfix)>>)

WithProds(lines) == File(<<>>, <<Main>>, <<>>, Prods(<<Starts(<<"s">>)>>, lines))
WithPrecs(lines) ==
  File(<<>>, <<Main, Other>>, lines,
       Prods(<<Starts(<<"s">>)>>,
             <<Produce("P", <<To("s")>>, <<One(Lit("a")), One(Sym("t")), One(Lit("b"))>>, NoPostfix),
               Produce("Q", <<To("t")>>, <<One(Lit("b"))>>, N("ProdPostfixPrec", <<WithPrec("a")>>))>>))

S(elements) == Produce("P", <<To("s")>>, elements, NoPostfix)

ExpressionFiles ==
  <<File(<<Macro("m"), Macro("n")>>, <<Main, Other>>, <<>>, Simple),
   File(<<Macro("m"), Macro("m")>>, <<Main>>, <<>>, Simple),
   File(<<>>, <<Main, Section("main", <<Line("E", None)>>)>>, <<>>, Simple),
   File(<<>>, <<Main, Section("none", <<>>)>>, <<>>, Simple),
   File(<<>>, <<Section("main", <<AliasLine("A", "a", Push("none"))>>)>>, <<>>, Simple),
   File(<<>>, <<Main, Section("other", <<AliasLine("E", "a", None), Line("F", None)>>)>>, <<>>, Simple),
   File(<<>>, <<>>, <<>>, N("ProdSectionEmpty", <<>>)),
   File(<<>>, <<Main>>, <<>>, N("ProdSectionEmpty", <<>>))>>

PrecedenceFiles ==
  <<WithPrecs(<<Prec1(NoNum, Terms(<<Quote("a")>>), Left), Prec2(NoNum, Commas(<<Quote("b"), Quote("d")>>), Right)>>),
   WithPrecs(<<Prec3(Num(4), Left, Terms(<<Quote("a")>>)), Prec4(NoNum, Left, Terms(<<Quote("b"), Quote("d")>>))>>),
   WithPrecs(<<Prec3(NoNum, Right, Terms(<<Quote("a"), Quote("b")>>)),
               Prec1(NoNum, Terms(<<Name("C")>>), Left), Prec3(NoNum, N("AssocNon", <<Key>>), Terms(<<Quote("b")>>))>>),
   WithPrecs(<<Prec1(NoNum, Terms(<<Quote("x")>>), Left)>>),
   WithPrecs(<<Prec1(NoNum, Terms(<<Name("X")>>), Left)>>)>>

ProductionFiles ==
  <<WithProds(<<S(<<>>)>>),
   WithProds(<<S(<<Either(<<Full(Lit("a")), Full(Sym("C"))>>), One(Lit("a")),
                   Either(<<Full(Sym("t")), Full(Lit("b"))>>)>>),
               Produce("Q", <<To("t"), Throwing("u", "oops"), To("v")>>, <<One(Lit("b"))>>, NoPostfix),
               Produce("R", <<To("s")>>, <<One(Sym("u")), Named("oops"), One(Sym("v"))>>, NoPostfix)>>),
   WithProds(<<S(<<One(Sym("u")), Named("oops")>>), Produce("Q", <<Throwing("u", "oops")>>, <<One(Lit("b"))>>, NoPostfix)>>),
   WithProds(<<S(<<Either(<<Full(Lit("a")), Prefixed(ShiftOn(NoPrefix, <<"s", "t">>), Lit("b")),
                            Full(Sym("t"))>>)>>),
               Produce("Q", <<To("t")>>, <<One(Act("act")), Backtrack>>, NoPostfix),
               Produce("R", <<To("t")>>, <<AnError, One(Lit("a"))>>, NoPostfix)>>),
   WithProds(<<S(<<One(Lit("a")), Either(<<Prefixed(ReduceOn(ShiftOn(NoPrefix, <<"s">>), <<"t", "u">>), Lit("b"))>>)>>),
               Produce("Q", <<To("t"), To("u")>>, <<One(Lit("a"))>>,
                 N("ProdPostfixPrecReduce", <<WithPrecName("C"), Reduces(<<Before(<<"t", "s">>, <<"a", "b">>),
                                                                          Always(<<"u">>)>>)>>))>>),
   WithProds(<<Produce("Q", <<To("t"), To("s")>>, <<One(Lit("a"))>>,
                 N("ProdPostfixReducePrec", <<Reduces(<<Before(<<"t">>, <<"a">>), Before(<<"s">>, <<"b">>)>>),
                                              WithPrec("b")>>)),
               Produce("R", <<To("s")>>, <<One(Sym("t"))>>, N("ProdPostfixReduce", <<Reduces(<<Always(<<"t">>)>>)>>))>>),
   WithProds(<<S(<<One(Lit("a"))>>), Produce("P", <<To("t")>>, <<One(Lit("b"))>>, NoPostfix)>>),
   WithProds(<<S(<<One(Act("P"))>>), Produce("Q", <<To("s")>>, <<One(Act("P"))>>, NoPostfix)>>),
   WithProds(<<S(<<One(Lit("x"))>>)>>),
   WithProds(<<S(<<One(Lit("a")), Either(<<Prefixed(ShiftOn(NoPrefix, <<"s">>), Sym("s"))>>)>>)>>),
   WithProds(<<S(<<Either(<<Prefixed(ReduceOn(ShiftOn(NoPrefix, <<"s">>), <<"s">>), Lit("a"))>>)>>)>>),
   WithProds(<<Produce("P", <<To("s")>>, <<One(Lit("a"))>>, N("ProdPostfixPrec", <<WithPrec("x")>>))>>),
   WithProds(<<Produce("P", <<To("s")>>, <<One(Lit("a"))>>, N("ProdPostfixPrec", <<WithPrecName("X")>>))>>),
   WithProds(<<Produce("P", <<To("t")>>, <<One(Lit("a"))>>, NoPostfix)>>),
   File(<<>>, <<Main>>, <<>>, Prods(<<Starts(<<"s">>), Starts(<<"t">>)>>,
        <<S(<<One(Sym("t"))>>), Produce("Q", <<To("t")>>, <<>>, NoPostfix)>>)),
   File(<<>>, <<Main>>, <<>>, Prods(<<Starts(<<"t", "s">>), Starts(<<"s">>)>>,
        <<S(<<One(Sym("t"))>>), Produce("Q", <<To("t")>>, <<>>, NoPostfix)>>))>>

ErrorTrees ==
  <<WithProds(<<N("ProdLine", <<N("ProdLeftError", <<Mistake, Key>>), N("ProdRight", <<RHS(<<One(Lit("a"))>>), NoPostfix, Key>>)>>),
               S(<<One(Lit("a"))>>)>>),
   WithProds(<<N("ProdLine", <<N("ProdLeft", <<T("P"), Lefts(<<To("s")>>), Key>>), N("ProdRightError", <<Mistake, Key>>)>>)>>),
   WithProds(<<S(<<Either(<<N("ProdFullSymbolError", <<Mistake, Lit("a")>>)>>)>>)>>),
   WithProds(<<S(<<Either(<<Full(N("ProdSymbolActionError", <<Key, Key, Mistake, Key>>))>>)>>)>>),
   WithProds(<<S(<<Either(<<Prefixed(N("ProdPrefixShiftError", <<NoPrefix, Key, Key, Mistake, Key>>), Lit("a"))>>)>>)>>),
   WithProds(<<Produce("P", <<N("ProdLHSNamedError", <<T("s"), N("NamedErrorError", <<Key, Key, Mistake, Key>>)>>)>>,
                       <<One(Lit("a"))>>, NoPostfix)>>),
   File(<<N("MacroLineError", <<Mistake, N("MacroExpr", <<T("r"), Key>>)>>),
          N("MacroLine", <<N("MacroNameError", <<Mistake, Key>>), N("MacroExprError", <<Mistake, Key>>)>>)>>,
        <<Section("main", MainLines \o <<N("ExprLineError", <<Mistake, Key>>)>>)>>,
        <<N("PrecError", <<Mistake, Key>>)>>, Simple)>>

\* Three choices in a production, and lists whose first part is wrong.
CrashingTrees ==
  <<WithProds(<<S(<<Either(<<Full(Lit("a")), Full(Lit("b"))>>), Either(<<Full(Lit("a")), Full(Lit("b"))>>),
                    Either(<<Full(Lit("a")), Full(Lit("b"))>>)>>)>>),
    WithPrecs(<<Prec1(NoNum, Terms(<<Quote("x"), Quote("a")>>), Left)>>),
    WithProds(<<S(<<Either(<<N("ProdFullSymbolError", <<Mistake, Lit("a")>>), Full(Lit("a"))>>)>>)>>)>>

Trees == ExpressionFiles \o PrecedenceFiles \o ProductionFiles \o ErrorTrees \o CrashingTrees

GrammarTrees ==
  Valued(LAMBDA t : {Complete(t[k]) : k \in DOMAIN t}, Trees) \cup {Broken(Macros(<<Macro("m")>>))}

\* The values of Files.
GrammarFiles == GrammarTrees
=============================================================================
