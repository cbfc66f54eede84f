----------------------------- MODULE LexProperties -----------------------------
(****************************************************************************)
(* What the tables of Lex are for: they recognise the regular expressions   *)
(* they were made from.  The reference is the language of an expression,    *)
(* computed from its reductions without any automaton.                      *)
(****************************************************************************)
EXTENDS LexInvariants

CONSTANT MaxWord  \* length of the words that are tried

Words == UNION {[1 .. n -> 1 .. LastChar] : n \in 0 .. MaxWord}

----------------------------------------------------------------------------
\* Languages

Cat(A, B) == {w \in {u \o v : u \in A, v \in B} : Len(w) <= MaxWord}

RECURSIVE Star(_)
Star(A) == LET more == A \cup {<<>>} \cup Cat(A, A) IN IF more = A THEN A ELSE Star(more)

Letters(chars) == {<<c>> : c \in chars}

Between(range) == range[1] .. range[2]

Ranges(list) == UNION {Between(list[k]) : k \in DOMAIN list}

CodeOf(c) == IF c.escaped /\ c.ch \in DOMAIN Escapes THEN Escapes[c.ch] ELSE c.ch

MacroRegExp(name) ==
  input.macros[CHOOSE m \in DOMAIN input.macros : input.macros[m].name = name].regexp

\* The values after the first n reductions: languages, lists of ranges and names.
RECURSIVE Denoted(_, _)
Denoted(regexp, n) ==
  IF n = 0 THEN <<>>
  ELSE LET before  == Denoted(regexp, n - 1)
           r       == regexp[n]
           last    == before[Len(before)]
           code(k) == CodeOf(r.chars[k])
           range   == <<code(1), code(Len(r.chars))>>
           put(k, value) == Append(SubSeq(before, 1, Len(before) - k), value)
           macro   == MacroRegExp(last)
       IN  CASE r.prod = "RegExpConcat" -> put(2, Cat(before[Len(before) - 1], last))
             [] r.prod = "AOr"       -> put(2, before[Len(before) - 1] \cup last)
             [] r.prod = "BStar"     -> put(1, Star(last))
             [] r.prod = "BPlus"     -> put(1, Cat(last, Star(last)))
             [] r.prod = "BQuestion" -> put(1, last \cup {<<>>})
             [] r.prod = "CChar"     -> put(0, Letters({code(1)}))
             [] r.prod = "CDot"      -> put(0, Letters(1 .. LastChar \ {NewLine, CarriageReturn}))
             [] r.prod = "CGroupSet" -> put(1, Letters(Ranges(last)))
             [] r.prod = "CNotGroupSet" -> put(1, Letters(1 .. LastChar \ Ranges(last)))
             [] r.prod \in {"GroupSetChar", "GroupSetCharList"} -> put(0, <<range>>)
             [] r.prod \in {"GroupSetCharGroupSet", "GroupSetCharListGroupSet"} ->
                  put(1, Append(last, range))
             [] r.prod = "CharSet"     -> put(0, <<code(1)>>)
             [] r.prod = "CharSetChar" -> put(1, Append(last, code(1)))
             [] r.prod = "CCharSet"    -> put(1, Denoted(macro, Len(macro))[1])

Language(regexp) == Denoted(regexp, Len(regexp))[1]

\* The lexemes an expression recognises a word as.
Matching(e, word) ==
  {j \in Expressions[e].start + 1 .. Expressions[e].start + Expressions[e].count :
     word \in Language(input.lexemes[j].regexp)}

----------------------------------------------------------------------------
\* Running an automaton

Spread(nodes, c) ==
  UNION {{l.to : l \in {k \in ToSet(heap[n].links) : k.on = c}} : n \in nodes}

RECURSIVE EmptyMoves(_)
EmptyMoves(nodes) ==
  LET more == nodes \cup Spread(nodes, Epsilon) IN IF more = nodes THEN nodes ELSE EmptyMoves(more)

RECURSIVE Accepts(_, _)
Accepts(nodes, word) ==
  IF word = <<>> THEN \E n \in nodes : heap[n].accept # 0
  ELSE Accepts(EmptyMoves(Spread(nodes, Head(word))), Tail(word))

Recognised(nfa) == {w \in Words : Accepts(EmptyMoves({nfa.start}), w)}

----------------------------------------------------------------------------
\* Properties

TableOK(d) ==
  /\ Len(d.accept) = Len(d.rows) \/ d = made
  /\ ToSet(d.starts) \subseteq 0 .. Len(d.rows) - 1 \/ ~IsValid(d)
  /\ \A s \in DOMAIN d.rows : \A k \in DOMAIN d.rows[s] :
       d.rows[s][k] \in {EmptyTransition} \cup 0 .. Len(d.rows) - 1

TypeOK ==
  /\ phase \in {"convert", "macro", "lexeme", "move", "done", "compressed", "failed", "crashed"}
  /\ \A n \in DOMAIN heap :
       /\ heap[n].live \in BOOLEAN /\ heap[n].accept \in {InvalidLexeme} \cup 0 .. Len(input.lexemes) + 1
       /\ \A k \in DOMAIN heap[n].links : /\ heap[n].links[k].on \in 0 .. LastChar
                                          /\ heap[n].links[k].to \in DOMAIN heap
  /\ TableOK(dfa) /\ TableOK(made)
  /\ \A a \in ToSet(actions) : a.value \in 0 .. Len(Expressions)

\* Every automaton on the parse stack recognises what the reductions that built it
\* mean, and accepts it as the lexeme the expression is parsed for: the operations
\* rewire the graphs of both operands and leave no accepting state behind.
\* (NFA.cpp, the operations; Lex.cpp, RegExprNFAParseHandler::Reduce.)
StackMeansPrefix ==
  Parsing =>
    LET values == Denoted(RegExp, position)
    IN  /\ Len(stack) = Len(values)
        /\ \A k \in DOMAIN stack : IsNFA(stack[k]) =>
             /\ Recognised(stack[k]) = values[k]
             /\ \A n \in Graph(heap, stack[k]) : heap[n].accept \in {0, LexemeID}

\* From the start state of every expression the table accepts a word exactly as the
\* highest lexeme of that expression that matches it, before and after Compress.
\* (DFAGen.cpp: Create, Combine and Compress.)
TableRecognisesLexemes ==
  Finished => \A e \in DOMAIN Expressions, w \in Words :
    LET matching == Matching(e, w)
    IN  TestString(dfa, dfa.starts[e], w) =
          IF matching = {} THEN 0 ELSE Highest(matching) - 1 + TokenFirstID

\* The loops over the states of the automata end.
Terminates == <>(phase \in {"done", "failed", "crashed"})

=============================================================================
