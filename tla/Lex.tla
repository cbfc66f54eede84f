--------------------------------- MODULE Lex ---------------------------------
(****************************************************************************)
(* Lex makes one table that recognises the lexemes of a grammar file        *)
(* (src/src/ParserGen/Lex.cpp).  Every regular expression is parsed and its *)
(* reductions build an automaton on the parse stack; the automata of the    *)
(* macros are copied into the expressions that use them; those of one       *)
(* expression's lexemes are combined and made deterministic, and the tables *)
(* of the expressions are put behind each other.                            *)
(*                                                                          *)
(* A regular expression is the sequence of the reductions the parser        *)
(* reports for it, the ones that only hand a value on (RE_RegExp, RE_A,     *)
(* RE_B, RE_CParen) left out; "error" stands where the parse fails.         *)
(* Characters are numbers from 1.                                           *)
(****************************************************************************)
EXTENDS DFAGen

CONSTANTS
  Inputs,    \* [macros, lexemes, expressions, names]
  LastChar,  \* the highest character, 255 in the code
  NewLine, CarriageReturn,
  Escapes    \* what a letter stands for behind a backslash

TokenFirstID == 2

\* The productions of a list of characters, and of an automaton.
ListBegins == {"GroupSetChar", "GroupSetCharList", "CharSet"}
ListGoesOn == {"GroupSetCharGroupSet", "GroupSetCharListGroupSet", "CharSetChar"}
ListEnds   == {"CGroupSet", "CNotGroupSet", "CCharSet"}
OneOfMany  == {"CChar", "CDot"}
Joins      == {"RegExpConcat", "AOr"}
Repeats    == {"BStar", "BPlus", "BQuestion"}

IsSequence(s) == s \in Seq(ToSet(s))

\* The automata on the parse stack after the first n reductions.
AutomataAfter(regexp, n) ==
  Cardinality({k \in 1 .. n : regexp[k].prod \in OneOfMany \cup ListEnds})
    - Cardinality({k \in 1 .. n : regexp[k].prod \in Joins})

\* What the parser can report: the values a production takes are on the stack, and
\* one automaton is left, unless the parse fails.
WellFormed(regexp) ==
  LET prod(k) == regexp[k].prod
  IN  /\ IsSequence(regexp) /\ regexp # <<>>
      /\ \A k \in DOMAIN regexp :
           /\ prod(k) \in ListGoesOn \cup ListEnds =>
                k > 1 /\ prod(k - 1) \in ListBegins \cup ListGoesOn
           /\ prod(k) \in ListBegins \cup ListGoesOn =>
                k < Len(regexp) /\ prod(k + 1) \in ListGoesOn \cup ListEnds \cup {"error"}
           /\ prod(k) \in Joins => AutomataAfter(regexp, k - 1) >= 2
           /\ prod(k) \in Repeats => AutomataAfter(regexp, k - 1) >= 1
      /\ prod(Len(regexp)) = "error" \/ AutomataAfter(regexp, Len(regexp)) = 1

\* Macros have names of their own, and expressions are made of lexemes there are.
ASSUME InputsAssumption ==
  \A i \in Inputs :
    /\ IsSequence(i.macros) /\ IsSequence(i.lexemes) /\ IsSequence(i.expressions)
    /\ \A m \in DOMAIN i.macros : WellFormed(i.macros[m].regexp)
    /\ \A m, n \in DOMAIN i.macros : i.macros[m].name = i.macros[n].name => m = n
    /\ \A j \in DOMAIN i.lexemes : WellFormed(i.lexemes[j].regexp)
    /\ \A e \in DOMAIN i.expressions :
         /\ i.expressions[e].start \in Nat /\ i.expressions[e].count \in Nat
         /\ i.expressions[e].start + i.expressions[e].count <= Len(i.lexemes)

VARIABLES
  input,       \* the lexemes asked for
  phase,       \* the loop that runs
  index,       \* the macro or lexeme it is at
  expression,  \* the expression it is at
  position,    \* reductions made in the current regular expression
  heap,        \* the nodes
  stack,       \* the values on the parse stack
  macroNFAs,   \* the automata of the macros, by name
  lexemeNFAs,  \* the automata of the expression's lexemes so far
  combined,    \* the automaton of the expression
  dfaStates,   \* the sets of nodes found so far
  dfaState,    \* the one that is looked at, from 0
  charIndex,   \* the character its moves are at
  made,        \* the table under construction
  dfa,         \* the table
  actions,     \* Info.Action of the lexemes: [kind, value]
  notes,       \* the precedence notes
  errors       \* errors reported

vars == <<input, phase, index, expression, position, heap, stack, macroNFAs, lexemeNFAs,
          combined, dfaStates, dfaState, charIndex, made, dfa, actions, notes, errors>>

subset == <<combined, dfaStates, dfaState, charIndex, made>>
result == <<dfa, actions, notes>>

\* Without expressions all lexemes form one.
Expressions ==
  IF input.lexemes # <<>> /\ input.expressions = <<>>
  THEN <<[start |-> 0, count |-> Len(input.lexemes)]>> ELSE input.expressions

----------------------------------------------------------------------------
\* What a lexeme does to the expression stack: the parameter names an expression.
ActionOf(lexeme) ==
  [kind |-> lexeme.kind,
   value |-> IF lexeme.param \in DOMAIN input.names THEN input.names[lexeme.param] ELSE 0]

\* BuildParser goes on whatever ConvertActionParam returns.
ConvertActionParam ==
  /\ phase = "convert"
  /\ phase' = "macro"
  /\ actions' = [j \in DOMAIN input.lexemes |-> ActionOf(input.lexemes[j])]
  /\ errors' = Cardinality({j \in DOMAIN input.lexemes : /\ input.lexemes[j].param # ""
                                                        /\ input.lexemes[j].param \notin DOMAIN input.names})
  /\ UNCHANGED <<input, index, expression, position, heap, stack, macroNFAs, lexemeNFAs, subset,
                 dfa, notes>>

----------------------------------------------------------------------------
\* The reductions of a regular expression

LastLexeme == Expressions[expression].start + Expressions[expression].count

Parsing ==
  \/ phase = "macro" /\ index <= Len(input.macros)
  \/ phase = "lexeme" /\ expression <= Len(Expressions) /\ index <= LastLexeme

RegExp == IF phase = "macro" THEN input.macros[index].regexp ELSE input.lexemes[index].regexp

\* Fault: the ids start one too high.
FaultyLexemeID == IF phase = "macro" THEN InvalidLexeme ELSE index + TokenFirstID

LexemeID == IF phase = "macro" THEN InvalidLexeme ELSE index - 1 + TokenFirstID

Reported(prods) == Parsing /\ position < Len(RegExp) /\ RegExp[position + 1].prod \in prods

Reduction == RegExp[position + 1]

\* ShiftToken: behind a backslash the next character counts, some as another one.
Shifted(k) ==
  LET c == Reduction.chars[k]
  IN  IF c.escaped /\ c.ch \in DOMAIN Escapes THEN Escapes[c.ch] ELSE c.ch

Top    == stack[Len(stack)]
Second == stack[Len(stack) - 1]

\* The values of the last n symbols are replaced by one.
Reduced(n, value) == stack' = Append(SubSeq(stack, 1, Len(stack) - n), value)

KeepParsing ==
  /\ position' = position + 1
  /\ UNCHANGED <<input, phase, index, expression, macroNFAs, lexemeNFAs, subset, result, errors>>

\* A list of characters as a value on the stack.
List(chars) == [list |-> chars]

\* An operation on automata: its result takes the place of n values.
Built(n, outcome) ==
  \E done \in {outcome} : heap' = done.heap /\ Reduced(n, done.nfa)

ReduceConcat ==
  /\ Reported({"RegExpConcat"})
  /\ Built(2, Concat(heap, Second, Top))
  /\ KeepParsing

ReduceOr ==
  /\ Reported({"AOr"})
  /\ Built(2, Or(heap, Second, Top))
  /\ KeepParsing

ReduceKleene ==
  /\ Reported({"BStar", "BPlus", "BQuestion"})
  /\ Built(1, Kleene(heap, Top, CASE Reduction.prod = "BStar" -> "both"
                                  [] Reduction.prod = "BPlus" -> "back"
                                  [] Reduction.prod = "BQuestion" -> "empty"))
  /\ KeepParsing

AllChars == [k \in 1 .. LastChar |-> k]

\* The characters from each odd element to the one behind it.
CharsOf(groupSet) ==
  FlattenSeq([i \in 1 .. Len(groupSet) \div 2 |->
    SelectSeq(AllChars, LAMBDA c : groupSet[2 * i - 1] <= c /\ c <= groupSet[2 * i])])

ReduceChar ==
  /\ Reported({"CChar", "CDot"})
  /\ Built(0, CreateChars(heap,
                IF Reduction.prod = "CChar" THEN <<Shifted(1)>>
                ELSE SelectSeq(AllChars, LAMBDA c : c \notin {NewLine, CarriageReturn}),
                LexemeID))
  /\ KeepParsing

ReduceCharsOfGroup ==
  /\ Reported({"CGroupSet", "CNotGroupSet"})
  /\ LET chars == CharsOf(Top.list)
     IN  Built(1, CreateChars(heap,
                    IF Reduction.prod = "CGroupSet" THEN chars
                    ELSE SelectSeq(AllChars, LAMBDA c : c \notin ToSet(chars)),
                    LexemeID))
  /\ KeepParsing

\* A set is reduced from its end: the ranges of the symbols before come last.
ReduceGroupSet ==
  /\ Reported({"GroupSetChar", "GroupSetCharGroupSet", "GroupSetCharList",
               "GroupSetCharListGroupSet"})
  /\ LET range == <<Shifted(1), Shifted(Len(Reduction.chars))>>
     IN  IF Reduction.prod \in {"GroupSetChar", "GroupSetCharList"} THEN Reduced(0, List(range))
         ELSE Reduced(1, List(Top.list \o range))
  /\ UNCHANGED heap
  /\ KeepParsing

ReduceCharSet ==
  /\ Reported({"CharSet", "CharSetChar"})
  /\ IF Reduction.prod = "CharSet" THEN Reduced(0, List(<<Shifted(1)>>))
     ELSE Reduced(1, List(Append(Top.list, Shifted(1))))
  /\ UNCHANGED heap
  /\ KeepParsing

ReduceMacro ==
  /\ Reported({"CCharSet"}) /\ Top.list \in DOMAIN macroNFAs
  /\ CanCopy(heap, macroNFAs[Top.list])
  /\ Built(1, Copy(heap, macroNFAs[Top.list], LexemeID))
  /\ KeepParsing

\* The final state that has no copy is dereferenced.
CopyLost ==
  /\ Reported({"CCharSet"}) /\ Top.list \in DOMAIN macroNFAs
  /\ ~CanCopy(heap, macroNFAs[Top.list])
  /\ phase' = "crashed"
  /\ UNCHANGED <<input, index, expression, position, heap, stack, macroNFAs, lexemeNFAs, subset,
                 result, errors>>

\* The parse fails: a macro is not kept, a lexeme ends it all.  What is on the stack
\* is not freed (Cleanup does nothing), nor are the macros.
RegExpFails ==
  /\ \/ Reported({"error"})
     \/ Reported({"CCharSet"}) /\ Top.list \notin DOMAIN macroNFAs
  /\ errors' = errors + 1
  /\ stack' = <<>>
  /\ IF phase = "macro" THEN /\ index' = index + 1 /\ position' = 0
                             /\ UNCHANGED <<phase, heap, lexemeNFAs>>
     ELSE /\ phase' = "failed" /\ heap' = Destroyed(heap, ToSet(lexemeNFAs)) /\ lexemeNFAs' = <<>>
          /\ UNCHANGED <<index, position>>
  /\ UNCHANGED <<input, expression, macroNFAs, subset, result>>

\* MoveData: the automaton leaves the stack, under the id it was made for.
RegExpEnds ==
  /\ Parsing /\ position = Len(RegExp)
  /\ IF phase = "macro"
     THEN /\ macroNFAs' = [m \in DOMAIN macroNFAs \cup {input.macros[index].name} |->
                             IF m = input.macros[index].name THEN [Top EXCEPT !.lexeme = InvalidLexeme]
                             ELSE macroNFAs[m]]
          /\ UNCHANGED lexemeNFAs
     ELSE /\ lexemeNFAs' = Append(lexemeNFAs, [Top EXCEPT !.lexeme = LexemeID])
          /\ UNCHANGED macroNFAs
  /\ stack' = <<>> /\ position' = 0 /\ index' = index + 1
  /\ UNCHANGED <<input, phase, expression, heap, subset, result, errors>>

MacrosEnd ==
  /\ phase = "macro" /\ index > Len(input.macros)
  /\ phase' = "lexeme"
  /\ index' = IF Expressions = <<>> THEN 1 ELSE Expressions[1].start + 1
  /\ UNCHANGED <<input, expression, position, heap, stack, macroNFAs, lexemeNFAs, subset, result,
                 errors>>

----------------------------------------------------------------------------
\* The table of an expression

CombineLexemes ==
  /\ phase = "lexeme" /\ expression <= Len(Expressions) /\ ~Parsing
  /\ \E outcome \in {CombineNFAs(heap, lexemeNFAs)} :
       \E empty \in {Table(CharTable(outcome.heap, outcome.nfa), <<>>, <<>>, <<0>>)} :
         /\ heap' = outcome.heap
         /\ combined' = outcome.nfa
         /\ dfaStates' = <<EpsilonClosure(outcome.heap, <<outcome.nfa.start>>)>>
         /\ made' = [empty EXCEPT !.rows = <<EmptyRow(empty)>>]
  /\ lexemeNFAs' = <<>>
  /\ dfaState' = 0 /\ charIndex' = 1
  /\ phase' = "move"
  /\ UNCHANGED <<input, index, expression, position, stack, macroNFAs, result, errors>>

Chars == Ascending(DOMAIN made.chars \ {Epsilon})

\* The set a state moves to on a character is found among the states or added.
MoveState ==
  /\ phase = "move" /\ dfaState < Len(dfaStates) /\ charIndex <= Len(Chars)
  /\ \E next \in {Move(heap, dfaStates[dfaState + 1], Chars[charIndex])} :
       LET found == SelectInSeq(dfaStates, LAMBDA nodes : nodes = next)
           to    == IF found = 0 THEN Len(dfaStates) ELSE found - 1
           rows  == IF found = 0 THEN Append(made.rows, EmptyRow(made)) ELSE made.rows
       IN  IF next = <<>> THEN UNCHANGED <<dfaStates, made>>
           ELSE /\ dfaStates' = IF found = 0 THEN Append(dfaStates, next) ELSE dfaStates
                /\ made' = [made EXCEPT !.rows =
                     [rows EXCEPT ![dfaState + 1][made.chars[Chars[charIndex]]] = to]]
  /\ charIndex' = charIndex + 1
  /\ UNCHANGED <<input, phase, index, expression, position, heap, stack, macroNFAs, lexemeNFAs,
                 combined, dfaState, result, errors>>

\* Fault: the first state is looked at again.
FaultyNextState ==
  /\ phase = "move" /\ dfaState < Len(dfaStates) /\ charIndex > Len(Chars)
  /\ dfaState' = 0 /\ charIndex' = 1
  /\ UNCHANGED <<input, phase, index, expression, position, heap, stack, macroNFAs, lexemeNFAs,
                 combined, dfaStates, made, result, errors>>

NextState ==
  /\ phase = "move" /\ dfaState < Len(dfaStates) /\ charIndex > Len(Chars)
  /\ dfaState' = dfaState + 1 /\ charIndex' = 1
  /\ UNCHANGED <<input, phase, index, expression, position, heap, stack, macroNFAs, lexemeNFAs,
                 combined, dfaStates, made, result, errors>>

\* The states get the lexemes they accept; the table joins that of the expressions
\* before it, and the automaton is destroyed.
ExpressionEnds ==
  /\ phase = "move" /\ dfaState = Len(dfaStates)
  /\ LET table == [made EXCEPT !.accept = [s \in DOMAIN dfaStates |-> AcceptState(heap, dfaStates[s])]]
     IN  dfa' = IF expression = 1 THEN table ELSE Combine(dfa, table)
  /\ notes' = notes \cup UNION {PrecedenceNotes(heap, dfaStates[s]) : s \in DOMAIN dfaStates}
  /\ heap' = Destroyed(heap, {combined})
  /\ combined' = Empty(1) /\ dfaStates' = <<>> /\ made' = NoDFA
  /\ expression' = expression + 1
  /\ index' = IF expression < Len(Expressions) THEN Expressions[expression + 1].start + 1 ELSE index
  /\ phase' = "lexeme"
  /\ UNCHANGED <<input, position, stack, macroNFAs, lexemeNFAs, dfaState, charIndex, actions, errors>>

ExpressionsEnd ==
  /\ phase = "lexeme" /\ expression > Len(Expressions)
  /\ heap' = Destroyed(heap, {macroNFAs[m] : m \in DOMAIN macroNFAs})
  /\ macroNFAs' = <<>>
  /\ phase' = "done"
  /\ UNCHANGED <<input, index, expression, position, stack, lexemeNFAs, subset, result, errors>>

\* DFAGen::Compress, with either of its flags or both.
Compress ==
  /\ phase = "done" /\ IsValid(dfa)
  /\ \E flags \in {{"duplicate"}, {"empty"}, {"duplicate", "empty"}} :
       LET fewer == IF "duplicate" \in flags THEN CombineDuplicate(dfa) ELSE dfa
       IN  dfa' = IF "empty" \in flags THEN RemoveEmpty(fewer) ELSE fewer
  /\ phase' = "compressed"
  /\ UNCHANGED <<input, index, expression, position, heap, stack, macroNFAs, lexemeNFAs, subset,
                 actions, notes, errors>>

Init ==
  /\ input \in Inputs
  /\ phase = "convert" /\ index = 1 /\ expression = 1 /\ position = 0
  /\ heap = <<>> /\ stack = <<>> /\ macroNFAs = <<>> /\ lexemeNFAs = <<>>
  /\ combined = Empty(1) /\ dfaStates = <<>> /\ dfaState = 0 /\ charIndex = 1
  /\ made = NoDFA /\ dfa = NoDFA
  /\ actions = <<>> /\ notes = {} /\ errors = 0

Next ==
  \/ ConvertActionParam
  \/ ReduceConcat \/ ReduceOr \/ ReduceKleene \/ ReduceChar \/ ReduceCharsOfGroup
  \/ ReduceGroupSet \/ ReduceCharSet \/ ReduceMacro \/ CopyLost
  \/ RegExpFails \/ RegExpEnds \/ MacrosEnd
  \/ CombineLexemes \/ MoveState \/ NextState \/ ExpressionEnds \/ ExpressionsEnd \/ Compress

Spec == Init /\ [][Next]_vars

\* MakeDFA runs to its end.
FairSpec == Spec /\ WF_vars(Next)

=============================================================================
