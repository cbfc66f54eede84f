--------------------------- MODULE ParseDataProofs ---------------------------
(***************************************************************************)
(* Proofs about the loading of grammar files: TokensNamed and              *)
(* SymbolsDistinct, for all files in which the lines of an expression are  *)
(* followed by its end, and for every sequence of loads and clears.        *)
(***************************************************************************)
EXTENDS ParseDataInvariants, SequenceTheorems, TLAPS

----------------------------------------------------------------------------
\* Sequences whose elements have no type

LEMMA FunctionIsSeq ==
  ASSUME NEW n \in Nat, NEW f, f = [k \in 1 .. n |-> f[k]]
  PROVE  IsSeq(f) /\ Len(f) = n
<1>1. DOMAIN f = 1 .. n
  OBVIOUS
<1>2. f \in [1 .. n -> ToSet(f)]
  BY <1>1 DEF ToSet
<1>3. f \in Seq(ToSet(f))
  BY <1>2
<1>4. Len(f) = n
  BY <1>1, <1>3, LenProperties
<1> QED BY <1>4 DEF IsSeq

LEMMA SeqIsSeq ==
  ASSUME NEW S, NEW s \in Seq(S)
  PROVE  IsSeq(s)
BY LenProperties DEF IsSeq

LEMMA IsSeqFacts ==
  ASSUME NEW s, IsSeq(s)
  PROVE  s \in Seq(ToSet(s)) /\ Len(s) \in Nat /\ DOMAIN s = 1 .. Len(s)
<1>1. DOMAIN s = 1 .. Len(s) /\ Len(s) \in Nat
  BY DEF IsSeq
<1>2. s \in [1 .. Len(s) -> ToSet(s)]
  BY <1>1 DEF ToSet, IsSeq
<1> QED BY <1>1, <1>2

LEMMA AppendIsSeq ==
  ASSUME NEW s, IsSeq(s), NEW e
  PROVE  /\ IsSeq(Append(s, e)) /\ Append(s, e) # <<>>
         /\ Len(Append(s, e)) = Len(s) + 1 /\ DOMAIN Append(s, e) = 1 .. Len(s) + 1
         /\ \A k \in 1 .. Len(s) : Append(s, e)[k] = s[k]
         /\ Append(s, e)[Len(s) + 1] = e
<1> DEFINE S == ToSet(s) \cup {e}
<1>1. s \in Seq(S) /\ e \in S /\ Len(s) \in Nat
  BY IsSeqFacts, SeqMonotonic
<1>2. Append(s, e) \in Seq(S) /\ Len(Append(s, e)) = Len(s) + 1
  BY <1>1
<1>3. /\ \A k \in 1 .. Len(s) : Append(s, e)[k] = s[k]
      /\ Append(s, e)[Len(s) + 1] = e
  BY <1>1
<1>4. IsSeq(Append(s, e))
  BY <1>2, SeqIsSeq
<1>5. DOMAIN Append(s, e) = 1 .. Len(s) + 1
  BY <1>2, <1>4, IsSeqFacts
<1>6. Append(s, e) # <<>>
  BY <1>1, <1>2
<1> QED BY <1>2, <1>3, <1>4, <1>5, <1>6

LEMMA TailIsSeq ==
  ASSUME NEW s, IsSeq(s), s # <<>>
  PROVE  /\ IsSeq(Tail(s)) /\ Len(s) \in Nat /\ Len(s) > 0
         /\ Len(Tail(s)) = Len(s) - 1 /\ Head(s) = s[1]
         /\ \A k \in 1 .. Len(s) - 1 : Tail(s)[k] = s[k + 1]
<1>1. s \in Seq(ToSet(s)) /\ Len(s) \in Nat
  BY IsSeqFacts
<1>2. /\ Tail(s) \in Seq(ToSet(s)) /\ Len(Tail(s)) = Len(s) - 1
      /\ \A k \in 1 .. Len(Tail(s)) : Tail(s)[k] = s[k + 1]
  BY <1>1, HeadTailProperties
<1>3. Len(s) > 0 /\ Head(s) = s[1]
  BY <1>1, EmptySeq
<1>4. IsSeq(Tail(s))
  BY <1>2, SeqIsSeq
<1> QED BY <1>1, <1>2, <1>3, <1>4

LEMMA ConcatIsSeq ==
  ASSUME NEW s, NEW t, IsSeq(s), IsSeq(t)
  PROVE  /\ IsSeq(s \o t)
         /\ \A k \in DOMAIN (s \o t) : \/ \E i \in DOMAIN s : (s \o t)[k] = s[i]
                                       \/ \E i \in DOMAIN t : (s \o t)[k] = t[i]
<1> DEFINE S == ToSet(s) \cup ToSet(t)
<1>1. s \in Seq(S) /\ t \in Seq(S)
  BY IsSeqFacts, SeqMonotonic
<1>2. /\ s \o t \in Seq(S) /\ Len(s \o t) = Len(s) + Len(t)
      /\ \A k \in 1 .. Len(s) + Len(t) : (s \o t)[k] = IF k <= Len(s) THEN s[k] ELSE t[k - Len(s)]
  BY <1>1, ConcatProperties
<1>3. IsSeq(s \o t)
  BY <1>2, SeqIsSeq
<1>4. /\ DOMAIN (s \o t) = 1 .. Len(s) + Len(t)
      /\ DOMAIN s = 1 .. Len(s) /\ DOMAIN t = 1 .. Len(t) /\ Len(s) \in Nat /\ Len(t) \in Nat
  BY <1>2, <1>3, IsSeqFacts
<1>5. ASSUME NEW k \in DOMAIN (s \o t)
      PROVE  \/ \E i \in DOMAIN s : (s \o t)[k] = s[i]
             \/ \E i \in DOMAIN t : (s \o t)[k] = t[i]
  <2>1. CASE k <= Len(s)
    BY <1>2, <1>4, <2>1
  <2>2. CASE k > Len(s)
    <3>1. k - Len(s) \in DOMAIN t
      BY <1>4, <2>2
    <3> QED BY <1>2, <1>4, <2>2, <3>1
  <2> QED BY <1>4, <2>1, <2>2
<1> QED BY <1>3, <1>5

----------------------------------------------------------------------------
\* Lexemes, in every state

Codes == TokenFirstID .. FirstErrorId - 1

LexShape ==
  /\ {"macros", "lexemes", "expressions", "expressionNames", "nameToToken", "aliasToToken", "tokenLexemes",
      "precedence"} \subseteq DOMAIN lex
  /\ IsSeq(lex.tokenLexemes) /\ IsSeq(lex.lexemes) /\ IsSeq(lex.expressions)
  /\ \A j \in DOMAIN lex.lexemes : {"name", "code"} \subseteq DOMAIN lex.lexemes[j]

\* Names have codes of their own, and aliases those of names.
NamesApart ==
  /\ \A n \in DOMAIN lex.nameToToken : lex.nameToToken[n] \in Codes
  /\ \A m, n \in DOMAIN lex.nameToToken : lex.nameToToken[m] = lex.nameToToken[n] => m = n
  /\ \A a \in DOMAIN lex.aliasToToken : lex.aliasToToken[a] \in Codes

\* A lexeme has the code of its name, and the index of a code is that of one of its lexemes.
LexemesCoded ==
  /\ \A j \in DOMAIN lex.lexemes :
       \/ lex.lexemes[j].code = 0
       \/ /\ lex.lexemes[j].name \in DOMAIN lex.nameToToken
          /\ lex.lexemes[j].code = lex.nameToToken[lex.lexemes[j].name]
  /\ \A k \in DOMAIN lex.tokenLexemes :
       /\ lex.tokenLexemes[k] \in 0 .. Len(lex.lexemes) - 1
       /\ lex.lexemes[lex.tokenLexemes[k] + 1].code = k + TokenFirstID - 1

ExpressionsDivide ==
  /\ \A e \in DOMAIN lex.expressions :
       /\ lex.expressions[e].start \in Nat /\ lex.expressions[e].count \in Nat
       /\ lex.expressions[e].start = IF e = 1 THEN 0 ELSE EndOf(lex.expressions[e - 1])
  /\ Divided <= Len(lex.lexemes)

LexOK == LexShape /\ NamesApart /\ LexemesCoded /\ ExpressionsDivide

----------------------------------------------------------------------------
\* The parse: what no expression has yet, one will have.

Covered == Divided = Len(lex.lexemes)

Closing == \E j \in DOMAIN steps : Closes(steps[j])

Parsing ==
  phase = "parse" =>
    /\ "errors" \in DOMAIN handler /\ handler.errors \in Nat
    /\ IsSeq(steps) /\ SectionsClose(steps)
    /\ clean /\ handler.errors = 0 => Covered \/ Closing

Parsed == phase \in {"map", "end"} \/ Loaded

----------------------------------------------------------------------------
\* The numbering of the symbols, from CreateSymbolMap on

\* The ids of the errors with names, behind those of the tokens.
ErrorIds == FirstErrorId .. ids.nextTerminal - 1

IsNamedError(s) == "error" \in s.flags

NonTerminalsApart(table) ==
  /\ {"nonTerminals", "symbols", "next", "nextTerminal"} \subseteq DOMAIN table
  /\ table.next \in Nat
  /\ \A n \in DOMAIN table.nonTerminals : table.nonTerminals[n] \in 0 .. table.next - 1
  /\ \A m, n \in DOMAIN table.nonTerminals : table.nonTerminals[m] = table.nonTerminals[n] => m = n

ErrorsBehind == ids.nextTerminal \in Nat /\ FirstErrorId <= ids.nextTerminal

Numbered(s) ==
  IF IsNamedError(s) THEN s.id \in ErrorIds ELSE IsTerminal(s) => s.id \in 0 .. FirstErrorId - 1

Apart(s, name) ==
  IsNamedError(s) =>
    \A n \in DOMAIN ids.symbols \ {name} : IsNamedError(ids.symbols[n]) => ids.symbols[n].id # s.id

SymbolsApart ==
  \A n \in DOMAIN ids.symbols : Numbered(ids.symbols[n]) /\ Apart(ids.symbols[n], n)

\* What is thrown is an error with a name, or nothing.
ThrownApart(s) == IsNamedError(s) => s.id \in ErrorIds

ProductionsThrow == IsSeq(productions) /\ \A k \in DOMAIN productions : ThrownApart(productions[k].throws)

\* The symbol that is being read, and the left hand sides that were.
ReadApart ==
  map.read # <<>> =>
    /\ {"name", "found", "misplaced"} \subseteq DOMAIN Read
    /\ \A s \in Read.found : Numbered(s) /\ Apart(s, Read.name)

LeftsThrow == IsSeq(map.lefts) /\ \A k \in DOMAIN map.lefts : "throws" \in DOMAIN map.lefts[k] /\ ThrownApart(map.lefts[k].throws)

MapOK == {"read", "lefts"} \subseteq DOMAIN map /\ ReadApart /\ LeftsThrow

Numbers == NonTerminalsApart(ids) /\ ErrorsBehind /\ SymbolsApart /\ ProductionsThrow

\* No production is there before.
NotYet == phase = "parse" => productions = <<>>

DInv ==
  /\ LexOK /\ Parsing
  /\ Parsed => Numbers /\ (clean => Covered)
  /\ phase = "map" => MapOK
  /\ Loaded => grammar.productions = productions /\ grammar.symbols = ids.symbols

IInv == DInv /\ NotYet

----------------------------------------------------------------------------
\* The parse

LEMMA StepTaken ==
  ASSUME IsSeq(steps), SectionsClose(steps), ~AtEnd, steps' = Tail(steps)
  PROVE  /\ IsSeq(steps') /\ SectionsClose(steps)'
         /\ Closing => Closes(Step) \/ Closing'
         /\ Step.kind = "reduce" /\ Step.prod \in Lines => Closing'
<1>1. /\ IsSeq(steps') /\ Len(steps) \in Nat /\ Len(steps) > 0
      /\ Len(steps') = Len(steps) - 1 /\ Step = steps[1]
      /\ \A k \in 1 .. Len(steps) - 1 : steps'[k] = steps[k + 1]
  BY TailIsSeq DEF AtEnd, Step
<1>2. DOMAIN steps = 1 .. Len(steps) /\ DOMAIN steps' = 1 .. Len(steps) - 1
  BY <1>1, IsSeqFacts
<1>3. ASSUME NEW j \in DOMAIN steps, j > 1
      PROVE  j - 1 \in DOMAIN steps' /\ steps'[j - 1] = steps[j]
  BY <1>1, <1>2, <1>3
<1>4. SectionsClose(steps)'
  <2> SUFFICES ASSUME NEW i \in DOMAIN steps', steps'[i].kind = "reduce", steps'[i].prod \in Lines
               PROVE  \E j \in DOMAIN steps' : j > i /\ Closes(steps'[j])
    BY DEF SectionsClose
  <2>1. i + 1 \in DOMAIN steps /\ steps[i + 1] = steps'[i] /\ i \in Nat
    BY <1>1, <1>2
  <2>2. PICK j \in DOMAIN steps : j > i + 1 /\ Closes(steps[j])
    BY <2>1 DEF SectionsClose
  <2>3. j - 1 \in DOMAIN steps' /\ steps'[j - 1] = steps[j] /\ j - 1 > i
    BY <1>2, <1>3, <2>1, <2>2
  <2> QED BY <2>2, <2>3
<1>5. ASSUME Closing PROVE Closes(Step) \/ Closing'
  <2>1. PICK j \in DOMAIN steps : Closes(steps[j])
    BY <1>5 DEF Closing
  <2>2. CASE j = 1
    BY <1>1, <2>1, <2>2
  <2>3. CASE j > 1
    BY <1>3, <2>1, <2>3 DEF Closing
  <2> QED BY <1>2, <2>1, <2>2, <2>3
<1>6. ASSUME Step.kind = "reduce", Step.prod \in Lines PROVE Closing'
  <2>1. PICK j \in DOMAIN steps : j > 1 /\ Closes(steps[j])
    BY <1>1, <1>2, <1>6 DEF SectionsClose
  <2> QED BY <1>3, <2>1 DEF Closing
<1> QED BY <1>1, <1>4, <1>5, <1>6

\* What the invariant says of the lexemes is unchanged.
SameLexemes ==
  /\ DOMAIN lex' = DOMAIN lex
  /\ lex'.lexemes = lex.lexemes /\ lex'.expressions = lex.expressions
  /\ lex'.nameToToken = lex.nameToToken /\ lex'.aliasToToken = lex.aliasToToken
  /\ lex'.tokenLexemes = lex.tokenLexemes

LEMMA SameLexemesKept ==
  ASSUME LexOK, SameLexemes
  PROVE  LexOK' /\ Divided' = Divided /\ (Covered' <=> Covered) /\ FirstErrorId' = FirstErrorId
<1>1. Divided' = Divided
  BY DEF SameLexemes, Divided
<1>2. FirstErrorId' = FirstErrorId
  BY DEF SameLexemes, FirstErrorId
<1>3. LexShape' /\ NamesApart'
  BY <1>2 DEF LexOK, LexShape, NamesApart, SameLexemes, Codes
<1>4. LexemesCoded' /\ ExpressionsDivide'
  BY <1>1 DEF LexOK, LexemesCoded, ExpressionsDivide, SameLexemes
<1> QED BY <1>1, <1>2, <1>3, <1>4 DEF LexOK, Covered, SameLexemes

\* The reports of a step are added to those before.
Counts == /\ "errors" \in DOMAIN handler'
          /\ \E n \in {0, 1, 2} : handler'.errors = handler.errors + n

\* A step of the parse that adds no lexeme and ends no expression.
Quiet ==
  /\ phase = "parse" /\ phase' = phase /\ clean' = clean
  /\ ~AtEnd /\ steps' = Tail(steps)
  /\ SameLexemes /\ Counts
  /\ Closes(Step) => handler'.errors # handler.errors

LEMMA QuietKeeps == DInv /\ Quiet => DInv'
<1> SUFFICES ASSUME DInv, Quiet PROVE DInv'
  OBVIOUS
<1>1. LexOK' /\ (Covered' <=> Covered)
  BY SameLexemesKept DEF DInv, Quiet
<1>2. /\ "errors" \in DOMAIN handler /\ handler.errors \in Nat
      /\ IsSeq(steps) /\ SectionsClose(steps)
      /\ clean /\ handler.errors = 0 => Covered \/ Closing
  BY DEF DInv, Parsing, Quiet
<1>3. /\ IsSeq(steps') /\ SectionsClose(steps)'
      /\ Closing => Closes(Step) \/ Closing'
  BY <1>2, StepTaken DEF Quiet
<1>4. handler'.errors \in Nat /\ (handler'.errors = 0 => handler.errors = 0 /\ ~Closes(Step))
  BY <1>2 DEF Quiet, Counts
<1>5. Parsing'
  BY <1>1, <1>2, <1>3, <1>4 DEF Parsing, Quiet, Counts
<1>6. ~Parsed' /\ phase' # "map" /\ ~Loaded'
  BY DEF Quiet, Parsed, Loaded
<1> QED BY <1>1, <1>5, <1>6 DEF DInv

\* The same while nothing that the handler has is changed.
LEMMA HandedKeeps ==
  ASSUME DInv, phase = "parse", phase' = phase, clean' = clean, ~AtEnd, steps' = Tail(steps),
         lex' = lex, handler' = handler, ~Closes(Step)
  PROVE  DInv'
<1>1. SameLexemes
  BY DEF SameLexemes
<1>2. Counts
  BY DEF Counts, DInv, Parsing
<1> QED BY <1>1, <1>2, QuietKeeps DEF Quiet

\* A reduction that hands a value on and is none of those that close an expression.
Handed ==
  /\ phase = "parse" /\ phase' = phase /\ ~AtEnd /\ steps' = Tail(steps)
  /\ lex' = lex /\ handler' = handler /\ ~Closes(Step)

LEMMA ShiftHands == Shift => Handed
BY DEF Shift, Handed, Closes

LEMMA ListsAreHanded ==
  ASSUME ReduceHanding \/ ReduceEmpty \/ ReduceListBegins \/ ReduceListGrows \/ ReduceVecGrows
  PROVE  Handed
<1> USE DEF Reducing, Hand, Leave, Handed, Closes, Errors, MacroErrors, ExpressionErrors, PrecedenceErrors,
            ProductionErrors
<1>1. CASE ReduceHanding
  BY <1>1 DEF ReduceHanding
<1>2. CASE ReduceEmpty
  BY <1>2 DEF ReduceEmpty, EmptyMacros, EmptyExpressions, EmptyPrecedences, EmptyProductions
<1>3. CASE ReduceListBegins
  BY <1>3 DEF ReduceListBegins
<1>4. CASE ReduceListGrows
  BY <1>4 DEF ReduceListGrows, ListGrows
<1>5. CASE ReduceVecGrows
  BY <1>5 DEF ReduceVecGrows
<1> QED BY <1>1, <1>2, <1>3, <1>4, <1>5

LEMMA NamesAreHanded ==
  ASSUME ReduceMacroName \/ ReduceOptAction \/ ReduceAssoc \/ ReduceProdLeft \/ ReduceLHSNamedError
  PROVE  Handed
<1> USE DEF Reducing, Hand, Leave, Handed, Closes, Errors, MacroErrors, ExpressionErrors, PrecedenceErrors,
            ProductionErrors
<1>1. CASE ReduceMacroName
  BY <1>1 DEF ReduceMacroName
<1>2. CASE ReduceOptAction
  BY <1>2 DEF ReduceOptAction
<1>3. CASE ReduceAssoc
  BY <1>3 DEF ReduceAssoc
<1>4. CASE ReduceProdLeft
  BY <1>4 DEF ReduceProdLeft
<1>5. CASE ReduceLHSNamedError
  BY <1>5 DEF ReduceLHSNamedError
<1> QED BY <1>1, <1>2, <1>3, <1>4, <1>5

LEMMA SymbolsAreHanded ==
  ASSUME ReduceSymbol \/ ReducePrefix \/ ReduceFullSymbol \/ ReduceSymbolCombine \/ ReduceRHSEmpty \/ ReduceRHS \/ ReduceRight
  PROVE  Handed
<1> USE DEF Reducing, Hand, Leave, Handed, Closes, Errors, MacroErrors, ExpressionErrors, PrecedenceErrors,
            ProductionErrors
<1>1. CASE ReduceSymbol
  BY <1>1 DEF ReduceSymbol
<1>2. CASE ReducePrefix
  BY <1>2 DEF ReducePrefix
<1>3. CASE ReduceFullSymbol
  BY <1>3 DEF ReduceFullSymbol
<1>4. CASE ReduceSymbolCombine
  BY <1>4 DEF ReduceSymbolCombine
<1>5. CASE ReduceRHSEmpty
  BY <1>5 DEF ReduceRHSEmpty
<1>6. CASE ReduceRHS
  BY <1>6 DEF ReduceRHS
<1>7. CASE ReduceRight
  BY <1>7 DEF ReduceRight
<1> QED BY <1>1, <1>2, <1>3, <1>4, <1>5, <1>6, <1>7

LEMMA PostfixesAreHanded ==
  ASSUME ReducePostfix \/ ReduceReduce \/ ReduceExpr
  PROVE  Handed
<1> USE DEF Reducing, Hand, Leave, Handed, Closes, Errors, MacroErrors, ExpressionErrors, PrecedenceErrors,
            ProductionErrors
<1>1. CASE ReducePostfix
  BY <1>1 DEF ReducePostfix
<1>2. CASE ReduceReduce
  BY <1>2 DEF ReduceReduce
<1>3. CASE ReduceExpr
  BY <1>3 DEF ReduceExpr
<1> QED BY <1>1, <1>2, <1>3

\* Reductions that may report a mistake, and change no more than the rest of the lexer.
LEMMA ReportsAreQuiet ==
  ASSUME DInv, clean' = clean,
         \/ ReduceError \/ ReduceMacroLine \/ ReduceTerminal \/ ReducePrecedence \/ ReduceStartSymbols
         \/ ReduceSymbolAction \/ ReducePrec \/ ReduceProdLine
  PROVE  Quiet
<1> DEFINE Begins == /\ phase = "parse" /\ phase' = phase /\ ~AtEnd /\ steps' = Tail(steps)
           Counted == \E n \in {0, 1, 2} : handler' = Reported(n)
<1>0. "errors" \in DOMAIN handler /\ handler.errors \in Nat
  <2>1. phase = "parse"
    BY DEF Reducing, ReduceError, ReduceMacroLine, ReduceTerminal, ReducePrecedence, ReduceStartSymbols,
           ReduceSymbolAction, ReducePrec, ReduceProdLine
  <2> QED BY <2>1 DEF DInv, Parsing
<1>1. lex' = lex => SameLexemes
  BY DEF SameLexemes
<1>2. Counted => Counts
  BY <1>0 DEF Counts, Reported
<1> USE DEF Reducing, Leave
<1>3. CASE ReduceError
  <2>1. Begins /\ lex' = lex /\ handler' = Reported(1)
    BY <1>3 DEF ReduceError
  <2>2. handler'.errors # handler.errors
    BY <1>0, <2>1 DEF Reported
  <2> QED BY <1>1, <1>2, <2>1, <2>2 DEF Quiet
<1> DEFINE Calm == Begins /\ ~Closes(Step)
<1> USE DEF Closes, Errors, MacroErrors, ExpressionErrors, PrecedenceErrors, ProductionErrors
<1>4. CASE ReduceMacroLine
  <2>1. Calm
    BY <1>4 DEF ReduceMacroLine
  <2>2. SameLexemes
    BY <1>4 DEF ReduceMacroLine, SameLexemes
  <2>3. Counted
    BY <1>4 DEF ReduceMacroLine
  <2> QED BY <1>2, <2>1, <2>2, <2>3 DEF Quiet
<1>5. CASE ReduceTerminal
  <2>1. Calm /\ lex' = lex /\ Counted
    BY <1>5 DEF ReduceTerminal
  <2> QED BY <1>1, <1>2, <2>1 DEF Quiet
<1>6. CASE ReducePrecedence
  <2>1. Calm
    BY <1>6 DEF ReducePrecedence
  <2>2. lex' = lex \/ \E v : lex' = [lex EXCEPT !.precedence = v]
    BY <1>6 DEF ReducePrecedence
  <2>4. SameLexemes
    <3>1. CASE lex' = lex
      BY <1>1, <3>1
    <3>2. ASSUME NEW v, lex' = [lex EXCEPT !.precedence = v] PROVE SameLexemes
      BY <3>2 DEF SameLexemes, DInv, LexOK, LexShape
    <3> QED BY <2>2, <3>1, <3>2
  <2>3. Counts
    BY <1>0, <1>6 DEF ReducePrecedence, Counts
  <2> QED BY <2>1, <2>3, <2>4 DEF Quiet
<1>7. CASE ReduceStartSymbols
  <2>1. Calm /\ lex' = lex
    BY <1>7 DEF ReduceStartSymbols
  <2>2. Counts
    BY <1>0, <1>7 DEF ReduceStartSymbols, Counts, Reported
  <2> QED BY <1>1, <2>1, <2>2 DEF Quiet
<1>8. CASE ReduceSymbolAction
  <2>1. Calm /\ lex' = lex
    BY <1>8 DEF ReduceSymbolAction
  <2>2. Counts
    <3> DEFINE name == Of(Parse(2))
    <3>1. CASE name \in handler.labels
      <4>1. handler' = Reported(1)
        BY <1>8, <3>1 DEF ReduceSymbolAction
      <4> QED BY <1>2, <4>1
    <3>2. CASE name \notin handler.labels
      <4>1. handler' = [handler EXCEPT !.labels = @ \cup {name},
                                       !.productions = Append(@, [name |-> name, left |-> <<name>>, right |-> <<>>])]
        BY <1>8, <3>2 DEF ReduceSymbolAction
      <4> HIDE DEF name
      <4> QED BY <1>0, <4>1 DEF Counts
    <3> QED BY <3>1, <3>2
  <2> QED BY <1>1, <2>1, <2>2 DEF Quiet
<1>9. CASE ReducePrec
  <2>1. Calm /\ lex' = lex /\ Counted
    BY <1>9 DEF ReducePrec
  <2> QED BY <1>1, <1>2, <2>1 DEF Quiet
<1>10. CASE ReduceProdLine
  <2>1. Calm /\ lex' = lex
    BY <1>10 DEF ReduceProdLine
  <2>2. Counts
    <3>1. \/ \E n \in {0, 1} : handler' = Reported(n)
          \/ \E v, w : handler' = [handler EXCEPT !.labels = v, !.productions = w]
      <4>1. CASE ~LineSound
        BY <1>10, <4>1 DEF ReduceProdLine
      <4>2. CASE LineSound
        <5>1. PICK right : handler' = [handler EXCEPT !.labels = @ \cup {Head(Of(Parse(0)))},
                                         !.productions = @ \o [k \in DOMAIN right |->
                                           [name |-> Head(Of(Parse(0))), left |-> Tail(Of(Parse(0))),
                                            right |-> right[k]]]]
          BY <1>10, <4>2 DEF ReduceProdLine
        <5> QED BY <5>1
      <4> QED BY <4>1, <4>2
    <3>2. CASE \E n \in {0, 1} : handler' = Reported(n)
      BY <1>2, <3>2
    <3>3. ASSUME NEW v, NEW w, handler' = [handler EXCEPT !.labels = v, !.productions = w] PROVE Counts
      BY <1>0, <3>3 DEF Counts
    <3> QED BY <3>1, <3>2, <3>3
  <2> QED BY <1>1, <2>1, <2>2 DEF Quiet
<1> QED BY <1>3, <1>4, <1>5, <1>6, <1>7, <1>8, <1>9, <1>10

LEMMA CodeFacts ==
  ASSUME LexOK
  PROVE  /\ Len(lex.tokenLexemes) \in Nat /\ FirstErrorId = Len(lex.tokenLexemes) + 2
         /\ Codes = 2 .. FirstErrorId - 1 /\ FirstErrorId \in Nat /\ FirstErrorId >= 2
<1>1. Len(lex.tokenLexemes) \in Nat
  BY IsSeqFacts DEF LexOK, LexShape
<1> QED BY <1>1 DEF FirstErrorId, Codes, TokenFirstID

LEMMA DividedInt == LexOK => Divided \in Int
<1> SUFFICES ASSUME LexOK PROVE Divided \in Int
  OBVIOUS
<1>1. CASE lex.expressions = <<>>
  BY <1>1 DEF Divided
<1>2. CASE lex.expressions # <<>>
  <2>1. Len(lex.expressions) \in DOMAIN lex.expressions
    BY <1>2, IsSeqFacts, TailIsSeq DEF LexOK, LexShape
  <2> QED BY <1>2, <2>1 DEF Divided, EndOf, Last, LexOK, ExpressionsDivide
<1> QED BY <1>1, <1>2

LEMMA IndexBehind ==
  ASSUME NEW n \in Nat, NEW i \in 0 .. n - 1
  PROVE  i + 1 \in 1 .. n
OBVIOUS

\* A lexeme is added, with the code of its name.
LEMMA LexemeAdded ==
  ASSUME LexOK, NEW name, NEW lexeme, {"name", "code"} \subseteq DOMAIN lexeme,
         lexeme.name = name, lexeme.code = TokenOf(name),
         DOMAIN lex' = DOMAIN lex, lex'.expressions = lex.expressions,
         lex'.lexemes = Append(lex.lexemes, lexeme),
         lex'.nameToToken = Inserted(lex.nameToToken, name, TokenOf(name)),
         lex'.tokenLexemes = IF name \in DOMAIN lex.nameToToken THEN lex.tokenLexemes
                             ELSE Append(lex.tokenLexemes, Len(lex.lexemes)),
         \A a \in DOMAIN lex'.aliasToToken :
           \/ a \in DOMAIN lex.aliasToToken /\ lex'.aliasToToken[a] = lex.aliasToToken[a]
           \/ lex'.aliasToToken[a] = TokenOf(name)
  PROVE  LexOK'
<1> DEFINE known == name \in DOMAIN lex.nameToToken
           code  == TokenOf(name)
<1>1. /\ IsSeq(lex.lexemes) /\ IsSeq(lex.tokenLexemes) /\ IsSeq(lex.expressions)
      /\ Len(lex.lexemes) \in Nat /\ Len(lex.tokenLexemes) \in Nat
      /\ DOMAIN lex.lexemes = 1 .. Len(lex.lexemes)
      /\ DOMAIN lex.tokenLexemes = 1 .. Len(lex.tokenLexemes)
  BY IsSeqFacts DEF LexOK, LexShape
<1>2. /\ FirstErrorId = Len(lex.tokenLexemes) + 2 /\ Codes = 2 .. FirstErrorId - 1
      /\ FirstErrorId \in Nat /\ FirstErrorId >= 2
  BY CodeFacts
<1>3. /\ IsSeq(lex'.lexemes) /\ Len(lex'.lexemes) = Len(lex.lexemes) + 1
      /\ DOMAIN lex'.lexemes = 1 .. Len(lex.lexemes) + 1
      /\ \A j \in DOMAIN lex.lexemes : lex'.lexemes[j] = lex.lexemes[j]
      /\ lex'.lexemes[Len(lex.lexemes) + 1] = lexeme
  BY <1>1, AppendIsSeq
<1>4. /\ IsSeq(lex'.tokenLexemes)
      /\ \A k \in DOMAIN lex.tokenLexemes : lex'.tokenLexemes[k] = lex.tokenLexemes[k]
      /\ known => lex'.tokenLexemes = lex.tokenLexemes
      /\ ~known => /\ DOMAIN lex'.tokenLexemes = 1 .. Len(lex.tokenLexemes) + 1
                   /\ Len(lex'.tokenLexemes) = Len(lex.tokenLexemes) + 1
                   /\ lex'.tokenLexemes[Len(lex.tokenLexemes) + 1] = Len(lex.lexemes)
  BY <1>1, AppendIsSeq
<1>5. FirstErrorId' = IF known THEN FirstErrorId ELSE FirstErrorId + 1
  BY <1>1, <1>4 DEF FirstErrorId, TokenFirstID
<1>6. /\ Codes' = 2 .. FirstErrorId' - 1 /\ Codes \subseteq Codes' /\ code \in Codes'
      /\ ~known => code = FirstErrorId
      /\ known => code = lex.nameToToken[name] /\ code \in Codes
  <2>1. Codes' = 2 .. FirstErrorId' - 1
    BY DEF Codes, TokenFirstID
  <2>2. ~known => code = FirstErrorId
    BY DEF TokenOf, FirstErrorId
  <2>3. known => code = lex.nameToToken[name] /\ code \in Codes
    BY DEF TokenOf, LexOK, NamesApart
  <2> QED BY <1>2, <1>5, <2>1, <2>2, <2>3
<1> HIDE DEF code
<1>7. /\ DOMAIN lex'.nameToToken = DOMAIN lex.nameToToken \cup {name}
      /\ \A n \in DOMAIN lex.nameToToken : lex'.nameToToken[n] = lex.nameToToken[n]
      /\ lex'.nameToToken[name] = code
  BY <1>6 DEF code, Inserted
<1>8. LexShape'
  <2>1. \A j \in DOMAIN lex'.lexemes : {"name", "code"} \subseteq DOMAIN lex'.lexemes[j]
    BY <1>1, <1>3 DEF LexOK, LexShape
  <2> QED BY <1>1, <1>3, <1>4, <2>1 DEF LexOK, LexShape
<1>9. NamesApart'
  <2>1. \A n \in DOMAIN lex.nameToToken : lex.nameToToken[n] \in Codes
    BY DEF LexOK, NamesApart
  <2>2. \A m, n \in DOMAIN lex.nameToToken : lex.nameToToken[m] = lex.nameToToken[n] => m = n
    BY DEF LexOK, NamesApart
  <2>3. \A n \in DOMAIN lex'.nameToToken : lex'.nameToToken[n] \in Codes'
    BY <1>6, <1>7, <2>1
  <2>4. \A n \in DOMAIN lex.nameToToken : ~known => lex.nameToToken[n] # code
    BY <1>2, <1>6, <2>1
  <2>5. \A m, n \in DOMAIN lex'.nameToToken : lex'.nameToToken[m] = lex'.nameToToken[n] => m = n
    BY <1>7, <2>2, <2>4
  <2>6. \A a \in DOMAIN lex'.aliasToToken : lex'.aliasToToken[a] \in Codes'
    BY <1>6 DEF LexOK, NamesApart, code
  <2> QED BY <2>3, <2>5, <2>6 DEF NamesApart
<1>10. LexemesCoded'
  <2>1. ASSUME NEW j \in DOMAIN lex'.lexemes
        PROVE  \/ lex'.lexemes[j].code = 0
               \/ /\ lex'.lexemes[j].name \in DOMAIN lex'.nameToToken
                  /\ lex'.lexemes[j].code = lex'.nameToToken[lex'.lexemes[j].name]
    <3>1. CASE j \in DOMAIN lex.lexemes
      BY <1>3, <1>7, <3>1 DEF LexOK, LexemesCoded
    <3>2. CASE j = Len(lex.lexemes) + 1
      BY <1>3, <1>7, <3>2 DEF code
    <3> QED BY <1>1, <1>3, <3>1, <3>2
  <2>2. ASSUME NEW k \in DOMAIN lex'.tokenLexemes
        PROVE  /\ lex'.tokenLexemes[k] \in 0 .. Len(lex'.lexemes) - 1
               /\ lex'.lexemes[lex'.tokenLexemes[k] + 1].code = k + TokenFirstID - 1
    <3>1. CASE k \in DOMAIN lex.tokenLexemes
      <4>1. /\ lex.tokenLexemes[k] \in 0 .. Len(lex.lexemes) - 1
            /\ lex.lexemes[lex.tokenLexemes[k] + 1].code = k + TokenFirstID - 1
        BY <3>1 DEF LexOK, LexemesCoded
      <4>2. lex.tokenLexemes[k] + 1 \in 1 .. Len(lex.lexemes)
        BY <1>1, <4>1, IndexBehind
      <4>3. lex.tokenLexemes[k] + 1 \in DOMAIN lex.lexemes
        BY <1>1, <4>2
      <4> QED BY <1>1, <1>3, <1>4, <3>1, <4>1, <4>3
    <3>2. CASE k \notin DOMAIN lex.tokenLexemes
      <4>1. ~known /\ k = Len(lex.tokenLexemes) + 1
        BY <1>1, <1>4, <3>2
      <4>2. lex'.tokenLexemes[k] = Len(lex.lexemes) /\ lexeme.code = FirstErrorId
        BY <1>4, <1>6, <4>1 DEF code
      <4> QED BY <1>1, <1>2, <1>3, <4>1, <4>2 DEF TokenFirstID
    <3> QED BY <3>1, <3>2
  <2> QED BY <2>1, <2>2 DEF LexemesCoded
<1>11. ExpressionsDivide'
  <2>1. Divided' = Divided
    BY DEF Divided
  <2>2. Divided \in Int
    BY DividedInt
  <2> QED BY <1>1, <1>3, <2>1, <2>2 DEF LexOK, ExpressionsDivide
<1> QED BY <1>8, <1>9, <1>10, <1>11 DEF LexOK

\* A lexeme that is ignored has no name and no code.
LEMMA IgnoredAdded ==
  ASSUME LexOK, NEW lexeme, {"name", "code"} \subseteq DOMAIN lexeme, lexeme.code = 0,
         lex' = [lex EXCEPT !.lexemes = Append(@, lexeme)]
  PROVE  LexOK'
<1>1. /\ IsSeq(lex.lexemes) /\ Len(lex.lexemes) \in Nat /\ DOMAIN lex.lexemes = 1 .. Len(lex.lexemes)
  BY IsSeqFacts DEF LexOK, LexShape
<1>2. /\ DOMAIN lex' = DOMAIN lex /\ lex'.expressions = lex.expressions
      /\ lex'.nameToToken = lex.nameToToken /\ lex'.aliasToToken = lex.aliasToToken
      /\ lex'.tokenLexemes = lex.tokenLexemes /\ lex'.lexemes = Append(lex.lexemes, lexeme)
  BY DEF LexOK, LexShape
<1>3. /\ IsSeq(lex'.lexemes) /\ Len(lex'.lexemes) = Len(lex.lexemes) + 1
      /\ DOMAIN lex'.lexemes = 1 .. Len(lex.lexemes) + 1
      /\ \A j \in DOMAIN lex.lexemes : lex'.lexemes[j] = lex.lexemes[j]
      /\ lex'.lexemes[Len(lex.lexemes) + 1] = lexeme
  BY <1>1, <1>2, AppendIsSeq
<1>4. FirstErrorId' = FirstErrorId /\ Divided' = Divided
  BY <1>2 DEF FirstErrorId, Divided
<1>5. NamesApart'
  BY <1>2, <1>4 DEF LexOK, NamesApart, Codes
<1>6. LexShape'
  <2>1. \A j \in DOMAIN lex'.lexemes : {"name", "code"} \subseteq DOMAIN lex'.lexemes[j]
    BY <1>1, <1>3 DEF LexOK, LexShape
  <2> QED BY <1>2, <1>3, <2>1 DEF LexOK, LexShape
<1>7. LexemesCoded'
  <2>1. ASSUME NEW k \in DOMAIN lex.tokenLexemes
        PROVE  /\ lex.tokenLexemes[k] \in 0 .. Len(lex'.lexemes) - 1
               /\ lex'.lexemes[lex.tokenLexemes[k] + 1].code = k + TokenFirstID - 1
    <3>1. /\ lex.tokenLexemes[k] \in 0 .. Len(lex.lexemes) - 1
          /\ lex.lexemes[lex.tokenLexemes[k] + 1].code = k + TokenFirstID - 1
      BY DEF LexOK, LexemesCoded
    <3>2. lex.tokenLexemes[k] + 1 \in DOMAIN lex.lexemes
      BY <1>1, <3>1
    <3> QED BY <1>1, <1>3, <3>1, <3>2
  <2>2. \A j \in DOMAIN lex'.lexemes :
          \/ lex'.lexemes[j].code = 0
          \/ /\ lex'.lexemes[j].name \in DOMAIN lex.nameToToken
             /\ lex'.lexemes[j].code = lex.nameToToken[lex'.lexemes[j].name]
    BY <1>1, <1>3 DEF LexOK, LexemesCoded
  <2> QED BY <1>2, <2>1, <2>2 DEF LexemesCoded
<1>8. ExpressionsDivide'
  <2>1. Divided \in Int
    BY DividedInt
  <2> QED BY <1>1, <1>2, <1>3, <1>4, <2>1 DEF LexOK, ExpressionsDivide
<1> QED BY <1>5, <1>6, <1>7, <1>8 DEF LexOK

LEMMA LinesAddLexemes ==
  ASSUME DInv, phase = "parse", ReduceExprLine \/ ReduceExprLineAlias \/ ReduceExprLineIgnore
  PROVE  LexOK'
<1>0. LexOK
  BY DEF DInv
<1>1. ASSUME NEW name, NEW regexp, NEW action,
             \/ lex' = WithLexeme(name, regexp, action)
             \/ \E alias : lex' = [WithLexeme(name, regexp, action)
                                     EXCEPT !.aliasToToken = Assigned(@, alias, TokenOf(name))]
      PROVE  LexOK'
  <2> DEFINE lexeme == NewLexeme(name, regexp, action, TokenOf(name))
             with   == WithLexeme(name, regexp, action)
  <2>1. /\ DOMAIN with = DOMAIN lex /\ with.expressions = lex.expressions
        /\ with.lexemes = Append(lex.lexemes, lexeme)
        /\ with.nameToToken = Inserted(lex.nameToToken, name, TokenOf(name))
        /\ with.tokenLexemes = IF name \in DOMAIN lex.nameToToken THEN lex.tokenLexemes
                               ELSE Append(lex.tokenLexemes, Len(lex.lexemes))
        /\ with.aliasToToken = lex.aliasToToken
    BY <1>0 DEF WithLexeme, LexOK, LexShape
  <2>2. {"name", "code"} \subseteq DOMAIN lexeme /\ lexeme.name = name /\ lexeme.code = TokenOf(name)
    BY DEF NewLexeme
  <2>3. "aliasToToken" \in DOMAIN with
    BY <1>0, <2>1 DEF LexOK, LexShape
  <2> HIDE DEF lexeme, with
  <2>4. CASE lex' = with
    BY <1>0, <2>1, <2>2, <2>4, LexemeAdded
  <2>5. ASSUME NEW alias, lex' = [with EXCEPT !.aliasToToken = Assigned(@, alias, TokenOf(name))]
        PROVE  LexOK'
    <3>1. /\ DOMAIN lex' = DOMAIN with /\ lex'.expressions = with.expressions
          /\ lex'.lexemes = with.lexemes /\ lex'.nameToToken = with.nameToToken
          /\ lex'.tokenLexemes = with.tokenLexemes
          /\ lex'.aliasToToken = Assigned(with.aliasToToken, alias, TokenOf(name))
      BY <2>3, <2>5
    <3>2. \A a \in DOMAIN lex'.aliasToToken :
            \/ a \in DOMAIN lex.aliasToToken /\ lex'.aliasToToken[a] = lex.aliasToToken[a]
            \/ lex'.aliasToToken[a] = TokenOf(name)
      BY <2>1, <3>1 DEF Assigned
    <3> QED BY <1>0, <2>1, <2>2, <3>1, <3>2, LexemeAdded
  <2> QED BY <1>1, <2>4, <2>5 DEF with
<1>2. CASE ReduceExprLine
  BY <1>1, <1>2 DEF ReduceExprLine
<1>3. CASE ReduceExprLineAlias
  <2>1. CASE lex' = lex
    BY <1>0, <2>1, SameLexemesKept DEF SameLexemes
  <2>2. CASE lex' # lex
    <3>1. lex' = [WithLexeme(Of(Parse(1)), Of(Parse(0)), Of(Parse(4)))
                    EXCEPT !.aliasToToken = Assigned(@, Of(Parse(3)), TokenOf(Of(Parse(1))))]
      BY <1>3, <2>2 DEF ReduceExprLineAlias
    <3> QED BY <1>1, <3>1
  <2> QED BY <2>1, <2>2
<1>4. CASE ReduceExprLineIgnore
  <2> DEFINE lexeme == NewLexeme(<<>>, Of(Parse(0)), Of(Parse(2)), 0)
  <2>1. lex' = [lex EXCEPT !.lexemes = Append(@, lexeme)]
    BY <1>4 DEF ReduceExprLineIgnore
  <2>2. {"name", "code"} \subseteq DOMAIN lexeme /\ lexeme.code = 0
    BY DEF NewLexeme
  <2> HIDE DEF lexeme
  <2> QED BY <1>0, <2>1, <2>2, IgnoredAdded
<1> QED BY <1>2, <1>3, <1>4

\* The lines of an expression are followed by its end.
LEMMA LinesKeep ==
  ASSUME DInv, clean' = clean, ReduceExprLine \/ ReduceExprLineAlias \/ ReduceExprLineIgnore
  PROVE  DInv'
<1>1. /\ phase = "parse" /\ phase' = phase /\ ~AtEnd /\ steps' = Tail(steps)
      /\ Step.kind = "reduce" /\ Step.prod \in Lines
  BY DEF ReduceExprLine, ReduceExprLineAlias, ReduceExprLineIgnore, Reducing, Leave, Lines
<1>2. /\ "errors" \in DOMAIN handler /\ handler.errors \in Nat
      /\ IsSeq(steps) /\ SectionsClose(steps)
  BY <1>1 DEF DInv, Parsing
<1>3. handler' = handler \/ \E n \in {0, 1} : handler' = Reported(n)
  BY DEF ReduceExprLine, ReduceExprLineAlias, ReduceExprLineIgnore
<1>4. "errors" \in DOMAIN handler' /\ handler'.errors \in Nat
  BY <1>2, <1>3 DEF Reported
<1>5. IsSeq(steps') /\ SectionsClose(steps)' /\ Closing'
  BY <1>1, <1>2, StepTaken
<1>6. Parsing'
  BY <1>4, <1>5 DEF Parsing
<1>7. ~Parsed' /\ phase' # "map" /\ ~Loaded'
  BY <1>1 DEF Parsed, Loaded
<1>8. LexOK'
  BY <1>1, LinesAddLexemes
<1> QED BY <1>6, <1>7, <1>8 DEF DInv

\* The end of an expression: the lexemes since the one before are its own.
LEMMA SectionKeeps ==
  ASSUME DInv, clean' = clean, ReduceExprSection
  PROVE  DInv'
<1> DEFINE name       == Of(Parse(1))
           defined    == name \in DOMAIN lex.expressionNames
           start      == IF lex.expressions = <<>> THEN 0 ELSE EndOf(Last(lex.expressions))
           expression == [start |-> start, count |-> Len(lex.lexemes) - start]
<1>1. phase = "parse" /\ phase' = phase /\ ~AtEnd /\ steps' = Tail(steps)
  BY DEF ReduceExprSection, Reducing, Leave
<1>2. /\ LexOK /\ "errors" \in DOMAIN handler /\ handler.errors \in Nat
      /\ IsSeq(steps) /\ SectionsClose(steps)
  BY <1>1 DEF DInv, Parsing
<1>3. IsSeq(steps') /\ SectionsClose(steps)'
  BY <1>1, <1>2, StepTaken
<1>4. ~Parsed' /\ phase' # "map" /\ ~Loaded'
  BY <1>1 DEF Parsed, Loaded
<1>5. /\ "errors" \in DOMAIN handler' /\ handler'.errors \in Nat
      /\ defined => handler'.errors > 0
  <2>1. CASE defined
    <3>1. \E n \in {1, 2} : handler' = Reported(n)
      BY <2>1 DEF ReduceExprSection
    <3> QED BY <1>2, <3>1 DEF Reported
  <2>2. CASE ~defined
    <3>1. \E n \in {0, 1} : handler' = Reported(n)
      BY <2>2 DEF ReduceExprSection
    <3> QED BY <1>2, <2>2, <3>1 DEF Reported
  <2> QED BY <2>1, <2>2
<1>6. CASE defined
  <2>1. lex' = lex
    BY <1>6 DEF ReduceExprSection
  <2>2. LexOK'
    BY <1>2, <2>1, SameLexemesKept DEF SameLexemes
  <2>3. Parsing'
    BY <1>3, <1>5, <1>6 DEF Parsing
  <2> QED BY <1>4, <2>2, <2>3 DEF DInv
<1>7. CASE ~defined
  <2>1. lex' = [lex EXCEPT !.expressionNames = Inserted(@, name, Len(lex.expressions)),
                           !.expressions = Append(@, expression)]
    BY <1>7 DEF ReduceExprSection, EndOf
  <2> HIDE DEF name, defined, start, expression
  <2>2. /\ DOMAIN lex' = DOMAIN lex /\ lex'.lexemes = lex.lexemes
        /\ lex'.nameToToken = lex.nameToToken /\ lex'.aliasToToken = lex.aliasToToken
        /\ lex'.tokenLexemes = lex.tokenLexemes /\ lex'.expressions = Append(lex.expressions, expression)
    BY <1>2, <2>1 DEF LexOK, LexShape
  <2>3. /\ IsSeq(lex.expressions) /\ Len(lex.expressions) \in Nat
        /\ DOMAIN lex.expressions = 1 .. Len(lex.expressions)
        /\ Len(lex.lexemes) \in Nat
    BY <1>2, IsSeqFacts DEF LexOK, LexShape
  <2>4. /\ IsSeq(lex'.expressions) /\ lex'.expressions # <<>>
        /\ Len(lex'.expressions) = Len(lex.expressions) + 1
        /\ DOMAIN lex'.expressions = 1 .. Len(lex.expressions) + 1
        /\ \A e \in 1 .. Len(lex.expressions) : lex'.expressions[e] = lex.expressions[e]
        /\ lex'.expressions[Len(lex.expressions) + 1] = expression
    BY <2>2, <2>3, AppendIsSeq
  <2>5. start = Divided /\ start \in Nat /\ start <= Len(lex.lexemes)
    <3>1. start = Divided
      BY DEF start, Divided
    <3>2. CASE lex.expressions = <<>>
      BY <2>3, <3>1, <3>2 DEF start
    <3>3. CASE lex.expressions # <<>>
      <4>1. Len(lex.expressions) \in DOMAIN lex.expressions
        BY <2>3, <3>3, TailIsSeq
      <4>2. start \in Nat
        BY <1>2, <3>3, <4>1 DEF start, EndOf, Last, LexOK, ExpressionsDivide
      <4> QED BY <1>2, <3>1, <4>2 DEF LexOK, ExpressionsDivide
    <3> QED BY <3>1, <3>2, <3>3
  <2>6. expression.start = start /\ expression.count = Len(lex.lexemes) - start
    BY DEF expression
  <2>7. Divided' = Len(lex.lexemes)
    BY <2>3, <2>4, <2>5, <2>6 DEF Divided, Last, EndOf
  <2>8. ExpressionsDivide'
    <3>1. ASSUME NEW e \in DOMAIN lex'.expressions
          PROVE  /\ lex'.expressions[e].start \in Nat /\ lex'.expressions[e].count \in Nat
                 /\ lex'.expressions[e].start = IF e = 1 THEN 0 ELSE EndOf(lex'.expressions[e - 1])
      <4>1. CASE e \in 1 .. Len(lex.expressions)
        <5>1. /\ lex.expressions[e].start \in Nat /\ lex.expressions[e].count \in Nat
              /\ lex.expressions[e].start = IF e = 1 THEN 0 ELSE EndOf(lex.expressions[e - 1])
          BY <1>2, <2>3, <4>1 DEF LexOK, ExpressionsDivide
        <5>2. e # 1 => lex'.expressions[e - 1] = lex.expressions[e - 1]
          BY <2>3, <2>4, <4>1
        <5> QED BY <2>4, <4>1, <5>1, <5>2
      <4>2. CASE e = Len(lex.expressions) + 1
        <5>1. lex'.expressions[e].start \in Nat /\ lex'.expressions[e].count \in Nat
          <6>1. start \in Nat /\ Len(lex.lexemes) - start \in Nat
            BY <2>3, <2>5
          <6>2. lex'.expressions[e] = expression
            BY <2>4, <4>2
          <6> QED BY <2>6, <6>1, <6>2
        <5>2. CASE e = 1
          <6>1. lex.expressions = <<>>
            BY <2>3, <4>2, <5>2, TailIsSeq
          <6> QED BY <2>4, <2>6, <4>2, <5>1, <5>2, <6>1 DEF start
        <5>3. CASE e # 1
          <6>1. lex.expressions # <<>> /\ e - 1 = Len(lex.expressions)
            BY <2>3, <4>2, <5>3
          <6>2. start = EndOf(lex.expressions[e - 1])
            BY <6>1 DEF start, Last
          <6>3. lex'.expressions[e - 1] = lex.expressions[e - 1]
            BY <2>3, <2>4, <4>2, <5>3
          <6> QED BY <2>4, <2>6, <4>2, <5>1, <5>3, <6>2, <6>3
        <5> QED BY <5>2, <5>3
      <4> QED BY <2>3, <2>4, <4>1, <4>2
    <3> QED BY <2>2, <2>3, <2>7, <3>1 DEF ExpressionsDivide
  <2>9. FirstErrorId' = FirstErrorId
    BY <2>2 DEF FirstErrorId
  <2>10. LexShape' /\ NamesApart' /\ LexemesCoded'
    BY <1>2, <2>2, <2>4, <2>9 DEF LexOK, LexShape, NamesApart, LexemesCoded, Codes
  <2>11. Covered'
    BY <2>2, <2>7 DEF Covered
  <2>12. Parsing'
    BY <1>3, <1>5, <2>11 DEF Parsing
  <2> QED BY <1>4, <2>8, <2>10, <2>12 DEF DInv, LexOK
<1> QED BY <1>6, <1>7

\* Shifts and reductions.
LEMMA HandleKeeps == DInv /\ Handle => DInv'
<1> SUFFICES ASSUME DInv, Handle PROVE DInv'
  OBVIOUS
<1>1. clean' = clean
  BY DEF Handle
<1>2. CASE Handed
  BY <1>1, <1>2, HandedKeeps DEF Handed
<1>3. CASE Quiet
  BY <1>3, QuietKeeps
<1>4. CASE Crash
  <2>1. phase' = "crashed" /\ lex' = lex
    BY <1>4 DEF Crash
  <2>2. LexOK'
    BY <2>1, SameLexemesKept DEF SameLexemes, DInv
  <2> QED BY <2>1, <2>2 DEF DInv, Parsing, Parsed, Loaded
<1>5. CASE ReduceExprSection
  BY <1>1, <1>5, SectionKeeps
<1>6. CASE ReduceExprLine \/ ReduceExprLineAlias \/ ReduceExprLineIgnore
  BY <1>1, <1>6, LinesKeep
<1>7. CASE Reduce
  <2>1. ASSUME \/ ReduceError \/ ReduceMacroLine \/ ReduceTerminal \/ ReducePrecedence \/ ReduceStartSymbols
               \/ ReduceSymbolAction \/ ReducePrec \/ ReduceProdLine
        PROVE  Quiet
    BY <1>1, <2>1, ReportsAreQuiet
  <2> QED BY <1>2, <1>3, <1>4, <1>5, <1>6, <1>7, <2>1, ListsAreHanded, NamesAreHanded, SymbolsAreHanded,
             PostfixesAreHanded DEF Reduce
<1>8. CASE Shift
  BY <1>2, <1>8, ShiftHands
<1> QED BY <1>7, <1>8 DEF Handle

----------------------------------------------------------------------------
\* CreateSymbolMap

LEMMA KnownApart ==
  ASSUME NEW table, NonTerminalsApart(table), NEW name
  PROVE  /\ NonTerminalsApart(Known(table, name))
         /\ Known(table, name).symbols = table.symbols
         /\ Known(table, name).nextTerminal = table.nextTerminal
<1>1. CASE name \in DOMAIN table.nonTerminals
  BY <1>1 DEF Known
<1>2. CASE name \notin DOMAIN table.nonTerminals
  <2> DEFINE made == Known(table, name)
  <2>1. /\ DOMAIN made = DOMAIN table /\ made.symbols = table.symbols
        /\ made.nextTerminal = table.nextTerminal /\ made.next = table.next + 1
        /\ made.nonTerminals = Inserted(table.nonTerminals, name, table.next)
    BY <1>2 DEF Known, NonTerminalsApart
  <2>2. /\ DOMAIN made.nonTerminals = DOMAIN table.nonTerminals \cup {name}
        /\ \A n \in DOMAIN table.nonTerminals : made.nonTerminals[n] = table.nonTerminals[n]
        /\ made.nonTerminals[name] = table.next
    BY <1>2, <2>1 DEF Inserted
  <2> HIDE DEF made
  <2>3. \A n \in DOMAIN made.nonTerminals : made.nonTerminals[n] \in 0 .. made.next - 1
    BY <2>1, <2>2 DEF NonTerminalsApart
  <2>4. \A m, n \in DOMAIN made.nonTerminals : made.nonTerminals[m] = made.nonTerminals[n] => m = n
    BY <2>1, <2>2 DEF NonTerminalsApart
  <2>5. NonTerminalsApart(made)
    BY <2>1, <2>3, <2>4 DEF NonTerminalsApart
  <2> QED BY <2>1, <2>5 DEF made
<1> QED BY <1>1, <1>2

\* More errors with names: what was apart from the tokens still is.
LEMMA ErrorIdsGrow ==
  ASSUME LexOK, Numbers, lex' = lex, ids'.nextTerminal \in {ids.nextTerminal, ids.nextTerminal + 1}
  PROVE  /\ FirstErrorId' = FirstErrorId /\ ErrorIds \subseteq ErrorIds' /\ ErrorsBehind'
         /\ FirstErrorId \in Nat /\ FirstErrorId >= 2 /\ ids.nextTerminal \in Nat
         /\ ids.nextTerminal \notin ErrorIds
         /\ ids'.nextTerminal = ids.nextTerminal + 1 => ids.nextTerminal \in ErrorIds'
<1>1. FirstErrorId' = FirstErrorId
  BY DEF FirstErrorId
<1>2. FirstErrorId \in Nat /\ FirstErrorId >= 2
  BY CodeFacts
<1> QED BY <1>1, <1>2 DEF ErrorIds, ErrorsBehind, Numbers

\* A step that leaves the symbols alone but for one that is new.
LEMMA NumbersKept ==
  ASSUME LexOK, Numbers, lex' = lex, NonTerminalsApart(ids'),
         ids'.nextTerminal \in {ids.nextTerminal, ids.nextTerminal + 1},
         ProductionsThrow',
         NEW name, NEW symbol,
         \/ ids'.symbols = ids.symbols
         \/ /\ ids'.symbols = Inserted(ids.symbols, name, symbol)
            /\ Numbered(symbol) /\ Apart(symbol, name)
         \/ /\ ids'.symbols = Assigned(ids.symbols, name, symbol)
            /\ ~IsNamedError(symbol) /\ ~IsTerminal(symbol)
  PROVE  Numbers'
<1>1. /\ FirstErrorId' = FirstErrorId /\ ErrorIds \subseteq ErrorIds' /\ ErrorsBehind'
  BY ErrorIdsGrow
<1>2. \A n \in DOMAIN ids.symbols : Numbered(ids.symbols[n]) /\ Apart(ids.symbols[n], n)
  BY DEF Numbers, SymbolsApart
<1>3. ASSUME NEW n \in DOMAIN ids'.symbols
      PROVE  Numbered(ids.symbols[n])' /\ Apart(ids.symbols[n], n)'
  <2>1. CASE ids'.symbols = ids.symbols
    BY <1>1, <1>2, <2>1 DEF Numbered, Apart
  <2>2. CASE /\ ids'.symbols = Inserted(ids.symbols, name, symbol)
             /\ Numbered(symbol) /\ Apart(symbol, name)
    <3>1. CASE name \in DOMAIN ids.symbols
      <4>1. DOMAIN ids'.symbols = DOMAIN ids.symbols /\ \A m \in DOMAIN ids.symbols : ids'.symbols[m] = ids.symbols[m]
        BY <2>2, <3>1 DEF Inserted
      <4> QED BY <1>1, <1>2, <4>1 DEF Numbered, Apart
    <3>2. CASE name \notin DOMAIN ids.symbols
      <4>1. /\ DOMAIN ids'.symbols = DOMAIN ids.symbols \cup {name}
            /\ \A m \in DOMAIN ids.symbols : ids'.symbols[m] = ids.symbols[m]
            /\ ids'.symbols[name] = symbol
        BY <2>2, <3>2 DEF Inserted
      <4>2. Numbered(ids.symbols[n])'
        BY <1>1, <1>2, <2>2, <4>1 DEF Numbered
      <4>3. Apart(ids.symbols[n], n)'
        <5> SUFFICES ASSUME NEW m \in DOMAIN ids'.symbols, m # n, IsNamedError(ids'.symbols[m]),
                            IsNamedError(ids'.symbols[n])
                     PROVE  ids'.symbols[m].id # ids'.symbols[n].id
          BY DEF Apart
        <5>1. CASE m # name /\ n # name
          BY <1>2, <4>1, <5>1 DEF Apart
        <5>2. CASE m = name
          BY <2>2, <4>1, <5>2 DEF Apart
        <5>3. CASE n = name
          BY <2>2, <4>1, <5>3 DEF Apart
        <5> QED BY <5>1, <5>2, <5>3
      <4> QED BY <4>2, <4>3
    <3> QED BY <3>1, <3>2
  <2>3. CASE /\ ids'.symbols = Assigned(ids.symbols, name, symbol)
             /\ ~IsNamedError(symbol) /\ ~IsTerminal(symbol)
    <3>1. /\ DOMAIN ids'.symbols = DOMAIN ids.symbols \cup {name}
          /\ \A m \in DOMAIN ids.symbols : m # name => ids'.symbols[m] = ids.symbols[m]
          /\ ids'.symbols[name] = symbol
      BY <2>3 DEF Assigned
    <3>2. CASE n = name
      BY <2>3, <3>1, <3>2 DEF Numbered, Apart
    <3>3. CASE n # name
      <4>1. Numbered(ids.symbols[n])'
        BY <1>1, <1>2, <3>1, <3>3 DEF Numbered
      <4>2. Apart(ids.symbols[n], n)'
        BY <1>2, <2>3, <3>1, <3>3 DEF Apart
      <4> QED BY <4>1, <4>2
    <3> QED BY <3>2, <3>3
  <2> QED BY <2>1, <2>2, <2>3
<1>4. SymbolsApart'
  BY <1>3 DEF SymbolsApart
<1> QED BY <1>1, <1>4 DEF Numbers

\* A step of CreateSymbolMap in a production.
LEMMA MapStepKeeps ==
  ASSUME DInv, phase = "map", phase' \in {"map", "end"}, MapStep, result' = result, grammar' = grammar,
         Numbers', phase' = "map" => MapOK'
  PROVE  DInv'
<1>1. lex' = lex /\ clean' = clean
  BY DEF MapStep
<1>2. LexOK' /\ (Covered' <=> Covered)
  BY <1>1, SameLexemesKept DEF DInv, SameLexemes
<1>3. clean' => Covered'
  BY <1>1, <1>2 DEF DInv, Parsed
<1> QED BY <1>2, <1>3 DEF DInv, Parsing, Parsed, Loaded

\* What was thrown so far still is, when ids are added.
LEMMA ThrownKept ==
  ASSUME LexOK, Numbers, lex' = lex, ids'.nextTerminal \in {ids.nextTerminal, ids.nextTerminal + 1}
  PROVE  /\ productions' = productions => ProductionsThrow'
         /\ LeftsThrow /\ map'.lefts = map.lefts => LeftsThrow'
<1>1. ErrorIds \subseteq ErrorIds'
  BY ErrorIdsGrow
<1> QED BY <1>1 DEF Numbers, ProductionsThrow, LeftsThrow, ThrownApart

\* The terminals that are found are numbered among the tokens or behind them.
LEMMA FoundApart ==
  ASSUME LexOK, Numbers, lex' = lex, NEW name, NEW quoted \in BOOLEAN,
         ids'.symbols = ids.symbols,
         ids'.nextTerminal =
           ids.nextTerminal + (IF ~quoted /\ IsErrorName(name) /\ name \notin DOMAIN ids.symbols THEN 1 ELSE 0)
  PROVE  \A s \in Found(name, quoted) : Numbered(s)' /\ Apart(s, name)'
<1>1. ids'.nextTerminal \in {ids.nextTerminal, ids.nextTerminal + 1}
  BY DEF Numbers, ErrorsBehind
<1>2. /\ FirstErrorId' = FirstErrorId /\ ErrorIds \subseteq ErrorIds'
      /\ FirstErrorId \in Nat /\ FirstErrorId >= 2
      /\ ids'.nextTerminal = ids.nextTerminal + 1 => ids.nextTerminal \in ErrorIds'
      /\ ids.nextTerminal \notin ErrorIds /\ ids.nextTerminal \in Nat
  BY <1>1, ErrorIdsGrow
<1>3. ASSUME NEW code \in 0 .. FirstErrorId - 1, NEW s,
             s = Terminal(code) \/ s = [id |-> code, flags |-> {"terminal", "backtrack"}]
      PROVE  Numbered(s)' /\ Apart(s, name)'
  <2>1. ~IsNamedError(s) /\ s.id = code
    BY <1>3 DEF IsNamedError, Terminal
  <2> QED BY <1>2, <2>1 DEF Numbered, Apart
<1>4. /\ \A n \in DOMAIN lex.nameToToken : lex.nameToToken[n] \in 0 .. FirstErrorId - 1
      /\ \A n \in DOMAIN lex.aliasToToken : lex.aliasToToken[n] \in 0 .. FirstErrorId - 1
  BY <1>2, CodeFacts DEF LexOK, NamesApart
<1>5. CASE quoted
  BY <1>3, <1>4, <1>5 DEF Found
<1>6. CASE ~quoted /\ IsErrorName(name) /\ name \in DOMAIN ids.symbols
  <2>1. Found(name, quoted) = {NamedError(name)} /\ NamedError(name) = ids.symbols[name]
    <3>1. Found(name, quoted) = {NamedError(name)}
      BY <1>6 DEF Found, IsErrorName
    <3> QED BY <1>6, <3>1 DEF NamedError
  <2>2. Numbered(ids.symbols[name]) /\ Apart(ids.symbols[name], name)
    BY <1>6 DEF Numbers, SymbolsApart
  <2> QED BY <1>2, <2>1, <2>2 DEF Numbered, Apart
<1>7. CASE ~quoted /\ IsErrorName(name) /\ name \notin DOMAIN ids.symbols
  <2>1. Found(name, quoted) = {NamedError(name)} /\ NamedError(name) = ErrorSymbol(ids.nextTerminal)
    <3>1. Found(name, quoted) = {NamedError(name)}
      BY <1>7 DEF Found, IsErrorName
    <3> QED BY <1>7, <3>1 DEF NamedError
  <2>2. ids.nextTerminal \in ErrorIds'
    BY <1>2, <1>7
  <2>3. \A n \in DOMAIN ids.symbols : IsNamedError(ids.symbols[n]) => ids.symbols[n].id \in ErrorIds
    BY DEF Numbers, SymbolsApart, Numbered
  <2>4. /\ IsNamedError(ErrorSymbol(ids.nextTerminal))
        /\ ErrorSymbol(ids.nextTerminal).id = ids.nextTerminal
    BY DEF ErrorSymbol, IsNamedError
  <2>5. ASSUME NEW s, s = ErrorSymbol(ids.nextTerminal)
        PROVE  Numbered(s)' /\ Apart(s, name)'
    BY <1>2, <2>2, <2>3, <2>4, <2>5 DEF Numbered, Apart
  <2> QED BY <2>1, <2>5
<1>8. CASE ~quoted /\ ~IsErrorName(name)
  <2>1. CASE name = <<"%error">>
    <3>1. Found(name, quoted) = {Terminal(0)}
      BY <1>8, <2>1 DEF Found, TokenError
    <3> QED BY <1>2, <1>3, <3>1
  <2>2. CASE name = <<"%error_backtrack">> /\ name # <<"%error">>
    <3>1. Found(name, quoted) = {[id |-> 0, flags |-> {"terminal", "backtrack"}]}
      BY <1>8, <2>2 DEF Found, TokenError
    <3> QED BY <1>2, <1>3, <3>1
  <2>3. CASE name # <<"%error">> /\ name # <<"%error_backtrack">>
    <3>1. Found(name, quoted) = {Terminal(lex.nameToToken[n]) : n \in {name} \cap DOMAIN lex.nameToToken}
      BY <1>8, <2>3 DEF Found
    <3> QED BY <1>3, <1>4, <3>1
  <2> QED BY <2>1, <2>2, <2>3
<1> QED BY <1>5, <1>6, <1>7, <1>8

LEMMA FindSymbolKeeps ==
  ASSUME DInv, FindSymbol
  PROVE  DInv'
<1>1. /\ phase = "map" /\ phase' = phase /\ result' = result /\ grammar' = grammar
      /\ productions' = productions /\ MapStep
  BY DEF FindSymbol, ReadsSymbol, InProduction
<1>2. \E name, prec, quoted :
        /\ quoted \in BOOLEAN
        /\ ids' = [ids EXCEPT !.nextTerminal = @ + (IF ~quoted /\ IsErrorName(name) /\ name \notin DOMAIN ids.symbols
                                                    THEN 1 ELSE 0)]
        /\ map' = [map EXCEPT !.right = Tail(@),
                              !.read = <<[name |-> name, prec |-> prec, found |-> Found(name, quoted),
                                          misplaced |-> FALSE]>>]
  <2> DEFINE written  == Head(map.right)
             prec     == Head(written) = "$"
             referred == IF prec THEN Tail(written) ELSE written
             quoted   == Head(referred) = "'"
             name     == IF quoted THEN Tail(referred) ELSE referred
  <2>1. quoted \in BOOLEAN
    OBVIOUS
  <2>2. /\ ids' = [ids EXCEPT !.nextTerminal = @ + (IF ~quoted /\ IsErrorName(name) /\ name \notin DOMAIN ids.symbols
                                                    THEN 1 ELSE 0)]
        /\ map' = [map EXCEPT !.right = Tail(@),
                              !.read = <<[name |-> name, prec |-> prec, found |-> Found(name, quoted),
                                          misplaced |-> FALSE]>>]
    BY DEF FindSymbol
  <2> HIDE DEF name, prec, quoted
  <2> QED BY <2>1, <2>2
<1>3. PICK name, prec, quoted :
        /\ quoted \in BOOLEAN
        /\ ids' = [ids EXCEPT !.nextTerminal = @ + (IF ~quoted /\ IsErrorName(name) /\ name \notin DOMAIN ids.symbols
                                                    THEN 1 ELSE 0)]
        /\ map' = [map EXCEPT !.right = Tail(@),
                              !.read = <<[name |-> name, prec |-> prec, found |-> Found(name, quoted),
                                          misplaced |-> FALSE]>>]
  BY <1>2
<1>4. LexOK /\ Numbers /\ MapOK
  BY <1>1 DEF DInv, Parsed
<1>5. lex' = lex
  BY <1>1 DEF MapStep
<1>6. /\ ids'.symbols = ids.symbols /\ ids'.nonTerminals = ids.nonTerminals /\ ids'.next = ids.next
      /\ DOMAIN ids' = DOMAIN ids
      /\ ids'.nextTerminal =
           ids.nextTerminal + (IF ~quoted /\ IsErrorName(name) /\ name \notin DOMAIN ids.symbols THEN 1 ELSE 0)
  BY <1>3, <1>4 DEF Numbers, NonTerminalsApart
<1>7. ids'.nextTerminal \in {ids.nextTerminal, ids.nextTerminal + 1}
  BY <1>4, <1>6 DEF Numbers, ErrorsBehind
<1>8. NonTerminalsApart(ids')
  BY <1>4, <1>6 DEF Numbers, NonTerminalsApart
<1>9. /\ {"read", "lefts"} \subseteq DOMAIN map' /\ map'.lefts = map.lefts
      /\ map'.read = <<[name |-> name, prec |-> prec, found |-> Found(name, quoted), misplaced |-> FALSE]>>
  BY <1>3, <1>4 DEF MapOK
<1>10. Numbers'
  BY <1>1, <1>4, <1>5, <1>6, <1>7, <1>8, NumbersKept, ThrownKept
<1>11. \A s \in Found(name, quoted) : Numbered(s)' /\ Apart(s, name)'
  BY <1>3, <1>4, <1>5, <1>6, FoundApart
<1>12. ReadApart'
  <2>1. Read' = [name |-> name, prec |-> prec, found |-> Found(name, quoted), misplaced |-> FALSE]
    BY <1>9 DEF Read
  <2>2. Read'.name = name /\ Read'.found = Found(name, quoted) /\ {"name", "found", "misplaced"} \subseteq DOMAIN Read'
    BY <2>1
  <2> QED BY <1>11, <2>2 DEF ReadApart
<1>13. LeftsThrow'
  BY <1>4, <1>5, <1>7, <1>9, ThrownKept DEF MapOK
<1> QED BY <1>1, <1>9, <1>10, <1>12, <1>13, MapStepKeeps DEF MapOK

LEMMA NumberedKept ==
  ASSUME lex' = lex, ids'.symbols = ids.symbols, ids'.nextTerminal = ids.nextTerminal, NEW s, NEW name,
         Numbered(s), Apart(s, name)
  PROVE  Numbered(s)' /\ Apart(s, name)'
<1>1. FirstErrorId' = FirstErrorId /\ ErrorIds' = ErrorIds
  BY DEF FirstErrorId, ErrorIds
<1>2. Numbered(s)'
  BY <1>1 DEF Numbered
<1>3. Apart(s, name)'
  BY DEF Apart
<1> QED BY <1>2, <1>3

\* A step that adds nonterminals only.
LEMMA SameSymbolsKeep ==
  ASSUME DInv, phase = "map", phase' = "map", MapStep, result' = result, grammar' = grammar,
         productions' = productions, NonTerminalsApart(ids'), ids'.symbols = ids.symbols,
         ids'.nextTerminal = ids.nextTerminal, {"read", "lefts"} \subseteq DOMAIN map', map'.lefts = map.lefts,
         \/ map'.read \in {<<>>, map.read}
         \/ map.read # <<>> /\ map'.read = <<[Read EXCEPT !.misplaced = TRUE]>>
  PROVE  DInv'
<1>1. LexOK /\ Numbers /\ MapOK
  BY DEF DInv, Parsed
<1>2. lex' = lex
  BY DEF MapStep
<1>3. LeftsThrow' /\ ProductionsThrow'
  BY <1>1, <1>2, ThrownKept DEF MapOK
<1>4. Numbers'
  BY <1>1, <1>2, <1>3, NumbersKept
<1>5. ReadApart'
  <2>1. CASE map'.read = <<>>
    BY <2>1 DEF ReadApart
  <2>2. CASE map.read # <<>> /\ map'.read = map.read
    <3>1. Read' = Read
      BY <2>2 DEF Read
    <3>2. /\ {"name", "found", "misplaced"} \subseteq DOMAIN Read
          /\ \A s \in Read.found : Numbered(s) /\ Apart(s, Read.name)
      BY <1>1, <2>2 DEF MapOK, ReadApart
    <3>. PICK name : name = Read.name
      OBVIOUS
    <3>3. \A s \in Read.found : Numbered(s)' /\ Apart(s, name)'
      BY <1>2, <3>2, NumberedKept
    <3> QED BY <3>1, <3>2, <3>3 DEF ReadApart
  <2>3. CASE map.read # <<>> /\ map'.read = <<[Read EXCEPT !.misplaced = TRUE]>>
    <3>1. Read' = [Read EXCEPT !.misplaced = TRUE]
      BY <2>3 DEF Read
    <3>2. /\ {"name", "found", "misplaced"} \subseteq DOMAIN Read
          /\ \A s \in Read.found : Numbered(s) /\ Apart(s, Read.name)
      BY <1>1, <2>3 DEF MapOK, ReadApart
    <3>. PICK name : name = Read.name
      OBVIOUS
    <3>3. \A s \in Read.found : Numbered(s)' /\ Apart(s, name)'
      BY <1>2, <3>2, NumberedKept
    <3>4. Read'.name = Read.name /\ Read'.found = Read.found /\ DOMAIN Read' = DOMAIN Read
      BY <3>1, <3>2
    <3> QED BY <3>2, <3>3, <3>4 DEF ReadApart
  <2> QED BY <2>1, <2>2, <2>3
<1> QED BY <1>3, <1>4, <1>5, MapStepKeeps DEF MapOK

LEMMA MapActionKeeps ==
  ASSUME DInv, MapAction
  PROVE  DInv'
<1>1. /\ phase = "map" /\ phase' = phase /\ result' = result /\ grammar' = grammar
      /\ productions' = productions /\ MapStep /\ map.read # <<>>
  BY DEF MapAction, InProduction
<1>2. LexOK /\ Numbers /\ MapOK
  BY <1>1 DEF DInv, Parsed
<1>3. CASE Read.found = {}
  <2>1. ids' = ids /\ map' = [map EXCEPT !.right = Tail(@), !.read = <<[Read EXCEPT !.misplaced = TRUE]>>]
    BY <1>3 DEF MapAction
  <2>2. /\ {"read", "lefts"} \subseteq DOMAIN map' /\ map'.lefts = map.lefts
        /\ map'.read = <<[Read EXCEPT !.misplaced = TRUE]>>
    BY <1>2, <2>1 DEF MapOK
  <2> QED BY <1>1, <1>2, <2>1, <2>2, SameSymbolsKeep DEF Numbers
<1>4. CASE Read.found # {}
  <2> DEFINE made == WithAction([table |-> ids, errors |-> mapErrors, actions |-> ActionsAt(Len(map.rhs))], Head(map.right))
  <2>1. ids' = made.table /\ map' = [map EXCEPT !.right = Tail(@), !.conflicts = Assigned(@, Len(map.rhs), made.actions)]
    BY <1>4 DEF MapAction
  <2>2. made.table = Known(ids, Tail(Head(map.right)))
    BY DEF WithAction
  <2>3. /\ {"read", "lefts"} \subseteq DOMAIN map' /\ map'.lefts = map.lefts /\ map'.read = map.read
    BY <1>2, <2>1 DEF MapOK
  <2>4. ids' = Known(ids, Tail(Head(map.right)))
    BY <2>1, <2>2
  <2> HIDE DEF made
  <2>5. NonTerminalsApart(ids') /\ ids'.symbols = ids.symbols /\ ids'.nextTerminal = ids.nextTerminal
    BY <1>2, <2>4, KnownApart DEF Numbers
  <2> QED BY <1>1, <2>3, <2>5, SameSymbolsKeep
<1> QED BY <1>3, <1>4

LEMMA MapSymbolKeeps ==
  ASSUME DInv, MapSymbol
  PROVE  DInv'
<1>1. /\ phase = "map" /\ phase' = phase /\ result' = result /\ grammar' = grammar
      /\ productions' = productions /\ MapStep /\ map.read # <<>>
  BY DEF MapSymbol, InProduction
<1>2. LexOK /\ Numbers /\ MapOK
  BY <1>1 DEF DInv, Parsed
<1>3. lex' = lex
  BY <1>1 DEF MapStep
<1> DEFINE Made(table, symbol) ==
             ids' = IF Read.prec THEN table ELSE [table EXCEPT !.symbols = Inserted(@, Read.name, symbol)]
<1>4. \E table, symbol :
        /\ Made(table, symbol)
        /\ \/ table = ids /\ symbol \in Read.found
           \/ table = Known(ids, Read.name) /\ symbol = NonTerminal(IdOf(table, Read.name))
  <2>1. CASE Read.found # {}
    <3>1. Made(ids, CHOOSE s \in Read.found : TRUE)
      BY <2>1 DEF MapSymbol
    <3>2. (CHOOSE s \in Read.found : TRUE) \in Read.found
      BY <2>1
    <3> HIDE DEF Made
    <3> QED BY <3>1, <3>2
  <2>2. CASE Read.found = {}
    <3>1. Made(Known(ids, Read.name), NonTerminal(IdOf(Known(ids, Read.name), Read.name)))
      BY <2>2 DEF MapSymbol
    <3> HIDE DEF Made
    <3> QED BY <3>1
  <2> QED BY <2>1, <2>2
<1>5. PICK table, symbol :
        /\ Made(table, symbol)
        /\ \/ table = ids /\ symbol \in Read.found
           \/ table = Known(ids, Read.name) /\ symbol = NonTerminal(IdOf(table, Read.name))
  BY <1>4
<1>6. NonTerminalsApart(table) /\ table.symbols = ids.symbols /\ table.nextTerminal = ids.nextTerminal
  BY <1>2, <1>5, KnownApart DEF Numbers
<1>7. Numbered(symbol) /\ Apart(symbol, Read.name)
  <2>1. CASE symbol \in Read.found
    BY <1>1, <1>2, <2>1 DEF MapOK, ReadApart
  <2>2. CASE symbol = NonTerminal(IdOf(table, Read.name))
    BY <2>2 DEF NonTerminal, Numbered, Apart, IsNamedError, IsTerminal
  <2> QED BY <1>5, <2>1, <2>2
<1>8. /\ NonTerminalsApart(ids') /\ ids'.nextTerminal = ids.nextTerminal
      /\ ids'.symbols = ids.symbols \/ ids'.symbols = Inserted(ids.symbols, Read.name, symbol)
  BY <1>5, <1>6 DEF NonTerminalsApart
<1>9. /\ {"read", "lefts"} \subseteq DOMAIN map' /\ map'.lefts = map.lefts /\ map'.read = <<>>
  BY <1>2 DEF MapOK, MapSymbol
<1>10. LeftsThrow' /\ ProductionsThrow'
  BY <1>1, <1>2, <1>3, <1>8, <1>9, ThrownKept DEF MapOK
<1>11. Numbers'
  <2>1. PICK name : name = Read.name
    OBVIOUS
  <2>2. /\ ids'.symbols = ids.symbols \/ ids'.symbols = Inserted(ids.symbols, name, symbol)
        /\ Numbered(symbol) /\ Apart(symbol, name)
    BY <1>7, <1>8, <2>1
  <2> QED BY <1>2, <1>3, <1>8, <1>10, <2>2, NumbersKept
<1>12. ReadApart'
  BY <1>9 DEF ReadApart
<1> QED BY <1>1, <1>9, <1>10, <1>11, <1>12, MapStepKeeps DEF MapOK


LEMMA OverridesKeepSymbols ==
  ASSUME NEW made, "table" \in DOMAIN made, NonTerminalsApart(made.table), NEW written
  PROVE  LET table == WithOverride(made, written).table
         IN  /\ NonTerminalsApart(table)
             /\ table.symbols = made.table.symbols /\ table.nextTerminal = made.table.nextTerminal
<1>1. ASSUME NEW name
      PROVE  OverrideTerminal(made, name).table = made.table
  BY DEF OverrideTerminal
<1>2. ASSUME NEW before, "table" \in DOMAIN before, NEW name
      PROVE  OverrideNonTerminal(before, name).table = Known(before.table, name)
  BY <1>2 DEF OverrideNonTerminal
<1>3. "table" \in DOMAIN Stored(made) /\ Stored(made).table = made.table
  BY DEF Stored
<1>4. \/ WithOverride(made, written).table = made.table
      \/ \E name : WithOverride(made, written).table = Known(made.table, name)
  <2>1. CASE Head(written) = "+"
    BY <1>1, <2>1 DEF WithOverride
  <2>2. CASE Head(written) = "*"
    <3>1. WithOverride(made, written) = OverrideNonTerminal(Stored(made), Tail(written))
      BY <2>2 DEF WithOverride
    <3>2. OverrideNonTerminal(Stored(made), Tail(written)).table = Known(made.table, Tail(written))
      BY <1>2, <1>3
    <3> QED BY <3>1, <3>2
  <2>3. CASE Head(written) # "+" /\ Head(written) # "*"
    <3>1. WithOverride(made, written) = OverrideNonTerminal(made, written)
      BY <2>3 DEF WithOverride
    <3> QED BY <1>2, <3>1
  <2> QED BY <2>1, <2>2, <2>3
<1> QED BY <1>4, KnownApart

LEMMA MapOverrideKeeps ==
  ASSUME DInv, MapOverride
  PROVE  DInv'
<1>1. /\ phase = "map" /\ phase' = phase /\ result' = result /\ grammar' = grammar
      /\ productions' = productions /\ MapStep
  BY DEF MapOverride, ReadsSymbol, InProduction
<1>2. LexOK /\ Numbers /\ MapOK
  BY <1>1 DEF DInv, Parsed
<1> DEFINE before == [table |-> ids, overrides |-> map.overrides, nonTerminals |-> map.nonTerminals,
                      terminals |-> map.terminals, errors |-> mapErrors]
           read   == WithOverride(before, Head(map.right))
           made   == IF Len(map.right) = 1 THEN Stored(read) ELSE read
<1>3. "table" \in DOMAIN before /\ before.table = ids
  OBVIOUS
<1>4. made.table = read.table
  <2>1. "table" \in DOMAIN read
    BY DEF WithOverride, OverrideTerminal, OverrideNonTerminal, Stored
  <2> HIDE DEF read
  <2> QED BY <2>1 DEF Stored
<1>5. /\ ids' = made.table
      /\ \E right, overrides, nonTerminals, terminals :
           map' = [map EXCEPT !.right = right, !.reduces = TRUE, !.overrides = overrides,
                              !.nonTerminals = nonTerminals, !.terminals = terminals]
  <2>1. /\ ids' = made.table
        /\ map' = [map EXCEPT !.right = Tail(map.right), !.reduces = TRUE, !.overrides = made.overrides,
                              !.nonTerminals = made.nonTerminals, !.terminals = made.terminals]
    BY DEF MapOverride
  <2> HIDE DEF made
  <2> QED BY <2>1
<1> HIDE DEF before, made
<1>6. NonTerminalsApart(ids') /\ ids'.symbols = ids.symbols /\ ids'.nextTerminal = ids.nextTerminal
  BY <1>2, <1>3, <1>4, <1>5, OverridesKeepSymbols DEF Numbers
<1>7. {"read", "lefts"} \subseteq DOMAIN map' /\ map'.lefts = map.lefts /\ map'.read = map.read
  BY <1>2, <1>5 DEF MapOK
<1> QED BY <1>1, <1>6, <1>7, SameSymbolsKeep

LEMMA MapLeftKeeps ==
  ASSUME DInv, MapLeft
  PROVE  DInv'
<1>1. /\ phase = "map" /\ phase' = phase /\ result' = result /\ grammar' = grammar
      /\ productions' = productions /\ MapStep /\ map.read = <<>>
  BY DEF MapLeft, InProduction
<1>2. LexOK /\ Numbers /\ MapOK
  BY <1>1 DEF DInv, Parsed
<1>3. lex' = lex
  BY <1>1 DEF MapStep
<1>4. PICK name : name = Head(map.left)
  OBVIOUS
<1> DEFINE made == WithLeft([table |-> ids, lefts |-> map.lefts], name)
<1>5. ids' = made.table /\ map' = [map EXCEPT !.left = Tail(@), !.lefts = made.lefts]
  BY <1>4 DEF MapLeft
<1>6. {"read", "lefts"} \subseteq DOMAIN map' /\ map'.lefts = made.lefts /\ map'.read = <<>>
  BY <1>1, <1>2, <1>5 DEF MapOK
<1>7. IsSeq(map.lefts) /\ \A k \in DOMAIN map.lefts : "throws" \in DOMAIN map.lefts[k] /\ ThrownApart(map.lefts[k].throws)
  BY <1>2 DEF MapOK, LeftsThrow
<1>8. Numbers' /\ LeftsThrow'
  <2>1. CASE IsErrorName(name)
    <3> DEFINE known  == name \in DOMAIN ids.symbols
               thrown == IF known THEN ids.symbols[name] ELSE [id |-> ids.nextTerminal, flags |-> {"error"}]
    <3>1. /\ made.table = [ids EXCEPT !.nextTerminal = @ + (IF known THEN 0 ELSE 1)]
          /\ made.lefts = [map.lefts EXCEPT ![Len(map.lefts)].throws = thrown]
      BY <2>1 DEF WithLeft
    <3>2. /\ ids'.symbols = ids.symbols /\ NonTerminalsApart(ids')
          /\ ids'.nextTerminal = ids.nextTerminal + (IF known THEN 0 ELSE 1)
          /\ ids'.nextTerminal \in {ids.nextTerminal, ids.nextTerminal + 1}
      BY <1>2, <1>5, <3>1 DEF Numbers, NonTerminalsApart, ErrorsBehind
    <3>3. ErrorIds \subseteq ErrorIds' /\ (ids'.nextTerminal = ids.nextTerminal + 1 => ids.nextTerminal \in ErrorIds')
      BY <1>2, <1>3, <3>2, ErrorIdsGrow
    <3>4. Numbers'
      BY <1>1, <1>2, <1>3, <3>2, NumbersKept, ThrownKept
    <3>5. IsNamedError(thrown) => thrown.id \in ErrorIds'
      <4>1. CASE known
        <5>1. Numbered(ids.symbols[name])
          BY <1>2, <4>1 DEF Numbers, SymbolsApart
        <5> QED BY <3>3, <4>1, <5>1 DEF Numbered
      <4>2. CASE ~known
        BY <3>2, <3>3, <4>2 DEF IsNamedError, Numbers, ErrorsBehind
      <4> QED BY <4>1, <4>2
    <3> HIDE DEF thrown
    <3>6. map'.lefts = [map.lefts EXCEPT ![Len(map.lefts)].throws = thrown]
      BY <1>6, <3>1
    <3>7. IsSeq(map'.lefts) /\ DOMAIN map'.lefts = DOMAIN map.lefts
      <4>1. DOMAIN map.lefts = 1 .. Len(map.lefts) /\ Len(map.lefts) \in Nat
        BY <1>7, IsSeqFacts
      <4>2. map'.lefts = [k \in 1 .. Len(map.lefts) |-> map'.lefts[k]]
        BY <3>6, <4>1
      <4> QED BY <3>6, <4>1, <4>2, FunctionIsSeq
    <3>8. ASSUME NEW k \in DOMAIN map.lefts
          PROVE  /\ "throws" \in DOMAIN map'.lefts[k]
                 /\ map'.lefts[k].throws \in {map.lefts[k].throws, thrown}
      BY <1>7, <3>6
    <3>9. LeftsThrow'
      <4>1. PICK t : t = thrown
        OBVIOUS
      <4> SUFFICES ASSUME NEW k \in DOMAIN map.lefts
                   PROVE  /\ "throws" \in DOMAIN map'.lefts[k]
                          /\ IsNamedError(map'.lefts[k].throws) => map'.lefts[k].throws.id \in ErrorIds'
        BY <3>7 DEF LeftsThrow, ThrownApart
      <4>2. IsNamedError(map.lefts[k].throws) => map.lefts[k].throws.id \in ErrorIds'
        BY <1>7, <3>3 DEF ThrownApart
      <4> QED BY <3>5, <3>8, <4>2
    <3> QED BY <3>4, <3>9
  <2>2. CASE ~IsErrorName(name)
    <3> DEFINE isNew == name \notin DOMAIN ids.nonTerminals
               table == Known(ids, name)
               id    == IdOf(table, name)
               left  == [id |-> id, throws |-> NothingThrown]
    <3>1. /\ made.table = [table EXCEPT !.symbols = IF isNew THEN Assigned(@, name, NonTerminal(id)) ELSE @]
          /\ made.lefts = Append(map.lefts, left)
      BY <2>2 DEF WithLeft
    <3>2. NonTerminalsApart(table) /\ table.symbols = ids.symbols /\ table.nextTerminal = ids.nextTerminal
      BY <1>2, KnownApart DEF Numbers
    <3>3. left.throws = NothingThrown /\ "throws" \in DOMAIN left
      OBVIOUS
    <3>4. PICK symbol : symbol = NonTerminal(id)
      OBVIOUS
    <3> HIDE DEF table, left
    <3>5. /\ NonTerminalsApart(ids') /\ ids'.nextTerminal = ids.nextTerminal
          /\ ids'.symbols = ids.symbols \/ ids'.symbols = Assigned(ids.symbols, name, symbol)
      BY <1>5, <3>1, <3>2, <3>4 DEF NonTerminalsApart
    <3>6. ~IsNamedError(symbol) /\ ~IsTerminal(symbol)
      BY <3>4 DEF NonTerminal, IsNamedError, IsTerminal
    <3>7. Numbers'
      BY <1>1, <1>2, <1>3, <3>5, <3>6, NumbersKept, ThrownKept
    <3>8. /\ IsSeq(map'.lefts) /\ DOMAIN map'.lefts = 1 .. Len(map.lefts) + 1
          /\ \A k \in 1 .. Len(map.lefts) : map'.lefts[k] = map.lefts[k]
          /\ map'.lefts[Len(map.lefts) + 1] = left
      <4>1. map'.lefts = Append(map.lefts, left)
        BY <1>6, <3>1
      <4> QED BY <1>7, <4>1, AppendIsSeq
    <3>9. DOMAIN map.lefts = 1 .. Len(map.lefts) /\ Len(map.lefts) \in Nat
      BY <1>7, IsSeqFacts
    <3>10. ErrorIds \subseteq ErrorIds'
      BY <1>2, <1>3, <3>5, ErrorIdsGrow
    <3>11. LeftsThrow'
      <4> SUFFICES ASSUME NEW k \in 1 .. Len(map.lefts) + 1
                   PROVE  /\ "throws" \in DOMAIN map'.lefts[k]
                          /\ IsNamedError(map'.lefts[k].throws) => map'.lefts[k].throws.id \in ErrorIds'
        BY <3>8 DEF LeftsThrow, ThrownApart
      <4>1. CASE k = Len(map.lefts) + 1
        BY <3>3, <3>8, <4>1 DEF NothingThrown, IsNamedError
      <4>2. CASE k \in 1 .. Len(map.lefts)
        BY <1>7, <3>8, <3>9, <3>10, <4>2 DEF ThrownApart
      <4> QED BY <3>9, <4>1, <4>2
    <3> QED BY <3>7, <3>11
  <2> QED BY <2>1, <2>2
<1>9. ReadApart'
  BY <1>6 DEF ReadApart
<1> QED BY <1>1, <1>6, <1>8, <1>9, MapStepKeeps DEF MapOK


LEMMA EmptyIsSeq == IsSeq(<<>>) /\ DOMAIN <<>> = {} /\ Len(<<>>) = 0
<1>1. <<>> \in Seq({}) /\ Len(<<>>) = 0 /\ DOMAIN <<>> = {}
  OBVIOUS
<1>2. \A s \in Seq({}) : IsSeq(s)
  BY SeqIsSeq
<1> QED BY <1>1, <1>2

LEMMA BegunMap ==
  ASSUME NEW k
  PROVE  {"read", "lefts"} \subseteq DOMAIN Begun(k) /\ Begun(k).read = <<>> /\ Begun(k).lefts = <<>>
BY DEF Begun, NoMap

LEMMA BegunOK ==
  ASSUME NEW k, map' = Begun(k)
  PROVE  MapOK'
BY BegunMap, EmptyIsSeq DEF MapOK, ReadApart, LeftsThrow

LEMMA MapProductionsKeeps ==
  ASSUME DInv, MapProductions
  PROVE  DInv'
<1>1. /\ phase = "map" /\ phase' = phase /\ result' = result /\ grammar' = grammar
      /\ ids' = ids /\ MapStep
  BY DEF MapProductions, InProduction
<1>2. LexOK /\ Numbers /\ MapOK
  BY <1>1 DEF DInv, Parsed
<1>3. lex' = lex
  BY <1>1 DEF MapStep
<1>4. MapOK'
  <2>1. PICK k : k = map.index + 1
    OBVIOUS
  <2> QED BY <2>1, BegunOK DEF MapProductions
<1> DEFINE made == [k \in DOMAIN map.lefts |->
                      [name |-> Production.name, left |-> map.lefts[k].id, right |-> map.rhs, prec |-> map.prec,
                       conflicts |-> map.conflicts, overrides |-> map.overrides,
                       chain |-> LeftChain(map.lefts, k), throws |-> map.lefts[k].throws]]
<1>5. productions' = productions \o made
  BY DEF MapProductions
<1>6. DOMAIN made = DOMAIN map.lefts /\ \A k \in DOMAIN map.lefts : made[k].throws = map.lefts[k].throws
  OBVIOUS
<1>7. IsSeq(made)
  <2>1. DOMAIN map.lefts = 1 .. Len(map.lefts) /\ Len(map.lefts) \in Nat
    BY <1>2, IsSeqFacts DEF MapOK, LeftsThrow
  <2>2. made = [k \in 1 .. Len(map.lefts) |-> made[k]]
    BY <2>1
  <2> HIDE DEF made
  <2> QED BY <2>1, <2>2, FunctionIsSeq
<1> HIDE DEF made
<1>8. /\ IsSeq(productions')
      /\ \A k \in DOMAIN productions' : \/ \E i \in DOMAIN productions : productions'[k] = productions[i]
                                        \/ \E i \in DOMAIN made : productions'[k] = made[i]
  BY <1>2, <1>5, <1>7, ConcatIsSeq DEF Numbers, ProductionsThrow
<1>9. ErrorIds' = ErrorIds
  BY <1>1, <1>3 DEF ErrorIds, FirstErrorId
<1>10. ProductionsThrow'
  <2>1. ASSUME NEW k \in DOMAIN productions'
        PROVE  ThrownApart(productions'[k].throws)
    BY <1>2, <1>6, <1>8 DEF Numbers, ProductionsThrow, MapOK, LeftsThrow
  <2> QED BY <1>8, <1>9, <2>1 DEF ProductionsThrow, ThrownApart
<1>11. Numbers'
  BY <1>1, <1>2, <1>3, <1>10, NumbersKept DEF Numbers, ErrorsBehind
<1> QED BY <1>1, <1>4, <1>11, MapStepKeeps

LEMMA MapStartSymbolsKeeps ==
  ASSUME DInv, MapStartSymbols
  PROVE  DInv'
<1>1. /\ phase = "map" /\ phase' = "end" /\ result' = result /\ grammar' = grammar
      /\ ids' = ids /\ productions' = productions /\ MapStep
  BY DEF MapStartSymbols
<1>2. LexOK /\ Numbers
  BY <1>1 DEF DInv, Parsed
<1>3. lex' = lex
  BY <1>1 DEF MapStep
<1>4. ProductionsThrow'
  BY <1>1, <1>2, <1>3, ThrownKept
<1>5. Numbers'
  BY <1>1, <1>2, <1>3, <1>4, NumbersKept DEF Numbers, ErrorsBehind
<1> QED BY <1>1, <1>5, MapStepKeeps

LEMMA MapEndsKeeps ==
  ASSUME DInv, MapEnds
  PROVE  DInv'
<1>1. /\ phase = "end" /\ phase' = "idle" /\ lex' = lex /\ clean' = clean
      /\ ids' = ids /\ productions' = productions
      /\ grammar' = [productions |-> productions, startSymbols |-> startSymbols, symbols |-> ids.symbols,
                     precedence |-> lex.precedence]
  BY DEF MapEnds, MapStep, mapVars
<1>2. LexOK /\ Numbers /\ (clean => Covered)
  BY <1>1 DEF DInv, Parsed
<1>3. LexOK' /\ (Covered' <=> Covered)
  BY <1>1, <1>2, SameLexemesKept DEF SameLexemes
<1>4. ProductionsThrow'
  BY <1>1, <1>2, ThrownKept DEF Numbers, ErrorsBehind
<1>5. Numbers'
  BY <1>1, <1>2, <1>4, NumbersKept DEF Numbers, ErrorsBehind
<1> QED BY <1>1, <1>2, <1>3, <1>5 DEF DInv, Parsing, Parsed, Loaded

----------------------------------------------------------------------------
\* The client's calls, and the ends of the parse

LEMMA FailKeeps ==
  ASSUME DInv, Fail
  PROVE  DInv'
<1>1. LexOK'
  BY SameLexemesKept DEF Fail, SameLexemes, DInv
<1> QED BY <1>1 DEF Fail, DInv, Parsing, Parsed, Loaded

LEMMA RefuseKeeps ==
  ASSUME DInv, Refuse
  PROVE  DInv'
<1>1. phase' = "idle" /\ result' = "refused" /\ lex' = lex
  BY DEF Refuse, handlerVars
<1>2. LexOK'
  BY <1>1, SameLexemesKept DEF SameLexemes, DInv
<1> QED BY <1>1, <1>2 DEF DInv, Parsing, Parsed, Loaded

LEMMA NothingRead ==
  ASSUME NEW precedence, lex' = [NoLex EXCEPT !.precedence = precedence]
  PROVE  LexOK'
<1>1. /\ DOMAIN lex' = {"macros", "lexemes", "expressions", "expressionNames", "nameToToken", "aliasToToken",
                        "tokenLexemes", "precedence"}
      /\ lex'.lexemes = <<>> /\ lex'.expressions = <<>> /\ lex'.tokenLexemes = <<>>
      /\ lex'.nameToToken = <<>> /\ lex'.aliasToToken = <<>>
  BY DEF NoLex
<1>2. Divided' = 0
  BY <1>1 DEF Divided
<1> QED BY <1>1, <1>2, EmptyIsSeq DEF LexOK, LexShape, NamesApart, LexemesCoded, ExpressionsDivide

LEMMA ClearGrammarKeeps ==
  ASSUME DInv, ClearGrammar
  PROVE  DInv'
<1>1. phase' = "idle" /\ result' = "cleared" /\ lex' = [NoLex EXCEPT !.precedence = lex.precedence]
  BY DEF ClearGrammar
<1>2. LexOK'
  BY <1>1, NothingRead
<1> QED BY <1>1, <1>2 DEF DInv, Parsing, Parsed, Loaded

LEMMA LoadGrammarKeeps ==
  ASSUME DInv, LoadGrammar
  PROVE  DInv'
<1>1. /\ phase' = "parse" /\ lex' = lex /\ clean' = (lex = NoLex) /\ handler' = NewHandler
      /\ \E f \in Files : steps' = f.steps
  BY DEF LoadGrammar, Fresh
<1>2. LexOK' /\ (Covered' <=> Covered)
  BY <1>1, SameLexemesKept DEF SameLexemes, DInv
<1>3. "errors" \in DOMAIN handler' /\ handler'.errors = 0
  BY <1>1 DEF NewHandler
<1>4. IsSeq(steps') /\ SectionsClose(steps)'
  BY <1>1, FilesAssumption DEF SectionsClose, Closes
<1>5. clean' => Covered
  <2>1. ASSUME lex = NoLex
        PROVE  lex.lexemes = <<>> /\ lex.expressions = <<>>
    BY <2>1 DEF NoLex
  <2> QED BY <1>1, <2>1, EmptyIsSeq DEF Covered, Divided
<1>6. Parsing'
  BY <1>2, <1>3, <1>4, <1>5 DEF Parsing
<1> QED BY <1>1, <1>2, <1>6 DEF DInv, Parsed, Loaded

LEMMA ParseEndsKeeps ==
  ASSUME IInv, ParseEnds
  PROVE  DInv'
<1>1. /\ phase = "parse" /\ phase' = "map" /\ clean' = clean /\ productions' = productions
      /\ steps = <<>> /\ handler.errors = 0
      /\ lex' = [lex EXCEPT !.lexemes = [j \in DOMAIN lex.lexemes |-> Converted(lex.lexemes[j])]]
      /\ ids' = [NoIds EXCEPT !.nextTerminal = FirstErrorId] /\ map' = Begun(1)
  BY DEF ParseEnds, AtEnd
<1>2. LexOK /\ productions = <<>>
  BY <1>1 DEF IInv, DInv, NotYet
<1>3. clean => Covered
  BY <1>1, EmptyIsSeq DEF IInv, DInv, Parsing, Closing
<1>4. MapOK'
  BY <1>1, BegunOK
<1>5. /\ DOMAIN lex' = DOMAIN lex
      /\ lex'.lexemes = [j \in DOMAIN lex.lexemes |-> Converted(lex.lexemes[j])]
      /\ lex'.expressions = lex.expressions /\ lex'.nameToToken = lex.nameToToken
      /\ lex'.aliasToToken = lex.aliasToToken /\ lex'.tokenLexemes = lex.tokenLexemes
  BY <1>1, <1>2 DEF LexOK, LexShape
<1>6. IsSeq(lex'.lexemes) /\ Len(lex'.lexemes) = Len(lex.lexemes) /\ DOMAIN lex'.lexemes = DOMAIN lex.lexemes
  <2>1. DOMAIN lex.lexemes = 1 .. Len(lex.lexemes) /\ Len(lex.lexemes) \in Nat
    BY <1>2, IsSeqFacts DEF LexOK, LexShape
  <2>2. lex'.lexemes = [k \in 1 .. Len(lex.lexemes) |-> lex'.lexemes[k]]
    BY <1>5, <2>1
  <2> QED BY <1>5, <2>1, <2>2, FunctionIsSeq
<1>7. ASSUME NEW j \in DOMAIN lex.lexemes
      PROVE  /\ DOMAIN lex'.lexemes[j] = DOMAIN lex.lexemes[j]
             /\ lex'.lexemes[j].name = lex.lexemes[j].name /\ lex'.lexemes[j].code = lex.lexemes[j].code
  <2>1. {"name", "code"} \subseteq DOMAIN lex.lexemes[j]
    BY <1>2 DEF LexOK, LexShape
  <2> QED BY <1>5, <2>1 DEF Converted
<1>8. Divided' = Divided /\ FirstErrorId' = FirstErrorId
  BY <1>5 DEF Divided, FirstErrorId
<1>9. LexShape' /\ NamesApart'
  BY <1>2, <1>5, <1>6, <1>7, <1>8 DEF LexOK, LexShape, NamesApart, Codes
<1>10. LexemesCoded'
  <2>1. DOMAIN lex.lexemes = 1 .. Len(lex.lexemes) /\ Len(lex.lexemes) \in Nat
    BY <1>2, IsSeqFacts DEF LexOK, LexShape
  <2>2. ASSUME NEW k \in DOMAIN lex.tokenLexemes
        PROVE  /\ lex.tokenLexemes[k] \in 0 .. Len(lex.lexemes) - 1
               /\ lex'.lexemes[lex.tokenLexemes[k] + 1].code = k + TokenFirstID - 1
    <3>1. /\ lex.tokenLexemes[k] \in 0 .. Len(lex.lexemes) - 1
          /\ lex.lexemes[lex.tokenLexemes[k] + 1].code = k + TokenFirstID - 1
      BY <1>2 DEF LexOK, LexemesCoded
    <3>2. lex.tokenLexemes[k] + 1 \in DOMAIN lex.lexemes
      BY <2>1, <3>1
    <3> QED BY <1>7, <3>1, <3>2
  <2> QED BY <1>2, <1>5, <1>6, <1>7, <2>2 DEF LexOK, LexemesCoded
<1>11. ExpressionsDivide' /\ (Covered' <=> Covered)
  BY <1>2, <1>5, <1>6, <1>8 DEF LexOK, ExpressionsDivide, Covered
<1>12. Numbers'
  <2>1. /\ DOMAIN ids' = {"nonTerminals", "symbols", "next", "nextTerminal"}
        /\ ids'.nonTerminals = <<>> /\ ids'.symbols = <<>> /\ ids'.next = 0 /\ ids'.nextTerminal = FirstErrorId
    BY <1>1 DEF NoIds
  <2>2. FirstErrorId \in Nat
    BY <1>2, CodeFacts
  <2> QED BY <1>1, <1>2, <1>8, <2>1, <2>2, EmptyIsSeq DEF Numbers, NonTerminalsApart, ErrorsBehind, SymbolsApart,
             ProductionsThrow
<1> QED BY <1>1, <1>3, <1>4, <1>9, <1>10, <1>11, <1>12 DEF DInv, LexOK, Parsing, Parsed, Loaded


----------------------------------------------------------------------------
\* Every step

LEMMA InitInv == Init => IInv
<1> SUFFICES ASSUME Init PROVE IInv
  OBVIOUS
<1>1. lex = NoLex /\ phase = "idle" /\ result = "none" /\ productions = <<>>
  BY DEF Init
<1>2. /\ DOMAIN lex = {"macros", "lexemes", "expressions", "expressionNames", "nameToToken", "aliasToToken",
                       "tokenLexemes", "precedence"}
      /\ lex.lexemes = <<>> /\ lex.expressions = <<>> /\ lex.tokenLexemes = <<>>
      /\ lex.nameToToken = <<>> /\ lex.aliasToToken = <<>>
  BY <1>1 DEF NoLex
<1>3. Divided = 0
  BY <1>2 DEF Divided
<1>4. LexOK
  BY <1>2, <1>3, EmptyIsSeq DEF LexOK, LexShape, NamesApart, LexemesCoded, ExpressionsDivide
<1> QED BY <1>1, <1>4 DEF IInv, DInv, NotYet, Parsing, Parsed, Loaded

LEMMA StutterKeeps ==
  ASSUME IInv, UNCHANGED vars
  PROVE  IInv'
<1> USE DEF vars, handlerVars, mapVars
<1>1. LexOK' /\ (Covered' <=> Covered) /\ FirstErrorId' = FirstErrorId
  BY SameLexemesKept DEF SameLexemes, IInv, DInv
<1>2. Parsing'
  BY <1>1 DEF IInv, DInv, Parsing, SectionsClose, Closing, Closes
<1>3. Numbers => Numbers'
  BY <1>1 DEF Numbers, NonTerminalsApart, ErrorsBehind, SymbolsApart, ProductionsThrow, ThrownApart, Numbered, Apart,
     ErrorIds
<1>4. MapOK => MapOK'
  BY <1>1 DEF MapOK, ReadApart, Read, LeftsThrow, ThrownApart, Numbered, Apart, ErrorIds
<1>5. /\ phase' = phase /\ Parsed' = Parsed /\ Loaded' = Loaded /\ clean' = clean /\ grammar' = grammar
      /\ ids' = ids /\ productions' = productions
  BY DEF Parsed, Loaded
<1> QED BY <1>1, <1>2, <1>3, <1>4, <1>5 DEF IInv, DInv, NotYet

LEMMA NotYetKept ==
  ASSUME IInv, Next
  PROVE  NotYet'
<1>1. CASE Handle
  <2>1. productions' = productions /\ (phase' = "parse" => phase = "parse")
    <3>1. clean' = clean /\ productions' = productions /\ DInv
      BY <1>1 DEF Handle, mapVars, IInv
    <3>2. CASE Shift
      BY <3>1, <3>2 DEF Shift
    <3>3. CASE ReduceExprSection \/ ReduceExprLine \/ ReduceExprLineAlias \/ ReduceExprLineIgnore \/ Crash
      BY <3>1, <3>3 DEF ReduceExprSection, ReduceExprLine, ReduceExprLineAlias, ReduceExprLineIgnore, Crash, Reducing
    <3>4. CASE Handed
      BY <3>1, <3>4 DEF Handed
    <3>5. CASE \/ ReduceError \/ ReduceMacroLine \/ ReduceTerminal \/ ReducePrecedence \/ ReduceStartSymbols
               \/ ReduceSymbolAction \/ ReducePrec \/ ReduceProdLine
      BY <3>1, <3>5, ReportsAreQuiet DEF Quiet
    <3> QED BY <1>1, <3>2, <3>3, <3>4, <3>5, ListsAreHanded, NamesAreHanded, SymbolsAreHanded, PostfixesAreHanded
            DEF Handle, Reduce
  <2> QED BY <2>1 DEF IInv, NotYet
<1>2. CASE Client
  BY <1>2 DEF Client, Refuse, ClearGrammar, LoadGrammar, Fresh, handlerVars, NotYet
<1>3. CASE ParseFails \/ MapFails
  BY <1>3 DEF ParseFails, MapFails, Fail, Fresh, NotYet
<1>4. CASE ParseEnds
  BY <1>4 DEF ParseEnds, NotYet
<1>5. CASE FindSymbol \/ MapAction \/ MapSymbol \/ MapOverride \/ MapLeft \/ MapProductions
  BY <1>5 DEF FindSymbol, MapAction, MapSymbol, MapOverride, MapLeft, MapProductions, ReadsSymbol, InProduction, NotYet
<1>6. CASE MapStartSymbols \/ MapEnds
  BY <1>6 DEF MapStartSymbols, MapEnds, NotYet
<1> QED BY <1>1, <1>2, <1>3, <1>4, <1>5, <1>6 DEF Next, Loading, CreateSymbolMap

LEMMA NextKeeps == IInv /\ [Next]_vars => IInv'
<1> SUFFICES ASSUME IInv, [Next]_vars PROVE IInv'
  OBVIOUS
<1>1. CASE Next
  <2>1. DInv
    BY DEF IInv
  <2>2. CASE Client
    BY <2>1, <2>2, RefuseKeeps, ClearGrammarKeeps, LoadGrammarKeeps, <1>1, NotYetKept DEF Client, IInv
  <2>3. CASE Handle
    BY <1>1, <2>1, <2>3, HandleKeeps, NotYetKept DEF IInv
  <2>4. CASE ParseFails \/ MapFails
    BY <1>1, <2>1, <2>4, FailKeeps, NotYetKept DEF ParseFails, MapFails, IInv
  <2>5. CASE ParseEnds
    BY <1>1, <2>5, ParseEndsKeeps, NotYetKept DEF IInv
  <2>6. CASE FindSymbol \/ MapAction \/ MapSymbol \/ MapOverride \/ MapLeft \/ MapProductions
    BY <1>1, <2>1, <2>6, FindSymbolKeeps, MapActionKeeps, MapSymbolKeeps, MapOverrideKeeps, MapLeftKeeps,
       MapProductionsKeeps, NotYetKept DEF IInv
  <2>7. CASE MapStartSymbols \/ MapEnds
    BY <1>1, <2>1, <2>7, MapStartSymbolsKeeps, MapEndsKeeps, NotYetKept DEF IInv
  <2> QED BY <1>1, <2>2, <2>3, <2>4, <2>5, <2>6, <2>7 DEF Next, Loading, CreateSymbolMap
<1>2. CASE UNCHANGED vars
  BY <1>2, StutterKeeps
<1> QED BY <1>1, <1>2

LEMMA NamesImplyTokensNamed == IInv => TokensNamed
<1> SUFFICES ASSUME IInv, Loaded PROVE TokensNamed
  BY DEF TokensNamed
<1> DEFINE lexemes == lex.lexemes
           named   == {j \in DOMAIN lexemes : lexemes[j].code # 0}
           codes   == TokenFirstID .. TokenFirstID + Len(lex.tokenLexemes) - 1
<1>1. LexOK /\ (clean => Covered)
  BY DEF IInv, DInv, Parsed
<1>2. FirstErrorId \in Nat /\ FirstErrorId = Len(lex.tokenLexemes) + 2 /\ Len(lex.tokenLexemes) \in Nat
  BY <1>1, IsSeqFacts DEF LexOK, LexShape, FirstErrorId, TokenFirstID
<1>3. codes = Codes
  BY <1>2 DEF Codes, TokenFirstID
<1>4. ASSUME NEW j \in named
      PROVE  /\ lexemes[j].name \in DOMAIN lex.nameToToken
             /\ lexemes[j].code = lex.nameToToken[lexemes[j].name] /\ lexemes[j].code \in codes
  BY <1>1, <1>3 DEF LexOK, LexemesCoded, NamesApart
<1>5. \A i, j \in named : lexemes[i].code = lexemes[j].code <=> lexemes[i].name = lexemes[j].name
  BY <1>1, <1>4 DEF LexOK, NamesApart
<1>6. ASSUME NEW c \in codes
      PROVE  /\ lexemes[lex.tokenLexemes[c - TokenFirstID + 1] + 1].code = c
             /\ lex.tokenLexemes[c - TokenFirstID + 1] + 1 \in named
  <2>1. DOMAIN lex.tokenLexemes = 1 .. Len(lex.tokenLexemes) /\ DOMAIN lexemes = 1 .. Len(lexemes) /\ Len(lexemes) \in Nat
    BY <1>1, IsSeqFacts DEF LexOK, LexShape
  <2>2. c - TokenFirstID + 1 \in DOMAIN lex.tokenLexemes /\ c # 0 /\ c \in Int
    BY <1>2, <2>1 DEF TokenFirstID
  <2>3. PICK k \in DOMAIN lex.tokenLexemes : k = c - TokenFirstID + 1
    BY <2>2
  <2>4. /\ lex.tokenLexemes[k] \in 0 .. Len(lexemes) - 1
        /\ lexemes[lex.tokenLexemes[k] + 1].code = k + TokenFirstID - 1
    BY <1>1 DEF LexOK, LexemesCoded
  <2>5. k + TokenFirstID - 1 = c
    BY <2>2, <2>3 DEF TokenFirstID
  <2>6. lex.tokenLexemes[k] + 1 \in DOMAIN lexemes
    BY <2>1, <2>4
  <2> QED BY <2>2, <2>3, <2>4, <2>5, <2>6
<1>7. {lexemes[j].code : j \in named} = codes
  <2> HIDE DEF named, codes
  <2> QED BY <1>4, <1>6
<1>8. /\ \A e \in DOMAIN lex.expressions :
           lex.expressions[e].start = IF e = 1 THEN 0 ELSE EndOf(lex.expressions[e - 1])
      /\ clean => Divided = Len(lexemes)
  BY <1>1 DEF LexOK, ExpressionsDivide, Covered
<1>9. \A c \in codes : lexemes[lex.tokenLexemes[c - TokenFirstID + 1] + 1].code = c
  BY <1>6
<1> HIDE DEF named, codes, lexemes
<1>10. TokensNamed <=>
         (/\ \A i, j \in named : lexemes[i].code = lexemes[j].code <=> lexemes[i].name = lexemes[j].name
          /\ {lexemes[j].code : j \in named} = codes
          /\ \A c \in codes : lexemes[lex.tokenLexemes[c - TokenFirstID + 1] + 1].code = c
          /\ \A e \in DOMAIN lex.expressions :
               lex.expressions[e].start = IF e = 1 THEN 0 ELSE EndOf(lex.expressions[e - 1])
          /\ clean => Divided = Len(lexemes))
  BY DEF TokensNamed, named, codes, lexemes
<1> QED BY <1>5, <1>7, <1>8, <1>9, <1>10

LEMMA NumbersImplyDistinct == IInv => SymbolsDistinct
<1> SUFFICES ASSUME IInv, Loaded PROVE SymbolsDistinct
  BY DEF SymbolsDistinct
<1>1. LexOK /\ Numbers /\ grammar.productions = productions /\ grammar.symbols = ids.symbols
  BY DEF IInv, DInv, Parsed
<1>2. FirstErrorId \in Nat /\ FirstErrorId = Len(lex.tokenLexemes) + 2 /\ Len(lex.tokenLexemes) \in Nat
  BY <1>1, IsSeqFacts DEF LexOK, LexShape, FirstErrorId, TokenFirstID
<1> DEFINE thrown == {p.throws : p \in {q \in ToSet(grammar.productions) : q.throws # NothingThrown}}
           used   == {grammar.symbols[name] : name \in DOMAIN grammar.symbols}
           tokens == TokenFirstID .. TokenFirstID + Len(lex.tokenLexemes) - 1
<1>3. \A id \in ErrorIds : id \in Int /\ id >= FirstErrorId /\ id \notin tokens \cup {TokenError}
  BY <1>1, <1>2 DEF ErrorIds, Numbers, ErrorsBehind, TokenFirstID, TokenError
<1>4. \A m, n \in DOMAIN ids.nonTerminals : ids.nonTerminals[m] = ids.nonTerminals[n] => m = n
  BY <1>1 DEF Numbers, NonTerminalsApart
<1>5. ASSUME NEW s \in thrown \cup used, "error" \in s.flags
      PROVE  s.id \in ErrorIds
  <2>1. CASE s \in thrown
    <3>1. PICK k \in DOMAIN productions : s = productions[k].throws
      BY <1>1, <2>1 DEF ToSet
    <3> QED BY <1>1, <1>5, <3>1 DEF Numbers, ProductionsThrow, ThrownApart, IsNamedError
  <2>2. CASE s \in used
    <3>1. PICK n \in DOMAIN ids.symbols : s = ids.symbols[n]
      BY <1>1, <2>2
    <3> QED BY <1>1, <1>5, <3>1 DEF Numbers, SymbolsApart, Numbered, IsNamedError
  <2> QED BY <1>5, <2>1, <2>2
<1>6. ASSUME NEW m \in DOMAIN ids.symbols, NEW n \in DOMAIN ids.symbols,
             "error" \in ids.symbols[m].flags, ids.symbols[m].id = ids.symbols[n].id, IsTerminal(ids.symbols[n])
      PROVE  m = n
  <2>1. /\ Numbered(ids.symbols[m]) /\ Apart(ids.symbols[m], m) /\ Numbered(ids.symbols[n])
        /\ IsNamedError(ids.symbols[m])
    BY <1>1, <1>6 DEF Numbers, SymbolsApart, IsNamedError
  <2>2. CASE IsNamedError(ids.symbols[n])
    BY <1>6, <2>1, <2>2 DEF Apart
  <2>3. CASE ~IsNamedError(ids.symbols[n])
    BY <1>2, <1>3, <1>6, <2>1, <2>3 DEF Numbered
  <2> QED BY <2>2, <2>3
<1> HIDE DEF thrown, used, tokens
<1>7. \A s \in thrown \cup used : "error" \in s.flags => s.id \notin tokens \cup {TokenError}
  BY <1>3, <1>5
<1>8. SymbolsDistinct <=>
        (/\ \A m, n \in DOMAIN ids.nonTerminals : ids.nonTerminals[m] = ids.nonTerminals[n] => m = n
         /\ \A s \in thrown \cup used : "error" \in s.flags => s.id \notin tokens \cup {TokenError}
         /\ \A m, n \in DOMAIN grammar.symbols :
              "error" \in grammar.symbols[m].flags /\ grammar.symbols[m].id = grammar.symbols[n].id
                /\ IsTerminal(grammar.symbols[n]) => m = n)
  BY DEF SymbolsDistinct, thrown, used, tokens
<1> QED BY <1>1, <1>4, <1>6, <1>7, <1>8

----------------------------------------------------------------------------
\* In every state the codes of the tokens, the lexemes, the expressions and the ids given so far
\* fit together, whatever was loaded, refused, failed or cleared before.  (ParseData.cpp,
\* LoadGrammar, ClearGrammar, the reductions and CreateSymbolMap.)
THEOREM LoadingKeepsNumbers == Spec => []IInv
<1>1. Init => IInv
  BY InitInv
<1>2. IInv /\ [Next]_vars => IInv'
  BY NextKeeps
<1> QED BY <1>1, <1>2, PTL DEF Spec

\* A grammar that is loaded has its tokens numbered like its lexemes: lexemes share a code
\* exactly when they share their name, the codes are dense, and the expressions divide the
\* lexemes.  (ExprLine, ExprLineAlias, ExprLineIgnore and ExprSection.)
THEOREM LexemesNumbered == Spec => []TokensNamed
BY LoadingKeepsNumbers, NamesImplyTokensNamed, PTL

\* No two symbols of a grammar that is loaded have one id.  (CreateSymbolMap, idCounter and
\* terminalIdCounter.)
THEOREM SymbolsNumberedApart == Spec => []SymbolsDistinct
BY LoadingKeepsNumbers, NumbersImplyDistinct, PTL

=============================================================================
