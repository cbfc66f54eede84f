------------------------- MODULE TokenizerProperties -------------------------
(***************************************************************************)
(* What a tokenizer on byte buffers must keep, whatever its automaton, and *)
(* wherever in the input a block ends.                                     *)
(***************************************************************************)
EXTENDS Tokenizer

Positions == [Line : Nat, Offset : Nat]

\* Every component of the tokenizer has values of its type, and the tail is in
\* one of the blocks.
TypeOK ==
  /\ buffers.Chain \in Seq(Seq(Bytes)) /\ buffers.Left \in Seq(Bytes)
  /\ {buffers.HeadAt, buffers.TailAt, buffers.Allocated} \subseteq Nat
  /\ buffers.Spare \in BOOLEAN
  /\ buffers.TailBlock \in DOMAIN buffers.Chain \/ ~ Ready(buffers)
  /\ {HeadPos, TailPos, lastTailPos} \subseteq Positions
  /\ ExpressionStack \in Seq(Expressions)
  /\ ExpressionStackTop \in Expressions \/ ~ Ready(buffers)
  /\ Character \in Bytes
  /\ state \in DFAStates \union {EmptyTransition}
  /\ lastLexemeID \in Lexemes \union {NoLexeme}
  /\ token \in [Code : Nat, Str : Seq(Bytes), Pos : Positions]
  /\ pc \in {"idle", "begin", "match"}

Delivered == Len(input) - Len(buffers.Left)

HeadOffset == Delivered - Len(FlattenSeq(buffers.Chain)) + buffers.HeadAt

TailOffset == HeadOffset + Len(TokenText(buffers))

\* However far a match looked ahead and was set back, the blocks from the head
\* on hold the input from some byte to the last one read, in order; all but the
\* last are full; and the tail is at the end of a block only at the end of the
\* input, so that the reader of a token's text finds it.
TextKept ==
  Ready(buffers) =>
    /\ FlattenSeq(buffers.Chain)
         = SubSeq(input, HeadOffset - buffers.HeadAt + 1, Delivered)
    /\ \A i \in 1 .. (Len(buffers.Chain) - 1) : Len(buffers.Chain[i]) = BlockSize
    /\ IsEOF(buffers) => buffers.TailBlock = Len(buffers.Chain) /\ buffers.Left = <<>>
    /\ buffers.TailBlock = 1 => buffers.HeadAt <= buffers.TailAt

Breaks(text) == {i \in DOMAIN text : text[i] = LineFeed}

Tabs(text) == {i \in DOMAIN text : text[i] = Tab}

\* The position after a text that starts at the given one: a new line after
\* each line feed, four columns for a tab.
PositionAfter(start, text) ==
  LET width(t) == Len(t) + 3 * Cardinality(Tabs(t))
  IN  IF Breaks(text) = {}
      THEN [start EXCEPT !.Offset = @ + width(text)]
      ELSE [Line   |-> start.Line + Cardinality(Breaks(text)),
            Offset |-> width(SubSeq(text, Max(Breaks(text)) + 1, Len(text)))]

\* A lexeme without a token, where it goes on, goes on to another lexeme: no
\* match reads beyond one and comes back to it.  The properties of positions
\* and of the tokens returned take an automaton of this kind; see
\* CharacterIsCurrent for the others.
IgnoredGoOn ==
  \A s \in DFAStates, ch \in Bytes :
    LET lexeme == AcceptState[s]
        next   == Transition[s][ch]
    IN  lexeme # 0 /\ LexemeInfo[lexeme].TokenCode = 0 =>
          next = EmptyTransition \/ AcceptState[next] # 0

\* The position of the next lexeme is that of this one moved on by its text:
\* what the match read beyond the lexeme has no part in it.
PositionFollowsText ==
  pc # "match" /\ lastLexemeID # NoLexeme =>
    TailPos = PositionAfter(HeadPos, TokenText(buffers))

\* What is taken of the input: a match takes nothing before it has ended.
Munch ==
  INSTANCE MaximalMunch WITH
    Inputs <- UNION {Inputs[n] : n \in DOMAIN Inputs},
    at    <- IF ~ Ready(buffers) THEN 0 ELSE IF pc = "match" THEN HeadOffset ELSE TailOffset,
    stack <- ExpressionStack,
    top   <- ExpressionStackTop,
    token <- [Code |-> token.Code, Str |-> token.Str]

\* Each token is the longest piece the automaton accepts where the one before
\* it ended, or one byte where it accepts none; where blocks end in the input
\* makes no difference.  It takes IgnoredGoOn.
MunchSpec == Munch!Spec

\* A client that goes on asking comes to the end of the input: every token,
\* an error too, takes some of it.
ReachesEnd == Ready(buffers) ~> (~ Ready(buffers) \/ IsEOF(buffers))

\* The reader starts "out at the first byte available": what is matched next
\* is the byte at the tail.
CharacterIsCurrent == pc = "match" /\ ~ IsEOF(buffers) => Character = GetByte(buffers)

=============================================================================
