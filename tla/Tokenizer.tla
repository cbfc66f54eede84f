------------------------------ MODULE Tokenizer ------------------------------
(***************************************************************************)
(* DFATokenizer (src/src/Parser/DFATokenizer.h) on its byte buffers: a     *)
(* client creates it on one input stream after another and asks for        *)
(* tokens.  The steps of GetNextToken are one for the construction of its  *)
(* character reader, one for the start of a lexeme, one for each byte      *)
(* matched, and one for the end of the match.                              *)
(* Operators named Faulty... are mutants, as elsewhere.                    *)
(***************************************************************************)
EXTENDS TokenizerBase

CONSTANTS
  Bytes,
  Inputs,          \* Inputs[n]: what the n-th stream may deliver
  \* The DFA.
  DFAStates,
  EmptyTransition,
  Transition,      \* [DFAStates -> [Bytes -> DFAStates or EmptyTransition]]
  AcceptState,     \* [DFAStates -> lexeme, 0 for none]
  Lexemes,
  LexemeInfo,      \* [Lexemes -> TokenCode, Action and the action's Value]
  Expressions,
  StartState       \* [Expressions -> DFAStates]

\* The DFA's rows have an entry for every value of a byte, the one too that the
\* character reader is left with at the end of the input.
ASSUME StreamsAssumption ==
  /\ Bytes \subseteq Nat /\ NoByte \in Bytes
  /\ Inputs \in Seq(SUBSET Seq(Bytes))
  /\ \A n \in DOMAIN Inputs : NoStream \notin Inputs[n]

MaxStreams == Len(Inputs)

ASSUME DFAAssumption ==
  /\ EmptyTransition \notin DFAStates
  /\ Transition \in [DFAStates -> [Bytes -> DFAStates \union {EmptyTransition}]]
  /\ 0 \notin Lexemes /\ EmptyTransition \notin Lexemes
  /\ AcceptState \in [DFAStates -> Lexemes \union {0}]
  /\ LexemeInfo \in [Lexemes -> [TokenCode : Nat,
                                 Action : {"none", "goto", "push", "pop"},
                                 Value : Expressions]]
  /\ 0 \in Expressions
  /\ StartState \in [Expressions -> DFAStates]

TokenError == 0
TokenEOF   == 1

VARIABLES
  buffers,
  HeadPos, TailPos,          \* lines and offsets of the head and the tail
  ExpressionStack, ExpressionStackTop,
  Character,                 \* the character reader's
  state, lastLexemeID,
  lastTail, lastTailPos,
  token,                     \* what the last call returned
  pc,
  input,                     \* what the stream delivers, all of it
  streams                    \* streams so far

expressionVars == <<ExpressionStack, ExpressionStackTop>>
matchVars == <<state, lastLexemeID, lastTail, lastTailPos>>
streamVars == <<input, streams>>
vars == <<buffers, HeadPos, TailPos, expressionVars, Character, matchVars, token, pc, streamVars>>

NoToken == [Code |-> TokenEOF, Str |-> <<>>, Pos |-> StartOfText]

NoLexeme == EmptyTransition

Init ==
  /\ buffers = NoBuffers
  /\ HeadPos = StartOfText /\ TailPos = StartOfText
  /\ ExpressionStack = <<>> /\ ExpressionStackTop = EmptyTransition
  /\ Character = NoByte
  /\ state = EmptyTransition /\ lastLexemeID = NoLexeme
  /\ lastTail = GetHeadPos(NoBuffers) /\ lastTailPos = StartOfText
  /\ token = NoToken
  /\ pc = "idle"
  /\ input = <<>> /\ streams = 0

FaultyResetExpressions == ExpressionStack' = <<>> /\ UNCHANGED ExpressionStackTop

ResetExpressions == ExpressionStack' = <<>> /\ ExpressionStackTop' = 0

\* The tokenizer is left as it was but for its buffers if the stream is refused.
Create(stream) ==
  /\ pc = "idle"
  /\ HeadPos' = StartOfText /\ TailPos' = StartOfText
  /\ buffers' = SetInputStream(buffers, stream)
  /\ IF StreamAccepted(buffers, stream)
     THEN ResetExpressions
     ELSE UNCHANGED expressionVars
  /\ input' = IF Ready(buffers') THEN stream ELSE <<>>
  /\ streams' = streams + 1
  /\ token' = NoToken
  /\ lastLexemeID' = NoLexeme
  /\ UNCHANGED <<Character, state, lastTail, lastTailPos, pc>>

\* The character reader takes its first byte from the tail.
GetNextToken ==
  /\ pc = "idle" /\ Ready(buffers)
  /\ Character' = GetByte(buffers)
  /\ pc' = "begin"
  /\ UNCHANGED <<buffers, HeadPos, TailPos, expressionVars, matchVars, token, streamVars>>

\* CopyFromTokenizer, with the buffers and head position the caller has set.
Return(code) ==
  /\ token' = [Code |-> code, Str |-> TokenText(buffers'), Pos |-> HeadPos']
  /\ pc' = "idle"

BeginLexeme ==
  /\ pc = "begin"
  /\ HeadPos' = TailPos
  /\ buffers' = AdjustHead(buffers)
  /\ IF IsEOF(buffers')
     THEN Return(TokenEOF) /\ UNCHANGED matchVars
     ELSE /\ state' = StartState[ExpressionStackTop]
          /\ lastLexemeID' = NoLexeme
          /\ lastTailPos' = TailPos
          /\ pc' = "match"
          /\ UNCHANGED <<lastTail, token>>
  /\ UNCHANGED <<TailPos, expressionVars, Character, streamVars>>

NextState == Transition[state][Character]

\* The loop is left where the automaton is stuck or the input ends.
MatchEnded == ~ IsEOF(buffers) => NextState = EmptyTransition

\* The end of a lexeme is noted with the byte after it.
MatchByte ==
  /\ pc = "match" /\ ~ MatchEnded
  /\ state' = NextState
  /\ buffers' = AdvanceTail(buffers)
  /\ TailPos' = AdvanceChar(TailPos, Character)
  /\ Character' = GetByte(buffers')
  /\ IF AcceptState[NextState] # 0
     THEN /\ lastLexemeID' = AcceptState[NextState]
          /\ lastTail' = GetTailPos(buffers')
          /\ lastTailPos' = TailPos'
     ELSE UNCHANGED <<lastLexemeID, lastTail, lastTailPos>>
  /\ UNCHANGED <<HeadPos, expressionVars, token, pc, streamVars>>

StartOfMatch == SetTailPos(buffers, GetHeadPos(buffers))

FaultyAfterError == [Buffers |-> StartOfMatch, Pos |-> HeadPos]

\* Back to the start of the match and past one byte.  The reader advances the
\* position by its character, which is the one the match was stuck at.
AfterError == [Buffers |-> AdvanceTail(StartOfMatch), Pos |-> AdvanceChar(HeadPos, Character)]

NothingRecognised ==
  /\ pc = "match" /\ MatchEnded /\ lastLexemeID = NoLexeme
  /\ UNCHANGED HeadPos
  /\ IF IsEOF(buffers) /\ GetTailPos(buffers) = GetHeadPos(buffers)
     THEN Return(TokenEOF) /\ UNCHANGED <<buffers, TailPos, Character>>
     ELSE /\ buffers' = AfterError.Buffers
          /\ TailPos' = AfterError.Pos
          /\ Character' = GetByte(buffers')
          /\ Return(TokenError)
  /\ UNCHANGED <<expressionVars, matchVars, streamVars>>

FaultyEndOfLexemePos == TailPos

EndOfLexemePos == lastTailPos

\* A lexeme with token code 0 is passed over; the character reader is kept.
Recognised ==
  /\ pc = "match" /\ MatchEnded /\ lastLexemeID # NoLexeme
  /\ buffers' = SetTailPos(buffers, lastTail)
  /\ TailPos' = EndOfLexemePos
  /\ UNCHANGED <<HeadPos, Character, matchVars, streamVars>>
  /\ LET lexinfo == LexemeInfo[lastLexemeID]
         Deliver == IF lexinfo.TokenCode = 0
                    THEN pc' = "begin" /\ UNCHANGED token
                    ELSE Return(lexinfo.TokenCode)
     IN  CASE lexinfo.Action = "none" -> Deliver /\ UNCHANGED expressionVars
           [] lexinfo.Action = "goto" -> /\ ExpressionStackTop' = lexinfo.Value
                                         /\ UNCHANGED ExpressionStack
                                         /\ Deliver
           [] lexinfo.Action = "push" -> /\ ExpressionStack' = Append(ExpressionStack,
                                                                      ExpressionStackTop)
                                         /\ ExpressionStackTop' = lexinfo.Value
                                         /\ Deliver
           [] lexinfo.Action = "pop"  -> IF ExpressionStack # <<>>
                                         THEN /\ ExpressionStackTop' = Last(ExpressionStack)
                                              /\ ExpressionStack' = Front(ExpressionStack)
                                              /\ Deliver
                                         ELSE /\ ExpressionStackTop' = 0
                                              /\ UNCHANGED ExpressionStack
                                              /\ Return(TokenError)

Next ==
  \/ streams < MaxStreams /\ \E stream \in Inputs[streams + 1] \union {NoStream} : Create(stream)
  \/ GetNextToken
  \/ BeginLexeme
  \/ MatchByte
  \/ NothingRecognised
  \/ Recognised

Spec == Init /\ [][Next]_vars

\* A call returns, and a client that can have a token asks for it in the end.
FairSpec == Spec /\ WF_vars(\/ GetNextToken \/ BeginLexeme \/ MatchByte
                              \/ NothingRecognised \/ Recognised)
=============================================================================
