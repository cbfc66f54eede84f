-------------------------------- MODULE Parse --------------------------------
(***************************************************************************)
(* The table-driven parser Parse<StackElement> (src/src/Parser/Parser.h).  *)
(* Its steps are those of DoParse between two visits of try_next_action:   *)
(* one shift, one reduce up to the call of the user's Reduce handler, what *)
(* the handler does, one search for an error production, one token         *)
(* skipped.  The tokens come through a BacktrackingTokenStream.            *)
(* Operators named Faulty... are mutants, as in that module.               *)
(***************************************************************************)
EXTENDS BacktrackingTokenStream, Sequences, FiniteSets

CONSTANTS
  \* The parse table (ParseTable.h), for one grammar.
  States, Terminals, NonTerminals, Productions,
  ActionTable,        \* [States -> [Terminals -> action]]
  GotoTable,          \* [States -> [NonTerminals -> States or InvalidState]]
  ReduceProductions,  \* [Productions -> Length, Left and flags]
  ThrownTerminal,     \* (production, left) pairs -> the named error they throw
  ErrorTerminals,     \* the terminals that are %error or a named error
  RecordStates,       \* states in which tokens are recorded
  BacktrackStates,    \* states that backtrack when an error is shifted
  StartStates,        \* [NonTerminals -> its start state or EmptyGoto]
  InitialState,
  Lefts,              \* [Productions -> nonterminals they may be reduced to]
  \* The rest.
  SourceCodes,        \* the codes of the tokens of each source
  StackSize           \* elements of the parse stack

ASSUME CodesAssumption ==
  /\ SourceCodes \in [Sources -> Seq(Terminals)]
  /\ \A src \in Sources : SourceLength[src] = Len(SourceCodes[src])
ASSUME StackAssumption == StackSize \in Nat \ {0}

InvalidState == -1

\* What the table holds for no state.  Read as a goto it is cast to int16_t and
\* is InvalidState; read as a start state it stays what it is.
EmptyGoto == 65535

TokenError == 0
TokenEOF   == 1

ActionKinds == {"none", "shift", "reduce", "accept"}

\* What the generator writes into the table and DoParse takes for granted.
ASSUME TableAssumption ==
  /\ {InvalidState, EmptyGoto} \intersect States = {}
  /\ InitialState \in States /\ RecordStates \subseteq States
  /\ ActionTable \in [States -> [Terminals -> [kind : ActionKinds, arg : Nat]]]
  /\ \A s \in States, t \in Terminals :
       /\ ActionTable[s][t].kind = "shift"  => ActionTable[s][t].arg \in States
       /\ ActionTable[s][t].kind = "reduce" => ActionTable[s][t].arg \in Productions
  /\ GotoTable \in [States -> [NonTerminals -> States \union {InvalidState}]]
  /\ StartStates \in [NonTerminals -> States \union {EmptyGoto}]
  /\ ReduceProductions \in [Productions -> [Length : Nat, Left : NonTerminals,
                                            NotReported : BOOLEAN, ErrorTerminalFlag : BOOLEAN]]
  /\ Lefts \in [Productions -> SUBSET NonTerminals]
  /\ {TokenError, TokenEOF} \subseteq Terminals
  /\ TokenError \in ErrorTerminals /\ ErrorTerminals \subseteq Terminals
  /\ \A thrown \in DOMAIN ThrownTerminal : ThrownTerminal[thrown] \in ErrorTerminals
  /\ 0 \in Productions /\ 0 \in NonTerminals

Starts == {InitialState} \union ({StartStates[left] : left \in NonTerminals} \ {EmptyGoto})

\* The state after a symbol is found in state s.
Leads(s, t) ==
  \/ \E code \in Terminals : ActionTable[s][code] = [kind |-> "shift", arg |-> t]
  \/ \E left \in NonTerminals : GotoTable[s][left] = t

\* n symbols lead from a start state to the state.
AtDepth(state, n) ==
  \E path \in [0 .. n -> States] :
    /\ path[0] \in Starts /\ path[n] = state
    /\ \A i \in 1 .. n : Leads(path[i - 1], path[i])

\* A state that reduces holds an item with the dot at its end: as many symbols
\* as it has lead to the state (Grammar::Goto moves the dot over one).
ASSUME ReductionsFit ==
  \A s \in States, t \in Terminals :
    ActionTable[s][t].kind = "reduce" =>
      \A n \in 0 .. (ReduceProductions[ActionTable[s][t].arg].Length - 1) : ~ AtDepth(s, n)

Code(tok) == IF IsEOF(tok) THEN TokenEOF ELSE SourceCodes[tok[1]][tok[2]]

\* An action is a shift or a reduce with its argument, accept, or none.
NoAction == [kind |-> "none", arg |-> 0]

GetAction(state, code) ==
  IF state \in States THEN ActionTable[state][code] ELSE NoAction

GetLeftReduceState(state, left) ==
  IF state \in States THEN GotoTable[state][left] ELSE InvalidState

GetStartState(nonTerminal) ==
  IF nonTerminal \in NonTerminals THEN StartStates[nonTerminal] ELSE InvalidState

\* StateInfos[state].Record, which may be anything for what is no state.
RecordsRead(state) == IF state \in States THEN {state \in RecordStates} ELSE BOOLEAN

VARIABLES
  stream,          \* Stream
  stack,           \* pStack; Held: the element holds a value of the user's
  StackPosition,
  TopState,
  NextTokenFlag,
  Token,           \* its code, which error handling overwrites, and its data
  PrevTokenIndex,
  ErrorMarker,
  ReduceLeft,
  reducing,        \* ReducedProd, while the handler runs
  errorCode,       \* the error being handled
  skipped,         \* tmpToken, the token skipping has reached
  pc               \* where DoParse is

parserVars == <<stack, StackPosition, TopState, NextTokenFlag, Token,
                PrevTokenIndex, ErrorMarker, ReduceLeft, reducing, errorCode, skipped>>
vars == <<stream, parserVars, pc>>

Read(s) == [Code |-> Code(NextToken(s)), Data |-> NextToken(s)]

NoToken == [Code |-> TokenEOF, Data |-> EofToken]

EmptyElement == [State |-> InvalidState, TerminalMarker |-> InvalidIndex, Held |-> FALSE]

TopElement == stack[StackPosition]

Action == GetAction(TopElement.State, Token.Code)

\* Record in state: the marker to store in the element, and the stream.
MarkerFor(s, state) == IF state \in RecordStates THEN GetTokenIndex(s) ELSE InvalidIndex

Recording(s, state) ==
  IF state \in RecordStates THEN SetMarker(s, GetTokenIndex(s)) ELSE s

\* The markers of n elements from sp downwards are released.
ReleaseFrom(s, sp, n) ==
  LET after[k \in 0 .. n] ==
        IF k = 0 THEN s
        ELSE LET m == stack[sp - k + 1].TerminalMarker
             IN  IF m = InvalidIndex THEN after[k - 1]
                 ELSE ReleaseMarker(after[k - 1], m)
  IN  after[n]

FaultyCleanedUp(stk, positions) ==
  [i \in DOMAIN stk |-> IF {i, i + 1} \subseteq positions THEN [stk[i] EXCEPT !.Held = FALSE]
                                                         ELSE stk[i]]

\* The elements of a set of positions are cleaned up.
CleanedUp(stk, positions) ==
  [i \in DOMAIN stk |-> IF i \in positions THEN [stk[i] EXCEPT !.Held = FALSE] ELSE stk[i]]

\* CleanupParseStack(tillPos), from a given stream.
FlushStack(s, tillPos) ==
  /\ stream' = ReleaseFrom(s, StackPosition, StackPosition - tillPos)
  /\ stack' = CleanedUp(stack, (tillPos + 1) .. StackPosition)
  /\ StackPosition' = tillPos

\* step_error
Fail(s) == FlushStack(s, 0) /\ pc' = "failed"

----------------------------------------------------------------------------
\* A parser after Create(ptable).
Init ==
  /\ stream = NewStream(NullSource)
  /\ stack = [i \in 0 .. (StackSize - 1) |-> EmptyElement]
  /\ StackPosition = 0
  /\ TopState = InvalidState
  /\ NextTokenFlag = FALSE
  /\ Token = NoToken /\ skipped = NoToken
  /\ PrevTokenIndex = InvalidIndex
  /\ ErrorMarker = InvalidIndex
  /\ ReduceLeft = 0 /\ reducing = 0 /\ errorCode = TokenError
  /\ pc = "idle"

\* SetTokenStream and the ResetParse it calls.
SetTokenStream(src) ==
  /\ pc \in {"idle", "accepted", "failed"}
  /\ pc' = "idle"
  /\ LET flushed == ReleaseFrom(stream, StackPosition, StackPosition)
         reset   == ResetStream(flushed, src)
         state   == IF src = NullSource THEN InvalidState ELSE InitialState
     IN  /\ stream' = Recording(reset, state)
         /\ stack' = [CleanedUp(stack, 1 .. StackPosition) EXCEPT
                        ![0].State = state,
                        ![0].TerminalMarker = IF src = NullSource THEN @
                                              ELSE MarkerFor(reset, state)]
         /\ TopState' = state
         /\ PrevTokenIndex' = GetTokenIndex(reset)
  /\ StackPosition' = 0
  /\ NextTokenFlag' = TRUE
  /\ UNCHANGED <<Token, ErrorMarker, ReduceLeft, reducing, errorCode, skipped>>

\* The test for InvalidState finds a number that is no nonterminal's.  That a
\* nonterminal has no start state it does not find: EmptyGoto goes on the
\* stack, and StateInfos is read out of its range.
SetStartingProduction(nonTerminal) ==
  /\ pc = "idle"
  /\ StackPosition = 0 /\ stack[0].State # InvalidState /\ TopState # InvalidState
  /\ GetStartState(nonTerminal) # InvalidState
  /\ LET state == GetStartState(nonTerminal)
     IN  /\ \E record \in RecordsRead(state) :
              /\ stack' = [stack EXCEPT ![0].State = state,
                                        ![0].TerminalMarker = IF record THEN GetTokenIndex(stream)
                                                                        ELSE InvalidIndex]
              /\ stream' = IF record THEN SetMarker(stream, GetTokenIndex(stream)) ELSE stream
         /\ TopState' = state
         /\ pc' \in IF state \in States THEN {"idle"} ELSE {"idle", "crashed"}
  /\ UNCHANGED <<StackPosition, NextTokenFlag, Token, PrevTokenIndex, ErrorMarker,
                 ReduceLeft, reducing, errorCode, skipped>>

DoParse ==
  /\ pc = "idle"
  /\ pc' = "top"
  /\ UNCHANGED <<stream, parserVars>>

----------------------------------------------------------------------------
\* The head of the loop.
NotReady ==
  /\ pc = "top" /\ TopState = InvalidState
  /\ pc' = "failed"
  /\ UNCHANGED <<stream, parserVars>>

StoreTopState ==
  /\ pc = "top" /\ TopState # InvalidState
  /\ stack' = [stack EXCEPT ![StackPosition].State = TopState]
  /\ Token' = IF NextTokenFlag THEN Read(stream) ELSE Token
  /\ stream' = IF NextTokenFlag THEN AfterNextToken(stream) ELSE stream
  /\ pc' = "act"
  /\ UNCHANGED <<StackPosition, TopState, NextTokenFlag, PrevTokenIndex, ErrorMarker,
                 ReduceLeft, reducing, errorCode, skipped>>

\* ActionTable is read out of its range: "crashed" stands for all that the
\* program may do from there.
ReadsOutOfRange ==
  /\ pc = "act" /\ TopElement.State = EmptyGoto
  /\ pc' = "crashed"
  /\ UNCHANGED <<stream, parserVars>>

----------------------------------------------------------------------------
\* n tokens read from the stream by the user's SetErrorData.
ReadTokens(s, n) ==
  LET after[k \in 0 .. n] == IF k = 0 THEN s ELSE AfterNextToken(after[k - 1])
  IN  after[n]

\* SetErrorData sees the stream from the error's start; then the stream goes
\* back to where it was, or to the start of a backtracking error.
RecordingMarker ==
  IF Token.Code = TokenError THEN ErrorMarker ELSE TopElement.TerminalMarker

RecordedLength == GetBufferedLength(stream, RecordingMarker)

AfterErrorData(n, state) ==
  LET replay == BacktrackToMarker(stream, RecordingMarker, RecordedLength)
      read   == ReadTokens(replay, n)
      back   == IF state \in BacktrackStates
                  THEN BacktrackToMarker(read, TopElement.TerminalMarker, MaxSize)
                  ELSE SeekTo(read, GetTokenIndex(stream))
  IN  SetMaxStreamLength(back, MaxSize)

Push(s, state) ==
  /\ StackPosition + 1 < StackSize
  /\ StackPosition' = StackPosition + 1
  /\ stack' = [stack EXCEPT ![StackPosition + 1] =
                 [State |-> state, TerminalMarker |-> MarkerFor(s, state), Held |-> TRUE]]
  /\ \E recording \in {Recording(s, state)} :
       /\ stream' = AfterNextToken(recording)
       /\ Token' = Read(recording)
  /\ UNCHANGED <<TopState, NextTokenFlag, PrevTokenIndex, ErrorMarker, ReduceLeft,
                 reducing, errorCode, skipped, pc>>

Shift ==
  /\ pc = "act" /\ Action.kind = "shift"
  /\ Token.Code \notin ErrorTerminals
  /\ Push(stream, Action.arg)

ShiftError(n) ==
  /\ pc = "act" /\ Action.kind = "shift"
  /\ Token.Code \in ErrorTerminals
  /\ \E aside \in {AfterErrorData(n, Action.arg)} : Push(aside, Action.arg)

Accept ==
  /\ pc = "act" /\ Action.kind = "accept"
  /\ pc' = "accepted"
  /\ UNCHANGED <<stream, parserVars>>

----------------------------------------------------------------------------
ReducedProd == ReduceProductions[Action.arg]

\* Where the left hand side goes on the stack, and the state it leads to.
ReducedPosition == StackPosition + 1 - ReducedProd.Length

FaultyBottomState == GetLeftReduceState(stack[0].State, ReducedProd.Left)

FaultyReducedState == GetLeftReduceState(stack[ReducedPosition].State, ReducedProd.Left)

ReducedState == GetLeftReduceState(stack[ReducedPosition - 1].State, ReducedProd.Left)

MarkersReleased == ReleaseFrom(stream, StackPosition, ReducedProd.Length)

Reduce ==
  /\ pc = "act" /\ Action.kind = "reduce" /\ ReducedState # InvalidState
  /\ ReducedPosition < StackSize
  /\ StackPosition' = ReducedPosition
  /\ TopState' = ReducedState
  /\ NextTokenFlag' = FALSE
  /\ ReduceLeft' = ReducedProd.Left
  /\ reducing' = Action.arg
  /\ IF ReducedProd.Length = 0
       THEN /\ stream' = Recording(stream, ReducedState)
            /\ stack' = [stack EXCEPT ![ReducedPosition].TerminalMarker =
                                         MarkerFor(stream, ReducedState)]
       ELSE /\ stream' = MarkersReleased
            /\ UNCHANGED stack
  /\ pc' = IF ReducedProd.NotReported THEN "reduced" ELSE "handler"
  /\ UNCHANGED <<Token, PrevTokenIndex, ErrorMarker, errorCode, skipped>>

\* The left hand side may not follow what is below it on the stack: it
\* becomes an %error there, one token back.
RejectReduce ==
  /\ pc = "act" /\ Action.kind = "reduce" /\ ReducedState = InvalidState
  /\ stack' = CleanedUp(stack, ReducedPosition .. (ReducedPosition + ReducedProd.Length))
  /\ StackPosition' = ReducedPosition - 1
  /\ TopState' = InvalidState
  /\ Token' = [Token EXCEPT !.Code = TokenError]
  /\ PrevTokenIndex' = GetTokenIndex(MarkersReleased)
  /\ stream' = SeekBack(MarkersReleased, 1)
  /\ UNCHANGED <<NextTokenFlag, ErrorMarker, ReduceLeft, reducing, errorCode, skipped, pc>>

----------------------------------------------------------------------------
\* The user's Reduce handler may pick another left hand side, of those the
\* grammar gives the production, and may fail.
SetReduceNonterminal(nonTerminal) ==
  /\ pc = "handler"
  /\ LET state == GetLeftReduceState(stack[StackPosition - 1].State, nonTerminal)
     IN  /\ state # InvalidState
         /\ TopState' = state
  /\ ReduceLeft' = nonTerminal
  /\ UNCHANGED <<stream, stack, StackPosition, NextTokenFlag, Token, PrevTokenIndex,
                 ErrorMarker, reducing, errorCode, skipped, pc>>

HandlerSucceeds ==
  /\ pc = "handler"
  /\ stack' = [stack EXCEPT ![StackPosition].Held = TRUE]
  /\ pc' = "reduced"
  /\ UNCHANGED <<stream, StackPosition, TopState, NextTokenFlag, Token, PrevTokenIndex,
                 ErrorMarker, ReduceLeft, reducing, errorCode, skipped>>

HandlerFails ==
  /\ pc = "handler"
  /\ Fail(stream)
  /\ UNCHANGED <<TopState, NextTokenFlag, Token, PrevTokenIndex, ErrorMarker,
                 ReduceLeft, reducing, errorCode, skipped>>

FinishReduce ==
  /\ pc = "reduced"
  /\ LET prod   == ReduceProductions[reducing]
         throws == prod.ErrorTerminalFlag /\ <<reducing, ReduceLeft>> \in DOMAIN ThrownTerminal
     IN  /\ stack' = CleanedUp(stack, (StackPosition + 1) .. (StackPosition + prod.Length))
         /\ errorCode' = IF throws THEN ThrownTerminal[<<reducing, ReduceLeft>>] ELSE errorCode
         /\ pc' = IF throws THEN "error" ELSE "top"
  /\ UNCHANGED <<stream, StackPosition, TopState, NextTokenFlag, Token, PrevTokenIndex,
                 ErrorMarker, ReduceLeft, reducing, skipped>>

----------------------------------------------------------------------------
\* Error handling.

SyntaxError ==
  /\ pc = "act" /\ TopElement.State # EmptyGoto /\ Action.kind = "none"
  /\ errorCode' = TokenError
  /\ pc' = "error"
  /\ UNCHANGED <<stream, stack, StackPosition, TopState, NextTokenFlag, Token,
                 PrevTokenIndex, ErrorMarker, ReduceLeft, reducing, skipped>>

AdvancedInput == GetTokenIndex(stream) > PrevTokenIndex

IsNewError == AdvancedInput \/ GetBufferedLength(stream, ErrorMarker) = 0

MarkedIndex == IF IsNewError THEN IndexBack(stream, 1) ELSE ErrorMarker

FaultyMarkError == IF IsNewError THEN SetMarker(stream, MarkedIndex) ELSE stream

MarkError ==
  LET released == IF ErrorMarker # InvalidIndex THEN ReleaseMarker(stream, ErrorMarker)
                                                ELSE stream
  IN  IF IsNewError THEN SetMarker(released, MarkedIndex) ELSE stream

\* From the state at sp, the reductions on the error lookahead.  They stop at
\* a shift or no action, or (needNext FALSE) at an empty production or a left
\* hand side that cannot follow.  A chain longer than MaxReductions would be
\* a cycle of unit productions.
MaxReductions == Cardinality(States) + StackSize

SimulatedReductions(sp) ==
  LET step[r \in [pos : Nat, state : States, needNext : BOOLEAN]] ==
        LET entry == GetAction(r.state, errorCode)
            prod  == ReduceProductions[entry.arg]
            pos   == r.pos + 1 - prod.Length
            state == GetLeftReduceState(stack[pos - 1].State, prod.Left)
        IN  IF entry.kind # "reduce" \/ ~ r.needNext THEN r
            ELSE IF prod.Length = 0 \/ state = InvalidState THEN [r EXCEPT !.needNext = FALSE]
            ELSE [pos |-> pos, state |-> state, needNext |-> TRUE]
      run[n \in 0 .. MaxReductions] ==
        IF n = 0 THEN [pos |-> sp, state |-> stack[sp].State, needNext |-> TRUE]
                 ELSE step[run[n - 1]]
  IN  run[MaxReductions]

\* Stack positions with an action on the error, topmost first.
ErrorPositions ==
  {sp \in 0 .. StackPosition : GetAction(stack[sp].State, errorCode).kind # "none"}

\* actionVal after the reductions, used as the state the error leads to.
Landing(sp) == GetAction(SimulatedReductions(sp).state, errorCode).arg

GoesOn(sp, code) == GetAction(Landing(sp), code).kind # "none"

FaultyRecoveringPositions == {sp \in ErrorPositions : SimulatedReductions(sp).needNext}

RecoveringPositions ==
  {sp \in ErrorPositions : SimulatedReductions(sp).needNext /\ GoesOn(sp, Token.Code)}

Topmost(positions) == CHOOSE sp \in positions : \A other \in positions : other <= sp

ValidPositions(code) == {sp \in ErrorPositions : GoesOn(sp, code)}

ReducesOnError == GetAction(TopElement.State, errorCode).kind \in {"reduce", "accept"}

\* Flush the stack down to the position, unless there are reductions to do
\* first; then present the error as the next token, one token back.
RecoverAt(s, sp) ==
  \E flushed \in {IF ReducesOnError THEN s ELSE ReleaseFrom(s, StackPosition, StackPosition - sp)} :
      /\ IF ReducesOnError
           THEN UNCHANGED <<stack, StackPosition>>
           ELSE /\ stack' = CleanedUp(stack, (sp + 1) .. StackPosition)
                /\ StackPosition' = sp
      /\ PrevTokenIndex' = GetTokenIndex(flushed)
      /\ stream' = SeekBack(flushed, 1)
      /\ Token' = [Token EXCEPT !.Code = errorCode]
      /\ pc' = "act"

GiveUp ==
  /\ pc = "error" /\ ErrorPositions = {}
  /\ ErrorMarker' = MarkedIndex
  /\ Fail(MarkError)
  /\ UNCHANGED <<TopState, NextTokenFlag, Token, PrevTokenIndex, ReduceLeft, reducing,
                 errorCode, skipped>>

RecoverAtOnce ==
  /\ pc = "error" /\ RecoveringPositions # {}
  /\ ErrorMarker' = MarkedIndex
  /\ RecoverAt(MarkError, Topmost(RecoveringPositions))
  /\ UNCHANGED <<TopState, NextTokenFlag, ReduceLeft, reducing, errorCode, skipped>>

StartSkipping ==
  /\ pc = "error" /\ ErrorPositions # {} /\ RecoveringPositions = {}
  /\ ErrorMarker' = MarkedIndex
  /\ stream' = MarkError
  /\ skipped' = Token
  /\ pc' = "skip"
  /\ UNCHANGED <<stack, StackPosition, TopState, NextTokenFlag, Token, PrevTokenIndex,
                 ReduceLeft, reducing, errorCode>>

FaultyNoUseSkipping == skipped.Code = TokenError /\ PrevTokenIndex >= GetTokenIndex(stream)

NoUseSkipping ==
  \/ skipped.Code = TokenEOF
  \/ skipped.Code = TokenError /\ PrevTokenIndex >= GetTokenIndex(stream)

StopSkipping ==
  /\ pc = "skip" /\ NoUseSkipping
  /\ Fail(stream)
  /\ UNCHANGED <<TopState, NextTokenFlag, Token, PrevTokenIndex, ErrorMarker,
                 ReduceLeft, reducing, errorCode, skipped>>

SkipToken ==
  /\ pc = "skip" /\ ~ NoUseSkipping
  /\ skipped' = Read(stream)
  /\ LET read == AfterNextToken(stream)
     IN  IF ValidPositions(skipped'.Code) = {}
           THEN /\ stream' = read
                /\ UNCHANGED <<stack, StackPosition, PrevTokenIndex, Token, pc>>
           ELSE RecoverAt(read, Topmost(ValidPositions(skipped'.Code)))
  /\ UNCHANGED <<TopState, NextTokenFlag, ErrorMarker, ReduceLeft, reducing, errorCode>>

----------------------------------------------------------------------------
\* A parser is given its tokens once.
Client ==
  \/ \E src \in Sources \union {NullSource} :
       stream.source = NullSource /\ pc = "idle" /\ SetTokenStream(src)
  \/ \E nonTerminal \in NonTerminals : SetStartingProduction(nonTerminal)
  \/ DoParse

Handler ==
  \/ \E nonTerminal \in Lefts[reducing] : SetReduceNonterminal(nonTerminal)
  \/ HandlerSucceeds
  \/ HandlerFails

Parser ==
  \/ NotReady \/ StoreTopState
  \/ ReadsOutOfRange \/ Shift \/ Accept
  \/ Reduce \/ RejectReduce \/ FinishReduce
  \/ SyntaxError \/ GiveUp \/ RecoverAtOnce
  \/ StartSkipping \/ StopSkipping \/ SkipToken

\* SetErrorData reads recorded tokens only.
ShiftErrors == \E n \in 0 .. RecordedLength : ShiftError(n)

Next == Client \/ Handler \/ Parser \/ ShiftErrors

Spec == Init /\ [][Next]_vars

\* DoParse runs in its caller's thread until it returns, and so does the
\* handler it calls.
FairSpec == Spec /\ WF_vars(Parser) /\ WF_vars(ShiftErrors)
                 /\ WF_vars(HandlerSucceeds \/ HandlerFails)

\* A parser that has finished is given another source.
Reuse == \E src \in Sources \ {stream.source} : SetTokenStream(src)

SpecReuse == Init /\ [][Next \/ Reuse]_vars
=============================================================================
