--------------------------- MODULE ParseProperties ---------------------------
(***************************************************************************)
(* What must be true of Parse, for any table a grammar gives.              *)
(***************************************************************************)
EXTENDS Parse

CONSTANTS
  Rhs,          \* [Productions -> right hand side, as grammar symbols]
  StartSymbols, \* nonterminals with a start state
  Nesting       \* bound on derivation depth, enough for StackSize symbols

\* A grammar symbol, as in ShiftReduce.
TerminalSymbol(code)  == [terminal |-> TRUE, id |-> code]
NonTerminalSymbol(id) == [terminal |-> FALSE, id |-> id]

\* The symbol every transition of the table into a state is on.
EntrySymbol ==
  [state \in States |->
     IF \E s \in States, t \in Terminals : ActionTable[s][t] = [kind |-> "shift", arg |-> state]
       THEN TerminalSymbol(CHOOSE t \in Terminals :
              \E s \in States : ActionTable[s][t] = [kind |-> "shift", arg |-> state])
     ELSE IF \E s \in States, n \in NonTerminals : GotoTable[s][n] = state
       THEN NonTerminalSymbol(CHOOSE n \in NonTerminals :
              \E s \in States : GotoTable[s][n] = state)
     ELSE NonTerminalSymbol(InvalidState)]

----------------------------------------------------------------------------
(***************************************************************************)
(* What a table has to do with the productions it was generated from.  A   *)
(* state is entered on one symbol.  One that reduces holds an item with    *)
(* the dot at its end: whatever path of the automaton leads to it ends in  *)
(* the right hand side.  Only the state behind a start symbol accepts.     *)
(***************************************************************************)
EnteredOnOneSymbol ==
  \A s \in States :
    /\ \A t \in Terminals : ActionTable[s][t].kind = "shift" =>
                             EntrySymbol[ActionTable[s][t].arg] = TerminalSymbol(t)
    /\ \A n \in NonTerminals : GotoTable[s][n] # InvalidState =>
                                EntrySymbol[GotoTable[s][n]] = NonTerminalSymbol(n)

\* The states that n symbols from somewhere lead to s, s itself the last.
PathsTo(s, n) ==
  {path \in [1 .. n -> States] : /\ n > 0 => path[n] = s
                                 /\ \A i \in 1 .. (n - 1) : Leads(path[i], path[i + 1])}

ReducesWhatItSpells ==
  \A s \in States, t \in Terminals : ActionTable[s][t].kind = "reduce" =>
    \E p \in {ActionTable[s][t].arg} :
      /\ ReduceProductions[p].Length = Len(Rhs[p])
      /\ ReduceProductions[p].Left \in Lefts[p]
      /\ \A path \in PathsTo(s, Len(Rhs[p])) : \A i \in DOMAIN path : EntrySymbol[path[i]] = Rhs[p][i]

AcceptsStartSymbol ==
  /\ \A r \in States, s \in Starts : ~ Leads(r, s)
  /\ \A s \in States, t \in Terminals : ActionTable[s][t].kind = "accept" =>
       /\ t = TokenEOF /\ s \notin Starts
       /\ EntrySymbol[s] \in {NonTerminalSymbol(start) : start \in StartSymbols}
       /\ \A r \in States : Leads(r, s) => r \in Starts

\* The end of the input is no symbol, an error that is thrown has a name.
EndIsNoSymbol ==
  /\ TokenEOF \notin ErrorTerminals
  /\ \A s \in States : ActionTable[s][TokenEOF].kind # "shift"
  /\ \A src \in Sources : \A i \in DOMAIN SourceCodes[src] : SourceCodes[src][i] # TokenEOF

ErrorsThrownHaveNames == \A thrown \in DOMAIN ThrownTerminal : ThrownTerminal[thrown] # TokenError

TableOfGrammar ==
  /\ Rhs \in [Productions -> Seq([terminal : BOOLEAN, id : Nat])]
  /\ EnteredOnOneSymbol /\ ReducesWhatItSpells /\ AcceptsStartSymbol
  /\ EndIsNoSymbol /\ ErrorsThrownHaveNames

----------------------------------------------------------------------------
(***************************************************************************)
(* Tables on which one error is dealt with at a time.  Every reduction has *)
(* a state to go to.  What the error makes the parser reduce leads to      *)
(* where it is shifted, and throws nothing; and where a named error is     *)
(* thrown, it is not at the place of what threw it that it is shifted.     *)
(***************************************************************************)
GotosDefined ==
  \A s \in States, t \in Terminals : ActionTable[s][t].kind = "reduce" =>
    \E p \in {ActionTable[s][t].arg} :
      \A path \in PathsTo(s, Len(Rhs[p]) + 1) :
        GotoTable[path[1]][ReduceProductions[p].Left] # InvalidState

ErrorsGetShifted ==
  \A s \in States, t \in ErrorTerminals : ActionTable[s][t].kind = "reduce" =>
    \E p \in {ActionTable[s][t].arg} :
      /\ \A thrown \in DOMAIN ThrownTerminal : thrown[1] # p
      /\ \A path \in PathsTo(s, Len(Rhs[p]) + 1), left \in Lefts[p] :
           GotoTable[path[1]][left] # InvalidState =>
             ActionTable[GotoTable[path[1]][left]][t].kind # "none"

ThrownElsewhere ==
  \A s \in States, t \in Terminals : ActionTable[s][t].kind = "reduce" =>
    \A thrown \in DOMAIN ThrownTerminal : thrown[1] = ActionTable[s][t].arg =>
      /\ Len(Rhs[thrown[1]]) > 0
      /\ \A path \in PathsTo(s, Len(Rhs[thrown[1]])) :
           ActionTable[path[1]][ThrownTerminal[thrown]].kind = "none"

ErrorsFindPlace == GotosDefined /\ ErrorsGetShifted /\ ThrownElsewhere

----------------------------------------------------------------------------
\* The handler has picked the left hand side: the top element is it, and its
\* state is still in TopState.
Reduced == pc = "reduced" \/ (pc = "top" /\ ~ NextTokenFlag)

\* A reduced production threw a named error in place of its left hand side.
Thrown == pc \in {"error", "skip"} /\ errorCode # TokenError

\* How many elements stand for symbols found: while the handler runs, the right
\* hand side is still in place.
Depth == CASE pc = "failed"  -> 0
           [] pc = "handler" -> StackPosition + ReduceProductions[reducing].Length - 1
           [] Thrown         -> StackPosition - 1
           [] OTHER          -> StackPosition

StateAt(i) == IF Reduced /\ i = StackPosition THEN TopState ELSE stack[i].State

Spelled == [i \in 1 .. Depth |-> EntrySymbol[StateAt(i)]]

\* An error is the token to be looked at, one token before where it was found.
ErrorPresented == PrevTokenIndex # InvalidIndex /\ GetTokenIndex(stream) < PrevTokenIndex

Recovering == pc \in {"error", "skip"} \/ (ErrorPresented /\ pc # "failed")

Consumed ==
  IF stream.Pos = 0 \/ ErrorPresented THEN GetTokenIndex(stream)
  ELSE GetTokenIndex(stream) - 1

----------------------------------------------------------------------------
\* The outcome of a parse is the one of a ShiftReduce of its grammar.
Promise == INSTANCE ShiftReduce WITH
  Grammar        <- {[lefts |-> Lefts[p], rhs |-> Rhs[p]] : p \in Productions},
  Inputs         <- {SourceCodes[src] : src \in Sources} \union {<<>>},
  input          <- IF stream.source = NullSource THEN <<>> ELSE SourceCodes[stream.source],
  consumed       <- Consumed,
  symbols        <- Spelled,
  recovering     <- Recovering,
  outcome        <- IF pc \in {"accepted", "failed"} THEN pc ELSE "parsing"

PromiseSpec == Promise!Spec

----------------------------------------------------------------------------
(***************************************************************************)
(* Which symbols may stand on the stack, from the productions alone: a     *)
(* viable prefix ends inside a right hand side, or inside what the last    *)
(* symbol of such a beginning derives.  Neither the table nor lookahead    *)
(* sets are used.                                                          *)
(***************************************************************************)
ViablePrefixes ==
  LET within(p, deeper) ==
        UNION {{SubSeq(Rhs[p], 1, k)} \union
               (IF k = 0 \/ Rhs[p][k].terminal THEN {}
                ELSE {SubSeq(Rhs[p], 1, k - 1) \o w : w \in deeper[Rhs[p][k].id]})
               : k \in 0 .. Len(Rhs[p])}
      of[n \in 0 .. Nesting] ==
        IF n = 0 THEN [left \in NonTerminals |-> {<<>>}]
        ELSE [left \in NonTerminals |->
                {w \in UNION {within(p, of[n - 1]) : p \in {q \in Productions : left \in Lefts[q]}} :
                   Len(w) <= StackSize}]
  IN  [start \in StartSymbols |-> of[Nesting][start] \union {<<NonTerminalSymbol(start)>>}]

StartSymbol == CHOOSE start \in StartSymbols : StartStates[start] = stack[0].State

\* The words a word can be reduced to and still be a viable prefix.
Reductions(word, viable) ==
  LET reduced(w) ==
        {v \in UNION {{Append(SubSeq(w, 1, Len(w) - Len(Rhs[p])), NonTerminalSymbol(left)) :
                         left \in Lefts[p]}
                      : p \in {q \in Productions : Promise!EndsWith(w, Rhs[q])}} : v \in viable}
      of[n \in 0 .. Nesting] ==
        IF n = 0 THEN {word}
        ELSE of[n - 1] \union UNION {reduced(w) : w \in of[n - 1]}
  IN  of[Nesting]

\* Some sentence begins with what the word stands for, followed by the token.
CanFollow(word, code) ==
  \E w \in Reductions(word, ViablePrefixes[StartSymbol]) :
    IF code = TokenEOF THEN w = <<NonTerminalSymbol(StartSymbol)>>
                       ELSE Append(w, TerminalSymbol(code)) \in ViablePrefixes[StartSymbol]

----------------------------------------------------------------------------
PcValues == {"idle", "top", "act", "handler", "reduced", "error", "skip",
             "accepted", "failed", "crashed"}

\* The parser was told to start with a nonterminal that has no start state.
NoStartState == TopState = EmptyGoto

StackStates == States \union {InvalidState, EmptyGoto}

\* EmptyGoto is nowhere but at the bottom of the stack, and no parser gets
\* further with it than to look for its first action.
OnlyAtBottom ==
  /\ NoStartState => StackPosition = 0 /\ pc \in {"idle", "top", "act", "crashed"}
  /\ \A i \in 0 .. (StackSize - 1) : stack[i].State = EmptyGoto <=> i = 0 /\ NoStartState

\* The type invariant: the stack is never left at either end, every number on
\* it is that of a state or, at its bottom or where it was not used yet, of
\* none, and the stream's own type holds.
TypeOK ==
  /\ StreamType(stream)
  /\ stack \in [0 .. (StackSize - 1) -> [State          : StackStates,
                                         TerminalMarker : 0 .. MaxSize,
                                         Held           : BOOLEAN]]
  /\ StackPosition \in 0 .. (StackSize - 1)
  /\ TopState \in StackStates
  /\ OnlyAtBottom
  /\ NextTokenFlag \in BOOLEAN
  /\ {Token, skipped} \subseteq [Code : Terminals, Data : TokenValues]
  /\ {PrevTokenIndex, ErrorMarker} \subseteq 0 .. MaxSize
  /\ ReduceLeft \in NonTerminals
  /\ reducing \in Productions
  /\ errorCode \in ErrorTerminals
  /\ pc \in PcValues

\* DoParse is about to go one token back: a reduction leads nowhere, or an error
\* that can be handled at once is presented.
GoesBack ==
  \/ pc = "act" /\ Action.kind = "reduce" /\ ReducedState = InvalidState
  \/ pc = "error" /\ RecoveringPositions # {}

\* There is a token to go back to.
Disciplined == GoesBack => GetTokenIndex(stream) > 0

\* One token at a time: DoParse does not go back from an error that is not shifted
\* yet, and the left hand side that threw a named error is never what stays below it.
OneTokenBack ==
  /\ GoesBack => ~ ErrorPresented
  /\ Thrown => StackPosition \notin ErrorPositions

\* DoParse is the disciplined client TokenStreamSpec takes it for: it never
\* goes back from the first token, and none of its marks, releases, backtracks
\* and seeks leaves the stream's cursor or a marker where the stream cannot
\* serve them.
StreamSound ==
  /\ Disciplined
  /\ Contiguous(stream) /\ Recorded(stream) /\ MarkersHold(stream) /\ CursorInside(stream)

\* What the stack stands for is always the beginning of a sentence of the start
\* symbol the parser was given, with errors where they were replaced: popping a
\* right hand side, flushing the stack to an error production and reducing
\* before the error is shifted all leave it so (DoParse).  Of a nonterminal
\* without start state there is nothing to say: its parser crashes.
ViablePrefix ==
  stream.source # NullSource /\ pc # "idle" /\ ~ NoStartState =>
    Spelled \in ViablePrefixes[StartSymbol]

\* DoParse has no action for the token, or its reduction leads nowhere.
Rejected ==
  /\ pc = "act" /\ ~ NoStartState /\ Token.Code \notin ErrorTerminals
  /\ \/ Action.kind = "none"
     \/ Action.kind = "reduce" /\ ReducedState = InvalidState

\* A token is an error only where no sentence goes on with it: DoParse neither
\* rejects a sentence nor, after an error, what may follow it.
ErrorsAreReal == Rejected => ~ CanFollow(Spelled, Token.Code)

\* Every parse ends: no error is handled for ever without input being read
\* (AdvancedInput, the PrevTokenIndex test of the skipping loop).
Terminates == pc = "top" ~> pc \in {"accepted", "failed"} \/ (NoStartState /\ pc = "crashed")

\* Tokens are recorded from the start for all starting productions or none.
\* SetStartingProduction replaces the initial state's marker and does not
\* release it: NoMarkerLeaks takes a table of this kind.
StartsRecordAlike ==
  \A s, t \in Starts : s \in RecordStates => t \in RecordStates

\* Every marker of the stream belongs to an element of the stack or is the
\* error marker.
MarkersHaveOwners ==
  \A m \in Marked(stream) :
    m = ErrorMarker \/ \E i \in 0 .. StackPosition : stack[i].TerminalMarker = m

\* No marker outlives what it was set for.  Whether SetStartingProduction sets
\* one for a nonterminal without start state is up to what it reads out of
\* range: NoMarkerLeaks is about parsers never given one.
NoMarkerLeaks == [](~ NoStartState) => []MarkersHaveOwners

\* The places of the right hand side being reduced, but its first.
Remains ==
  {i \in 0 .. (StackSize - 1) :
     StackPosition < i /\ i < StackPosition + ReduceProductions[reducing].Length}

\* Above the top of the stack every element has been cleaned up, but for the
\* right hand side being reduced.  A parser whose handler failed may have left
\* that where it was.
ValuesOwned ==
  \A i \in (StackPosition + 1) .. (StackSize - 1) :
    stack[i].Held => pc = "failed" \/ (pc \in {"handler", "reduced"} /\ i \in Remains)

\* When DoParse fails nothing is left above the top; when it fails because the
\* handler did, the rest of the right hand side is.
FailureCleansUp ==
  pc # "failed" /\ pc' = "failed" =>
    \A i \in (StackPosition' + 1) .. (StackSize - 1) :
      stack'[i].Held => pc = "handler" /\ i \in Remains

\* No value of the user's is forgotten but where a handler fails, which forgets
\* the rest of its right hand side and nothing else.
NoValueLeaks == []ValuesOwned /\ [][FailureCleansUp]_vars

----------------------------------------------------------------------------
(***************************************************************************)
(* What comments and documents say of the parser and the code does not do. *)
(***************************************************************************)
\* "Change/Set token stream": a parser given another source parses its tokens.
\* The buffer still holds those of the source before.
InputIsCurrent == pc = "act" => Token.Data[1] \in {stream.source, NullSource}
=============================================================================
