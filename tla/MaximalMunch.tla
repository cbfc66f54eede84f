----------------------------- MODULE MaximalMunch -----------------------------
(***************************************************************************)
(* What a tokenizer promises, without buffers: wherever it stands in the   *)
(* input it takes the longest piece its automaton accepts there, in the    *)
(* expression on top of its stack, and where the automaton accepts none it *)
(* takes one byte as an error.                                             *)
(***************************************************************************)
EXTENDS Naturals, Sequences

CONSTANTS
  Inputs,          \* sequences of bytes
  Transition,      \* [states -> [bytes -> states, or EmptyTransition]]
  EmptyTransition,
  AcceptState,     \* [states -> the lexeme accepted, 0 for none]
  LexemeInfo,      \* [lexemes -> TokenCode, Action and the action's Value]
  StartState       \* [expressions -> states]

VARIABLES
  input,
  at,      \* bytes of the input taken
  stack,   \* the expressions to return to
  top,     \* the present one
  token    \* the last token: its code and its text

vars == <<input, at, stack, top, token>>

NoToken == [Code |-> 1, Str |-> <<>>]

Init ==
  /\ input = <<>>
  /\ at = 0
  /\ stack = <<>>
  /\ top = EmptyTransition
  /\ token = NoToken

\* Another input; nothing more is promised of the expressions than that they
\* are as they were or as at first.
Attach ==
  /\ input' \in Inputs \union {<<>>}
  /\ at' = 0
  /\ <<stack', top'>> \in {<<stack, top>>, << <<>>, 0 >>}
  /\ token' = NoToken

\* The automaton's state after the bytes from where it stands to number n.
StateAfter ==
  LET after[n \in at .. Len(input)] ==
        IF n = at THEN StartState[top]
        ELSE IF after[n - 1] = EmptyTransition THEN EmptyTransition
        ELSE Transition[after[n - 1]][input[n]]
  IN  after

Accepted ==
  {n \in (at + 1) .. Len(input) :
     StateAfter[n] # EmptyTransition /\ AcceptState[StateAfter[n]] # 0}

Piece(n) == SubSeq(input, at + 1, n)

EndOfInput ==
  /\ at = Len(input)
  /\ token' = [Code |-> 1, Str |-> <<>>]
  /\ UNCHANGED <<input, at, stack, top>>

Unrecognised ==
  /\ at < Len(input)
  /\ Accepted = {}
  /\ token' = [Code |-> 0, Str |-> Piece(at + 1)]
  /\ at' = at + 1
  /\ UNCHANGED <<input, stack, top>>

\* Popping an empty stack is an error; a lexeme without a token is passed over.
Longest ==
  \E n \in Accepted :
    LET lexeme == LexemeInfo[AcceptState[StateAfter[n]]]
        failed == lexeme.Action = "pop" /\ stack = <<>>
    IN  /\ \A longer \in Accepted : longer <= n
        /\ at' = n
        /\ stack' = CASE lexeme.Action = "push"           -> Append(stack, top)
                      [] lexeme.Action = "pop" /\ ~ failed -> SubSeq(stack, 1, Len(stack) - 1)
                      [] OTHER                            -> stack
        /\ top' = CASE lexeme.Action \in {"push", "goto"} -> lexeme.Value
                    [] lexeme.Action = "pop"              -> IF failed THEN 0 ELSE stack[Len(stack)]
                    [] OTHER                              -> top
        /\ token' = IF failed THEN [Code |-> 0, Str |-> Piece(n)]
                    ELSE IF lexeme.TokenCode = 0 THEN token
                    ELSE [Code |-> lexeme.TokenCode, Str |-> Piece(n)]
        /\ UNCHANGED input

Next == Attach \/ EndOfInput \/ Unrecognised \/ Longest

Spec == Init /\ [][Next]_vars
=============================================================================
