----------------------------- MODULE ShiftReduce -----------------------------
(***************************************************************************)
(* What a parse promises, without a table, a token buffer or markers: the  *)
(* symbols found so far are rewritten by shifts and by the productions of  *)
(* the grammar only, and every token of the input is shifted, in order,    *)
(* unless it falls into a stretch that was replaced by an error terminal.  *)
(***************************************************************************)
EXTENDS Naturals, Sequences

CONSTANTS
  Grammar,         \* productions: the left hand sides it may give, and rhs
  StartSymbols,    \* nonterminals a parse can be asked for
  ErrorTerminals,  \* %error and the named errors
  Inputs           \* the inputs, as sequences of terminals

VARIABLES
  input,
  consumed,    \* tokens of the input shifted or replaced
  symbols,     \* what they have been rewritten to
  recovering,  \* an error was found, its terminal is not in place yet
  outcome      \* "parsing", "accepted" or "failed"

vars == <<input, consumed, symbols, recovering, outcome>>

TerminalSymbol(code) == [terminal |-> TRUE, id |-> code]

NonTerminalSymbol(id) == [terminal |-> FALSE, id |-> id]

EndsWith(word, suffix) ==
  /\ Len(suffix) <= Len(word)
  /\ SubSeq(word, Len(word) - Len(suffix) + 1, Len(word)) = suffix

Init ==
  /\ input = <<>>
  /\ consumed = 0
  /\ symbols = <<>>
  /\ recovering = FALSE
  /\ outcome = "parsing"

Attach ==
  /\ consumed = 0 /\ symbols = <<>> /\ outcome = "parsing"
  /\ input' \in Inputs
  /\ UNCHANGED <<consumed, symbols, recovering, outcome>>

Shift ==
  /\ outcome = "parsing" /\ ~ recovering
  /\ consumed < Len(input)
  /\ symbols' = Append(symbols, TerminalSymbol(input[consumed + 1]))
  /\ consumed' = consumed + 1
  /\ UNCHANGED <<input, recovering, outcome>>

\* Reductions go on while an error waits to be shifted.
Rewrite ==
  /\ outcome = "parsing"
  /\ \E prod \in Grammar : \E left \in prod.lefts :
       /\ EndsWith(symbols, prod.rhs)
       /\ symbols' = Append(SubSeq(symbols, 1, Len(symbols) - Len(prod.rhs)),
                            NonTerminalSymbol(left))
  /\ UNCHANGED <<input, consumed, recovering, outcome>>

\* What was found last may be the error: a thrown left hand side, or one that
\* cannot follow.
FindError ==
  /\ outcome = "parsing" /\ ~ recovering
  /\ recovering' = TRUE
  /\ \E n \in 0 .. Len(symbols) : symbols' = SubSeq(symbols, 1, n)
  /\ UNCHANGED <<input, consumed, outcome>>

Discard ==
  /\ outcome = "parsing" /\ recovering
  /\ \E n \in 0 .. Len(symbols) : symbols' = SubSeq(symbols, 1, n)
  /\ consumed' \in consumed .. Len(input)
  /\ UNCHANGED <<input, recovering, outcome>>

ReplaceByError ==
  /\ outcome = "parsing" /\ recovering
  /\ \E code \in ErrorTerminals : symbols' = Append(symbols, TerminalSymbol(code))
  /\ recovering' = FALSE
  /\ UNCHANGED <<input, consumed, outcome>>

Accept ==
  /\ outcome = "parsing" /\ ~ recovering
  /\ consumed = Len(input)
  /\ \E start \in StartSymbols : symbols = <<NonTerminalSymbol(start)>>
  /\ outcome' = "accepted"
  /\ UNCHANGED <<input, consumed, symbols, recovering>>

Fail ==
  /\ outcome = "parsing"
  /\ outcome' = "failed"
  /\ symbols' = <<>>
  /\ recovering' = FALSE
  /\ UNCHANGED <<input, consumed>>

Next ==
  \/ Attach \/ Shift \/ Rewrite \/ Accept \/ Fail
  \/ FindError \/ Discard \/ ReplaceByError

Spec == Init /\ [][Next]_vars
=============================================================================
