----------------------------- MODULE MCTokenizer -----------------------------
(***************************************************************************)
(* Tokenizer on the automata that sgyacc generates for two sets of         *)
(* expressions.                                                            *)
(*                                                                         *)
(* Modes:      %expression main                                            *)
(*             'a' A;  'abba' Long;  'ba' Ba;  '[\t\n]' %ignore;           *)
(*             '<' Open, %push inner;  '>' %ignore, %pop;                  *)
(*             %expression inner                                           *)
(*             'a' Text;  '<' %ignore, %goto main;  '>' Close, %pop;       *)
(*                                                                         *)
(* Continued:  %expression main                                            *)
(*             'a' A;  'b' B;  '\n' %ignore;  '\nab' Cont;                 *)
(***************************************************************************)
EXTENDS TokenizerProperties

CONSTANTS
  AnyLength,   \* length of the inputs of any bytes
  TextLength   \* length of the inputs of Letters

a    == 97
b    == 98
open == 60
shut == 62

Letters == {LineFeed, a, b}
Given == Letters \union {Tab, open, shut}
AllBytes == Given \union {NoByte}

Texts ==
  UNION {[1 .. n -> Given] : n \in 0 .. AnyLength}
    \union UNION {[1 .. n -> Letters] : n \in 0 .. TextLength}

\* Where the tokenizer is given a second stream.
LaterTexts == {<<>>, <<a>>, <<LineFeed, b, a, a>>}

OneStream  == <<Texts>>
TwoStreams == <<Texts, LaterTexts>>

Row(entries) ==
  [ch \in AllBytes |-> IF ch \in DOMAIN entries THEN entries[ch] ELSE EmptyTransition]

NoEntries == <<>>

Lexeme(code, action, value) == [TokenCode |-> code, Action |-> action, Value |-> value]

----------------------------------------------------------------------------
\* Modes

ModeTransition ==
  (0 :> Row(Tab :> 1 @@ LineFeed :> 1 @@ open :> 2 @@ shut :> 3 @@ a :> 4 @@ b :> 5)) @@
  (1 :> Row(NoEntries)) @@ (2 :> Row(NoEntries)) @@ (3 :> Row(NoEntries)) @@
  (4 :> Row(b :> 6)) @@
  (5 :> Row(a :> 7)) @@
  (6 :> Row(b :> 8)) @@
  (7 :> Row(NoEntries)) @@
  (8 :> Row(a :> 9)) @@
  (9 :> Row(NoEntries)) @@
  (10 :> Row(open :> 11 @@ shut :> 12 @@ a :> 13)) @@
  (11 :> Row(NoEntries)) @@ (12 :> Row(NoEntries)) @@ (13 :> Row(NoEntries))

ModeAccept ==
  1 :> 5 @@ 2 :> 6 @@ 3 :> 7 @@ 4 :> 2 @@ 7 :> 4 @@ 9 :> 3 @@
  11 :> 9 @@ 12 :> 10 @@ 13 :> 8 @@ [s \in {0, 5, 6, 8, 10} |-> 0]

ModeLexemes ==
  (2 :> Lexeme(2, "none", 0)) @@ (3 :> Lexeme(3, "none", 0)) @@
  (4 :> Lexeme(4, "none", 0)) @@ (5 :> Lexeme(0, "none", 0)) @@
  (6 :> Lexeme(5, "push", 1)) @@ (7 :> Lexeme(0, "pop", 0)) @@
  (8 :> Lexeme(6, "none", 0)) @@ (9 :> Lexeme(0, "goto", 0)) @@
  (10 :> Lexeme(7, "pop", 0))

ModeStart == 0 :> 0 @@ 1 :> 10

----------------------------------------------------------------------------
\* Continued

ContinuedTransition ==
  (0 :> Row(LineFeed :> 1 @@ a :> 2 @@ b :> 3)) @@
  (1 :> Row(a :> 4)) @@
  (2 :> Row(NoEntries)) @@ (3 :> Row(NoEntries)) @@
  (4 :> Row(b :> 5)) @@
  (5 :> Row(NoEntries))

ContinuedAccept == 1 :> 4 @@ 2 :> 2 @@ 3 :> 3 @@ 5 :> 5 @@ [s \in {0, 4} |-> 0]

ContinuedLexemes ==
  (2 :> Lexeme(2, "none", 0)) @@ (3 :> Lexeme(3, "none", 0)) @@
  (4 :> Lexeme(0, "none", 0)) @@ (5 :> Lexeme(4, "none", 0))

ContinuedStart == 0 :> 0

----------------------------------------------------------------------------
\* What the properties of a tokenizer take of its automaton, Modes has and
\* Continued has not.
ASSUME ModesGoOn == IgnoredGoOn <=> Transition = ModeTransition
=============================================================================
