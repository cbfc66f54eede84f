----------------------------- MODULE ParseTables -----------------------------
(****************************************************************************)
(* The tables sgyacc -lalr generates for three grammars, as Parse takes     *)
(* them.                                                                    *)
(*                                                                          *)
(* Statements:  list -> ;  list -> list stmt;                               *)
(*              stmt -> 'a' 'b' ';';  stmt -> %error ';';                   *)
(*                                                                          *)
(* Names:       list -> list stmt;  list -> stmt;                           *)
(*              stmt -> %error(Unknown) ';';  stmt -> name 'b' ';';         *)
(*              stmt -> bad ';';  bad %error(Unknown) | name -> 'a';        *)
(*                                                                          *)
(* Parts:       list -> list part;  list -> part;                           *)
(*              part -> name ';';  part -> type 'b';                        *)
(*              part -> 'b' name part;  part -> 'b' 'b' part;               *)
(*              part -> %error ';';                                         *)
(*              name | type -> 'a';  with the starts list and part.         *)
(****************************************************************************)
EXTENDS Integers, Sequences, TLC

NoState == -1
NoStart == 65535
Empty   == [kind |-> "none", arg |-> 0]
error   == 0
eof     == 1

\* The terminals: %error, end of file, the three of the grammars, and Unknown.
a == 2
b == 3
semi == 4
unknown == 5

ShiftTo(state) == [kind |-> "shift", arg |-> state]
ReduceBy(prod) == [kind |-> "reduce", arg |-> prod]
Accepts        == [kind |-> "accept", arg |-> 4095]

OnAll(codes, action) == [t \in codes |-> action]

\* A row of the action table from the entries that are not empty.
Row(terminals, entries) ==
  [t \in terminals |-> IF t \in DOMAIN entries THEN entries[t] ELSE Empty]

GotoRow(nonTerminals, entries) ==
  [n \in nonTerminals |-> IF n \in DOMAIN entries THEN entries[n] ELSE NoState]

Production(length, left) ==
  [Length |-> length, Left |-> left, NotReported |-> FALSE, ErrorTerminalFlag |-> FALSE]

T(code) == [terminal |-> TRUE, id |-> code]
N(id)   == [terminal |-> FALSE, id |-> id]

----------------------------------------------------------------------------
\* Statements

StatementStates == 0 .. 7
StatementTerminals == 0 .. 4

StatementActions ==
  LET row(entries) == Row(StatementTerminals, entries)
  IN  (0 :> row(OnAll({error, eof, a}, ReduceBy(1)))) @@
      (1 :> row(error :> ShiftTo(2) @@ eof :> Accepts @@ a :> ShiftTo(3))) @@
      (2 :> row(semi :> ShiftTo(5))) @@
      (3 :> row(b :> ShiftTo(6))) @@
      (4 :> row(OnAll({error, eof, a}, ReduceBy(2)))) @@
      (5 :> row(OnAll({error, eof, a}, ReduceBy(4)))) @@
      (6 :> row(semi :> ShiftTo(7))) @@
      (7 :> row(OnAll({error, eof, a}, ReduceBy(3))))

StatementGotos ==
  [s \in StatementStates |->
     GotoRow(0 .. 1, IF s = 0 THEN 0 :> 1 ELSE IF s = 1 THEN 1 :> 4 ELSE <<>>)]

StatementProductions ==
  (0 :> Production(1, 0)) @@ (1 :> Production(0, 0)) @@ (2 :> Production(2, 0)) @@
  (3 :> Production(3, 1)) @@ (4 :> Production(2, 1))

StatementRhs ==
  (0 :> <<N(0)>>) @@ (1 :> <<>>) @@
  (2 :> <<N(0), N(1)>>) @@
  (3 :> <<T(a), T(b), T(semi)>>) @@
  (4 :> <<T(error), T(semi)>>)

\* Production 0 only marks where the start symbol is accepted.
StatementLefts == [p \in 0 .. 4 |-> IF p = 0 THEN {} ELSE {StatementProductions[p].Left}]

StatementStarts == 0 :> 0 @@ 1 :> NoStart

NoThrows == [p \in {} |-> error]

----------------------------------------------------------------------------
\* Names

NameStates == 0 .. 11
NameTerminals == 0 .. 5

NameActions ==
  LET row(entries) == Row(NameTerminals, entries)
      ends(prod)   == row(OnAll({eof, a, unknown}, ReduceBy(prod)))
  IN  (0 :> row(a :> ShiftTo(2) @@ unknown :> ShiftTo(1))) @@
      (1 :> row(semi :> ShiftTo(7))) @@
      (2 :> row(OnAll({b, semi}, ReduceBy(6)))) @@
      (3 :> row(semi :> ShiftTo(8))) @@
      (4 :> row(eof :> Accepts @@ a :> ShiftTo(2) @@ unknown :> ShiftTo(1))) @@
      (5 :> row(b :> ShiftTo(10))) @@
      (6 :> ends(2)) @@ (7 :> ends(3)) @@ (8 :> ends(5)) @@ (9 :> ends(1)) @@
      (10 :> row(semi :> ShiftTo(11))) @@
      (11 :> ends(4))

NameGotos ==
  [s \in NameStates |->
     GotoRow(0 .. 3, IF s = 0 THEN 0 :> 4 @@ 1 :> 6 @@ 2 :> 5 @@ 3 :> 3
                     ELSE IF s = 4 THEN 1 :> 9 @@ 2 :> 5 @@ 3 :> 3 ELSE <<>>)]

NameProductions ==
  (0 :> Production(1, 0)) @@ (1 :> Production(2, 0)) @@ (2 :> Production(1, 0)) @@
  (3 :> Production(2, 1)) @@ (4 :> Production(3, 1)) @@ (5 :> Production(2, 1)) @@
  (6 :> [Production(1, 3) EXCEPT !.ErrorTerminalFlag = TRUE])

NameThrows == <<6, 3>> :> unknown

NameRhs ==
  (0 :> <<N(0)>>) @@
  (1 :> <<N(0), N(1)>>) @@
  (2 :> <<N(1)>>) @@
  (3 :> <<T(unknown), T(semi)>>) @@
  (4 :> <<N(2), T(b), T(semi)>>) @@
  (5 :> <<N(3), T(semi)>>) @@
  (6 :> <<T(a)>>)

NameLefts ==
  [p \in 0 .. 6 |-> CASE p = 0 -> {} [] p = 6 -> {2, 3} [] OTHER -> {NameProductions[p].Left}]

NameStarts == 0 :> 0 @@ 1 :> NoStart @@ 2 :> NoStart @@ 3 :> NoStart

----------------------------------------------------------------------------
\* Parts

PartStates == 0 .. 18
PartTerminals == 0 .. 4

PartActions ==
  LET row(entries)   == Row(PartTerminals, entries)
      starts         == error :> ShiftTo(2) @@ a :> ShiftTo(3) @@ b :> ShiftTo(4)
      ends(prod)     == row(OnAll(PartTerminals \ {semi}, ReduceBy(prod)))
      only(code, st) == row(code :> ShiftTo(st))
  IN  [s \in {0, 1, 12, 13} |-> row(starts)] @@
      (2 :> only(semi, 10)) @@
      (3 :> row(OnAll({b, semi}, ReduceBy(9)))) @@
      (4 :> row(a :> ShiftTo(11) @@ b :> ShiftTo(12))) @@
      (5 :> row(starts @@ eof :> Accepts)) @@
      (6 :> only(semi, 15)) @@
      (7 :> ends(3)) @@
      (8 :> only(b, 16)) @@
      (9 :> row(eof :> Accepts)) @@
      (10 :> ends(8)) @@
      (11 :> row(OnAll({error, a, b}, ReduceBy(9)))) @@
      (14 :> ends(2)) @@ (15 :> ends(4)) @@ (16 :> ends(5)) @@ (17 :> ends(7)) @@ (18 :> ends(6))

PartGotos ==
  LET starts(state) == 1 :> state @@ 2 :> 6 @@ 3 :> 8
  IN  [s \in PartStates |->
         GotoRow(0 .. 3, CASE s = 0  -> 0 :> 5 @@ starts(7)
                           [] s = 1  -> starts(9)
                           [] s = 4  -> 2 :> 13
                           [] s = 5  -> starts(14)
                           [] s = 12 -> starts(17)
                           [] s = 13 -> starts(18)
                           [] OTHER  -> <<>>)]

PartProductions ==
  (0 :> Production(1, 0)) @@ (1 :> Production(1, 1)) @@ (2 :> Production(2, 0)) @@
  (3 :> Production(1, 0)) @@ (4 :> Production(2, 1)) @@ (5 :> Production(2, 1)) @@
  (6 :> Production(3, 1)) @@ (7 :> Production(3, 1)) @@ (8 :> Production(2, 1)) @@
  (9 :> Production(1, 3))

PartRhs ==
  (0 :> <<N(0)>>) @@ (1 :> <<N(1)>>) @@
  (2 :> <<N(0), N(1)>>) @@
  (3 :> <<N(1)>>) @@
  (4 :> <<N(2), T(semi)>>) @@
  (5 :> <<N(3), T(b)>>) @@
  (6 :> <<T(b), N(2), N(1)>>) @@
  (7 :> <<T(b), T(b), N(1)>>) @@
  (8 :> <<T(error), T(semi)>>) @@
  (9 :> <<T(a)>>)

PartLefts ==
  [p \in 0 .. 9 |-> CASE p \in {0, 1} -> {} [] p = 9 -> {2, 3} [] OTHER -> {PartProductions[p].Left}]

PartStarts == 0 :> 0 @@ 1 :> 1 @@ 2 :> NoStart @@ 3 :> NoStart
=============================================================================
