---------------------------- MODULE TokenWindow ----------------------------
(***************************************************************************)
(* What BacktrackingTokenStream promises its client, without blocks: the   *)
(* tokens of one source form a log; the client reads it through a cursor,  *)
(* which it can move anywhere between a floor and the end of what has been *)
(* read.  The floor rises when the stream forgets tokens, but never past   *)
(* a marked index, past the cursor or into the last RememberLength tokens. *)
(***************************************************************************)
EXTENDS Integers

CONSTANTS
  RememberLength,  \* tokens before the furthest one kept without a mark
  Sources,         \* the token sources there are
  NullSource,      \* no source attached
  SourceLength,    \* tokens each source delivers before its end of file
  Indexes,         \* the indexes clients ask for
  Lengths          \* the length limits clients ask for

VARIABLES
  source,   \* the source read from, NullSource if none
  read,     \* tokens read from the source, its end of file included
  cursor,   \* index of the token GetNextToken returns next
  floor,    \* the oldest index that can still be sought
  marks,    \* the marked indexes
  cutOff,   \* the client asked for no more tokens: only EOF is reported
  result    \* what the last call returned

vars == <<source, read, cursor, floor, marks, cutOff, result>>

NoToken == <<NullSource, 0>>

Answer(ok) == [ok |-> ok, token |-> NoToken]

TokenAt(src, i) == <<src, i + 1>>

\* The floors a stream that forgets tokens may choose from.
Forget(lowest, c, m, n) ==
  {f \in lowest .. c : /\ \A i \in m : f <= i
                       /\ f <= lowest \/ f + RememberLength <= n}

Init ==
  /\ source \in Sources \union {NullSource}
  /\ read = 0 /\ cursor = 0 /\ floor = 0
  /\ marks = {}
  /\ cutOff = (source = NullSource)
  /\ result = Answer(TRUE)

\* A stream starts over on a new source.
Attach(src) ==
  /\ source' = src
  /\ read' = 0 /\ cursor' = 0 /\ floor' = 0
  /\ marks' = {}
  /\ cutOff' = (src = NullSource)
  /\ result' = Answer(TRUE)

Mark(i) ==
  /\ marks' = IF i \in floor .. read THEN marks \union {i} ELSE marks
  /\ result' = Answer(i \in floor .. read)
  /\ UNCHANGED <<source, read, cursor, floor, cutOff>>

Unmark(i) ==
  /\ marks' = marks \ {i}
  /\ result' = Answer(i \in marks)
  /\ floor' \in Forget(floor, cursor, marks', read)
  /\ UNCHANGED <<source, read, cursor, cutOff>>

UnmarkAll ==
  /\ marks' = {}
  /\ result' = Answer(TRUE)
  /\ floor' \in Forget(floor, cursor, {}, read)
  /\ UNCHANGED <<source, read, cursor, cutOff>>

Rewind(i, limit) ==
  /\ result' = Answer(i \in marks)
  /\ cursor' = IF i \in marks THEN i ELSE cursor
  /\ cutOff' = IF i \in marks THEN source = NullSource \/ limit = 0 ELSE cutOff
  /\ UNCHANGED <<source, read, floor, marks>>

Seek(i) ==
  /\ result' = Answer(i \in floor .. read)
  /\ cursor' = IF i \in floor .. read THEN i ELSE cursor
  /\ UNCHANGED <<source, read, floor, marks, cutOff>>

\* The same, by a count of tokens to go back.
SeekBack(n) == n <= cursor /\ Seek(cursor - n)

ToEnd(limit) ==
  /\ cursor' = read
  /\ cutOff' = (source = NullSource \/ limit = 0)
  /\ result' = Answer(TRUE)
  /\ UNCHANGED <<source, read, floor, marks>>

Limit(limit) ==
  /\ cutOff' = (source = NullSource \/ limit = 0)
  /\ result' = Answer(TRUE)
  /\ UNCHANGED <<source, read, cursor, floor, marks>>

\* Past a cut-off, and past the end of file, the log does not grow.
GetCutOff ==
  /\ cutOff
  /\ result' = Answer(TRUE)
  /\ UNCHANGED <<source, read, cursor, floor, marks, cutOff>>

GetBuffered ==
  /\ ~ cutOff /\ cursor < read
  /\ result' = [ok |-> TRUE, token |-> TokenAt(source, cursor)]
  /\ cursor' = cursor + 1
  /\ UNCHANGED <<source, read, floor, marks, cutOff>>

GetFresh ==
  /\ ~ cutOff /\ cursor = read /\ read <= SourceLength[source]
  /\ result' = [ok |-> TRUE, token |-> TokenAt(source, read)]
  /\ read' = read + 1
  /\ cursor' = cursor + 1
  /\ floor' \in Forget(floor, cursor', marks, read')
  /\ UNCHANGED <<source, marks, cutOff>>

GetPastEOF ==
  /\ ~ cutOff /\ cursor = read /\ read = SourceLength[source] + 1
  /\ result' = [ok |-> TRUE, token |-> TokenAt(source, read - 1)]
  /\ UNCHANGED <<source, read, cursor, floor, marks, cutOff>>

Next ==
  \/ \E src \in Sources \union {NullSource} : Attach(src)
  \/ \E i \in Indexes : Mark(i) \/ Unmark(i) \/ Seek(i) \/ SeekBack(i)
  \/ \E i \in Indexes, limit \in Lengths : Rewind(i, limit)
  \/ \E limit \in Lengths : ToEnd(limit) \/ Limit(limit)
  \/ UnmarkAll
  \/ GetCutOff \/ GetBuffered \/ GetFresh \/ GetPastEOF

Spec == Init /\ [][Next]_vars
=============================================================================
