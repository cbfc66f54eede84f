-------------------------------- MODULE DFAGen --------------------------------
(****************************************************************************)
(* Deterministic automata as tables (src/src/ParserGen/DFAGen.cpp).  States *)
(* are numbered from 0 as in the code; the columns of a table are those     *)
(* that CharTable gives to the characters.                                  *)
(****************************************************************************)
EXTENDS NFA

EmptyTransition == -1

\* CharTable, TransitionTable, AcceptStates and ExpressionStartStates.
Table(chars, rows, accept, starts) ==
  [chars |-> chars, rows |-> rows, accept |-> accept, starts |-> starts]

NoDFA == Table(<<>>, <<>>, <<>>, <<>>)

IsValid(dfa) == dfa.rows # <<>>

CharCount(dfa) == Cardinality(DOMAIN dfa.chars)

\* Every character of the automaton, the empty one too, gets a column.
CharTable(heap, nfa) ==
  LET used  == UNION {{heap[n].links[k].on : k \in DOMAIN heap[n].links} : n \in Graph(heap, nfa)}
      order == Ascending(used)
  IN  [c \in used |-> (CHOOSE k \in DOMAIN order : order[k] = c) - 1]

EmptyRow(dfa) == [k \in 0 .. CharCount(dfa) - 1 |-> EmptyTransition]

\* A character without a column, or a column the row does not have.
GetTransitionState(dfa, state, c) ==
  IF c \notin DOMAIN dfa.chars \/ dfa.chars[c] \notin DOMAIN dfa.rows[state + 1] THEN EmptyTransition
  ELSE dfa.rows[state + 1][dfa.chars[c]]

GetAcceptState(dfa, state) == dfa.accept[state + 1]

\* The nodes behind empty links of one node that are not in the list, without repeats.
Unlisted(heap, nodes, n) ==
  LET links == SelectSeq(heap[n].links, LAMBDA l : l.on = Epsilon /\ l.to \notin ToSet(nodes))
      first == SelectSeq([k \in DOMAIN links |-> k],
                         LAMBDA k : \A j \in 1 .. k - 1 : links[j].to # links[k].to)
  IN  [k \in DOMAIN first |-> links[first[k]].to]

\* The nodes, followed by those that empty links lead to, in the order they are met:
\* the list after its first so many nodes were looked at.
EpsilonClosure(heap, nodes) ==
  LET most == Len(nodes) + Len(heap)
      listed[pos \in 0 .. most] ==
        IF pos = 0 THEN nodes
        ELSE CHOOSE longer \in
               {IF pos > Len(list) THEN list ELSE list \o Unlisted(heap, list, list[pos]) :
                  list \in {listed[pos - 1]}} : TRUE
  IN  listed[most]

\* The sequence in order; equal elements stay.
Sorted(nodes) ==
  LET place(i) == Cardinality({j \in DOMAIN nodes : \/ nodes[j] < nodes[i]
                                                    \/ nodes[j] = nodes[i] /\ j < i})
  IN  [k \in DOMAIN nodes |-> nodes[CHOOSE i \in DOMAIN nodes : place(i) = k - 1]]

Targets(heap, nodes, c) ==
  Sorted(FlattenSeq([i \in DOMAIN nodes |->
    LET on == SelectSeq(heap[nodes[i]].links, LAMBDA l : l.on = c)
    IN  [k \in DOMAIN on |-> on[k].to]]))

\* Where the nodes lead on a character; a node two links lead to is there twice.
Move(heap, nodes, c) ==
  CHOOSE next \in {EpsilonClosure(heap, to) : to \in {Targets(heap, nodes, c)}} : TRUE

\* The lexemes a set of nodes accepts.
Accepted(heap, nodes) == {heap[n].accept : n \in ToSet(nodes)} \ {0}

Highest(ids) == CHOOSE i \in ids : \A j \in ids : j <= i

\* Of several the highest is kept.
AcceptState(heap, nodes) ==
  IF Accepted(heap, nodes) = {} THEN 0 ELSE Highest(Accepted(heap, nodes))

\* The notes "Lexeme .. takes precedence over ..": each id that differs from the best
\* before it, with that one.  The ids are as they index lexemes[].
PrecedenceNotes(heap, nodes) ==
  LET ids     == SelectSeq([k \in DOMAIN nodes |-> heap[nodes[k]].accept], LAMBDA id : id # 0)
      best(k) == Highest({ids[j] : j \in 1 .. k - 1})
  IN  {IF ids[k] > best(k) THEN <<ids[k], best(k)>> ELSE <<best(k), ids[k]>> :
         k \in {j \in 2 .. Len(ids) : ids[j] # best(j)}}

\* Fault: the columns of the second table are not those of the first.
FaultyCombine(a, b) ==
  LET moved(row) == [k \in DOMAIN row |-> IF row[k] = EmptyTransition THEN row[k] ELSE row[k] + Len(a.rows)]
  IN  Table(a.chars, a.rows \o [s \in DOMAIN b.rows |-> moved(b.rows[s])],
            a.accept \o b.accept, Append(a.starts, Len(a.rows)))

\* The second automaton is put behind the first, as one more expression.
Combine(a, b) ==
  LET fresh == Ascending(DOMAIN b.chars \ DOMAIN a.chars)
      place(c) == IF c \in DOMAIN a.chars THEN a.chars[c]
                  ELSE CharCount(a) + (CHOOSE k \in DOMAIN fresh : fresh[k] = c) - 1
      chars == [c \in DOMAIN a.chars \cup DOMAIN b.chars |-> place(c)]
      width == 0 .. Cardinality(DOMAIN chars) - 1
      wider(row) == [k \in width |-> IF k \in DOMAIN row THEN row[k] ELSE EmptyTransition]
      moved(s) == [k \in width |->
                     LET on == {c \in DOMAIN b.chars : chars[c] = k
                                                      /\ GetTransitionState(b, s - 1, c) # EmptyTransition}
                     IN  IF on = {} THEN EmptyTransition
                         ELSE GetTransitionState(b, s - 1, CHOOSE c \in on : TRUE) + Len(a.rows)]
  IN  Table(chars,
            [s \in DOMAIN a.rows |-> wider(a.rows[s])] \o [s \in DOMAIN b.rows |-> moved(s)],
            a.accept \o b.accept,
            a.starts \o [k \in DOMAIN b.starts |-> b.starts[k] + Len(a.rows)])

\* CT_CombineDuplicate: columns that are the same in every state become one, and
\* the columns that are left are numbered in their order.
CombineDuplicate(dfa) ==
  LET columns == DOMAIN dfa.rows[1]
      same(i, j) == \A s \in DOMAIN dfa.rows : dfa.rows[s][i] = dfa.rows[s][j]
      least(i) == CHOOSE j \in columns : same(i, j) /\ \A k \in columns : same(i, k) => j <= k
      kept == Ascending({i \in columns : least(i) = i})
  IN  [dfa EXCEPT !.chars = [c \in DOMAIN @ |->
                               (CHOOSE k \in DOMAIN kept : kept[k] = least(@[c])) - 1],
                  !.rows  = [s \in DOMAIN @ |-> [k \in 0 .. Len(kept) - 1 |-> @[s][kept[k + 1]]]]]

\* CT_RemoveEmpty: the row of a state without transitions is dropped.
RemoveEmpty(dfa) ==
  [dfa EXCEPT !.rows = [s \in DOMAIN @ |->
     IF \A k \in DOMAIN @[s] : @[s][k] = EmptyTransition THEN <<>> ELSE @[s]]]

\* The lexeme a string is accepted as, 0 when it is not: TestString, from a start state.
TestString(dfa, state, word) ==
  LET reached[k \in 0 .. Len(word)] ==
        IF k = 0 THEN state
        ELSE CHOOSE to \in
               {IF from = EmptyTransition THEN from ELSE GetTransitionState(dfa, from, word[k]) :
                  from \in {reached[k - 1]}} : TRUE
      last == reached[Len(word)]
  IN  IF last = EmptyTransition THEN 0 ELSE GetAcceptState(dfa, last)

=============================================================================
