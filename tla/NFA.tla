--------------------------------- MODULE NFA ---------------------------------
(****************************************************************************)
(* Nondeterministic automata as graphs of nodes on a heap                   *)
(* (src/src/ParserGen/NFA.cpp).  The operations take a heap and automata    *)
(* and give the heap after them and the automaton they leave behind, [heap, *)
(* nfa].  A node is known by its place on the heap, which stands for its    *)
(* address; 0 is the null pointer.                                          *)
(****************************************************************************)
EXTENDS Integers, Sequences, FiniteSets, SequencesExt

Epsilon == 0
InvalidLexeme == -1  \* unsigned(-1): an accepting id that no lexeme has

\* A node: AcceptingState, and LinkChar with LinkPtr.
Node(accept, links) == [live |-> TRUE, accept |-> accept, links |-> links]

Link(c, node) == [on |-> c, to |-> node]

\* An automaton: LexemeId, pStartState and FinalState.
Automaton(lexeme, start, final) == [lexeme |-> lexeme, start |-> start, final |-> final]

\* The numbers of a set in their order.
Ascending(set) ==
  [k \in 1 .. Cardinality(set) |-> CHOOSE n \in set : Cardinality({m \in set : m < n}) = k - 1]

Empty(lexeme) == Automaton(lexeme, 0, <<>>)

\* One start node with a link on every character of the list to one accepting node.
CreateChars(heap, chars, lexeme) ==
  LET start == Len(heap) + 1
      final == Len(heap) + 2
  IN  [heap |-> heap \o <<Node(0, [k \in DOMAIN chars |-> Link(chars[k], final)]), Node(lexeme, <<>>)>>,
       nfa  |-> Automaton(lexeme, start, <<final>>)]

LinkedFrom(heap, n) == {heap[n].links[k].to : k \in DOMAIN heap[n].links}

Extended(heap, nodes) == nodes \cup UNION {LinkedFrom(heap, n) : n \in nodes}

\* The nodes that a node leads to, itself among them: those within as many links as
\* there are nodes.  (The bound variable makes TLC compute a set once.)
TraverseGraph(heap, seed) ==
  LET within[k \in 0 .. Len(heap)] ==
        IF k = 0 THEN {seed} ELSE UNION {Extended(heap, nearer) : nearer \in {within[k - 1]}}
  IN  within[Len(heap)]

Graph(heap, nfa) == IF nfa.start = 0 THEN {} ELSE TraverseGraph(heap, nfa.start)

\* Destroy of each of the automata.
Destroyed(heap, nfas) ==
  LET freed == UNION {Graph(heap, nfa) : nfa \in nfas}
  IN  [n \in DOMAIN heap |-> IF n \in freed THEN [heap[n] EXCEPT !.live = FALSE] ELSE heap[n]]

\* A final state that is not part of the graph has no copy.
CanCopy(heap, nfa) == nfa.start # 0 /\ ToSet(nfa.final) \subseteq Graph(heap, nfa)

\* Fault: the copy is the graph itself.
FaultyCopy(heap, nfa, lexeme) ==
  [heap |-> [n \in DOMAIN heap |-> IF n \in ToSet(nfa.final) THEN [heap[n] EXCEPT !.accept = lexeme]
                                   ELSE heap[n]],
   nfa  |-> [nfa EXCEPT !.lexeme = lexeme]]

\* A copy of the graph; its final states accept the new lexeme.
Copy(heap, nfa, lexeme) ==
  CHOOSE outcome \in
    {LET new(n) == Len(heap) + (CHOOSE k \in DOMAIN graph : graph[k] = n)
         copy(n) == [heap[n] EXCEPT
                       !.accept = IF n \in ToSet(nfa.final) /\ @ # 0 THEN lexeme ELSE @,
                       !.links  = [k \in DOMAIN @ |-> Link(@[k].on, new(@[k].to))]]
     IN  [heap |-> heap \o [k \in DOMAIN graph |-> copy(graph[k])],
          nfa  |-> Automaton(lexeme, new(nfa.start), [k \in DOMAIN nfa.final |-> new(nfa.final[k])])] :
       graph \in {Ascending(Graph(heap, nfa))}} : TRUE

\* The nodes get empty links to the targets and accept no more.
Retired(heap, nodes, targets) ==
  [n \in DOMAIN heap |->
     IF n \in ToSet(nodes)
     THEN [heap[n] EXCEPT !.accept = 0,
                          !.links = @ \o [k \in DOMAIN targets |-> Link(Epsilon, targets[k])]]
     ELSE heap[n]]

\* Fault: the old final states go on accepting.
FaultyConcat(heap, a, b) ==
  LET start == Len(heap) + 1
      final == Len(heap) + 2
      linked == [n \in DOMAIN heap |->
                   IF n \in ToSet(a.final)
                   THEN [heap[n] EXCEPT !.links = Append(@, Link(Epsilon, b.start))]
                   ELSE heap[n]]
  IN  [heap |-> Retired(linked \o <<Node(0, <<Link(Epsilon, a.start)>>), Node(a.lexeme, <<>>)>>,
                        b.final, <<final>>),
       nfa  |-> Automaton(a.lexeme, start, <<final>> \o a.final)]

Concat(heap, a, b) ==
  LET start  == Len(heap) + 1
      final  == Len(heap) + 2
      joined == IF a.start = 0 THEN heap ELSE Retired(heap, a.final, <<b.start>>)
      first  == IF a.start = 0 THEN b.start ELSE a.start
  IN  IF first = 0 THEN [heap |-> heap, nfa |-> a]
      ELSE [heap |-> Retired(joined \o <<Node(0, <<Link(Epsilon, first)>>), Node(a.lexeme, <<>>)>>,
                             b.final, <<final>>),
            nfa  |-> Automaton(a.lexeme, start, <<final>>)]

\* A link to the start of an automaton that has one.
LinkTo(nfa) == IF nfa.start = 0 THEN <<>> ELSE <<Link(Epsilon, nfa.start)>>

Or(heap, a, b) ==
  LET start == Len(heap) + 1
      final == Len(heap) + 2
      links == LinkTo(a) \o LinkTo(b)
  IN  IF links = <<>> THEN [heap |-> heap, nfa |-> a]
      ELSE [heap |-> Retired(heap, a.final \o b.final, <<final>>)
                       \o <<Node(0, links), Node(a.lexeme, <<>>)>>,
            nfa  |-> Automaton(a.lexeme, start, <<final>>)]

\* The types "empty", "back" and "both" are the operators ?, + and *.
Kleene(heap, a, type) ==
  LET start == Len(heap) + 1
      final == Len(heap) + 2
      skip  == IF type = "back" THEN <<>> ELSE <<Link(Epsilon, final)>>
      again == IF type = "empty" THEN <<>> ELSE <<a.start>>
  IN  IF a.start = 0 THEN [heap |-> heap, nfa |-> a]
      ELSE [heap |-> Retired(heap, a.final, <<final>> \o again)
                       \o <<Node(0, Append(skip, Link(Epsilon, a.start))), Node(a.lexeme, <<>>)>>,
            nfa  |-> Automaton(a.lexeme, start, <<final>>)]

\* One start node for all of the list; their final states stay final.
CombineNFAs(heap, list) ==
  [heap |-> Append(heap, Node(0, [k \in DOMAIN list |-> Link(Epsilon, list[k].start)])),
   nfa  |-> Automaton(1, Len(heap) + 1, FlattenSeq([k \in DOMAIN list |-> list[k].final]))]

=============================================================================
