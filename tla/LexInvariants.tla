----------------------------- MODULE LexInvariants -----------------------------
(****************************************************************************)
(* Who owns the nodes of the automata that Lex builds, and the inductive    *)
(* invariant that shows it.                                                 *)
(****************************************************************************)
EXTENDS Lex

IsNFA(value) == "start" \in DOMAIN value

\* An automaton where it is kept.
Owner(kind, key, nfa) == [of |-> <<kind, key>>, nfa |-> nfa]

StackOwners(values) == {Owner("stack", k, values[k]) : k \in {j \in DOMAIN values : IsNFA(values[j])}}
MacroOwners(nfas)   == {Owner("macro", m, nfas[m]) : m \in DOMAIN nfas}
LexemeOwners(list)  == {Owner("lexeme", k, list[k]) : k \in DOMAIN list}
CombinedOwners(nfa) == IF nfa.start = 0 THEN {} ELSE {Owner("combined", 1, nfa)}

Owners ==
  StackOwners(stack) \cup MacroOwners(macroNFAs) \cup LexemeOwners(lexemeNFAs)
    \cup CombinedOwners(combined)

Finished == phase \in {"done", "compressed"}

\* "A list of all final states.  Redundant with the tree" (NFA.h:150): the final
\* states of an automaton are nodes of its graph.
FinalsInTree == \A o \in Owners : ToSet(o.nfa.final) \subseteq Graph(heap, o.nfa)

\* No set of characters and no expression was empty: the start node made for one leads
\* nowhere and does not accept, and the nodes behind it are in no graph, whatever is
\* built from it.
AllLeadOn(nodes) == \A n \in DOMAIN nodes : nodes[n].links # <<>> \/ nodes[n].accept # 0

NoEmptySet == AllLeadOn(heap)

\* Then no macro has a final state that its copies miss.
CopiesWhole == NoEmptySet => phase # "crashed"

\* Every node is owned by one automaton and freed with it: no operation leaves two
\* automata sharing nodes or freed nodes in a graph.  Unless a set of characters was
\* empty, the final states of an automaton are in its graph and every macro can be
\* copied, and unless a regular expression failed too, there is no node that nobody
\* will free, and at the end no node.  (NFA.h: "Contents of parameter NFAs are emptied
\* for MoveData, Concat, Or, and Kleene".)
NodesOwnedOnce ==
  LET graph(o) == Graph(heap, o.nfa)
      live     == {n \in DOMAIN heap : heap[n].live}
      owned    == UNION {graph(o) : o \in Owners}
  IN  /\ \A o, p \in Owners : o # p => graph(o) \cap graph(p) = {}
      /\ owned \subseteq live
      /\ NoEmptySet => FinalsInTree
      /\ NoEmptySet /\ errors = 0 => live = owned
      /\ NoEmptySet /\ errors = 0 /\ Finished => live = {}
      /\ CopiesWhole

----------------------------------------------------------------------------
\* The inductive invariant

IsNode(node) == node = [live |-> node.live, accept |-> node.accept, links |-> node.links]

\* A heap of nodes, the links of which stay on it.
HeapOK(nodes) ==
  /\ IsSequence(nodes)
  /\ \A n \in DOMAIN nodes :
       /\ IsNode(nodes[n])
       /\ nodes[n].live \in BOOLEAN
       /\ LinkedFrom(nodes, n) \subseteq DOMAIN nodes

\* What belongs to an automaton: its graph, and its final states wherever they are.
Claims(nodes, nfa) == Graph(nodes, nfa) \cup ToSet(nfa.final)

AutomatonOK(nodes, nfa) ==
  /\ nfa = Automaton(nfa.lexeme, nfa.start, nfa.final)
  /\ nfa.start \in DOMAIN nodes
  /\ \A f \in ToSet(nfa.final) :
       f \in DOMAIN nodes /\ nodes[f].accept # 0 /\ nodes[f].links = <<>>
  /\ \A n \in Claims(nodes, nfa) : nodes[n].live
  /\ AllLeadOn(nodes) => ToSet(nfa.final) \subseteq Graph(nodes, nfa)

\* The owners share nothing.
Sound(nodes, owners) ==
  /\ HeapOK(nodes)
  /\ \A o \in owners : AutomatonOK(nodes, o.nfa)
  /\ \A o, p \in owners : o # p => Claims(nodes, o.nfa) \cap Claims(nodes, p.nfa) = {}

\* Every node that is not freed has an owner.
NothingLost(nodes, owners) ==
  AllLeadOn(nodes) =>
    \A n \in DOMAIN nodes : nodes[n].live => \E o \in owners : n \in Graph(nodes, o.nfa)

\* Until the lexemes of an expression are combined an automaton has one final state.
OneFinal(nfa) == nfa.final = <<nfa.final[1]>> /\ nfa.lexeme # 0

OneFinalEach ==
  /\ \A k \in DOMAIN stack : IsNFA(stack[k]) => OneFinal(stack[k])
  /\ \A m \in DOMAIN macroNFAs : OneFinal(macroNFAs[m])
  /\ \A k \in DOMAIN lexemeNFAs : OneFinal(lexemeNFAs[k])

\* A list of characters is on top of the stack.
ListOnTop == IF position > 0 /\ RegExp[position].prod \in ListBegins \cup ListGoesOn THEN 1 ELSE 0

\* The stack has the values that the reductions so far leave.
StackShape ==
  /\ IsSequence(stack)
  /\ Parsing =>
       /\ position \in 0 .. Len(RegExp)
       /\ position > 0 => RegExp[position].prod # "error"
       /\ Len(stack) = AutomataAfter(RegExp, position) + ListOnTop
       /\ Len(stack) >= ListOnTop
       /\ \A k \in 1 .. Len(stack) - ListOnTop : IsNFA(stack[k])
       /\ ListOnTop = 1 => ~IsNFA(Top)
  /\ ~Parsing /\ phase # "crashed" => stack = <<>>
  /\ ~Parsing /\ phase \notin {"crashed", "failed"} => position = 0

\* Which automata there are while each loop runs.
Phases ==
  /\ input \in Inputs
  /\ phase \in {"convert", "macro", "lexeme", "move", "done", "compressed", "failed", "crashed"}
  /\ index \in Nat \ {0} /\ expression \in Nat \ {0} /\ errors \in Nat
  /\ IsSequence(lexemeNFAs)
  /\ phase = "convert" => index = 1 /\ DOMAIN macroNFAs = {} /\ heap = <<>>
  /\ phase \in {"convert", "macro"} => expression = 1
  /\ phase \notin {"lexeme", "crashed"} => lexemeNFAs = <<>>
  /\ phase = "macro" =>
       \A name \in DOMAIN macroNFAs : \E m \in 1 .. index - 1 : input.macros[m].name = name
  /\ phase = "lexeme" =>
       IF expression <= Len(Expressions) THEN Expressions[expression].start < index
       ELSE lexemeNFAs = <<>>
  /\ phase \in {"done", "compressed"} => DOMAIN macroNFAs = {}
  /\ combined.start # 0 <=> phase = "move"
  /\ phase = "failed" => errors > 0

IInv ==
  /\ Phases /\ StackShape /\ OneFinalEach
  /\ Sound(heap, Owners)
  /\ errors = 0 => NothingLost(heap, Owners)

=============================================================================
