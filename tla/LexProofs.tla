------------------------------- MODULE LexProofs -------------------------------
(***************************************************************************)
(* Proofs about the nodes of the automata that Lex builds, for all lexemes *)
(* and all alphabets: no automaton has a node of another one or a node     *)
(* that was freed, and no node is forgotten.                               *)
(***************************************************************************)
EXTENDS LexInvariants, FiniteSetTheorems, SequenceTheorems, WellFoundedInduction, TLAPS

(***************************************************************************)
(* The graph of a node                                                     *)
(***************************************************************************)

\* A set of numbers that is not empty has a least one.
LEMMA LeastOf ==
  ASSUME NEW T, T \subseteq Nat, T # {}
  PROVE  \E m \in T : \A k \in T : m <= k
<1> DEFINE R == OpToRel(<, Nat)
<1>1. IsWellFoundedOn(R, Nat)
  BY NatLessThanWellFounded
<1>2. PICK x \in T : \A y \in T : ~ (<<y, x>> \in R)
  <2> HIDE DEF R
  <2> QED BY <1>1, WFMin
<1>3. \A y \in T : ~ (y < x)
  BY <1>2 DEF OpToRel
<1> QED
  <2> HIDE DEF R
  <2> QED BY <1>2, <1>3

\* The sets that TraverseGraph goes through.
Traversal(nodes, seed, m, f) ==
  f = [k \in 0 .. m |-> IF k = 0 THEN {seed} ELSE UNION {Extended(nodes, nearer) : nearer \in {f[k - 1]}}]

\* There are such sets.
LEMMA TraversalExists ==
  ASSUME NEW nodes, NEW seed, NEW m \in Nat
  PROVE  \E f : Traversal(nodes, seed, m, f)
<1> DEFINE Step(s) == UNION {Extended(nodes, nearer) : nearer \in {s}}
           T == {k \in Nat : ~ \E f : Traversal(nodes, seed, k, f)}
<1>1. SUFFICES ASSUME T # {} PROVE FALSE
  OBVIOUS
<1>2. PICK n \in T : \A k \in T : n <= k
  <2>1. T \subseteq Nat
    OBVIOUS
  <2> HIDE DEF T
  <2> QED BY <1>1, <2>1, LeastOf
<1>3. CASE n = 0
  <2> DEFINE f == [k \in 0 .. 0 |-> {seed}]
  <2>1. Traversal(nodes, seed, 0, f)
    BY DEF Traversal
  <2> QED BY <1>2, <1>3, <2>1
<1>4. CASE n # 0
  <2>1. n \in Nat /\ n - 1 \in Nat /\ ~ (n <= n - 1)
    BY <1>2, <1>4
  <2>2. PICK g : Traversal(nodes, seed, n - 1, g)
    BY <1>2, <2>1
  <2> DEFINE f == [k \in 0 .. n |-> IF k = n THEN Step(g[n - 1]) ELSE g[k]]
  <2>3. ASSUME NEW k \in 0 .. n
        PROVE  f[k] = IF k = 0 THEN {seed} ELSE Step(f[k - 1])
    <3>1. \A j \in 0 .. (n - 1) : g[j] = IF j = 0 THEN {seed} ELSE Step(g[j - 1])
      BY <2>2 DEF Traversal
    <3>2. k # 0 => k - 1 \in 0 .. (n - 1) /\ k - 1 \in 0 .. n /\ k - 1 # n
      BY <2>1
    <3>3. k # 0 => f[k - 1] = g[k - 1]
      BY <3>2
    <3>4. k # n => k \in 0 .. (n - 1) /\ f[k] = g[k]
      BY <2>1
    <3>5. k = n => f[k] = Step(g[k - 1])
      OBVIOUS
    <3> HIDE DEF f, Step
    <3> QED BY <1>4, <3>1, <3>3, <3>4, <3>5
  <2>4. Traversal(nodes, seed, n, f)
    BY <2>3 DEF Traversal
  <2> QED BY <1>2, <2>4
<1> QED BY <1>3, <1>4

\* The graph is the last of them.
Steps(nodes, seed, f) ==
  /\ TraverseGraph(nodes, seed) = f[Len(nodes)]
  /\ f[0] = {seed}
  /\ \A k \in 1 .. Len(nodes) : f[k] = Extended(nodes, f[k - 1])

\* There are steps to it.
LEMMA TraversalSteps ==
  ASSUME NEW nodes, NEW seed, Len(nodes) \in Nat
  PROVE  \E f : Steps(nodes, seed, f)
<1> DEFINE m == Len(nodes)
           f == CHOOSE g : Traversal(nodes, seed, m, g)
<1>1. TraverseGraph(nodes, seed) = f[m]
  BY DEF TraverseGraph, Traversal
<1>2. Traversal(nodes, seed, m, f)
  <2>1. \E g : Traversal(nodes, seed, m, g)
    BY TraversalExists
  <2> HIDE DEF m
  <2> QED BY <2>1
<1>0. m \in Nat
  OBVIOUS
<1> DEFINE Step(s) == UNION {Extended(nodes, nearer) : nearer \in {s}}
<1> HIDE DEF f, m
<1>3. \A k \in 0 .. m : f[k] = IF k = 0 THEN {seed} ELSE Step(f[k - 1])
  BY <1>2 DEF Traversal
<1>7. \A s : Step(s) = Extended(nodes, s)
  OBVIOUS
<1> HIDE DEF Step
<1>4. \A k \in 1 .. m : f[k] = Extended(nodes, f[k - 1])
  BY <1>0, <1>3, <1>7
<1>5. f[0] = {seed}
  BY <1>0, <1>3
<1>6. Steps(nodes, seed, f)
  BY <1>1, <1>4, <1>5 DEF Steps, m
<1> QED BY <1>6

\* No link leads out of the set.
Closed(nodes, S) == \A n \in S : LinkedFrom(nodes, n) \subseteq S

\* Where no link leads out of a set that has the node, its graph is part of it.
LEMMA GraphLeast ==
  ASSUME NEW nodes, NEW seed, Len(nodes) \in Nat, NEW S, seed \in S, Closed(nodes, S)
  PROVE  TraverseGraph(nodes, seed) \subseteq S
<1>0. PICK f : Steps(nodes, seed, f)
  BY TraversalSteps
<1>1. /\ TraverseGraph(nodes, seed) = f[Len(nodes)]
      /\ f[0] = {seed}
      /\ \A k \in 1 .. Len(nodes) : f[k] = Extended(nodes, f[k - 1])
  BY <1>0 DEF Steps
<1> DEFINE T == {k \in 0 .. Len(nodes) : ~ (f[k] \subseteq S)}
<1>2. SUFFICES ASSUME T # {} PROVE FALSE
  BY <1>1
<1>3. PICK k \in T : \A j \in T : k <= j
  <2>1. T \subseteq Nat
    OBVIOUS
  <2> HIDE DEF T
  <2> QED BY <1>2, <2>1, LeastOf
<1>4. k # 0
  BY <1>1, <1>3
<1>5. k \in 1 .. Len(nodes) /\ f[k - 1] \subseteq S
  BY <1>3, <1>4
<1>6. Extended(nodes, f[k - 1]) \subseteq S
  BY <1>5 DEF Extended, Closed
<1> QED BY <1>1, <1>3, <1>5, <1>6

\* The node is in its graph.
LEMMA GraphHasSeed ==
  ASSUME NEW nodes, NEW seed, Len(nodes) \in Nat
  PROVE  seed \in TraverseGraph(nodes, seed)
<1>0. PICK f : Steps(nodes, seed, f)
  BY TraversalSteps
<1>1. /\ TraverseGraph(nodes, seed) = f[Len(nodes)]
      /\ f[0] = {seed}
      /\ \A k \in 1 .. Len(nodes) : f[k] = Extended(nodes, f[k - 1])
  BY <1>0 DEF Steps
<1> DEFINE T == {k \in 0 .. Len(nodes) : seed \notin f[k]}
<1>2. SUFFICES ASSUME T # {} PROVE FALSE
  BY <1>1
<1>3. PICK k \in T : \A j \in T : k <= j
  <2>1. T \subseteq Nat
    OBVIOUS
  <2> HIDE DEF T
  <2> QED BY <1>2, <2>1, LeastOf
<1>4. k # 0
  BY <1>1, <1>3
<1>5. k \in 1 .. Len(nodes) /\ seed \in f[k - 1]
  BY <1>3, <1>4
<1> QED BY <1>1, <1>3, <1>5 DEF Extended

\* No link leads out of a graph: a step that finds no node more is the last that
\* could, and there are no more steps that find one than nodes.
LEMMA GraphClosed ==
  ASSUME NEW nodes, HeapOK(nodes), NEW seed \in DOMAIN nodes
  PROVE  /\ TraverseGraph(nodes, seed) \subseteq DOMAIN nodes
         /\ Closed(nodes, TraverseGraph(nodes, seed))
<1> DEFINE m == Len(nodes)
<1>1. m \in Nat /\ DOMAIN nodes = 1 .. m
  BY LenProperties DEF HeapOK, IsSequence
<1> HIDE DEF m
<1>2. \A n \in DOMAIN nodes : LinkedFrom(nodes, n) \subseteq DOMAIN nodes
  BY DEF HeapOK
<1>3. TraverseGraph(nodes, seed) \subseteq DOMAIN nodes
  BY <1>1, <1>2, GraphLeast DEF Closed, m
<1>0. PICK f : Steps(nodes, seed, f)
  BY <1>1, TraversalSteps DEF m
<1>4. /\ TraverseGraph(nodes, seed) = f[m]
      /\ f[0] = {seed}
      /\ \A k \in 1 .. m : f[k] = Extended(nodes, f[k - 1])
  BY <1>0 DEF Steps, m
<1> DEFINE Fine(k) == /\ f[k] \subseteq 1 .. m
                      /\ Extended(nodes, f[k]) = f[k] \/ Cardinality(f[k]) >= k + 1
           T == {k \in 0 .. m : ~ Fine(k)}
<1>5. T = {}
  <2> SUFFICES ASSUME T # {} PROVE FALSE
    OBVIOUS
  <2>1. PICK k \in T : \A j \in T : k <= j
    <3>1. T \subseteq Nat
      BY <1>1
    <3> HIDE DEF T
    <3> QED BY <3>1, LeastOf
  <2>2. k \in 0 .. m /\ ~ Fine(k)
    BY <2>1
  <2>3. k # 0
    <3>1. Cardinality({seed}) = 1
      BY FS_Singleton
    <3>2. {seed} \subseteq 1 .. m
      BY <1>1
    <3>3. f[0] = {seed}
      BY <1>4
    <3>4. Fine(0)
      BY <3>1, <3>2, <3>3
    <3> HIDE DEF Fine
    <3> QED BY <2>2, <3>4
  <2>4. k - 1 \in 0 .. m /\ k - 1 \notin T /\ k \in 1 .. m
    BY <1>1, <2>1, <2>2, <2>3
  <2>5. Fine(k - 1)
    BY <2>4
  <2> DEFINE before == f[k - 1]
  <2>6. f[k] = Extended(nodes, before) /\ before \subseteq 1 .. m
    BY <1>4, <2>4, <2>5
  <2>7. CASE Extended(nodes, before) = before
    BY <2>2, <2>5, <2>6, <2>7
  <2>8. CASE Extended(nodes, before) # before
    <3>1. Cardinality(before) >= k
      <4>1. Cardinality(before) >= (k - 1) + 1
        BY <2>5, <2>8
      <4> QED BY <2>4, <4>1
    <3>2. f[k] \subseteq 1 .. m
      BY <1>1, <1>2, <2>6 DEF Extended
    <3>3. before \subseteq f[k] /\ before # f[k]
      BY <2>6, <2>8 DEF Extended
    <3>4. IsFiniteSet(1 .. m)
      BY <1>1, FS_Interval
    <3>5. IsFiniteSet(f[k]) /\ IsFiniteSet(before)
      BY <2>6, <3>2, <3>4, FS_Subset
    <3>6. /\ Cardinality(before) \in Nat /\ Cardinality(f[k]) \in Nat
          /\ Cardinality(before) < Cardinality(f[k])
      BY <3>3, <3>5, FS_Subset, FS_CardinalityType
    <3>7. Cardinality(f[k]) >= k + 1
      BY <2>4, <3>1, <3>6
    <3> QED BY <2>2, <3>2, <3>7
  <2> QED BY <2>7, <2>8
<1>6. Extended(nodes, f[m]) = f[m]
  <2>1. m \in 0 .. m
    BY <1>1
  <2>2. Fine(m)
    BY <1>5, <2>1
  <2>3. IsFiniteSet(1 .. m) /\ Cardinality(1 .. m) = m
    BY <1>1, FS_Interval
  <2>4. Cardinality(f[m]) <= m /\ Cardinality(f[m]) \in Nat
    BY <2>2, <2>3, FS_Subset, FS_CardinalityType
  <2> QED BY <1>1, <2>2, <2>4
<1> QED BY <1>3, <1>4, <1>6 DEF Extended, Closed

\* A heap is a sequence.
LEMMA HeapLength ==
  ASSUME NEW nodes, HeapOK(nodes)
  PROVE  Len(nodes) \in Nat /\ DOMAIN nodes = 1 .. Len(nodes)
BY LenProperties DEF HeapOK, IsSequence

\* The graph of an automaton is the least closed set that has its start node.
LEMMA GraphFacts ==
  ASSUME NEW nodes, HeapOK(nodes), NEW nfa, nfa.start \in DOMAIN nodes
  PROVE  /\ nfa.start \in Graph(nodes, nfa)
         /\ Graph(nodes, nfa) \subseteq DOMAIN nodes
         /\ Closed(nodes, Graph(nodes, nfa))
         /\ \A S : nfa.start \in S /\ Closed(nodes, S) => Graph(nodes, nfa) \subseteq S
<1>1. Len(nodes) \in Nat /\ nfa.start # 0
  BY HeapLength
<1>2. Graph(nodes, nfa) = TraverseGraph(nodes, nfa.start)
  BY <1>1 DEF Graph
<1>3. nfa.start \in TraverseGraph(nodes, nfa.start)
  BY <1>1, GraphHasSeed
<1>4. /\ TraverseGraph(nodes, nfa.start) \subseteq DOMAIN nodes
      /\ Closed(nodes, TraverseGraph(nodes, nfa.start))
  BY GraphClosed
<1>5. ASSUME NEW S, nfa.start \in S, Closed(nodes, S)
      PROVE  TraverseGraph(nodes, nfa.start) \subseteq S
  BY <1>1, <1>5, GraphLeast
<1> QED BY <1>2, <1>3, <1>4, <1>5

\* Only the nodes there are count when a set is shown to be closed.
LEMMA GraphInside ==
  ASSUME NEW nodes, HeapOK(nodes), NEW nfa, nfa.start \in DOMAIN nodes,
         NEW S, nfa.start \in S,
         \A n \in S : n \in DOMAIN nodes => LinkedFrom(nodes, n) \subseteq S
  PROVE  Graph(nodes, nfa) \subseteq S
<1> DEFINE within == S \cap DOMAIN nodes
<1>1. Closed(nodes, within)
  BY DEF Closed, HeapOK
<1>2. nfa.start \in within
  OBVIOUS
<1> HIDE DEF within
<1>3. Graph(nodes, nfa) \subseteq within
  BY <1>1, <1>2, GraphFacts
<1> QED BY <1>3 DEF within

\* A graph is the same on a heap that has the same nodes in it.
LEMMA GraphAgrees ==
  ASSUME NEW old, HeapOK(old), NEW new, HeapOK(new), Len(old) <= Len(new),
         NEW nfa, nfa.start \in DOMAIN old,
         \A n \in Graph(old, nfa) : new[n].links = old[n].links
  PROVE  Graph(new, nfa) = Graph(old, nfa)
<1>1. nfa.start \in DOMAIN new
  BY HeapLength
<1>2. \A n \in Graph(old, nfa) : LinkedFrom(new, n) = LinkedFrom(old, n)
  BY DEF LinkedFrom
<1>3. Closed(new, Graph(old, nfa)) /\ nfa.start \in Graph(old, nfa)
  <2>1. Closed(old, Graph(old, nfa)) /\ nfa.start \in Graph(old, nfa)
    BY GraphFacts
  <2> QED BY <1>2, <2>1 DEF Closed
<1>4. Graph(new, nfa) \subseteq Graph(old, nfa)
  BY <1>1, <1>3, GraphFacts
<1>5. Closed(new, Graph(new, nfa)) /\ nfa.start \in Graph(new, nfa)
  BY <1>1, GraphFacts
<1>6. Closed(old, Graph(new, nfa))
  BY <1>2, <1>4, <1>5 DEF Closed
<1>7. Graph(old, nfa) \subseteq Graph(new, nfa)
  BY <1>5, <1>6, GraphFacts
<1> QED BY <1>4, <1>7

\* An automaton stays what it is when its nodes do.
LEMMA AutomatonKept ==
  ASSUME NEW old, HeapOK(old), NEW new, HeapOK(new), Len(old) <= Len(new),
         AllLeadOn(new) => AllLeadOn(old),
         NEW nfa, AutomatonOK(old, nfa),
         \A n \in Claims(old, nfa) : new[n] = old[n]
  PROVE  /\ AutomatonOK(new, nfa)
         /\ Graph(new, nfa) = Graph(old, nfa)
         /\ Claims(new, nfa) = Claims(old, nfa)
<1>1. nfa.start \in DOMAIN old
  BY DEF AutomatonOK
<1>2. DOMAIN old \subseteq DOMAIN new
  BY HeapLength
<1>3. Graph(new, nfa) = Graph(old, nfa)
  BY <1>1, GraphAgrees DEF Claims
<1>4. Claims(new, nfa) = Claims(old, nfa)
  BY <1>3 DEF Claims
<1>5. ToSet(nfa.final) \subseteq Claims(old, nfa)
  BY DEF Claims
<1>6. AutomatonOK(new, nfa)
  BY <1>2, <1>3, <1>4, <1>5 DEF AutomatonOK
<1> QED BY <1>3, <1>4, <1>6

(***************************************************************************)
(* Owners                                                                  *)
(***************************************************************************)

\* The nodes of some owners.
Nodes(nodes, owners) == UNION {Claims(nodes, o.nfa) : o \in owners}

\* The owners that are not used keep their nodes.
LEMMA OthersKept ==
  ASSUME NEW old, NEW owners, Sound(old, owners), NEW used, used \subseteq owners,
         NEW new, HeapOK(new), Len(old) <= Len(new),
         AllLeadOn(new) => AllLeadOn(old),
         \A n \in DOMAIN old \ Nodes(old, used) : new[n] = old[n],
         NEW o \in owners \ used
  PROVE  /\ AutomatonOK(new, o.nfa)
         /\ Graph(new, o.nfa) = Graph(old, o.nfa)
         /\ Claims(new, o.nfa) = Claims(old, o.nfa)
         /\ Claims(old, o.nfa) \subseteq DOMAIN old
         /\ Claims(old, o.nfa) \cap Nodes(old, used) = {}
<1>1. HeapOK(old) /\ AutomatonOK(old, o.nfa)
  BY DEF Sound
<1>2. Claims(old, o.nfa) \subseteq DOMAIN old
  <2>1. Graph(old, o.nfa) \subseteq DOMAIN old
    BY <1>1, GraphFacts DEF AutomatonOK
  <2> QED BY <1>1, <2>1 DEF AutomatonOK, Claims
<1>3. Claims(old, o.nfa) \cap Nodes(old, used) = {}
  BY DEF Sound, Nodes
<1>4. \A n \in Claims(old, o.nfa) : new[n] = old[n]
  BY <1>2, <1>3
<1> QED BY <1>1, <1>2, <1>3, <1>4, AutomatonKept

\* Some owners are replaced by one, which takes over their nodes and new ones only.
LEMMA Replaced ==
  ASSUME NEW old, NEW owners, Sound(old, owners), NEW used, used \subseteq owners,
         NEW new, HeapOK(new), Len(old) <= Len(new),
         AllLeadOn(new) => AllLeadOn(old),
         \A n \in DOMAIN old \ Nodes(old, used) : new[n] = old[n],
         NEW owner, AutomatonOK(new, owner.nfa),
         Claims(new, owner.nfa) \cap DOMAIN old \subseteq Nodes(old, used)
  PROVE  Sound(new, (owners \ used) \cup {owner})
<1> DEFINE others == owners \ used
<1>1. \A o \in others : /\ AutomatonOK(new, o.nfa)
                        /\ Claims(new, o.nfa) = Claims(old, o.nfa)
                        /\ Claims(old, o.nfa) \subseteq DOMAIN old
                        /\ Claims(old, o.nfa) \cap Nodes(old, used) = {}
  BY OthersKept
<1>2. \A o \in others : Claims(new, o.nfa) \cap Claims(new, owner.nfa) = {}
  BY <1>1
<1>3. \A o, p \in others : o # p => Claims(new, o.nfa) \cap Claims(new, p.nfa) = {}
  BY <1>1 DEF Sound
<1> HIDE DEF others
<1>4. Sound(new, others \cup {owner})
  BY <1>1, <1>2, <1>3 DEF Sound
<1> QED BY <1>4 DEF others

\* Nothing is lost if the new one has all that the used ones had, and all that is new.
LEMMA ReplacedAll ==
  ASSUME NEW old, NEW owners, Sound(old, owners), NEW used, used \subseteq owners,
         NEW new, HeapOK(new), Len(old) <= Len(new),
         AllLeadOn(new) => AllLeadOn(old),
         \A n \in DOMAIN old \ Nodes(old, used) : new[n] = old[n],
         NEW owner,
         AllLeadOn(new) =>
           \A n \in DOMAIN new : new[n].live /\ (n \in DOMAIN old => n \in Nodes(old, used)) =>
             n \in Graph(new, owner.nfa),
         NothingLost(old, owners)
  PROVE  NothingLost(new, (owners \ used) \cup {owner})
<1> SUFFICES ASSUME AllLeadOn(new), NEW n \in DOMAIN new, new[n].live
             PROVE  \E o \in (owners \ used) \cup {owner} : n \in Graph(new, o.nfa)
  BY DEF NothingLost
<1>1. CASE n \in DOMAIN old => n \in Nodes(old, used)
  BY <1>1
<1>2. CASE n \in DOMAIN old \ Nodes(old, used)
  <2>1. PICK o \in owners : n \in Graph(old, o.nfa)
    BY <1>2 DEF NothingLost
  <2>2. o \notin used
    BY <1>2, <2>1 DEF Nodes, Claims
  <2>3. Graph(new, o.nfa) = Graph(old, o.nfa)
    BY <2>2, OthersKept
  <2> QED BY <2>1, <2>2, <2>3
<1> QED BY <1>1, <1>2

(***************************************************************************)
(* The operations on automata                                              *)
(***************************************************************************)

FinalsOf(nfas) == UNION {ToSet(a.final) : a \in nfas}

StartsOf(nfas) == {a.start : a \in nfas}

ClaimsOf(nodes, nfas) == UNION {Claims(nodes, a) : a \in nfas}

\* A node that accepts no more.
StopsAccepting(node, after) == IsNode(after) /\ after.live = node.live /\ after.accept = 0

\* Automata become one: there is a new start node and a new final state, the final
\* states of the automata link to the new one and to their starts and accept no more,
\* and the rest of the heap is as before.
Glued(old, nfas, new, nfa) ==
  /\ IsSequence(new) /\ Len(new) = Len(old) + 2
  /\ nfa = Automaton(nfa.lexeme, Len(old) + 1, <<Len(old) + 2>>) /\ nfa.lexeme # 0
  /\ new[Len(old) + 2] = Node(nfa.lexeme, <<>>)
  /\ new[Len(old) + 1] = Node(0, new[Len(old) + 1].links)
  /\ \A n \in {Len(old) + 1} \cup FinalsOf(nfas) :
       LinkedFrom(new, n) \subseteq {Len(old) + 2} \cup StartsOf(nfas)
  /\ \A n \in DOMAIN old \ FinalsOf(nfas) : new[n] = old[n]
  /\ \A n \in FinalsOf(nfas) :
       /\ StopsAccepting(old[n], new[n])
       /\ new[n].links # <<>>

\* What such an operation does to the heap and what it makes.
LEMMA GluedHeap ==
  ASSUME NEW old, HeapOK(old), NEW nfas, \A a \in nfas : AutomatonOK(old, a),
         NEW new, NEW nfa, Glued(old, nfas, new, nfa)
  PROVE  /\ HeapOK(new)
         /\ AllLeadOn(new) => AllLeadOn(old)
         /\ Graph(new, nfa) \subseteq
              ClaimsOf(old, nfas) \cup {Len(old) + 1, Len(old) + 2}
         /\ \A n \in Claims(new, nfa) : new[n].live
<1> DEFINE s == Len(old) + 1
           f == Len(old) + 2
           F == FinalsOf(nfas)
           St == StartsOf(nfas)
           C == ClaimsOf(old, nfas)
<1>1. /\ Len(old) \in Nat /\ DOMAIN old = 1 .. Len(old)
      /\ Len(new) = Len(old) + 2 /\ DOMAIN new = 1 .. Len(new)
      /\ s \in DOMAIN new /\ f \in DOMAIN new /\ s \notin DOMAIN old /\ f \notin DOMAIN old
      /\ DOMAIN new = DOMAIN old \cup {s, f} /\ s # f
  <2>1. Len(old) \in Nat /\ DOMAIN old = 1 .. Len(old)
    BY HeapLength
  <2>2. Len(new) = Len(old) + 2 /\ DOMAIN new = 1 .. Len(new)
    BY LenProperties DEF Glued, IsSequence
  <2> QED BY <2>1, <2>2
<1>2. F \subseteq DOMAIN old /\ St \subseteq DOMAIN old
  BY DEF FinalsOf, StartsOf, AutomatonOK
<1>3. F \subseteq C /\ St \subseteq C
  <2>1. \A a \in nfas : a.start \in Claims(old, a) /\ ToSet(a.final) \subseteq Claims(old, a)
    BY GraphFacts DEF AutomatonOK, Claims
  <2> QED BY <2>1 DEF FinalsOf, StartsOf, ClaimsOf
<1>4. \A n \in F : old[n].accept # 0 /\ old[n].links = <<>>
  BY DEF FinalsOf, AutomatonOK
<1>5. \A n \in C : n \in DOMAIN old /\ old[n].live
  <2> SUFFICES ASSUME NEW a \in nfas, NEW n \in Claims(old, a)
               PROVE  n \in DOMAIN old /\ old[n].live
    BY DEF ClaimsOf
  <2>1. Graph(old, a) \subseteq DOMAIN old
    BY GraphFacts DEF AutomatonOK
  <2> QED BY <2>1 DEF AutomatonOK, Claims
<1>6. \A n \in C : n \notin F => LinkedFrom(old, n) \subseteq C
  <2> SUFFICES ASSUME NEW a \in nfas, NEW n \in Claims(old, a), n \notin F
               PROVE  LinkedFrom(old, n) \subseteq Claims(old, a)
    BY DEF ClaimsOf
  <2>1. n \in Graph(old, a)
    BY DEF Claims, FinalsOf
  <2>2. Closed(old, Graph(old, a))
    BY GraphFacts DEF AutomatonOK
  <2> QED BY <2>1, <2>2 DEF Closed, Claims
<1>7. /\ IsSequence(new)
      /\ nfa = Automaton(nfa.lexeme, s, <<f>>) /\ nfa.lexeme # 0
      /\ new[f] = Node(nfa.lexeme, <<>>) /\ new[s] = Node(0, new[s].links)
      /\ \A n \in {s} \cup F : LinkedFrom(new, n) \subseteq {f} \cup St
      /\ \A n \in DOMAIN old \ F : new[n] = old[n]
      /\ \A n \in F : /\ StopsAccepting(old[n], new[n])
                      /\ new[n].links # <<>>
  BY DEF Glued
<1>8. LinkedFrom(new, f) = {}
  BY <1>7 DEF LinkedFrom, Node
<1>9. \A n \in DOMAIN old \ F : LinkedFrom(new, n) = LinkedFrom(old, n)
  BY <1>7 DEF LinkedFrom
<1>10. nfa.start = s /\ ToSet(nfa.final) = {f}
  <2>1. nfa.start = s /\ nfa.final = <<f>>
    BY <1>7 DEF Automaton
  <2> QED BY <2>1 DEF ToSet
<1> HIDE DEF s, f, F, St, C
<1>15. \A n \in F : new[n].live = old[n].live
  <2> TAKE n \in F
  <2>1. StopsAccepting(old[n], new[n])
    BY <1>7
  <2> QED BY <2>1 DEF StopsAccepting
<1>11. HeapOK(new)
  <2>1. \A n \in DOMAIN new :
          IsNode(new[n])
    <3>1. \A n \in DOMAIN old \ F :
            IsNode(new[n])
      BY <1>7 DEF HeapOK
    <3>2. \A n \in F :
            IsNode(new[n])
      <4> TAKE n \in F
      <4>1. StopsAccepting(old[n], new[n])
        BY <1>7
      <4> QED BY <4>1 DEF StopsAccepting
    <3>3. \A n \in {s, f} :
            IsNode(new[n])
      BY <1>7 DEF Node, IsNode
    <3> QED BY <1>1, <3>1, <3>2, <3>3
  <2>2. \A n \in DOMAIN new : new[n].live \in BOOLEAN
    <3>1. \A n \in DOMAIN old : old[n].live \in BOOLEAN
      BY DEF HeapOK
    <3>2. \A n \in F : new[n].live = old[n].live
      BY <1>15
    <3>3. new[s].live = TRUE /\ new[f].live = TRUE
      BY <1>7 DEF Node
    <3>4. \A n \in DOMAIN old : new[n].live = old[n].live
      BY <1>7, <3>2
    <3> QED BY <1>1, <3>1, <3>3, <3>4
  <2>3. \A n \in DOMAIN new : LinkedFrom(new, n) \subseteq DOMAIN new
    <3>1. \A n \in DOMAIN old : LinkedFrom(old, n) \subseteq DOMAIN old
      BY DEF HeapOK
    <3> QED BY <1>1, <1>2, <1>7, <1>8, <1>9, <3>1
  <2> QED BY <1>7, <2>1, <2>2, <2>3 DEF HeapOK
<1>12. AllLeadOn(new) => AllLeadOn(old)
  BY <1>1, <1>4, <1>7 DEF AllLeadOn
<1>13. Graph(new, nfa) \subseteq C \cup {s, f}
  <2>1. \A n \in C \cup {s, f} : LinkedFrom(new, n) \subseteq C \cup {s, f}
    <3>1. \A n \in C \ F : LinkedFrom(new, n) \subseteq C
      BY <1>5, <1>6, <1>9
    <3> QED BY <1>3, <1>7, <1>8, <3>1
  <2> QED BY <1>1, <1>10, <1>11, <2>1, GraphInside
<1>14. \A n \in Claims(new, nfa) : new[n].live
  <2>1. \A n \in C : new[n].live
    BY <1>5, <1>7, <1>15
  <2>2. new[s].live /\ new[f].live
    BY <1>7 DEF Node
  <2> QED BY <1>10, <1>13, <2>1, <2>2 DEF Claims
<1> QED BY <1>11, <1>12, <1>13, <1>14 DEF C, s, f

\* An automaton the start node of which can be reached can be reached altogether.
LEMMA GluedReach ==
  ASSUME NEW old, HeapOK(old), NEW nfas, \A a \in nfas : AutomatonOK(old, a),
         NEW new, NEW nfa, Glued(old, nfas, new, nfa), AllLeadOn(old),
         NEW a \in nfas, a.start \in Graph(new, nfa)
  PROVE  Claims(old, a) \subseteq Graph(new, nfa)
<1>1. HeapOK(new)
  BY GluedHeap
<1>2. nfa.start \in DOMAIN new
  <2>1. nfa.start = Len(old) + 1 /\ Len(new) = Len(old) + 2
    BY DEF Glued, Automaton
  <2> QED BY <1>1, <2>1, HeapLength
<1>3. Closed(new, Graph(new, nfa))
  BY <1>1, <1>2, GraphFacts
<1>4. \A n \in Graph(new, nfa) : n \in DOMAIN old => LinkedFrom(old, n) \subseteq Graph(new, nfa)
  <2>1. \A n \in DOMAIN old \ FinalsOf(nfas) : LinkedFrom(new, n) = LinkedFrom(old, n)
    BY DEF Glued, LinkedFrom
  <2>2. \A n \in FinalsOf(nfas) : LinkedFrom(old, n) = {}
    <3>1. \A n \in FinalsOf(nfas) : old[n].links = <<>>
      BY DEF FinalsOf, AutomatonOK
    <3> QED BY <3>1 DEF LinkedFrom
  <2> QED BY <1>3, <2>1, <2>2 DEF Closed
<1>5. Graph(old, a) \subseteq Graph(new, nfa)
  <2>1. a.start \in DOMAIN old
    BY DEF AutomatonOK
  <2> QED BY <1>4, <2>1, GraphInside
<1>6. ToSet(a.final) \subseteq Graph(old, a)
  BY DEF AutomatonOK
<1> QED BY <1>5, <1>6 DEF Claims

\* The automaton that is made is sound, and takes over the nodes of the others only,
\* all of them if their starts and its final state can be reached.
LEMMA GluedAutomaton ==
  ASSUME NEW old, HeapOK(old), NEW nfas, \A a \in nfas : AutomatonOK(old, a),
         NEW new, NEW nfa, Glued(old, nfas, new, nfa),
         AllLeadOn(new) => /\ Len(old) + 2 \in Graph(new, nfa)
                           /\ StartsOf(nfas) \subseteq Graph(new, nfa)
  PROVE  /\ AutomatonOK(new, nfa)
         /\ OneFinal(nfa)
         /\ IsNFA(nfa)
         /\ Claims(new, nfa) \cap DOMAIN old \subseteq ClaimsOf(old, nfas)
         /\ AllLeadOn(new) =>
              \A n \in DOMAIN new :
                (n \in DOMAIN old => n \in ClaimsOf(old, nfas)) => n \in Graph(new, nfa)
<1> DEFINE s == Len(old) + 1
           f == Len(old) + 2
           C == ClaimsOf(old, nfas)
<1>1. /\ HeapOK(new)
      /\ AllLeadOn(new) => AllLeadOn(old)
      /\ Graph(new, nfa) \subseteq C \cup {s, f}
      /\ \A n \in Claims(new, nfa) : new[n].live
  BY GluedHeap
<1>2. /\ Len(old) \in Nat /\ DOMAIN old = 1 .. Len(old) /\ DOMAIN new = 1 .. Len(old) + 2
      /\ s \in DOMAIN new /\ f \in DOMAIN new /\ s \notin DOMAIN old /\ f \notin DOMAIN old
  BY <1>1, HeapLength DEF Glued
<1>3. /\ nfa.start = s /\ nfa.final = <<f>> /\ nfa = Automaton(nfa.lexeme, nfa.start, nfa.final)
      /\ ToSet(nfa.final) = {f} /\ nfa.lexeme # 0
  <2>1. nfa.start = s /\ nfa.final = <<f>> /\ nfa.lexeme # 0
    BY DEF Automaton, Glued
  <2> QED BY <2>1 DEF ToSet, Glued
<1>4. new[f].accept # 0 /\ new[f].links = <<>>
  BY <1>3 DEF Glued, Node
<1>5. AllLeadOn(new) => f \in Graph(new, nfa)
  OBVIOUS
<1>6. AutomatonOK(new, nfa)
  BY <1>1, <1>2, <1>3, <1>4, <1>5 DEF AutomatonOK
<1>7. OneFinal(nfa) /\ IsNFA(nfa)
  BY <1>3 DEF OneFinal, IsNFA, Automaton
<1>8. Claims(new, nfa) \cap DOMAIN old \subseteq C
  BY <1>1, <1>2, <1>3 DEF Claims
<1>9. ASSUME AllLeadOn(new), NEW n \in DOMAIN new, n \in DOMAIN old => n \in C
      PROVE  n \in Graph(new, nfa)
  <2>1. CASE n \in DOMAIN old
    <3>1. PICK a \in nfas : n \in Claims(old, a)
      BY <1>9, <2>1 DEF ClaimsOf
    <3>2. a.start \in Graph(new, nfa)
      BY <1>9 DEF StartsOf
    <3> QED BY <1>1, <1>9, <3>1, <3>2, GluedReach
  <2>2. CASE n \notin DOMAIN old
    <3>1. n = s \/ n = f
      BY <1>2, <2>2
    <3>2. s \in Graph(new, nfa)
      BY <1>1, <1>2, <1>3, GraphFacts
    <3> QED BY <1>5, <1>9, <3>1, <3>2
  <2> QED BY <2>1, <2>2
<1> QED BY <1>6, <1>7, <1>8, <1>9

\* A sequence is one of its elements.
LEMMA SequenceOfItself ==
  ASSUME NEW S, NEW s \in Seq(S)
  PROVE  IsSequence(s) /\ Len(s) \in Nat /\ DOMAIN s = 1 .. Len(s)
<1>1. Len(s) \in Nat /\ DOMAIN s = 1 .. Len(s) /\ s = [k \in 1 .. Len(s) |-> s[k]]
  OBVIOUS
<1>2. \A k \in 1 .. Len(s) : s[k] \in ToSet(s)
  BY <1>1 DEF ToSet
<1>3. s \in Seq(ToSet(s))
  <2> HIDE DEF ToSet
  <2> QED BY <1>1, <1>2
<1> QED BY <1>1, <1>3 DEF IsSequence

\* Two nodes more.
TwoPut(nodes, x, y, more) == more = nodes \o <<x, y>>

\* They are the last ones.
LEMMA TwoMore ==
  ASSUME NEW nodes, IsSequence(nodes), NEW x, NEW y, NEW more,
         TwoPut(nodes, x, y, more)
  PROVE  /\ IsSequence(more) /\ Len(more) = Len(nodes) + 2
         /\ DOMAIN nodes = 1 .. Len(nodes) /\ Len(nodes) \in Nat
         /\ DOMAIN more = 1 .. Len(nodes) + 2
         /\ \A n \in DOMAIN nodes : more[n] = nodes[n]
         /\ more[Len(nodes) + 1] = x /\ more[Len(nodes) + 2] = y
<1> DEFINE S == ToSet(nodes) \cup {x, y}
<1>1. nodes \in Seq(S) /\ <<x, y>> \in Seq(S)
  <2>1. nodes \in Seq(ToSet(nodes))
    BY DEF IsSequence
  <2> QED BY <2>1
<1> HIDE DEF S
<1>6. more = nodes \o <<x, y>>
  BY DEF TwoPut
<1>2. more \in Seq(S)
  BY <1>1, <1>6
<1>3. Len(more) = Len(nodes) + 2 /\ Len(nodes) \in Nat /\ DOMAIN more = 1 .. Len(nodes) + 2
      /\ DOMAIN nodes = 1 .. Len(nodes)
  BY <1>1, <1>2, <1>6
<1>4. /\ \A n \in DOMAIN nodes : more[n] = nodes[n]
      /\ more[Len(nodes) + 1] = x /\ more[Len(nodes) + 2] = y
  BY <1>1, <1>6
<1>5. IsSequence(more)
  BY <1>2, SequenceOfItself
<1> QED BY <1>3, <1>4, <1>5

\* The heap with some nodes retired.
IsRetired(nodes, final, targets, new) == new = Retired(nodes, final, targets)

\* Retired changes the nodes it is told to.
LEMMA RetiredRest ==
  ASSUME NEW nodes, IsSequence(nodes), NEW final, NEW targets,
         NEW new, IsRetired(nodes, final, targets, new)
  PROVE  /\ IsSequence(new) /\ Len(new) = Len(nodes) /\ DOMAIN new = DOMAIN nodes
         /\ \A n \in DOMAIN nodes \ ToSet(final) : new[n] = nodes[n]
<1>1. DOMAIN nodes = 1 .. Len(nodes) /\ Len(nodes) \in Nat
  BY DEF IsSequence
<1>2. DOMAIN new = DOMAIN nodes /\ \A n \in DOMAIN nodes \ ToSet(final) : new[n] = nodes[n]
  BY DEF Retired, IsRetired
<1>3. new = [n \in 1 .. Len(nodes) |-> new[n]]
  BY <1>1 DEF Retired, IsRetired
<1>4. \A n \in 1 .. Len(nodes) : new[n] \in ToSet(new)
  BY <1>1, <1>2 DEF ToSet
<1>5. new \in Seq(ToSet(new)) /\ Len(new) = Len(nodes)
  BY <1>1, <1>3, <1>4
<1> QED BY <1>2, <1>5 DEF IsSequence

\* A node without links gets links to the targets.
LEMMA RetiredNode ==
  ASSUME NEW nodes, NEW final, NEW n \in DOMAIN nodes, n \in ToSet(final),
         IsNode(nodes[n]),
         nodes[n].links = <<>>,
         NEW targets, targets \in Seq(Nat), targets # <<>>,
         NEW new, IsRetired(nodes, final, targets, new)
  PROVE  /\ StopsAccepting(nodes[n], new[n])
         /\ new[n].links # <<>>
         /\ LinkedFrom(new, n) = ToSet(targets)
<1> DEFINE links == [k \in DOMAIN targets |-> Link(Epsilon, targets[k])]
           L == {Link(Epsilon, t) : t \in Nat}
<1>1. new[n] = [nodes[n] EXCEPT !.accept = 0, !.links = @ \o links]
  BY DEF Retired, IsRetired
<1>2. links \in Seq(L) /\ DOMAIN links = DOMAIN targets
  BY DEF Link
<1>3. <<>> \o links = links
  <2> HIDE DEF links, L
  <2> QED BY <1>2, ConcatEmptySeq
<1>4. new[n] = [live |-> nodes[n].live, accept |-> 0, links |-> links]
  <2>1. nodes[n] = [live |-> nodes[n].live, accept |-> nodes[n].accept, links |-> nodes[n].links]
    BY DEF IsNode
  <2> HIDE DEF links
  <2>2. nodes[n].links \o links = links
    BY <1>3
  <2> QED BY <1>1, <2>1, <2>2
<1>5. new[n].links = links
  <2> HIDE DEF links
  <2> QED BY <1>4
<1>6. links # <<>>
  <2>1. 1 \in DOMAIN targets
    BY EmptySeq
  <2>2. 1 \in DOMAIN links
    BY <2>1
  <2> HIDE DEF links
  <2> QED BY <2>2
<1>7. LinkedFrom(new, n) = {links[k].to : k \in DOMAIN links}
  <2> HIDE DEF links
  <2> QED BY <1>5 DEF LinkedFrom
<1>8. {links[k].to : k \in DOMAIN links} = ToSet(targets)
  BY DEF Link, ToSet
<1> QED
  <2> HIDE DEF links
  <2>1. StopsAccepting(nodes[n], new[n])
    BY <1>4 DEF StopsAccepting, IsNode
  <2> QED BY <1>5, <1>6, <1>7, <1>8, <2>1

\* The start node of what was glued is in its graph, and links stay in it.
LEMMA GluedGraph ==
  ASSUME NEW old, HeapOK(old), NEW nfas, \A a \in nfas : AutomatonOK(old, a),
         NEW new, NEW nfa, Glued(old, nfas, new, nfa)
  PROVE  /\ Len(old) + 1 \in Graph(new, nfa)
         /\ Closed(new, Graph(new, nfa))
<1>1. HeapOK(new)
  BY GluedHeap
<1>2. nfa.start = Len(old) + 1 /\ nfa.start \in DOMAIN new
  <2>1. nfa.start = Len(old) + 1 /\ Len(new) = Len(old) + 2 /\ Len(old) \in Nat
    BY HeapLength DEF Glued, Automaton
  <2> QED BY <1>1, <2>1, HeapLength
<1> QED BY <1>1, <1>2, GraphFacts

\* The final state of an automaton that has one.
LEMMA OneFinalFacts ==
  ASSUME NEW nodes, HeapOK(nodes), NEW a, AutomatonOK(nodes, a), OneFinal(a)
  PROVE  LET f == a.final[1]
         IN  /\ a.final = <<f>> /\ ToSet(a.final) = {f}
             /\ f \in DOMAIN nodes /\ f \in Nat /\ f \in Claims(nodes, a)
             /\ IsNode(nodes[f])
             /\ nodes[f].links = <<>>
             /\ a.start \in DOMAIN nodes /\ a.start \in Nat /\ a.start # 0
             /\ FinalsOf({a}) = {f} /\ StartsOf({a}) = {a.start}
<1> DEFINE f == a.final[1]
<1>1. a.final = <<f>>
  BY DEF OneFinal
<1> HIDE DEF f
<1>2. ToSet(a.final) = {f}
  BY <1>1 DEF ToSet
<1>3. FinalsOf({a}) = {f} /\ StartsOf({a}) = {a.start}
  BY <1>2 DEF FinalsOf, StartsOf
<1>4. f \in DOMAIN nodes /\ nodes[f].links = <<>> /\ a.start \in DOMAIN nodes
  BY <1>2 DEF AutomatonOK
<1>5. f \in Nat /\ a.start \in Nat /\ a.start # 0
  BY <1>4, HeapLength
<1>6. IsNode(nodes[f])
  BY <1>4 DEF HeapOK
<1>7. f \in Claims(nodes, a)
  BY <1>2 DEF Claims
<1> QED BY <1>1, <1>2, <1>3, <1>4, <1>5, <1>6, <1>7 DEF f

\* Only the empty function is one of nothing.
LEMMA FunctionOfSomething ==
  ASSUME NEW f, f = [k \in DOMAIN f |-> f[k]], f # <<>>
  PROVE  DOMAIN f # {}
<1>1. <<>> = [k \in {} |-> f[k]]
  OBVIOUS
<1> QED BY <1>1

\* What an operation that glues the automata promises.
Makes(old, nfas, outcome) ==
  /\ Glued(old, nfas, outcome.heap, outcome.nfa)
  /\ AllLeadOn(outcome.heap) => /\ Len(old) + 2 \in Graph(outcome.heap, outcome.nfa)
                                /\ StartsOf(nfas) \subseteq Graph(outcome.heap, outcome.nfa)

\* NFA::Create of characters.
LEMMA CreateCharsMakes ==
  ASSUME NEW old, HeapOK(old), NEW chars, NEW lexeme, lexeme # 0
  PROVE  Makes(old, {}, CreateChars(old, chars, lexeme))
<1> DEFINE s == Len(old) + 1
           f == Len(old) + 2
           links == [k \in DOMAIN chars |-> Link(chars[k], f)]
           x == Node(0, links)
           y == Node(lexeme, <<>>)
           new == old \o <<x, y>>
           nfa == Automaton(lexeme, s, <<f>>)
<1>1. CreateChars(old, chars, lexeme) = [heap |-> new, nfa |-> nfa]
  BY DEF CreateChars
<1>2. IsSequence(old)
  BY DEF HeapOK
<1>3. \A k \in DOMAIN links : links[k].to = f
  BY DEF Link
<1>4. links # <<>> => DOMAIN links # {}
  <2>1. links = [k \in DOMAIN links |-> links[k]]
    OBVIOUS
  <2> HIDE DEF links
  <2> QED BY <2>1, FunctionOfSomething
<1> HIDE DEF links
<1>5. /\ IsSequence(new) /\ Len(new) = Len(old) + 2 /\ Len(old) \in Nat
      /\ \A n \in DOMAIN old : new[n] = old[n]
      /\ new[s] = Node(0, links) /\ new[f] = Node(lexeme, <<>>)
  <2>1. TwoPut(old, x, y, new)
    BY DEF TwoPut
  <2> HIDE DEF new, x, y
  <2>2. /\ IsSequence(new) /\ Len(new) = Len(old) + 2 /\ Len(old) \in Nat
        /\ \A n \in DOMAIN old : new[n] = old[n]
        /\ new[s] = x /\ new[f] = y
    BY <1>2, <2>1, TwoMore
  <2> QED BY <2>2 DEF x, y
<1> HIDE DEF new
<1>6. new[s] = Node(0, new[s].links) /\ new[s].links = links
  BY <1>5 DEF Node
<1>7. LinkedFrom(new, s) \subseteq {f} /\ (links # <<>> => f \in LinkedFrom(new, s))
  <2>1. LinkedFrom(new, s) = {links[k].to : k \in DOMAIN links}
    BY <1>6 DEF LinkedFrom
  <2> QED BY <1>3, <1>4, <2>1
<1>8. nfa.lexeme = lexeme /\ nfa.start = s /\ nfa.final = <<f>>
  BY DEF Automaton
<1>9. FinalsOf({}) = {} /\ StartsOf({}) = {}
  BY DEF FinalsOf, StartsOf
<1>10. nfa = Automaton(nfa.lexeme, s, <<f>>)
  BY <1>8
<1> HIDE DEF nfa
<1>11. Glued(old, {}, new, nfa)
  BY <1>5, <1>6, <1>7, <1>8, <1>9, <1>10 DEF Glued
<1>12. ASSUME AllLeadOn(new)
       PROVE  f \in Graph(new, nfa)
  <2>1. s \in DOMAIN new
    BY <1>5 DEF IsSequence
  <2>2. new[s].accept = 0
    BY <1>5 DEF Node
  <2>3. links # <<>>
    BY <1>6, <1>12, <2>1, <2>2 DEF AllLeadOn
  <2>4. s \in Graph(new, nfa) /\ Closed(new, Graph(new, nfa))
    BY <1>11, GluedGraph
  <2> QED BY <1>7, <2>3, <2>4 DEF Closed
<1> QED BY <1>1, <1>9, <1>11, <1>12 DEF Makes

\* NFA::Concat: the first leads to the second, and that one to the new final state.
LEMMA ConcatMakes ==
  ASSUME NEW old, HeapOK(old), NEW a, AutomatonOK(old, a), OneFinal(a),
         NEW b, AutomatonOK(old, b), OneFinal(b),
         Claims(old, a) \cap Claims(old, b) = {}
  PROVE  Makes(old, {a, b}, Concat(old, a, b))
<1> DEFINE s == Len(old) + 1
           f == Len(old) + 2
           g == a.final[1]
           h == b.final[1]
           joined == Retired(old, a.final, <<b.start>>)
           x == Node(0, <<Link(Epsilon, a.start)>>)
           y == Node(a.lexeme, <<>>)
           more == joined \o <<x, y>>
           new == Retired(more, b.final, <<f>>)
           nfa == Automaton(a.lexeme, s, <<f>>)
<1>1. /\ ToSet(a.final) = {g} /\ g \in DOMAIN old /\ old[g].links = <<>>
      /\ IsNode(old[g])
      /\ a.start \in DOMAIN old /\ a.start \in Nat /\ a.start # 0 /\ g \in Claims(old, a)
  BY OneFinalFacts
<1>2. /\ ToSet(b.final) = {h} /\ h \in DOMAIN old /\ old[h].links = <<>>
      /\ IsNode(old[h])
      /\ b.start \in DOMAIN old /\ b.start \in Nat /\ b.start # 0 /\ h \in Claims(old, b)
  BY OneFinalFacts
<1>3. g # h
  BY <1>1, <1>2
<1>4. Concat(old, a, b) = [heap |-> new, nfa |-> nfa]
  BY <1>1, <1>2 DEF Concat
<1>5. Len(old) \in Nat /\ IsSequence(old) /\ DOMAIN old = 1 .. Len(old)
  BY HeapLength DEF HeapOK
<1>6. FinalsOf({a, b}) = {g, h} /\ StartsOf({a, b}) = {a.start, b.start}
  BY <1>1, <1>2 DEF FinalsOf, StartsOf
<1> HIDE DEF g, h
<1>7. /\ IsSequence(joined) /\ Len(joined) = Len(old) /\ DOMAIN joined = DOMAIN old
      /\ \A n \in DOMAIN old \ {g} : joined[n] = old[n]
  <2>1. IsRetired(old, a.final, <<b.start>>, joined)
    BY DEF IsRetired
  <2> HIDE DEF joined
  <2> QED BY <1>1, <1>5, <2>1, RetiredRest
<1>8. /\ StopsAccepting(old[g], joined[g])
      /\ joined[g].links # <<>>
      /\ LinkedFrom(joined, g) = {b.start}
  <2>1. <<b.start>> \in Seq(Nat) /\ <<b.start>> # <<>> /\ ToSet(<<b.start>>) = {b.start}
    BY <1>2 DEF ToSet
  <2>2. g \in ToSet(a.final)
    BY <1>1
  <2> DEFINE targets == <<b.start>>
  <2> HIDE DEF targets
  <2>3. /\ targets \in Seq(Nat) /\ targets # <<>> /\ ToSet(targets) = {b.start}
        /\ IsRetired(old, a.final, targets, joined)
    BY <2>1 DEF targets, IsRetired
  <2> HIDE DEF joined
  <2> QED BY <1>1, <2>2, <2>3, RetiredNode
<1> HIDE DEF joined
<1>9. /\ IsSequence(more) /\ Len(more) = Len(old) + 2
      /\ DOMAIN more = 1 .. Len(old) + 2
      /\ \A n \in DOMAIN old : more[n] = joined[n]
      /\ more[s] = Node(0, <<Link(Epsilon, a.start)>>) /\ more[f] = Node(a.lexeme, <<>>)
  <2>1. TwoPut(joined, x, y, more)
    BY DEF TwoPut
  <2> HIDE DEF more, x, y
  <2>2. /\ IsSequence(more) /\ Len(more) = Len(old) + 2
        /\ DOMAIN more = 1 .. Len(old) + 2
        /\ \A n \in DOMAIN old : more[n] = joined[n]
        /\ more[s] = x /\ more[f] = y
    BY <1>7, <2>1, TwoMore
  <2> QED BY <2>2 DEF x, y
<1> HIDE DEF more
<1>10. /\ IsSequence(new) /\ Len(new) = Len(old) + 2
       /\ \A n \in DOMAIN more \ {h} : new[n] = more[n]
  <2>1. IsRetired(more, b.final, <<f>>, new)
    BY DEF IsRetired
  <2> HIDE DEF new
  <2> QED BY <1>2, <1>9, <2>1, RetiredRest
<1>11. /\ StopsAccepting(old[h], new[h])
       /\ new[h].links # <<>>
       /\ LinkedFrom(new, h) = {f}
  <2>1. <<f>> \in Seq(Nat) /\ <<f>> # <<>> /\ ToSet(<<f>>) = {f}
    BY <1>5 DEF ToSet
  <2>2. h \in ToSet(b.final) /\ h \in DOMAIN more /\ more[h] = old[h]
    BY <1>2, <1>3, <1>5, <1>7, <1>9
  <2> DEFINE targets == <<f>>
  <2> HIDE DEF targets
  <2>3. /\ targets \in Seq(Nat) /\ targets # <<>> /\ ToSet(targets) = {f}
        /\ IsRetired(more, b.final, targets, new)
    BY <2>1 DEF targets, IsRetired
  <2>4. IsNode(more[h]) /\ more[h].links = <<>>
    BY <1>2, <2>2
  <2> HIDE DEF new
  <2>5. /\ StopsAccepting(more[h], new[h])
        /\ new[h].links # <<>>
        /\ LinkedFrom(new, h) = {f}
    BY <2>2, <2>3, <2>4, RetiredNode
  <2> QED BY <2>2, <2>5
<1> HIDE DEF new
<1>12. /\ s \in DOMAIN more \ {h} /\ f \in DOMAIN more \ {h} /\ g \in DOMAIN more \ {h}
       /\ s \notin DOMAIN old /\ f \notin DOMAIN old
  BY <1>1, <1>2, <1>3, <1>5, <1>9
<1>13. /\ new[s] = Node(0, <<Link(Epsilon, a.start)>>) /\ new[f] = Node(a.lexeme, <<>>)
       /\ new[g] = joined[g]
  BY <1>1, <1>9, <1>10, <1>12
<1>14. \A n \in DOMAIN old \ {g, h} : new[n] = old[n]
  BY <1>5, <1>7, <1>9, <1>10
<1>15. LinkedFrom(new, s) = {a.start} /\ new[s] = Node(0, new[s].links)
  <2>1. new[s].links = <<Link(Epsilon, a.start)>>
    BY <1>13 DEF Node
  <2>2. LinkedFrom(new, s) = {<<Link(Epsilon, a.start)>>[k].to : k \in {1}}
    BY <2>1 DEF LinkedFrom
  <2> QED BY <1>13, <2>1, <2>2 DEF Link
<1>16. LinkedFrom(new, g) = {b.start}
  BY <1>8, <1>13 DEF LinkedFrom
<1>17. nfa.lexeme = a.lexeme /\ nfa = Automaton(nfa.lexeme, s, <<f>>) /\ nfa.lexeme # 0
  BY DEF Automaton, OneFinal
<1> HIDE DEF nfa
<1>18. Glued(old, {a, b}, new, nfa)
  BY <1>6, <1>8, <1>10, <1>11, <1>13, <1>14, <1>15, <1>16, <1>17 DEF Glued
<1>19. ASSUME AllLeadOn(new)
       PROVE  f \in Graph(new, nfa) /\ {a.start, b.start} \subseteq Graph(new, nfa)
  <2>1. s \in Graph(new, nfa) /\ Closed(new, Graph(new, nfa))
    BY <1>18, GluedGraph
  <2>2. AllLeadOn(old)
    BY <1>18, <1>19, GluedHeap
  <2>8. \A c \in {a, b} : c.start \in Graph(new, nfa) => Claims(old, c) \subseteq Graph(new, nfa)
    BY <1>18, <2>2, GluedReach
  <2>3. a.start \in Graph(new, nfa)
    BY <1>15, <2>1 DEF Closed
  <2>4. g \in Graph(new, nfa)
    BY <1>1, <2>3, <2>8
  <2>5. b.start \in Graph(new, nfa)
    BY <1>16, <2>1, <2>4 DEF Closed
  <2>6. h \in Graph(new, nfa)
    BY <1>2, <2>5, <2>8
  <2>7. f \in Graph(new, nfa)
    BY <1>11, <2>1, <2>6 DEF Closed
  <2> QED BY <2>3, <2>5, <2>7
<1> DEFINE outcome == Concat(old, a, b)
<1>20. outcome.heap = new /\ outcome.nfa = nfa
  BY <1>4
<1> HIDE DEF outcome
<1>21. Makes(old, {a, b}, outcome)
  BY <1>6, <1>18, <1>19, <1>20 DEF Makes
<1> QED BY <1>21 DEF outcome

\* Short sequences.
LEMMA Short ==
  ASSUME NEW x, NEW y
  PROVE  /\ <<x>> \o <<y>> = <<x, y>> /\ <<x>> \o <<>> = <<x>>
         /\ Append(<<>>, x) = <<x>> /\ Append(<<y>>, x) = <<y, x>>
<1> DEFINE S == {x, y}
<1>1. <<x>> \in Seq(S) /\ <<y>> \in Seq(S) /\ <<x, y>> \in Seq(S) /\ <<y, x>> \in Seq(S)
  OBVIOUS
<1>2. <<x>> \o <<y>> = <<x, y>>
  <2> DEFINE t == <<x>> \o <<y>>
             u == <<x, y>>
  <2>1. t \in Seq(S) /\ Len(t) = 2 /\ t[1] = x /\ t[2] = y
    BY <1>1
  <2>2. u \in Seq(S) /\ Len(u) = 2 /\ u[1] = x /\ u[2] = y
    BY <1>1
  <2> HIDE DEF S, t, u
  <2>3. \A i \in 1 .. 2 : t[i] = u[i]
    BY <2>1, <2>2
  <2>4. t = u
    BY <2>1, <2>2, <2>3, SeqEqual
  <2> QED BY <2>4 DEF t, u
<1>3. <<x>> \o <<>> = <<x>>
  <2> HIDE DEF S
  <2> QED BY <1>1, ConcatEmptySeq
<1>4. Append(<<>>, x) = <<x>>
  OBVIOUS
<1>5. Append(<<y>>, x) = <<y, x>>
  <2> DEFINE t == Append(<<y>>, x)
             u == <<y, x>>
  <2>1. t \in Seq(S) /\ Len(t) = 2 /\ t[1] = y /\ t[2] = x
    BY <1>1
  <2>2. u \in Seq(S) /\ Len(u) = 2 /\ u[1] = y /\ u[2] = x
    BY <1>1
  <2> HIDE DEF S, t, u
  <2>3. \A i \in 1 .. 2 : t[i] = u[i]
    BY <2>1, <2>2
  <2>4. t = u
    BY <2>1, <2>2, <2>3, SeqEqual
  <2> QED BY <2>4 DEF t, u
<1> QED BY <1>2, <1>3, <1>4, <1>5

\* NFA::Or: a choice between two, both of which lead to the new final state.
LEMMA OrMakes ==
  ASSUME NEW old, HeapOK(old), NEW a, AutomatonOK(old, a), OneFinal(a),
         NEW b, AutomatonOK(old, b), OneFinal(b)
  PROVE  Makes(old, {a, b}, Or(old, a, b))
<1> DEFINE s == Len(old) + 1
           f == Len(old) + 2
           g == a.final[1]
           h == b.final[1]
           links == <<Link(Epsilon, a.start), Link(Epsilon, b.start)>>
           joined == Retired(old, a.final \o b.final, <<f>>)
           x == Node(0, links)
           y == Node(a.lexeme, <<>>)
           new == joined \o <<x, y>>
           nfa == Automaton(a.lexeme, s, <<f>>)
<1>1. /\ a.final = <<g>> /\ g \in DOMAIN old /\ g \in Nat
      /\ IsNode(old[g]) /\ old[g].links = <<>>
      /\ a.start \in DOMAIN old /\ a.start \in Nat /\ a.start # 0 /\ g \in Claims(old, a)
      /\ ToSet(a.final) = {g}
  BY OneFinalFacts
<1>2. /\ b.final = <<h>> /\ h \in DOMAIN old /\ h \in Nat
      /\ IsNode(old[h]) /\ old[h].links = <<>>
      /\ b.start \in DOMAIN old /\ b.start \in Nat /\ b.start # 0 /\ h \in Claims(old, b)
      /\ ToSet(b.final) = {h}
  BY OneFinalFacts
<1>3. FinalsOf({a, b}) = {g, h} /\ StartsOf({a, b}) = {a.start, b.start}
  BY <1>1, <1>2 DEF FinalsOf, StartsOf
<1>4. Len(old) \in Nat /\ IsSequence(old) /\ DOMAIN old = 1 .. Len(old)
  BY HeapLength DEF HeapOK
<1>5. LinkTo(a) \o LinkTo(b) = links /\ links # <<>>
  <2>1. LinkTo(a) = <<Link(Epsilon, a.start)>> /\ LinkTo(b) = <<Link(Epsilon, b.start)>>
    BY <1>1, <1>2 DEF LinkTo
  <2> DEFINE u == Link(Epsilon, a.start)
             v == Link(Epsilon, b.start)
  <2> HIDE DEF u, v
  <2>2. <<u>> \o <<v>> = <<u, v>> /\ <<u, v>> # <<>>
    BY Short
  <2> QED BY <2>1, <2>2 DEF u, v
<1>6. Or(old, a, b) = [heap |-> new, nfa |-> nfa]
  BY <1>5 DEF Or
<1> HIDE DEF g, h
<1>7. ToSet(a.final \o b.final) = {g, h}
  <2>1. a.final \o b.final = <<g, h>>
    BY <1>1, <1>2, Short
  <2> QED BY <2>1 DEF ToSet
<1>8. /\ IsSequence(joined) /\ Len(joined) = Len(old) /\ DOMAIN joined = DOMAIN old
      /\ \A n \in DOMAIN old \ {g, h} : joined[n] = old[n]
      /\ \A n \in {g, h} : /\ StopsAccepting(old[n], joined[n])
                           /\ joined[n].links # <<>>
                           /\ LinkedFrom(joined, n) = {f}
  <2> DEFINE targets == <<f>>
             final == a.final \o b.final
  <2>1. targets \in Seq(Nat) /\ targets # <<>> /\ ToSet(targets) = {f}
    BY <1>4 DEF ToSet
  <2>2. IsRetired(old, final, targets, joined)
    BY DEF IsRetired
  <2> HIDE DEF targets, final, joined
  <2>3. ToSet(final) = {g, h}
    BY <1>7 DEF final
  <2>4. /\ IsSequence(joined) /\ Len(joined) = Len(old) /\ DOMAIN joined = DOMAIN old
        /\ \A n \in DOMAIN old \ {g, h} : joined[n] = old[n]
    BY <1>4, <2>2, <2>3, RetiredRest
  <2>5. \A n \in {g, h} : /\ StopsAccepting(old[n], joined[n])
                          /\ joined[n].links # <<>>
                          /\ LinkedFrom(joined, n) = {f}
    <3> TAKE n \in {g, h}
    <3>1. n \in DOMAIN old /\ IsNode(old[n]) /\ old[n].links = <<>> /\ n \in ToSet(final)
      BY <1>1, <1>2, <2>3
    <3> QED BY <2>1, <2>2, <3>1, RetiredNode
  <2> QED BY <2>4, <2>5
<1> HIDE DEF joined
<1>9. /\ IsSequence(new) /\ Len(new) = Len(old) + 2
      /\ DOMAIN new = 1 .. Len(old) + 2
      /\ \A n \in DOMAIN old : new[n] = joined[n]
      /\ new[s] = x /\ new[f] = y
  <2>1. TwoPut(joined, x, y, new)
    BY DEF TwoPut
  <2> HIDE DEF new, x, y
  <2> QED BY <1>8, <2>1, TwoMore
<1> HIDE DEF new
<1>10. \A n \in DOMAIN old \ {g, h} : new[n] = old[n]
  BY <1>8, <1>9
<1>11. LinkedFrom(new, s) = {a.start, b.start} /\ new[s] = Node(0, new[s].links)
  <2>1. new[s].links = links
    BY <1>9 DEF Node
  <2>2. LinkedFrom(new, s) = {links[k].to : k \in {1, 2}}
    BY <2>1 DEF LinkedFrom
  <2> QED BY <1>9, <2>1, <2>2 DEF Link
<1>12. \A n \in {g, h} : /\ StopsAccepting(old[n], new[n])
                         /\ new[n].links # <<>>
                         /\ LinkedFrom(new, n) = {f}
  <2> TAKE n \in {g, h}
  <2>1. new[n] = joined[n]
    BY <1>1, <1>2, <1>9
  <2> QED BY <1>8, <2>1 DEF LinkedFrom
<1>13. nfa.lexeme = a.lexeme /\ nfa = Automaton(nfa.lexeme, s, <<f>>) /\ nfa.lexeme # 0
  BY DEF Automaton, OneFinal
<1> HIDE DEF nfa
<1>14. Glued(old, {a, b}, new, nfa)
  BY <1>3, <1>9, <1>10, <1>11, <1>12, <1>13 DEF Glued
<1>15. ASSUME AllLeadOn(new)
       PROVE  f \in Graph(new, nfa) /\ {a.start, b.start} \subseteq Graph(new, nfa)
  <2>1. s \in Graph(new, nfa) /\ Closed(new, Graph(new, nfa))
    BY <1>14, GluedGraph
  <2>2. AllLeadOn(old)
    BY <1>14, <1>15, GluedHeap
  <2>3. a.start \in Graph(new, nfa) /\ b.start \in Graph(new, nfa)
    BY <1>11, <2>1 DEF Closed
  <2>4. \A c \in {a, b} : c.start \in Graph(new, nfa) => Claims(old, c) \subseteq Graph(new, nfa)
    BY <1>14, <2>2, GluedReach
  <2>5. g \in Graph(new, nfa)
    BY <1>1, <2>3, <2>4
  <2>6. f \in Graph(new, nfa)
    BY <1>12, <2>1, <2>5 DEF Closed
  <2> QED BY <2>3, <2>6
<1> DEFINE outcome == Or(old, a, b)
<1>16. outcome.heap = new /\ outcome.nfa = nfa
  BY <1>6
<1> HIDE DEF outcome
<1>17. Makes(old, {a, b}, outcome)
  BY <1>3, <1>14, <1>15, <1>16 DEF Makes
<1> QED BY <1>17 DEF outcome

\* NFA::Kleene: the final state leads to the new one, and to the start again.
LEMMA KleeneMakes ==
  ASSUME NEW old, HeapOK(old), NEW a, AutomatonOK(old, a), OneFinal(a), NEW type
  PROVE  Makes(old, {a}, Kleene(old, a, type))
<1> DEFINE s == Len(old) + 1
           f == Len(old) + 2
           g == a.final[1]
           skip == IF type = "back" THEN <<>> ELSE <<Link(Epsilon, f)>>
           again == IF type = "empty" THEN <<>> ELSE <<a.start>>
           links == Append(skip, Link(Epsilon, a.start))
           targets == <<f>> \o again
           joined == Retired(old, a.final, targets)
           x == Node(0, links)
           y == Node(a.lexeme, <<>>)
           new == joined \o <<x, y>>
           nfa == Automaton(a.lexeme, s, <<f>>)
<1>1. /\ a.final = <<g>> /\ g \in DOMAIN old /\ g \in Nat
      /\ IsNode(old[g]) /\ old[g].links = <<>>
      /\ a.start \in DOMAIN old /\ a.start \in Nat /\ a.start # 0 /\ g \in Claims(old, a)
      /\ ToSet(a.final) = {g}
  BY OneFinalFacts
<1>3. FinalsOf({a}) = {g} /\ StartsOf({a}) = {a.start}
  BY OneFinalFacts
<1>4. Len(old) \in Nat /\ IsSequence(old) /\ DOMAIN old = 1 .. Len(old)
  BY HeapLength DEF HeapOK
<1>6. Kleene(old, a, type) = [heap |-> new, nfa |-> nfa]
  BY <1>1 DEF Kleene
<1> HIDE DEF g
<1>7. /\ targets \in Seq(Nat) /\ targets # <<>>
      /\ f \in ToSet(targets) /\ ToSet(targets) \subseteq {f, a.start}
  <2>1. targets = <<f>> \/ targets = <<f, a.start>>
    <3> HIDE DEF f
    <3>1. CASE type = "empty"
      BY <3>1, Short
    <3>2. CASE type # "empty"
      BY <3>2, Short
    <3> QED BY <3>1, <3>2
  <2>2. f \in Nat
    BY <1>4
  <2> HIDE DEF targets
  <2>3. CASE targets = <<f>>
    BY <2>2, <2>3 DEF ToSet
  <2>4. CASE targets = <<f, a.start>>
    BY <1>1, <2>2, <2>4 DEF ToSet
  <2> QED BY <2>1, <2>3, <2>4
<1>8. /\ IsSequence(joined) /\ Len(joined) = Len(old) /\ DOMAIN joined = DOMAIN old
      /\ \A n \in DOMAIN old \ {g} : joined[n] = old[n]
      /\ StopsAccepting(old[g], joined[g])
      /\ joined[g].links # <<>>
      /\ f \in LinkedFrom(joined, g) /\ LinkedFrom(joined, g) \subseteq {f, a.start}
  <2>1. IsRetired(old, a.final, targets, joined)
    BY DEF IsRetired
  <2> HIDE DEF targets, joined
  <2>2. /\ IsSequence(joined) /\ Len(joined) = Len(old) /\ DOMAIN joined = DOMAIN old
        /\ \A n \in DOMAIN old \ {g} : joined[n] = old[n]
    BY <1>1, <1>4, <2>1, RetiredRest
  <2>3. g \in ToSet(a.final)
    BY <1>1
  <2>4. /\ StopsAccepting(old[g], joined[g])
        /\ joined[g].links # <<>>
        /\ LinkedFrom(joined, g) = ToSet(targets)
    BY <1>1, <1>7, <2>1, <2>3, RetiredNode
  <2> QED BY <1>7, <2>2, <2>4
<1> HIDE DEF joined, targets
<1>9. /\ IsSequence(new) /\ Len(new) = Len(old) + 2
      /\ DOMAIN new = 1 .. Len(old) + 2
      /\ \A n \in DOMAIN old : new[n] = joined[n]
      /\ new[s] = x /\ new[f] = y
  <2>1. TwoPut(joined, x, y, new)
    BY DEF TwoPut
  <2> HIDE DEF new, x, y
  <2> QED BY <1>8, <2>1, TwoMore
<1> HIDE DEF new
<1>10. \A n \in DOMAIN old \ {g} : new[n] = old[n]
  BY <1>8, <1>9
<1>11. /\ a.start \in LinkedFrom(new, s) /\ LinkedFrom(new, s) \subseteq {f, a.start}
       /\ new[s] = Node(0, new[s].links)
  <2>1. new[s].links = links
    BY <1>9 DEF Node
  <2>2. links = <<Link(Epsilon, a.start)>> \/ links = <<Link(Epsilon, f), Link(Epsilon, a.start)>>
    <3> DEFINE u == Link(Epsilon, a.start)
               v == Link(Epsilon, f)
    <3> HIDE DEF u, v
    <3>1. Append(<<>>, u) = <<u>> /\ Append(<<v>>, u) = <<v, u>>
      BY Short
    <3> QED BY <3>1 DEF u, v
  <2> HIDE DEF links
  <2>3. LinkedFrom(new, s) = {links[k].to : k \in DOMAIN links}
    BY <2>1 DEF LinkedFrom
  <2>4. CASE links = <<Link(Epsilon, a.start)>>
    <3>1. LinkedFrom(new, s) = {links[k].to : k \in {1}} /\ links[1].to = a.start
      BY <2>3, <2>4 DEF Link
    <3> QED BY <1>9, <2>1, <3>1
  <2>5. CASE links = <<Link(Epsilon, f), Link(Epsilon, a.start)>>
    <3>1. LinkedFrom(new, s) = {links[k].to : k \in {1, 2}} /\ links[1].to = f /\ links[2].to = a.start
      BY <2>3, <2>5 DEF Link
    <3> QED BY <1>9, <2>1, <3>1
  <2> QED BY <2>2, <2>4, <2>5
<1>12. /\ StopsAccepting(old[g], new[g])
       /\ new[g].links # <<>>
       /\ f \in LinkedFrom(new, g) /\ LinkedFrom(new, g) \subseteq {f, a.start}
  <2>1. new[g] = joined[g]
    BY <1>1, <1>9
  <2> QED BY <1>8, <2>1 DEF LinkedFrom
<1>13. nfa.lexeme = a.lexeme /\ nfa = Automaton(nfa.lexeme, s, <<f>>) /\ nfa.lexeme # 0
  BY DEF Automaton, OneFinal
<1> HIDE DEF nfa, x
<1>14. Glued(old, {a}, new, nfa)
  BY <1>3, <1>9, <1>10, <1>11, <1>12, <1>13 DEF Glued
<1>15. ASSUME AllLeadOn(new)
       PROVE  f \in Graph(new, nfa) /\ {a.start} \subseteq Graph(new, nfa)
  <2>1. s \in Graph(new, nfa) /\ Closed(new, Graph(new, nfa))
    BY <1>14, GluedGraph
  <2>2. AllLeadOn(old)
    BY <1>14, <1>15, GluedHeap
  <2>3. a.start \in Graph(new, nfa)
    BY <1>11, <2>1 DEF Closed
  <2>4. \A c \in {a} : c.start \in Graph(new, nfa) => Claims(old, c) \subseteq Graph(new, nfa)
    BY <1>14, <2>2, GluedReach
  <2>5. g \in Graph(new, nfa)
    BY <1>1, <2>3, <2>4
  <2>6. f \in Graph(new, nfa)
    BY <1>12, <2>1, <2>5 DEF Closed
  <2> QED BY <2>3, <2>6
<1> DEFINE outcome == Kleene(old, a, type)
<1>16. outcome.heap = new /\ outcome.nfa = nfa
  BY <1>6
<1> HIDE DEF outcome
<1>17. Makes(old, {a}, outcome)
  BY <1>3, <1>14, <1>15, <1>16 DEF Makes
<1> QED BY <1>17 DEF outcome

\* An operation that glues the automata of some owners leaves sound owners, one instead
\* of those, and loses nothing.
LEMMA MakesSound ==
  ASSUME NEW old, NEW owners, Sound(old, owners), NEW used, used \subseteq owners,
         NEW nfas, nfas = {o.nfa : o \in used},
         NEW outcome, Makes(old, nfas, outcome),
         NEW owner, owner.nfa = outcome.nfa
  PROVE  /\ Sound(outcome.heap, (owners \ used) \cup {owner})
         /\ NothingLost(old, owners) => NothingLost(outcome.heap, (owners \ used) \cup {owner})
         /\ OneFinal(outcome.nfa) /\ IsNFA(outcome.nfa)
<1> DEFINE new == outcome.heap
           nfa == outcome.nfa
<1>1. HeapOK(old) /\ \A a \in nfas : AutomatonOK(old, a)
  BY DEF Sound
<1>2. /\ Glued(old, nfas, new, nfa)
      /\ AllLeadOn(new) => /\ Len(old) + 2 \in Graph(new, nfa)
                           /\ StartsOf(nfas) \subseteq Graph(new, nfa)
  BY DEF Makes
<1>3. ClaimsOf(old, nfas) = Nodes(old, used)
  BY DEF ClaimsOf, Nodes
<1> HIDE DEF new, nfa
<1>4. /\ HeapOK(new)
      /\ AllLeadOn(new) => AllLeadOn(old)
  BY <1>1, <1>2, GluedHeap
<1>5. /\ AutomatonOK(new, nfa)
      /\ OneFinal(nfa)
      /\ IsNFA(nfa)
      /\ Claims(new, nfa) \cap DOMAIN old \subseteq Nodes(old, used)
      /\ AllLeadOn(new) =>
           \A n \in DOMAIN new : (n \in DOMAIN old => n \in Nodes(old, used)) => n \in Graph(new, nfa)
  BY <1>1, <1>2, <1>3, GluedAutomaton
<1>6. Len(old) <= Len(new)
  BY <1>1, <1>2, HeapLength DEF Glued
<1>7. \A n \in DOMAIN old \ Nodes(old, used) : new[n] = old[n]
  <2>1. FinalsOf(nfas) \subseteq Nodes(old, used)
    BY <1>3 DEF FinalsOf, ClaimsOf, Claims
  <2> QED BY <1>2, <2>1 DEF Glued
<1>8. owner.nfa = nfa
  BY DEF nfa
<1>9. Sound(new, (owners \ used) \cup {owner})
  BY <1>4, <1>5, <1>6, <1>7, <1>8, Replaced
<1>10. ASSUME NothingLost(old, owners)
       PROVE  NothingLost(new, (owners \ used) \cup {owner})
  BY <1>4, <1>5, <1>6, <1>7, <1>8, <1>10, ReplacedAll
<1> QED BY <1>5, <1>9, <1>10 DEF new, nfa

\* The numbers of a finite set in their order: each of them once.
LEMMA AscendingFacts ==
  ASSUME NEW set, set \subseteq Nat, IsFiniteSet(set), NEW order, order = Ascending(set)
  PROVE  /\ Cardinality(set) \in Nat /\ DOMAIN order = 1 .. Cardinality(set)
         /\ order = [k \in 1 .. Cardinality(set) |-> order[k]]
         /\ \A k \in DOMAIN order : order[k] \in set
         /\ \A j, k \in DOMAIN order : order[j] = order[k] => j = k
         /\ \A n \in set : \E k \in DOMAIN order : order[k] = n
<1> DEFINE card == Cardinality(set)
           Below(n) == {m \in set : m < n}
           rank == [n \in set |-> Cardinality(Below(n)) + 1]
<1>1. card \in Nat
  BY FS_CardinalityType
<1>2. ASSUME NEW n \in set
      PROVE  Cardinality(Below(n)) \in Nat /\ Cardinality(Below(n)) < card
  <2>1. Below(n) \subseteq set /\ n \notin Below(n)
    OBVIOUS
  <2> HIDE DEF Below
  <2>2. Below(n) # set
    BY <2>1
  <2>3. IsFiniteSet(Below(n)) /\ Cardinality(Below(n)) <= card /\ Cardinality(Below(n)) # card
    BY <2>1, <2>2, FS_Subset
  <2> QED BY <1>1, <2>3, FS_CardinalityType
<1>3. ASSUME NEW m \in set, NEW n \in set, m < n
      PROVE  Cardinality(Below(m)) < Cardinality(Below(n))
  <2>1. Below(m) \subseteq Below(n) /\ Below(m) # Below(n)
    <3>1. m \in Below(n) /\ m \notin Below(m)
      BY <1>3
    <3>2. Below(m) \subseteq Below(n)
      <4> SUFFICES ASSUME NEW k \in set, k < m PROVE k < n
        OBVIOUS
      <4>1. k \in Nat /\ m \in Nat /\ n \in Nat
        OBVIOUS
      <4> QED BY <1>3, <4>1
    <3> QED BY <3>1, <3>2
  <2>2. Below(n) \subseteq set
    OBVIOUS
  <2> HIDE DEF Below
  <2>3. IsFiniteSet(Below(n))
    BY <2>2, FS_Subset
  <2>4. Cardinality(Below(m)) <= Cardinality(Below(n)) /\ Cardinality(Below(m)) # Cardinality(Below(n))
    BY <2>1, <2>3, FS_Subset
  <2> QED BY <1>2, <2>4
<1>4. rank \in Injection(set, 1 .. card)
  <2>1. \A n \in set : rank[n] \in 1 .. card
    BY <1>1, <1>2
  <2>2. \A m, n \in set : rank[m] = rank[n] => m = n
    <3> SUFFICES ASSUME NEW m \in set, NEW n \in set, m # n PROVE rank[m] # rank[n]
      OBVIOUS
    <3> DEFINE x == Cardinality(Below(m))
               y == Cardinality(Below(n))
    <3>1. m \in Nat /\ n \in Nat
      OBVIOUS
    <3>2. rank[m] = x + 1 /\ rank[n] = y + 1
      OBVIOUS
    <3>3. x \in Nat /\ y \in Nat
      BY <1>2
    <3>4. m < n => x < y
      BY <1>3
    <3>5. n < m => y < x
      BY <1>3
    <3> HIDE DEF x, y, rank
    <3> QED BY <3>1, <3>2, <3>3, <3>4, <3>5
  <2>3. rank = [n \in set |-> rank[n]]
    OBVIOUS
  <2> HIDE DEF rank, card
  <2>4. rank \in [set -> 1 .. card]
    BY <2>1, <2>3
  <2> QED BY <2>2, <2>4 DEF Injection, IsInjective
<1>5. rank \in Surjection(set, 1 .. card)
  <2>1. IsFiniteSet(1 .. card) /\ Cardinality(1 .. card) = card
    BY <1>1, FS_Interval
  <2> HIDE DEF rank
  <2> QED BY <1>4, <2>1, FS_Injection
<1>6. DOMAIN order = 1 .. card /\ order = [k \in 1 .. card |-> order[k]]
  <2> DEFINE Pick(k) == CHOOSE n \in set : Cardinality({m \in set : m < n}) = k - 1
  <2>1. order = [k \in 1 .. card |-> Pick(k)]
    BY DEF Ascending
  <2> HIDE DEF Pick
  <2> QED BY <2>1
<1>7. \A k \in 1 .. card : order[k] \in set /\ rank[order[k]] = k
  <2> TAKE k \in 1 .. card
  <2>1. order[k] = CHOOSE n \in set : Cardinality(Below(n)) = k - 1
    BY DEF Ascending
  <2>2. \E n \in set : rank[n] = k
    <3> HIDE DEF rank
    <3> QED BY <1>5 DEF Surjection
  <2>3. PICK n \in set : Cardinality(Below(n)) + 1 = k
    BY <2>2
  <2> DEFINE P(x) == Cardinality(Below(x)) = k - 1
  <2> HIDE DEF Below
  <2>4. P(n)
    BY <1>1, <1>2, <2>3
  <2>5. order[k] \in set /\ P(order[k])
    <3>1. order[k] = CHOOSE x \in set : P(x)
      BY <2>1
    <3> HIDE DEF P
    <3> QED BY <2>4, <3>1
  <2> QED BY <1>1, <2>5 DEF P
<1> HIDE DEF rank
<1>8. \A m, n \in set : rank[m] = rank[n] => m = n
  BY <1>4 DEF Injection, IsInjective
<1>9. \A n \in set : rank[n] \in 1 .. card
  BY <1>4 DEF Injection
<1>10. \A n \in set : order[rank[n]] = n
  BY <1>7, <1>8, <1>9
<1> QED BY <1>1, <1>6, <1>7, <1>9, <1>10 DEF card

\* A copy of an automaton with one final state: at tells where the copy of a node is.
Copied(old, a, lexeme, at, new, nfa) ==
  /\ IsSequence(new) /\ Len(old) <= Len(new)
  /\ \A n \in DOMAIN old : new[n] = old[n]
  /\ {at[n] : n \in Graph(old, a)} = DOMAIN new \ DOMAIN old
  /\ \A n \in Graph(old, a) :
       /\ IsNode(new[at[n]])
       /\ new[at[n]].live = old[n].live
       /\ new[at[n]].accept # 0 <=> old[n].accept # 0
       /\ old[n].links = <<>> => new[at[n]].links = <<>>
       /\ LinkedFrom(new, at[n]) = {at[m] : m \in LinkedFrom(old, n)}
  /\ nfa = Automaton(lexeme, at[a.start], <<at[a.final[1]]>>)

\* A sequence behind another one.
PutBehind(nodes, c, rest, more) ==
  DOMAIN rest = 1 .. c /\ rest = [k \in 1 .. c |-> rest[k]] /\ more = nodes \o rest

\* It is the end of what comes out.
LEMMA MorePut ==
  ASSUME NEW nodes, IsSequence(nodes), NEW c \in Nat, NEW rest, NEW more,
         PutBehind(nodes, c, rest, more)
  PROVE  /\ IsSequence(more) /\ Len(more) = Len(nodes) + c
         /\ DOMAIN more = 1 .. Len(nodes) + c /\ Len(nodes) \in Nat
         /\ DOMAIN nodes = 1 .. Len(nodes)
         /\ \A n \in DOMAIN nodes : more[n] = nodes[n]
         /\ \A k \in 1 .. c : more[Len(nodes) + k] = rest[k]
<1> DEFINE S == ToSet(nodes) \cup {rest[k] : k \in 1 .. c}
<1>0. DOMAIN rest = 1 .. c /\ rest = [k \in 1 .. c |-> rest[k]] /\ more = nodes \o rest
  BY DEF PutBehind
<1>1. nodes \in Seq(S)
  <2>1. nodes \in Seq(ToSet(nodes))
    BY DEF IsSequence
  <2> QED BY <2>1
<1>2. rest \in Seq(S) /\ Len(rest) = c
  <2>1. \A k \in 1 .. c : rest[k] \in S
    OBVIOUS
  <2> HIDE DEF S
  <2> QED BY <1>0, <2>1
<1> HIDE DEF S
<1>3. more \in Seq(S)
  BY <1>0, <1>1, <1>2
<1>4. /\ Len(more) = Len(nodes) + c /\ Len(nodes) \in Nat /\ DOMAIN nodes = 1 .. Len(nodes)
      /\ \A n \in DOMAIN nodes : more[n] = nodes[n]
      /\ \A k \in 1 .. c : more[Len(nodes) + k] = rest[k]
  BY <1>0, <1>1, <1>2
<1> QED BY <1>3, <1>4, SequenceOfItself

\* NFA::Copy copies.
LEMMA CopyCopies ==
  ASSUME NEW old, HeapOK(old), NEW a, AutomatonOK(old, a), OneFinal(a), CanCopy(old, a),
         NEW lexeme, lexeme # 0, NEW outcome, outcome = Copy(old, a, lexeme)
  PROVE  \E at : Copied(old, a, lexeme, at, outcome.heap, outcome.nfa)
<1> DEFINE G == Graph(old, a)
           order == Ascending(G)
           c == Cardinality(G)
           X(graph) ==
             LET new(n) == Len(old) + (CHOOSE k \in DOMAIN graph : graph[k] = n)
                 copy(n) == [old[n] EXCEPT
                               !.accept = IF n \in ToSet(a.final) /\ @ # 0 THEN lexeme ELSE @,
                               !.links  = [k \in DOMAIN @ |-> Link(@[k].on, new(@[k].to))]]
             IN  [heap |-> old \o [k \in DOMAIN graph |-> copy(graph[k])],
                  nfa  |-> Automaton(lexeme, new(a.start), [k \in DOMAIN a.final |-> new(a.final[k])])]
<1>1. outcome = CHOOSE o \in {X(graph) : graph \in {order}} : TRUE
  BY DEF Copy
<1>2. outcome = X(order)
  <2> HIDE DEF X, order
  <2> QED BY <1>1
<1>3. /\ Len(old) \in Nat /\ DOMAIN old = 1 .. Len(old) /\ a.start \in G /\ G \subseteq DOMAIN old
      /\ Closed(old, G) /\ IsSequence(old)
  <2>1. a.start \in DOMAIN old
    BY DEF AutomatonOK
  <2> QED BY <2>1, GraphFacts, HeapLength DEF HeapOK
<1>4. G \subseteq Nat /\ IsFiniteSet(G)
  <2>1. IsFiniteSet(1 .. Len(old))
    BY <1>3, FS_Interval
  <2> QED BY <1>3, <2>1, FS_Subset
<1> DEFINE place == [n \in G |-> CHOOSE k \in DOMAIN order : order[k] = n]
           at == [n \in G |-> Len(old) + place[n]]
           copy(n) == [old[n] EXCEPT
                         !.accept = IF n \in ToSet(a.final) /\ @ # 0 THEN lexeme ELSE @,
                         !.links  = [k \in DOMAIN @ |-> Link(@[k].on, at[@[k].to])]]
           rest == [k \in DOMAIN order |-> copy(order[k])]
           new == old \o rest
           nfa == Automaton(lexeme, at[a.start], <<at[a.final[1]]>>)
<1>5. /\ c \in Nat /\ DOMAIN order = 1 .. c
      /\ \A k \in 1 .. c : order[k] \in G
      /\ \A j, k \in 1 .. c : order[j] = order[k] => j = k
      /\ \A n \in G : \E k \in 1 .. c : order[k] = n
  <2> HIDE DEF G
  <2> QED BY <1>4, AscendingFacts
<1>6. \A n \in G : place[n] \in 1 .. c /\ order[place[n]] = n
  <2> HIDE DEF order, G
  <2> QED BY <1>5
<1>7. \A k \in 1 .. c : place[order[k]] = k
  <2> HIDE DEF order, place, G
  <2> QED BY <1>5, <1>6
<1>8. \A n \in G : \A k \in DOMAIN old[n].links : old[n].links[k].to \in G
  BY <1>3 DEF Closed, LinkedFrom
<1>9. a.final = <<a.final[1]>> /\ a.final[1] \in G
  BY DEF OneFinal, CanCopy, ToSet
<1> DEFINE new1(n) == Len(old) + (CHOOSE k \in DOMAIN order : order[k] = n)
<1>10. \A n \in G : new1(n) = at[n]
  BY DEF place
<1> DEFINE copy1(n) == [old[n] EXCEPT
                         !.accept = IF n \in ToSet(a.final) /\ @ # 0 THEN lexeme ELSE @,
                         !.links  = [k \in DOMAIN @ |-> Link(@[k].on, new1(@[k].to))]]
<1>11. \A n \in G : copy1(n) = copy(n)
  <2> TAKE n \in G
  <2> HIDE DEF new1, at
  <2>1. [k \in DOMAIN old[n].links |-> Link(old[n].links[k].on, new1(old[n].links[k].to))]
          = [k \in DOMAIN old[n].links |-> Link(old[n].links[k].on, at[old[n].links[k].to])]
    BY <1>8, <1>10
  <2> QED BY <2>1
<1>12. outcome.heap = new
  <2> DEFINE behind == [k \in DOMAIN order |-> copy1(order[k])]
             made1 == Automaton(lexeme, new1(a.start), [k \in DOMAIN a.final |-> new1(a.final[k])])
  <2>0. X(order) = [heap |-> old \o behind, nfa |-> made1]
    OBVIOUS
  <2> HIDE DEF behind, made1, X
  <2>1. outcome.heap = old \o behind
    BY <1>2, <2>0
  <2> HIDE DEF copy1, copy, order
  <2>2. behind = rest
    BY <1>5, <1>11 DEF behind
  <2> QED BY <2>1, <2>2
<1>13. outcome.nfa = nfa
  <2> DEFINE behind == [k \in DOMAIN order |-> copy1(order[k])]
             made1 == Automaton(lexeme, new1(a.start), [k \in DOMAIN a.final |-> new1(a.final[k])])
  <2>0. X(order) = [heap |-> old \o behind, nfa |-> made1]
    OBVIOUS
  <2> HIDE DEF behind, made1, X
  <2>1. outcome.nfa = Automaton(lexeme, new1(a.start), [k \in DOMAIN a.final |-> new1(a.final[k])])
    BY <1>2, <2>0 DEF made1
  <2> HIDE DEF new1, at
  <2>2. [k \in DOMAIN a.final |-> new1(a.final[k])] = <<at[a.final[1]]>>
    <3>1. DOMAIN a.final = {1}
      BY <1>9
    <3> QED BY <1>9, <1>10, <3>1
  <2> QED BY <1>3, <1>10, <2>1, <2>2
<1>14. /\ IsSequence(new) /\ Len(new) = Len(old) + c
       /\ DOMAIN new = 1 .. Len(old) + c
       /\ \A n \in DOMAIN old : new[n] = old[n]
       /\ \A k \in 1 .. c : new[Len(old) + k] = copy(order[k])
  <2>1. DOMAIN rest = 1 .. c /\ rest = [k \in 1 .. c |-> rest[k]]
    BY <1>5
  <2>2. \A k \in 1 .. c : rest[k] = copy(order[k])
    BY <1>5
  <2>3. PutBehind(old, c, rest, new)
    BY <2>1 DEF PutBehind
  <2> HIDE DEF rest, new, copy, c, order, at
  <2>4. /\ IsSequence(new) /\ Len(new) = Len(old) + c
        /\ DOMAIN new = 1 .. Len(old) + c
        /\ \A n \in DOMAIN old : new[n] = old[n]
        /\ \A k \in 1 .. c : new[Len(old) + k] = rest[k]
    BY <1>3, <1>5, <2>3, MorePut
  <2> QED BY <2>2, <2>4
<1>15. \A n \in G : at[n] = Len(old) + place[n]
  OBVIOUS
<1> HIDE DEF new, rest, order, place, at, c, G, copy, X, new1, copy1, nfa
<1>16. \A n \in G : new[at[n]] = copy(n)
  <2> QED BY <1>6, <1>14, <1>15
<1>17. {at[n] : n \in G} = DOMAIN new \ DOMAIN old
  <2>1. \A n \in G : at[n] \in DOMAIN new \ DOMAIN old
    <3> TAKE n \in G
    <3>1. place[n] \in 1 .. c /\ at[n] = Len(old) + place[n] /\ c \in Nat
      BY <1>5, <1>6, <1>15
    <3>2. at[n] \in 1 .. Len(old) + c /\ at[n] \notin 1 .. Len(old)
      BY <1>3, <3>1
    <3> QED BY <1>3, <1>14, <3>2
  <2>2. ASSUME NEW m \in DOMAIN new \ DOMAIN old
        PROVE  \E n \in G : at[n] = m
    <3>1. m - Len(old) \in 1 .. c /\ m = Len(old) + (m - Len(old))
      <4>1. m \in 1 .. Len(old) + c /\ m \notin 1 .. Len(old) /\ Len(old) \in Nat /\ c \in Nat
        BY <1>3, <1>5, <1>14
      <4> QED BY <4>1
    <3>2. order[m - Len(old)] \in G /\ place[order[m - Len(old)]] = m - Len(old)
      BY <1>5, <1>7, <3>1
    <3> QED BY <1>15, <3>1, <3>2
  <2> QED BY <2>1, <2>2
<1>18. ASSUME NEW n \in G
       PROVE  /\ IsNode(new[at[n]])
              /\ new[at[n]].live = old[n].live
              /\ new[at[n]].accept # 0 <=> old[n].accept # 0
              /\ old[n].links = <<>> => new[at[n]].links = <<>>
              /\ LinkedFrom(new, at[n]) = {at[m] : m \in LinkedFrom(old, n)}
  <2> DEFINE links == [k \in DOMAIN old[n].links |-> Link(old[n].links[k].on, at[old[n].links[k].to])]
             accept == IF n \in ToSet(a.final) /\ old[n].accept # 0 THEN lexeme ELSE old[n].accept
  <2>1. IsNode(old[n])
    BY <1>3 DEF HeapOK
  <2>2. copy(n) = [live |-> old[n].live, accept |-> accept, links |-> links]
    <3>1. old[n] = [live |-> old[n].live, accept |-> old[n].accept, links |-> old[n].links]
      BY <2>1 DEF IsNode
    <3>2. copy(n) = [old[n] EXCEPT !.accept = accept, !.links = links]
      BY DEF copy
    <3> HIDE DEF accept, links
    <3> QED BY <3>1, <3>2
  <2>3. DOMAIN links = DOMAIN old[n].links /\ \A k \in DOMAIN links : links[k].to = at[old[n].links[k].to]
    BY DEF Link
  <2>4. old[n].links = <<>> => links = <<>>
    BY <2>3
  <2> HIDE DEF links
  <2>5. new[at[n]] = [live |-> old[n].live, accept |-> accept, links |-> links]
    BY <1>16, <2>2
  <2>6. accept # 0 <=> old[n].accept # 0
    OBVIOUS
  <2> HIDE DEF accept
  <2>7. LinkedFrom(new, at[n]) = {links[k].to : k \in DOMAIN links}
    BY <2>5 DEF LinkedFrom
  <2>8. {links[k].to : k \in DOMAIN links} = {at[m] : m \in LinkedFrom(old, n)}
    BY <2>3 DEF LinkedFrom
  <2>9. IsNode(new[at[n]])
    BY <2>5 DEF IsNode
  <2>10. new[at[n]].live = old[n].live /\ new[at[n]].accept = accept /\ new[at[n]].links = links
    BY <2>5
  <2> QED BY <2>4, <2>6, <2>7, <2>8, <2>9, <2>10
<1>19. Copied(old, a, lexeme, at, new, nfa)
  <2>1. nfa = Automaton(lexeme, at[a.start], <<at[a.final[1]]>>)
    BY DEF nfa
  <2>2. Len(old) <= Len(new)
    BY <1>3, <1>5, <1>14
  <2> QED BY <1>14, <1>17, <1>18, <2>1, <2>2 DEF Copied, G
<1> QED BY <1>12, <1>13, <1>19

\* The copy is sound, it has all the new nodes and no others.
LEMMA CopiedAutomaton ==
  ASSUME NEW old, HeapOK(old), NEW a, AutomatonOK(old, a), OneFinal(a), CanCopy(old, a),
         NEW lexeme, lexeme # 0, NEW at, NEW new, NEW nfa, Copied(old, a, lexeme, at, new, nfa)
  PROVE  /\ HeapOK(new) /\ Len(old) <= Len(new)
         /\ AllLeadOn(new) => AllLeadOn(old)
         /\ \A n \in DOMAIN old : new[n] = old[n]
         /\ AutomatonOK(new, nfa) /\ OneFinal(nfa) /\ IsNFA(nfa)
         /\ Claims(new, nfa) \cap DOMAIN old = {}
         /\ \A n \in DOMAIN new \ DOMAIN old : n \in Graph(new, nfa)
<1> DEFINE G == Graph(old, a)
           g == a.final[1]
           f == at[g]
<1>1. /\ Len(old) \in Nat /\ DOMAIN old = 1 .. Len(old) /\ a.start \in G /\ G \subseteq DOMAIN old
      /\ Closed(old, G)
  <2>1. a.start \in DOMAIN old
    BY DEF AutomatonOK
  <2> QED BY <2>1, GraphFacts, HeapLength
<1>2. /\ IsSequence(new) /\ Len(old) <= Len(new)
      /\ \A n \in DOMAIN old : new[n] = old[n]
      /\ {at[n] : n \in G} = DOMAIN new \ DOMAIN old
      /\ \A n \in G :
           /\ IsNode(new[at[n]])
           /\ new[at[n]].live = old[n].live
           /\ new[at[n]].accept # 0 <=> old[n].accept # 0
           /\ old[n].links = <<>> => new[at[n]].links = <<>>
           /\ LinkedFrom(new, at[n]) = {at[m] : m \in LinkedFrom(old, n)}
      /\ nfa = Automaton(lexeme, at[a.start], <<f>>)
  BY DEF Copied
<1>3. DOMAIN new = 1 .. Len(new) /\ Len(new) \in Nat /\ DOMAIN old \subseteq DOMAIN new
  <2>1. DOMAIN new = 1 .. Len(new) /\ Len(new) \in Nat
    BY <1>2, LenProperties DEF IsSequence
  <2> QED BY <1>1, <1>2, <2>1
<1>4. g \in G /\ old[g].accept # 0 /\ old[g].links = <<>>
  <2>1. a.final = <<g>>
    BY DEF OneFinal
  <2>2. g \in ToSet(a.final)
    BY <2>1 DEF ToSet
  <2> QED BY <2>2 DEF CanCopy, AutomatonOK
<1>5. nfa.lexeme = lexeme /\ nfa.start = at[a.start] /\ nfa.final = <<f>> /\ ToSet(nfa.final) = {f}
  <2>1. nfa.lexeme = lexeme /\ nfa.start = at[a.start] /\ nfa.final = <<f>>
    BY <1>2 DEF Automaton
  <2> QED BY <2>1 DEF ToSet
<1>6. \A n \in G : old[n].live
  BY DEF AutomatonOK, Claims
<1> HIDE DEF f, g, G
<1>7. \A m \in DOMAIN new \ DOMAIN old : \E n \in G : m = at[n]
  BY <1>2
<1>8. \A n \in G : at[n] \in DOMAIN new \ DOMAIN old
  BY <1>2
<1>9. \A n \in G : LinkedFrom(old, n) \subseteq G
  BY <1>1 DEF Closed
<1>10. \A n \in DOMAIN old : LinkedFrom(new, n) = LinkedFrom(old, n)
  BY <1>2 DEF LinkedFrom
<1>11. HeapOK(new)
  <2>1. ASSUME NEW m \in DOMAIN new
        PROVE  IsNode(new[m]) /\ new[m].live \in BOOLEAN /\ LinkedFrom(new, m) \subseteq DOMAIN new
    <3>1. CASE m \in DOMAIN old
      <4>1. IsNode(old[m]) /\ old[m].live \in BOOLEAN /\ LinkedFrom(old, m) \subseteq DOMAIN old
        BY <3>1 DEF HeapOK
      <4> QED BY <1>2, <1>3, <1>10, <3>1, <4>1
    <3>2. CASE m \notin DOMAIN old
      <4>1. PICK n \in G : m = at[n]
        BY <1>7, <3>2
      <4>2. old[n].live \in BOOLEAN
        BY <1>1 DEF HeapOK
      <4>3. IsNode(new[m]) /\ new[m].live \in BOOLEAN
        BY <1>2, <4>1, <4>2
      <4>4. LinkedFrom(new, m) = {at[k] : k \in LinkedFrom(old, n)}
        BY <1>2, <4>1
      <4>5. LinkedFrom(new, m) \subseteq DOMAIN new
        BY <1>8, <1>9, <4>4
      <4> QED BY <4>3, <4>5
    <3> QED BY <3>1, <3>2
  <2> QED BY <1>2, <2>1 DEF HeapOK
<1>12. AllLeadOn(new) => AllLeadOn(old)
  BY <1>2, <1>3 DEF AllLeadOn
<1>13. nfa.start \in DOMAIN new \ DOMAIN old
  BY <1>1, <1>5, <1>8
<1>14. Graph(new, nfa) \subseteq DOMAIN new \ DOMAIN old
  <2> DEFINE T == {at[n] : n \in G}
  <2>1. T = DOMAIN new \ DOMAIN old
    BY <1>2
  <2>2. \A m \in T : LinkedFrom(new, m) \subseteq T
    <3> TAKE m \in T
    <3>1. PICK n \in G : m = at[n]
      OBVIOUS
    <3>2. LinkedFrom(new, m) = {at[k] : k \in LinkedFrom(old, n)}
      BY <1>2, <3>1
    <3> QED BY <1>9, <3>2
  <2> HIDE DEF T
  <2>3. Closed(new, T)
    BY <2>2 DEF Closed
  <2>4. nfa.start \in T /\ nfa.start \in DOMAIN new
    BY <1>13, <2>1
  <2> QED BY <1>11, <2>1, <2>3, <2>4, GraphFacts
<1>15. \A n \in G : at[n] \in Graph(new, nfa)
  <2> DEFINE S == {n \in G : at[n] \in Graph(new, nfa)}
  <2>1. nfa.start \in Graph(new, nfa) /\ Closed(new, Graph(new, nfa))
    BY <1>11, <1>13, GraphFacts
  <2>2. a.start \in S
    BY <1>1, <1>5, <2>1
  <2>3. \A n \in S : LinkedFrom(old, n) \subseteq S
    <3> SUFFICES ASSUME NEW n \in S, NEW m \in LinkedFrom(old, n) PROVE m \in S
      OBVIOUS
    <3>1. m \in G
      BY <1>9
    <3>2. at[m] \in LinkedFrom(new, at[n])
      BY <1>2
    <3>3. at[m] \in Graph(new, nfa)
      BY <2>1, <3>2 DEF Closed
    <3> QED BY <3>1, <3>3
  <2> HIDE DEF S
  <2>4. Closed(old, S)
    BY <2>3 DEF Closed
  <2>5. a.start \in DOMAIN old
    BY <1>1
  <2>6. G \subseteq S
    BY <2>2, <2>4, <2>5, GraphFacts DEF G
  <2> QED BY <2>6 DEF S
<1>16. \A n \in DOMAIN new \ DOMAIN old : n \in Graph(new, nfa)
  BY <1>7, <1>15
<1>17. f \in DOMAIN new \ DOMAIN old /\ f \in Graph(new, nfa)
       /\ new[f].accept # 0 /\ new[f].links = <<>>
  BY <1>2, <1>4, <1>8, <1>15 DEF f
<1>18. Claims(new, nfa) = Graph(new, nfa)
  BY <1>5, <1>17 DEF Claims
<1>19. \A n \in Graph(new, nfa) : new[n].live
  <2> TAKE m \in Graph(new, nfa)
  <2>1. PICK n \in G : m = at[n]
    BY <1>7, <1>14
  <2> QED BY <1>2, <1>6, <2>1
<1>20. AutomatonOK(new, nfa)
  <2>1. nfa = Automaton(nfa.lexeme, nfa.start, nfa.final)
    BY <1>2, <1>5
  <2> QED BY <1>5, <1>13, <1>17, <1>18, <1>19, <2>1 DEF AutomatonOK
<1>21. OneFinal(nfa) /\ IsNFA(nfa)
  <2>1. nfa.final = <<nfa.final[1]>>
    BY <1>5
  <2>2. "start" \in DOMAIN nfa
    BY <1>2 DEF Automaton
  <2> QED BY <1>5, <2>1, <2>2 DEF OneFinal, IsNFA
<1> QED BY <1>2, <1>11, <1>12, <1>14, <1>16, <1>18, <1>20, <1>21

\* A copy joins the owners.
LEMMA CopySound ==
  ASSUME NEW old, NEW owners, Sound(old, owners), NEW source \in owners,
         NEW a, a = source.nfa, OneFinal(a), CanCopy(old, a),
         NEW lexeme, lexeme # 0, NEW outcome, outcome = Copy(old, a, lexeme),
         NEW owner, owner.nfa = outcome.nfa
  PROVE  /\ Sound(outcome.heap, owners \cup {owner})
         /\ NothingLost(old, owners) => NothingLost(outcome.heap, owners \cup {owner})
         /\ OneFinal(outcome.nfa) /\ IsNFA(outcome.nfa)
<1> DEFINE new == outcome.heap
           nfa == outcome.nfa
<1>1. HeapOK(old) /\ AutomatonOK(old, a)
  BY DEF Sound
<1>2. PICK at : Copied(old, a, lexeme, at, new, nfa)
  BY <1>1, CopyCopies
<1> HIDE DEF new, nfa
<1>3. /\ HeapOK(new) /\ Len(old) <= Len(new)
      /\ AllLeadOn(new) => AllLeadOn(old)
      /\ \A n \in DOMAIN old : new[n] = old[n]
      /\ AutomatonOK(new, nfa) /\ OneFinal(nfa) /\ IsNFA(nfa)
      /\ Claims(new, nfa) \cap DOMAIN old = {}
      /\ \A n \in DOMAIN new \ DOMAIN old : n \in Graph(new, nfa)
  BY <1>1, <1>2, CopiedAutomaton
<1>4. owner.nfa = nfa
  BY DEF nfa
<1> DEFINE used == {}
<1>5. used \subseteq owners /\ Nodes(old, used) = {} /\ (owners \ used) = owners
  BY DEF Nodes
<1> HIDE DEF used
<1>6. Sound(new, (owners \ used) \cup {owner})
  BY <1>3, <1>4, <1>5, Replaced
<1>7. ASSUME NothingLost(old, owners)
      PROVE  NothingLost(new, (owners \ used) \cup {owner})
  <2>1. AllLeadOn(new) =>
           \A n \in DOMAIN new : new[n].live /\ (n \in DOMAIN old => n \in Nodes(old, used)) =>
             n \in Graph(new, owner.nfa)
    BY <1>3, <1>4, <1>5
  <2>2. \A n \in DOMAIN old \ Nodes(old, used) : new[n] = old[n]
    BY <1>3
  <2> QED BY <1>3, <1>5, <1>7, <2>1, <2>2, ReplacedAll
<1> QED BY <1>3, <1>5, <1>6, <1>7 DEF new, nfa

\* Sequences of one element each, put behind each other.
LEMMA FlattenSingletons ==
  ASSUME NEW n \in Nat, NEW x, NEW seqs, seqs = [k \in 1 .. n |-> <<x[k]>>]
  PROVE  ToSet(FlattenSeq(seqs)) = {x[k] : k \in 1 .. n}
<1> DEFINE S == {x[k] : k \in 1 .. n}
           Start(i) == [k \in 1 .. i |-> x[k]]
           Fits(f) == f = [i \in 1 .. n |-> IF i = 1 THEN seqs[i] ELSE f[i - 1] \o seqs[i]]
           F == [i \in 1 .. n |-> Start(i)]
           flatten == CHOOSE f : Fits(f)
<1>1. Len(seqs) = n /\ \A k \in 1 .. n : seqs[k] = <<x[k]>>
  OBVIOUS
<1>2. \A k \in 1 .. n : x[k] \in S
  OBVIOUS
<1>3. FlattenSeq(seqs) = IF n = 0 THEN seqs ELSE flatten[n]
  BY <1>1 DEF FlattenSeq
<1> HIDE DEF S
<1>4. \A i \in 1 .. n : Start(i) \in Seq(S) /\ Len(Start(i)) = i
  BY <1>2
<1>5. \A i \in 1 .. n : i # 1 => Start(i - 1) \o <<x[i]>> = Start(i)
  <2> TAKE i \in 1 .. n
  <2> HAVE i # 1
  <2> DEFINE s == Start(i - 1)
             t == s \o <<x[i]>>
             u == Start(i)
  <2>1. i - 1 \in 1 .. n
    OBVIOUS
  <2>2. s \in Seq(S) /\ Len(s) = i - 1 /\ u \in Seq(S) /\ Len(u) = i
    BY <1>4, <2>1
  <2>3. \A k \in 1 .. i - 1 : s[k] = x[k]
    OBVIOUS
  <2>4. \A k \in 1 .. i : u[k] = x[k]
    OBVIOUS
  <2> HIDE DEF s, u
  <2>5. t \in Seq(S) /\ Len(t) = i /\ t[i] = x[i] /\ \A k \in 1 .. i - 1 : t[k] = s[k]
    BY <1>2, <2>2
  <2> HIDE DEF t
  <2>6. \A k \in 1 .. i : t[k] = u[k]
    BY <2>3, <2>4, <2>5
  <2>7. t = u
    BY <2>2, <2>5, <2>6, SeqEqual
  <2> QED BY <2>7 DEF t, u, s
<1>6. n > 0 => Start(1) = <<x[1]>>
  <2> SUFFICES ASSUME n > 0 PROVE Start(1) = <<x[1]>>
    OBVIOUS
  <2> DEFINE u == Start(1)
             t == <<x[1]>>
  <2>1. u \in Seq(S) /\ Len(u) = 1 /\ u[1] = x[1]
    BY <1>4
  <2>2. t \in Seq(S) /\ Len(t) = 1 /\ t[1] = x[1]
    BY <1>2
  <2> HIDE DEF u, t
  <2>3. \A k \in 1 .. 1 : t[k] = u[k]
    BY <2>1, <2>2
  <2>4. t = u
    BY <2>1, <2>2, <2>3, SeqEqual
  <2> QED BY <2>4 DEF t, u
<1>7. Fits(F)
  <2>1. \A i \in 1 .. n : F[i] = IF i = 1 THEN seqs[i] ELSE F[i - 1] \o seqs[i]
    <3> TAKE i \in 1 .. n
    <3>1. F[i] = Start(i) /\ (i # 1 => F[i - 1] = Start(i - 1))
      OBVIOUS
    <3>2. i # 1 => i - 1 \in 1 .. n
      OBVIOUS
    <3> HIDE DEF F, Start, Fits
    <3>3. CASE i = 1
      BY <1>1, <1>6, <3>1, <3>3
    <3>4. CASE i # 1
      BY <1>1, <1>5, <3>1, <3>4
    <3> QED BY <3>3, <3>4
  <2> QED BY <2>1
<1>8. \A i \in 1 .. n : flatten[i] = IF i = 1 THEN seqs[i] ELSE flatten[i - 1] \o seqs[i]
  <2>1. Fits(flatten)
    <3> HIDE DEF F, Fits
    <3> QED BY <1>7
  <2> HIDE DEF flatten
  <2> QED BY <2>1
<1> HIDE DEF flatten, Start
<1>9. \A i \in 1 .. n : flatten[i] = Start(i)
  <2> DEFINE T == {i \in 1 .. n : flatten[i] # Start(i)}
  <2> SUFFICES ASSUME T # {} PROVE FALSE
    OBVIOUS
  <2>1. PICK i \in T : \A j \in T : i <= j
    <3>1. T \subseteq Nat
      OBVIOUS
    <3> HIDE DEF T
    <3> QED BY <3>1, LeastOf
  <2>2. i # 1
    BY <1>1, <1>6, <1>8, <2>1
  <2>3. i - 1 \in 1 .. n /\ i - 1 \notin T
    BY <2>1, <2>2
  <2> QED BY <1>1, <1>5, <1>8, <2>1, <2>2, <2>3
<1>10. CASE n = 0
  <2>1. FlattenSeq(seqs) = seqs /\ DOMAIN seqs = {}
    BY <1>3, <1>10
  <2> HIDE DEF flatten
  <2>2. ToSet(FlattenSeq(seqs)) = {}
    BY <2>1 DEF ToSet
  <2> QED BY <1>10, <2>2
<1>11. CASE n # 0
  <2>1. FlattenSeq(seqs) = Start(n)
    BY <1>3, <1>9, <1>11
  <2>2. DOMAIN Start(n) = 1 .. n /\ \A k \in 1 .. n : Start(n)[k] = x[k]
    BY DEF Start
  <2> QED BY <2>1, <2>2 DEF ToSet
<1> QED BY <1>10, <1>11

\* One node more.
OneBehind(nodes, x, more) == more = Append(nodes, x)

\* It has the place behind the others.
LEMMA OnePut ==
  ASSUME NEW nodes, IsSequence(nodes), NEW x, NEW more, OneBehind(nodes, x, more)
  PROVE  /\ IsSequence(more) /\ Len(more) = Len(nodes) + 1
         /\ DOMAIN more = 1 .. Len(nodes) + 1 /\ Len(nodes) \in Nat
         /\ DOMAIN nodes = 1 .. Len(nodes)
         /\ \A n \in DOMAIN nodes : more[n] = nodes[n]
         /\ more[Len(nodes) + 1] = x
<1> DEFINE S == ToSet(nodes) \cup {x}
<1>1. nodes \in Seq(S) /\ x \in S
  <2>1. nodes \in Seq(ToSet(nodes))
    BY DEF IsSequence
  <2> QED BY <2>1
<1> HIDE DEF S
<1>0. more = Append(nodes, x)
  BY DEF OneBehind
<1>2. more \in Seq(S)
  BY <1>0, <1>1
<1>3. /\ Len(more) = Len(nodes) + 1 /\ Len(nodes) \in Nat /\ DOMAIN nodes = 1 .. Len(nodes)
      /\ \A n \in DOMAIN nodes : more[n] = nodes[n]
      /\ more[Len(nodes) + 1] = x
  BY <1>0, <1>1
<1> QED BY <1>2, <1>3, SequenceOfItself

\* The automata of some owners in a list.
ListOf(list, used) ==
  /\ IsSequence(list)
  /\ {list[k] : k \in DOMAIN list} = {o.nfa : o \in used}
  /\ \A k \in DOMAIN list : OneFinal(list[k])

\* DFAGen::CombineNFAs: they get one start node.
LEMMA CombineSound ==
  ASSUME NEW old, NEW owners, Sound(old, owners), NEW used, used \subseteq owners,
         NEW list, ListOf(list, used), NEW outcome, outcome = CombineNFAs(old, list),
         NEW owner, owner.nfa = outcome.nfa
  PROVE  /\ Sound(outcome.heap, (owners \ used) \cup {owner})
         /\ NothingLost(old, owners) => NothingLost(outcome.heap, (owners \ used) \cup {owner})
         /\ outcome.nfa.start # 0
<1> DEFINE s == Len(old) + 1
           links == [k \in DOMAIN list |-> Link(Epsilon, list[k].start)]
           final == FlattenSeq([k \in DOMAIN list |-> list[k].final])
           x == Node(0, links)
           new == Append(old, x)
           nfa == Automaton(1, s, final)
           C == Nodes(old, used)
<1>0. /\ IsSequence(list)
      /\ {list[k] : k \in DOMAIN list} = {o.nfa : o \in used}
      /\ \A k \in DOMAIN list : OneFinal(list[k])
  BY DEF ListOf
<1>1. outcome.heap = new /\ outcome.nfa = nfa
  BY DEF CombineNFAs
<1>2. HeapOK(old) /\ IsSequence(old) /\ \A k \in DOMAIN list : AutomatonOK(old, list[k])
  <2>1. \A k \in DOMAIN list : \E o \in used : list[k] = o.nfa
    BY <1>0
  <2> QED BY <2>1 DEF Sound, HeapOK
<1>3. C = UNION {Claims(old, list[k]) : k \in DOMAIN list}
  <2>1. \A k \in DOMAIN list : \E o \in used : list[k] = o.nfa
    BY <1>0
  <2>2. \A o \in used : \E k \in DOMAIN list : list[k] = o.nfa
    BY <1>0
  <2>3. C \subseteq UNION {Claims(old, list[k]) : k \in DOMAIN list}
    BY <2>2 DEF Nodes
  <2>4. UNION {Claims(old, list[k]) : k \in DOMAIN list} \subseteq C
    BY <2>1 DEF Nodes
  <2> QED BY <2>3, <2>4
<1>4. ToSet(final) = {list[k].final[1] : k \in DOMAIN list}
  <2> DEFINE n == Len(list)
             at == [k \in 1 .. n |-> list[k].final[1]]
             seqs == [k \in DOMAIN list |-> list[k].final]
  <2>1. n \in Nat /\ DOMAIN list = 1 .. n
    BY <1>0, LenProperties DEF IsSequence
  <2> HIDE DEF n
  <2>2. \A k \in 1 .. n : list[k].final = <<at[k]>>
    BY <1>0, <2>1 DEF OneFinal
  <2>3. \A k \in 1 .. n : at[k] = list[k].final[1]
    OBVIOUS
  <2> HIDE DEF at
  <2>4. seqs = [k \in 1 .. n |-> <<at[k]>>]
    BY <2>1, <2>2
  <2> HIDE DEF seqs
  <2>5. ToSet(FlattenSeq(seqs)) = {at[k] : k \in 1 .. n}
    BY <2>1, <2>4, FlattenSingletons
  <2> QED BY <2>1, <2>3, <2>5 DEF seqs
<1>5. /\ IsSequence(new) /\ Len(new) = Len(old) + 1 /\ Len(old) \in Nat
      /\ DOMAIN old = 1 .. Len(old) /\ DOMAIN new = 1 .. Len(old) + 1
      /\ \A n \in DOMAIN old : new[n] = old[n]
      /\ new[s] = x
  <2>1. OneBehind(old, x, new)
    BY DEF OneBehind
  <2> HIDE DEF x, new
  <2> QED BY <1>2, <2>1, OnePut
<1>6. \A k \in DOMAIN list : /\ list[k].start \in DOMAIN old
                             /\ list[k].start \in Graph(old, list[k])
                             /\ Graph(old, list[k]) \subseteq DOMAIN old
                             /\ Closed(old, Graph(old, list[k]))
  <2> TAKE k \in DOMAIN list
  <2>1. list[k].start \in DOMAIN old
    BY <1>2 DEF AutomatonOK
  <2> QED BY <1>2, <2>1, GraphFacts
<1>7. \A k \in DOMAIN list : list[k].final[1] \in ToSet(list[k].final)
  <2> TAKE k \in DOMAIN list
  <2>1. list[k].final = <<list[k].final[1]>>
    BY <1>0 DEF OneFinal
  <2> QED BY <2>1 DEF ToSet
<1>8. nfa.start = s /\ nfa.final = final /\ nfa = Automaton(nfa.lexeme, nfa.start, nfa.final)
  BY DEF Automaton
<1>9. LinkedFrom(new, s) = {list[k].start : k \in DOMAIN list} /\ new[s].live = TRUE /\ IsNode(new[s])
  <2>1. new[s].links = links /\ new[s].live = TRUE /\ IsNode(new[s])
    <3>1. new[s] = Node(0, links)
      BY <1>5
    <3> HIDE DEF new, links
    <3>2. new[s] = [live |-> TRUE, accept |-> 0, links |-> links]
      BY <3>1 DEF Node
    <3>3. new[s].live = TRUE /\ new[s].accept = 0 /\ new[s].links = links
      BY <3>2
    <3> QED BY <3>2, <3>3 DEF IsNode
  <2>2. DOMAIN links = DOMAIN list /\ \A k \in DOMAIN list : links[k].to = list[k].start
    BY DEF Link
  <2> HIDE DEF links
  <2> QED BY <2>1, <2>2 DEF LinkedFrom
<1> HIDE DEF new, nfa, x, final, links, C
<1>10. \A n \in DOMAIN old : LinkedFrom(new, n) = LinkedFrom(old, n)
  BY <1>5 DEF LinkedFrom
<1>11. HeapOK(new)
  <2>1. ASSUME NEW n \in DOMAIN new
        PROVE  IsNode(new[n]) /\ new[n].live \in BOOLEAN /\ LinkedFrom(new, n) \subseteq DOMAIN new
    <3>1. CASE n \in DOMAIN old
      <4>1. IsNode(old[n]) /\ old[n].live \in BOOLEAN /\ LinkedFrom(old, n) \subseteq DOMAIN old
        BY <1>2, <3>1 DEF HeapOK
      <4> QED BY <1>5, <1>10, <3>1, <4>1
    <3>2. CASE n = s
      <4>1. LinkedFrom(new, s) \subseteq DOMAIN old /\ DOMAIN old \subseteq DOMAIN new
        BY <1>5, <1>6, <1>9
      <4>2. new[s].live \in BOOLEAN
        BY <1>9
      <4> QED BY <1>9, <3>2, <4>1, <4>2
    <3> QED BY <1>5, <3>1, <3>2
  <2> QED BY <1>5, <2>1 DEF HeapOK
<1>12. AllLeadOn(new) => AllLeadOn(old)
  BY <1>5 DEF AllLeadOn
<1>13. s \in DOMAIN new /\ s \notin DOMAIN old
  BY <1>5
<1>14. Graph(new, nfa) \subseteq {s} \cup C
  <2> DEFINE S == {s} \cup UNION {Graph(old, list[k]) : k \in DOMAIN list}
  <2>1. \A n \in S : LinkedFrom(new, n) \subseteq S
    <3> TAKE n \in S
    <3>1. CASE n = s
      BY <1>6, <1>9, <3>1
    <3>2. CASE n # s
      <4>1. PICK k \in DOMAIN list : n \in Graph(old, list[k])
        BY <3>2
      <4>2. LinkedFrom(old, n) \subseteq Graph(old, list[k]) /\ n \in DOMAIN old
        BY <1>6, <4>1 DEF Closed
      <4> QED BY <1>10, <4>1, <4>2
    <3> QED BY <3>1, <3>2
  <2>2. nfa.start \in S /\ nfa.start \in DOMAIN new
    BY <1>8, <1>13
  <2>3. S \subseteq {s} \cup C
    BY <1>3 DEF Claims
  <2> HIDE DEF S
  <2>4. Closed(new, S)
    BY <2>1 DEF Closed
  <2>5. Graph(new, nfa) \subseteq S
    BY <1>11, <2>2, <2>4, GraphFacts
  <2> QED BY <2>3, <2>5
<1>15. s \in Graph(new, nfa) /\ Closed(new, Graph(new, nfa))
  BY <1>8, <1>11, <1>13, GraphFacts
<1>16. \A k \in DOMAIN list : Graph(old, list[k]) \subseteq Graph(new, nfa)
  <2> TAKE k \in DOMAIN list
  <2>1. list[k].start \in Graph(new, nfa)
    BY <1>9, <1>15 DEF Closed
  <2>2. \A n \in Graph(new, nfa) : n \in DOMAIN old => LinkedFrom(old, n) \subseteq Graph(new, nfa)
    BY <1>10, <1>15 DEF Closed
  <2> QED BY <1>2, <1>6, <2>1, <2>2, GraphInside
<1>17. ToSet(final) \subseteq C
  BY <1>3, <1>4, <1>7 DEF Claims
<1>18. \A n \in C : n \in DOMAIN old /\ old[n].live
  <2> TAKE n \in C
  <2>1. PICK k \in DOMAIN list : n \in Claims(old, list[k])
    BY <1>3
  <2> QED BY <1>2, <1>6, <2>1 DEF AutomatonOK, Claims
<1>19. AutomatonOK(new, nfa)
  <2>1. ASSUME NEW f \in ToSet(final)
        PROVE  f \in DOMAIN new /\ new[f].accept # 0 /\ new[f].links = <<>>
    <3>1. PICK k \in DOMAIN list : f = list[k].final[1]
      BY <1>4
    <3>2. f \in DOMAIN old /\ old[f].accept # 0 /\ old[f].links = <<>>
      BY <1>2, <1>7, <3>1 DEF AutomatonOK
    <3> QED BY <1>5, <3>2
  <2>2. \A n \in Claims(new, nfa) : new[n].live
    <3>1. Claims(new, nfa) \subseteq {s} \cup C
      BY <1>8, <1>14, <1>17 DEF Claims
    <3> QED BY <1>5, <1>9, <1>18, <3>1
  <2>3. AllLeadOn(new) => ToSet(final) \subseteq Graph(new, nfa)
    <3> SUFFICES ASSUME AllLeadOn(new), NEW f \in ToSet(final) PROVE f \in Graph(new, nfa)
      OBVIOUS
    <3>1. PICK k \in DOMAIN list : f = list[k].final[1]
      BY <1>4
    <3>2. f \in Graph(old, list[k])
      BY <1>2, <1>7, <1>12, <3>1 DEF AutomatonOK
    <3> QED BY <1>16, <3>2
  <2> QED BY <1>8, <1>13, <2>1, <2>2, <2>3 DEF AutomatonOK
<1>20. owner.nfa = nfa /\ nfa.start # 0
  BY <1>1, <1>5, <1>8
<1>21. Claims(new, nfa) \cap DOMAIN old \subseteq C
  BY <1>8, <1>13, <1>14, <1>17 DEF Claims
<1>22. Len(old) <= Len(new) /\ \A n \in DOMAIN old \ Nodes(old, used) : new[n] = old[n]
  BY <1>5
<1>23. Sound(new, (owners \ used) \cup {owner})
  BY <1>11, <1>12, <1>19, <1>20, <1>21, <1>22, Replaced DEF C
<1>24. ASSUME NothingLost(old, owners)
       PROVE  NothingLost(new, (owners \ used) \cup {owner})
  <2>1. ASSUME AllLeadOn(new), NEW n \in DOMAIN new, n \in DOMAIN old => n \in C
        PROVE  n \in Graph(new, nfa)
    <3>1. CASE n \in DOMAIN old
      <4>1. PICK k \in DOMAIN list : n \in Claims(old, list[k])
        BY <1>3, <2>1, <3>1
      <4>2. n \in Graph(old, list[k])
        BY <1>2, <1>12, <2>1, <4>1 DEF AutomatonOK, Claims
      <4> QED BY <1>16, <4>2
    <3>2. CASE n \notin DOMAIN old
      BY <1>5, <1>15, <2>1, <3>2
    <3> QED BY <3>1, <3>2
  <2>2. AllLeadOn(new) =>
           \A n \in DOMAIN new : new[n].live /\ (n \in DOMAIN old => n \in Nodes(old, used)) =>
             n \in Graph(new, owner.nfa)
    BY <1>20, <2>1 DEF C
  <2> QED BY <1>11, <1>12, <1>22, <1>24, <2>2, ReplacedAll
<1> QED BY <1>1, <1>20, <1>23, <1>24

\* Nothing is lost when some owners' automata are destroyed, and the others are as before.
LEMMA DestroyedSound ==
  ASSUME NEW old, NEW owners, Sound(old, owners), NEW used, used \subseteq owners,
         NEW nfas, nfas = {o.nfa : o \in used}, NEW new, new = Destroyed(old, nfas)
  PROVE  /\ Sound(new, owners \ used)
         /\ NothingLost(old, owners) => NothingLost(new, owners \ used)
<1> DEFINE freed == UNION {Graph(old, nfa) : nfa \in nfas}
<1>1. HeapOK(old) /\ Len(old) \in Nat /\ DOMAIN old = 1 .. Len(old)
  BY HeapLength DEF Sound
<1>2. new = [n \in DOMAIN old |-> IF n \in freed THEN [old[n] EXCEPT !.live = FALSE] ELSE old[n]]
  BY DEF Destroyed
<1>3. freed \subseteq Nodes(old, used)
  BY DEF Nodes, Claims
<1>4. \A o \in used : Graph(old, o.nfa) \subseteq freed
  OBVIOUS
<1> HIDE DEF freed
<1>5. \A n \in DOMAIN old : IsNode(old[n]) /\ old[n].live \in BOOLEAN
  BY <1>1 DEF HeapOK
<1>6. ASSUME NEW n \in DOMAIN old
      PROVE  /\ IsNode(new[n]) /\ new[n].live \in BOOLEAN
             /\ new[n].accept = old[n].accept /\ new[n].links = old[n].links
             /\ new[n].live <=> n \notin freed /\ old[n].live
  <2>1. CASE n \in freed
    <3>1. new[n] = [old[n] EXCEPT !.live = FALSE]
      BY <1>2, <2>1
    <3>2. old[n] = [live |-> old[n].live, accept |-> old[n].accept, links |-> old[n].links]
      BY <1>5 DEF IsNode
    <3>3. new[n] = [live |-> FALSE, accept |-> old[n].accept, links |-> old[n].links]
      BY <3>1, <3>2
    <3>4. new[n].live = FALSE /\ new[n].accept = old[n].accept /\ new[n].links = old[n].links
      BY <3>3
    <3>5. IsNode(new[n])
      BY <3>3, <3>4 DEF IsNode
    <3> HIDE DEF IsNode
    <3> QED BY <2>1, <3>4, <3>5
  <2>2. CASE n \notin freed
    BY <1>2, <1>5, <2>2
  <2> QED BY <2>1, <2>2
<1>7. DOMAIN new = DOMAIN old /\ \A n \in DOMAIN old \ freed : new[n] = old[n]
  BY <1>2
<1>8. \A n \in DOMAIN old : LinkedFrom(new, n) = LinkedFrom(old, n)
  BY <1>6 DEF LinkedFrom
<1>9. HeapOK(new) /\ Len(new) = Len(old)
  <2>1. new = [n \in 1 .. Len(old) |-> new[n]]
    BY <1>1, <1>2
  <2>2. \A n \in 1 .. Len(old) : new[n] \in ToSet(new)
    BY <1>1, <1>7 DEF ToSet
  <2>3. new \in Seq(ToSet(new)) /\ Len(new) = Len(old)
    BY <1>1, <2>1, <2>2
  <2>4. \A n \in DOMAIN new : LinkedFrom(new, n) \subseteq DOMAIN new
    BY <1>1, <1>7, <1>8 DEF HeapOK
  <2> QED BY <1>6, <1>7, <2>3, <2>4 DEF HeapOK, IsSequence
<1>10. AllLeadOn(new) => AllLeadOn(old)
  BY <1>6, <1>7 DEF AllLeadOn
<1>11. \A n \in DOMAIN old \ Nodes(old, used) : new[n] = old[n]
  BY <1>3, <1>7
<1>12. Len(old) <= Len(new)
  BY <1>1, <1>9
<1>13. \A o \in owners \ used : /\ AutomatonOK(new, o.nfa)
                                /\ Graph(new, o.nfa) = Graph(old, o.nfa)
                                /\ Claims(new, o.nfa) = Claims(old, o.nfa)
  BY <1>9, <1>10, <1>11, <1>12, OthersKept
<1>14. Sound(new, owners \ used)
  BY <1>9, <1>13 DEF Sound
<1>15. ASSUME NothingLost(old, owners)
       PROVE  NothingLost(new, owners \ used)
  <2> SUFFICES ASSUME AllLeadOn(new), NEW n \in DOMAIN new, new[n].live
               PROVE  \E o \in owners \ used : n \in Graph(new, o.nfa)
    BY DEF NothingLost
  <2>1. n \in DOMAIN old /\ n \notin freed /\ old[n].live
    BY <1>6, <1>7
  <2>2. PICK o \in owners : n \in Graph(old, o.nfa)
    BY <1>10, <1>15, <2>1 DEF NothingLost
  <2>3. o \notin used
    BY <1>4, <2>1, <2>2
  <2> QED BY <1>13, <2>2, <2>3
<1> QED BY <1>14, <1>15

\* An automaton under another lexeme.
Relabelled(nfa, id, new) == new = [nfa EXCEPT !.lexeme = id]

\* It has one final state still.
LEMMA StillOneFinal ==
  ASSUME NEW nodes, NEW nfa, AutomatonOK(nodes, nfa), NEW id, id # 0, NEW new,
         Relabelled(nfa, id, new), OneFinal(nfa)
  PROVE  OneFinal(new)
<1>1. nfa = [lexeme |-> nfa.lexeme, start |-> nfa.start, final |-> nfa.final]
  BY DEF AutomatonOK, Automaton
<1>2. new.final = nfa.final /\ new.lexeme = id
  BY <1>1 DEF Relabelled
<1> QED BY <1>2 DEF OneFinal

\* An owner hands its automaton on.
LEMMA HandedOn ==
  ASSUME NEW nodes, NEW owners, Sound(nodes, owners), NEW source \in owners,
         NEW id, NEW owner, Relabelled(source.nfa, id, owner.nfa)
  PROVE  /\ Sound(nodes, (owners \ {source}) \cup {owner})
         /\ NothingLost(nodes, owners) => NothingLost(nodes, (owners \ {source}) \cup {owner})
<1> DEFINE a == source.nfa
           b == owner.nfa
           used == {source}
<1>1. HeapOK(nodes) /\ AutomatonOK(nodes, a) /\ Len(nodes) <= Len(nodes)
  <2>1. HeapOK(nodes) /\ AutomatonOK(nodes, a)
    BY DEF Sound
  <2> QED BY <2>1, HeapLength
<1>2. b.start = a.start /\ b.final = a.final /\ b.lexeme = id /\ b = Automaton(b.lexeme, b.start, b.final)
  <2>1. a = [lexeme |-> a.lexeme, start |-> a.start, final |-> a.final]
    BY <1>1 DEF AutomatonOK, Automaton
  <2> HIDE DEF a
  <2>2. [a EXCEPT !.lexeme = id] = [lexeme |-> id, start |-> a.start, final |-> a.final]
    BY <2>1
  <2>3. b = [lexeme |-> id, start |-> a.start, final |-> a.final]
    BY <2>2 DEF a, Relabelled
  <2> QED BY <2>3 DEF Automaton
<1>3. Nodes(nodes, used) = Claims(nodes, a)
  BY DEF Nodes
<1> HIDE DEF a, b
<1>4. Graph(nodes, b) = Graph(nodes, a) /\ Claims(nodes, b) = Claims(nodes, a)
  BY <1>2 DEF Graph, Claims
<1>5. AutomatonOK(nodes, b)
  BY <1>1, <1>2, <1>4 DEF AutomatonOK
<1>6. used \subseteq owners
  OBVIOUS
<1> HIDE DEF used
<1>7. Sound(nodes, (owners \ used) \cup {owner})
  BY <1>1, <1>3, <1>4, <1>5, <1>6, Replaced DEF b
<1>8. ASSUME NothingLost(nodes, owners)
      PROVE  NothingLost(nodes, (owners \ used) \cup {owner})
  <2>1. AllLeadOn(nodes) =>
           \A n \in DOMAIN nodes : nodes[n].live /\ (n \in DOMAIN nodes => n \in Nodes(nodes, used)) =>
             n \in Graph(nodes, owner.nfa)
    BY <1>1, <1>3, <1>4 DEF AutomatonOK, Claims, b
  <2> QED BY <1>1, <1>6, <1>8, <2>1, ReplacedAll
<1> QED BY <1>7, <1>8 DEF used

\* Owners may go.
LEMMA FewerOwners ==
  ASSUME NEW nodes, NEW owners, Sound(nodes, owners), NEW fewer, fewer \subseteq owners
  PROVE  Sound(nodes, fewer)
BY DEF Sound

(***************************************************************************)
(* Where the automata are kept                                             *)
(***************************************************************************)

\* An owner is of one kind, and knows its place.
LEMMA KindsOfOwners ==
  ASSUME NEW values, NEW nfas, NEW list, NEW nfa
  PROVE  /\ \A o \in StackOwners(values) : o.of[1] = "stack"
         /\ \A o \in MacroOwners(nfas) : o.of[1] = "macro"
         /\ \A o \in LexemeOwners(list) : o.of[1] = "lexeme"
         /\ \A o \in CombinedOwners(nfa) : o.of[1] = "combined"
<1>1. \A kind, key, a : Owner(kind, key, a).of[1] = kind
  BY DEF Owner
<1> QED BY <1>1 DEF StackOwners, MacroOwners, LexemeOwners, CombinedOwners

\* The values of the last symbols are replaced by one.
Replaces(values, n, value, new) == new = Append(SubSeq(values, 1, Len(values) - n), value)

\* Then the others stay.
LEMMA StackReplaced ==
  ASSUME NEW values, IsSequence(values), NEW n \in Nat, n <= Len(values), NEW value,
         NEW new, Replaces(values, n, value, new)
  PROVE  /\ IsSequence(new) /\ Len(new) = Len(values) - n + 1 /\ Len(values) \in Nat
         /\ DOMAIN values = 1 .. Len(values) /\ DOMAIN new = 1 .. Len(values) - n + 1
         /\ \A k \in 1 .. Len(values) - n : new[k] = values[k]
         /\ new[Len(values) - n + 1] = value
<1> DEFINE rest == SubSeq(values, 1, Len(values) - n)
           m == Len(values) - n
<1>1. values \in Seq(ToSet(values))
  BY DEF IsSequence
<1>2. Len(values) \in Nat /\ DOMAIN values = 1 .. Len(values) /\ m \in Nat /\ m <= Len(values)
  BY <1>1, LenProperties
<1>3. rest \in Seq(ToSet(values)) /\ Len(rest) = m /\ \A k \in 1 .. m : rest[k] = values[k]
  <2> HIDE DEF m
  <2>1. SubSeq(values, 1, m) = [k \in 1 .. m |-> values[k]]
    BY <1>1, <1>2
  <2>2. \A k \in 1 .. m : values[k] \in ToSet(values)
    BY <1>2 DEF ToSet
  <2> HIDE DEF rest
  <2>3. rest = [k \in 1 .. m |-> values[k]]
    BY <2>1 DEF rest, m
  <2> QED BY <1>2, <2>2, <2>3
<1>4. new = Append(rest, value)
  BY DEF Replaces
<1> HIDE DEF rest, m
<1>5. IsSequence(rest)
  BY <1>3, SequenceOfItself
<1>6. /\ IsSequence(new) /\ Len(new) = Len(rest) + 1 /\ DOMAIN new = 1 .. Len(rest) + 1
      /\ DOMAIN rest = 1 .. Len(rest)
      /\ \A k \in DOMAIN rest : new[k] = rest[k]
      /\ new[Len(rest) + 1] = value
  <2>1. OneBehind(rest, value, new)
    BY <1>4 DEF OneBehind
  <2> QED BY <1>5, <2>1, OnePut
<1> QED BY <1>2, <1>3, <1>6 DEF m

\* The owners of the last values.
TopOwners(values, n) == {o \in StackOwners(values) : o.of[2] > Len(values) - n}

\* They go, and the automaton that replaces the values comes.
LEMMA StackOwnersAfter ==
  ASSUME NEW values, IsSequence(values), NEW n \in Nat, n <= Len(values), NEW value,
         NEW new, Replaces(values, n, value, new)
  PROVE  StackOwners(new) =
           (StackOwners(values) \ TopOwners(values, n))
             \cup (IF IsNFA(value) THEN {Owner("stack", Len(values) - n + 1, value)} ELSE {})
<1> DEFINE m == Len(values) - n
<1>1. /\ Len(values) \in Nat /\ DOMAIN values = 1 .. Len(values) /\ DOMAIN new = 1 .. m + 1
      /\ \A k \in 1 .. m : new[k] = values[k]
      /\ new[m + 1] = value /\ m \in Nat /\ m <= Len(values)
  BY StackReplaced
<1>2. \A k, a : Owner("stack", k, a).of[2] = k /\ Owner("stack", k, a).nfa = a
  BY DEF Owner
<1> HIDE DEF m
<1>3. TopOwners(values, n) = {o \in StackOwners(values) : o.of[2] > m}
  BY DEF TopOwners, m
<1>4. ASSUME NEW o \in StackOwners(new)
      PROVE  o \in StackOwners(values) \ TopOwners(values, n) \/ (IsNFA(value) /\ o = Owner("stack", m + 1, value))
  <2>1. PICK k \in 1 .. m + 1 : IsNFA(new[k]) /\ o = Owner("stack", k, new[k])
    BY <1>1 DEF StackOwners
  <2>2. CASE k = m + 1
    BY <1>1, <2>1, <2>2
  <2>3. CASE k # m + 1
    <3>1. k \in 1 .. m /\ k \in DOMAIN values /\ new[k] = values[k]
      BY <1>1, <2>1, <2>3
    <3>2. o \in StackOwners(values)
      BY <2>1, <3>1 DEF StackOwners
    <3>3. o.of[2] = k /\ ~ (k > m)
      BY <1>1, <1>2, <2>1, <3>1
    <3> QED BY <1>3, <3>2, <3>3
  <2> QED BY <2>2, <2>3
<1>5. ASSUME NEW o \in StackOwners(values) \ TopOwners(values, n)
      PROVE  o \in StackOwners(new)
  <2>1. PICK k \in 1 .. Len(values) : IsNFA(values[k]) /\ o = Owner("stack", k, values[k])
    BY <1>1 DEF StackOwners
  <2>2. ~ (o.of[2] > m) /\ o.of[2] = k
    BY <1>2, <1>3, <2>1
  <2>3. k \in 1 .. m /\ k \in DOMAIN new /\ new[k] = values[k]
    BY <1>1, <2>1, <2>2
  <2> QED BY <2>1, <2>3 DEF StackOwners
<1>6. IsNFA(value) => Owner("stack", m + 1, value) \in StackOwners(new)
  BY <1>1 DEF StackOwners
<1>7. StackOwners(new) =
           (StackOwners(values) \ TopOwners(values, n))
             \cup (IF IsNFA(value) THEN {Owner("stack", m + 1, value)} ELSE {})
  BY <1>4, <1>5, <1>6
<1> QED BY <1>7 DEF m

\* The automata of the last values.
LEMMA TopAutomata ==
  ASSUME NEW values, IsSequence(values), NEW n \in Nat, n <= Len(values)
  PROVE  {o.nfa : o \in TopOwners(values, n)} =
           {values[k] : k \in {j \in Len(values) - n + 1 .. Len(values) : IsNFA(values[j])}}
<1> DEFINE used == TopOwners(values, n)
           last == {j \in Len(values) - n + 1 .. Len(values) : IsNFA(values[j])}
<1>1. Len(values) \in Nat /\ DOMAIN values = 1 .. Len(values)
  BY LenProperties DEF IsSequence
<1>2. \A k, a : Owner("stack", k, a).of[2] = k /\ Owner("stack", k, a).nfa = a
  BY DEF Owner
<1>3. ASSUME NEW o \in TopOwners(values, n)
      PROVE  \E k \in Len(values) - n + 1 .. Len(values) : IsNFA(values[k]) /\ o.nfa = values[k]
  <2>1. PICK k \in 1 .. Len(values) : IsNFA(values[k]) /\ o = Owner("stack", k, values[k])
    BY <1>1 DEF StackOwners, TopOwners
  <2>2. k > Len(values) - n /\ o.nfa = values[k]
    BY <1>2, <2>1 DEF TopOwners
  <2> QED BY <1>1, <2>1, <2>2
<1>4. ASSUME NEW k \in Len(values) - n + 1 .. Len(values), IsNFA(values[k])
      PROVE  \E o \in TopOwners(values, n) : o.nfa = values[k]
  <2>1. k \in DOMAIN values
    BY <1>1
  <2>2. Owner("stack", k, values[k]) \in StackOwners(values)
    BY <1>4, <2>1 DEF StackOwners
  <2>3. k > Len(values) - n
    BY <1>1
  <2> QED BY <1>2, <2>2, <2>3 DEF TopOwners
<1>5. \A o \in used : \E k \in last : o.nfa = values[k]
  BY <1>3
<1>6. \A k \in last : \E o \in used : o.nfa = values[k]
  BY <1>4
<1> HIDE DEF used, last
<1>7. {o.nfa : o \in used} = {values[k] : k \in last}
  BY <1>5, <1>6
<1> QED BY <1>7 DEF used, last

(***************************************************************************)
(* Regular expressions                                                     *)
(***************************************************************************)

\* The reductions of a kind among the first n.
OfKind(regexp, kind, n) == Cardinality({k \in 1 .. n : regexp[k].prod \in kind})

\* There is one more if the next is of the kind.
LEMMA OneMoreOfKind ==
  ASSUME NEW regexp, NEW kind, NEW n \in Nat
  PROVE  /\ OfKind(regexp, kind, n) \in Nat
         /\ OfKind(regexp, kind, n + 1) =
              OfKind(regexp, kind, n) + (IF regexp[n + 1].prod \in kind THEN 1 ELSE 0)
<1> DEFINE S == {k \in 1 .. n : regexp[k].prod \in kind}
           T == {k \in 1 .. n + 1 : regexp[k].prod \in kind}
<1>1. IsFiniteSet(S)
  <2>1. IsFiniteSet(1 .. n)
    BY FS_Interval
  <2>2. S \subseteq 1 .. n
    OBVIOUS
  <2> HIDE DEF S
  <2> QED BY <2>1, <2>2, FS_Subset
<1>2. n + 1 \notin S
  OBVIOUS
<1>3. T = IF regexp[n + 1].prod \in kind THEN S \cup {n + 1} ELSE S
  OBVIOUS
<1> HIDE DEF S, T
<1>4. Cardinality(S) \in Nat /\ Cardinality(S \cup {n + 1}) = Cardinality(S) + 1
  BY <1>1, <1>2, FS_AddElement, FS_CardinalityType
<1>5. Cardinality(T) = Cardinality(S) + (IF regexp[n + 1].prod \in kind THEN 1 ELSE 0)
  BY <1>3, <1>4
<1> QED BY <1>4, <1>5 DEF S, T, OfKind

\* How many automata a reduction leaves.
LEMMA AutomataCounted ==
  ASSUME NEW regexp, NEW n \in Nat
  PROVE  /\ AutomataAfter(regexp, 0) = 0
         /\ AutomataAfter(regexp, n) \in Int
         /\ AutomataAfter(regexp, n + 1) =
              AutomataAfter(regexp, n)
                + (IF regexp[n + 1].prod \in OneOfMany \cup ListEnds THEN 1 ELSE 0)
                - (IF regexp[n + 1].prod \in Joins THEN 1 ELSE 0)
<1> DEFINE kind1 == OneOfMany \cup ListEnds
           kind2 == Joins
<1>1. \A m : AutomataAfter(regexp, m) = OfKind(regexp, kind1, m) - OfKind(regexp, kind2, m)
  BY DEF AutomataAfter, OfKind
<1> HIDE DEF kind1, kind2
<1>2. \A kind : OfKind(regexp, kind, 0) = 0
  <2> TAKE kind
  <2>1. {k \in 1 .. 0 : regexp[k].prod \in kind} = {}
    OBVIOUS
  <2> QED BY <2>1, FS_EmptySet DEF OfKind
<1>3. \A kind : /\ OfKind(regexp, kind, n) \in Nat
                /\ OfKind(regexp, kind, n + 1) =
                     OfKind(regexp, kind, n) + (IF regexp[n + 1].prod \in kind THEN 1 ELSE 0)
  BY OneMoreOfKind
<1>4. AutomataAfter(regexp, 0) = 0 /\ AutomataAfter(regexp, n) \in Int
  BY <1>1, <1>2, <1>3
<1>5. AutomataAfter(regexp, n + 1) = AutomataAfter(regexp, n)
                + (IF regexp[n + 1].prod \in kind1 THEN 1 ELSE 0)
                - (IF regexp[n + 1].prod \in kind2 THEN 1 ELSE 0)
  BY <1>1, <1>3
<1> QED BY <1>4, <1>5 DEF kind1, kind2

\* The next reduction in particular.
LEMMA NextCounted ==
  ASSUME position \in Nat, NEW prod, prod = RegExp[position + 1].prod
  PROVE  /\ AutomataAfter(RegExp, position) \in Int
         /\ prod \notin OneOfMany \cup ListEnds /\ prod \notin Joins =>
              AutomataAfter(RegExp, position + 1) = AutomataAfter(RegExp, position)
         /\ prod \in OneOfMany \cup ListEnds /\ prod \notin Joins =>
              AutomataAfter(RegExp, position + 1) = AutomataAfter(RegExp, position) + 1
         /\ prod \notin OneOfMany \cup ListEnds /\ prod \in Joins =>
              AutomataAfter(RegExp, position + 1) = AutomataAfter(RegExp, position) - 1
<1> DEFINE r == RegExp
           n == position
<1>1. n \in Nat /\ prod = r[n + 1].prod
  OBVIOUS
<1> HIDE DEF r, n
<1>2. /\ AutomataAfter(r, n) \in Int
      /\ AutomataAfter(r, n + 1) =
              AutomataAfter(r, n)
                + (IF r[n + 1].prod \in OneOfMany \cup ListEnds THEN 1 ELSE 0)
                - (IF r[n + 1].prod \in Joins THEN 1 ELSE 0)
  BY <1>1, AutomataCounted
<1> DEFINE m == AutomataAfter(r, n)
           next == AutomataAfter(r, n + 1)
<1> HIDE DEF m, next
<1>3. /\ m \in Int
      /\ next = m + (IF prod \in OneOfMany \cup ListEnds THEN 1 ELSE 0) - (IF prod \in Joins THEN 1 ELSE 0)
  BY <1>1, <1>2 DEF m, next
<1>4. /\ m \in Int
      /\ prod \notin OneOfMany \cup ListEnds /\ prod \notin Joins => next = m
      /\ prod \in OneOfMany \cup ListEnds /\ prod \notin Joins => next = m + 1
      /\ prod \notin OneOfMany \cup ListEnds /\ prod \in Joins => next = m - 1
  BY <1>3
<1> QED BY <1>4 DEF m, next, r, n

\* The expressions are made of lexemes there are.
LEMMA ExpressionsThere ==
  ASSUME Phases
  PROVE  /\ IsSequence(Expressions) /\ IsSequence(input.lexemes) /\ IsSequence(input.macros)
         /\ \A e \in DOMAIN Expressions :
              /\ Expressions[e].start \in Nat /\ Expressions[e].count \in Nat
              /\ Expressions[e].start + Expressions[e].count <= Len(input.lexemes)
<1>1. input \in Inputs
  BY DEF Phases
<1>2. /\ IsSequence(input.lexemes) /\ IsSequence(input.macros) /\ IsSequence(input.expressions)
      /\ \A e \in DOMAIN input.expressions :
           /\ input.expressions[e].start \in Nat /\ input.expressions[e].count \in Nat
           /\ input.expressions[e].start + input.expressions[e].count <= Len(input.lexemes)
  BY <1>1, InputsAssumption
<1>3. Len(input.lexemes) \in Nat
  BY <1>2, LenProperties DEF IsSequence
<1>4. CASE input.lexemes # <<>> /\ input.expressions = <<>>
  <2> DEFINE x == [start |-> 0, count |-> Len(input.lexemes)]
  <2>1. Expressions = <<x>>
    BY <1>4 DEF Expressions
  <2>2. x.start = 0 /\ x.count = Len(input.lexemes)
    OBVIOUS
  <2> HIDE DEF x
  <2>3. IsSequence(<<x>>) /\ DOMAIN <<x>> = {1} /\ <<x>>[1] = x
    <3> DEFINE t == <<x>>
    <3>1. t \in Seq({x}) /\ DOMAIN t = {1} /\ t[1] = x
      OBVIOUS
    <3> HIDE DEF t
    <3>2. IsSequence(t)
      BY <3>1, SequenceOfItself
    <3> QED BY <3>1, <3>2 DEF t
  <2> QED BY <1>2, <1>3, <2>1, <2>2, <2>3
<1>5. CASE ~ (input.lexemes # <<>> /\ input.expressions = <<>>)
  BY <1>2, <1>5 DEF Expressions
<1> QED BY <1>4, <1>5

\* What is parsed is something the parser can report.
LEMMA RegExpReported ==
  ASSUME Phases, Parsing
  PROVE  WellFormed(RegExp)
<1>1. input \in Inputs /\ index \in Nat \ {0} /\ expression \in Nat \ {0}
  BY DEF Phases
<1>2. /\ \A m \in DOMAIN input.macros : WellFormed(input.macros[m].regexp)
      /\ \A j \in DOMAIN input.lexemes : WellFormed(input.lexemes[j].regexp)
  BY <1>1, InputsAssumption
<1>3. /\ IsSequence(Expressions) /\ IsSequence(input.lexemes) /\ IsSequence(input.macros)
      /\ \A e \in DOMAIN Expressions :
              /\ Expressions[e].start \in Nat /\ Expressions[e].count \in Nat
              /\ Expressions[e].start + Expressions[e].count <= Len(input.lexemes)
  BY ExpressionsThere
<1>4. /\ DOMAIN Expressions = 1 .. Len(Expressions) /\ Len(Expressions) \in Nat
      /\ DOMAIN input.macros = 1 .. Len(input.macros) /\ Len(input.macros) \in Nat
      /\ DOMAIN input.lexemes = 1 .. Len(input.lexemes) /\ Len(input.lexemes) \in Nat
  BY <1>3, LenProperties DEF IsSequence
<1>5. CASE phase = "macro"
  <2>1. index \in DOMAIN input.macros
    BY <1>1, <1>4, <1>5 DEF Parsing
  <2> QED BY <1>2, <1>5, <2>1 DEF RegExp
<1>6. CASE phase # "macro"
  <2>1. expression \in DOMAIN Expressions
    BY <1>1, <1>4, <1>6 DEF Parsing
  <2>2. index \in DOMAIN input.lexemes
    BY <1>1, <1>3, <1>4, <1>6, <2>1 DEF Parsing, LastLexeme
  <2> QED BY <1>2, <1>6, <2>2 DEF RegExp
<1> QED BY <1>5, <1>6

\* In the next state too.
LEMMA AlwaysReported == Phases /\ Parsing => WellFormed(RegExp)
  BY RegExpReported

\* While a regular expression is parsed only the place in it moves.
LEMMA ParsingKept ==
  ASSUME KeepParsing
  PROVE  /\ Parsing' = Parsing /\ RegExp' = RegExp /\ Expressions' = Expressions
         /\ position' = position + 1
         /\ macroNFAs' = macroNFAs /\ lexemeNFAs' = lexemeNFAs /\ combined' = combined
         /\ errors' = errors /\ phase' = phase /\ index' = index /\ expression' = expression
         /\ input' = input
<1>1. /\ macroNFAs' = macroNFAs /\ lexemeNFAs' = lexemeNFAs /\ combined' = combined
      /\ errors' = errors /\ phase' = phase /\ index' = index /\ expression' = expression
      /\ input' = input /\ position' = position + 1
  BY DEF KeepParsing, subset
<1>2. Expressions' = Expressions
  BY <1>1 DEF Expressions
<1>3. LastLexeme' = LastLexeme
  BY <1>1, <1>2 DEF LastLexeme
<1>4. (Parsing <=> Parsing') /\ RegExp' = RegExp
  BY <1>1, <1>2, <1>3 DEF Parsing, RegExp
<1>5. Parsing \in BOOLEAN /\ Parsing' \in BOOLEAN
  BY DEF Parsing
<1> QED BY <1>1, <1>2, <1>4, <1>5

\* So the automata besides the stack do not change.
LEMMA PhasesKept ==
  ASSUME Phases, Parsing, KeepParsing
  PROVE  Phases'
<1>1. /\ Parsing' = Parsing /\ RegExp' = RegExp /\ Expressions' = Expressions
      /\ macroNFAs' = macroNFAs /\ lexemeNFAs' = lexemeNFAs /\ combined' = combined
      /\ errors' = errors /\ phase' = phase /\ index' = index /\ expression' = expression
      /\ input' = input
  BY ParsingKept
<1>2. phase # "convert"
  BY DEF Parsing
<1> QED BY <1>1, <1>2 DEF Phases

\* What a reduction finds on the stack.
LEMMA StackBefore ==
  ASSUME Phases, StackShape, Parsing, position < Len(RegExp), NEW prod, prod = RegExp[position + 1].prod
  PROVE  /\ IsSequence(stack) /\ Len(stack) \in Nat /\ DOMAIN stack = 1 .. Len(stack)
         /\ position \in Nat /\ ListOnTop \in {0, 1}
         /\ Len(stack) >= ListOnTop
         /\ Len(stack) = AutomataAfter(RegExp, position) + ListOnTop
         /\ \A k \in 1 .. Len(stack) - ListOnTop : IsNFA(stack[k])
         /\ ListOnTop = 1 => ~IsNFA(Top)
         /\ prod \in ListGoesOn \cup ListEnds => ListOnTop = 1
         /\ prod \notin ListGoesOn \cup ListEnds \cup {"error"} => ListOnTop = 0
         /\ prod \in Joins => AutomataAfter(RegExp, position) >= 2
         /\ prod \in Repeats => AutomataAfter(RegExp, position) >= 1
<1>1. IsSequence(stack) /\ Len(stack) \in Nat /\ DOMAIN stack = 1 .. Len(stack)
  BY LenProperties DEF StackShape, IsSequence
<1>2. /\ position \in 0 .. Len(RegExp)
      /\ Len(stack) = AutomataAfter(RegExp, position) + ListOnTop
      /\ Len(stack) >= ListOnTop
      /\ \A k \in 1 .. Len(stack) - ListOnTop : IsNFA(stack[k])
      /\ ListOnTop = 1 => ~IsNFA(Top)
  BY DEF StackShape
<1>3. WellFormed(RegExp)
  BY RegExpReported
<1>4. position \in Nat /\ ListOnTop \in {0, 1}
  BY <1>2 DEF ListOnTop
<1>5. DOMAIN RegExp = 1 .. Len(RegExp) /\ Len(RegExp) \in Nat
  BY <1>3, LenProperties DEF WellFormed, IsSequence
<1> DEFINE r == RegExp
<1>6. \A k \in DOMAIN r :
           /\ r[k].prod \in ListGoesOn \cup ListEnds =>
                k > 1 /\ r[k - 1].prod \in ListBegins \cup ListGoesOn
           /\ r[k].prod \in ListBegins \cup ListGoesOn =>
                k < Len(r) /\ r[k + 1].prod \in ListGoesOn \cup ListEnds \cup {"error"}
           /\ r[k].prod \in Joins => AutomataAfter(r, k - 1) >= 2
           /\ r[k].prod \in Repeats => AutomataAfter(r, k - 1) >= 1
  BY <1>3 DEF WellFormed
<1>7. ListOnTop = IF position > 0 /\ r[position].prod \in ListBegins \cup ListGoesOn THEN 1 ELSE 0
  BY DEF ListOnTop
<1> HIDE DEF r
<1>8. position + 1 \in DOMAIN r /\ (position + 1) - 1 = position /\ prod = r[position + 1].prod
      /\ (position > 0 => position \in DOMAIN r)
  BY <1>4, <1>5 DEF r
<1>9. prod \in ListGoesOn \cup ListEnds => ListOnTop = 1
  <2> SUFFICES ASSUME prod \in ListGoesOn \cup ListEnds PROVE ListOnTop = 1
    OBVIOUS
  <2>1. position + 1 > 1 /\ r[(position + 1) - 1].prod \in ListBegins \cup ListGoesOn
    BY <1>6, <1>8
  <2> QED BY <1>4, <1>7, <1>8, <2>1
<1>10. prod \notin ListGoesOn \cup ListEnds \cup {"error"} => ListOnTop = 0
  <2> SUFFICES ASSUME ListOnTop = 1 PROVE prod \in ListGoesOn \cup ListEnds \cup {"error"}
    BY <1>4
  <2>1. position > 0 /\ r[position].prod \in ListBegins \cup ListGoesOn
    BY <1>7
  <2> QED BY <1>6, <1>8, <2>1
<1>11. prod \in Joins => AutomataAfter(r, position) >= 2
  <2>1. prod \in Joins => AutomataAfter(r, (position + 1) - 1) >= 2
    BY <1>6, <1>8
  <2> QED BY <1>8, <2>1
<1>12. prod \in Repeats => AutomataAfter(r, position) >= 1
  <2>1. prod \in Repeats => AutomataAfter(r, (position + 1) - 1) >= 1
    BY <1>6, <1>8
  <2> QED BY <1>8, <2>1
<1> QED BY <1>1, <1>2, <1>4, <1>9, <1>10, <1>11, <1>12 DEF r

\* A reduction that leaves an automaton keeps the invariant if the owners after it are sound.
LEMMA BuiltKeeps ==
  ASSUME IInv, Parsing, position < Len(RegExp), KeepParsing,
         NEW n \in Nat, n <= Len(stack), NEW value, Replaces(stack, n, value, stack'),
         RegExp[position + 1].prod \notin ListBegins \cup ListGoesOn \cup {"error"},
         \A k \in 1 .. Len(stack) - n : IsNFA(stack[k]),
         IsNFA(value), OneFinal(value),
         Len(stack) - n + 1 = AutomataAfter(RegExp, position + 1),
         NEW owner, owner = Owner("stack", Len(stack) - n + 1, value),
         Sound(heap', (Owners \ TopOwners(stack, n)) \cup {owner}),
         NothingLost(heap, Owners) => NothingLost(heap', (Owners \ TopOwners(stack, n)) \cup {owner})
  PROVE  IInv'
<1>1. Phases /\ StackShape /\ OneFinalEach /\ Sound(heap, Owners) /\ (errors = 0 => NothingLost(heap, Owners))
  BY DEF IInv
<1>2. /\ Parsing' = Parsing /\ RegExp' = RegExp
      /\ position' = position + 1
      /\ macroNFAs' = macroNFAs /\ lexemeNFAs' = lexemeNFAs /\ combined' = combined
      /\ errors' = errors
  BY ParsingKept
<1>3. IsSequence(stack) /\ position \in Nat
  BY <1>1, StackBefore
<1>4. /\ IsSequence(stack') /\ Len(stack') = Len(stack) - n + 1 /\ Len(stack) \in Nat
      /\ DOMAIN stack' = 1 .. Len(stack) - n + 1
      /\ \A k \in 1 .. Len(stack) - n : stack'[k] = stack[k]
      /\ stack'[Len(stack) - n + 1] = value
      /\ DOMAIN stack = 1 .. Len(stack)
  BY <1>3, StackReplaced
<1>5. \A k \in 1 .. Len(stack') : IsNFA(stack'[k]) /\ OneFinal(stack'[k])
  <2> TAKE k \in 1 .. Len(stack')
  <2>1. CASE k = Len(stack) - n + 1
    BY <1>4, <2>1
  <2>2. CASE k # Len(stack) - n + 1
    <3>1. k \in 1 .. Len(stack) - n /\ k \in DOMAIN stack
      BY <1>4, <2>2
    <3> QED BY <1>1, <1>4, <3>1 DEF OneFinalEach
  <2> QED BY <2>1, <2>2
<1>6. StackShape'
  <2>1. position' > 0 /\ RegExp'[position'].prod = RegExp[position + 1].prod
    BY <1>2, <1>3
  <2>2. ListOnTop' = 0
    BY <2>1 DEF ListOnTop
  <2>3. position' \in 0 .. Len(RegExp')
    BY <1>1, <1>2 DEF StackShape
  <2>4. Len(stack') = AutomataAfter(RegExp', position')
    BY <1>2, <1>4
  <2>5. Len(stack') \in Nat
    BY <1>4
  <2> QED BY <1>2, <1>4, <1>5, <2>1, <2>2, <2>3, <2>4, <2>5 DEF StackShape
<1>7. OneFinalEach'
  BY <1>1, <1>2, <1>4, <1>5 DEF OneFinalEach
<1>8. Phases'
  BY <1>1, PhasesKept
<1>9. Owners' = (Owners \ TopOwners(stack, n)) \cup {owner}
  <2>1. StackOwners(stack') = (StackOwners(stack) \ TopOwners(stack, n)) \cup {owner}
    BY <1>3, StackOwnersAfter
  <2> DEFINE rest == MacroOwners(macroNFAs) \cup LexemeOwners(lexemeNFAs) \cup CombinedOwners(combined)
  <2>2. \A o \in rest : o \notin StackOwners(stack)
    BY KindsOfOwners
  <2>3. Owners = StackOwners(stack) \cup rest
    BY DEF Owners
  <2>4. Owners' = StackOwners(stack') \cup rest
    BY <1>2 DEF Owners
  <2> HIDE DEF rest
  <2>5. TopOwners(stack, n) \subseteq StackOwners(stack)
    BY DEF TopOwners
  <2> QED BY <2>1, <2>2, <2>3, <2>4, <2>5
<1>10. Sound(heap', Owners')
  BY <1>9
<1>11. errors' = 0 => NothingLost(heap', Owners')
  BY <1>1, <1>2, <1>9
<1> QED BY <1>6, <1>7, <1>8, <1>10, <1>11 DEF IInv

\* So does one that leaves a list of characters.
LEMMA ListKeeps ==
  ASSUME IInv, Parsing, position < Len(RegExp), KeepParsing, UNCHANGED heap,
         NEW n \in {0, 1}, NEW chars, Replaces(stack, n, List(chars), stack'),
         RegExp[position + 1].prod \in IF n = 0 THEN ListBegins ELSE ListGoesOn
  PROVE  IInv'
<1>1. Phases /\ StackShape /\ OneFinalEach /\ Sound(heap, Owners) /\ (errors = 0 => NothingLost(heap, Owners))
  BY DEF IInv
<1>2. /\ Parsing' = Parsing /\ RegExp' = RegExp
      /\ position' = position + 1
      /\ macroNFAs' = macroNFAs /\ lexemeNFAs' = lexemeNFAs /\ combined' = combined
      /\ errors' = errors
  BY ParsingKept
<1> DEFINE prod == RegExp[position + 1].prod
           value == List(chars)
<1>0. prod \in ListBegins \cup ListGoesOn /\ prod # "error" /\ (n = 0 <=> prod \in ListBegins)
      /\ prod \notin OneOfMany \cup ListEnds /\ prod \notin Joins
      /\ (n = 0 => prod \notin ListGoesOn \cup ListEnds \cup {"error"})
      /\ (n = 1 => prod \in ListGoesOn \cup ListEnds)
  BY DEF ListBegins, ListGoesOn, ListEnds, OneOfMany, Joins
<1> HIDE DEF prod
<1>3. /\ IsSequence(stack) /\ Len(stack) \in Nat /\ position \in Nat /\ ListOnTop = n
      /\ Len(stack) >= ListOnTop
      /\ Len(stack) = AutomataAfter(RegExp, position) + ListOnTop
      /\ \A k \in 1 .. Len(stack) - ListOnTop : IsNFA(stack[k])
      /\ ListOnTop = 1 => ~IsNFA(Top)
      /\ DOMAIN stack = 1 .. Len(stack)
  <2>1. prod = RegExp[position + 1].prod
    BY DEF prod
  <2> QED BY <1>0, <1>1, <2>1, StackBefore
<1>4. ~IsNFA(value)
  BY DEF List, IsNFA
<1>5. /\ IsSequence(stack') /\ Len(stack') = Len(stack) - n + 1
      /\ DOMAIN stack' = 1 .. Len(stack) - n + 1
      /\ \A k \in 1 .. Len(stack) - n : stack'[k] = stack[k]
      /\ stack'[Len(stack) - n + 1] = value
  BY <1>3, StackReplaced
<1> HIDE DEF value
<1>6. /\ AutomataAfter(RegExp, position + 1) = AutomataAfter(RegExp, position)
      /\ AutomataAfter(RegExp, position) \in Int
  BY <1>0, <1>3, NextCounted DEF prod
<1>7. StackShape'
  <2>1. position' > 0 /\ RegExp'[position'].prod = prod
    BY <1>2, <1>3 DEF prod
  <2>2. ListOnTop' = 1
    BY <1>0, <2>1 DEF ListOnTop
  <2>3. position' \in 0 .. Len(RegExp')
    BY <1>1, <1>2 DEF StackShape
  <2>4. Len(stack') = AutomataAfter(RegExp', position') + ListOnTop' /\ Len(stack') >= ListOnTop'
    <3>1. AutomataAfter(RegExp', position') = AutomataAfter(RegExp, position)
      BY <1>2, <1>6
    <3>2. Len(stack') = Len(stack) - n + 1 /\ Len(stack) >= n /\ n \in {0, 1}
      BY <1>3, <1>5
    <3>3. Len(stack) = AutomataAfter(RegExp, position) + n
      BY <1>3
    <3> QED BY <1>3, <1>6, <2>2, <3>1, <3>2, <3>3
  <2>5. \A k \in 1 .. Len(stack') - ListOnTop' : IsNFA(stack'[k])
    BY <1>3, <1>5, <2>2
  <2>6. ~IsNFA(Top')
    <3>1. Top' = stack'[Len(stack')]
      BY DEF Top
    <3> QED BY <1>4, <1>5, <3>1
  <2> QED BY <1>0, <1>2, <1>5, <2>1, <2>3, <2>4, <2>5, <2>6 DEF StackShape
<1>8. OneFinalEach'
  <2>1. ASSUME NEW k \in DOMAIN stack', IsNFA(stack'[k])
        PROVE  OneFinal(stack'[k])
    <3>1. k \in 1 .. Len(stack) - n /\ k \in DOMAIN stack
      BY <1>3, <1>4, <1>5, <2>1
    <3> QED BY <1>1, <1>5, <2>1, <3>1 DEF OneFinalEach
  <2> QED BY <1>1, <1>2, <2>1 DEF OneFinalEach
<1>9. Phases'
  BY <1>1, PhasesKept
<1>10. Owners' = Owners
  <2>1. n <= Len(stack) /\ n \in Nat
    BY <1>3
  <2>2. StackOwners(stack') = StackOwners(stack) \ TopOwners(stack, n)
    BY <1>3, <1>4, <2>1, StackOwnersAfter DEF value
  <2>3. TopOwners(stack, n) = {}
    <3> SUFFICES ASSUME NEW o \in TopOwners(stack, n) PROVE FALSE
      OBVIOUS
    <3>1. PICK k \in DOMAIN stack : IsNFA(stack[k]) /\ o = Owner("stack", k, stack[k])
      BY DEF TopOwners, StackOwners
    <3>2. o.of[2] = k
      BY <3>1 DEF Owner
    <3>3. k > Len(stack) - n
      BY <3>2 DEF TopOwners
    <3>4. n = 1 /\ k = Len(stack)
      BY <1>3, <3>3
    <3> QED BY <1>3, <3>1, <3>4 DEF Top
  <2> QED BY <1>2, <2>2, <2>3 DEF Owners
<1>11. Sound(heap', Owners') /\ (errors' = 0 => NothingLost(heap', Owners'))
  <2>1. heap' = heap
    OBVIOUS
  <2> QED BY <1>1, <1>2, <1>10, <2>1
<1> QED BY <1>7, <1>8, <1>9, <1>11 DEF IInv

(***************************************************************************)
(* The steps keep the invariant                                            *)
(***************************************************************************)

\* The automata on the stack are sound and share nothing.
LEMMA StackAutomata ==
  ASSUME IInv, NEW k \in DOMAIN stack, IsNFA(stack[k])
  PROVE  /\ AutomatonOK(heap, stack[k]) /\ OneFinal(stack[k])
         /\ \A j \in DOMAIN stack : j # k /\ IsNFA(stack[j]) =>
              Claims(heap, stack[j]) \cap Claims(heap, stack[k]) = {}
<1>1. Sound(heap, Owners) /\ OneFinalEach
  BY DEF IInv
<1>2. \A i, a : Owner("stack", i, a).of[2] = i /\ Owner("stack", i, a).nfa = a
  BY DEF Owner
<1>3. \A i \in DOMAIN stack : IsNFA(stack[i]) => Owner("stack", i, stack[i]) \in Owners
  BY DEF Owners, StackOwners
<1>4. AutomatonOK(heap, stack[k])
  BY <1>1, <1>2, <1>3 DEF Sound
<1>5. ASSUME NEW j \in DOMAIN stack, j # k, IsNFA(stack[j])
      PROVE  Claims(heap, stack[j]) \cap Claims(heap, stack[k]) = {}
  <2> DEFINE o == Owner("stack", j, stack[j])
             p == Owner("stack", k, stack[k])
  <2>1. o \in Owners /\ p \in Owners /\ o.of[2] = j /\ p.of[2] = k /\ o.nfa = stack[j] /\ p.nfa = stack[k]
    BY <1>2, <1>3, <1>5
  <2> HIDE DEF o, p
  <2>2. o # p
    BY <1>5, <2>1
  <2> QED BY <1>1, <2>1, <2>2 DEF Sound
<1> QED BY <1>1, <1>4, <1>5 DEF OneFinalEach

\* A reduction that glues the automata of its symbols.
LEMMA MadeKeeps ==
  ASSUME IInv, Parsing, position < Len(RegExp), KeepParsing,
         NEW n \in Nat, n <= Len(stack), NEW outcome,
         Makes(heap, {o.nfa : o \in TopOwners(stack, n)}, outcome),
         heap' = outcome.heap, Replaces(stack, n, outcome.nfa, stack'),
         RegExp[position + 1].prod \notin ListBegins \cup ListGoesOn \cup {"error"},
         \A k \in 1 .. Len(stack) - n : IsNFA(stack[k]),
         Len(stack) - n + 1 = AutomataAfter(RegExp, position + 1)
  PROVE  IInv'
<1> DEFINE used == TopOwners(stack, n)
           nfas == {o.nfa : o \in used}
           owner == Owner("stack", Len(stack) - n + 1, outcome.nfa)
<1>1. Sound(heap, Owners)
  BY DEF IInv
<1>2. used \subseteq Owners
  BY DEF TopOwners, Owners
<1>3. owner.nfa = outcome.nfa
  BY DEF Owner
<1>5. Makes(heap, nfas, outcome)
  OBVIOUS
<1>6. nfas = {o.nfa : o \in used}
  OBVIOUS
<1>8. owner = Owner("stack", Len(stack) - n + 1, outcome.nfa) /\ used = TopOwners(stack, n)
  OBVIOUS
<1> HIDE DEF used, owner, nfas
<1>7. /\ Sound(outcome.heap, (Owners \ used) \cup {owner})
      /\ NothingLost(heap, Owners) => NothingLost(outcome.heap, (Owners \ used) \cup {owner})
      /\ OneFinal(outcome.nfa) /\ IsNFA(outcome.nfa)
  BY <1>1, <1>2, <1>3, <1>5, <1>6, MakesSound
<1> QED BY <1>7, <1>8, BuiltKeeps

\* What Built and Reported say.
LEMMA BuiltReplaces ==
  ASSUME NEW n, NEW outcome, Built(n, outcome)
  PROVE  heap' = outcome.heap /\ Replaces(stack, n, outcome.nfa, stack')
BY DEF Built, Reduced, Replaces

\* The automata that a reduction with two of them takes.
LEMMA TwoAutomata ==
  ASSUME IInv, Parsing, position < Len(RegExp), RegExp[position + 1].prod \in Joins
  PROVE  /\ Len(stack) >= 2 /\ 2 <= Len(stack)
         /\ {o.nfa : o \in TopOwners(stack, 2)} = {Second, Top}
         /\ AutomatonOK(heap, Second) /\ OneFinal(Second)
         /\ AutomatonOK(heap, Top) /\ OneFinal(Top)
         /\ Claims(heap, Second) \cap Claims(heap, Top) = {}
         /\ RegExp[position + 1].prod \notin ListBegins \cup ListGoesOn \cup {"error"}
         /\ \A k \in 1 .. Len(stack) - 2 : IsNFA(stack[k])
         /\ Len(stack) - 2 + 1 = AutomataAfter(RegExp, position + 1)
<1> DEFINE prod == RegExp[position + 1].prod
<1>1. /\ prod \notin ListGoesOn \cup ListEnds \cup {"error"} /\ prod \notin ListBegins
      /\ prod \notin OneOfMany \cup ListEnds
  BY DEF Joins, ListBegins, ListGoesOn, ListEnds, OneOfMany
<1>2. Phases /\ StackShape
  BY DEF IInv
<1> HIDE DEF prod
<1>3. /\ IsSequence(stack) /\ Len(stack) \in Nat /\ DOMAIN stack = 1 .. Len(stack)
      /\ position \in Nat /\ ListOnTop = 0
      /\ Len(stack) = AutomataAfter(RegExp, position)
      /\ \A k \in 1 .. Len(stack) : IsNFA(stack[k])
      /\ Len(stack) >= 2
  <2>1. prod = RegExp[position + 1].prod /\ prod \in Joins
    BY DEF prod
  <2>2. /\ IsSequence(stack) /\ Len(stack) \in Nat /\ DOMAIN stack = 1 .. Len(stack)
        /\ position \in Nat /\ ListOnTop = 0
        /\ Len(stack) = AutomataAfter(RegExp, position) + ListOnTop
        /\ \A k \in 1 .. Len(stack) - ListOnTop : IsNFA(stack[k])
        /\ AutomataAfter(RegExp, position) >= 2
    BY <1>1, <1>2, <2>1, StackBefore
  <2>3. AutomataAfter(RegExp, position) \in Int
    BY <2>2, <2>1, NextCounted
  <2>4. Len(stack) = AutomataAfter(RegExp, position) /\ Len(stack) - ListOnTop = Len(stack)
    BY <2>2, <2>3
  <2> QED BY <2>2, <2>4
<1>4. AutomataAfter(RegExp, position + 1) = AutomataAfter(RegExp, position) - 1
  BY <1>1, <1>3, NextCounted DEF prod
<1>5. {o.nfa : o \in TopOwners(stack, 2)} = {Second, Top}
  <2>1. {o.nfa : o \in TopOwners(stack, 2)} =
           {stack[k] : k \in {j \in Len(stack) - 2 + 1 .. Len(stack) : IsNFA(stack[j])}}
    BY <1>3, TopAutomata
  <2>2. {j \in Len(stack) - 2 + 1 .. Len(stack) : IsNFA(stack[j])} = {Len(stack) - 1, Len(stack)}
    BY <1>3
  <2> QED BY <2>1, <2>2 DEF Second, Top
<1>6. /\ AutomatonOK(heap, Second) /\ OneFinal(Second)
      /\ AutomatonOK(heap, Top) /\ OneFinal(Top)
      /\ Claims(heap, Second) \cap Claims(heap, Top) = {}
  <2>1. Len(stack) - 1 \in DOMAIN stack /\ Len(stack) \in DOMAIN stack /\ Len(stack) - 1 # Len(stack)
        /\ IsNFA(stack[Len(stack) - 1]) /\ IsNFA(stack[Len(stack)])
    BY <1>3
  <2>2. AutomatonOK(heap, stack[Len(stack)]) /\ OneFinal(stack[Len(stack)])
    BY <2>1, StackAutomata
  <2>3. AutomatonOK(heap, stack[Len(stack) - 1]) /\ OneFinal(stack[Len(stack) - 1])
    BY <2>1, StackAutomata
  <2>4. Claims(heap, stack[Len(stack) - 1]) \cap Claims(heap, stack[Len(stack)]) = {}
    BY <2>1, StackAutomata
  <2> QED BY <2>2, <2>3, <2>4 DEF Second, Top
<1>7. \A k \in 1 .. Len(stack) - 2 : IsNFA(stack[k])
  BY <1>3
<1>8. Len(stack) - 2 + 1 = AutomataAfter(RegExp, position + 1)
  BY <1>3, <1>4
<1> QED BY <1>1, <1>3, <1>5, <1>6, <1>7, <1>8 DEF prod

\* And those with one, or with a list of characters, or with none.
LEMMA OneAutomaton ==
  ASSUME IInv, Parsing, position < Len(RegExp),
         NEW prod, prod = RegExp[position + 1].prod, prod \in Repeats \cup ListEnds \cup OneOfMany,
         NEW n, n = IF prod \in OneOfMany THEN 0 ELSE 1
  PROVE  /\ n \in Nat /\ n <= Len(stack)
         /\ {o.nfa : o \in TopOwners(stack, n)} = IF prod \in Repeats THEN {Top} ELSE {}
         /\ prod \in Repeats => AutomatonOK(heap, Top) /\ OneFinal(Top)
         /\ prod \notin ListBegins \cup ListGoesOn \cup {"error"}
         /\ \A k \in 1 .. Len(stack) - n : IsNFA(stack[k])
         /\ Len(stack) - n + 1 = AutomataAfter(RegExp, position + 1)
<1>1. /\ prod \notin ListBegins \cup ListGoesOn \cup {"error"} /\ prod \notin Joins
      /\ prod \in Repeats => prod \notin OneOfMany \cup ListEnds
      /\ prod \in OneOfMany => prod \notin ListEnds /\ prod \notin Repeats
      /\ prod \in ListEnds => prod \notin Repeats /\ prod \notin OneOfMany
  BY DEF Joins, ListBegins, ListGoesOn, ListEnds, OneOfMany, Repeats
<1>2. Phases /\ StackShape
  BY DEF IInv
<1>3. /\ IsSequence(stack) /\ Len(stack) \in Nat /\ DOMAIN stack = 1 .. Len(stack)
      /\ position \in Nat /\ ListOnTop \in {0, 1}
      /\ Len(stack) >= ListOnTop
      /\ Len(stack) = AutomataAfter(RegExp, position) + ListOnTop
      /\ \A k \in 1 .. Len(stack) - ListOnTop : IsNFA(stack[k])
      /\ ListOnTop = 1 => ~IsNFA(Top)
      /\ prod \in ListEnds => ListOnTop = 1
      /\ prod \notin ListGoesOn \cup ListEnds \cup {"error"} => ListOnTop = 0
      /\ prod \in Repeats => AutomataAfter(RegExp, position) >= 1
  BY <1>2, StackBefore
<1>4. /\ AutomataAfter(RegExp, position) \in Int
      /\ prod \in OneOfMany \cup ListEnds =>
           AutomataAfter(RegExp, position + 1) = AutomataAfter(RegExp, position) + 1
      /\ prod \in Repeats => AutomataAfter(RegExp, position + 1) = AutomataAfter(RegExp, position)
  BY <1>1, <1>3, NextCounted
<1>5. n \in Nat /\ n <= Len(stack)
  <2> DEFINE before == AutomataAfter(RegExp, position)
  <2>1. prod \in Repeats => n = 1 /\ before >= 1 /\ ListOnTop = 0
    BY <1>1, <1>3
  <2>2. prod \in ListEnds => n = 1 /\ ListOnTop = 1
    BY <1>1, <1>3
  <2>3. prod \in OneOfMany => n = 0
    OBVIOUS
  <2>4. Len(stack) \in Nat /\ Len(stack) >= ListOnTop /\ Len(stack) = before + ListOnTop /\ before \in Int
    BY <1>3, <1>4
  <2> HIDE DEF before
  <2>5. CASE prod \in Repeats
    BY <2>1, <2>4, <2>5
  <2>6. CASE prod \in ListEnds
    BY <2>2, <2>4, <2>6
  <2>7. CASE prod \in OneOfMany
    BY <2>3, <2>4, <2>7
  <2> QED BY <2>5, <2>6, <2>7
<1>6. {o.nfa : o \in TopOwners(stack, n)} = {stack[k] : k \in {j \in Len(stack) - n + 1 .. Len(stack) : IsNFA(stack[j])}}
  BY <1>3, <1>5, TopAutomata
<1>7. CASE prod \in Repeats
  <2>1. n = 1 /\ ListOnTop = 0 /\ Len(stack) >= 1 /\ prod \notin OneOfMany \cup ListEnds
    <3>1. prod \notin OneOfMany \cup ListEnds
      BY <1>1, <1>7
    <3>2. n = 1 /\ ListOnTop = 0
      BY <1>1, <1>3, <1>7, <3>1
    <3> QED BY <1>5, <3>1, <3>2
  <2>2. {j \in Len(stack) - n + 1 .. Len(stack) : IsNFA(stack[j])} = {Len(stack)}
    BY <1>3, <2>1
  <2>3. Len(stack) \in DOMAIN stack /\ IsNFA(stack[Len(stack)])
    BY <1>3, <2>1
  <2>4. AutomatonOK(heap, Top) /\ OneFinal(Top)
    BY <2>3, StackAutomata DEF Top
  <2>5. {o.nfa : o \in TopOwners(stack, n)} = {Top}
    BY <1>6, <2>2 DEF Top
  <2>6. Len(stack) - n + 1 = AutomataAfter(RegExp, position + 1)
    BY <1>3, <1>4, <1>7, <2>1
  <2>7. \A k \in 1 .. Len(stack) - n : IsNFA(stack[k])
    BY <1>3, <2>1
  <2> QED BY <1>1, <1>5, <1>7, <2>4, <2>5, <2>6, <2>7
<1>8. CASE prod \in ListEnds
  <2>1. n = 1 /\ ListOnTop = 1 /\ prod \notin Repeats
    BY <1>1, <1>3, <1>8
  <2>2. {j \in Len(stack) - n + 1 .. Len(stack) : IsNFA(stack[j])} = {}
    BY <1>3, <2>1 DEF Top
  <2>3. {o.nfa : o \in TopOwners(stack, n)} = {}
    BY <1>6, <2>2
  <2>4. Len(stack) - n + 1 = AutomataAfter(RegExp, position + 1)
    BY <1>3, <1>4, <1>8, <2>1
  <2>5. \A k \in 1 .. Len(stack) - n : IsNFA(stack[k])
    BY <1>3, <2>1
  <2> QED BY <1>1, <1>5, <2>1, <2>3, <2>4, <2>5
<1>9. CASE prod \in OneOfMany
  <2>1. n = 0 /\ ListOnTop = 0 /\ prod \notin Repeats
    BY <1>1, <1>3, <1>9
  <2>2. {j \in Len(stack) - n + 1 .. Len(stack) : IsNFA(stack[j])} = {}
    BY <1>3, <2>1
  <2>3. {o.nfa : o \in TopOwners(stack, n)} = {}
    BY <1>6, <2>2
  <2>4. Len(stack) - n + 1 = AutomataAfter(RegExp, position + 1)
    BY <1>3, <1>4, <1>9, <2>1
  <2>5. \A k \in 1 .. Len(stack) - n : IsNFA(stack[k])
    BY <1>3, <2>1
  <2> QED BY <1>1, <1>5, <2>1, <2>3, <2>4, <2>5
<1> QED BY <1>7, <1>8, <1>9

\* The ids of lexemes are not 0, and macros have none.
LEMMA LexemeIDNotZero ==
  ASSUME Phases, Parsing
  PROVE  LexemeID # 0
<1>1. index \in Nat \ {0}
  BY DEF Phases
<1> QED BY <1>1 DEF LexemeID, InvalidLexeme, TokenFirstID

\* RE_RegExpConcat.
LEMMA ReduceConcatKeeps == ASSUME IInv, ReduceConcat PROVE IInv'
<1>1. Parsing /\ position < Len(RegExp) /\ RegExp[position + 1].prod \in Joins /\ KeepParsing
  BY DEF ReduceConcat, Reported, Joins
<1> DEFINE outcome == Concat(heap, Second, Top)
<1>2. Built(2, outcome)
  BY DEF ReduceConcat
<1>3. Sound(heap, Owners)
  BY DEF IInv
<1>4. Makes(heap, {Second, Top}, outcome)
  BY <1>1, <1>3, TwoAutomata, ConcatMakes DEF Sound
<1> HIDE DEF outcome
<1>5. heap' = outcome.heap /\ Replaces(stack, 2, outcome.nfa, stack')
  BY <1>2, BuiltReplaces
<1>6. Makes(heap, {o.nfa : o \in TopOwners(stack, 2)}, outcome)
  BY <1>1, <1>4, TwoAutomata
<1> QED BY <1>1, <1>5, <1>6, TwoAutomata, MadeKeeps

\* RE_AOr.
LEMMA ReduceOrKeeps == ASSUME IInv, ReduceOr PROVE IInv'
<1>1. Parsing /\ position < Len(RegExp) /\ RegExp[position + 1].prod \in Joins /\ KeepParsing
  BY DEF ReduceOr, Reported, Joins
<1> DEFINE outcome == Or(heap, Second, Top)
<1>2. Built(2, outcome)
  BY DEF ReduceOr
<1>3. Sound(heap, Owners)
  BY DEF IInv
<1>4. Makes(heap, {Second, Top}, outcome)
  BY <1>1, <1>3, TwoAutomata, OrMakes DEF Sound
<1> HIDE DEF outcome
<1>5. heap' = outcome.heap /\ Replaces(stack, 2, outcome.nfa, stack')
  BY <1>2, BuiltReplaces
<1>6. Makes(heap, {o.nfa : o \in TopOwners(stack, 2)}, outcome)
  BY <1>1, <1>4, TwoAutomata
<1> QED BY <1>1, <1>5, <1>6, TwoAutomata, MadeKeeps

\* RE_BStar, RE_BPlus and RE_BQuestion.
LEMMA ReduceKleeneKeeps == ASSUME IInv, ReduceKleene PROVE IInv'
<1> DEFINE prod == RegExp[position + 1].prod
           type == CASE Reduction.prod = "BStar" -> "both"
                     [] Reduction.prod = "BPlus" -> "back"
                     [] Reduction.prod = "BQuestion" -> "empty"
           outcome == Kleene(heap, Top, type)
<1>1. Parsing /\ position < Len(RegExp) /\ prod \in Repeats /\ prod \notin OneOfMany /\ KeepParsing
  BY DEF ReduceKleene, Reported, Repeats, OneOfMany
<1>2. Built(1, outcome)
  BY DEF ReduceKleene
<1>3. Sound(heap, Owners)
  BY DEF IInv
<1> HIDE DEF type, prod
<1>4. /\ 1 <= Len(stack)
      /\ {o.nfa : o \in TopOwners(stack, 1)} = {Top}
      /\ AutomatonOK(heap, Top) /\ OneFinal(Top)
      /\ prod \notin ListBegins \cup ListGoesOn \cup {"error"}
      /\ \A k \in 1 .. Len(stack) - 1 : IsNFA(stack[k])
      /\ Len(stack) - 1 + 1 = AutomataAfter(RegExp, position + 1)
  <2>1. prod = RegExp[position + 1].prod
    BY DEF prod
  <2> QED BY <1>1, <2>1, OneAutomaton
<1>5. Makes(heap, {Top}, outcome)
  BY <1>3, <1>4, KleeneMakes DEF Sound
<1> HIDE DEF outcome
<1>6. heap' = outcome.heap /\ Replaces(stack, 1, outcome.nfa, stack')
  BY <1>2, BuiltReplaces
<1>7. Makes(heap, {o.nfa : o \in TopOwners(stack, 1)}, outcome)
  BY <1>4, <1>5
<1> QED BY <1>1, <1>4, <1>6, <1>7, MadeKeeps DEF prod

\* RE_CChar and RE_CDot.
LEMMA ReduceCharKeeps == ASSUME IInv, ReduceChar PROVE IInv'
<1> DEFINE prod == RegExp[position + 1].prod
           chars == IF Reduction.prod = "CChar" THEN <<Shifted(1)>>
                    ELSE SelectSeq(AllChars, LAMBDA c : c \notin {NewLine, CarriageReturn})
           outcome == CreateChars(heap, chars, LexemeID)
<1>1. Parsing /\ position < Len(RegExp) /\ prod \in OneOfMany /\ prod \notin Repeats /\ KeepParsing
  BY DEF ReduceChar, Reported, OneOfMany, Repeats
<1>2. Built(0, outcome)
  BY DEF ReduceChar
<1>3. HeapOK(heap) /\ LexemeID # 0
  BY <1>1, LexemeIDNotZero DEF IInv, Sound
<1> HIDE DEF chars, prod
<1>4. /\ 0 <= Len(stack)
      /\ {o.nfa : o \in TopOwners(stack, 0)} = {}
      /\ prod \notin ListBegins \cup ListGoesOn \cup {"error"}
      /\ \A k \in 1 .. Len(stack) - 0 : IsNFA(stack[k])
      /\ Len(stack) - 0 + 1 = AutomataAfter(RegExp, position + 1)
  <2>1. prod = RegExp[position + 1].prod
    BY DEF prod
  <2> QED BY <1>1, <2>1, OneAutomaton
<1>5. Makes(heap, {}, outcome)
  BY <1>3, CreateCharsMakes
<1> HIDE DEF outcome
<1>6. heap' = outcome.heap /\ Replaces(stack, 0, outcome.nfa, stack')
  BY <1>2, BuiltReplaces
<1>7. Makes(heap, {o.nfa : o \in TopOwners(stack, 0)}, outcome)
  BY <1>4, <1>5
<1> QED BY <1>1, <1>4, <1>6, <1>7, MadeKeeps DEF prod

\* RE_CGroupSet and RE_CNotGroupSet.
LEMMA ReduceCharsOfGroupKeeps == ASSUME IInv, ReduceCharsOfGroup PROVE IInv'
<1> DEFINE prod == RegExp[position + 1].prod
           group == CharsOf(Top.list)
           chars == IF Reduction.prod = "CGroupSet" THEN group
                    ELSE SelectSeq(AllChars, LAMBDA c : c \notin ToSet(group))
           outcome == CreateChars(heap, chars, LexemeID)
<1>1. Parsing /\ position < Len(RegExp) /\ prod \in ListEnds /\ prod \notin Repeats
      /\ prod \notin OneOfMany /\ KeepParsing
  BY DEF ReduceCharsOfGroup, Reported, ListEnds, Repeats, OneOfMany
<1>2. Built(1, outcome)
  BY DEF ReduceCharsOfGroup
<1>3. HeapOK(heap) /\ LexemeID # 0
  BY <1>1, LexemeIDNotZero DEF IInv, Sound
<1> HIDE DEF chars, prod
<1>4. /\ 1 <= Len(stack)
      /\ {o.nfa : o \in TopOwners(stack, 1)} = {}
      /\ prod \notin ListBegins \cup ListGoesOn \cup {"error"}
      /\ \A k \in 1 .. Len(stack) - 1 : IsNFA(stack[k])
      /\ Len(stack) - 1 + 1 = AutomataAfter(RegExp, position + 1)
  <2>1. prod = RegExp[position + 1].prod
    BY DEF prod
  <2> QED BY <1>1, <2>1, OneAutomaton
<1>5. Makes(heap, {}, outcome)
  BY <1>3, CreateCharsMakes
<1> HIDE DEF outcome
<1>6. heap' = outcome.heap /\ Replaces(stack, 1, outcome.nfa, stack')
  BY <1>2, BuiltReplaces
<1>7. Makes(heap, {o.nfa : o \in TopOwners(stack, 1)}, outcome)
  BY <1>4, <1>5
<1> QED BY <1>1, <1>4, <1>6, <1>7, MadeKeeps DEF prod

\* The productions of a group.
LEMMA ReduceGroupSetKeeps == ASSUME IInv, ReduceGroupSet PROVE IInv'
<1> DEFINE prod == RegExp[position + 1].prod
           range == <<Shifted(1), Shifted(Len(Reduction.chars))>>
<1>1. Parsing /\ position < Len(RegExp) /\ KeepParsing /\ UNCHANGED heap
      /\ prod \in {"GroupSetChar", "GroupSetCharGroupSet", "GroupSetCharList", "GroupSetCharListGroupSet"}
  BY DEF ReduceGroupSet, Reported
<1>2. IF prod \in {"GroupSetChar", "GroupSetCharList"} THEN Replaces(stack, 0, List(range), stack')
      ELSE Replaces(stack, 1, List(Top.list \o range), stack')
  BY DEF ReduceGroupSet, Reduction, Reduced, Replaces
<1> HIDE DEF range
<1>3. CASE prod \in {"GroupSetChar", "GroupSetCharList"}
  <2>1. prod \in ListBegins
    BY <1>3 DEF ListBegins
  <2>2. Replaces(stack, 0, List(range), stack')
    BY <1>2, <1>3
  <2> QED BY <1>1, <2>1, <2>2, ListKeeps
<1>4. CASE prod \notin {"GroupSetChar", "GroupSetCharList"}
  <2>1. prod \in ListGoesOn
    BY <1>1, <1>4 DEF ListGoesOn
  <2>2. Replaces(stack, 1, List(Top.list \o range), stack')
    BY <1>2, <1>4
  <2> QED BY <1>1, <2>1, <2>2, ListKeeps
<1> QED BY <1>3, <1>4

\* The productions of a macro's name.
LEMMA ReduceCharSetKeeps == ASSUME IInv, ReduceCharSet PROVE IInv'
<1> DEFINE prod == RegExp[position + 1].prod
<1>1. Parsing /\ position < Len(RegExp) /\ KeepParsing /\ UNCHANGED heap
      /\ prod \in {"CharSet", "CharSetChar"}
  BY DEF ReduceCharSet, Reported
<1>2. IF prod = "CharSet" THEN Replaces(stack, 0, List(<<Shifted(1)>>), stack')
      ELSE Replaces(stack, 1, List(Append(Top.list, Shifted(1))), stack')
  BY DEF ReduceCharSet, Reduction, Reduced, Replaces
<1>3. CASE prod = "CharSet"
  <2>1. prod \in ListBegins
    BY <1>3 DEF ListBegins
  <2>2. Replaces(stack, 0, List(<<Shifted(1)>>), stack')
    BY <1>2, <1>3
  <2> QED BY <1>1, <2>1, <2>2, ListKeeps
<1>4. CASE prod # "CharSet"
  <2>1. prod \in ListGoesOn
    BY <1>1, <1>4 DEF ListGoesOn
  <2>2. Replaces(stack, 1, List(Append(Top.list, Shifted(1))), stack')
    BY <1>2, <1>4
  <2> QED BY <1>1, <2>1, <2>2, ListKeeps
<1> QED BY <1>3, <1>4

\* RE_CCharSet: the macro keeps its automaton, a copy of it goes to the stack.
LEMMA ReduceMacroKeeps == ASSUME IInv, ReduceMacro PROVE IInv'
<1> DEFINE prod == RegExp[position + 1].prod
           name == Top.list
           a == macroNFAs[name]
           source == Owner("macro", name, a)
           outcome == Copy(heap, a, LexemeID)
           owner == Owner("stack", Len(stack) - 1 + 1, outcome.nfa)
<1>1. Parsing /\ position < Len(RegExp) /\ prod \in ListEnds /\ prod \notin Repeats
      /\ prod \notin OneOfMany /\ KeepParsing
  BY DEF ReduceMacro, Reported, ListEnds, Repeats, OneOfMany
<1>2. Built(1, outcome) /\ name \in DOMAIN macroNFAs /\ CanCopy(heap, a)
  BY DEF ReduceMacro
<1>3. Sound(heap, Owners) /\ OneFinalEach /\ LexemeID # 0
  BY <1>1, LexemeIDNotZero DEF IInv
<1>4. source \in Owners
  BY <1>2 DEF Owners, MacroOwners
<1>5. source.nfa = a /\ owner.nfa = outcome.nfa
  BY DEF Owner
<1>6. OneFinal(a)
  BY <1>2, <1>3 DEF OneFinalEach
<1> HIDE DEF prod
<1>7. /\ 1 <= Len(stack)
      /\ {o.nfa : o \in TopOwners(stack, 1)} = {}
      /\ prod \notin ListBegins \cup ListGoesOn \cup {"error"}
      /\ \A k \in 1 .. Len(stack) - 1 : IsNFA(stack[k])
      /\ Len(stack) - 1 + 1 = AutomataAfter(RegExp, position + 1)
  <2>1. prod = RegExp[position + 1].prod
    BY DEF prod
  <2> QED BY <1>1, <2>1, OneAutomaton
<1>8. Owners \ TopOwners(stack, 1) = Owners
  <2>1. TopOwners(stack, 1) = {}
    BY <1>7
  <2> QED BY <2>1
<1>9. outcome = Copy(heap, a, LexemeID) /\ owner = Owner("stack", Len(stack) - 1 + 1, outcome.nfa)
  OBVIOUS
<1> HIDE DEF a, source, outcome, owner
<1>10. /\ Sound(outcome.heap, Owners \cup {owner})
       /\ NothingLost(heap, Owners) => NothingLost(outcome.heap, Owners \cup {owner})
       /\ OneFinal(outcome.nfa) /\ IsNFA(outcome.nfa)
  BY <1>2, <1>3, <1>4, <1>5, <1>6, <1>9, CopySound
<1>11. heap' = outcome.heap /\ Replaces(stack, 1, outcome.nfa, stack')
  BY <1>2, BuiltReplaces
<1> QED BY <1>1, <1>7, <1>8, <1>9, <1>10, <1>11, BuiltKeeps DEF prod

\* A final state has no copy: nothing has changed yet.
LEMMA CopyLostKeeps == ASSUME IInv, CopyLost PROVE IInv'
<1>1. /\ UNCHANGED <<input, index, expression, position, heap, stack, macroNFAs, lexemeNFAs,
                     combined, errors>>
      /\ phase' = "crashed" /\ Parsing
  BY DEF CopyLost, Reported, subset
<1>2. Phases /\ StackShape /\ OneFinalEach /\ Sound(heap, Owners) /\ (errors = 0 => NothingLost(heap, Owners))
  BY DEF IInv
<1>3. phase \in {"macro", "lexeme"}
  BY <1>1 DEF Parsing
<1>4. Owners' = Owners
  BY <1>1 DEF Owners
<1>5. ~ Parsing'
  BY <1>1 DEF Parsing
<1>6. StackShape'
  BY <1>1, <1>2, <1>5 DEF StackShape
<1>7. Phases'
  BY <1>1, <1>2, <1>3 DEF Phases
<1>8. OneFinalEach'
  BY <1>1, <1>2 DEF OneFinalEach
<1>9. Sound(heap', Owners') /\ (errors' = 0 => NothingLost(heap', Owners'))
  BY <1>1, <1>2, <1>4
<1> QED BY <1>6, <1>7, <1>8, <1>9 DEF IInv

\* The stack is empty at the start of a regular expression.
LEMMA FreshShape ==
  ASSUME Phases', stack' = <<>>, position' = 0
  PROVE  StackShape'
<1>1. IsSequence(stack') /\ Len(stack') = 0
  <2>1. <<>> \in Seq({})
    OBVIOUS
  <2>2. IsSequence(<<>>) /\ Len(<<>>) = 0
    BY <2>1, SequenceOfItself
  <2> QED BY <2>2
<1>2. ListOnTop' = 0
  BY DEF ListOnTop
<1>3. ASSUME Parsing'
      PROVE  Len(RegExp') \in Nat /\ AutomataAfter(RegExp', 0) = 0
  <2>0. (Phases /\ Parsing => WellFormed(RegExp))'
    BY AlwaysReported, PTL
  <2>1. WellFormed(RegExp')
    BY <1>3, <2>0 DEF WellFormed
  <2>2. Len(RegExp') \in Nat
    BY <2>1, LenProperties DEF WellFormed, IsSequence
  <2> QED BY <2>2, AutomataCounted
<1> QED BY <1>1, <1>2, <1>3 DEF StackShape

\* What is left on the stack when all of a regular expression is reduced.
LEMMA StackAtEnd ==
  ASSUME IInv, Parsing, position = Len(RegExp)
  PROVE  /\ Len(stack) = 1 /\ DOMAIN stack = {1} /\ IsNFA(Top) /\ OneFinal(Top)
         /\ StackOwners(stack) = {Owner("stack", 1, Top)}
<1>1. Phases /\ StackShape /\ OneFinalEach
  BY DEF IInv
<1>2. WellFormed(RegExp)
  BY <1>1, RegExpReported
<1>3. DOMAIN RegExp = 1 .. Len(RegExp) /\ Len(RegExp) \in Nat /\ RegExp # <<>>
  BY <1>2, LenProperties DEF WellFormed, IsSequence
<1>4. position > 0 /\ position \in DOMAIN RegExp
  <2>1. Len(RegExp) # 0
    BY <1>2, <1>3, EmptySeq DEF WellFormed, IsSequence
  <2> QED BY <1>3, <2>1
<1>5. RegExp[position].prod # "error"
  BY <1>1, <1>4 DEF StackShape
<1>6. AutomataAfter(RegExp, position) = 1
  BY <1>2, <1>5 DEF WellFormed
<1>7. ListOnTop = 0
  <2>1. RegExp[position].prod \in ListBegins \cup ListGoesOn => position < Len(RegExp)
    BY <1>2, <1>4 DEF WellFormed
  <2> QED BY <1>3, <2>1 DEF ListOnTop
<1>8. Len(stack) = 1 /\ DOMAIN stack = {1}
  <2>1. Len(stack) = 1
    BY <1>1, <1>6, <1>7 DEF StackShape
  <2>2. DOMAIN stack = 1 .. Len(stack)
    BY <1>1, LenProperties DEF StackShape, IsSequence
  <2> QED BY <2>1, <2>2
<1>9. IsNFA(stack[1]) /\ Top = stack[1]
  BY <1>1, <1>7, <1>8 DEF StackShape, Top
<1>10. OneFinal(Top)
  BY <1>1, <1>8, <1>9 DEF OneFinalEach
<1>11. StackOwners(stack) = {Owner("stack", 1, Top)}
  BY <1>8, <1>9 DEF StackOwners
<1> QED BY <1>8, <1>9, <1>10, <1>11

\* The automaton on the stack is handed on.
LEMMA StackHandedOn ==
  ASSUME IInv, Parsing, position = Len(RegExp), NEW id, id # 0, NEW kind, NEW key,
         NEW owner, owner = Owner(kind, key, [Top EXCEPT !.lexeme = id])
  PROVE  LET rest == MacroOwners(macroNFAs) \cup LexemeOwners(lexemeNFAs) \cup CombinedOwners(combined)
         IN  /\ Sound(heap, rest \cup {owner})
             /\ NothingLost(heap, Owners) => NothingLost(heap, rest \cup {owner})
             /\ OneFinal([Top EXCEPT !.lexeme = id])
<1> DEFINE rest == MacroOwners(macroNFAs) \cup LexemeOwners(lexemeNFAs) \cup CombinedOwners(combined)
           source == Owner("stack", 1, Top)
<1>1. Sound(heap, Owners)
  BY DEF IInv
<1>2. StackOwners(stack) = {source} /\ OneFinal(Top)
  BY StackAtEnd
<1>3. \A o \in rest : o \notin StackOwners(stack)
  BY KindsOfOwners
<1>4. Owners = StackOwners(stack) \cup rest
  BY DEF Owners
<1>5. source.nfa = Top /\ owner.nfa = [Top EXCEPT !.lexeme = id]
  BY DEF Owner
<1> HIDE DEF rest, source
<1>6. source \in Owners /\ (Owners \ {source}) \cup {owner} = rest \cup {owner}
  BY <1>2, <1>3, <1>4
<1> DEFINE all == Owners
<1>9. Sound(heap, all) /\ source \in all
  BY <1>1, <1>6
<1> HIDE DEF all
<1>7. /\ Sound(heap, (all \ {source}) \cup {owner})
      /\ NothingLost(heap, all) => NothingLost(heap, (all \ {source}) \cup {owner})
      /\ OneFinal(source.nfa) /\ id # 0 => OneFinal(owner.nfa)
  <2>1. Relabelled(source.nfa, id, owner.nfa)
    BY <1>5 DEF Relabelled
  <2>2. Sound(heap, (all \ {source}) \cup {owner})
    BY <1>9, <2>1, HandedOn
  <2>3. NothingLost(heap, all) => NothingLost(heap, (all \ {source}) \cup {owner})
    BY <1>9, <2>1, HandedOn
  <2>4. OneFinal(source.nfa) /\ id # 0 => OneFinal(owner.nfa)
    <3>1. AutomatonOK(heap, source.nfa)
      BY <1>9 DEF Sound
    <3> QED BY <2>1, <3>1, StillOneFinal
  <2> QED BY <2>2, <2>3, <2>4
<1>8. OneFinal([Top EXCEPT !.lexeme = id])
  BY <1>2, <1>5, <1>7
<1> QED BY <1>6, <1>7, <1>8 DEF rest, all

\* MoveData: the automaton goes to the macros or to the lexemes.
LEMMA RegExpEndsKeeps == ASSUME IInv, RegExpEnds PROVE IInv'
<1> DEFINE rest == MacroOwners(macroNFAs) \cup LexemeOwners(lexemeNFAs) \cup CombinedOwners(combined)
<1>1. Phases /\ StackShape /\ OneFinalEach /\ Sound(heap, Owners) /\ (errors = 0 => NothingLost(heap, Owners))
  BY DEF IInv
<1>2. /\ Parsing /\ position = Len(RegExp)
      /\ stack' = <<>> /\ position' = 0 /\ index' = index + 1
      /\ UNCHANGED <<input, phase, expression, heap, combined, errors>>
  BY DEF RegExpEnds, subset
<1>3. Expressions' = Expressions
  BY <1>2 DEF Expressions
<1>4. index \in Nat \ {0} /\ phase \in {"macro", "lexeme"}
  BY <1>1, <1>2 DEF Phases, Parsing
<1>5. StackOwners(stack') = {} /\ \A k \in DOMAIN stack' : FALSE
  BY <1>2 DEF StackOwners
<1>6. CASE phase = "macro"
  <2> DEFINE name == input.macros[index].name
             a == [Top EXCEPT !.lexeme = InvalidLexeme]
             owner == Owner("macro", name, a)
  <2>1. /\ macroNFAs' = [m \in DOMAIN macroNFAs \cup {name} |-> IF m = name THEN a ELSE macroNFAs[m]]
        /\ lexemeNFAs' = lexemeNFAs
    BY <1>6 DEF RegExpEnds
  <2>2. name \notin DOMAIN macroNFAs
    <3> SUFFICES ASSUME name \in DOMAIN macroNFAs PROVE FALSE
      OBVIOUS
    <3>1. PICK m \in 1 .. index - 1 : input.macros[m].name = name
      BY <1>1, <1>6 DEF Phases
    <3>2. IsSequence(input.macros) /\ index <= Len(input.macros) /\ input \in Inputs
      BY <1>1, <1>2, <1>6, ExpressionsThere DEF Parsing, Phases
    <3>3. DOMAIN input.macros = 1 .. Len(input.macros) /\ Len(input.macros) \in Nat
      BY <3>2, LenProperties DEF IsSequence
    <3>4. m \in DOMAIN input.macros /\ index \in DOMAIN input.macros /\ m # index
      BY <1>4, <3>2, <3>3
    <3> QED BY <3>1, <3>2, <3>4, InputsAssumption
  <2>3. InvalidLexeme # 0
    BY DEF InvalidLexeme
  <2>4. /\ Sound(heap, rest \cup {owner})
        /\ NothingLost(heap, Owners) => NothingLost(heap, rest \cup {owner})
        /\ OneFinal(a)
    BY <1>2, <2>3, StackHandedOn
  <2> HIDE DEF a, name
  <2>5. /\ DOMAIN macroNFAs' = DOMAIN macroNFAs \cup {name} /\ macroNFAs'[name] = a
        /\ \A m \in DOMAIN macroNFAs : macroNFAs'[m] = macroNFAs[m]
    BY <2>1, <2>2
  <2>6. MacroOwners(macroNFAs') = MacroOwners(macroNFAs) \cup {owner}
    BY <2>5 DEF MacroOwners
  <2>7. Owners' = rest \cup {owner}
    BY <1>2, <1>5, <2>1, <2>6 DEF Owners
  <2>8. OneFinalEach'
    BY <1>1, <1>5, <2>1, <2>4, <2>5 DEF OneFinalEach
  <2>9. Phases'
    <3>1. \A n \in DOMAIN macroNFAs' : \E m \in 1 .. index' - 1 : input.macros[m].name = n
      <4> TAKE n \in DOMAIN macroNFAs'
      <4>1. CASE n = name
        <5>1. index \in 1 .. index' - 1
          BY <1>2, <1>4
        <5> QED BY <4>1, <5>1 DEF name
      <4>2. CASE n # name
        <5>1. PICK m \in 1 .. index - 1 : input.macros[m].name = n
          BY <1>1, <1>6, <2>5, <4>2 DEF Phases
        <5>2. m \in 1 .. index' - 1
          BY <1>2, <1>4
        <5> QED BY <5>1, <5>2
      <4> QED BY <4>1, <4>2
    <3> QED BY <1>1, <1>2, <1>4, <1>6, <2>1, <3>1 DEF Phases
  <2>10. Sound(heap', Owners') /\ (errors' = 0 => NothingLost(heap', Owners'))
    BY <1>1, <1>2, <2>4, <2>7
  <2> QED BY <1>2, <2>8, <2>9, <2>10, FreshShape DEF IInv
<1>7. CASE phase # "macro"
  <2> DEFINE a == [Top EXCEPT !.lexeme = LexemeID]
             owner == Owner("lexeme", Len(lexemeNFAs) + 1, a)
  <2>1. lexemeNFAs' = Append(lexemeNFAs, a) /\ macroNFAs' = macroNFAs
    BY <1>7 DEF RegExpEnds
  <2>2. LexemeID # 0
    BY <1>1, <1>2, LexemeIDNotZero
  <2>3. /\ Sound(heap, rest \cup {owner})
        /\ NothingLost(heap, Owners) => NothingLost(heap, rest \cup {owner})
        /\ OneFinal(a)
    BY <1>2, <2>2, StackHandedOn
  <2> HIDE DEF a
  <2>4. IsSequence(lexemeNFAs)
    BY <1>1 DEF Phases
  <2>5. /\ IsSequence(lexemeNFAs') /\ Len(lexemeNFAs) \in Nat
        /\ DOMAIN lexemeNFAs' = 1 .. Len(lexemeNFAs) + 1 /\ DOMAIN lexemeNFAs = 1 .. Len(lexemeNFAs)
        /\ \A k \in DOMAIN lexemeNFAs : lexemeNFAs'[k] = lexemeNFAs[k]
        /\ lexemeNFAs'[Len(lexemeNFAs) + 1] = a
    <3>1. OneBehind(lexemeNFAs, a, lexemeNFAs')
      BY <2>1 DEF OneBehind
    <3> QED BY <2>4, <3>1, OnePut
  <2>6. LexemeOwners(lexemeNFAs') = LexemeOwners(lexemeNFAs) \cup {owner}
    <3>1. \A k \in DOMAIN lexemeNFAs' : k \in DOMAIN lexemeNFAs \/ k = Len(lexemeNFAs) + 1
      BY <2>5
    <3>2. DOMAIN lexemeNFAs \subseteq DOMAIN lexemeNFAs' /\ Len(lexemeNFAs) + 1 \in DOMAIN lexemeNFAs'
      BY <2>5
    <3> QED BY <2>5, <3>1, <3>2 DEF LexemeOwners
  <2>7. Owners' = rest \cup {owner}
    BY <1>2, <1>5, <2>1, <2>6 DEF Owners
  <2>8. OneFinalEach'
    <3>1. \A k \in DOMAIN lexemeNFAs' : OneFinal(lexemeNFAs'[k])
      <4> TAKE k \in DOMAIN lexemeNFAs'
      <4>1. k \in DOMAIN lexemeNFAs \/ k = Len(lexemeNFAs) + 1
        BY <2>5
      <4> QED BY <1>1, <2>3, <2>5, <4>1 DEF OneFinalEach
    <3> QED BY <1>1, <1>5, <2>1, <3>1 DEF OneFinalEach
  <2>9. Phases'
    <3>1. expression <= Len(Expressions)
      BY <1>2, <1>7 DEF Parsing
    <3>2. Expressions[expression].start < index /\ Expressions[expression].start \in Nat
      <4>1. Expressions[expression].start < index
        BY <1>1, <1>4, <1>7, <3>1 DEF Phases
      <4>2. expression \in DOMAIN Expressions
        <5>1. IsSequence(Expressions)
          BY <1>1, ExpressionsThere
        <5>2. DOMAIN Expressions = 1 .. Len(Expressions) /\ Len(Expressions) \in Nat
          BY <5>1, LenProperties DEF IsSequence
        <5> QED BY <1>1, <3>1, <5>2 DEF Phases
      <4> QED BY <1>1, <4>1, <4>2, ExpressionsThere
    <3>3. Expressions'[expression'].start < index'
      BY <1>2, <1>3, <1>4, <3>2
    <3> QED BY <1>1, <1>2, <1>3, <1>4, <1>7, <2>1, <2>5, <3>1, <3>3 DEF Phases
  <2>10. Sound(heap', Owners') /\ (errors' = 0 => NothingLost(heap', Owners'))
    BY <1>1, <1>2, <2>3, <2>7
  <2> QED BY <1>2, <2>8, <2>9, <2>10, FreshShape DEF IInv
<1> QED BY <1>6, <1>7

\* The automata of some owners.
LEMMA LexemeAutomata ==
  ASSUME NEW list
  PROVE  ToSet(list) = {o.nfa : o \in LexemeOwners(list)}
<1>1. \A k, a : Owner("lexeme", k, a).nfa = a
  BY DEF Owner
<1>2. \A k \in DOMAIN list : \E o \in LexemeOwners(list) : o.nfa = list[k]
  BY <1>1 DEF LexemeOwners
<1>3. \A o \in LexemeOwners(list) : \E k \in DOMAIN list : o.nfa = list[k]
  BY <1>1 DEF LexemeOwners
<1> QED BY <1>2, <1>3 DEF ToSet

\* And those of the macros.
LEMMA MacroAutomata ==
  ASSUME NEW nfas
  PROVE  {nfas[m] : m \in DOMAIN nfas} = {o.nfa : o \in MacroOwners(nfas)}
<1>1. \A k, a : Owner("macro", k, a).nfa = a
  BY DEF Owner
<1>2. \A k \in DOMAIN nfas : \E o \in MacroOwners(nfas) : o.nfa = nfas[k]
  BY <1>1 DEF MacroOwners
<1>3. \A o \in MacroOwners(nfas) : \E k \in DOMAIN nfas : o.nfa = nfas[k]
  BY <1>1 DEF MacroOwners
<1> QED BY <1>2, <1>3

\* What is empty owns nothing.
LEMMA NothingThere ==
  /\ DOMAIN <<>> = {} /\ IsSequence(<<>>) /\ Len(<<>>) = 0
  /\ StackOwners(<<>>) = {} /\ LexemeOwners(<<>>) = {} /\ MacroOwners(<<>>) = {}
  /\ \A nfa : nfa.start = 0 => CombinedOwners(nfa) = {}
<1>1. <<>> \in Seq({}) /\ Len(<<>>) = 0 /\ DOMAIN <<>> = {}
  OBVIOUS
<1>2. IsSequence(<<>>)
  BY <1>1, SequenceOfItself
<1> QED BY <1>1, <1>2 DEF StackOwners, LexemeOwners, MacroOwners, CombinedOwners

\* Between the regular expressions there is nothing on the stack.
LEMMA BetweenExpressions ==
  ASSUME IInv, ~Parsing, phase \notin {"crashed", "failed"}
  PROVE  /\ stack = <<>> /\ position = 0
         /\ Owners = MacroOwners(macroNFAs) \cup LexemeOwners(lexemeNFAs) \cup CombinedOwners(combined)
<1>1. stack = <<>> /\ position = 0
  BY DEF IInv, StackShape
<1> QED BY <1>1, NothingThere DEF Owners

\* A step that has nothing to do with automata, or none at all.
LEMMA OthersKeep ==
  ASSUME IInv, UNCHANGED <<input, phase, index, expression, position, heap, stack, macroNFAs, lexemeNFAs,
                           combined, errors>>
  PROVE  IInv'
<1>1. Expressions' = Expressions
  BY DEF Expressions
<1>2. LastLexeme' = LastLexeme
  BY <1>1 DEF LastLexeme
<1>3. RegExp' = RegExp /\ (Parsing <=> Parsing') /\ Top' = Top
  BY <1>1, <1>2 DEF RegExp, Parsing, Top
<1>4. ListOnTop' = ListOnTop /\ Owners' = Owners
  BY <1>3 DEF ListOnTop, Owners
<1>5. Phases' /\ OneFinalEach'
  BY <1>1 DEF IInv, Phases, OneFinalEach
<1>6. StackShape'
  BY <1>3, <1>4 DEF IInv, StackShape
<1>7. Sound(heap', Owners') /\ (errors' = 0 => NothingLost(heap', Owners'))
  BY <1>4 DEF IInv
<1> QED BY <1>5, <1>6, <1>7 DEF IInv

\* ConvertActionParam comes before there is any node.
LEMMA ConvertKeeps == ASSUME IInv, ConvertActionParam PROVE IInv'
<1>1. /\ phase = "convert" /\ phase' = "macro"
      /\ UNCHANGED <<input, index, expression, position, heap, stack, macroNFAs, lexemeNFAs, combined>>
  BY DEF ConvertActionParam, subset
<1>2. Phases /\ OneFinalEach /\ Sound(heap, Owners)
  BY DEF IInv
<1>3. ~Parsing
  BY <1>1 DEF Parsing
<1>4. stack = <<>> /\ position = 0
  BY <1>1, <1>3, BetweenExpressions
<1>5. errors' \in Nat
  <2> DEFINE S == {j \in DOMAIN input.lexemes : /\ input.lexemes[j].param # ""
                                               /\ input.lexemes[j].param \notin DOMAIN input.names}
  <2>1. IsSequence(input.lexemes)
    BY <1>2, ExpressionsThere
  <2>2. DOMAIN input.lexemes = 1 .. Len(input.lexemes) /\ Len(input.lexemes) \in Nat
    BY <2>1, LenProperties DEF IsSequence
  <2>3. IsFiniteSet(DOMAIN input.lexemes)
    BY <2>2, FS_Interval
  <2>4. S \subseteq DOMAIN input.lexemes /\ errors' = Cardinality(S)
    BY DEF ConvertActionParam
  <2> HIDE DEF S
  <2> QED BY <2>3, <2>4, FS_Subset, FS_CardinalityType
<1>6. Phases'
  BY <1>1, <1>2, <1>5 DEF Phases
<1>7. StackShape'
  BY <1>1, <1>4, <1>6, FreshShape
<1>8. OneFinalEach'
  BY <1>1, <1>2 DEF OneFinalEach
<1>9. Owners' = Owners
  BY <1>1 DEF Owners
<1>10. NothingLost(heap', Owners')
  <2>1. heap' = <<>>
    BY <1>1, <1>2 DEF Phases
  <2> QED BY <2>1, NothingThere DEF NothingLost
<1> QED BY <1>1, <1>2, <1>6, <1>7, <1>8, <1>9, <1>10 DEF IInv

\* A regular expression that fails: the automata on the stack are forgotten.
LEMMA RegExpFailsKeeps == ASSUME IInv, RegExpFails PROVE IInv'
<1>1. /\ Parsing /\ errors' = errors + 1 /\ stack' = <<>>
      /\ UNCHANGED <<input, expression, macroNFAs, combined>>
  BY DEF RegExpFails, Reported, subset
<1>2. Phases /\ OneFinalEach /\ Sound(heap, Owners)
  BY DEF IInv
<1>3. Expressions' = Expressions
  BY <1>1 DEF Expressions
<1>4. /\ errors' \in Nat /\ errors' # 0 /\ errors' > 0 /\ index \in Nat \ {0}
      /\ phase \in {"macro", "lexeme"}
  BY <1>1, <1>2 DEF Phases, Parsing
<1>5. StackOwners(stack') = {} /\ IsSequence(stack') /\ DOMAIN stack' = {}
  BY <1>1, NothingThere
<1>6. CASE phase = "macro"
  <2>1. phase' = phase /\ index' = index + 1 /\ position' = 0 /\ heap' = heap /\ lexemeNFAs' = lexemeNFAs
    BY <1>6 DEF RegExpFails
  <2>2. \A n \in DOMAIN macroNFAs : \E m \in 1 .. index' - 1 : input.macros[m].name = n
    <3> TAKE n \in DOMAIN macroNFAs
    <3>1. PICK m \in 1 .. index - 1 : input.macros[m].name = n
      BY <1>2, <1>6 DEF Phases
    <3>2. m \in 1 .. index' - 1
      BY <1>4, <2>1
    <3> QED BY <3>1, <3>2
  <2>3. Phases'
    BY <1>1, <1>2, <1>4, <1>6, <2>1, <2>2 DEF Phases
  <2>4. StackShape'
    BY <1>1, <2>1, <2>3, FreshShape
  <2>5. OneFinalEach'
    BY <1>1, <1>2, <1>5, <2>1 DEF OneFinalEach
  <2>6. Owners' \subseteq Owners
    BY <1>1, <1>5, <2>1 DEF Owners
  <2>7. Sound(heap', Owners')
    BY <1>2, <2>1, <2>6, FewerOwners
  <2> QED BY <1>4, <2>3, <2>4, <2>5, <2>7 DEF IInv
<1>7. CASE phase # "macro"
  <2>1. /\ phase' = "failed" /\ heap' = Destroyed(heap, ToSet(lexemeNFAs)) /\ lexemeNFAs' = <<>>
        /\ index' = index
    BY <1>7 DEF RegExpFails
  <2>2. ~ Parsing'
    BY <2>1 DEF Parsing
  <2>3. StackShape'
    BY <1>1, <1>5, <2>1, <2>2 DEF StackShape
  <2>4. combined.start = 0
    BY <1>2, <1>4 DEF Phases
  <2>5. Phases'
    BY <1>1, <1>2, <1>4, <2>1, <2>4, NothingThere DEF Phases
  <2>6. LexemeOwners(lexemeNFAs') = {} /\ DOMAIN lexemeNFAs' = {}
    BY <2>1, NothingThere
  <2>7. OneFinalEach'
    BY <1>1, <1>2, <1>5, <2>6 DEF OneFinalEach
  <2> DEFINE used == LexemeOwners(lexemeNFAs)
  <2>8. used \subseteq Owners
    BY DEF Owners
  <2>9. ToSet(lexemeNFAs) = {o.nfa : o \in used}
    BY LexemeAutomata
  <2>10. \A o \in MacroOwners(macroNFAs) : o \notin used
    BY KindsOfOwners
  <2>11. MacroOwners(macroNFAs) \subseteq Owners
    BY DEF Owners
  <2>12. CombinedOwners(combined) = {}
    BY <2>4, NothingThere
  <2>13. Owners' = MacroOwners(macroNFAs)
    BY <1>1, <1>5, <2>6, <2>12 DEF Owners
  <2> HIDE DEF used
  <2>14. Sound(heap', Owners \ used)
    BY <1>2, <2>1, <2>8, <2>9, DestroyedSound
  <2>15. Owners' \subseteq Owners \ used
    BY <2>10, <2>11, <2>13
  <2>16. Sound(heap', Owners')
    BY <2>14, <2>15, FewerOwners
  <2> QED BY <1>4, <2>3, <2>5, <2>7, <2>16 DEF IInv
<1> QED BY <1>6, <1>7

\* The macros are all there.
LEMMA MacrosEndKeeps == ASSUME IInv, MacrosEnd PROVE IInv'
<1>1. /\ phase = "macro" /\ index > Len(input.macros) /\ phase' = "lexeme"
      /\ index' = IF Expressions = <<>> THEN 1 ELSE Expressions[1].start + 1
      /\ UNCHANGED <<input, expression, position, heap, stack, macroNFAs, lexemeNFAs, combined, errors>>
  BY DEF MacrosEnd, subset
<1>2. Phases /\ OneFinalEach /\ Sound(heap, Owners) /\ (errors = 0 => NothingLost(heap, Owners))
  BY DEF IInv
<1>3. ~Parsing
  <2>1. IsSequence(input.macros)
    BY <1>2, ExpressionsThere
  <2>2. Len(input.macros) \in Nat /\ index \in Nat
    BY <1>2, <2>1, LenProperties DEF IsSequence, Phases
  <2> QED BY <1>1, <2>2 DEF Parsing
<1>4. stack = <<>> /\ position = 0
  BY <1>1, <1>3, BetweenExpressions
<1>5. Expressions' = Expressions
  BY <1>1 DEF Expressions
<1>6. expression = 1 /\ lexemeNFAs = <<>>
  BY <1>1, <1>2 DEF Phases
<1>7. index' \in Nat \ {0} /\ (1 <= Len(Expressions) => Expressions[1].start < index')
  <2>1. /\ IsSequence(Expressions)
        /\ \A e \in DOMAIN Expressions : Expressions[e].start \in Nat
    BY <1>2, ExpressionsThere
  <2>2. DOMAIN Expressions = 1 .. Len(Expressions) /\ Len(Expressions) \in Nat
    BY <2>1, LenProperties DEF IsSequence
  <2>3. Expressions = <<>> => ~ (1 <= Len(Expressions))
    BY NothingThere
  <2>4. Expressions # <<>> => Len(Expressions) # 0
    BY <2>1, EmptySeq DEF IsSequence
  <2> QED BY <1>1, <2>1, <2>2, <2>3, <2>4
<1>8. Phases'
  BY <1>1, <1>2, <1>5, <1>6, <1>7 DEF Phases
<1>9. StackShape'
  BY <1>1, <1>4, <1>8, FreshShape
<1>10. OneFinalEach'
  BY <1>1, <1>2 DEF OneFinalEach
<1>11. Owners' = Owners
  BY <1>1 DEF Owners
<1>12. Sound(heap', Owners') /\ (errors' = 0 => NothingLost(heap', Owners'))
  BY <1>1, <1>2, <1>11
<1> QED BY <1>8, <1>9, <1>10, <1>12 DEF IInv


\* CombineLexemes: the automata of the lexemes become that of the expression.
LEMMA CombineLexemesKeeps == ASSUME IInv, CombineLexemes PROVE IInv'
<1> DEFINE outcome == CombineNFAs(heap, lexemeNFAs)
           used == LexemeOwners(lexemeNFAs)
           owner == Owner("combined", 1, outcome.nfa)
<1>1. /\ phase = "lexeme" /\ expression <= Len(Expressions) /\ ~Parsing
      /\ heap' = outcome.heap /\ combined' = outcome.nfa
      /\ lexemeNFAs' = <<>> /\ phase' = "move"
      /\ UNCHANGED <<input, index, expression, position, stack, macroNFAs, errors>>
  BY DEF CombineLexemes, result
<1>2. Phases /\ OneFinalEach /\ Sound(heap, Owners) /\ (errors = 0 => NothingLost(heap, Owners))
  BY DEF IInv
<1>3. /\ stack = <<>> /\ position = 0
      /\ Owners = MacroOwners(macroNFAs) \cup LexemeOwners(lexemeNFAs) \cup CombinedOwners(combined)
  BY <1>1, BetweenExpressions
<1>4. combined.start = 0 /\ IsSequence(lexemeNFAs)
  BY <1>1, <1>2 DEF Phases
<1>5. CombinedOwners(combined) = {}
  BY <1>4, NothingThere
<1>6. used \subseteq Owners
  BY <1>3
<1>7. {lexemeNFAs[k] : k \in DOMAIN lexemeNFAs} = {o.nfa : o \in used}
  BY LexemeAutomata DEF ToSet
<1>8. ListOf(lexemeNFAs, used)
  BY <1>2, <1>4, <1>7 DEF OneFinalEach, ListOf
<1>9. owner.nfa = outcome.nfa
  BY DEF Owner
<1>10. outcome = CombineNFAs(heap, lexemeNFAs) /\ owner = Owner("combined", 1, outcome.nfa)
  OBVIOUS
<1>11. Owners \ used = MacroOwners(macroNFAs)
  BY <1>3, <1>5, KindsOfOwners
<1> DEFINE all == Owners
<1>12. Sound(heap, all) /\ used \subseteq all /\ all = Owners
  BY <1>2, <1>6
<1> HIDE DEF outcome, used, owner, all
<1>13. /\ Sound(outcome.heap, (all \ used) \cup {owner})
       /\ NothingLost(heap, all) => NothingLost(outcome.heap, (all \ used) \cup {owner})
       /\ outcome.nfa.start # 0
  BY <1>8, <1>9, <1>10, <1>12, CombineSound
<1>14. StackOwners(stack') = {} /\ LexemeOwners(lexemeNFAs') = {}
       /\ DOMAIN stack' = {} /\ DOMAIN lexemeNFAs' = {} /\ IsSequence(lexemeNFAs')
  BY <1>1, <1>3, NothingThere
<1>15. CombinedOwners(combined') = {owner}
  BY <1>1, <1>10, <1>13 DEF CombinedOwners
<1>16. Owners' = (all \ used) \cup {owner}
  BY <1>1, <1>11, <1>12, <1>14, <1>15 DEF Owners
<1>17. Sound(heap', Owners') /\ (errors' = 0 => NothingLost(heap', Owners'))
  BY <1>1, <1>2, <1>12, <1>13, <1>16
<1>18. Expressions' = Expressions
  BY <1>1 DEF Expressions
<1>19. combined'.start # 0
  BY <1>1, <1>13
<1>20. Phases'
  BY <1>1, <1>2, <1>14, <1>18, <1>19 DEF Phases
<1>21. StackShape'
  BY <1>1, <1>3, <1>20, FreshShape
<1>22. OneFinalEach'
  BY <1>1, <1>2, <1>14 DEF OneFinalEach
<1> QED BY <1>17, <1>20, <1>21, <1>22 DEF IInv

\* The steps of the subset construction only look at the automaton.
LEMMA MoveStateKeeps == ASSUME IInv, MoveState PROVE IInv'
BY OthersKeep DEF MoveState, result

LEMMA NextStateKeeps == ASSUME IInv, NextState PROVE IInv'
BY OthersKeep DEF NextState, result

\* The table of an expression is made: its automaton is destroyed.
LEMMA ExpressionEndsKeeps == ASSUME IInv, ExpressionEnds PROVE IInv'
<1>1. /\ phase = "move" /\ heap' = Destroyed(heap, {combined}) /\ combined' = Empty(1)
      /\ expression' = expression + 1 /\ phase' = "lexeme"
      /\ index' = IF expression < Len(Expressions) THEN Expressions[expression + 1].start + 1 ELSE index
      /\ UNCHANGED <<input, position, stack, macroNFAs, lexemeNFAs, errors>>
  BY DEF ExpressionEnds
<1>2. Phases /\ OneFinalEach /\ Sound(heap, Owners) /\ (errors = 0 => NothingLost(heap, Owners))
  BY DEF IInv
<1>3. ~Parsing
  BY <1>1 DEF Parsing
<1>4. /\ stack = <<>> /\ position = 0
      /\ Owners = MacroOwners(macroNFAs) \cup LexemeOwners(lexemeNFAs) \cup CombinedOwners(combined)
  BY <1>1, <1>3, BetweenExpressions
<1>5. lexemeNFAs = <<>> /\ combined.start # 0 /\ index \in Nat \ {0} /\ expression \in Nat \ {0}
  BY <1>1, <1>2 DEF Phases
<1>6. LexemeOwners(lexemeNFAs) = {} /\ StackOwners(stack) = {}
  BY <1>4, <1>5, NothingThere
<1> DEFINE used == CombinedOwners(combined)
           all == Owners
<1>7. used = {Owner("combined", 1, combined)}
  BY <1>5 DEF CombinedOwners
<1>8. {combined} = {o.nfa : o \in used}
  <2>1. Owner("combined", 1, combined).nfa = combined
    BY DEF Owner
  <2> QED BY <1>7, <2>1
<1>9. all \ used = MacroOwners(macroNFAs)
  BY <1>4, <1>6, KindsOfOwners
<1>10. used \subseteq all /\ Sound(heap, all) /\ (errors = 0 => NothingLost(heap, all))
  BY <1>2, <1>4
<1> HIDE DEF used, all
<1>11. Sound(heap', all \ used) /\ (NothingLost(heap, all) => NothingLost(heap', all \ used))
  BY <1>1, <1>8, <1>10, DestroyedSound
<1>12. combined'.start = 0
  BY <1>1 DEF Empty, Automaton
<1>13. CombinedOwners(combined') = {}
  BY <1>12, NothingThere
<1>14. Owners' = all \ used
  BY <1>1, <1>6, <1>9, <1>13 DEF Owners
<1>15. Sound(heap', Owners') /\ (errors' = 0 => NothingLost(heap', Owners'))
  BY <1>1, <1>10, <1>11, <1>14
<1>16. Expressions' = Expressions
  BY <1>1 DEF Expressions
<1>17. /\ IsSequence(Expressions)
       /\ \A e \in DOMAIN Expressions : Expressions[e].start \in Nat
  BY <1>2, ExpressionsThere
<1>18. DOMAIN Expressions = 1 .. Len(Expressions) /\ Len(Expressions) \in Nat
  BY <1>17, LenProperties DEF IsSequence
<1>19. index' \in Nat \ {0} /\ expression' \in Nat \ {0}
       /\ (expression' <= Len(Expressions) => Expressions[expression'].start < index')
  <2>1. CASE expression < Len(Expressions)
    <3>1. expression + 1 \in DOMAIN Expressions
      BY <1>5, <1>18, <2>1
    <3>2. Expressions[expression + 1].start \in Nat
      BY <1>17, <3>1
    <3> QED BY <1>1, <1>5, <2>1, <3>2
  <2>2. CASE ~ (expression < Len(Expressions))
    BY <1>1, <1>5, <1>18, <2>2
  <2> QED BY <2>1, <2>2
<1>20. Phases'
  BY <1>1, <1>2, <1>5, <1>12, <1>16, <1>19 DEF Phases
<1>21. StackShape'
  BY <1>1, <1>4, <1>20, FreshShape
<1>22. OneFinalEach'
  BY <1>1, <1>2 DEF OneFinalEach
<1> QED BY <1>15, <1>20, <1>21, <1>22 DEF IInv

\* The macros are destroyed last.
LEMMA ExpressionsEndKeeps == ASSUME IInv, ExpressionsEnd PROVE IInv'
<1>1. /\ phase = "lexeme" /\ expression > Len(Expressions)
      /\ heap' = Destroyed(heap, {macroNFAs[m] : m \in DOMAIN macroNFAs})
      /\ macroNFAs' = <<>> /\ phase' = "done"
      /\ UNCHANGED <<input, index, expression, position, stack, lexemeNFAs, combined, errors>>
  BY DEF ExpressionsEnd, subset
<1>2. Phases /\ OneFinalEach /\ Sound(heap, Owners) /\ (errors = 0 => NothingLost(heap, Owners))
  BY DEF IInv
<1>3. ~ (expression <= Len(Expressions)) /\ Len(Expressions) \in Nat /\ expression \in Nat
  <2>1. IsSequence(Expressions)
    BY <1>2, ExpressionsThere
  <2>2. Len(Expressions) \in Nat /\ expression \in Nat
    BY <1>2, <2>1, LenProperties DEF IsSequence, Phases
  <2> QED BY <1>1, <2>2
<1>4. ~Parsing
  BY <1>1, <1>3 DEF Parsing
<1>5. /\ stack = <<>> /\ position = 0
      /\ Owners = MacroOwners(macroNFAs) \cup LexemeOwners(lexemeNFAs) \cup CombinedOwners(combined)
  BY <1>1, <1>4, BetweenExpressions
<1>6. lexemeNFAs = <<>> /\ combined.start = 0
  BY <1>1, <1>2, <1>3 DEF Phases
<1>7. StackOwners(stack) = {} /\ LexemeOwners(lexemeNFAs) = {} /\ CombinedOwners(combined) = {}
      /\ MacroOwners(macroNFAs') = {} /\ DOMAIN macroNFAs' = {}
  BY <1>1, <1>5, <1>6, NothingThere
<1> DEFINE used == MacroOwners(macroNFAs)
           all == Owners
<1>8. all \ used = {} /\ used \subseteq all /\ Sound(heap, all) /\ (errors = 0 => NothingLost(heap, all))
  BY <1>2, <1>5, <1>7
<1>9. {macroNFAs[m] : m \in DOMAIN macroNFAs} = {o.nfa : o \in used}
  BY MacroAutomata
<1> DEFINE nfas == {macroNFAs[m] : m \in DOMAIN macroNFAs}
<1>10. heap' = Destroyed(heap, nfas) /\ nfas = {o.nfa : o \in used}
  BY <1>1, <1>9
<1> HIDE DEF used, all, nfas
<1>11. Sound(heap', all \ used) /\ (NothingLost(heap, all) => NothingLost(heap', all \ used))
  BY <1>8, <1>10, DestroyedSound
<1>12. Owners' = {}
  BY <1>1, <1>7 DEF Owners
<1>13. Sound(heap', Owners') /\ (errors' = 0 => NothingLost(heap', Owners'))
  BY <1>1, <1>8, <1>11, <1>12
<1>14. Expressions' = Expressions
  BY <1>1 DEF Expressions
<1>15. Phases'
  BY <1>1, <1>2, <1>6, <1>7, <1>14 DEF Phases
<1>16. StackShape'
  BY <1>1, <1>5, <1>15, FreshShape
<1>17. OneFinalEach'
  BY <1>1, <1>2, <1>7 DEF OneFinalEach
<1> QED BY <1>13, <1>15, <1>16, <1>17 DEF IInv

\* Compress.
LEMMA CompressKeeps == ASSUME IInv, Compress PROVE IInv'
<1>1. /\ phase = "done" /\ phase' = "compressed"
      /\ UNCHANGED <<input, index, expression, position, heap, stack, macroNFAs, lexemeNFAs, combined, errors>>
  BY DEF Compress, subset
<1>2. Phases /\ StackShape /\ OneFinalEach /\ Sound(heap, Owners) /\ (errors = 0 => NothingLost(heap, Owners))
  BY DEF IInv
<1>3. ~Parsing
  BY <1>1 DEF Parsing
<1>4. stack = <<>> /\ position = 0
  BY <1>1, <1>3, BetweenExpressions
<1>5. Owners' = Owners
  BY <1>1 DEF Owners
<1>6. Phases'
  BY <1>1, <1>2 DEF Phases
<1>7. StackShape'
  BY <1>1, <1>4, <1>6, FreshShape
<1>8. OneFinalEach'
  BY <1>1, <1>2 DEF OneFinalEach
<1>9. Sound(heap', Owners') /\ (errors' = 0 => NothingLost(heap', Owners'))
  BY <1>1, <1>2, <1>5
<1> QED BY <1>6, <1>7, <1>8, <1>9 DEF IInv

\* At the start there is nothing.
LEMMA InitIInv == ASSUME Init PROVE IInv
<1>1. /\ input \in Inputs /\ phase = "convert" /\ index = 1 /\ expression = 1 /\ position = 0
      /\ heap = <<>> /\ stack = <<>> /\ macroNFAs = <<>> /\ lexemeNFAs = <<>>
      /\ combined = Empty(1) /\ errors = 0
  BY DEF Init
<1>2. /\ IsSequence(lexemeNFAs) /\ DOMAIN macroNFAs = {} /\ DOMAIN stack = {} /\ DOMAIN lexemeNFAs = {}
      /\ IsSequence(stack) /\ DOMAIN heap = {} /\ IsSequence(heap)
  BY <1>1, NothingThere
<1>3. combined.start = 0
  BY <1>1 DEF Empty, Automaton
<1>4. Owners = {}
  BY <1>1, <1>3, NothingThere DEF Owners
<1>5. Phases
  BY <1>1, <1>2, <1>3 DEF Phases
<1>6. StackShape
  BY <1>1, <1>2 DEF StackShape, Parsing
<1>7. OneFinalEach
  BY <1>2 DEF OneFinalEach
<1>8. Sound(heap, Owners) /\ NothingLost(heap, Owners)
  BY <1>2, <1>4 DEF Sound, NothingLost, HeapOK
<1> QED BY <1>5, <1>6, <1>7, <1>8 DEF IInv

(***************************************************************************)
(* The theorems                                                            *)
(***************************************************************************)

\* Whatever lexemes are asked for, the automata of the lexer generator are graphs of
\* nodes that are not freed, no two of them share a node, and while no expression has
\* failed every node left belongs to one.
THEOREM AutomataStaySound == Spec => []IInv
<1>1. Init => IInv
  BY InitIInv
<1>2. IInv /\ [Next]_vars => IInv'
  <2> SUFFICES ASSUME IInv, [Next]_vars PROVE IInv'
    OBVIOUS
  <2>1. CASE ConvertActionParam
    BY <2>1, ConvertKeeps
  <2>2. CASE ReduceConcat
    BY <2>2, ReduceConcatKeeps
  <2>3. CASE ReduceOr
    BY <2>3, ReduceOrKeeps
  <2>4. CASE ReduceKleene
    BY <2>4, ReduceKleeneKeeps
  <2>5. CASE ReduceChar
    BY <2>5, ReduceCharKeeps
  <2>6. CASE ReduceCharsOfGroup
    BY <2>6, ReduceCharsOfGroupKeeps
  <2>7. CASE ReduceGroupSet
    BY <2>7, ReduceGroupSetKeeps
  <2>8. CASE ReduceCharSet
    BY <2>8, ReduceCharSetKeeps
  <2>9. CASE ReduceMacro
    BY <2>9, ReduceMacroKeeps
  <2>10. CASE CopyLost
    BY <2>10, CopyLostKeeps
  <2>11. CASE RegExpFails
    BY <2>11, RegExpFailsKeeps
  <2>12. CASE RegExpEnds
    BY <2>12, RegExpEndsKeeps
  <2>13. CASE MacrosEnd
    BY <2>13, MacrosEndKeeps
  <2>14. CASE CombineLexemes
    BY <2>14, CombineLexemesKeeps
  <2>15. CASE MoveState
    BY <2>15, MoveStateKeeps
  <2>16. CASE NextState
    BY <2>16, NextStateKeeps
  <2>17. CASE ExpressionEnds
    BY <2>17, ExpressionEndsKeeps
  <2>18. CASE ExpressionsEnd
    BY <2>18, ExpressionsEndKeeps
  <2>19. CASE Compress
    BY <2>19, CompressKeeps
  <2>20. CASE UNCHANGED vars
    <3>1. UNCHANGED <<input, phase, index, expression, position, heap, stack, macroNFAs, lexemeNFAs,
                      combined, errors>>
      BY <2>20 DEF vars
    <3> QED BY <3>1, OthersKeep
  <2> QED BY <2>1, <2>2, <2>3, <2>4, <2>5, <2>6, <2>7, <2>8, <2>9, <2>10, <2>11, <2>12, <2>13,
             <2>14, <2>15, <2>16, <2>17, <2>18, <2>19, <2>20 DEF Next
<1> QED BY <1>1, <1>2, PTL DEF Spec

\* The final state that a macro's copy would miss is behind an empty set of characters.
LEMMA CopiesStayWhole == ASSUME IInv, CopiesWhole, [Next]_vars PROVE CopiesWhole'
<1>1. CASE CopyLost
  <2>1. /\ ~CanCopy(heap, macroNFAs[Top.list]) /\ Top.list \in DOMAIN macroNFAs /\ heap' = heap
    BY <1>1 DEF CopyLost
  <2> DEFINE o == Owner("macro", Top.list, macroNFAs[Top.list])
  <2>2. o \in Owners /\ o.nfa = macroNFAs[Top.list]
    BY <2>1 DEF Owners, MacroOwners, Owner
  <2> HIDE DEF o
  <2>3. AutomatonOK(heap, macroNFAs[Top.list]) /\ HeapOK(heap)
    BY <2>2 DEF IInv, Sound
  <2>4. 0 \notin DOMAIN heap
    BY <2>3, HeapLength
  <2>5. ~AllLeadOn(heap)
    BY <2>1, <2>3, <2>4 DEF AutomatonOK, CanCopy
  <2> QED BY <2>1, <2>5 DEF CopiesWhole, NoEmptySet
<1>2. CASE Parsing /\ KeepParsing
  BY <1>2 DEF CopiesWhole, Parsing, KeepParsing
<1>3. CASE RegExpFails \/ RegExpEnds
  BY <1>3 DEF CopiesWhole, RegExpFails, RegExpEnds, Reported, Parsing
<1>4. CASE ConvertActionParam \/ MacrosEnd \/ CombineLexemes
  BY <1>4 DEF CopiesWhole, ConvertActionParam, MacrosEnd, CombineLexemes
<1>5. CASE MoveState \/ NextState
  BY <1>5 DEF CopiesWhole, MoveState, NextState
<1>6. CASE ExpressionEnds \/ ExpressionsEnd \/ Compress
  BY <1>6 DEF CopiesWhole, ExpressionEnds, ExpressionsEnd, Compress
<1>7. CASE UNCHANGED vars
  BY <1>7 DEF CopiesWhole, NoEmptySet, AllLeadOn, vars
<1>8. \/ ReduceConcat \/ ReduceOr \/ ReduceKleene \/ ReduceChar \/ ReduceCharsOfGroup
      \/ ReduceGroupSet \/ ReduceCharSet \/ ReduceMacro
      => Parsing /\ KeepParsing
  BY DEF ReduceConcat, ReduceOr, ReduceKleene, ReduceChar, ReduceCharsOfGroup, ReduceGroupSet,
         ReduceCharSet, ReduceMacro, Reported
<1> QED BY <1>1, <1>2, <1>3, <1>4, <1>5, <1>6, <1>7, <1>8 DEF Next

\* So every macro can be copied where no set of characters was empty.
LEMMA MacrosCanBeCopied == Spec => []CopiesWhole
<1>1. Init => CopiesWhole
  BY DEF Init, CopiesWhole
<1>2. IInv /\ CopiesWhole /\ [Next]_vars => CopiesWhole'
  BY CopiesStayWhole
<1> QED BY <1>1, <1>2, AutomataStaySound, PTL DEF Spec

\* The invariant says who owns which nodes.
LEMMA OwnedOnce == IInv /\ CopiesWhole => NodesOwnedOnce
<1> SUFFICES ASSUME IInv, CopiesWhole PROVE NodesOwnedOnce
  OBVIOUS
<1> DEFINE graph(o) == Graph(heap, o.nfa)
           live == {n \in DOMAIN heap : heap[n].live}
           owned == UNION {graph(o) : o \in Owners}
<1>1. Phases /\ Sound(heap, Owners) /\ (errors = 0 => NothingLost(heap, Owners))
  BY DEF IInv
<1>2. \A o \in Owners : AutomatonOK(heap, o.nfa) /\ Graph(heap, o.nfa) \subseteq Claims(heap, o.nfa)
  BY <1>1 DEF Sound, Claims
<1>3. \A o, p \in Owners : o # p => graph(o) \cap graph(p) = {}
  BY <1>1, <1>2 DEF Sound
<1>4. owned \subseteq live
  <2> SUFFICES ASSUME NEW o \in Owners, NEW n \in graph(o) PROVE n \in live
    OBVIOUS
  <2>1. o.nfa.start \in DOMAIN heap
    BY <1>2 DEF AutomatonOK
  <2>2. HeapOK(heap)
    BY <1>1 DEF Sound
  <2>3. Graph(heap, o.nfa) \subseteq DOMAIN heap
    BY <2>1, <2>2, GraphFacts
  <2> QED BY <1>2, <2>3 DEF AutomatonOK
<1>5. NoEmptySet => FinalsInTree
  BY <1>2 DEF NoEmptySet, FinalsInTree, AutomatonOK
<1>6. NoEmptySet /\ errors = 0 => live = owned
  <2> SUFFICES ASSUME NoEmptySet, errors = 0, NEW n \in live PROVE n \in owned
    BY <1>4
  <2>1. PICK o \in Owners : n \in Graph(heap, o.nfa)
    BY <1>1 DEF NothingLost, NoEmptySet
  <2> QED BY <2>1
<1>7. Finished => Owners = {}
  <2> SUFFICES ASSUME Finished PROVE Owners = {}
    OBVIOUS
  <2>1. /\ DOMAIN macroNFAs = {} /\ lexemeNFAs = <<>> /\ combined.start = 0
        /\ phase \notin {"crashed", "failed"} /\ ~Parsing
    BY <1>1 DEF Finished, Phases, Parsing
  <2>2. Owners = MacroOwners(macroNFAs) \cup LexemeOwners(lexemeNFAs) \cup CombinedOwners(combined)
    BY <2>1, BetweenExpressions
  <2>3. MacroOwners(macroNFAs) = {}
    BY <2>1 DEF MacroOwners
  <2> QED BY <2>1, <2>2, <2>3, NothingThere
<1>8. NoEmptySet /\ errors = 0 /\ Finished => live = {}
  BY <1>6, <1>7
<1> HIDE DEF live, owned
<1> QED BY <1>3, <1>4, <1>5, <1>6, <1>8 DEF NodesOwnedOnce, live, owned

\* Every node is owned by one automaton and freed with it, for all lexemes and macros:
\* Concat, Or, Kleene, Copy and CombineNFAs leave no two automata that share a node and
\* no freed node in a graph.  Unless a set of characters was empty every macro is copied
\* whole, and unless an expression failed too Lex::MakeDFA ends with every node freed.
THEOREM NodesHaveOneOwner == Spec => []NodesOwnedOnce
BY AutomataStaySound, MacrosCanBeCopied, OwnedOnce, PTL

=============================================================================
