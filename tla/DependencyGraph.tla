-------------------------- MODULE DependencyGraph --------------------------
(***************************************************************************)
(* The algorithms of repodna_architecture::graph: strongly connected       *)
(* components, a shortest cycle, layers and betweenness, all of them       *)
(* recursions turned into loops over stacks and queues. Each loop is a     *)
(* step from one record of its local variables to the next; below, each    *)
(* result is compared with what it is by definition.                       *)
(*                                                                         *)
(* A graph is a function from nodes 0..n-1 to the sets of their            *)
(* successors, which Graph::finish sorts. Fractions are kept as integers   *)
(* scaled by Scale, where the code has floating-point numbers.             *)
(***************************************************************************)
EXTENDS Integers, FiniteSets, Sequences, SequencesExt

Scale == 24     \* divisible by the path counts of the graphs that are checked

Nodes(g) == DOMAIN g
Ascending(S) ==
  LET highest == CHOOSE x \in S \cup {0} : \A y \in S : y <= x
  IN SelectSeq([i \in 1..(highest + 1) |-> i - 1], LAMBDA x : x \in S)
Successors(g, v) == Ascending(g[v])
Least(S) == CHOOSE x \in S : \A y \in S : x <= y
Smaller(a, b) == IF b < a THEN b ELSE a
Larger(a, b) == IF b > a THEN b ELSE a

-----------------------------------------------------------------------------
(* Tarjan's algorithm with a stack of calls.                               *)
Unvisited == -1

Visit(s, v) ==
  [s EXCEPT !.index[v] = s.counter, !.low[v] = s.counter, !.counter = @ + 1,
            !.stack = Append(@, v), !.calls = Append(@, [node |-> v, position |-> 1])]

(* An edge to a node that is still on the stack closes a cycle. *)
Lowered(s, node, next) ==
  IF \E i \in DOMAIN s.stack : s.stack[i] = next
  THEN Smaller(s.low[node], s.index[next]) ELSE s.low[node]

FollowEdge(s, node, next) ==
  LET moved == [s EXCEPT !.calls[Len(s.calls)].position = @ + 1] IN
  IF s.index[next] = Unvisited
  THEN Visit(moved, next)
  ELSE [moved EXCEPT !.low[node] = Lowered(s, node, next)]

Leave(s, node) ==
  LET calls  == Front(s.calls)
      popped == IF calls = <<>> THEN s
                ELSE [s EXCEPT !.low[Last(calls).node] = Smaller(@, s.low[node])]
      bottom == CHOOSE i \in DOMAIN s.stack : s.stack[i] = node
  IN IF s.low[node] = s.index[node]
     THEN [popped EXCEPT !.calls = calls, !.stack = SubSeq(@, 1, bottom - 1),
             !.components = @ \cup {{s.stack[i] : i \in bottom..Len(s.stack)}}]
     ELSE [popped EXCEPT !.calls = calls]

TarjanStep(g, s) ==
  IF s.calls = <<>>
  THEN Visit(s, Least({v \in Nodes(g) : s.index[v] = Unvisited}))
  ELSE LET top == Last(s.calls) IN
       IF top.position <= Cardinality(g[top.node])
       THEN FollowEdge(s, top.node, Successors(g, top.node)[top.position])
       ELSE Leave(s, top.node)

RECURSIVE Tarjan(_, _)
Tarjan(g, s) ==
  IF s.calls = <<>> /\ \A v \in Nodes(g) : s.index[v] # Unvisited THEN s.components
  ELSE Tarjan(g, TarjanStep(g, s))

StronglyConnectedComponents(g) ==
  LET none == [v \in Nodes(g) |-> Unvisited]
      start == [index |-> none, low |-> none, counter |-> 0, stack |-> <<>>,
                calls |-> <<>>, components |-> {}]
  IN SetToSortSeq(Tarjan(g, start), LAMBDA a, b : Least(a) < Least(b))

-----------------------------------------------------------------------------
(* Breadth-first search within a component, from each of its first nodes.  *)
NoParent == -1

SearchStep(g, members, start, s) ==
  LET node == Head(s.queue)
      next == {v \in g[node] \cap members : v # start /\ s.parent[v] = NoParent}
  IN IF start \in g[node] \cap members
     THEN [s EXCEPT !.found = node]
     ELSE [s EXCEPT !.queue = Tail(@) \o Ascending(next),
                    !.parent = [v \in Nodes(g) |-> IF v \in next THEN node ELSE @[v]]]

RECURSIVE PathTo(_, _, _)
PathTo(parent, start, node) ==
  IF node = start THEN <<start>> ELSE Append(PathTo(parent, start, parent[node]), node)

(* A shortest cycle through start, or <<>>. *)
RECURSIVE SearchCycle(_, _, _, _)
SearchCycle(g, members, start, s) ==
  IF s.found # NoParent THEN Append(PathTo(s.parent, start, s.found), start)
  ELSE IF s.queue = <<>> THEN <<>>
  ELSE SearchCycle(g, members, start, SearchStep(g, members, start, s))

CycleFrom(g, members, start) ==
  SearchCycle(g, members, start,
    [queue |-> <<start>>, found |-> NoParent, parent |-> [v \in Nodes(g) |-> NoParent]])

Better(best, path) == path # <<>> /\ (best = <<>> \/ Len(path) < Len(best))

ShortestCycle(g, members, maxStarts) ==
  LET starts == SubSeq(Ascending(members), 1,
                       Smaller(Cardinality(members), Larger(maxStarts, 1)))
      Try(best, path) == IF Better(best, path) THEN path ELSE best
  IN FoldLeft(LAMBDA best, start : Try(best, CycleFrom(g, members, start)), <<>>, starts)

-----------------------------------------------------------------------------
(* Layers, by a queue of the components whose dependencies all have one.   *)
LayerStep(reverse, s) ==
  LET component == Head(s.queue)
      ready == {d \in reverse[component] : s.left[d] = 1}
  IN [layer |-> [d \in DOMAIN s.layer |->
                   IF d \in reverse[component]
                   THEN Larger(s.layer[d], s.layer[component] + 1) ELSE s.layer[d]],
      left |-> [d \in DOMAIN s.left |->
                   IF d \in reverse[component] THEN s.left[d] - 1 ELSE s.left[d]],
      queue |-> Tail(s.queue) \o Ascending(ready)]

(* Edges between components; those within one do not count. *)
Outgoing(g, of, c) ==
  {of[w] : w \in UNION {g[v] : v \in {u \in Nodes(g) : of[u] = c}}} \ {c}

RECURSIVE LayersFrom(_, _)
LayersFrom(reverse, s) ==
  IF s.queue = <<>> THEN s.layer ELSE LayersFrom(reverse, LayerStep(reverse, s))

Layers(g, components) ==
  LET of == [v \in Nodes(g) |-> CHOOSE c \in DOMAIN components : v \in components[c]]
      outgoing == [c \in DOMAIN components |-> Outgoing(g, of, c)]
      reverse == [c \in DOMAIN components |-> {d \in DOMAIN components : c \in outgoing[d]}]
      left == [c \in DOMAIN components |-> Cardinality(outgoing[c])]
      layer == LayersFrom(reverse,
                 [layer |-> [c \in DOMAIN components |-> 0], left |-> left,
                  queue |-> Ascending({c \in DOMAIN components : left[c] = 0})])
  IN [v \in Nodes(g) |-> layer[of[v]]]

-----------------------------------------------------------------------------
(* Brandes' algorithm: a search from each source counts shortest paths,    *)
(* then dependencies are summed up from the farthest nodes back.           *)
FindPaths(g, s) ==
  LET node == Head(s.queue)
      new == {v \in g[node] : s.distance[v] < 0}
      distance == FoldSet(LAMBDA v, d : [d EXCEPT ![v] = d[node] + 1], s.distance, new)
      next == {v \in g[node] : distance[v] = distance[node] + 1}
  IN [queue |-> Tail(s.queue) \o Ascending(new), stack |-> Append(s.stack, node),
      distance |-> distance,
      paths |-> FoldSet(LAMBDA v, p : [p EXCEPT ![v] = @ + p[node]], s.paths, next),
      predecessors |-> FoldSet(LAMBDA v, p : [p EXCEPT ![v] = @ \cup {node}],
                               s.predecessors, next)]

RECURSIVE AllPaths(_, _)
AllPaths(g, s) == IF s.queue = <<>> THEN s ELSE AllPaths(g, FindPaths(g, s))

SearchFrom(g, source) ==
  AllPaths(g,
    [queue |-> <<source>>, stack |-> <<>>,
     distance |-> [v \in Nodes(g) |-> IF v = source THEN 0 ELSE -1],
     paths |-> [v \in Nodes(g) |-> IF v = source THEN 1 ELSE 0],
     predecessors |-> [v \in Nodes(g) |-> {}]])

Backwards(stack) == Reverse(stack)

Backward(g, found) ==
  LET Add(dependency, node) ==
        FoldSet(LAMBDA v, sums : [sums EXCEPT ![v] = @ +
                  (found.paths[v] * (Scale + sums[node])) \div found.paths[node]],
                dependency, found.predecessors[node])
  IN FoldLeft(Add, [v \in Nodes(g) |-> 0], Backwards(found.stack))
Dependencies(g, source) == Backward(g, SearchFrom(g, source))

(* Before it is divided by the number of pairs of other nodes. *)
Betweenness(g) ==
  LET Sum(total, source, dependency) ==
        [v \in Nodes(g) |-> total[v] + IF v = source THEN 0 ELSE dependency[v]]
  IN IF Cardinality(Nodes(g)) < 3 THEN [v \in Nodes(g) |-> 0]
     ELSE FoldLeft(LAMBDA total, source : Sum(total, source, Dependencies(g, source)),
                   [v \in Nodes(g) |-> 0], Ascending(Nodes(g)))

-----------------------------------------------------------------------------
(* The same by definition. Walks(g)[k + 1] counts the walks of k edges.    *)
Walks(g) ==
  LET Longer(walks, v) ==
        Append(walks, [p \in Nodes(g) \X Nodes(g) |->
                         FoldSet(LAMBDA w, n : n + Last(walks)[<<w, p[2]>>], 0, g[p[1]])])
  IN FoldLeft(Longer, <<[p \in Nodes(g) \X Nodes(g) |-> IF p[1] = p[2] THEN 1 ELSE 0]>>,
              Ascending(Nodes(g)))

(* Lengths of the walks from u to v that have at least `least` edges. *)
Lengths(walks, least, u, v) ==
  {k \in least..(Len(walks) - 1) : walks[k + 1][<<u, v>>] > 0}

(* Two nodes share a component exactly when each reaches the other, and    *)
(* components are listed by their smallest members.                        *)
ComponentsAreClasses(g, components, walks) ==
  LET Reaches(u, v) == Lengths(walks, 0, u, v) # {}
  IN /\ UNION {components[c] : c \in DOMAIN components} = Nodes(g)
     /\ \A c, d \in DOMAIN components : c < d => Least(components[c]) < Least(components[d])
     /\ \A u, v \in Nodes(g) :
          (\E c \in DOMAIN components : {u, v} \subseteq components[c])
            <=> Reaches(u, v) /\ Reaches(v, u)
     /\ \A c, d \in DOMAIN components : c # d => components[c] \cap components[d] = {}

(* A component with a cycle has one reported, which is a cycle and, with   *)
(* every member tried, a shortest of them all.                             *)
CycleIsShortest(g, components, walks) ==
  LET IsShortest(path, members, lengths) ==
        /\ path = <<>> <=> lengths = {}
        /\ path # <<>> =>
             /\ Head(path) = Last(path)
             /\ Len(path) = Least(lengths) + 1
             /\ \A i \in 1..(Len(path) - 1) : path[i + 1] \in g[path[i]] \cap members
  IN \A c \in DOMAIN components :
       IsShortest(ShortestCycle(g, components[c], Cardinality(components[c])), components[c],
                  UNION {Lengths(walks, 1, v, v) : v \in components[c]})

(* A node is one layer above the highest of what it depends on, outside of *)
(* its own component; one that depends on nothing else is at the bottom.   *)
LayersFollowDependencies(g, components, layer) ==
  \A c \in DOMAIN components :
    LET below == {layer[w] : w \in UNION {g[v] : v \in components[c]} \ components[c]}
    IN \A v \in components[c] :
         layer[v] = IF below = {} THEN 0
                    ELSE 1 + CHOOSE m \in below : \A l \in below : l <= m

(* Betweenness is the sum, over ordered pairs of other nodes, of the share *)
(* of their shortest paths that pass through the node.                     *)
BetweennessIsShareOfPaths(g, betweenness, walks) ==
  LET pairs == {p \in Nodes(g) \X Nodes(g) : Lengths(walks, 0, p[1], p[2]) # {}}
      d == [p \in pairs |-> Least(Lengths(walks, 0, p[1], p[2]))]
      n == [p \in pairs |-> walks[d[p] + 1][p]]
      Through(v) == {p \in pairs : /\ v \notin {p[1], p[2]} /\ p[1] # p[2]
                                   /\ <<p[1], v>> \in pairs /\ <<v, p[2]>> \in pairs
                                   /\ d[<<p[1], v>>] + d[<<v, p[2]>>] = d[p]}
      Share(v, p) == (Scale * n[<<p[1], v>>] * n[<<v, p[2]>>]) \div n[p]
  IN \A v \in Nodes(g) :
       betweenness[v] = FoldSet(LAMBDA p, sum : sum + Share(v, p), 0, Through(v))

GraphIsAnalyzed(g) ==
  LET Is(components, walks) ==
        /\ ComponentsAreClasses(g, components, walks)
        /\ CycleIsShortest(g, components, walks)
        /\ LayersFollowDependencies(g, components, Layers(g, components))
        /\ BetweennessIsShareOfPaths(g, Betweenness(g), walks)
  IN Is(StronglyConnectedComponents(g), Walks(g))
=============================================================================
