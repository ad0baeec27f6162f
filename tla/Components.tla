----------------------------- MODULE Components -----------------------------
(***************************************************************************)
(* strongly_connected_components of compiler.rs: two depth-first passes    *)
(* with explicit stacks.  The first follows the edges and records the      *)
(* order in which nodes finish; the second takes them in reverse and       *)
(* sweeps the reversed edges.  A rule is recursive when its component has  *)
(* several rules, or when it mentions itself.                              *)
(***************************************************************************)
EXTENDS Naturals, Sequences, FiniteSets

CONSTANT N       (* number of rules                                        *)

VARIABLES
  edges,         (* the graph: for each rule, the rules it mentions        *)
  visited,       (* nodes reached by the first pass                        *)
  stack,         (* first pass: <<node, next edge>>, last is the top       *)
  order,         (* nodes in the order they finished                       *)
  components,    (* component of each node, 0 while it has none            *)
  component,     (* number of the next component                           *)
  sweep          (* second pass: nodes to be swept, last is the top        *)

vars == <<edges, visited, stack, order, components, component, sweep>>

Node == 1 .. N
Elements(s) == {s[i] : i \in DOMAIN s}
Top   == stack[Len(stack)]
Below == SubSeq(stack, 1, Len(stack) - 1)

Fresh ==
  /\ visited = {} /\ stack = <<>> /\ order = <<>>
  /\ components = [n \in Node |-> 0] /\ component = 1 /\ sweep = <<>>

Init == edges \in [Node -> Seq(Node)] /\ Fresh

---------------------------------------------------------------------------
(* First pass.                                                             *)

Unvisited == Node \ visited

(* The outer loop goes over the nodes by number.                           *)
StartWalk ==
  LET start == CHOOSE n \in Unvisited : \A m \in Unvisited : n <= m IN
  /\ stack = <<>> /\ Unvisited # {}
  /\ visited' = visited \cup {start}
  /\ stack' = <<<<start, 1>>>>
  /\ UNCHANGED <<edges, order, components, component, sweep>>

Follow ==
  LET child == edges[Top[1]][Top[2]]
      advanced == Append(Below, <<Top[1], Top[2] + 1>>)
  IN
  /\ stack # <<>> /\ Top[2] <= Len(edges[Top[1]])
  /\ stack' = IF child \in visited THEN advanced ELSE Append(advanced, <<child, 1>>)
  /\ visited' = visited \cup {child}
  /\ UNCHANGED <<edges, order, components, component, sweep>>

Leave ==
  /\ stack # <<>> /\ Top[2] > Len(edges[Top[1]])
  /\ order' = Append(order, Top[1])
  /\ stack' = Below
  /\ UNCHANGED <<edges, visited, components, component, sweep>>

Walked == stack = <<>> /\ Unvisited = {}

---------------------------------------------------------------------------
(* Second pass.                                                            *)

Unassigned == {n \in Node : components[n] = 0}

(* Mutation: the second pass takes nodes in finishing order. *)
Earliest == order[CHOOSE i \in DOMAIN order :
                    order[i] \in Unassigned /\ \A j \in 1 .. i - 1 : order[j] \notin Unassigned]

(* The unassigned node that finished last.                                 *)
Latest == order[CHOOSE i \in DOMAIN order :
                  order[i] \in Unassigned /\ \A j \in i + 1 .. Len(order) : order[j] \notin Unassigned]

StartSweep ==
  /\ Walked /\ sweep = <<>> /\ Unassigned # {}
  /\ components' = [components EXCEPT ![Latest] = component]
  /\ component' = component + 1
  /\ sweep' = <<Latest>>
  /\ UNCHANGED <<edges, visited, stack, order>>

Parents(node) == {m \in Node : node \in Elements(edges[m])}

(* One node's reversed edges; its new parents are pushed in some order.     *)
Sweep ==
  LET node == sweep[Len(sweep)]
      new == Parents(node) \cap Unassigned
  IN
  /\ Walked /\ sweep # <<>>
  /\ components' = [n \in Node |-> IF n \in new THEN components[node] ELSE components[n]]
  /\ \E pushed \in [1 .. Cardinality(new) -> new] :
       /\ Elements(pushed) = new
       /\ sweep' = SubSeq(sweep, 1, Len(sweep) - 1) \o pushed
  /\ UNCHANGED <<edges, visited, stack, order, component>>

Next == StartWalk \/ Follow \/ Leave \/ StartSweep \/ Sweep

Spec == Init /\ [][Next]_vars

Done == Walked /\ sweep = <<>> /\ Unassigned = {}

(* analyze_graph: component_sizes > 1, or an edge to itself.                *)
IsRecursive(n) ==
  \/ Cardinality({m \in Node : components[m] = components[n]}) > 1
  \/ n \in Elements(edges[n])

---------------------------------------------------------------------------
TypeOK ==
  /\ edges \in [Node -> Seq(Node)]
  /\ visited \in SUBSET Node
  /\ stack \in Seq(Node \X (Nat \ {0}))
  /\ order \in Seq(Node)
  /\ components \in [Node -> Nat] /\ component \in Nat \ {0}
  /\ sweep \in Seq(Node)

(* Within[k][n]: the nodes a path of up to k edges leads to from n.          *)
Within ==
  LET within[k \in 0 .. N] ==
        [n \in Node |-> IF k = 0 THEN {n}
                        ELSE within[k - 1][n] \cup UNION {Elements(edges[m]) : m \in within[k - 1][n]}]
  IN  within

(* Reaches[n]: the nodes a path of edges leads to from n, n included.       *)
Reaches == Within[N]

Mutual(n, m) == m \in Reaches[n] /\ n \in Reaches[m]

(* The fact the second pass stands on: when the first is over, a component
   that leads to another one finishes after it.                             *)
FinishOrder ==
  Walked => \A n \in Node : \A m \in Reaches[n] : n \notin Reaches[m] =>
    \E i \in DOMAIN order : /\ Mutual(order[i], n)
                            /\ \A j \in i .. Len(order) : ~Mutual(order[j], m)

(* No sweep ever leaves its component, and at the end two rules share a
   component exactly when each derives the other; the recursive flag, which
   exempts a rule from diversity, is what its definition says.              *)
ComponentsAreMutual ==
  /\ TypeOK
  /\ \A n, m \in Node : components[n] # 0 /\ components[n] = components[m] => Mutual(n, m)
  /\ Done => \A n, m \in Node :
       /\ Mutual(n, m) => components[n] = components[m]
       /\ IsRecursive(n) <=> \E child \in Elements(edges[n]) : n \in Reaches[child]

============================================================================
