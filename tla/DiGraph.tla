------------------------------ MODULE DiGraph -------------------------------
(***************************************************************************)
(* ast/src/common/graph: the directed graphs of calls, of structs and of   *)
(* imports.  A graph is [nodes, edges]: the nodes in the order in which    *)
(* they were added and, for the nodes that have some, their successors.    *)
(***************************************************************************)
EXTENDS Sequences, SequencesExt, FiniteSets, TLC

EmptyGraph == [nodes |-> <<>>, edges |-> <<>>]

\* An IndexSet: what is already there keeps its place.
Inserted(seq, x) == IF x \in ToSet(seq) THEN seq ELSE Append(seq, x)
Without(seq, x) == SelectSeq(seq, LAMBDA y : y # x)

AddNode(g, n) == [g EXCEPT !.nodes = Inserted(@, n)]

Neighbors(g, n) == IF n \in DOMAIN g.edges THEN g.edges[n] ELSE <<>>

AddEdge(g, from, to) ==
    [nodes |-> Inserted(Inserted(g.nodes, from), to),
     edges |-> (from :> Inserted(Neighbors(g, from), to)) @@ g.edges]

RemoveNode(g, n) ==
    IF n \notin ToSet(g.nodes) THEN g
    ELSE [nodes |-> Without(g.nodes, n),
          edges |-> [m \in DOMAIN g.edges \ {n} |-> Without(g.edges[m], n)]]

RetainNodes(g, keep) ==
    LET Kept(seq) == SelectSeq(seq, LAMBDA n : n \in keep)
    IN  [nodes |-> Kept(g.nodes),
         edges |-> [m \in DOMAIN g.edges \cap keep |-> Kept(g.edges[m])]]

\* The loop of transitive_closure: queue is used from its end.
RECURSIVE Reach(_, _, _)
Reach(g, queue, found) ==
    IF queue = <<>> THEN found
    ELSE LET cur == Last(queue)
         IN  IF cur \in ToSet(found) THEN Reach(g, Front(queue), found)
             ELSE Reach(g, Front(queue) \o Neighbors(g, cur), Append(found, cur))
TransitiveClosure(g, n) == Reach(g, Neighbors(g, n), <<>>)

\* contains_cycle_from: w is [found, done, cycle], the nodes on the path, the
\* finished ones and, once there is one, the node that closes a cycle.
RECURSIVE ContainsCycleFrom(_, _, _)
ContainsCycleFrom(g, w, n) ==
    LET Visit(acc, child) ==
          CASE acc.cycle # <<>> -> acc
            [] acc.cycle = <<>> /\ child \in ToSet(acc.found) ->
                 [acc EXCEPT !.cycle = <<child>>]
            [] acc.cycle = <<>> /\ child \notin ToSet(acc.found \o acc.done) ->
                 ContainsCycleFrom(g, acc, child)
            [] OTHER -> acc
        r == FoldLeft(Visit, [w EXCEPT !.found = Inserted(@, n)], Neighbors(g, n))
    IN  IF r.cycle # <<>> THEN r
        ELSE [r EXCEPT !.found = Front(@), !.done = Inserted(@, n)]

\* The path that is reported: from the node that closes the cycle to itself.
RECURSIVE CyclePath(_, _, _)
CyclePath(found, node, path) ==
    LET next == Append(path, Last(found))
    IN  IF found = <<>> THEN path
        ELSE IF Last(found) = node THEN next ELSE CyclePath(Front(found), node, next)

\* post_order_with_filter: a walk starts from the given nodes only.
PostOrderWithFilter(g, starts) ==
    LET Walk(w, n) == IF w.cycle # <<>> \/ n \in ToSet(w.done) THEN w
                      ELSE ContainsCycleFrom(g, [w EXCEPT !.found = <<>>], n)
        r == FoldLeft(Walk, [found |-> <<>>, done |-> <<>>, cycle |-> <<>>],
                      SelectSeq(g.nodes, LAMBDA n : n \in starts))
    IN  IF r.cycle = <<>> THEN [ok |-> TRUE, order |-> r.done, cycle |-> <<>>]
        ELSE [ok |-> FALSE, order |-> <<>>,
              cycle |-> Reverse(CyclePath(r.found, r.cycle[1], r.cycle))]

PostOrder(g) == PostOrderWithFilter(g, ToSet(g.nodes))
=============================================================================
