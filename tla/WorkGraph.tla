-------------------------------- MODULE WorkGraph --------------------------------
(***************************************************************************)
(* The pure functions of ts/src/agent/WorkGraph.ts on a graph              *)
(*   [ids, deps, writes]:                                                  *)
(* ids lists the nodes as they were inserted, deps and writes give each    *)
(* node's dependencies and write-set.  Ids are numbers; sort() is their    *)
(* order.                                                                  *)
(***************************************************************************)
EXTENDS Integers, Sequences, FiniteSets, SequencesExt

Nodes(g) == {g.ids[i] : i \in DOMAIN g.ids}
Least(S) == CHOOSE n \in S : \A m \in S : n <= m
Sorted(S) == SetToSortSeq(S, LAMBDA m, n : m < n)

DanglingEdges(g) == {<<n, d>> \in Nodes(g) \X UNION {g.deps[n] : n \in Nodes(g)} :
                       d \in g.deps[n] \ Nodes(g)}

\* The topological order as far as it goes: Kahn's queue holds the nodes whose
\* dependencies are all in the order, and its least id is next.
TopoOrder(g) ==
    LET Ready(order) == {n \in Nodes(g) \ ToSet(order) :
                           g.deps[n] \cap Nodes(g) \subseteq ToSet(order)}
        Grown[i \in 0..Len(g.ids)] ==
          IF i = 0 THEN <<>>
          ELSE LET order == Grown[i - 1]
               IN  IF Ready(order) = {} THEN order ELSE Append(order, Least(Ready(order)))
    IN  Grown[Len(g.ids)]

IsCyclic(g) == Len(TopoOrder(g)) # Len(g.ids)

DependentsOf(g, S) == {n \in Nodes(g) : g.deps[n] \cap S # {}}

\* Everything downstream of a node.
Descendants(g, id) ==
    LET Reached[i \in 1..Len(g.ids)] ==
          IF i = 1 THEN DependentsOf(g, {id})
          ELSE Reached[i - 1] \cup DependentsOf(g, Reached[i - 1])
    IN  Reached[Len(g.ids)]

HeldLeases(g, running) == UNION {g.writes[n] : n \in running}

\* The nodes that may start now: the list is walked in insertion order, and each
\* node that is taken claims its write-set for the rest of the walk.
ReadyIgnoringBatch(g, done, running, blocked) ==  \* a slip
    {n \in Nodes(g) \ (done \cup running \cup blocked) :
       g.deps[n] \subseteq done /\ g.writes[n] \cap HeldLeases(g, running) = {}}
ReadyOnceOneIsDone(g, done, running, blocked) ==  \* a slip
    {n \in Nodes(g) \ (done \cup running \cup blocked) :
       (g.deps[n] = {} \/ g.deps[n] \cap done # {})
       /\ g.writes[n] \cap HeldLeases(g, running) = {}}
ReadySet(g, done, running, blocked) ==
    LET Take(taken, n) ==
          IF /\ n \notin done \cup running \cup blocked
             /\ g.deps[n] \subseteq done
             /\ g.writes[n] \cap HeldLeases(g, running \cup taken) = {}
            THEN taken \cup {n} ELSE taken
    IN  FoldLeft(Take, {}, g.ids)

DependentsBlocked(g, done, blocked, failed) ==  \* a slip
    DependentsOf(g, {failed}) \ (done \cup blocked)
NewlyBlocked(g, done, blocked, failed) ==
    Descendants(g, failed) \ (done \cup blocked)
=============================================================================
