------------------------------- MODULE MCScheduler -------------------------------
(* Every graph of three nodes over one resource, dangling edges and cycles      *)
(* included, and a few of four nodes.                                           *)
EXTENDS Scheduler

Resource == "r"
Ghost == 9

\* The nodes are inserted in an order that is not the order of their ids.
MCThree ==
    {[ids |-> <<2, 3, 1>>, deps |-> d, writes |-> w] :
       d \in [1..3 -> SUBSET (1..3)], w \in [1..3 -> {{}, {Resource}}]}
    \cup {[ids |-> <<2, 1>>, deps |-> <<{Ghost}, {1}>>, writes |-> <<{}, {}>>]}

Graph(d, w) == [ids |-> <<4, 2, 3, 1>>, deps |-> d, writes |-> w]

\* A diamond, two chains, a fan with two writers, and writers that also depend.
MCFour ==
    {Graph(<<{}, {1}, {1}, {2, 3}>>, <<{}, {"r"}, {"r"}, {}>>),
     Graph(<<{}, {1}, {}, {3}>>, <<{"r"}, {"s"}, {"s"}, {"r"}>>),
     Graph(<<{}, {1}, {1}, {1}>>, <<{}, {"r"}, {"r", "s"}, {"s"}>>),
     Graph(<<{}, {}, {}, {1, 2}>>, <<{}, {}, {}, {}>>),
     Graph(<<{}, {}, {2}, {1, 3}>>, <<{"r"}, {}, {"r"}, {}>>)}

MCAll == MCThree \cup MCFour
=============================================================================
