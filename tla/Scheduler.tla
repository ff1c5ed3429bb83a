-------------------------------- MODULE Scheduler --------------------------------
(***************************************************************************)
(* One run of the DAG scheduler (ts/src/agent/Scheduler.ts).               *)
(*                                                                         *)
(* The loop plans, starts what it may and waits for a fiber; no await lies *)
(* between those, so that is one step.  A node's fiber may be suspended    *)
(* between the updates by which it settles.                                *)
(***************************************************************************)
EXTENDS WorkGraph

CONSTANTS
    Graphs,      \* the graphs that may be run
    Concurrency  \* options.concurrency

ASSUME ConcurrencyIsPositive == Concurrency \in Nat \ {0}

VARIABLES
    graph,
    loop,     \* where the loop is: planning, waiting, draining, reported or refused
    live,     \* the fibers to join, oldest first
    fiber,    \* each node's fiber: none, executing, settling or ended
    upstream, \* the ancestors whose values a started node was given
    cascade,  \* what a failing fiber found to block
    done, running, blocked,  \* RunState
    outcomes  \* each node's fate so far

settled == <<done, blocked, outcomes>>
vars == <<graph, loop, live, fiber, upstream, cascade, done, running, blocked, outcomes>>

All == Nodes(graph)
Runnable == DanglingEdges(graph) = {} /\ ~IsCyclic(graph)

\* upstreamOf: the values of all ancestors that have one.
Ancestors(n) == {a \in All : n \in Descendants(graph, a)}
UpstreamOf(n) == {a \in Ancestors(n) : outcomes[a].tag = "Completed"}

Init ==
    /\ graph \in Graphs
    /\ loop = IF Runnable THEN "planning" ELSE "refused"
    /\ live = <<>>
    /\ fiber = [n \in All |-> "none"]
    /\ upstream = [n \in All |-> {}]
    /\ cascade = [n \in All |-> {}]
    /\ done = {} /\ running = {} /\ blocked = {}
    /\ outcomes = [n \in All |-> [tag |-> "none"]]

-----------------------------------------------------------------------------
Batch(ready) ==
    LET slots == Concurrency - Cardinality(running)
    IN  SubSeq(Sorted(ready), 1, IF slots < Cardinality(ready) THEN slots ELSE Cardinality(ready))

Joined(fibers, batch) == fibers \o batch

\* Start what is ready and fits, until nothing more does; then wait, or stop when
\* nothing runs.
PlanWith(fibers) ==
    LET batch == Batch(ReadySet(graph, done, running, blocked))
        started == ToSet(batch)
    IN  /\ running' = running \cup started
        /\ live' = Joined(fibers, batch)
        /\ fiber' = [n \in All |-> IF n \in started THEN "executing" ELSE fiber[n]]
        /\ upstream' = [n \in All |-> IF n \in started THEN UpstreamOf(n) ELSE upstream[n]]
        /\ loop' = IF running' = {} THEN "draining" ELSE "waiting"
        /\ UNCHANGED <<graph, cascade, settled>>

Plan == loop = "planning" /\ PlanWith(live)

\* The loop waits for its oldest fiber, or for a void one if it has none.
Join ==
    /\ loop = "waiting"
    /\ live # <<>> => fiber[Head(live)] = "ended"
    /\ PlanWith(SubSeq(live, 2, Len(live)))

Report ==
    /\ loop = "draining"
    /\ \A n \in ToSet(live) : fiber[n] = "ended"
    /\ loop' = "reported"
    /\ UNCHANGED <<graph, live, fiber, upstream, cascade, running, settled>>

-----------------------------------------------------------------------------
(* A node's fiber.  markCompleted sets the value and the outcome and then  *)
(* the state; markFailed reads the state, then sets outcomes, then state.  *)

Move(n, from, to) == fiber[n] = from /\ fiber' = [fiber EXCEPT ![n] = to]

Succeed(n) ==
    /\ Move(n, "executing", "succeeded")
    /\ outcomes' = [outcomes EXCEPT ![n] = [tag |-> "Completed"]]
    /\ UNCHANGED <<graph, loop, live, upstream, cascade, done, running, blocked>>

HeldAfterFailure(n) == IF fiber[n] = "failed" THEN running ELSE running \ {n}  \* a slip
Released(n) == running \ {n}

MarkCompleted(n) ==
    /\ Move(n, "succeeded", "ended")
    /\ done' = done \cup {n}
    /\ running' = Released(n)
    /\ UNCHANGED <<graph, loop, live, upstream, cascade, blocked, outcomes>>

Fail(n) ==
    /\ Move(n, "executing", "failing")
    /\ cascade' = [cascade EXCEPT ![n] = NewlyBlocked(graph, done, blocked, n)]
    /\ UNCHANGED <<graph, loop, live, upstream, running, settled>>

RecordFailure(n) ==
    /\ Move(n, "failing", "failed")
    /\ outcomes' = [m \in All |->
         IF m = n THEN [tag |-> "Failed"]
         ELSE IF m \in cascade[n] /\ outcomes[m].tag = "none" THEN [tag |-> "Blocked", by |-> n]
         ELSE outcomes[m]]
    /\ UNCHANGED <<graph, loop, live, upstream, cascade, done, running, blocked>>

MarkFailed(n) ==
    /\ Move(n, "failed", "ended")
    /\ running' = Released(n)
    /\ blocked' = blocked \cup {n} \cup cascade[n]
    /\ UNCHANGED <<graph, loop, live, upstream, cascade, done, outcomes>>

Execution(n) == Succeed(n) \/ Fail(n)
Settling(n) == MarkCompleted(n) \/ RecordFailure(n) \/ MarkFailed(n)
Loop == Plan \/ Join \/ Report

Next == Loop \/ \E n \in All : Execution(n) \/ Settling(n)

Spec == Init /\ [][Next]_vars

\* The runtime runs every fiber that can run.  Whether the work of a node ends is
\* up to the node.
RuntimeFairness == WF_vars(Loop) /\ \A n \in UNION {Nodes(g) : g \in Graphs} :
                                      WF_vars(n \in All /\ Settling(n))
ExecutionFairness == \A n \in UNION {Nodes(g) : g \in Graphs} :
                       WF_vars(n \in All /\ Execution(n))
FairSpec == Spec /\ RuntimeFairness /\ ExecutionFairness

-----------------------------------------------------------------------------
(* Properties.                                                             *)

Active == {n \in All : fiber[n] \in {"executing", "succeeded", "failing", "failed"}}

\* Scheduler.ts 9 and 12: it "never runs two nodes whose write-sets intersect" and
\* keeps to the bound on concurrency, whatever settles when.
RunsWithinLimits ==
    /\ \A m, n \in Active : m # n => graph.writes[m] \cap graph.writes[n] = {}
    /\ Cardinality(Active) <= Concurrency

\* Scheduler.ts 8 and 54-56: a node that runs has been given the value of everything
\* upstream of it.
StartsInformed == \A n \in All : fiber[n] # "none" => upstream[n] = Ancestors(n)

RunsAsPlanned == RunsWithinLimits /\ StartsInformed

\* Scheduler.ts 10 and 13: the run "reports every node's fate".  A failure takes its
\* descendants, which never run, and no others; each of them names an ancestor that
\* failed.
FatesAreRight ==
    loop = "reported" => \A n \in All :
      /\ outcomes[n].tag # "none"
      /\ outcomes[n].tag = "Failed" =>
           \A d \in Descendants(graph, n) : outcomes[d].tag = "Blocked"
      /\ outcomes[n].tag = "Blocked" =>
           /\ fiber[n] = "none"
           /\ outcomes[n].by \in Ancestors(n)
           /\ outcomes[outcomes[n].by].tag = "Failed"

\* A run whose nodes all end is reported.
RunEnds == loop = "planning" ~> loop = "reported"
=============================================================================
