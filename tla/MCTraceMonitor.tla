------------------------------ MODULE MCTraceMonitor -----------------------------
(* Every kind of rule, over every stream of four of seven events: three names,     *)
(* an untimestamped event, two events of one instant, late and early ones, with *)
(* and without a value and with a tag the ontology does not accept.             *)
EXTENDS TraceMonitor

Ev(n, g, t, q, v) == [name |-> n, tag |-> g, ts |-> t, seq |-> q, val |-> v]

MCEvents == {Ev("a", "ok", 1, 0, 1), Ev("a", "ok", 2, 0, 2), Ev("a", "bad", None, 0, None),
             Ev("b", "ok", 1, 1, 1), Ev("b", "ok", 2, 1, 2), Ev("b", "ok", 4, 0, None),
             Ev("c", "bad", 0, 0, 2)}

On(n) == [name |-> n, tag |-> Anything]
Pinned(g) == [name |-> Anything, tag |-> g]

MCOntology == [n \in {"a", "b"} |-> {"ok"}]

MCRules ==
    [kind : {"count"}, on : {On("a")}, op : {"gte", ">", "==", "ne", "<=", "<"}, want : 0..1]
    \cup [kind : {"count"}, on : {On("a")}, op : {None, "==", "<"}, want : {2}]
    \cup {[kind |-> "present", all |-> {On("a"), On("b")}],
          [kind |-> "present", all |-> {[name |-> "a", tag |-> "bad"]}],
          [kind |-> "absent", any |-> {Pinned("bad")}, allow |-> {}],
          [kind |-> "absent", any |-> {Pinned("bad")}, allow |-> {On("c")}]}
    \cup [kind : {"order"}, seq : {<<"a", "b">>, <<"a", "b", "c">>}, within : {None, 1}]
    \cup [kind : {"heartbeat"}, name : {"a", "b"}, every : {1}]
    \cup {[kind |-> "ratio", good |-> On("a"), total |-> Pinned("ok"), op |-> ">=",
           num |-> 1, den |-> 2]}
    \cup [kind : {"relation"}, left : {On("a")}, right : {On("b")}, lred : {"sum", "min"},
          rred : {"max", "count"}, rel : {"==", "<"}, tol : {0}]
    \cup [kind : {"relation"}, left : {On("a")}, right : {On("b")}, lred : {"sum"},
          rred : {"sum"}, rel : {"eq"}, tol : {1}]
    \cup [kind : {"relation"}, left : {On("a")}, right : {On("b")}, lred : {"last"},
          rred : {"last"}, rel : {"equal", "scaled", "subset", "monotone"}, factor : {2}, tol : {0}]
    \cup [kind : {"conforms"}, target : {Anything, "a"}, closed : BOOLEAN]
=============================================================================
