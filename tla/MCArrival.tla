-------------------------------- MODULE MCArrival --------------------------------
(* Two tests of one report each; a run that emits up to three events, one of     *)
(* them an error; gates of every strength with and without a quorum, one whose   *)
(* counts the lint does not read, one with absent rules of its own; a probe that *)
(* is missing, out of reach or has no value, one that agrees, and one that asks  *)
(* the endpoint of the store itself and says enough, but not the same.           *)
EXTENDS Arrival

MCReports == {<<"t1", "call">>, <<"t2", "call">>}

Ev(n, g, q) == [name |-> n, tag |-> g, ts |-> 0, seq |-> q, val |-> q]

MCEmitted == {Ev("a", "ok", 1), Ev("b", "ok", 2), Ev("a", "ERROR", 3)}

On(n) == [name |-> n, tag |-> Anything]

Present == [kind |-> "present", all |-> {On("a"), On("b")}]
Valued == [kind |-> "count", on |-> [name |-> "a", tag |-> "ok"], op |-> ">=", want |-> 1]
Always == [kind |-> "count", on |-> On("b"), op |-> "gte", want |-> 0]
Omitted == [Always EXCEPT !.op = None]
Target == [aliased |-> TRUE] @@ [Always EXCEPT !.op = ">="]
NoErrors == [kind |-> "absent", any |-> {Errors}, allow |-> {}]
NoB == [kind |-> "absent", any |-> {On("b")}, allow |-> {}, optional |-> TRUE]
AtMost == [kind |-> "count", on |-> On("b"), op |-> "<=", want |-> 1, weight |-> 2]
InTurn == [kind |-> "order", seq |-> <<"a", "b">>, within |-> None]
Fact == [kind |-> "external", op |-> "==", want |-> 1, tol |-> 0]
AtLeast == [Fact EXCEPT !.op = ">="]
Equal == [kind |-> "relation", left |-> On("a"), right |-> On("b"), lred |-> "sum",
          rred |-> "count", rel |-> "==", tol |-> 0]

Plain(expect) == [expect |-> expect, forbid |-> FALSE, allow |-> {}, pin |-> None,
                  threshold |-> None, corroborate |-> FALSE, sign |-> FALSE, justified |-> FALSE]

MCSpecs == {Plain(<<Present, Valued>>),
            [Plain(<<Always, [Always EXCEPT !.op = ">="]>>) EXCEPT !.forbid = TRUE],
            [Plain(<<Present, AtMost, Valued>>) EXCEPT !.threshold = [num |-> 3, den |-> 4]],
            [Plain(<<InTurn, Fact>>) EXCEPT !.corroborate = TRUE],
            [Plain(<<Present, Equal>>) EXCEPT !.sign = TRUE, !.forbid = TRUE, !.pin = "ok"],
            Plain(<<Valued, Omitted, Target>>), Plain(<<Valued, NoErrors, NoB>>),
            [Plain(<<AtLeast>>) EXCEPT !.corroborate = TRUE]}

Probe(r, v, s) == [reachable |-> r, value |-> v, separate |-> TRUE, same_endpoint |-> s]

MCFacts == {None, Probe(FALSE, None, FALSE), Probe(TRUE, None, FALSE), Probe(TRUE, 1, FALSE),
            Probe(TRUE, 2, TRUE)}
=============================================================================
