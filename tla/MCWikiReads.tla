------------------------------ MODULE MCWikiReads ------------------------------
(* Small instances of WikiApi with its readers: two handlers of one author that   *)
(* meet on one page; and one handler of an author and a moderator on two pages,   *)
(* under a client that walks every list or asks for diffs.                        *)
EXTENDS WikiReads, TLC

CONSTANTS a1, a2, i1, i2, i3, k1, k2, r1, s1, s2, t1, t2

MCKeys == {i1, i2, i3}
MCCallers == {k1, k2}
MCTitles == {t1, t2}
MCPrincipals == {<<a1, PublicScopes>>, <<a2, ModeratorScopes>>}
MCCommandIds == {CommandId(a, i) : a \in Actors, i \in Keys}

Writer(actor, kinds) == [actor |-> actor, kinds |-> kinds]
Plan(handlers, losses, writers, slugs, commands, surfaces) ==
    [handlers |-> handlers, losses |-> losses, writers |-> writers, slugs |-> slugs,
     retitles |-> surfaces = {}, commands |-> commands, surfaces |-> surfaces,
     limit |-> 1, moments |-> 5]
\* Two handlers of an author meet on a page; revisions are compared while the page is hidden
\* and released; lists are walked while pages are edited and hidden, and while two handlers
\* commit in another order than they were asked.
Authoring == Writer(a1, {"CreatePage", "EditPage"})
Hiding == Writer(a2, {"QuarantinePage"})
Meeting == Plan(2, TRUE, {Writer(a1, {"CreatePage", "EditPage", "SubmitReview"})}, {s1}, 3, {})
Comparing ==
    Plan(1, TRUE, {Writer(a1, {"CreatePage", "EditPage", "ReportPage"}),
                   Writer(a2, {"QuarantinePage", "ReleasePage"})}, {s1}, 4, {"diff", "history"})
Walking == Plan(1, FALSE, {Authoring, Hiding}, {s1, s2}, 4, {"pages", "recent"})
Inserting == Plan(2, FALSE, {Authoring}, {s1, s2}, 3, {"pages", "recent"})
MCPlans == {Meeting, Comparing, Walking, Inserting}

MCSymmetry == Permutations(MCKeys) \cup Permutations(MCCallers) \cup Permutations(MCTitles)
=============================================================================
