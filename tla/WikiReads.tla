------------------------------- MODULE WikiReads -------------------------------
(***************************************************************************)
(* The reading side of the wiki API (app/routers/wiki.py over the reads of *)
(* app/wiki/memory.py and app/wiki/postgres.py) while the handlers of      *)
(* WikiApi write: a diff takes three reads of the store, a page of a       *)
(* history two, and a client that walks a list asks for one page of it     *)
(* after the other by offset.  Each read is one step.                      *)
(*                                                                         *)
(* Lists are ordered by the time a command was built, which its handler    *)
(* takes before the store decides: stamp and at keep these times, no two   *)
(* of them equal.  A search of the list by title is left out.              *)
(***************************************************************************)
EXTENDS WikiApi, SequencesExt

CONSTANTS
    Readers,   \* clients of the reading endpoints
    Plans      \* bound: who writes what, and which surfaces are read

VARIABLES
    plan,
    stamp,     \* each handler's occurred_at, or 0
    at,        \* each command's occurred_at, or 0
    read       \* each reader's request

readsVars == <<apiVars, plan, stamp, at, read>>

-----------------------------------------------------------------------------
(* What the store answers.  Items are <<page, what>> pairs. *)

Visible(p) == pages[p] # None /\ pages[p].moderation = "visible"
IsRevision(e) == e.type \in RevisionTypes

\* updated_at: the time of the last event that moves it.
TouchTypes == RevisionTypes \cup {"review_submitted"}
UpdatedIn(es, times) ==
    times[LET touches == SelectSeq(es, LAMBDA e : e.type \in TouchTypes)
          IN  touches[Len(touches)].command]
Updated(p) == UpdatedIn(events[p], at)

\* ORDER BY time DESC.
NewestFirst(S, Time(_)) ==
    [i \in 1..Cardinality(S) |->
       CHOOSE x \in S : Cardinality({y \in S : Time(y) > Time(x)}) = i - 1]

PageList ==
    NewestFirst({<<p, Updated(p)>> : p \in {q \in PageIds : Visible(q)}}, LAMBDA i : i[2])
RecentChanges ==
    NewestFirst(UNION {{<<p, e.command>> : e \in Range(SelectSeq(events[p], IsRevision))}
                         : p \in {q \in PageIds : Visible(q)}},
                LAMBDA i : at[i[2]])
History(p) ==
    IF p = None \/ ~Visible(p) THEN <<>>
    ELSE LET revisions == SelectSeq(events[p], IsRevision)
         IN  [i \in DOMAIN revisions |-> <<p, Reverse(revisions)[i].command>>]

OffByOne(list, offset, limit) ==  \* a slip
    SubSeq(list, offset + 2, IF offset + limit < Len(list) THEN offset + limit ELSE Len(list))
Window(list, offset, limit) ==
    SubSeq(list, offset + 1, IF offset + limit < Len(list) THEN offset + limit ELSE Len(list))

RevisionOfAnyPage(p, rev) ==  \* a slip
    \E i \in DOMAIN events[p] : IsRevision(events[p][i]) /\ events[p][i].rev = rev
HasRevision(p, rev) ==
    /\ Visible(p)
    /\ \E i \in DOMAIN events[p] : IsRevision(events[p][i]) /\ events[p][i].rev = rev

-----------------------------------------------------------------------------
(* The readers. *)

NotReading ==
    [at |-> "idle", what |-> None, slug |-> None, page |-> None, revs |-> <<>>, offset |-> 0,
     shown |-> {}, due |-> {}, calm |-> TRUE]

ListOf(what, page) ==
    CASE what = "pages"   -> PageList
      [] what = "recent"  -> RecentChanges
      [] what = "history" -> History(page)

\* A client asks for a diff, or begins to walk a list.
FirstStep(what) == IF what \in {"history", "diff"} THEN "page" ELSE "list"
StartRead(r) ==
    /\ read[r] = NotReading
    /\ \E what \in plan.surfaces :
       \E slug \in (IF what \in {"pages", "recent"} THEN {None} ELSE plan.slugs),
          revs \in (IF what = "diff" THEN {<<a, b>> : a, b \in ShownRevisions} ELSE {<<>>}) :
           read' = [read EXCEPT ![r] =
             [NotReading EXCEPT !.at = FirstStep(what), !.what = what, !.slug = slug, !.revs = revs,
                !.due = IF what = "diff" THEN {}
                        ELSE Range(ListOf(what, IF slug = None THEN None ELSE slugToId[slug]))]]
    /\ UNCHANGED <<apiVars, plan, stamp, at>>

Goes(r, fields) == read' = [read EXCEPT ![r] = fields @@ @]
Finished == [at |-> "done"]

\* page_or_404
LookUp(r) ==
    /\ read[r].at = "page"
    /\ LET p == slugToId[read[r].slug]
       IN  IF p = None \/ ~Visible(p) THEN Goes(r, Finished)
           ELSE Goes(r, [page |-> p, at |-> IF read[r].what = "diff" THEN "before" ELSE "list"])
    /\ UNCHANGED <<apiVars, plan, stamp, at>>

\* list_pages, recent_changes, history: one page of the list; the client goes on until one
\* is short.
ReadList(r) ==
    /\ read[r].at = "list"
    /\ LET items == Window(ListOf(read[r].what, read[r].page), read[r].offset, plan.limit)
       IN  Goes(r, [shown  |-> read[r].shown \cup Range(items),
                    offset |-> read[r].offset + plan.limit,
                    at     |-> IF Len(items) < plan.limit THEN "done" ELSE FirstStep(read[r].what)])
    /\ UNCHANGED <<apiVars, plan, stamp, at>>

\* diff: both revisions are read, then compared; either may be missing.
ReadBefore(r) ==
    /\ read[r].at = "before"
    /\ Goes(r, [at   |-> "after",
                revs |-> IF HasRevision(read[r].page, read[r].revs[1]) THEN read[r].revs
                         ELSE <<None, read[r].revs[2]>>])
    /\ UNCHANGED <<apiVars, plan, stamp, at>>
ReadAfter(r) ==
    /\ read[r].at = "after"
    /\ LET p == read[r].page
       IN  IF read[r].revs[1] # None /\ HasRevision(p, read[r].revs[2])
             THEN Goes(r, [at |-> "done", shown |-> {<<p, rev>> : rev \in Range(read[r].revs)}])
             ELSE Goes(r, Finished)
    /\ UNCHANGED <<apiVars, plan, stamp, at>>

EndRead(r) ==
    /\ read[r].at = "done"
    /\ read' = [read EXCEPT ![r] = NotReading]
    /\ UNCHANGED <<apiVars, plan, stamp, at>>

-----------------------------------------------------------------------------
(* The writers, within the plan. *)

ReadsInit ==
    /\ ApiInit
    /\ plan \in Plans
    /\ stamp = [k \in Callers |-> 0]
    /\ at = [c \in CommandIds |-> 0]
    /\ read = [r \in Readers |-> NotReading]

Busy == {k \in Callers : http[k] # NoRequest}

\* A client that loses no answer sends nothing again.
Planned(r) ==
    /\ r.slug \in plan.slugs
    /\ r.title # None /\ r.kind = "EditPage" => plan.retitles
    /\ \E allowed \in plan.writers : r.who[1] = allowed.actor /\ r.kind \in allowed.kinds
    /\ IF receipts[IdOf(r)] # None \/ \E k \in Busy : IdOf(http[k].request) = IdOf(r)
         THEN plan.losses
         ELSE Cardinality({c \in CommandIds : receipts[c] # None}) < plan.commands

\* The clock is kept where somebody reads, up to plan.moments.
Now == IF plan.surfaces = {} THEN 0 ELSE Max(Range(stamp) \cup Range(at)) + 1
HandleNow(k) ==
    /\ Cardinality(Busy) < plan.handlers
    /\ Handle(k)
    /\ Planned(http'[k].request)
    /\ Now <= plan.moments
    /\ stamp' = [stamp EXCEPT ![k] = Now]
    /\ UNCHANGED <<plan, at, read>>

\* A list is disturbed where a page leaves it or falls back in it.
Disturbed ==
    \E p \in PageIds :
       Visible(p) /\ (pages'[p].moderation # "visible" \/ UpdatedIn(events'[p], at') < Updated(p))
AcceptThen(k) ==
    /\ Accept(k)
    /\ at' = [at EXCEPT ![call[k].command.id] = stamp[k]]
    /\ read' = [r \in Readers |->
                 IF read[r] = NotReading THEN read[r]
                 ELSE [read[r] EXCEPT !.calm = @ /\ ~Disturbed]]
    /\ UNCHANGED <<plan, stamp>>

DecideThen(k) ==
    /\ Decide(k)
    /\ call'[k].reply = Unavailable => plan.losses
    /\ UNCHANGED <<plan, stamp, at, read>>
RespondThen(k) ==
    /\ Respond(k)
    /\ stamp' = [stamp EXCEPT ![k] = 0]
    /\ UNCHANGED <<plan, at, read>>

ReadsNext ==
    \/ \E k \in Callers : HandleNow(k) \/ DecideThen(k) \/ AcceptThen(k) \/ RespondThen(k)
    \/ \E e \in EffectIds : ResolveOutbox(e) /\ UNCHANGED <<http, earned, plan, stamp, at, read>>
    \/ \E r \in Readers : StartRead(r) \/ LookUp(r) \/ ReadList(r) \/ ReadBefore(r) \/ ReadAfter(r)
                            \/ EndRead(r)

ReadsSpec == ReadsInit /\ [][ReadsNext]_readsVars

-----------------------------------------------------------------------------
(* Properties *)

\* A quarantine takes effect at once: whatever pieces an answer is put together from, all it
\* shows is of pages that are public when the last of them is read (diff: routers/wiki.py
\* 759-761, with the page and both revisions read one after the other).
NothingHiddenIsShown ==
    [][\A r \in Readers : \A i \in read'[r].shown \ read[r].shown : Visible(i[1])]_readsVars

\* Pages, revisions: what a list held when a client began to walk it by offset and still
\* holds, the client has been shown in the end, however many are created and edited
\* meanwhile; unless a page left the list, or fell back in it because of a command that was
\* built before the one that preceded it.
StillListed(i, what) ==
    IF what = "pages" THEN Visible(i[1]) /\ i[2] = Updated(i[1]) ELSE Visible(i[1])
WalksMissNothing ==
    \A r \in Readers :
       read[r].at = "done" /\ read[r].calm =>
         {i \in read[r].due : StillListed(i, read[r].what)} \subseteq read[r].shown
=============================================================================
