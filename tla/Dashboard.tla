------------------------------ MODULE Dashboard ------------------------------
(***************************************************************************)
(* The dashboard (src/streamlit_app) over the metric events that requests  *)
(* leave in t_metrics_events.  Its figures are queries over the events of  *)
(* a range of days, narrowed by the verdict an event is tagged with, and   *)
(* are cached for all its users together.                                  *)
(*                                                                         *)
(* A request writes its events in one transaction, stamped with the time   *)
(* it begins; they are seen when it commits.  Which events there are, and  *)
(* how each is tagged, follows from the verdict and from the point of the  *)
(* pipeline where the verdict is written.  The filters that are not        *)
(* modelled (tenant, type, mode, risk, versions) narrow further in the     *)
(* same way; a query takes no time.                                        *)
(***************************************************************************)
EXTENDS Integers, FiniteSets

CONSTANTS
    Requests,      \* the requests that reach the logger
    Cases,         \* the cases there are
    CaseOf,        \* the case each request is of
    Keys,          \* the figures users ask for: see KeyShape
    DayLength,     \* clock ticks in a day
    Ttl,           \* st.cache_data(ttl), in ticks
    MaxTime        \* bound: the clock stops there

Verdicts == {"AUTO_POST", "DRAFT", "HANDOFF"}
\* start and end are dates; the decision "" does not narrow.
KeyShape == [figure : {"kpi", "trend", "tool", "business"},
             decision : {""} \cup Verdicts, start : Nat, end : Nat]

ASSUME DashboardAssumption ==
    /\ CaseOf \in [Requests -> Cases]
    /\ Keys \subseteq KeyShape
    /\ DayLength \in Nat \ {0} /\ Ttl \in Nat \ {0} /\ MaxTime \in Nat

VARIABLES
    now,       \* the clock
    batch,     \* the events each request writes, by what determines them
    key,       \* the figure followed; entries of the cache have nothing to do with each other
    cache,     \* st.cache_data: the entry of that figure, if any
    shown      \* the figure as it was shown last, if it was

vars == <<now, batch, key, cache, shown>>

Unwritten == [status |-> "none", verdict |-> "DRAFT", failed |-> FALSE, stamp |-> 0, seen |-> 0]
Committed == {r \in Requests : batch[r].status = "in"}

-----------------------------------------------------------------------------
(* Events and their tags *)

Event(name, decision) == [name |-> name, decision |-> decision]

\* An event is tagged with the verdict there is when it is emitted.

\* A handoff has its verdict when its classification is reported.
Classification(b) ==
    Event("classification_completed", IF b.verdict = "HANDOFF" THEN "HANDOFF" ELSE "")

\* A handoff goes round the tools; a failed search makes a draft before it is reported.
Search(b) ==
    IF b.verdict = "HANDOFF" THEN {} ELSE {Event("tool_call", IF b.failed THEN "DRAFT" ELSE "")}

\* It goes round Decision too, which reports all other verdicts.
Decided(b) == IF b.verdict = "HANDOFF" THEN {} ELSE {Event("decision_made", b.verdict)}

\* Faulty variant: the classification is reported before it is acted upon.
EventsTaggedEarly(b) ==
    {Event("case_received", ""), Event("classification_completed", "")}
      \cup Search(b) \cup Decided(b)

\* Of the events of a request those the figures look at, with one of the tool calls.
Events(b) == {Event("case_received", ""), Classification(b)} \cup Search(b) \cup Decided(b)

-----------------------------------------------------------------------------
(* Queries *)

Midnight(day) == day * DayLength
DayOf(time) == time \div DayLength

\* BASE_FILTER: the dates stand for their midnights.
InRange(r) == Midnight(key.start) <= batch[r].stamp /\ batch[r].stamp <= Midnight(key.end)
Matching(r) == {e \in Events(batch[r]) : key.decision \in {"", e.decision}}

\* The requests with an event of the name among the rows that pass the filter.
With(rows, name) ==
    {r \in rows : InRange(r) /\ \E e \in Matching(r) : e.name = name}

\* KPI_OVERVIEW: distinct cases, and how many of the verdicts reported are which.
Kpi(rows) ==
    [total |-> Cardinality({CaseOf[r] : r \in {q \in rows : InRange(q) /\ Matching(q) # {}}}),
     decided |-> [v \in Verdicts |->
                    Cardinality({r \in With(rows, "decision_made") : batch[r].verdict = v})]]

\* DECISION_TREND: the verdicts reported, by day.
Trend(rows) ==
    LET decided == With(rows, "decision_made")
        point(r) == <<DayOf(batch[r].stamp), batch[r].verdict>>
    IN  [p \in {point(r) : r \in decided} |-> Cardinality({r \in decided : point(r) = p})]

\* TOOL_RELIABILITY, of the calls of rag_search, and BUSINESS_TOP.
Tool(rows) ==
    LET calls == With(rows, "tool_call")
    IN  [calls |-> Cardinality(calls), failed |-> Cardinality({r \in calls : batch[r].failed})]
Business(rows) == Cardinality(With(rows, "case_received"))

Answer(rows) ==
    CASE key.figure = "kpi" -> Kpi(rows)
      [] key.figure = "trend" -> Trend(rows)
      [] key.figure = "tool" -> Tool(rows)
      [] key.figure = "business" -> Business(rows)

-----------------------------------------------------------------------------
Init ==
    /\ now = 0
    /\ batch = [r \in Requests |-> Unwritten]
    /\ key \in Keys /\ cache = {} /\ shown = {}

\* Faulty variant: the rows carry the time the request came in.
InsertBackdated(r) ==
    /\ batch[r].status = "none"
    /\ \E v \in Verdicts, failed \in BOOLEAN, arrival \in 0..now :
          batch' = [batch EXCEPT ![r] = [status |-> "open", verdict |-> v,
                      failed |-> failed /\ v = "DRAFT", stamp |-> arrival, seen |-> 0]]
    /\ UNCHANGED <<now, key, cache, shown>>

\* insert_metrics; now() is when its transaction begins.
InsertBegins(r) ==
    /\ batch[r].status = "none"
    /\ \E v \in Verdicts, failed \in BOOLEAN :
          batch' = [batch EXCEPT ![r] = [status |-> "open", verdict |-> v,
                      failed |-> failed /\ v = "DRAFT", stamp |-> now, seen |-> 0]]
    /\ UNCHANGED <<now, key, cache, shown>>

InsertCommits(r) ==
    /\ batch[r].status = "open"
    /\ batch' = [batch EXCEPT ![r].status = "in", ![r].seen = now]
    /\ UNCHANGED <<now, key, cache, shown>>

\* The transaction goes, and the request with it.
InsertFails(r) ==
    /\ batch[r].status = "open"
    /\ batch' = [batch EXCEPT ![r] = [Unwritten EXCEPT !.status = "lost"]]
    /\ UNCHANGED <<now, key, cache, shown>>

\* Faulty variant: an entry is served at the end of its time.
KeepTheEnd(entry) == now + 1 - entry.at <= Ttl
\* Faulty variant: what is cached stays.
KeepForEver(entry) == TRUE
\* Entries past their time are evicted.
Keep(entry) == now + 1 - entry.at < Ttl

Show(entry) == shown' = {[rows |-> entry.rows, answer |-> entry.answer, when |-> now]}

\* load_df: a figure is taken from the cache, or from the tables and cached.
LoadHit ==
    /\ \E entry \in cache : Show(entry)
    /\ UNCHANGED <<now, batch, key, cache>>

LoadMiss ==
    /\ cache = {}
    /\ LET entry == [rows |-> Committed, answer |-> Answer(Committed), at |-> now]
       IN  cache' = {entry} /\ Show(entry)
    /\ UNCHANGED <<now, batch, key>>

Tick ==
    /\ now < MaxTime
    /\ now' = now + 1
    /\ cache' = {entry \in cache : Keep(entry)}
    /\ UNCHANGED <<batch, key, shown>>

Next ==
    \/ \E r \in Requests : InsertBegins(r) \/ InsertCommits(r) \/ InsertFails(r)
    \/ LoadHit \/ LoadMiss \/ Tick

Spec == Init /\ [][Next]_vars

-----------------------------------------------------------------------------
(* What the figures mean *)

\* Narrowed to a verdict, the total is the number of cases that were given it, in
\* the time of the range: early in a request its events carry no verdict, but
\* there is one with every verdict, HANDOFF included, which no decision_made
\* reports (emit_metric, BASE_FILTER, KPI_OVERVIEW).
TotalIsOfTheVerdict ==
    key.figure = "kpi" =>
        \A figure \in shown :
            LET meant == {r \in figure.rows : key.decision \in {"", batch[r].verdict} /\ InRange(r)}
            IN  figure.answer.total = Cardinality({CaseOf[r] : r \in meant})

\* A figure leaves out nothing that was there a cache life before it was shown,
\* and puts in nothing that was not there (st.cache_data(ttl=120), load_df).
ShownIsRecent ==
    \A figure \in shown :
        /\ figure.answer = Answer(figure.rows)
        /\ \A r \in figure.rows : batch[r].status = "in" /\ batch[r].seen <= figure.when
        /\ \A r \in Committed : batch[r].seen + Ttl <= figure.when => r \in figure.rows

\* The users of the dashboard see the rows as they were at one moment of the last
\* cache life, and never lose sight of a row that one of them has seen
\* (st.cache_data is shared by all sessions, load_df).
Reads == INSTANCE StaleReads WITH
             Rows <- Requests, clock <- now,
             arrived <- [r \in Committed |-> batch[r].seen],
             view <- {[rows |-> figure.rows, when |-> figure.when] : figure \in shown}
ImplementsReads == Reads!Spec

\* The range is over, and no transaction stamped in it is open.
Settled == now > Midnight(key.end) /\ \A r \in Requests : batch[r].status = "open" => ~InRange(r)

\* The figures of a settled range stand for good: a case that is sent again later
\* counts on the later day and leaves the earlier one as it was (insert_metrics
\* only inserts, with created_at = now()).
SettledFiguresStand ==
    [][Settled => Settled' /\ Answer(Committed)' = Answer(Committed)]_vars
=============================================================================
