--------------------------- MODULE DashboardProofs ---------------------------
(***************************************************************************)
(* What the dashboard shows, for any number of requests, days and users:   *)
(* totals by verdict are of the cases given it, figures are no older than  *)
(* the cache lets them be, and those of a settled range stand.             *)
(***************************************************************************)
EXTENDS Dashboard, TLAPS

Batches == [status : {"none", "open", "in", "lost"}, verdict : Verdicts, failed : BOOLEAN,
            stamp : Nat, seen : Nat]

\* An entry has the rows there were when it was made.
EntryOf(entry) ==
    /\ entry.at \in Nat /\ entry.at <= now /\ now - entry.at < Ttl
    /\ entry.answer = Answer(entry.rows)
    /\ entry.rows \subseteq Committed
    /\ \A r \in entry.rows : batch[r].seen <= entry.at
    /\ \A r \in Committed : batch[r].seen < entry.at => r \in entry.rows

FigureOf(figure) ==
    /\ figure.when \in Nat /\ figure.when <= now
    /\ figure.answer = Answer(figure.rows)
    /\ figure.rows \subseteq Committed
    /\ \A r \in figure.rows : batch[r].seen <= figure.when
    /\ \A r \in Committed : batch[r].seen + Ttl <= figure.when => r \in figure.rows

Inv ==
    /\ now \in Nat /\ key \in Keys
    /\ batch \in [Requests -> Batches]
    /\ \A r \in Requests : /\ batch[r].failed => batch[r].verdict = "DRAFT"
                           /\ batch[r].seen <= now
    /\ \A entry \in cache : EntryOf(entry)
    /\ \A figure \in shown : FigureOf(figure)

-----------------------------------------------------------------------------
(* What an answer depends on *)

\* On the batches of the rows in its range.
LEMMA AnswerStable ==
    ASSUME NEW rows, NEW more, key' = key, rows \subseteq more,
           \A r \in rows : batch'[r] = batch[r],
           \A r \in more \ rows : ~InRange(r)'
    PROVE  Answer(more)' = Answer(rows)
<1>1. \A r \in rows : (InRange(r)' <=> InRange(r)) /\ Matching(r)' = Matching(r)
  BY DEF InRange, Matching, Midnight, Events, Classification, Search, Decided
<1>2. \A name : With(more, name)' = With(rows, name)
  BY <1>1 DEF With
<1>3. \A name : With(rows, name) \subseteq rows
  BY DEF With
<1>4. Kpi(more)' = Kpi(rows)
  <2>1. {q \in more : InRange(q)' /\ Matching(q)' # {}}
          = {q \in rows : InRange(q) /\ Matching(q) # {}}
    BY <1>1
  <2>2. \A v \in Verdicts : {r \in With(more, "decision_made")' : batch'[r].verdict = v}
                              = {r \in With(rows, "decision_made") : batch[r].verdict = v}
    BY <1>2, <1>3
  <2> QED BY <2>1, <2>2 DEF Kpi
<1>5. Trend(more)' = Trend(rows)
  <2> DEFINE decided == With(rows, "decision_made")
             point(r) == <<DayOf(batch[r].stamp), batch[r].verdict>>
             after(r) == <<DayOf(batch'[r].stamp), batch'[r].verdict>>
             points == {point(r) : r \in decided}
  <2>1. \A r \in decided : after(r) = point(r)
    BY <1>3
  <2>2. {after(r) : r \in decided} = points
    BY <2>1
  <2>3. \A p : {r \in decided : after(r) = p} = {r \in decided : point(r) = p}
    BY <2>1
  <2>4. Trend(rows) = [p \in points |-> Cardinality({r \in decided : point(r) = p})]
    BY DEF Trend
  <2>5. Trend(more)' = [p \in {after(r) : r \in decided} |-> Cardinality({r \in decided : after(r) = p})]
    BY <1>2 DEF Trend, DayOf
  <2> HIDE DEF decided, point, after
  <2> QED BY <2>2, <2>3, <2>4, <2>5
<1>6. Tool(more)' = Tool(rows)
  <2>1. {r \in With(more, "tool_call")' : batch'[r].failed} = {r \in With(rows, "tool_call") : batch[r].failed}
    BY <1>2, <1>3
  <2> QED BY <1>2, <2>1 DEF Tool
<1>7. Business(more)' = Business(rows)
  BY <1>2 DEF Business
<1> QED BY <1>4, <1>5, <1>6, <1>7 DEF Answer

\* Of a request's events some carries its verdict, and none another one.
LEMMA MatchesVerdict ==
    ASSUME Inv, NEW r \in Requests
    PROVE  Matching(r) # {} <=> key.decision \in {"", batch[r].verdict}
<1> DEFINE b == batch[r]
<1>1. b.verdict \in Verdicts /\ b.failed \in BOOLEAN /\ (b.failed => b.verdict = "DRAFT")
  BY DEF Inv, Batches
<1> HIDE DEF b
<1>0. \A name, decision : Event(name, decision).decision = decision
  BY DEF Event
<1>2. \A e \in Events(b) : e.decision \in {"", b.verdict}
  <2>1. CASE b.verdict = "HANDOFF"
    <3>1. Events(b) = {Event("case_received", ""), Event("classification_completed", "HANDOFF")}
      BY <2>1 DEF Events, Classification, Search, Decided
    <3> QED BY <1>0, <2>1, <3>1
  <2>2. CASE b.verdict # "HANDOFF" /\ ~b.failed
    <3>1. Events(b) = {Event("case_received", ""), Event("classification_completed", ""),
                       Event("tool_call", ""), Event("decision_made", b.verdict)}
      BY <2>2 DEF Events, Classification, Search, Decided
    <3> QED BY <1>0, <3>1
  <2>3. CASE b.verdict # "HANDOFF" /\ b.failed
    <3>1. Events(b) = {Event("case_received", ""), Event("classification_completed", ""),
                       Event("tool_call", "DRAFT"), Event("decision_made", b.verdict)}
      BY <2>3 DEF Events, Classification, Search, Decided
    <3>2. b.verdict = "DRAFT"
      BY <1>1, <2>3, Zenon
    <3> SUFFICES ASSUME NEW e \in Events(b) PROVE e.decision \in {"", "DRAFT"}
      BY <3>2
    <3>3. e \in {Event("case_received", ""), Event("classification_completed", ""),
                 Event("tool_call", "DRAFT"), Event("decision_made", "DRAFT")}
      BY <3>1, <3>2
    <3> QED BY <1>0, <3>3
  <2> QED BY <2>1, <2>2, <2>3
<1>3. /\ \E e \in Events(b) : e.decision = b.verdict
      /\ \E e \in Events(b) : TRUE
  BY <1>0, <1>1 DEF Events, Classification, Search, Decided
<1>4. CASE key.decision = ""
  BY <1>3, <1>4 DEF Matching, b
<1>5. CASE key.decision # ""
  BY <1>2, <1>3, <1>5 DEF Matching, b
<1> QED BY <1>4, <1>5

-----------------------------------------------------------------------------
LEMMA DashboardInit == Init => Inv
BY DashboardAssumption DEF Init, Inv, Unwritten, Batches, Verdicts

\* A step that changes the batch of one request that is not in yet, and commits it,
\* if it does, now.
LEMMA WriteStep ==
    ASSUME Inv, NEW r \in Requests, batch[r].status # "in", NEW b \in Batches,
           batch' = [batch EXCEPT ![r] = b], b.failed => b.verdict = "DRAFT",
           b.status = "in" => b.seen = now, b.seen <= now,
           UNCHANGED <<now, key, cache, shown>>
    PROVE  Inv'
<1>0. Ttl \in Nat /\ Ttl > 0 /\ now \in Nat
  BY DashboardAssumption DEF Inv
<1>1. \A q \in Requests : batch'[q] = IF q = r THEN b ELSE batch[q]
  BY DEF Inv
<1>2. /\ Committed \subseteq Committed' /\ r \notin Committed
      /\ \A q \in Committed' : q \in Committed \/ (q = r /\ batch'[q].seen = now)
      /\ \A q \in Committed : batch'[q] = batch[q]
  BY <1>1 DEF Committed
<1>3. ASSUME NEW rows, rows \subseteq Committed PROVE Answer(rows)' = Answer(rows)
  BY <1>2, <1>3, AnswerStable
<1>4. \A entry \in cache : EntryOf(entry)'
  <2> SUFFICES ASSUME NEW entry \in cache PROVE EntryOf(entry)'
    OBVIOUS
  <2>1. EntryOf(entry)
    BY DEF Inv
  <2> QED BY <1>0, <1>2, <1>3, <2>1 DEF EntryOf
<1>5. \A figure \in shown : FigureOf(figure)'
  <2> SUFFICES ASSUME NEW figure \in shown PROVE FigureOf(figure)'
    OBVIOUS
  <2>1. FigureOf(figure)
    BY DEF Inv
  <2> QED BY <1>0, <1>2, <1>3, <2>1 DEF FigureOf
<1>6. batch' \in [Requests -> Batches]
  BY DEF Inv
<1>7. \A q \in Requests : /\ batch'[q].failed => batch'[q].verdict = "DRAFT"
                          /\ batch'[q].seen <= now
  BY <1>1 DEF Inv
<1> QED BY <1>4, <1>5, <1>6, <1>7 DEF Inv

LEMMA DashboardNext == Inv /\ [Next]_vars => Inv'
<1> SUFFICES ASSUME Inv, [Next]_vars PROVE Inv'
  OBVIOUS
<1>0. Ttl \in Nat /\ Ttl > 0 /\ now \in Nat
  BY DashboardAssumption DEF Inv
<1>1. ASSUME NEW r \in Requests, InsertBegins(r) PROVE Inv'
  <2>1. PICK v \in Verdicts, failed \in BOOLEAN :
          batch' = [batch EXCEPT ![r] = [status |-> "open", verdict |-> v,
                      failed |-> failed /\ v = "DRAFT", stamp |-> now, seen |-> 0]]
    BY <1>1 DEF InsertBegins
  <2> DEFINE f == failed /\ v = "DRAFT"
  <2>a. f \in BOOLEAN /\ (f => v = "DRAFT")
    OBVIOUS
  <2> DEFINE b == [status |-> "open", verdict |-> v, failed |-> f, stamp |-> now, seen |-> 0]
  <2>2. b \in Batches /\ b.status = "open" /\ b.seen <= now /\ (b.failed => b.verdict = "DRAFT")
    <3> HIDE DEF f
    <3> QED BY <1>0, <2>a DEF Batches
  <2>3. batch[r].status # "in" /\ UNCHANGED <<now, key, cache, shown>>
    BY <1>1 DEF InsertBegins
  <2>4. batch' = [batch EXCEPT ![r] = b]
    BY <2>1
  <2> HIDE DEF b, f
  <2> QED BY <2>2, <2>3, <2>4, WriteStep
<1>2. ASSUME NEW r \in Requests, InsertCommits(r) PROVE Inv'
  <2> DEFINE b == [batch[r] EXCEPT !.status = "in", !.seen = now]
  <2>1. batch[r] \in Batches /\ (batch[r].failed => batch[r].verdict = "DRAFT")
    BY DEF Inv
  <2>a. b.seen = now
    BY <2>1 DEF Batches
  <2>2. b \in Batches /\ b.seen = now /\ b.seen <= now
    <3>1. b \in Batches
      BY <1>0, <2>1 DEF Batches
    <3> HIDE DEF b
    <3> QED BY <1>0, <2>a, <3>1
  <2>4. b.failed => b.verdict = "DRAFT"
    BY <2>1 DEF Batches
  <2>3. /\ batch[r].status # "in" /\ UNCHANGED <<now, key, cache, shown>>
        /\ batch' = [batch EXCEPT ![r] = b]
    BY <1>2, <2>1 DEF InsertCommits, Inv
  <2> HIDE DEF b
  <2> QED BY <2>2, <2>3, <2>4, WriteStep
<1>3. ASSUME NEW r \in Requests, InsertFails(r) PROVE Inv'
  <2> DEFINE b == [Unwritten EXCEPT !.status = "lost"]
  <2>a. Unwritten \in Batches /\ Unwritten.verdict = "DRAFT" /\ Unwritten.seen = 0
    BY DEF Unwritten, Batches, Verdicts
  <2>1. b \in Batches /\ b.status = "lost" /\ b.verdict = "DRAFT" /\ b.seen <= now
    BY <1>0, <2>a DEF Batches
  <2>2. /\ batch[r].status # "in" /\ UNCHANGED <<now, key, cache, shown>>
        /\ batch' = [batch EXCEPT ![r] = b]
    BY <1>3 DEF InsertFails
  <2> HIDE DEF b
  <2> QED BY <2>1, <2>2, WriteStep
<1>4. ASSUME NEW entry, EntryOf(entry), Show(entry), UNCHANGED <<now, batch, key>>
      PROVE  \A figure \in shown' : FigureOf(figure)'
  <2>1. shown' = {[rows |-> entry.rows, answer |-> entry.answer, when |-> now]}
    BY <1>4 DEF Show
  <2>2. /\ Committed' = Committed /\ entry.rows \subseteq Committed
        /\ \A r \in Committed : batch[r].seen \in Nat
    BY <1>4 DEF Committed, EntryOf, Inv, Batches
  <2>3. Answer(entry.rows)' = Answer(entry.rows)
    BY <1>4, AnswerStable
  <2>4. \A r \in Committed : batch[r].seen + Ttl <= now => batch[r].seen < entry.at
    BY <1>0, <1>4, <2>2 DEF EntryOf
  <2>5. \A r \in entry.rows : batch[r].seen <= now
    BY <1>0, <1>4, <2>2 DEF EntryOf
  <2> QED BY <1>0, <1>4, <2>1, <2>2, <2>3, <2>4, <2>5 DEF FigureOf, EntryOf
<1>5. ASSUME UNCHANGED <<batch, key>>, now' \in Nat, now <= now', cache' \subseteq cache,
             shown' = shown, \A entry \in cache' : now' - entry.at < Ttl
      PROVE  Inv'
  <2>1. Committed' = Committed /\ \A rows : Answer(rows)' = Answer(rows)
    BY <1>5, AnswerStable DEF Committed
  <2>2. \A entry \in cache' : EntryOf(entry)'
    BY <1>0, <1>5, <2>1 DEF EntryOf, Inv
  <2>3. \A figure \in shown' : FigureOf(figure)'
    BY <1>0, <1>5, <2>1 DEF FigureOf, Inv
  <2>4. \A r \in Requests : batch[r].seen \in Nat /\ batch[r].seen <= now'
    BY <1>0, <1>5 DEF Inv, Batches
  <2> QED BY <1>5, <2>2, <2>3, <2>4 DEF Inv
<1>6. CASE LoadHit
  <2>1. PICK entry \in cache : Show(entry)
    BY <1>6 DEF LoadHit
  <2>2. \A figure \in shown' : FigureOf(figure)'
    BY <1>4, <1>6, <2>1 DEF LoadHit, Inv
  <2>3. Committed' = Committed /\ \A rows : Answer(rows)' = Answer(rows)
    BY <1>6, AnswerStable DEF LoadHit, Committed
  <2>4. \A e \in cache' : EntryOf(e)'
    BY <1>6, <2>3 DEF LoadHit, EntryOf, Inv
  <2> QED BY <1>6, <2>2, <2>4 DEF LoadHit, Inv
<1>7. CASE LoadMiss
  <2> DEFINE entry == [rows |-> Committed, answer |-> Answer(Committed), at |-> now]
  <2>1. \A r \in Committed : batch[r].seen \in Nat /\ batch[r].seen <= now
    BY DEF Inv, Committed, Batches
  <2>2. EntryOf(entry)
    BY <1>0, <2>1 DEF EntryOf
  <2>3. cache' = {entry} /\ Show(entry) /\ UNCHANGED <<now, batch, key>>
    BY <1>7 DEF LoadMiss
  <2> HIDE DEF entry
  <2>4. \A figure \in shown' : FigureOf(figure)'
    BY <1>4, <2>2, <2>3
  <2>5. Committed' = Committed /\ \A rows : Answer(rows)' = Answer(rows)
    BY <2>3, AnswerStable DEF Committed
  <2>6. \A e \in cache' : EntryOf(e)'
    BY <2>2, <2>3, <2>5 DEF EntryOf
  <2> QED BY <2>3, <2>4, <2>6 DEF Inv
<1>8. CASE Tick
  <2>1. now' = now + 1 /\ cache' = {entry \in cache : Keep(entry)} /\ UNCHANGED <<batch, key, shown>>
    BY <1>8 DEF Tick
  <2>2. \A entry \in cache' : now' - entry.at < Ttl
    BY <1>0, <2>1 DEF Keep, Inv, EntryOf
  <2> QED BY <1>0, <1>5, <2>1, <2>2
<1>9. CASE UNCHANGED vars
  BY <1>0, <1>5, <1>9 DEF vars, Inv, EntryOf
<1> QED BY <1>1, <1>2, <1>3, <1>6, <1>7, <1>8, <1>9 DEF Next

\* A figure is never older than the life of a cache entry.
THEOREM FiguresAreRecent == Spec => []ShownIsRecent
<1>1. Inv => ShownIsRecent
  BY DEF Inv, ShownIsRecent, FigureOf, Committed
<1> QED BY <1>1, DashboardInit, DashboardNext, PTL DEF Spec

\* A total narrowed to a verdict is of the cases that were given it.
THEOREM TotalsAreOfVerdicts == Spec => []TotalIsOfTheVerdict
<1>1. Inv => TotalIsOfTheVerdict
  <2> SUFFICES ASSUME Inv, key.figure = "kpi", NEW figure \in shown
               PROVE  figure.answer.total = Cardinality({CaseOf[r] : r \in
                        {r \in figure.rows : key.decision \in {"", batch[r].verdict} /\ InRange(r)}})
    BY DEF TotalIsOfTheVerdict
  <2>1. figure.answer = Answer(figure.rows) /\ figure.rows \subseteq Requests
    BY DEF Inv, FigureOf, Committed
  <2>2. {q \in figure.rows : InRange(q) /\ Matching(q) # {}}
          = {r \in figure.rows : key.decision \in {"", batch[r].verdict} /\ InRange(r)}
    BY <2>1, MatchesVerdict
  <2>3. figure.answer = Kpi(figure.rows)
    BY <2>1 DEF Answer
  <2>4. Kpi(figure.rows).total
          = Cardinality({CaseOf[r] : r \in {q \in figure.rows : InRange(q) /\ Matching(q) # {}}})
    BY DEF Kpi
  <2>5. {CaseOf[r] : r \in {q \in figure.rows : InRange(q) /\ Matching(q) # {}}}
          = {CaseOf[r] : r \in {r \in figure.rows : key.decision \in {"", batch[r].verdict} /\ InRange(r)}}
    BY <2>2
  <2> QED BY <2>3, <2>4, <2>5
<1> QED BY <1>1, DashboardInit, DashboardNext, PTL DEF Spec

\* The past of a settled range is never rewritten.
THEOREM SettledRangesStand == Spec => SettledFiguresStand
<1>1. Inv /\ [Next]_vars => (Settled => Settled' /\ Answer(Committed)' = Answer(Committed))
  <2> SUFFICES ASSUME Inv, [Next]_vars, Settled
               PROVE  Settled' /\ Answer(Committed)' = Answer(Committed)
    OBVIOUS
  <2>c. key \in KeyShape /\ now \in Nat
    BY DashboardAssumption DEF Inv
  <2>d. key.end \in Nat
    BY <2>c DEF KeyShape
  <2>a. DayLength \in Int /\ key.end \in Int
    BY <2>d, DashboardAssumption
  <2>0. now \in Nat /\ Midnight(key.end) \in Int
    BY <2>a, <2>c DEF Midnight
  <2>b. key' = key /\ (now' = now \/ now' = now + 1)
    BY DEF Next, InsertBegins, InsertCommits, InsertFails, LoadHit, LoadMiss, Tick, vars
  <2>1. key' = key /\ Midnight(key.end)' = Midnight(key.end) /\ now' \in Nat /\ now <= now'
    BY <2>0, <2>b DEF Midnight
  <2>2. now' > Midnight(key.end)'
    BY <2>0, <2>1 DEF Settled
  <2>3. CASE UNCHANGED batch
    <3>1. Committed' = Committed /\ \A rows : Answer(rows)' = Answer(rows)
      BY <2>1, <2>3, AnswerStable DEF Committed
    <3> QED BY <2>1, <2>2, <2>3, <3>1 DEF Settled, InRange, Midnight
  <2>4. ASSUME NEW r \in Requests, NEW b, batch' = [batch EXCEPT ![r] = b],
               batch[r].status # "in", b.status = "open" => ~InRange(r)',
               b.status = "in" => ~InRange(r)'
        PROVE  Settled' /\ Answer(Committed)' = Answer(Committed)
    <3>1. \A q \in Requests : batch'[q] = IF q = r THEN b ELSE batch[q]
      BY <2>4 DEF Inv
    <3>2. \A q \in Requests \ {r} : InRange(q)' <=> InRange(q)
      BY <2>1, <3>1 DEF InRange, Midnight
    <3>3. Settled'
      BY <2>2, <2>4, <3>1, <3>2 DEF Settled
    <3>4. /\ Committed \subseteq Committed' /\ \A q \in Committed' \ Committed : ~InRange(q)'
          /\ \A q \in Committed : batch'[q] = batch[q]
      BY <2>4, <3>1 DEF Committed
    <3>5. Answer(Committed)' = Answer(Committed)
      BY <2>1, <3>4, AnswerStable
    <3> QED BY <3>3, <3>5
  <2>5. ASSUME NEW r \in Requests, InsertBegins(r)
        PROVE  Settled' /\ Answer(Committed)' = Answer(Committed)
    <3>a. PICK v \in Verdicts, failed \in BOOLEAN :
            batch' = [batch EXCEPT ![r] = [status |-> "open", verdict |-> v,
                        failed |-> failed /\ v = "DRAFT", stamp |-> now, seen |-> 0]]
      BY <2>5 DEF InsertBegins
    <3> DEFINE b == [status |-> "open", verdict |-> v, failed |-> failed /\ v = "DRAFT",
                     stamp |-> now, seen |-> 0]
    <3>1. batch' = [batch EXCEPT ![r] = b] /\ b.status = "open" /\ b.stamp = now
      BY <3>a
    <3> HIDE DEF b
    <3>2. ~InRange(r)'
      BY <2>0, <2>1, <3>1 DEF InRange, Settled, Inv
    <3> QED BY <2>4, <2>5, <3>1, <3>2 DEF InsertBegins
  <2>6. ASSUME NEW r \in Requests, InsertCommits(r)
        PROVE  Settled' /\ Answer(Committed)' = Answer(Committed)
    <3> DEFINE b == [batch[r] EXCEPT !.status = "in", !.seen = now]
    <3>1. batch[r] \in Batches
      BY DEF Inv
    <3>2. /\ batch' = [batch EXCEPT ![r] = b]
          /\ b.status = "in" /\ b.stamp = batch[r].stamp
      BY <2>6, <3>1 DEF InsertCommits, Inv, Batches
    <3> HIDE DEF b
    <3>3. ~InRange(r)'
      BY <2>1, <2>6, <3>2 DEF InRange, Settled, Inv, InsertCommits, Midnight
    <3> QED BY <2>4, <2>6, <3>2, <3>3 DEF InsertCommits
  <2>7. ASSUME NEW r \in Requests, InsertFails(r)
        PROVE  Settled' /\ Answer(Committed)' = Answer(Committed)
    <3> DEFINE b == [Unwritten EXCEPT !.status = "lost"]
    <3>1. batch' = [batch EXCEPT ![r] = b] /\ b.status = "lost" /\ batch[r].status # "in"
      BY <2>7 DEF InsertFails, Unwritten
    <3> HIDE DEF b
    <3> QED BY <2>4, <3>1
  <2> QED BY <2>3, <2>6, <2>7, <2>5 DEF Next, LoadHit, LoadMiss, Tick, vars
<1> QED BY <1>1, DashboardInit, DashboardNext, PTL DEF Spec, SettledFiguresStand

-----------------------------------------------------------------------------
(* What users see *)

\* There is one entry at most, and it has all the rows that were shown.
ShownCached ==
    /\ \A entry, other \in cache : entry = other
    /\ \A figure \in shown, entry \in cache : figure.rows \subseteq entry.rows

View == {[rows |-> figure.rows, when |-> figure.when] : figure \in shown}
Arrived == [r \in Committed |-> batch[r].seen]

LEMMA ReadsInit == Init => Reads!Init /\ ShownCached
<1> SUFFICES ASSUME Init PROVE Reads!Init /\ ShownCached
  OBVIOUS
<1>1. Committed = {}
  BY DEF Init, Committed, Unwritten
<1> QED BY <1>1 DEF Init, Reads!Init, ShownCached

\* Who shows an entry of the cache, old or new, looks.
LEMMA ShowLooks ==
    ASSUME Inv, ShownCached, NEW entry, EntryOf(entry), Show(entry),
           \A figure \in shown : figure.rows \subseteq entry.rows,
           UNCHANGED <<now, batch>>
    PROVE  Reads!Look
<1>1. /\ View' = {[rows |-> entry.rows, when |-> now]}
      /\ \A before \in View : before.rows \subseteq entry.rows
  BY DEF Show, View
<1>2. Arrived' = Arrived /\ DOMAIN Arrived = Committed /\ \A r \in Committed : Arrived[r] = batch[r].seen
  BY DEF Arrived, Committed
<1>3. now \in Nat /\ entry.at \in 0..now /\ Ttl \in Nat /\ now < entry.at + Ttl
  BY DashboardAssumption DEF Inv, EntryOf
<1>4. Reads!IsSnapshot(entry.rows, entry.at)
  BY <1>2 DEF EntryOf, Reads!IsSnapshot, Arrived
<1>5. entry.rows \in SUBSET DOMAIN Arrived
  BY <1>2 DEF EntryOf
<1> QED BY <1>1, <1>2, <1>3, <1>4, <1>5 DEF Reads!Look, View, Arrived

\* A commit is the arrival of its row.
LEMMA CommitArrives ==
    ASSUME Inv, NEW r \in Requests, InsertCommits(r)
    PROVE  Reads!Arrive(r)
<1>1. /\ batch[r].status = "open" /\ batch'[r].status = "in" /\ batch'[r].seen = now
      /\ \A q \in Requests \ {r} : batch'[q] = batch[q]
  BY DEF InsertCommits, Inv, Batches
<1>2. Committed' = Committed \cup {r} /\ r \notin Committed
  BY <1>1 DEF Committed
<1>3. \A q \in Committed : q # r /\ batch'[q].seen = batch[q].seen
  BY <1>1, <1>2 DEF Committed
<1>4. Arrived' = [q \in DOMAIN Arrived \cup {r} |-> IF q = r THEN now ELSE Arrived[q]]
  BY <1>1, <1>2, <1>3 DEF Arrived
<1>5. r \notin DOMAIN Arrived /\ UNCHANGED <<now, shown>>
  BY <1>2 DEF Arrived, InsertCommits
<1> QED BY <1>4, <1>5 DEF Reads!Arrive, Arrived

\* Other steps of a transaction are not seen.
LEMMA OthersUnseen ==
    ASSUME Inv, NEW r \in Requests, InsertBegins(r) \/ InsertFails(r)
    PROVE  UNCHANGED <<now, Arrived, shown, cache>>
<1>1. /\ batch[r].status # "in" /\ batch'[r].status # "in"
      /\ \A q \in Requests \ {r} : batch'[q] = batch[q]
  BY DEF InsertBegins, InsertFails, Inv, Unwritten
<1>2. Committed' = Committed /\ r \notin Committed
  BY <1>1 DEF Committed
<1>3. \A q \in Committed : batch'[q].seen = batch[q].seen
  BY <1>1, <1>2 DEF Committed
<1>4. Arrived' = Arrived
  BY <1>2, <1>3 DEF Arrived
<1> QED BY <1>4 DEF InsertBegins, InsertFails

LEMMA ReadsStep ==
    ASSUME Inv, ShownCached, [Next]_vars
    PROVE  ShownCached' /\ [Reads!Next]_(Reads!vars)
<1>1. ASSUME NEW r \in Requests, InsertCommits(r)
      PROVE  ShownCached' /\ [Reads!Next]_(Reads!vars)
  <2>1. UNCHANGED <<cache, shown>>
    BY <1>1 DEF InsertCommits
  <2> QED BY <1>1, <2>1, CommitArrives DEF ShownCached, Reads!Next
<1>2. ASSUME NEW r \in Requests, InsertBegins(r) \/ InsertFails(r)
      PROVE  ShownCached' /\ [Reads!Next]_(Reads!vars)
  <2>1. UNCHANGED <<now, Arrived, shown, cache>>
    BY <1>2, OthersUnseen
  <2> QED BY <2>1 DEF ShownCached, Reads!vars, Arrived
<1>3. CASE LoadHit
  <2>1. PICK entry \in cache : Show(entry)
    BY <1>3 DEF LoadHit
  <2>2. EntryOf(entry) /\ UNCHANGED <<now, batch, cache>>
    BY <1>3 DEF LoadHit, Inv
  <2>3. Reads!Look
    BY <2>1, <2>2, ShowLooks DEF ShownCached
  <2>4. \A figure \in shown' : figure.rows = entry.rows
    BY <2>1 DEF Show
  <2>5. ShownCached'
    BY <2>2, <2>4 DEF ShownCached
  <2> QED BY <2>3, <2>5 DEF Reads!Next
<1>4. CASE LoadMiss
  <2> DEFINE entry == [rows |-> Committed, answer |-> Answer(Committed), at |-> now]
  <2>1. cache' = {entry} /\ Show(entry) /\ UNCHANGED <<now, batch>>
    BY <1>4 DEF LoadMiss
  <2>2. EntryOf(entry)
    <3>1. /\ now \in Nat /\ Ttl \in Nat /\ Ttl > 0 /\ now - now < Ttl
          /\ \A r \in Committed : /\ batch[r].seen \in Nat /\ batch[r].seen <= now
      BY DashboardAssumption DEF Inv, Committed, Batches
    <3> QED BY <3>1 DEF EntryOf
  <2>3. \A figure \in shown : figure.rows \subseteq entry.rows
    BY DEF Inv, FigureOf
  <2> HIDE DEF entry
  <2>4. Reads!Look
    BY <2>1, <2>2, <2>3, ShowLooks
  <2>5. \A figure \in shown' : figure.rows = entry.rows
    BY <2>1 DEF Show
  <2>6. ShownCached'
    BY <2>1, <2>5 DEF ShownCached
  <2> QED BY <2>4, <2>6 DEF Reads!Next
<1>5. CASE Tick
  <2>1. now' = now + 1 /\ cache' \subseteq cache /\ UNCHANGED <<batch, shown>>
    BY <1>5 DEF Tick
  <2>2. Arrived' = Arrived
    BY <2>1 DEF Arrived, Committed
  <2>3. ShownCached'
    BY <2>1 DEF ShownCached
  <2>4. Reads!Pass
    BY <2>1, <2>2 DEF Reads!Pass, Arrived
  <2> QED BY <2>3, <2>4 DEF Reads!Next
<1>6. CASE UNCHANGED vars
  BY <1>6 DEF vars, ShownCached, Reads!vars, Committed
<1> QED BY <1>1, <1>2, <1>3, <1>4, <1>5, <1>6 DEF Next

\* The dashboard is a stale view of the events: any number of users who reload it
\* together see one moment of the last cache life, and no row goes away again.
THEOREM UsersSeeOneMoment == Spec => ImplementsReads
BY DashboardInit, DashboardNext, ReadsInit, ReadsStep, PTL DEF Spec, ImplementsReads, Reads!Spec
=============================================================================
