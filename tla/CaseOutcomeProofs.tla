--------------------------- MODULE CaseOutcomeProofs ---------------------------
(***************************************************************************)
(* What a client that is answered may rely on: that its request has left   *)
(* everything it should, whatever others did meanwhile.                    *)
(***************************************************************************)
EXTENDS CaseServiceProofs, CaseTrailProofs

CompletedRow(c) == \E q \in Requests : caseRow[c] = q /\ Case(q) = c /\ pc[q] = "done"
Replied(r) == Post(r) \in replies \/ "mcp" \in Faults

\* What is done so far, at each place behind the output.
DoneSoFar ==
    \A r \in Requests :
        /\ pc[r] \in {"UpsertCase", "done"} => metricRows[r] # {}
        /\ pc[r] = "done" => CompletedRow(Case(r))
        /\ pc[r] \in Storing /\ st[r].decision = "AUTO_POST" => Replied(r)

LEMMA DoneInit == Init => DoneSoFar
BY DEF Init, DoneSoFar, Storing

\* A step of request r that leaves the rows of cases and takes back no reply.
LEMMA OneDone ==
    ASSUME TypeOK, DoneSoFar, NEW r \in Requests, pc[r] # "done", pc'[r] # "done",
           \A q \in Requests \ {r} : /\ pc'[q] = pc[q] /\ st'[q] = st[q]
                                     /\ metricRows'[q] = metricRows[q],
           pc'[r] = "UpsertCase" => metricRows'[r] # {},
           pc'[r] \in Storing /\ st'[r].decision = "AUTO_POST" => Replied(r)',
           UNCHANGED <<env, inquiry, caseRow>>, replies \subseteq replies'
    PROVE  DoneSoFar'
<1>1. \A c : CompletedRow(c) => CompletedRow(c)'
  BY DEF CompletedRow, Case
<1>2. \A q \in Requests \ {r} : Replied(q) => Replied(q)'
  BY DEF Replied, Post, Faults
<1> QED BY <1>1, <1>2 DEF DoneSoFar, Case

\* A step that leaves all but one place as it is.
LEMMA MoveDone ==
    ASSUME TypeOK, DoneSoFar, NEW r \in Requests, NEW next, pc[r] # "done", next # "done",
           pc' = [pc EXCEPT ![r] = next], UNCHANGED <<st, env, inquiry, metricRows, caseRow>>,
           replies \subseteq replies',
           next = "UpsertCase" => metricRows[r] # {},
           next \in Storing => pc[r] \in Storing \/ st[r].decision # "AUTO_POST" \/ Replied(r)'
    PROVE  DoneSoFar'
<1>1. pc'[r] = next /\ \A q \in Requests \ {r} : pc'[q] = pc[q]
  BY DEF TypeOK
<1>2. next \in Storing /\ st'[r].decision = "AUTO_POST" => Replied(r)'
  BY DEF DoneSoFar, Replied, Post, Faults
<1> QED BY <1>1, <1>2, OneDone

\* A step that ends requests which are under way, or none.
LEMMA BreakDone ==
    ASSUME TypeOK, DoneSoFar, UNCHANGED <<st, env, inquiry, metricRows, caseRow>>, replies \subseteq replies',
           \A q \in Requests : pc'[q] = pc[q] \/ (pc[q] # "done" /\ pc'[q] \in Broken)
    PROVE  DoneSoFar'
<1>1. \A c : CompletedRow(c) => CompletedRow(c)'
  BY DEF CompletedRow, Case
<1>2. \A q \in Requests : Replied(q) => Replied(q)'
  BY DEF Replied, Post, Faults
<1> QED BY <1>1, <1>2 DEF DoneSoFar, Case, Broken, Storing

LEMMA StoreDone ==
    ASSUME TypeOK, Inv, Told, DoneSoFar, NEW r \in Requests,
           OutputNothing(r) \/ Output(r) \/ Handoff(r) \/ Persist(r)
    PROVE  DoneSoFar'
<1> DEFINE Moves(next) == pc' = [pc EXCEPT ![r] = next]
<1>0. \A events, next : Return(r, st[r], events, next) => Moves(next) /\ st' = st
  BY DEF Return, TypeOK
<1> USE DEF OwnStateOnly, dbVars, worldVars, fixedVars
<1>1. CASE OutputNothing(r)
  <2>1. /\ pc[r] # "done" /\ Moves("TelemetryLogger") /\ st[r].decision # "AUTO_POST"
        /\ UNCHANGED <<st, env, inquiry, metricRows, caseRow, replies>>
    BY <1>0, <1>1 DEF OutputNothing
  <2> QED BY <2>1, MoveDone
<1>2. CASE Output(r)
  <2>1. /\ pc[r] # "done" /\ Moves("TelemetryLogger")
        /\ UNCHANGED <<st, env, inquiry, metricRows, caseRow>>
        /\ replies' = replies \cup {Post(r)} \/ ("mcp" \in Faults /\ replies' = replies)
    BY <1>0, <1>2 DEF Output
  <2>2. Replied(r)' /\ replies \subseteq replies'
    BY <2>1 DEF Replied, Post, Faults
  <2> QED BY <2>1, <2>2, MoveDone
<1>3. CASE Handoff(r)
  <2>1. /\ pc[r] \in Alerting
        /\ Moves("TelemetryLogger") \/ Moves("HandoffCall") \/ Moves("HandoffMark")
        /\ UNCHANGED <<st, env, inquiry, metricRows, caseRow, replies>>
    BY <1>0, <1>3 DEF Handoff, HandoffSkipped, HandoffCheck, HandoffCall, HandoffMark, Alerting
  <2>2. st[r].decision = "HANDOFF" /\ pc[r] # "done"
    BY <2>1 DEF Inv, Local, VerdictKnown, Alerting
  <2> QED BY <2>1, <2>2, MoveDone
<1>4. CASE LogEvent(r)
  <2>1. /\ pc[r] = "TelemetryLogger" /\ Moves("InsertMetrics")
        /\ UNCHANGED <<st, env, inquiry, metricRows, caseRow, replies>>
    BY <1>4 DEF LogEvent
  <2> QED BY <2>1, MoveDone DEF Storing
<1>5. CASE InsertMetrics(r)
  <2>1. /\ pc[r] = "InsertMetrics" /\ Moves("UpsertCase")
        /\ metricRows' = [metricRows EXCEPT ![r] = metrics[r]]
        /\ UNCHANGED <<st, env, inquiry, caseRow, replies>>
    BY <1>5 DEF InsertMetrics
  <2>2. Received \in metrics[r]
    BY <2>1 DEF Told, Reported, Broken
  <2>3. /\ pc'[r] = "UpsertCase" /\ metricRows'[r] # {}
        /\ \A q \in Requests \ {r} : pc'[q] = pc[q] /\ metricRows'[q] = metricRows[q]
    BY <2>1, <2>2 DEF TypeOK
  <2>4. st'[r].decision = "AUTO_POST" => Replied(r)'
    BY <2>1 DEF DoneSoFar, Replied, Post, Storing, Faults
  <2> QED BY <2>1, <2>3, <2>4, OneDone
<1>6. CASE UpsertCase(r)
  <2>1. /\ pc[r] = "UpsertCase" /\ Moves("done") /\ caseRow' = [caseRow EXCEPT ![Case(r)] = r]
        /\ UNCHANGED <<st, env, inquiry, metricRows, replies>>
    BY <1>0, <1>6 DEF UpsertCase
  <2>2. Case(r) \in Cases /\ pc'[r] = "done" /\ \A q \in Requests \ {r} : pc'[q] = pc[q]
    BY <2>1, InquiryType DEF TypeOK, Case
  <2>3. /\ caseRow'[Case(r)] = r /\ \A c : c # Case(r) /\ c \in Cases => caseRow'[c] = caseRow[c]
    BY <2>1, <2>2 DEF TypeOK
  <2>4. CompletedRow(Case(r))'
    BY <2>1, <2>2, <2>3 DEF CompletedRow, Case
  <2>5. \A c \in Cases : CompletedRow(c) => CompletedRow(c)'
    BY <2>1, <2>2, <2>3, <2>4 DEF CompletedRow, Case
  <2>6. \A q \in Requests : Case(q) \in Cases
    BY InquiryType DEF TypeOK, Case
  <2>7. \A q \in Requests : Replied(q)' <=> Replied(q)
    BY <2>1 DEF Replied, Post, Faults
  <2>8. \A q \in Requests : Case(q)' = Case(q)
    BY <2>1 DEF Case
  <2> QED BY <2>1, <2>2, <2>4, <2>5, <2>6, <2>7, <2>8 DEF DoneSoFar, Storing
<1> QED BY <1>1, <1>2, <1>3, <1>4, <1>5, <1>6 DEF Persist

LEMMA DoneNext ==
    ASSUME TypeOK, Inv, Told, DoneSoFar, [Next]_vars
    PROVE  DoneSoFar'
<1>1. ASSUME NEW r \in Requests, Work(r) \/ Breaks(r)
      PROVE  DoneSoFar'
  <2>1. CASE SlotExtractionFails(r) \/ Breaks(r)
    <3>1. Raise(r) /\ pc[r] # "done"
      BY <2>1 DEF SlotExtractionFails, Breaks, GlossaryLoadFails, ClassificationFails,
                  VisionAnswerMalformed, DbFails
    <3>2. /\ \A q \in Requests : pc'[q] = pc[q] \/ (pc[q] # "done" /\ pc'[q] \in Broken)
          /\ UNCHANGED <<st, env, inquiry, metricRows, caseRow, replies>>
      BY <3>1 DEF Raise, TypeOK, Broken, dbVars, worldVars, fixedVars
    <3> QED BY <3>2, BreakDone
  <2>2. CASE Inside(r)
    <3>1. /\ pc[r] \in Before /\ pc'[r] \in Before \cup {"HandoffNotify"}
          /\ \A q \in Requests : q # r => pc'[q] = pc[q] /\ st'[q] = st[q]
          /\ UNCHANGED <<env, inquiry, metricRows, caseRow, replies>>
      BY <2>2, InsideStep
    <3>2. pc[r] \notin Storing /\ pc'[r] \notin Storing
      BY <3>1 DEF Before, Storing
    <3> QED BY <3>1, <3>2, OneDone DEF Storing
  <2> QED BY <1>1, <2>1, <2>2, StoreDone DEF Work, Inside, Answer
<1>2. ASSUME NEW r \in Requests, ProcessCase(r)
      PROVE  DoneSoFar'
  <2>1. /\ pc[r] = "waiting" /\ pc' = [pc EXCEPT ![r] = "NormalizeAndMask"]
        /\ UNCHANGED <<st, env, inquiry, metricRows, caseRow, replies>>
    BY <1>2 DEF ProcessCase, dbVars, worldVars
  <2> QED BY <2>1, MoveDone DEF Storing
<1>3. CASE Crash
  <2>1. /\ \A q \in Requests : pc'[q] = pc[q] \/ (pc[q] # "done" /\ pc'[q] \in Broken)
        /\ UNCHANGED <<st, env, inquiry, metricRows, caseRow, replies>>
    BY <1>3 DEF Crash, Active, Nodes, Inner, Broken, dbVars, worldVars, fixedVars
  <2> QED BY <2>1, BreakDone
<1>4. CASE UNCHANGED vars \/ \E call \in late : McpRunsLate(call) \/ McpDropsLate(call)
  <2>1. UNCHANGED <<pc, st, env, inquiry, metricRows, caseRow>> /\ replies \subseteq replies'
    BY <1>4 DEF vars, McpRunsLate, McpDropsLate, requestVars, dbVars, worldVars, fixedVars
  <2> QED BY <2>1, BreakDone
<1> QED BY <1>1, <1>2, <1>3, <1>4 DEF Next

\* Whoever is answered has its events, its case's row, its handoff or its reply in
\* place, through every interleaving, failure and crash of others.
THEOREM AnswersMeanDone == Spec => []AnswerMeansDone
<1>1. Trail /\ AlertInv /\ DoneSoFar => AnswerMeansDone
  BY DEF Trail, Stored, AlertInv, AlertAskedBeforeMark, DoneSoFar, AnswerMeansDone, Replied,
         CompletedRow, Storing
<1>2. Spec => []Told
  BY InitTold, NextTold, Invariance, PTL DEF Spec
<1> QED BY <1>1, <1>2, DoneInit, DoneNext, AlwaysTrail, AlertInvariance, Invariance, PTL DEF Spec

=============================================================================
