---------------------------- MODULE CaseTrailProofs ----------------------------
(***************************************************************************)
(* What a request leaves behind, proved: the reason of its verdict, the    *)
(* evidence of its photos, and the trail of its row.  Each is an inductive *)
(* invariant of its own on top of the one of CasePipelineProofs.           *)
(***************************************************************************)
EXTENDS CasePipelineProofs

-----------------------------------------------------------------------------
(* The invariant *)

\* The reasons that go with a verdict, and what each stands for.  A tool failure
\* is the only one a text can have while it is drafted, so that scoring it last
\* cannot make an earlier reason untrue.
ReasonKnown(place, s, q) ==
    /\ s.decision \in {"none", "AUTO_POST"} => s.reason = "none"
    /\ s.decision = "HANDOFF" => s.reason = "high_risk"
    /\ s.decision = "DRAFT" =>
         s.reason \in {"tool_failure", "grounding_low_score", "policy_restrict"}
    /\ s.reason = "tool_failure" => ~Answers(s)
    /\ s.reason = "grounding_low_score" => s.score < Threshold
    /\ s.reason = "policy_restrict" =>
         ~PolicyOf(q.kind).autoPost /\ Answers(s) /\ (Calibrated => s.score >= Threshold)
    /\ place \in Drafting => s.reason \in {"none", "tool_failure"}

\* A photo is evidence only on an answer, unless the threshold comes down to the
\* damage score of the stand-in.
VisionKnown(s) ==
    VisionThreshold > 50 /\ s.vision \in {"damage", "misdelivery"} => s.seen = "answer"

Explained == \A r \in Requests : ReasonKnown(pc[r], st[r], inquiry[r]) /\ VisionKnown(st[r])

DecisionEvent(s) == Metric("decision_made", s.decision, TRUE)
PostedEvent == Metric("post_reply_result", "", TRUE)

\* The events in the buffer of a request: its verdict from the decision on,
\* and a reply from the output on.
Buffered(place, s, events) ==
    /\ place \in {"OutputMask", "Output"} \cup Storing /\ s.decision # "HANDOFF"
         => DecisionEvent(s) \in events
    /\ place \in Storing /\ s.decision = "AUTO_POST" => PostedEvent \in events
    /\ \A m \in events : m.name = "post_reply_result" =>
         s.decision = "AUTO_POST" /\ place \in Storing \cup Broken

\* What is in the tables of what was in the buffer.
Stored(place, s, log, stored) ==
    /\ place \in {"InsertMetrics", "UpsertCase", "done"} => log
    /\ place \notin {"UpsertCase", "done"} \cup Broken => stored = {}
    /\ place \in {"UpsertCase", "done"} =>
         /\ s.decision # "HANDOFF" => DecisionEvent(s) \in stored
         /\ (\E m \in stored : m.name = "post_reply_result") <=> s.decision = "AUTO_POST"

Trail == \A r \in Requests :
            /\ Buffered(pc[r], st[r], metrics[r])
            /\ Stored(pc[r], st[r], r \in logged, metricRows[r])

\* The row of a case is that of a request of its which completed.
RowOfCompleted == \A c \in Cases : caseRow[c] # "none" =>
                    Case(caseRow[c]) = c /\ pc[caseRow[c]] = "done"

-----------------------------------------------------------------------------
(* Reasons and photos *)

\* A node that returns s keeps the reasons if s has one that is known.
LEMMA ReturnExplained ==
    ASSUME TypeOK, Explained, NEW r \in Requests, NEW s, NEW events, NEW next,
           Return(r, s, events, next), UNCHANGED inquiry,
           ReasonKnown(next, s, inquiry[r]), VisionKnown(s)
    PROVE  Explained'
<1>1. /\ \A q \in Requests : q # r => st'[q] = st[q] /\ pc'[q] = pc[q]
      /\ st'[r] = s /\ pc'[r] = next /\ inquiry' = inquiry
  BY DEF Return, TypeOK
<1> QED BY <1>1 DEF Explained

\* So does a step that leaves the states alone and drafts nothing.
LEMMA PlacesExplained ==
    ASSUME TypeOK, Explained, UNCHANGED <<st, inquiry>>,
           \A r \in Requests : pc'[r] = pc[r] \/ pc'[r] \notin Drafting
    PROVE  Explained'
BY DEF Explained, ReasonKnown, VisionKnown

\* A state that keeps its verdict, reason, score, tool calls and photos keeps what
\* is known of them, at any place where nothing is drafted that was not before.
LEMMA SameReason ==
    ASSUME NEW place, NEW next, NEW s, NEW t, NEW q,
           ReasonKnown(place, s, q), VisionKnown(s),
           t.decision = s.decision, t.reason = s.reason, t.score = s.score, t.trace = s.trace,
           t.vision = s.vision, t.seen = s.seen,
           next \in Drafting => place \in Drafting
    PROVE  ReasonKnown(next, t, q) /\ VisionKnown(t)
BY DEF ReasonKnown, VisionKnown, Answers

LEMMA InitExplained == Init => Explained
<1> SUFFICES ASSUME Init, NEW r \in Requests
             PROVE  ReasonKnown(pc[r], st[r], inquiry[r]) /\ VisionKnown(st[r])
  BY DEF Explained
<1>1. pc[r] = "waiting" /\ st[r] = EmptyState
  BY DEF Init
<1> QED BY <1>1 DEF ReasonKnown, VisionKnown, EmptyState, Drafting

LEMMA RouteExplained ==
    ASSUME TypeOK, Inv, Explained, NEW r \in Requests,
           NormalizeAndMask(r) \/ TermExtract(r) \/ ClassifyRiskRoute(r)
    PROVE  Explained'
<1>0. /\ st[r] \in AgentState
      /\ ReasonKnown(pc[r], st[r], inquiry[r]) /\ VisionKnown(st[r])
  BY Start DEF Explained
<1>1. CASE NormalizeAndMask(r)
  <2> DEFINE s == [st[r] EXCEPT !.masked = MaskPii({inquiry[r].title} \cup inquiry[r].body)]
  <2>1. ReasonKnown("TermExtract", s, inquiry[r]) /\ VisionKnown(s)
    BY <1>0, SameReason DEF AgentState, Drafting
  <2> QED BY <1>1, <2>1, ReturnExplained DEF NormalizeAndMask, OwnStateOnly, fixedVars
<1>2. CASE TermExtract(r)
  <2>1. PICK found : Return(r, [st[r] EXCEPT !.terms = found],
                            {Metric("glossary_extract", "", TRUE)}, "ClassifyRiskRoute")
    BY <1>2 DEF TermExtract
  <2> DEFINE s == [st[r] EXCEPT !.terms = found]
  <2>2. ReasonKnown("ClassifyRiskRoute", s, inquiry[r]) /\ VisionKnown(s)
    BY <1>0, SameReason DEF AgentState, Drafting
  <2> QED BY <1>2, <2>1, <2>2, ReturnExplained DEF TermExtract, fixedVars
<1>3. CASE ClassifyRiskRoute(r)
  <2>1. PICK judged \in Judgements(st[r].masked) :
          IF IsHandoff(st[r].masked, judged)
          THEN Return(r, [st[r] EXCEPT !.labels = judged.labels, !.decision = "HANDOFF",
                                       !.reason = "high_risk"], Classified, "HandoffNotify")
          ELSE Return(r, [st[r] EXCEPT !.labels = judged.labels], Classified, "PreVisionNeedGate")
    BY <1>3 DEF ClassifyRiskRoute
  <2>2. CASE IsHandoff(st[r].masked, judged)
    <3> DEFINE s == [st[r] EXCEPT !.labels = judged.labels, !.decision = "HANDOFF",
                                  !.reason = "high_risk"]
    <3>1. ReasonKnown("HandoffNotify", s, inquiry[r]) /\ VisionKnown(s)
      BY <1>0 DEF ReasonKnown, VisionKnown, AgentState, Drafting
    <3> QED BY <1>3, <2>1, <2>2, <3>1, ReturnExplained
            DEF ClassifyRiskRoute, OwnStateOnly, fixedVars
  <2>3. CASE ~IsHandoff(st[r].masked, judged)
    <3> DEFINE s == [st[r] EXCEPT !.labels = judged.labels]
    <3>1. ReasonKnown("PreVisionNeedGate", s, inquiry[r]) /\ VisionKnown(s)
      BY <1>0, SameReason DEF AgentState, Drafting
    <3> QED BY <1>3, <2>1, <2>3, <3>1, ReturnExplained
            DEF ClassifyRiskRoute, OwnStateOnly, fixedVars
  <2> QED BY <2>2, <2>3
<1> QED BY <1>1, <1>2, <1>3

\* A photo is judged on its answer; the stand-in is unclear above its own score.
LEMMA StandInIsUnclear == VisionThreshold > 50 => Triage(VisionFallback) = "unknown"
BY ConfigAssumption DEF Triage, TopScore, VisionFallback

LEMMA PlanExplained ==
    ASSUME TypeOK, Inv, Explained, NEW r \in Requests, Plan(r)
    PROVE  Explained'
<1>0. /\ st[r] \in AgentState
      /\ ReasonKnown(pc[r], st[r], inquiry[r]) /\ VisionKnown(st[r])
      /\ Local(pc[r], st[r], inquiry[r])
  BY Start DEF Explained
<1>1. CASE PreVisionNeedGate(r)
  <2> DEFINE need == inquiry[r].files /\ st[r].labels \cap EnabledIntents # {}
             s == [st[r] EXCEPT !.need = need]
  <2> HIDE DEF need
  <2>1. ReasonKnown("PreVision", s, inquiry[r]) /\ VisionKnown(s)
    BY <1>0, SameReason DEF AgentState, Drafting
  <2>2. Return(r, s, {}, "PreVision")
    BY <1>1 DEF PreVisionNeedGate, need
  <2> QED BY <1>1, <2>1, <2>2, ReturnExplained DEF PreVisionNeedGate, OwnStateOnly, fixedVars
<1>2. CASE PreVisionSkipped(r)
  <2> DEFINE s == [st[r] EXCEPT !.vision = "skipped"]
  <2>1. ReasonKnown("PolicyLoader", s, inquiry[r]) /\ VisionKnown(s)
    BY <1>0 DEF ReasonKnown, VisionKnown, AgentState, Drafting, Answers
  <2> QED BY <1>2, <2>1, ReturnExplained DEF PreVisionSkipped, OwnStateOnly, fixedVars
<1>3. CASE PreVision(r)
  <2>1. PICK a, by : /\ Return(r, [st[r] EXCEPT !.vision = Triage(a), !.seen = by], {}, "PolicyLoader")
                     /\ by = "answer" \/ a = VisionFallback
    BY <1>3 DEF PreVision
  <2> DEFINE s == [st[r] EXCEPT !.vision = Triage(a), !.seen = by]
  <2>2. ReasonKnown("PolicyLoader", s, inquiry[r])
    BY <1>0 DEF ReasonKnown, AgentState, Drafting, Answers
  <2>3. VisionKnown(s)
    BY <1>0, <2>1, StandInIsUnclear DEF VisionKnown, AgentState
  <2> QED BY <1>3, <2>1, <2>2, <2>3, ReturnExplained DEF PreVision, OwnStateOnly, fixedVars
<1>4. CASE PolicyLoader(r)
  <2> DEFINE s == [st[r] EXCEPT !.autoPost = PolicyOf(inquiry[r].kind).autoPost]
  <2>1. ReasonKnown("PlanBuilder", s, inquiry[r]) /\ VisionKnown(s)
    BY <1>0, SameReason DEF AgentState, Drafting
  <2> QED BY <1>4, <2>1, ReturnExplained DEF PolicyLoader, OwnStateOnly, fixedVars
<1>5. CASE PlanBuilder(r)
  <2> DEFINE s == [st[r] EXCEPT !.mode = PolicyOf(inquiry[r].kind).mode]
  <2>1. ReasonKnown("PlanEngine", s, inquiry[r]) /\ VisionKnown(s)
    BY <1>0, SameReason DEF AgentState, Drafting
  <2> QED BY <1>5, <2>1, ReturnExplained DEF PlanBuilder, OwnStateOnly, fixedVars
<1>6. CASE PlanEngine(r)
  <2> DEFINE ran == ToolsRun(st[r].mode)
             failed(o) == {t \in ran : ReportsFailure(t, o[t])}
             spent == Len(StepsOf(st[r].mode)) > MaxTools
             traced(o) == [st[r] EXCEPT !.trace = {Call(t, o[t]) : t \in ran}]
             drafted(o) == [traced(o) EXCEPT !.decision = "DRAFT",
                              !.reason = IF spent THEN "budget_exceeded" ELSE "tool_failure"]
             events(o) == {Metric("tool_call", t, t \notin failed(o)) : t \in ran}
  <2>1. PICK o \in [ran -> {"answer", "error", "fallback"}] :
          Return(r, IF failed(o) = {} /\ ~spent THEN traced(o) ELSE drafted(o), events(o),
                 "ResponseModeGate")
    BY <1>6 DEF PlanEngine
  <2>2. ~spent
    BY DEF StepsOf, MaxTools
  <2>3. st[r].decision = "none" /\ st[r].reason = "none"
    BY <1>0, <1>6 DEF PlanEngine, Local, VerdictKnown, ReasonKnown, Planning
  <2>4. CASE failed(o) = {}
    <3>1. ReasonKnown("ResponseModeGate", traced(o), inquiry[r]) /\ VisionKnown(traced(o))
      BY <1>0, <2>3 DEF ReasonKnown, VisionKnown, AgentState
    <3> QED BY <1>6, <2>1, <2>2, <2>4, <3>1, ReturnExplained DEF PlanEngine, OwnStateOnly, fixedVars
  <2>5. CASE failed(o) # {}
    <3>1. o["rag_search"] # "answer"
      BY <2>5 DEF ReportsFailure
    <3>2. ~Answers(drafted(o))
      BY <1>0, <3>1 DEF Answers, Call, AgentState
    <3>3. /\ drafted(o).decision = "DRAFT" /\ drafted(o).reason = "tool_failure"
          /\ drafted(o).vision = st[r].vision /\ drafted(o).seen = st[r].seen
      BY <1>0, <2>2 DEF AgentState
    <3>4. ReasonKnown("ResponseModeGate", drafted(o), inquiry[r]) /\ VisionKnown(drafted(o))
      BY <1>0, <3>2, <3>3 DEF ReasonKnown, VisionKnown
    <3> QED BY <1>6, <2>1, <2>5, <3>4, ReturnExplained DEF PlanEngine, OwnStateOnly, fixedVars
  <2> QED BY <2>4, <2>5
<1> QED BY <1>1, <1>2, <1>3, <1>4, <1>5, <1>6 DEF Plan

\* Only a text that is drafted, and one that is scored, changes what is known.
LEMMA DraftExplained ==
    ASSUME TypeOK, Inv, Explained, NEW r \in Requests, Draft(r)
    PROVE  Explained'
<1>0. /\ st[r] \in AgentState
      /\ ReasonKnown(pc[r], st[r], inquiry[r]) /\ VisionKnown(st[r])
      /\ Local(pc[r], st[r], inquiry[r])
  BY Start DEF Explained
<1>1. CASE ResponseModeGate(r)
  <2>1. \A next \in Drafting : ReasonKnown(next, st[r], inquiry[r]) /\ VisionKnown(st[r])
    BY <1>0, <1>1, SameReason DEF ResponseModeGate, Drafting
  <2> QED BY <1>1, <2>1, ReturnExplained DEF ResponseModeGate, OwnStateOnly, fixedVars, Drafting
<1>2. ASSUME pc[r] \in Drafting, OwnStateOnly, NEW text, NEW events, NEW next,
             \/ Return(r, [st[r] EXCEPT !.text = text], events, next)
             \/ Return(r, [st[r] EXCEPT !.cited = TRUE, !.text = text], events, next)
      PROVE  Explained'
  <2>1. PICK s : /\ Return(r, s, events, next)
                 /\ \/ s = [st[r] EXCEPT !.text = text]
                    \/ s = [st[r] EXCEPT !.cited = TRUE, !.text = text]
    BY <1>2
  <2>2. /\ s.decision = st[r].decision /\ s.reason = st[r].reason /\ s.score = st[r].score
        /\ s.trace = st[r].trace /\ s.vision = st[r].vision /\ s.seen = st[r].seen
    BY <1>0, <2>1 DEF AgentState
  <2>3. ReasonKnown(next, s, inquiry[r]) /\ VisionKnown(s)
    BY <1>0, <1>2, <2>2, SameReason
  <2> QED BY <1>2, <2>1, <2>3, ReturnExplained DEF OwnStateOnly, fixedVars
<1>3. CASE ScenarioSubgraph(r)
  BY <1>2, <1>3 DEF ScenarioSubgraph, Drafting
<1>4. CASE AgentGenerateSubgraph(r)
  <2>1. \E text : Return(r, [st[r] EXCEPT !.cited = TRUE, !.text = text], {}, "ValidatePII")
    BY <1>4 DEF AgentGenerateSubgraph
  <2> QED BY <1>2, <1>4, <2>1 DEF AgentGenerateSubgraph, Drafting
<1>5. CASE ValidatePII(r)
  BY <1>2, <1>5 DEF ValidatePII, Drafting
<1>6. CASE ValidatePolicy(r)
  BY <1>2, <1>6 DEF ValidatePolicy, Drafting
<1>7. CASE ValidateGrounding(r)
  <2> DEFINE score(m) == Score(st[r].text, inquiry[r].title, st[r].cited, m)
             scored(m) == [st[r] EXCEPT !.score = score(m),
                             !.retry = IF Rewrites(score(m), @) THEN @ + 1 ELSE @,
                             !.text = IF Rewrites(score(m), st[r].retry)
                                      THEN @ \cup {Plain("note")} ELSE @]
             drafted(m) == [scored(m) EXCEPT !.decision = "DRAFT", !.reason = "grounding_low_score"]
             passed(m) == Passes(score(m), st[r].retry)
  <2>1. PICK m \in 0..Cardinality(st[r].terms) :
          Return(r, IF passed(m) THEN scored(m) ELSE drafted(m),
                 {Metric("validator_result", "GROUNDING", passed(m))}, "Decision")
    BY <1>7 DEF ValidateGrounding
  <2>2. score(m) \in Int /\ st[r].reason \in {"none", "tool_failure"}
    <3>1. m \in Nat /\ st[r].cited \in BOOLEAN
      BY <1>0, <2>1 DEF AgentState
    <3> QED BY <1>0, <1>7, <3>1, ScoreBound DEF ValidateGrounding, ReasonKnown, Drafting
  <2> DEFINE t == scored(m)
             d == drafted(m)
  <2>3. /\ t.decision = st[r].decision /\ t.reason = st[r].reason /\ t.trace = st[r].trace
        /\ t.vision = st[r].vision /\ t.seen = st[r].seen
        /\ d.decision = "DRAFT" /\ d.reason = "grounding_low_score" /\ d.score = score(m)
        /\ d.vision = st[r].vision /\ d.seen = st[r].seen
    BY <1>0 DEF AgentState
  <2>4. ~passed(m) => score(m) < Threshold
    BY <2>2, ConfigAssumption DEF Passes
  <2>5. Return(r, IF passed(m) THEN t ELSE d,
               {Metric("validator_result", "GROUNDING", passed(m))}, "Decision")
    BY <2>1
  <2> HIDE DEF t, d, score, passed
  <2>6. ReasonKnown("Decision", t, inquiry[r]) /\ VisionKnown(t)
    BY <1>0, <2>2, <2>3 DEF ReasonKnown, VisionKnown, Drafting, Answers
  <2>7. ~passed(m) => ReasonKnown("Decision", d, inquiry[r]) /\ VisionKnown(d)
    BY <1>0, <2>3, <2>4 DEF ReasonKnown, VisionKnown, Drafting
  <2> QED BY <1>7, <2>5, <2>6, <2>7, ReturnExplained DEF ValidateGrounding, OwnStateOnly, fixedVars
<1> QED BY <1>1, <1>3, <1>4, <1>5, <1>6, <1>7 DEF Draft

LEMMA AnswerExplained ==
    ASSUME TypeOK, Inv, Explained, NEW r \in Requests, Answer(r)
    PROVE  Explained'
<1>0. /\ st[r] \in AgentState
      /\ ReasonKnown(pc[r], st[r], inquiry[r]) /\ VisionKnown(st[r])
      /\ Local(pc[r], st[r], inquiry[r])
  BY Start DEF Explained
<1>1. CASE DecisionNode(r)
  <2> DEFINE s == Decide(st[r])
  <2>1. CASE st[r].decision # "none"
    <3>1. s = st[r]
      BY <1>0, <1>1, <2>1 DEF Decide, DecisionNode, Local, VerdictKnown
    <3>2. ReasonKnown("OutputMask", s, inquiry[r]) /\ VisionKnown(s)
      BY <1>0, <3>1, SameReason DEF Drafting
    <3> QED BY <1>1, <3>2, ReturnExplained DEF DecisionNode, OwnStateOnly, fixedVars
  <2>2. CASE st[r].decision = "none"
    <3>1. /\ s.vision = st[r].vision /\ s.seen = st[r].seen /\ s.score = st[r].score
          /\ s.trace = st[r].trace
          /\ s.decision = IF st[r].autoPost THEN "AUTO_POST" ELSE "DRAFT"
          /\ s.reason = IF st[r].autoPost THEN st[r].reason ELSE "policy_restrict"
      BY <1>0, <2>2 DEF Decide, AgentState
    <3>2. /\ Answers(st[r]) /\ st[r].autoPost = PolicyOf(inquiry[r].kind).autoPost
          /\ st[r].reason = "none"
      BY <1>0, <1>1, <2>2 DEF DecisionNode, Local, DraftSound, PolicyKnown, ReasonKnown
    <3>3. Calibrated => st[r].score >= Threshold
      BY <1>0, <1>1, <2>2 DEF DecisionNode, Local, DraftSound
    <3> HIDE DEF s
    <3>4. ReasonKnown("OutputMask", s, inquiry[r]) /\ VisionKnown(s)
      BY <1>0, <3>1, <3>2, <3>3 DEF ReasonKnown, VisionKnown, Answers, Drafting
    <3> QED BY <1>1, <3>4, ReturnExplained DEF DecisionNode, OwnStateOnly, fixedVars, s
  <2> QED BY <2>1, <2>2
<1>2. CASE OutputMask(r)
  <2> DEFINE s == [st[r] EXCEPT !.text = MaskPii(@)]
  <2>1. ReasonKnown("Output", s, inquiry[r]) /\ VisionKnown(s)
    BY <1>0, SameReason DEF AgentState, Drafting
  <2> QED BY <1>2, <2>1, ReturnExplained DEF OutputMask, OwnStateOnly, fixedVars
<1>3. CASE OutputNothing(r) \/ Output(r)
  <2>1. ReasonKnown("TelemetryLogger", st[r], inquiry[r]) /\ VisionKnown(st[r])
    BY <1>0, SameReason DEF Drafting
  <2> QED BY <1>3, <2>1, ReturnExplained DEF OutputNothing, Output, OwnStateOnly, fixedVars
<1> QED BY <1>1, <1>2, <1>3 DEF Answer

LEMMA OtherExplained ==
    ASSUME TypeOK, Inv, Explained,
           \/ \E r \in Requests : ProcessCase(r) \/ Handoff(r) \/ Persist(r) \/ Raise(r)
           \/ \E call \in late : McpRunsLate(call) \/ McpDropsLate(call)
           \/ Crash
    PROVE  Explained'
<1>1. ASSUME NEW r \in Requests, HandoffSkipped(r) \/ HandoffMark(r) \/ UpsertCase(r)
      PROVE  Explained'
  <2>1. PICK next \in {"TelemetryLogger", "done"} : Return(r, st[r], {}, next)
    BY <1>1 DEF HandoffSkipped, HandoffMark, UpsertCase
  <2>2. ReasonKnown(next, st[r], inquiry[r]) /\ VisionKnown(st[r])
    BY SameReason DEF Explained, Drafting
  <2> QED BY <1>1, <2>1, <2>2, ReturnExplained
          DEF HandoffSkipped, HandoffMark, UpsertCase, OwnStateOnly, fixedVars
<1>2. ASSUME NEW r \in Requests,
             ProcessCase(r) \/ HandoffCheck(r) \/ HandoffCall(r) \/ LogEvent(r)
               \/ InsertMetrics(r) \/ Raise(r)
      PROVE  Explained'
  <2>1. PICK next \in {"NormalizeAndMask", "HandoffCall", "HandoffMark", "InsertMetrics",
                       "UpsertCase", "failed"} : pc' = [pc EXCEPT ![r] = next]
    BY <1>2 DEF ProcessCase, HandoffCheck, HandoffCall, LogEvent, InsertMetrics, Raise
  <2>2. \A q \in Requests : pc'[q] = pc[q] \/ pc'[q] \notin Drafting
    BY <2>1 DEF TypeOK, Drafting
  <2>3. UNCHANGED <<st, inquiry>>
    BY <1>2 DEF ProcessCase, HandoffCheck, HandoffCall, LogEvent, InsertMetrics, Raise,
                OwnStateOnly, fixedVars
  <2> QED BY <2>2, <2>3, PlacesExplained
<1>3. ASSUME NEW call \in late, McpRunsLate(call) \/ McpDropsLate(call)
      PROVE  Explained'
  BY <1>3, PlacesExplained DEF McpRunsLate, McpDropsLate, requestVars, fixedVars
<1>4. CASE Crash
  <2>1. \A q \in Requests : pc'[q] = pc[q] \/ pc'[q] \notin Drafting
    BY <1>4 DEF Crash, Drafting
  <2> QED BY <1>4, <2>1, PlacesExplained DEF Crash, fixedVars
<1> QED BY <1>1, <1>2, <1>3, <1>4 DEF Handoff, Persist

\* What breaks a request off is one event.
LEMMA BreaksRaise ==
    ASSUME NEW r \in Requests, SlotExtractionFails(r) \/ Breaks(r)
    PROVE  Raise(r)
BY DEF SlotExtractionFails, Breaks, GlossaryLoadFails, ClassificationFails,
       VisionAnswerMalformed, DbFails

LEMMA NextExplained == TypeOK /\ Inv /\ Explained /\ [Next]_vars => Explained'
<1> SUFFICES ASSUME TypeOK, Inv, Explained, [Next]_vars PROVE Explained'
  OBVIOUS
<1>1. CASE Next
  BY <1>1, BreaksRaise, RouteExplained, PlanExplained, DraftExplained, AnswerExplained,
     OtherExplained DEF Next, Work
<1>2. CASE UNCHANGED vars
  BY <1>2 DEF Explained, vars, requestVars, fixedVars
<1> QED BY <1>1, <1>2

THEOREM AlwaysExplained == Spec => []Explained
<1>1. Init => Explained
  BY InitExplained
<1> QED BY <1>1, NextExplained, Invariance, PTL DEF Spec

\* The reason given for a verdict is the reason there is, whatever fails, where
\* the last rewrite allowed is not the first.
THEOREM ReasonsAreTruthful == Spec => [](Calibrated => ReasonIsTruthful)
<1>1. TypeOK /\ Inv /\ Explained => (Calibrated => ReasonIsTruthful)
  <2> SUFFICES ASSUME TypeOK, Inv, Explained, Calibrated, NEW r \in Requests
               PROVE  LET s == st[r]
                          answered == Call("rag_search", "answer") \in s.trace
                      IN  CASE s.reason = "high_risk" -> s.decision = "HANDOFF"
                            [] s.reason = "tool_failure" -> s.decision = "DRAFT" /\ ~answered
                            [] s.reason = "grounding_low_score" ->
                                 s.decision = "DRAFT" /\ s.score < Threshold
                            [] s.reason = "policy_restrict" ->
                                 /\ s.decision = "DRAFT" /\ answered /\ s.score >= Threshold
                                 /\ ~PolicyOf(inquiry[r].kind).autoPost
                            [] OTHER -> s.decision \in {"none", "AUTO_POST"}
    BY DEF ReasonIsTruthful
  <2>1. ReasonKnown(pc[r], st[r], inquiry[r]) /\ st[r].decision \in Verdicts
    BY DEF Explained, TypeOK, AgentState
  <2> QED BY <2>1 DEF ReasonKnown, Answers, Verdicts
<1> QED BY <1>1, AlwaysExplained, Invariance, PTL

\* A photo is evidence only on an answer of the vision model, as long as the
\* threshold is above the damage score of the MCP client's stand-in.
THEOREM PhotosAreEvidence == Spec => [](VisionThreshold > 50 => VisionEvidence)
<1>1. Explained => (VisionThreshold > 50 => VisionEvidence)
  BY DEF Explained, VisionKnown, VisionEvidence
<1> QED BY <1>1, AlwaysExplained, PTL

-----------------------------------------------------------------------------
(* The trail of a row *)

Early == Routing \cup Planning \cup Drafting \cup Alerting \cup {"Decision"}

\* Events that tell neither of a reply nor of a node run.
Quiet(events) == \A m \in events : m.name \notin {"post_reply_result", "node_execution"}

LEMMA MetricName == \A name, tag, ok : Metric(name, tag, ok).name = name
BY DEF Metric

\* A step of one request keeps the trail if it keeps that request's.
LEMMA OneTrail ==
    ASSUME TypeOK, Trail, NEW r \in Requests, NEW s, NEW place, NEW events, NEW stored,
           pc' = [pc EXCEPT ![r] = place], st' = [st EXCEPT ![r] = s],
           metrics' = [metrics EXCEPT ![r] = events],
           metricRows' = [metricRows EXCEPT ![r] = stored],
           \A q \in Requests \ {r} : q \in logged' <=> q \in logged,
           Buffered(place, s, events), Stored(place, s, r \in logged', stored)
    PROVE  Trail'
<1>1. ASSUME NEW q \in Requests
      PROVE  /\ Buffered(pc'[q], st'[q], metrics'[q])
             /\ Stored(pc'[q], st'[q], q \in logged', metricRows'[q])
  <2>1. CASE q = r
    BY <2>1 DEF TypeOK
  <2>2. CASE q # r
    <3>1. /\ pc'[q] = pc[q] /\ st'[q] = st[q] /\ metrics'[q] = metrics[q]
          /\ metricRows'[q] = metricRows[q]
      BY <2>2 DEF TypeOK
    <3>2. Buffered(pc[q], st[q], metrics[q]) /\ Stored(pc[q], st[q], q \in logged, metricRows[q])
      BY DEF Trail
    <3>3. q \in logged' <=> q \in logged
      BY <2>2
    <3> QED BY <3>1, <3>2, <3>3 DEF Stored
  <2> QED BY <2>1, <2>2
<1> QED BY <1>1 DEF Trail

\* Nothing of a request is stored, and nothing said of a reply, before the
\* decision; a node returns quiet events.
LEMMA EarlyTrail ==
    ASSUME TypeOK, Trail, NEW r \in Requests, NEW s, NEW events, NEW next,
           Return(r, s, events, next), Quiet(events), UNCHANGED <<logged, metricRows>>,
           pc[r] \in Early, next \in Early \cup {"TelemetryLogger"},
           next = "TelemetryLogger" => s.decision = "HANDOFF"
    PROVE  Trail'
<1> DEFINE ran == Metric("node_execution", NodeOf(pc[r]), TRUE)
           emitted == metrics[r] \cup events \cup {ran}
<1>1. ran.name = "node_execution"
  BY MetricName
<1> HIDE DEF ran
<1>2. Buffered(pc[r], st[r], metrics[r]) /\ Stored(pc[r], st[r], r \in logged, metricRows[r])
  BY DEF Trail
<1> USE DEF Early, Routing, Planning, Drafting, Alerting, Storing, Broken
<1>3. \A m \in emitted : m.name # "post_reply_result"
  BY <1>1, <1>2 DEF Buffered, Quiet
<1>4. Buffered(next, s, emitted)
  BY <1>3 DEF Buffered
<1>5. metricRows[r] = {}
  BY <1>2 DEF Stored
<1>6. Stored(next, s, r \in logged, {})
  BY DEF Stored
<1>7. metrics' = [metrics EXCEPT ![r] = emitted]
  BY DEF Return, ran
<1>8. metricRows' = [metricRows EXCEPT ![r] = {}]
  BY <1>5 DEF TypeOK
<1> QED BY <1>4, <1>6, <1>7, <1>8, OneTrail DEF Return

\* The nodes of which that is all there is to say.
LEMMA EarlyNodesTrail ==
    ASSUME TypeOK, Inv, Trail, NEW r \in Requests,
           \/ NormalizeAndMask(r) \/ TermExtract(r) \/ ClassifyRiskRoute(r)
           \/ Plan(r) \/ Draft(r) \/ HandoffSkipped(r) \/ HandoffMark(r)
    PROVE  Trail'
<1> USE DEF Early, Routing, Planning, Drafting, Alerting
<1>1. Quiet({}) /\ \A name, tag, ok : name \notin {"post_reply_result", "node_execution"}
                                       => Quiet({Metric(name, tag, ok)})
  BY MetricName DEF Quiet
<1>2. ASSUME NEW s, NEW events, NEW next, Return(r, s, events, next), Quiet(events), pc[r] \in Early,
             UNCHANGED <<logged, metricRows>>, next \in Early
      PROVE  Trail'
  BY <1>2, EarlyTrail
<1>3. CASE NormalizeAndMask(r)
  <2>1. PICK s : Return(r, s, {Metric("case_received", "", TRUE)}, "TermExtract")
    BY <1>3 DEF NormalizeAndMask
  <2> QED BY <1>1, <1>2, <1>3, <2>1 DEF NormalizeAndMask, OwnStateOnly, dbVars
<1>4. CASE TermExtract(r)
  <2>1. PICK s : Return(r, s, {Metric("glossary_extract", "", TRUE)}, "ClassifyRiskRoute")
    BY <1>4 DEF TermExtract
  <2> QED BY <1>1, <1>2, <1>4, <2>1 DEF TermExtract, dbVars
<1>5. CASE ClassifyRiskRoute(r)
  <2>1. Quiet(Classified)
    BY <1>1 DEF Quiet, Classified
  <2>2. PICK s, next : /\ Return(r, s, Classified, next)
                       /\ next \in {"HandoffNotify", "PreVisionNeedGate"}
    BY <1>5 DEF ClassifyRiskRoute
  <2> QED BY <1>2, <1>5, <2>1, <2>2 DEF ClassifyRiskRoute, OwnStateOnly, dbVars
<1>6. CASE Plan(r)
  <2>1. CASE PreVisionNeedGate(r) \/ PreVisionSkipped(r) \/ PreVision(r) \/ PolicyLoader(r)
    <3>1. PICK s, next : Return(r, s, {}, next) /\ next \in {"PreVision", "PolicyLoader", "PlanBuilder"}
      BY <2>1 DEF PreVisionNeedGate, PreVisionSkipped, PreVision, PolicyLoader
    <3> QED BY <1>1, <1>2, <2>1, <3>1
            DEF PreVisionNeedGate, PreVisionSkipped, PreVision, PolicyLoader, OwnStateOnly, dbVars
  <2>2. CASE PlanBuilder(r)
    <3>1. PICK s : Return(r, s, {Metric("rag_query_expansion", "", TRUE)}, "PlanEngine")
      BY <2>2 DEF PlanBuilder
    <3> QED BY <1>1, <1>2, <2>2, <3>1 DEF PlanBuilder, OwnStateOnly, dbVars
  <2>3. CASE PlanEngine(r)
    <3> DEFINE ran == ToolsRun(st[r].mode)
               failed(o) == {t \in ran : ReportsFailure(t, o[t])}
               events(o) == {Metric("tool_call", t, t \notin failed(o)) : t \in ran}
    <3>1. PICK o, s : Return(r, s, events(o), "ResponseModeGate")
      BY <2>3 DEF PlanEngine
    <3>2. Quiet(events(o))
      BY MetricName DEF Quiet
    <3> HIDE DEF events
    <3> QED BY <1>2, <2>3, <3>1, <3>2 DEF PlanEngine, OwnStateOnly, dbVars
  <2> QED BY <1>6, <2>1, <2>2, <2>3 DEF Plan
<1>7. CASE Draft(r)
  <2>1. CASE ResponseModeGate(r) \/ ScenarioSubgraph(r) \/ AgentGenerateSubgraph(r)
    <3>1. PICK s, next : /\ Return(r, s, {}, next)
                         /\ next \in {"ScenarioSubgraph", "AgentGenerateSubgraph", "ValidatePII"}
      BY <2>1 DEF ResponseModeGate, ScenarioSubgraph, AgentGenerateSubgraph
    <3> QED BY <1>1, <1>2, <2>1, <3>1
            DEF ResponseModeGate, ScenarioSubgraph, AgentGenerateSubgraph, OwnStateOnly, dbVars
  <2>2. CASE ValidatePII(r) \/ ValidatePolicy(r) \/ ValidateGrounding(r)
    <3>1. PICK s, of, ok, next : /\ Return(r, s, {Metric("validator_result", of, ok)}, next)
                                 /\ next \in {"ValidatePolicy", "ValidateGrounding", "Decision"}
      <4>1. CASE ValidatePII(r)
        BY <4>1 DEF ValidatePII
      <4>2. CASE ValidatePolicy(r)
        BY <4>2 DEF ValidatePolicy
      <4>3. CASE ValidateGrounding(r)
        <5>1. \E s, ok : Return(r, s, {Metric("validator_result", "GROUNDING", ok)}, "Decision")
          BY <4>3 DEF ValidateGrounding
        <5> QED BY <5>1
      <4> QED BY <2>2, <4>1, <4>2, <4>3
    <3> QED BY <1>1, <1>2, <2>2, <3>1
            DEF ValidatePII, ValidatePolicy, ValidateGrounding, OwnStateOnly, dbVars
  <2> QED BY <1>7, <2>1, <2>2 DEF Draft
<1>8. CASE HandoffSkipped(r) \/ HandoffMark(r)
  <2>1. /\ pc[r] \in Alerting /\ Return(r, st[r], {}, "TelemetryLogger")
        /\ UNCHANGED <<logged, metricRows>>
    BY <1>8 DEF HandoffSkipped, HandoffMark, OwnStateOnly, dbVars
  <2>2. st[r].decision = "HANDOFF"
    BY <2>1, Start DEF Local, VerdictKnown
  <2> QED BY <1>1, <2>1, <2>2, EarlyTrail
<1> QED BY <1>3, <1>4, <1>5, <1>6, <1>7, <1>8

\* From the decision to the output, a node returns a state with its verdict.
LEMMA AnswerTrail ==
    ASSUME TypeOK, Inv, Trail, NEW r \in Requests, Answer(r)
    PROVE  Trail'
<1> DEFINE ran == Metric("node_execution", NodeOf(pc[r]), TRUE)
<1>0. ran.name = "node_execution"
  BY MetricName
<1> HIDE DEF ran
<1>1. /\ st[r] \in AgentState /\ Local(pc[r], st[r], inquiry[r])
      /\ Buffered(pc[r], st[r], metrics[r]) /\ Stored(pc[r], st[r], r \in logged, metricRows[r])
  BY Start DEF Trail
<1> USE DEF Storing, Broken
<1>2. pc[r] \in {"Decision", "OutputMask", "Output"} /\ UNCHANGED <<logged, metricRows>>
  BY DEF Answer, DecisionNode, OutputMask, OutputNothing, Output, OwnStateOnly, dbVars
<1>3. /\ metricRows[r] = {}
      /\ \A m \in metrics[r] : m.name # "post_reply_result"
  BY <1>1, <1>2 DEF Buffered, Stored
<1>4. ASSUME NEW s, NEW events, NEW next \in {"OutputMask", "Output", "TelemetryLogger"},
             Return(r, s, events, next), Buffered(next, s, metrics[r] \cup events \cup {ran})
      PROVE  Trail'
  <2>1. Stored(next, s, r \in logged, {})
    BY DEF Stored
  <2>2. metrics' = [metrics EXCEPT ![r] = metrics[r] \cup events \cup {ran}]
    BY <1>4 DEF Return, ran
  <2>3. metricRows' = [metricRows EXCEPT ![r] = {}]
    BY <1>2, <1>3 DEF TypeOK
  <2> QED BY <1>2, <1>4, <2>1, <2>2, <2>3, OneTrail DEF Return
<1>5. CASE DecisionNode(r)
  <2> DEFINE s == Decide(st[r])
  <2>1. Return(r, s, {DecisionEvent(s)}, "OutputMask")
    BY <1>5 DEF DecisionNode, DecisionEvent
  <2>2. DecisionEvent(s).name = "decision_made"
    BY MetricName DEF DecisionEvent
  <2> HIDE DEF s
  <2>3. Buffered("OutputMask", s, metrics[r] \cup {DecisionEvent(s)} \cup {ran})
    BY <1>0, <1>3, <2>2 DEF Buffered
  <2> QED BY <1>4, <2>1, <2>3
<1>6. CASE OutputMask(r)
  <2> DEFINE s == [st[r] EXCEPT !.text = MaskPii(@)]
  <2>1. s.decision = st[r].decision
    BY <1>1 DEF AgentState
  <2>2. Return(r, s, {}, "Output")
    BY <1>6 DEF OutputMask
  <2> HIDE DEF s
  <2>3. Buffered("Output", s, metrics[r] \cup {} \cup {ran})
    BY <1>0, <1>1, <1>3, <1>6, <2>1 DEF Buffered, OutputMask, DecisionEvent
  <2> QED BY <1>4, <2>2, <2>3
<1>7. CASE OutputNothing(r)
  <2>1. Buffered("TelemetryLogger", st[r], metrics[r] \cup {} \cup {ran})
    BY <1>0, <1>1, <1>3, <1>7 DEF Buffered, OutputNothing
  <2> QED BY <1>4, <1>7, <2>1 DEF OutputNothing
<1>8. CASE Output(r)
  <2>1. PostedEvent.name = "post_reply_result"
    BY MetricName DEF PostedEvent
  <2>2. Return(r, st[r], {PostedEvent}, "TelemetryLogger") /\ st[r].decision = "AUTO_POST"
    BY <1>8 DEF Output, PostedEvent
  <2>3. Buffered("TelemetryLogger", st[r], metrics[r] \cup {PostedEvent} \cup {ran})
    BY <1>0, <1>1, <1>3, <1>8, <2>1, <2>2 DEF Buffered, Output
  <2> QED BY <1>4, <2>2, <2>3
<1> QED BY <1>5, <1>6, <1>7, <1>8 DEF Answer

\* The logger puts the log event, the buffer and the row in, in this order.
LEMMA PersistTrail ==
    ASSUME TypeOK, Inv, Trail, NEW r \in Requests, Persist(r)
    PROVE  Trail'
<1>1. /\ Local(pc[r], st[r], inquiry[r])
      /\ Buffered(pc[r], st[r], metrics[r]) /\ Stored(pc[r], st[r], r \in logged, metricRows[r])
  BY Start DEF Trail
<1> USE DEF Storing, Broken
<1>2. CASE LogEvent(r)
  <2>1. Buffered("InsertMetrics", st[r], metrics[r])
    BY <1>1, <1>2 DEF LogEvent, Buffered
  <2>2. Stored("InsertMetrics", st[r], r \in logged', metricRows[r])
    BY <1>1, <1>2 DEF LogEvent, Stored
  <2>3. /\ st' = [st EXCEPT ![r] = st[r]] /\ metrics' = [metrics EXCEPT ![r] = metrics[r]]
        /\ metricRows' = [metricRows EXCEPT ![r] = metricRows[r]]
        /\ pc' = [pc EXCEPT ![r] = "InsertMetrics"]
        /\ \A q \in Requests \ {r} : q \in logged' <=> q \in logged
    BY <1>2 DEF LogEvent, TypeOK
  <2> QED BY <2>1, <2>2, <2>3, OneTrail
<1>3. CASE InsertMetrics(r)
  <2>1. Buffered("UpsertCase", st[r], metrics[r])
    BY <1>1, <1>3 DEF InsertMetrics, Buffered
  <2>2. st[r].decision # "none" /\ r \in logged
    BY <1>1, <1>3 DEF InsertMetrics, Stored, Local, VerdictKnown
  <2>3. st[r].decision = "AUTO_POST" => \E m \in metrics[r] : m.name = "post_reply_result"
    BY <2>1, MetricName DEF Buffered, PostedEvent
  <2>4. Stored("UpsertCase", st[r], r \in logged', metrics[r])
    BY <1>3, <2>1, <2>2, <2>3 DEF InsertMetrics, Stored, Buffered
  <2>5. /\ st' = [st EXCEPT ![r] = st[r]] /\ metrics' = [metrics EXCEPT ![r] = metrics[r]]
        /\ metricRows' = [metricRows EXCEPT ![r] = metrics[r]]
        /\ pc' = [pc EXCEPT ![r] = "UpsertCase"] /\ logged' = logged
    BY <1>3 DEF InsertMetrics, TypeOK
  <2> QED BY <2>1, <2>4, <2>5, OneTrail
<1>4. CASE UpsertCase(r)
  <2> DEFINE ran == Metric("node_execution", NodeOf(pc[r]), TRUE)
  <2>1. ran.name = "node_execution"
    BY MetricName
  <2>2. metrics' = [metrics EXCEPT ![r] = metrics[r] \cup {} \cup {ran}]
    BY <1>4 DEF UpsertCase, Return
  <2> HIDE DEF ran
  <2>3. Buffered("done", st[r], metrics[r] \cup {} \cup {ran})
    BY <1>1, <1>4, <2>1 DEF UpsertCase, Buffered
  <2>4. Stored("done", st[r], r \in logged', metricRows[r])
    BY <1>1, <1>4 DEF UpsertCase, Stored
  <2>5. /\ st' = [st EXCEPT ![r] = st[r]] /\ pc' = [pc EXCEPT ![r] = "done"] /\ logged' = logged
        /\ metricRows' = [metricRows EXCEPT ![r] = metricRows[r]]
    BY <1>4 DEF UpsertCase, Return, TypeOK
  <2> QED BY <2>2, <2>3, <2>4, <2>5, OneTrail
<1> QED BY <1>2, <1>3, <1>4 DEF Persist

\* A node that raises leaves its event in the buffer and nothing in the tables.
LEMMA RaiseTrail ==
    ASSUME TypeOK, Trail, NEW r \in Requests, Raise(r)
    PROVE  Trail'
<1> DEFINE broke == Metric("node_execution", NodeOf(pc[r]), FALSE)
<1>1. broke.name = "node_execution"
  BY MetricName
<1>2. metrics' = [metrics EXCEPT ![r] = metrics[r] \cup {broke}]
  BY DEF Raise
<1> HIDE DEF broke
<1>3. Buffered(pc[r], st[r], metrics[r]) /\ Stored(pc[r], st[r], r \in logged, metricRows[r])
  BY DEF Trail
<1> USE DEF Storing, Broken
<1>4. Buffered("failed", st[r], metrics[r] \cup {broke})
  BY <1>1, <1>3 DEF Buffered
<1>5. Stored("failed", st[r], r \in logged, metricRows[r])
  BY <1>3 DEF Stored
<1>6. /\ st' = [st EXCEPT ![r] = st[r]] /\ pc' = [pc EXCEPT ![r] = "failed"] /\ logged' = logged
      /\ metricRows' = [metricRows EXCEPT ![r] = metricRows[r]]
  BY DEF Raise, TypeOK, dbVars
<1> QED BY <1>2, <1>4, <1>5, <1>6, OneTrail

\* The other steps move requests between places that say the same of their trail.
LEMMA MoveTrail ==
    ASSUME TypeOK, Trail,
           \/ \E r \in Requests : ProcessCase(r) \/ HandoffCheck(r) \/ HandoffCall(r)
           \/ \E call \in late : McpRunsLate(call) \/ McpDropsLate(call)
           \/ Crash
    PROVE  Trail'
<1>1. UNCHANGED <<st, metrics, logged, metricRows>>
  BY DEF ProcessCase, HandoffCheck, HandoffCall, McpRunsLate, McpDropsLate, Crash, OwnStateOnly,
         requestVars, dbVars
<1>2. \A q \in Requests :
        \/ pc'[q] = pc[q]
        \/ pc[q] \in {"waiting"} \cup Alerting /\ pc'[q] \in {"NormalizeAndMask"} \cup Alerting
        \/ pc[q] \in Nodes \cup Inner /\ pc'[q] = "lost"
  <2>1. CASE \E r \in Requests : ProcessCase(r) \/ HandoffCheck(r) \/ HandoffCall(r)
    BY <2>1 DEF ProcessCase, HandoffCheck, HandoffCall, TypeOK, Alerting
  <2>2. CASE \E call \in late : McpRunsLate(call) \/ McpDropsLate(call)
    BY <2>2 DEF McpRunsLate, McpDropsLate, requestVars
  <2>3. CASE Crash
    BY <2>3 DEF Crash, Active
  <2> QED BY <2>1, <2>2, <2>3
<1>3. ASSUME NEW q \in Requests
      PROVE  Buffered(pc'[q], st[q], metrics[q]) /\ Stored(pc'[q], st[q], q \in logged, metricRows[q])
  <2>1. Buffered(pc[q], st[q], metrics[q]) /\ Stored(pc[q], st[q], q \in logged, metricRows[q])
    BY DEF Trail
  <2>2. CASE pc'[q] = pc[q]
    BY <2>1, <2>2
  <2>3. CASE pc[q] \in {"waiting"} \cup Alerting /\ pc'[q] \in {"NormalizeAndMask"} \cup Alerting
    BY <2>1, <2>3 DEF Buffered, Stored, Alerting, Storing, Broken
  <2>4. CASE pc[q] \in Nodes \cup Inner /\ pc'[q] = "lost"
    BY <2>1, <2>4 DEF Buffered, Stored, Storing, Broken, Nodes, Inner
  <2> QED BY <1>2, <2>2, <2>3, <2>4
<1> QED BY <1>1, <1>3 DEF Trail

LEMMA InitTrail == Init => Trail
<1> SUFFICES ASSUME Init, NEW r \in Requests
             PROVE  /\ Buffered(pc[r], st[r], metrics[r])
                    /\ Stored(pc[r], st[r], r \in logged, metricRows[r])
  BY DEF Trail
<1>1. pc[r] = "waiting" /\ metrics[r] = {} /\ metricRows[r] = {}
  BY DEF Init
<1> QED BY <1>1 DEF Buffered, Stored, Storing, Broken

LEMMA NextTrail == TypeOK /\ Inv /\ Trail /\ [Next]_vars => Trail'
<1> SUFFICES ASSUME TypeOK, Inv, Trail, [Next]_vars PROVE Trail'
  OBVIOUS
<1>1. CASE Next
  BY <1>1, BreaksRaise, RaiseTrail, EarlyNodesTrail, AnswerTrail, PersistTrail, MoveTrail
     DEF Next, Work, Handoff
<1>2. CASE UNCHANGED vars
  BY <1>2 DEF Trail, vars, requestVars, dbVars
<1> QED BY <1>1, <1>2

THEOREM AlwaysTrail == Spec => []Trail
BY InitTrail, NextTrail, Invariance, PTL DEF Spec

\* A completed request stays completed, and a row is written by one that completes.
LEMMA NextRow == TypeOK /\ RowOfCompleted /\ [Next]_vars => RowOfCompleted'
<1> SUFFICES ASSUME TypeOK, RowOfCompleted, [Next]_vars PROVE RowOfCompleted'
  OBVIOUS
<1>1. ASSUME NEW r \in Requests, UpsertCase(r)
      PROVE  RowOfCompleted'
  <2>1. /\ inquiry' = inquiry /\ caseRow' = [caseRow EXCEPT ![Case(r)] = r]
        /\ pc' = [pc EXCEPT ![r] = "done"]
    BY <1>1 DEF UpsertCase, Return, fixedVars
  <2> QED BY <2>1 DEF RowOfCompleted, TypeOK, Case
<1>2. ASSUME UNCHANGED <<inquiry, caseRow>>,
             \A q \in Requests : pc[q] = "done" => pc'[q] = "done"
      PROVE  RowOfCompleted'
  BY <1>2 DEF RowOfCompleted, TypeOK, Case
<1>3. ASSUME NEW r \in Requests, NEW next, pc[r] # "done", pc' = [pc EXCEPT ![r] = next],
             UNCHANGED <<inquiry, caseRow>>
      PROVE  RowOfCompleted'
  BY <1>2, <1>3 DEF TypeOK
<1>4. ASSUME NEW r \in Requests, Plan(r) \/ Draft(r)
      PROVE  RowOfCompleted'
  <2>1. pc[r] # "done" /\ OwnStateOnly
    BY <1>4 DEF Plan, Draft, PreVisionNeedGate, PreVisionSkipped, PreVision, PolicyLoader, PlanBuilder,
       PlanEngine, ResponseModeGate, ScenarioSubgraph, AgentGenerateSubgraph, ValidatePII,
       ValidatePolicy, ValidateGrounding
  <2>2. \E next : pc' = [pc EXCEPT ![r] = next]
    BY <1>4 DEF Plan, Draft, PreVisionNeedGate, PreVisionSkipped, PreVision, PolicyLoader, PlanBuilder,
       PlanEngine, ResponseModeGate, ScenarioSubgraph, AgentGenerateSubgraph, ValidatePII,
       ValidatePolicy, ValidateGrounding, Return
  <2> QED BY <1>3, <2>1, <2>2 DEF OwnStateOnly, dbVars, fixedVars
<1>5. ASSUME NEW r \in Requests,
             NormalizeAndMask(r) \/ TermExtract(r) \/ ClassifyRiskRoute(r) \/ Answer(r)
      PROVE  RowOfCompleted'
  <2>1. pc[r] # "done" /\ UNCHANGED <<inquiry, caseRow>> /\ \E next : pc' = [pc EXCEPT ![r] = next]
    BY <1>5 DEF NormalizeAndMask, TermExtract, ClassifyRiskRoute, Answer, DecisionNode, OutputMask,
       OutputNothing, Output, Return, OwnStateOnly, dbVars, fixedVars
  <2> QED BY <1>3, <2>1
<1>6. ASSUME NEW r \in Requests, ProcessCase(r) \/ Handoff(r) \/ LogEvent(r) \/ InsertMetrics(r)
      PROVE  RowOfCompleted'
  <2>1. pc[r] # "done" /\ UNCHANGED <<inquiry, caseRow>> /\ \E next : pc' = [pc EXCEPT ![r] = next]
    BY <1>6 DEF ProcessCase, Handoff, HandoffSkipped, HandoffCheck, HandoffCall, HandoffMark,
       LogEvent, InsertMetrics, Return, OwnStateOnly, dbVars, fixedVars
  <2> QED BY <1>3, <2>1
<1>7. ASSUME NEW r \in Requests, SlotExtractionFails(r) \/ Breaks(r)
      PROVE  RowOfCompleted'
  <2>1. pc[r] # "done"
    BY <1>7 DEF SlotExtractionFails, Breaks, GlossaryLoadFails, ClassificationFails,
       VisionAnswerMalformed, DbFails
  <2> QED BY <1>3, <1>7, <2>1, BreaksRaise DEF Raise, dbVars, fixedVars
<1>8. ASSUME \/ \E call \in late : McpRunsLate(call) \/ McpDropsLate(call)
             \/ Crash \/ UNCHANGED vars
      PROVE  RowOfCompleted'
  <2>1. UNCHANGED <<inquiry, caseRow>> /\ \A q \in Requests : pc[q] = "done" => pc'[q] = "done"
    BY <1>8 DEF McpRunsLate, McpDropsLate, Crash, Active, Nodes, Inner, vars, requestVars, dbVars,
                fixedVars
  <2> QED BY <1>2, <2>1
<1> QED BY <1>1, <1>4, <1>5, <1>6, <1>7, <1>8 DEF Next, Work, Persist

\* The row of a case has its log event and its metrics in, with its verdict and
\* with its reply if there was one, through every failure and crash.
THEOREM RowsHaveTheirTrail == Spec => []RowHasItsTrail
<1>1. Init => RowOfCompleted
  BY DEF Init, RowOfCompleted
<1>2. TypeOK /\ Trail /\ RowOfCompleted => RowHasItsTrail
  <2> SUFFICES ASSUME TypeOK, Trail, RowOfCompleted, NEW c \in Cases, caseRow[c] # "none"
               PROVE  LET r == caseRow[c] IN
                      /\ Case(r) = c /\ r \in logged
                      /\ st[r].decision = "HANDOFF"
                           \/ Metric("decision_made", st[r].decision, TRUE) \in metricRows[r]
                      /\ (\E m \in metricRows[r] : m.name = "post_reply_result")
                           <=> st[r].decision = "AUTO_POST"
    BY DEF RowHasItsTrail
  <2>1. PICK r \in Requests : r = caseRow[c] /\ Case(r) = c /\ pc[r] = "done"
    BY DEF TypeOK, RowOfCompleted
  <2>2. Stored("done", st[r], r \in logged, metricRows[r])
    BY <2>1 DEF Trail
  <2> QED BY <2>1, <2>2 DEF Stored, DecisionEvent
<1> QED BY <1>1, <1>2, NextRow, AlwaysTrail, Invariance, PTL DEF Spec

-----------------------------------------------------------------------------
(* What the events tell *)

Telling == {"case_received", "classification_completed", "tool_call", "decision_made"}
Plainly(events) == \A m \in events : m.name \notin Telling
Received == Metric("case_received", "", TRUE)
ClassifiedEvent == Metric("classification_completed", "", TRUE)
FailedSearch == Metric("tool_call", "rag_search", FALSE)
Decided == {"OutputMask", "Output"} \cup Storing

\* A request whose batch is in, or going in, however it ended.
Kept == {"UpsertCase", "done"} \cup Broken

\* What the events of a request say at each place, of a state of which only the
\* verdict matters.  A request that breaks off keeps what can only be said of
\* events there are.
Reported(place, s, events) ==
    /\ place \notin {"waiting", "NormalizeAndMask"} \cup Broken => Received \in events
    /\ place \notin Routing \cup Broken => ClassifiedEvent \in events
    /\ place \in Drafting \cup {"Decision"} \cup Decided /\ s.decision # "HANDOFF" =>
         \E m \in events : m.name = "tool_call"
    /\ place \in Decided /\ s.decision # "HANDOFF" => DecisionEvent(s) \in events
    /\ \A m \in events : m.name = "tool_call" =>
         s.decision # "HANDOFF" /\ place \notin Routing \cup Planning \cup Alerting
    /\ \A m \in events : m.name = "decision_made" =>
         m = DecisionEvent(s) /\ s.decision # "HANDOFF" /\ place \in Decided \cup Broken
    /\ FailedSearch \in events => s.decision = "DRAFT"

\* A stored batch says what the buffer of a completed request would.
Told == \A r \in Requests :
           /\ Reported(pc[r], st[r], metrics[r])
           /\ metricRows[r] # {} => pc[r] \in Kept /\ Reported("done", st[r], metricRows[r])

\* A step of one request keeps this if it keeps that request's.
LEMMA OneTold ==
    ASSUME TypeOK, Told, NEW r \in Requests, NEW s, NEW place, NEW events, NEW stored,
           pc' = [pc EXCEPT ![r] = place], st' = [st EXCEPT ![r] = s],
           metrics' = [metrics EXCEPT ![r] = events],
           metricRows' = [metricRows EXCEPT ![r] = stored],
           Reported(place, s, events),
           stored # {} => place \in Kept /\ Reported("done", s, stored)
    PROVE  Told'
<1>1. ASSUME NEW q \in Requests
      PROVE  /\ Reported(pc'[q], st'[q], metrics'[q])
             /\ metricRows'[q] # {} => pc'[q] \in Kept /\ Reported("done", st'[q], metricRows'[q])
  <2>1. CASE q = r
    BY <2>1 DEF TypeOK
  <2>2. CASE q # r
    <3>1. /\ pc'[q] = pc[q] /\ st'[q] = st[q] /\ metrics'[q] = metrics[q]
          /\ metricRows'[q] = metricRows[q]
      BY <2>2 DEF TypeOK
    <3> QED BY <3>1 DEF Told
  <2> QED BY <2>1, <2>2
<1> QED BY <1>1 DEF Told

\* The event of the wrapper tells nothing; a node whose own events do keeps the
\* invariant, and only the last one runs with its batch stored.
LEMMA ReturnTold ==
    ASSUME TypeOK, Told, NEW r \in Requests, NEW s, NEW events, NEW next,
           Return(r, s, events, next), UNCHANGED metricRows,
           Reported(next, s, metrics[r] \cup events),
           pc[r] \in Kept => s = st[r] /\ next \in Kept
    PROVE  Told'
<1> DEFINE ran == Metric("node_execution", NodeOf(pc[r]), TRUE)
           emitted == metrics[r] \cup events \cup {ran}
<1>1. ran.name = "node_execution"
  BY MetricName
<1>2. metrics' = [metrics EXCEPT ![r] = emitted]
  BY DEF Return
<1>3. FailedSearch.name = "tool_call"
  BY MetricName DEF FailedSearch
<1> HIDE DEF ran
<1>4. Reported(next, s, emitted)
  BY <1>1, <1>3 DEF Reported
<1>5. metricRows[r] # {} => pc[r] \in Kept /\ Reported("done", st[r], metricRows[r])
  BY DEF Told
<1>6. metricRows' = [metricRows EXCEPT ![r] = metricRows[r]]
  BY DEF TypeOK
<1> HIDE DEF emitted
<1> QED BY <1>2, <1>4, <1>5, <1>6, OneTold DEF Return

\* Between places that say the same of a verdict, events that tell nothing change
\* nothing; and a request may break off anywhere.
LEMMA SameReport ==
    ASSUME NEW place, NEW next, NEW s, NEW t, NEW events, NEW new,
           Reported(place, s, events), Plainly(new), t.decision = s.decision,
           \/ place \in Routing \ {"waiting", "NormalizeAndMask"} /\ next = "ClassifyRiskRoute"
           \/ place \in Planning /\ next \in Planning
           \/ place \in Drafting /\ next \in Drafting \cup {"Decision"}
           \/ place \in Alerting /\ next \in Alerting \cup {"TelemetryLogger"}
                /\ s.decision = "HANDOFF"
           \/ place \in Decided /\ next \in Decided
           \/ next \in Broken
    PROVE  Reported(next, t, events \cup new)
<1>1. FailedSearch.name = "tool_call"
  BY MetricName DEF FailedSearch
<1>2. DecisionEvent(t) = DecisionEvent(s)
  BY DEF DecisionEvent
<1>3. FailedSearch \in events \cup new => FailedSearch \in events
  BY <1>1 DEF Plainly, Telling
<1>4. \A m \in events \cup new : m.name \in Telling => m \in events
  BY DEF Plainly
<1> QED BY <1>2, <1>3, <1>4
        DEF Reported, Telling, Routing, Planning, Drafting, Alerting, Decided, Storing, Broken

LEMMA PlainEvents ==
    /\ Plainly({})
    /\ \A name, tag, ok : name \notin Telling => Plainly({Metric(name, tag, ok)})
BY MetricName DEF Plainly

\* The first nodes: what is received, and what is classified.
LEMMA RouteTold ==
    ASSUME TypeOK, Inv, Told, NEW r \in Requests,
           NormalizeAndMask(r) \/ TermExtract(r) \/ ClassifyRiskRoute(r)
    PROVE  Told'
<1>0. /\ st[r] \in AgentState /\ Local(pc[r], st[r], inquiry[r])
      /\ Reported(pc[r], st[r], metrics[r])
  BY Start DEF Told
<1>n. /\ Received.name = "case_received" /\ ClassifiedEvent.name = "classification_completed"
      /\ FailedSearch.name = "tool_call"
  BY MetricName DEF Received, ClassifiedEvent, FailedSearch
<1> USE DEF Routing, Planning, Drafting, Alerting, Decided, Storing, Broken, Kept
<1>1. CASE NormalizeAndMask(r)
  <2> DEFINE s == [st[r] EXCEPT !.masked = MaskPii({inquiry[r].title} \cup inquiry[r].body)]
  <2>1. s.decision = st[r].decision
    BY <1>0 DEF AgentState
  <2>2. Return(r, s, {Received}, "TermExtract")
    BY <1>1 DEF NormalizeAndMask, Received
  <2> HIDE DEF s
  <2>3. Reported("TermExtract", s, metrics[r] \cup {Received})
    BY <1>0, <1>1, <1>n, <2>1 DEF NormalizeAndMask, Reported
  <2> QED BY <1>1, <2>2, <2>3, ReturnTold DEF NormalizeAndMask, OwnStateOnly, dbVars
<1>2. CASE TermExtract(r)
  <2>1. PICK found : Return(r, [st[r] EXCEPT !.terms = found],
                            {Metric("glossary_extract", "", TRUE)}, "ClassifyRiskRoute")
    BY <1>2 DEF TermExtract
  <2> DEFINE s == [st[r] EXCEPT !.terms = found]
  <2>2. s.decision = st[r].decision
    BY <1>0 DEF AgentState
  <2>3. Plainly({Metric("glossary_extract", "", TRUE)})
    BY PlainEvents DEF Telling
  <2> HIDE DEF s
  <2>4. Reported("ClassifyRiskRoute", s, metrics[r] \cup {Metric("glossary_extract", "", TRUE)})
    BY <1>0, <1>2, <2>2, <2>3, SameReport DEF TermExtract
  <2> QED BY <1>2, <2>1, <2>4, ReturnTold DEF TermExtract, dbVars, s
<1>3. CASE ClassifyRiskRoute(r)
  <2>1. PICK s, next : /\ Return(r, s, Classified, next)
                       /\ next = "HandoffNotify" \/ next = "PreVisionNeedGate"
    BY <1>3 DEF ClassifyRiskRoute
  <2>2. \A m \in metrics[r] \cup Classified : m.name \notin {"tool_call", "decision_made"}
    <3>1. \A m \in Classified : m.name \notin {"tool_call", "decision_made"}
      <4>1. \A m \in Classified : m.name = "llm_usage" \/ m.name = "classification_completed"
        BY MetricName DEF Classified
      <4> QED BY <4>1
    <3> QED BY <1>0, <1>3, <3>1 DEF ClassifyRiskRoute, Reported
  <2>4. ClassifiedEvent \in Classified /\ Received \in metrics[r]
    BY <1>0, <1>3 DEF ClassifyRiskRoute, Reported, Classified, ClassifiedEvent
  <2>3. Reported(next, s, metrics[r] \cup Classified)
    BY <1>n, <2>1, <2>2, <2>4 DEF Reported
  <2> QED BY <1>3, <2>1, <2>3, ReturnTold DEF ClassifyRiskRoute, OwnStateOnly, dbVars
<1> QED BY <1>1, <1>2, <1>3

\* The plan's tools are the first to be told of, and the search is among them.
LEMMA PlanTold ==
    ASSUME TypeOK, Inv, Told, NEW r \in Requests, Plan(r)
    PROVE  Told'
<1>0. /\ st[r] \in AgentState /\ Local(pc[r], st[r], inquiry[r])
      /\ Reported(pc[r], st[r], metrics[r])
  BY Start DEF Told
<1>1. ASSUME NEW s, NEW events, NEW next \in Planning, Return(r, s, events, next), Plainly(events),
             s.decision = st[r].decision, pc[r] \in Planning, UNCHANGED metricRows
      PROVE  Told'
  <2>1. Reported(next, s, metrics[r] \cup events)
    BY <1>0, <1>1, SameReport
  <2> QED BY <1>1, <2>1, ReturnTold DEF Planning, Kept, Broken
<1> USE DEF Planning
<1>2. CASE PreVisionNeedGate(r)
  <2> DEFINE need == inquiry[r].files /\ st[r].labels \cap EnabledIntents # {}
             s == [st[r] EXCEPT !.need = need]
  <2> HIDE DEF need
  <2>1. Return(r, s, {}, "PreVision") /\ s.decision = st[r].decision
    BY <1>0, <1>2 DEF PreVisionNeedGate, need, AgentState
  <2> QED BY <1>1, <1>2, <2>1, PlainEvents DEF PreVisionNeedGate, OwnStateOnly, dbVars
<1>3. CASE PreVisionSkipped(r)
  <2> DEFINE s == [st[r] EXCEPT !.vision = "skipped"]
  <2>1. Return(r, s, {}, "PolicyLoader") /\ s.decision = st[r].decision
    BY <1>0, <1>3 DEF PreVisionSkipped, AgentState
  <2> QED BY <1>1, <1>3, <2>1, PlainEvents DEF PreVisionSkipped, OwnStateOnly, dbVars
<1>4. CASE PreVision(r)
  <2>1. PICK seen, by : Return(r, [st[r] EXCEPT !.vision = seen, !.seen = by], {}, "PolicyLoader")
    BY <1>4 DEF PreVision
  <2>2. [st[r] EXCEPT !.vision = seen, !.seen = by].decision = st[r].decision
    BY <1>0 DEF AgentState
  <2> QED BY <1>1, <1>4, <2>1, <2>2, PlainEvents DEF PreVision, OwnStateOnly, dbVars
<1>5. CASE PolicyLoader(r)
  <2> DEFINE s == [st[r] EXCEPT !.autoPost = PolicyOf(inquiry[r].kind).autoPost]
  <2>1. Return(r, s, {}, "PlanBuilder") /\ s.decision = st[r].decision
    BY <1>0, <1>5 DEF PolicyLoader, AgentState
  <2> QED BY <1>1, <1>5, <2>1, PlainEvents DEF PolicyLoader, OwnStateOnly, dbVars
<1>6. CASE PlanBuilder(r)
  <2> DEFINE s == [st[r] EXCEPT !.mode = PolicyOf(inquiry[r].kind).mode]
             events == {Metric("rag_query_expansion", "", TRUE)}
  <2>1. Return(r, s, events, "PlanEngine") /\ s.decision = st[r].decision
    BY <1>0, <1>6 DEF PlanBuilder, AgentState
  <2>2. Plainly(events)
    BY PlainEvents DEF Telling
  <2> QED BY <1>1, <1>6, <2>1, <2>2 DEF PlanBuilder, OwnStateOnly, dbVars
<1>7. CASE PlanEngine(r)
  <2> DEFINE ran == ToolsRun(st[r].mode)
             failed(o) == {t \in ran : ReportsFailure(t, o[t])}
             spent == Len(StepsOf(st[r].mode)) > MaxTools
             traced(o) == [st[r] EXCEPT !.trace = {Call(t, o[t]) : t \in ran}]
             drafted(o) == [traced(o) EXCEPT !.decision = "DRAFT",
                              !.reason = IF spent THEN "budget_exceeded" ELSE "tool_failure"]
             events(o) == {Metric("tool_call", t, t \notin failed(o)) : t \in ran}
  <2>1. PICK o \in [ran -> {"answer", "error", "fallback"}] :
          Return(r, IF failed(o) = {} /\ ~spent THEN traced(o) ELSE drafted(o), events(o),
                 "ResponseModeGate")
    BY <1>7 DEF PlanEngine
  <2> DEFINE s == IF failed(o) = {} /\ ~spent THEN traced(o) ELSE drafted(o)
  <2>2. s.decision \in {"none", "DRAFT"} /\ (failed(o) # {} => s.decision = "DRAFT")
    BY <1>0, <1>7 DEF PlanEngine, Local, VerdictKnown, AgentState
  <2>3. ASSUME NEW m \in events(o)
        PROVE  m.name = "tool_call" /\ (m = FailedSearch => failed(o) # {})
    <3>1. PICK t \in ran : m = Metric("tool_call", t, t \notin failed(o))
      OBVIOUS
    <3>2. m.name = "tool_call" /\ m.ok = (t \notin failed(o))
      BY <3>1 DEF Metric
    <3>3. FailedSearch.ok = FALSE
      BY DEF FailedSearch, Metric
    <3> HIDE DEF failed
    <3> QED BY <3>2, <3>3
  <2>4. \E m \in events(o) : m.name = "tool_call"
    BY <2>3, ToolsRunType
  <2>5. \A m \in metrics[r] : m.name \notin {"tool_call", "decision_made"}
    BY <1>0, <1>7 DEF PlanEngine, Reported, Decided, Storing, Broken
  <2>6. FailedSearch \notin metrics[r]
    BY <2>5, MetricName DEF FailedSearch
  <2>7. Received \in metrics[r] /\ ClassifiedEvent \in metrics[r]
    BY <1>0, <1>7 DEF PlanEngine, Reported, Routing, Broken
  <2> HIDE DEF s, events, failed
  <2>8. Reported("ResponseModeGate", s, metrics[r] \cup events(o))
    BY <2>2, <2>3, <2>4, <2>5, <2>6, <2>7
       DEF Reported, Routing, Drafting, Alerting, Decided, Storing, Broken
  <2>9. Return(r, s, events(o), "ResponseModeGate")
    BY <2>1 DEF s, events, failed
  <2> QED BY <1>7, <2>8, <2>9, ReturnTold DEF PlanEngine, OwnStateOnly, dbVars, Kept, Broken
<1> QED BY <1>2, <1>3, <1>4, <1>5, <1>6, <1>7 DEF Plan

\* A draft tells of itself when it is decided, and only then.
LEMMA DraftTold ==
    ASSUME TypeOK, Inv, Told, NEW r \in Requests, Draft(r)
    PROVE  Told'
<1>0. /\ st[r] \in AgentState /\ Local(pc[r], st[r], inquiry[r])
      /\ Reported(pc[r], st[r], metrics[r])
  BY Start DEF Told
<1>1. ASSUME NEW s, NEW events, NEW next \in Drafting \cup {"Decision"}, Return(r, s, events, next),
             Plainly(events), s.decision \in {st[r].decision, "DRAFT"}, pc[r] \in Drafting,
             OwnStateOnly
      PROVE  Told'
  <2>1. CASE s.decision = st[r].decision
    <3>1. Reported(next, s, metrics[r] \cup events)
      BY <1>0, <1>1, <2>1, SameReport
    <3> QED BY <1>1, <3>1, ReturnTold DEF Drafting, Kept, Broken, OwnStateOnly, dbVars
  <2>2. CASE s.decision = "DRAFT"
    <3>1. \A m \in metrics[r] \cup events : m.name # "decision_made"
      BY <1>0, <1>1 DEF Reported, Plainly, Telling, Drafting, Decided, Storing, Broken
    <3>2. \E m \in metrics[r] : m.name = "tool_call"
      BY <1>0, <1>1 DEF Reported, Local, VerdictKnown
    <3>3. Received \in metrics[r] /\ ClassifiedEvent \in metrics[r]
      BY <1>0, <1>1 DEF Reported, Routing, Drafting, Broken
    <3>4. Reported(next, s, metrics[r] \cup events)
      BY <2>2, <3>1, <3>2, <3>3
         DEF Reported, Routing, Planning, Drafting, Alerting, Decided, Storing, Broken
    <3> QED BY <1>1, <3>4, ReturnTold DEF Drafting, Kept, Broken, OwnStateOnly, dbVars
  <2> QED BY <1>1, <2>1, <2>2
<1>2. CASE ResponseModeGate(r)
  <2>1. PICK next \in Drafting : Return(r, st[r], {}, next)
    BY <1>2 DEF ResponseModeGate, Drafting
  <2> QED BY <1>1, <1>2, <2>1, PlainEvents DEF ResponseModeGate, Drafting
<1>3. ASSUME NEW text, NEW events, NEW next \in Drafting \cup {"Decision"}, Plainly(events),
             \/ Return(r, [st[r] EXCEPT !.text = text], events, next)
             \/ Return(r, [st[r] EXCEPT !.cited = TRUE, !.text = text], events, next),
             pc[r] \in Drafting, OwnStateOnly
      PROVE  Told'
  <2>1. PICK s : /\ Return(r, s, events, next)
                 /\ \/ s = [st[r] EXCEPT !.text = text]
                    \/ s = [st[r] EXCEPT !.cited = TRUE, !.text = text]
    BY <1>3
  <2>2. s.decision = st[r].decision
    BY <1>0, <2>1 DEF AgentState
  <2> QED BY <1>1, <1>3, <2>1, <2>2
<1>4. CASE ScenarioSubgraph(r)
  BY <1>3, <1>4, PlainEvents DEF ScenarioSubgraph, Drafting
<1>5. CASE AgentGenerateSubgraph(r)
  <2>1. \E text : Return(r, [st[r] EXCEPT !.cited = TRUE, !.text = text], {}, "ValidatePII")
    BY <1>5 DEF AgentGenerateSubgraph
  <2> QED BY <1>3, <1>5, <2>1, PlainEvents DEF AgentGenerateSubgraph, Drafting
<1>6. CASE ValidatePII(r)
  <2>1. \E ok : Return(r, [st[r] EXCEPT !.text = MaskPii(@)],
                       {Metric("validator_result", "PII", ok)}, "ValidatePolicy")
    BY <1>6 DEF ValidatePII
  <2> QED BY <1>3, <1>6, <2>1, PlainEvents DEF ValidatePII, Drafting, Telling
<1>7. CASE ValidatePolicy(r)
  <2>1. \E ok : Return(r, [st[r] EXCEPT !.text = StripBanned(@)],
                       {Metric("validator_result", "POLICY", ok)}, "ValidateGrounding")
    BY <1>7 DEF ValidatePolicy
  <2> QED BY <1>3, <1>7, <2>1, PlainEvents DEF ValidatePolicy, Drafting, Telling
<1>8. CASE ValidateGrounding(r)
  <2> DEFINE score(m) == Score(st[r].text, inquiry[r].title, st[r].cited, m)
             scored(m) == [st[r] EXCEPT !.score = score(m),
                             !.retry = IF Rewrites(score(m), @) THEN @ + 1 ELSE @,
                             !.text = IF Rewrites(score(m), st[r].retry)
                                      THEN @ \cup {Plain("note")} ELSE @]
             drafted(m) == [scored(m) EXCEPT !.decision = "DRAFT", !.reason = "grounding_low_score"]
             passed(m) == Passes(score(m), st[r].retry)
             events(m) == {Metric("validator_result", "GROUNDING", passed(m))}
  <2>1. PICK m \in 0..Cardinality(st[r].terms) :
          Return(r, IF passed(m) THEN scored(m) ELSE drafted(m), events(m), "Decision")
    BY <1>8 DEF ValidateGrounding
  <2> DEFINE s == IF passed(m) THEN scored(m) ELSE drafted(m)
  <2>2. s.decision \in {st[r].decision, "DRAFT"}
    BY <1>0 DEF AgentState
  <2>3. Plainly(events(m))
    BY PlainEvents DEF Telling
  <2> HIDE DEF events, s
  <2>4. Return(r, s, events(m), "Decision")
    BY <2>1 DEF s
  <2> QED BY <1>1, <1>8, <2>2, <2>3, <2>4 DEF ValidateGrounding, Drafting
<1> QED BY <1>2, <1>4, <1>5, <1>6, <1>7, <1>8 DEF Draft

\* The decision is the first to be reported, and is reported as it stands.
LEMMA AnswerTold ==
    ASSUME TypeOK, Inv, Told, NEW r \in Requests, Answer(r)
    PROVE  Told'
<1>0. /\ st[r] \in AgentState /\ Local(pc[r], st[r], inquiry[r])
      /\ Reported(pc[r], st[r], metrics[r])
  BY Start DEF Told
<1>1. CASE DecisionNode(r)
  <2> DEFINE s == Decide(st[r])
  <2>1. s.decision # "HANDOFF" /\ (st[r].decision = "DRAFT" => s.decision = "DRAFT")
    BY <1>0, <1>1 DEF DecisionNode, Decide, Local, VerdictKnown, AgentState
  <2>2. Return(r, s, {DecisionEvent(s)}, "OutputMask") /\ pc[r] = "Decision"
    BY <1>1 DEF DecisionNode, DecisionEvent
  <2>3. DecisionEvent(s).name = "decision_made" /\ FailedSearch.name = "tool_call"
    BY MetricName DEF DecisionEvent, FailedSearch
  <2> HIDE DEF s
  <2>4. st[r].decision # "HANDOFF"
    BY <1>0, <2>2 DEF Local, VerdictKnown
  <2>5. /\ \A m \in metrics[r] : m.name # "decision_made"
        /\ Received \in metrics[r] /\ ClassifiedEvent \in metrics[r]
        /\ \E m \in metrics[r] : m.name = "tool_call"
        /\ FailedSearch \in metrics[r] => st[r].decision = "DRAFT"
    BY <1>0, <2>2, <2>4 DEF Reported, Routing, Decided, Storing, Broken
  <2>6. Reported("OutputMask", s, metrics[r] \cup {DecisionEvent(s)})
    BY <2>1, <2>3, <2>5 DEF Reported, Routing, Planning, Alerting, Decided, Storing, Broken
  <2> QED BY <1>1, <2>2, <2>6, ReturnTold DEF DecisionNode, OwnStateOnly, dbVars, Kept, Broken
<1>2. ASSUME NEW s, NEW events, NEW next \in {"Output", "TelemetryLogger"},
             pc[r] \in {"OutputMask", "Output"}, Return(r, s, events, next), UNCHANGED metricRows,
             Plainly(events), s.decision = st[r].decision
      PROVE  Told'
  <2>1. Reported(next, s, metrics[r] \cup events)
    BY <1>0, <1>2, SameReport DEF Decided, Storing
  <2> QED BY <1>2, <2>1, ReturnTold DEF Kept, Broken
<1>3. CASE OutputMask(r)
  <2> DEFINE s == [st[r] EXCEPT !.text = MaskPii(@)]
  <2>1. s.decision = st[r].decision /\ Return(r, s, {}, "Output")
    BY <1>0, <1>3 DEF AgentState, OutputMask
  <2> QED BY <1>2, <1>3, <2>1, PlainEvents DEF OutputMask, OwnStateOnly, dbVars
<1>4. CASE OutputNothing(r)
  BY <1>2, <1>4, PlainEvents DEF OutputNothing, OwnStateOnly, dbVars
<1>5. CASE Output(r)
  <2>1. Plainly({Metric("post_reply_result", "", TRUE)})
    BY PlainEvents DEF Telling
  <2> QED BY <1>2, <1>5, <2>1 DEF Output, dbVars
<1> QED BY <1>1, <1>3, <1>4, <1>5 DEF Answer

\* A handoff leaves for the logger with nothing told but that it was classified.
LEMMA HandoffTold ==
    ASSUME TypeOK, Inv, Told, NEW r \in Requests, HandoffSkipped(r) \/ HandoffMark(r)
    PROVE  Told'
<1>1. /\ pc[r] \in Alerting /\ Return(r, st[r], {}, "TelemetryLogger") /\ UNCHANGED metricRows
      /\ Local(pc[r], st[r], inquiry[r]) /\ Reported(pc[r], st[r], metrics[r])
  BY Start DEF Told, HandoffSkipped, HandoffMark, OwnStateOnly, dbVars, Alerting
<1>2. Reported("TelemetryLogger", st[r], metrics[r] \cup {})
  BY <1>1, PlainEvents, SameReport DEF Local, VerdictKnown
<1> QED BY <1>1, <1>2, ReturnTold DEF Alerting, Kept, Broken

\* The buffer is stored as it is.
LEMMA PersistTold ==
    ASSUME TypeOK, Inv, Told, NEW r \in Requests, Persist(r)
    PROVE  Told'
<1>1. /\ Reported(pc[r], st[r], metrics[r])
      /\ metricRows[r] # {} => pc[r] \in Kept /\ Reported("done", st[r], metricRows[r])
  BY DEF Told
<1>2. Plainly({}) /\ metrics[r] \cup {} = metrics[r]
  BY PlainEvents
<1> USE DEF Decided, Storing, Kept, Broken
<1>3. pc[r] \in Storing => \A next \in Storing : Reported(next, st[r], metrics[r])
  BY <1>1, <1>2, SameReport
<1>4. CASE LogEvent(r) \/ InsertMetrics(r)
  <2>1. PICK next, stored :
          /\ pc' = [pc EXCEPT ![r] = next] /\ metricRows' = [metricRows EXCEPT ![r] = stored]
          /\ pc[r] \in Storing \ Kept
          /\ \/ next = "InsertMetrics" /\ stored = metricRows[r]
             \/ next = "UpsertCase" /\ stored = metrics[r]
    BY <1>4 DEF LogEvent, InsertMetrics, TypeOK
  <2>2. st' = [st EXCEPT ![r] = st[r]] /\ metrics' = [metrics EXCEPT ![r] = metrics[r]]
    BY <1>4 DEF LogEvent, InsertMetrics, TypeOK
  <2>3. next = "InsertMetrics" => stored = {}
    BY <1>1, <2>1
  <2> QED BY <1>3, <2>1, <2>2, <2>3, OneTold
<1>5. CASE UpsertCase(r)
  <2>1. Return(r, st[r], {}, "done") /\ pc[r] \in Storing /\ UNCHANGED metricRows
    BY <1>5 DEF UpsertCase
  <2>2. Reported("done", st[r], metrics[r] \cup {})
    BY <1>2, <1>3, <2>1
  <2> QED BY <2>1, <2>2, ReturnTold
<1> QED BY <1>4, <1>5 DEF Persist

\* A node that raises adds its event and stores nothing.
LEMMA RaiseTold ==
    ASSUME TypeOK, Told, NEW r \in Requests, Raise(r)
    PROVE  Told'
<1> DEFINE broke == {Metric("node_execution", NodeOf(pc[r]), FALSE)}
<1>1. Plainly(broke)
  BY PlainEvents DEF Telling
<1>2. /\ metrics' = [metrics EXCEPT ![r] = metrics[r] \cup broke]
      /\ st' = [st EXCEPT ![r] = st[r]] /\ pc' = [pc EXCEPT ![r] = "failed"]
      /\ metricRows' = [metricRows EXCEPT ![r] = metricRows[r]]
  BY DEF Raise, TypeOK, dbVars
<1> HIDE DEF broke
<1>3. /\ Reported(pc[r], st[r], metrics[r])
      /\ metricRows[r] # {} => Reported("done", st[r], metricRows[r])
  BY DEF Told
<1>4. Reported("failed", st[r], metrics[r] \cup broke)
  BY <1>1, <1>3, SameReport DEF Broken
<1> QED BY <1>2, <1>3, <1>4, OneTold DEF Kept, Broken

\* The other steps move requests between places that say the same, or break them off.
LEMMA MoveTold ==
    ASSUME TypeOK, Inv, Told,
           \/ \E r \in Requests : ProcessCase(r) \/ HandoffCheck(r) \/ HandoffCall(r)
           \/ \E call \in late : McpRunsLate(call) \/ McpDropsLate(call)
           \/ Crash
    PROVE  Told'
<1>1. UNCHANGED <<st, metrics, metricRows>>
  BY DEF ProcessCase, HandoffCheck, HandoffCall, McpRunsLate, McpDropsLate, Crash, OwnStateOnly,
         requestVars, dbVars
<1>2. \A q \in Requests :
        \/ pc'[q] = pc[q]
        \/ pc[q] = "waiting" /\ pc'[q] = "NormalizeAndMask"
        \/ pc[q] \in Alerting /\ pc'[q] \in Alerting
        \/ pc'[q] = "lost"
  <2>1. CASE \E r \in Requests : ProcessCase(r) \/ HandoffCheck(r) \/ HandoffCall(r)
    BY <2>1 DEF ProcessCase, HandoffCheck, HandoffCall, TypeOK, Alerting
  <2>2. CASE \E call \in late : McpRunsLate(call) \/ McpDropsLate(call)
    BY <2>2 DEF McpRunsLate, McpDropsLate, requestVars
  <2>3. CASE Crash
    BY <2>3 DEF Crash
  <2> QED BY <2>1, <2>2, <2>3
<1>3. ASSUME NEW q \in Requests
      PROVE  /\ Reported(pc'[q], st[q], metrics[q])
             /\ metricRows[q] # {} => pc'[q] \in Kept /\ Reported("done", st[q], metricRows[q])
  <2>1. /\ Reported(pc[q], st[q], metrics[q])
        /\ metricRows[q] # {} => pc[q] \in Kept /\ Reported("done", st[q], metricRows[q])
    BY DEF Told
  <2>2. Plainly({}) /\ metrics[q] \cup {} = metrics[q]
    BY PlainEvents
  <2>3. CASE pc'[q] = pc[q]
    BY <2>1, <2>3
  <2>4. CASE pc[q] = "waiting" /\ pc'[q] = "NormalizeAndMask"
    BY <2>1, <2>4 DEF Reported, Kept, Routing, Planning, Drafting, Alerting, Decided, Storing, Broken
  <2>5. CASE pc[q] \in Alerting /\ pc'[q] \in Alerting
    <3>1. st[q].decision = "HANDOFF"
      BY <2>5, Start DEF Local, VerdictKnown
    <3>2. Reported(pc'[q], st[q], metrics[q])
      BY <2>1, <2>2, <2>5, <3>1, SameReport
    <3> QED BY <2>1, <2>5, <3>2 DEF Kept, Broken, Alerting
  <2>6. CASE pc'[q] = "lost"
    <3>1. Reported(pc'[q], st[q], metrics[q])
      BY <2>1, <2>2, <2>6, SameReport DEF Broken
    <3> QED BY <2>1, <2>6, <3>1 DEF Kept, Broken
  <2> QED BY <1>2, <2>3, <2>4, <2>5, <2>6
<1> QED BY <1>1, <1>3 DEF Told

LEMMA InitTold == Init => Told
<1> SUFFICES ASSUME Init, NEW r \in Requests
             PROVE  Reported(pc[r], st[r], metrics[r]) /\ metricRows[r] = {}
  BY DEF Told
<1>1. pc[r] = "waiting" /\ metrics[r] = {} /\ metricRows[r] = {}
  BY DEF Init
<1> QED BY <1>1 DEF Reported, Routing, Drafting, Decided, Storing

LEMMA NextTold == TypeOK /\ Inv /\ Told /\ [Next]_vars => Told'
<1> SUFFICES ASSUME TypeOK, Inv, Told, [Next]_vars PROVE Told'
  OBVIOUS
<1>1. CASE Next
  BY <1>1, BreaksRaise, RaiseTold, RouteTold, PlanTold, DraftTold, AnswerTold, HandoffTold,
     PersistTold, MoveTold DEF Next, Work, Handoff
<1>2. CASE UNCHANGED vars
  BY <1>2 DEF Told, vars, requestVars, dbVars
<1> QED BY <1>1, <1>2

\* The stored events of a request say what the dashboard takes them for, however the
\* request ended: the queries may count verdicts by them, and must count handoffs
\* by something else.
THEOREM EventsAreTheVerdict == Spec => []EventsTellTheVerdict
<1>1. Told => EventsTellTheVerdict
  <2> SUFFICES ASSUME Told, NEW r \in Requests, metricRows[r] # {}
               PROVE  LET told(name) == {m \in metricRows[r] : m.name = name}
                          verdict == st[r].decision
                      IN  /\ told("case_received") # {} /\ told("classification_completed") # {}
                          /\ told("tool_call") = {} <=> verdict = "HANDOFF"
                          /\ told("decision_made") =
                               IF verdict = "HANDOFF" THEN {}
                               ELSE {Metric("decision_made", verdict, TRUE)}
                          /\ FailedSearch \in metricRows[r] => verdict = "DRAFT"
    BY DEF EventsTellTheVerdict, FailedSearch
  <2>1. Reported("done", st[r], metricRows[r])
    BY DEF Told
  <2>2. /\ Received.name = "case_received" /\ ClassifiedEvent.name = "classification_completed"
        /\ DecisionEvent(st[r]).name = "decision_made"
    BY MetricName DEF Received, ClassifiedEvent, DecisionEvent
  <2> QED BY <2>1, <2>2 DEF Reported, DecisionEvent, Decided, Storing, Routing, Broken
<1> QED BY <1>1, InitTold, NextTold, Invariance, PTL DEF Spec
=============================================================================
