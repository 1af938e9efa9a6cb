---------------------------- MODULE CaseTypeProofs ----------------------------
(***************************************************************************)
(* The lemmas about texts, and type correctness of the pipeline, for every *)
(* set of requests, cases, inquiries, glossary entries and documents and   *)
(* for every combination of failures.                                      *)
(***************************************************************************)
EXTENDS CaseRequirements, TLAPS

-----------------------------------------------------------------------------
(* Lemmas about texts *)

\* mask_pii returns a text, leaves no exposed fragment, touches no risk keyword that
\* stands apart from one, and brings no banned word in.
LEMMA MaskPiiFacts ==
    ASSUME NEW text \in SUBSET Fragment
    PROVE  /\ MaskPii(text) \in SUBSET Fragment
           /\ \A f \in MaskPii(text) : ~Exposed(f)
           /\ HighRisk(MaskPii(text)) <=> HighRisk(text)
           /\ (\E f \in MaskPii(text) : Banned(f)) => (\E f \in text : Banned(f))
<1>1. Plain("mask") \in Fragment /\ ~Exposed(Plain("mask")) /\ ~Banned(Plain("mask"))
  BY ConfigAssumption DEF Plain, Fragment, Exposed, Banned
<1>2. MaskPii(text) \in SUBSET Fragment
  BY <1>1 DEF MaskPii
<1>3. \A f \in MaskPii(text) : ~Exposed(f)
  BY <1>1 DEF MaskPii
<1>4. HighRisk(MaskPii(text)) <=> HighRisk(text)
  BY DEF MaskPii, HighRisk, Exposed, Plain
<1>5. (\E f \in MaskPii(text) : Banned(f)) => (\E f \in text : Banned(f))
  BY <1>1 DEF MaskPii
<1> QED BY <1>2, <1>3, <1>4, <1>5

\* Striking the banned word out of a text leaves a text.
LEMMA StripBannedType ==
    ASSUME NEW text \in SUBSET Fragment
    PROVE  StripBanned(text) \in SUBSET Fragment
<1>1. ASSUME NEW f \in text, Banned(f)
      PROVE  [f EXCEPT !.d = @ - 1] \in Fragment
  BY <1>1, ConfigAssumption DEF Banned, Fragment
<1>2. ASSUME NEW f \in text, f.d > 1
      PROVE  Banned(f)
  BY <1>2 DEF Banned, Fragment
<1> QED BY <1>1, <1>2 DEF StripBanned

\* What a node is given and what it hands on are texts.
LEMMA InquiryType ==
    ASSUME NEW q \in Inquiries
    PROVE  /\ q.case \in Cases /\ q.title \in Fragment /\ q.body \in SUBSET Fragment
           /\ q.kind \in {"delay", "damage", "other"} /\ q.files \in BOOLEAN
BY InputsAssumption DEF InquiryShape

LEMMA SanitizeType ==
    ASSUME NEW text \in SUBSET Fragment
    PROVE  SanitizeTemplateText(text) \in SUBSET Fragment
BY MaskPiiFacts, StripBannedType DEF SanitizeTemplateText

-----------------------------------------------------------------------------
(* Type correctness *)

Places == {"waiting"} \cup Nodes \cup Inner \cup Ended

LEMMA NodeOfType ==
    ASSUME NEW place \in Nodes \cup Inner
    PROVE  NodeOf(place) \in Nodes
BY DEF NodeOf, Nodes, Inner

\* A node that returns a state, and one that raises, keep the types.
LEMMA ReturnType ==
    ASSUME TypeOK, NEW r \in Requests, pc[r] \in Nodes \cup Inner,
           NEW s \in AgentState, NEW events \in SUBSET Metrics, NEW next \in Places,
           Return(r, s, events, next)
    PROVE  /\ st' \in [Requests -> AgentState]
           /\ metrics' \in [Requests -> SUBSET Metrics]
           /\ pc' \in [Requests -> Places]
<1>1. Metric("node_execution", NodeOf(pc[r]), TRUE) \in Metrics
  BY NodeOfType DEF Metric, Metrics, MetricNames
<1> QED BY <1>1 DEF Return, TypeOK, Places

LEMMA RaiseType ==
    ASSUME TypeOK, NEW r \in Requests, pc[r] \in Nodes \cup Inner, Raise(r)
    PROVE  TypeOK'
<1>1. Metric("node_execution", NodeOf(pc[r]), FALSE) \in Metrics
  BY NodeOfType DEF Metric, Metrics, MetricNames
<1>2. metrics' \in [Requests -> SUBSET Metrics]
  BY <1>1 DEF Raise, TypeOK
<1>3. pc' \in [Requests -> Places]
  BY DEF Raise, TypeOK, Places, Ended
<1> QED BY <1>2, <1>3 DEF Raise, TypeOK, Places, dbVars, worldVars, fixedVars

\* So does a node that works on its own state only.
LEMMA OwnStepType ==
    ASSUME TypeOK, NEW r \in Requests, pc[r] \in Nodes \cup Inner,
           NEW s \in AgentState, NEW events \in SUBSET Metrics, NEW next \in Places,
           Return(r, s, events, next), OwnStateOnly
    PROVE  TypeOK'
<1>1. /\ st' \in [Requests -> AgentState]
      /\ metrics' \in [Requests -> SUBSET Metrics]
      /\ pc' \in [Requests -> Places]
  BY ReturnType
<1> QED BY <1>1 DEF TypeOK, Places, OwnStateOnly, dbVars, worldVars, fixedVars

\* A state is still one with another verdict in it.
LEMMA VerdictType ==
    ASSUME NEW s \in AgentState, NEW v \in Verdicts, NEW why \in Reasons
    PROVE  [s EXCEPT !.decision = v, !.reason = why] \in AgentState
BY DEF AgentState

LEMMA EmptyStateType == EmptyState \in AgentState
BY ConfigAssumption DEF EmptyState, AgentState, Verdicts, Reasons

LEMMA InitType == Init => TypeOK
<1> SUFFICES ASSUME Init PROVE TypeOK
  OBVIOUS
<1>1. glossaryLoaded \in BOOLEAN
  BY DEF Init
<1>2. st \in [Requests -> AgentState]
  BY EmptyStateType DEF Init
<1> QED BY <1>1, <1>2 DEF Init, TypeOK

\* The engine runs only tools it knows, and the knowledge search among them.
LEMMA ToolsRunType ==
    ASSUME NEW mode
    PROVE  ToolsRun(mode) \subseteq Tools /\ "rag_search" \in ToolsRun(mode)
BY DEF ToolsRun, StepsOf, Tools, Min2, MaxTools

\* The nodes from NormalizeAndMask to PlanEngine keep the types.
LEMMA PlanType ==
    ASSUME TypeOK, NEW r \in Requests,
           NormalizeAndMask(r) \/ ClassifyRiskRoute(r) \/ Plan(r)
    PROVE  TypeOK'
<1> USE DEF Nodes, Inner, Places
<1>0. st[r] \in AgentState /\ inquiry[r] \in Inquiries
  BY DEF TypeOK
<1>1. CASE NormalizeAndMask(r)
  <2>1. {inquiry[r].title} \cup inquiry[r].body \in SUBSET Fragment
    BY <1>0, InquiryType
  <2>2. [st[r] EXCEPT !.masked = MaskPii({inquiry[r].title} \cup inquiry[r].body)] \in AgentState
    BY <1>0, <2>1, MaskPiiFacts DEF AgentState
  <2>3. {Metric("case_received", "", TRUE)} \in SUBSET Metrics
    BY DEF Metric, Metrics, MetricNames
  <2> QED BY <1>1, <2>2, <2>3, OwnStepType DEF NormalizeAndMask
<1>2. CASE ClassifyRiskRoute(r)
  <2>1. PICK judged \in Judgements(st[r].masked) :
          IF IsHandoff(st[r].masked, judged)
          THEN Return(r, [st[r] EXCEPT !.labels = judged.labels, !.decision = "HANDOFF",
                                       !.reason = "high_risk"], Classified, "HandoffNotify")
          ELSE Return(r, [st[r] EXCEPT !.labels = judged.labels], Classified, "PreVisionNeedGate")
    BY <1>2 DEF ClassifyRiskRoute
  <2>2. judged.labels \in SUBSET Labels
    BY DEF Judgements, Labels
  <2>3. /\ [st[r] EXCEPT !.labels = judged.labels, !.decision = "HANDOFF",
                         !.reason = "high_risk"] \in AgentState
        /\ [st[r] EXCEPT !.labels = judged.labels] \in AgentState
    BY <1>0, <2>2 DEF AgentState, Verdicts, Reasons
  <2>4. Classified \in SUBSET Metrics
    BY DEF Classified, Metric, Metrics, MetricNames
  <2> QED BY <1>2, <2>1, <2>3, <2>4, OwnStepType DEF ClassifyRiskRoute
<1>3. CASE PreVisionNeedGate(r)
  <2>1. (inquiry[r].files /\ st[r].labels \cap EnabledIntents # {}) \in BOOLEAN
    OBVIOUS
  <2>2. [st[r] EXCEPT !.need = inquiry[r].files /\ st[r].labels \cap EnabledIntents # {}]
          \in AgentState
    BY <1>0, <2>1 DEF AgentState
  <2> QED BY <1>3, <2>2, OwnStepType DEF PreVisionNeedGate
<1>4. CASE PreVisionSkipped(r)
  <2>1. [st[r] EXCEPT !.vision = "skipped"] \in AgentState
    BY <1>0 DEF AgentState
  <2> QED BY <1>4, <2>1, OwnStepType DEF PreVisionSkipped
<1>5. CASE PreVision(r)
  <2>1. \A a : Triage(a) \in {"unknown", "damage", "misdelivery"}
    BY DEF Triage, TopScore
  <2>2. \A a, by : by \in {"answer", "fallback"} =>
          [st[r] EXCEPT !.vision = Triage(a), !.seen = by] \in AgentState
    BY <1>0, <2>1 DEF AgentState
  <2>3. PICK s \in AgentState : Return(r, s, {}, "PolicyLoader")
    BY <1>5, <2>2 DEF PreVision
  <2> QED BY <1>5, <2>3, OwnStepType DEF PreVision
<1>6. CASE PolicyLoader(r)
  <2>1. [st[r] EXCEPT !.autoPost = PolicyOf(inquiry[r].kind).autoPost] \in AgentState
    BY <1>0 DEF AgentState, PolicyOf
  <2> QED BY <1>6, <2>1, OwnStepType DEF PolicyLoader
<1>7. CASE PlanBuilder(r)
  <2>1. [st[r] EXCEPT !.mode = PolicyOf(inquiry[r].kind).mode] \in AgentState
    BY <1>0 DEF AgentState, PolicyOf
  <2>2. {Metric("rag_query_expansion", "", TRUE)} \in SUBSET Metrics
    BY DEF Metric, Metrics, MetricNames
  <2> QED BY <1>7, <2>1, <2>2, OwnStepType DEF PlanBuilder
<1>8. CASE PlanEngine(r)
  <2> DEFINE ran == ToolsRun(st[r].mode)
             failed(o) == {t \in ran : ReportsFailure(t, o[t])}
             spent == Len(StepsOf(st[r].mode)) > MaxTools
             traced(o) == [st[r] EXCEPT !.trace = {Call(t, o[t]) : t \in ran}]
             next(o) == IF failed(o) = {} /\ ~spent THEN traced(o)
                        ELSE [traced(o) EXCEPT !.decision = "DRAFT",
                                !.reason = IF spent THEN "budget_exceeded" ELSE "tool_failure"]
             events(o) == {Metric("tool_call", t, t \notin failed(o)) : t \in ran}
  <2>1. PICK o \in [ran -> {"answer", "error", "fallback"}] :
          Return(r, next(o), events(o), "ResponseModeGate")
    BY <1>8 DEF PlanEngine
  <2>2. ran \subseteq Tools
    BY ToolsRunType
  <2>3. traced(o) \in AgentState
    BY <1>0, <2>2 DEF AgentState, Call, Calls
  <2>4. "DRAFT" \in Verdicts /\ {"budget_exceeded", "tool_failure"} \subseteq Reasons
    BY DEF Verdicts, Reasons
  <2>5. next(o) \in AgentState
    <3> HIDE DEF traced, failed, spent
    <3> QED BY <2>3, <2>4, VerdictType
  <2>6. \A t \in Tools : \A ok \in BOOLEAN : Metric("tool_call", t, ok) \in Metrics
    BY DEF Metric, Metrics, MetricNames
  <2>7. \A t : (t \notin failed(o)) \in BOOLEAN
    OBVIOUS
  <2>8. events(o) \in SUBSET Metrics
    <3> HIDE DEF failed, ran
    <3> QED BY <2>2, <2>6, <2>7
  <2> HIDE DEF next, events
  <2> QED BY <1>8, <2>1, <2>5, <2>8, OwnStepType DEF PlanEngine
<1> QED BY <1>1, <1>2, <1>3, <1>4, <1>5, <1>6, <1>7, <1>8 DEF Plan

\* So do TermExtract, and the nodes from ResponseModeGate to ValidateGrounding.
LEMMA TermExtractType ==
    ASSUME TypeOK, NEW r \in Requests, TermExtract(r)
    PROVE  TypeOK'
<1>1. PICK found \in SUBSET Glossary : Return(r, [st[r] EXCEPT !.terms = found],
                                           {Metric("glossary_extract", "", TRUE)}, "ClassifyRiskRoute")
  BY DEF TermExtract
<1>a. {Metric("glossary_extract", "", TRUE)} \in SUBSET Metrics
  BY DEF Metric, Metrics, MetricNames
<1>0. st[r] \in AgentState
  BY DEF TypeOK
<1>2. [st[r] EXCEPT !.terms = found] \in AgentState
  BY <1>0 DEF AgentState
<1>3. /\ st' \in [Requests -> AgentState]
      /\ metrics' \in [Requests -> SUBSET Metrics]
      /\ pc' \in [Requests -> Places]
  BY <1>1, <1>2, <1>a, ReturnType DEF TermExtract, Nodes, Places
<1>4. glossaryLoaded' \in BOOLEAN
  BY DEF TermExtract
<1> QED BY <1>3, <1>4 DEF TermExtract, TypeOK, Places, dbVars, worldVars, fixedVars

LEMMA DraftType ==
    ASSUME TypeOK, NEW r \in Requests, Draft(r)
    PROVE  TypeOK'
<1> USE DEF Nodes, Inner, Places
<1>0. /\ st[r] \in AgentState /\ inquiry[r] \in Inquiries
      /\ inquiry[r].title \in Fragment /\ inquiry[r].body \in SUBSET Fragment
  BY InquiryType DEF TypeOK
<1>a. \A kind \in {"label", "template", "note"} : Plain(kind) \in Fragment
  BY ConfigAssumption DEF Plain, Fragment
<1>b. \A text \in SUBSET Fragment : [st[r] EXCEPT !.text = text] \in AgentState
  BY <1>0 DEF AgentState
<1>c. \A phase \in {"PII", "POLICY", "GROUNDING"} : \A ok \in BOOLEAN :
         Metric("validator_result", phase, ok) \in Metrics
  BY DEF Metric, Metrics, MetricNames
<1>d. st[r].text \in SUBSET Fragment /\ st[r].terms \in SUBSET Fragment
  BY <1>0, InputsAssumption DEF AgentState
<1>1. CASE ResponseModeGate(r)
  BY <1>0, <1>1, OwnStepType DEF ResponseModeGate
<1>2. CASE ScenarioSubgraph(r)
  <2> DEFINE sections == {Plain("label"), Plain("template")}
                           \cup (IF ExposeGlossary THEN st[r].terms ELSE {})
  <2>1. SanitizeTemplateText(sections) \in SUBSET Fragment
    BY <1>a, <1>d, SanitizeType
  <2> QED BY <1>2, <1>b, <2>1, OwnStepType DEF ScenarioSubgraph
<1>3. CASE AgentGenerateSubgraph(r)
  <2>1. PICK kept \in SUBSET MaskPii(inquiry[r].body), quoted \in SUBSET Documents :
          Return(r, [st[r] EXCEPT !.cited = TRUE, !.text = SanitizeTemplateText(
                       MaskPii({inquiry[r].title}) \cup kept \cup quoted)],
                 {}, "ValidatePII")
    BY <1>3 DEF AgentGenerateSubgraph
  <2>2. MaskPii({inquiry[r].title}) \in SUBSET Fragment /\ MaskPii(inquiry[r].body) \in SUBSET Fragment
    BY <1>0, MaskPiiFacts
  <2>3. SanitizeTemplateText(MaskPii({inquiry[r].title}) \cup kept \cup quoted) \in SUBSET Fragment
    BY <2>2, SanitizeType, InputsAssumption
  <2>4. \A text \in SUBSET Fragment : [st[r] EXCEPT !.cited = TRUE, !.text = text] \in AgentState
    BY <1>0 DEF AgentState
  <2> QED BY <1>3, <2>1, <2>3, <2>4, OwnStepType DEF AgentGenerateSubgraph
<1>4. CASE ValidatePII(r)
  <2>1. [st[r] EXCEPT !.text = MaskPii(st[r].text)] \in AgentState
    BY <1>b, <1>d, MaskPiiFacts
  <2>2. (MaskPii(st[r].text) = st[r].text) \in BOOLEAN
    OBVIOUS
  <2>3. {Metric("validator_result", "PII", MaskPii(st[r].text) = st[r].text)} \in SUBSET Metrics
    BY <1>c, <2>2
  <2> QED BY <1>4, <2>1, <2>3, OwnStepType DEF ValidatePII
<1>5. CASE ValidatePolicy(r)
  <2>1. [st[r] EXCEPT !.text = StripBanned(st[r].text)] \in AgentState
    BY <1>b, <1>d, StripBannedType
  <2>2. (~ \E f \in st[r].text : Banned(f)) \in BOOLEAN
    OBVIOUS
  <2>3. {Metric("validator_result", "POLICY", ~ \E f \in st[r].text : Banned(f))} \in SUBSET Metrics
    BY <1>c, <2>2
  <2> QED BY <1>5, <2>1, <2>3, OwnStepType DEF ValidatePolicy
<1>6. CASE ValidateGrounding(r)
  <2> DEFINE score(m) == Score(st[r].text, inquiry[r].title, st[r].cited, m)
             scored(m) == [st[r] EXCEPT !.score = score(m),
                             !.retry = IF Rewrites(score(m), @) THEN @ + 1 ELSE @,
                             !.text = IF Rewrites(score(m), st[r].retry)
                                      THEN @ \cup {Plain("note")} ELSE @]
             passed(m) == Passes(score(m), st[r].retry)
             next(m) == IF passed(m) THEN scored(m)
                        ELSE [scored(m) EXCEPT !.decision = "DRAFT", !.reason = "grounding_low_score"]
  <2>1. PICK m \in 0..Cardinality(st[r].terms) :
          Return(r, next(m), {Metric("validator_result", "GROUNDING", passed(m))}, "Decision")
    BY <1>6 DEF ValidateGrounding
  <2>2. score(m) \in Int
    BY DEF Score, Min2
  <2>3. \A x \in Int : Rewrites(x, st[r].retry) => st[r].retry + 1 \in 0..MaxRewrite
    BY <1>0, ConfigAssumption DEF Rewrites, AgentState
  <2>4. scored(m) \in AgentState
    <3> HIDE DEF score
    <3>1. (IF Rewrites(score(m), st[r].retry) THEN st[r].retry + 1 ELSE st[r].retry) \in 0..MaxRewrite
      BY <1>0, <2>2, <2>3 DEF AgentState
    <3>2. (IF Rewrites(score(m), st[r].retry) THEN st[r].text \cup {Plain("note")} ELSE st[r].text)
            \in SUBSET Fragment
      BY <1>a, <1>d
    <3> QED BY <1>0, <2>2, <3>1, <3>2 DEF AgentState
  <2>5. "DRAFT" \in Verdicts /\ "grounding_low_score" \in Reasons
    BY DEF Verdicts, Reasons
  <2>6. next(m) \in AgentState
    <3> HIDE DEF scored, passed
    <3> QED BY <2>4, <2>5, VerdictType
  <2>7. passed(m) \in BOOLEAN
    BY DEF Passes
  <2>8. {Metric("validator_result", "GROUNDING", passed(m))} \in SUBSET Metrics
    <3> HIDE DEF passed
    <3> QED BY <1>c, <2>7
  <2> HIDE DEF next, passed
  <2> QED BY <1>6, <2>1, <2>6, <2>8, OwnStepType DEF ValidateGrounding
<1> QED BY <1>1, <1>2, <1>3, <1>4, <1>5, <1>6 DEF Draft

\* So do the verdict and the reply,
LEMMA AnswerType ==
    ASSUME TypeOK, NEW r \in Requests, Answer(r)
    PROVE  TypeOK'
<1> USE DEF Nodes, Inner, Places
<1>0. st[r] \in AgentState /\ st[r].text \in SUBSET Fragment
  BY DEF TypeOK, AgentState
<1>1. CASE DecisionNode(r)
  <2>1. Decide(st[r]) \in AgentState
    <3>1. [st[r] EXCEPT !.decision = "AUTO_POST"] \in AgentState
      BY <1>0 DEF AgentState, Verdicts
    <3>2. [st[r] EXCEPT !.decision = "DRAFT", !.reason = "policy_restrict"] \in AgentState
      BY <1>0, VerdictType DEF Verdicts, Reasons
    <3> QED BY <1>0, <3>1, <3>2 DEF Decide
  <2>2. \A v \in Verdicts : Metric("decision_made", v, TRUE) \in Metrics
    BY DEF Metric, Metrics, MetricNames
  <2>3. Decide(st[r]).decision \in Verdicts
    BY <2>1 DEF AgentState
  <2>4. {Metric("decision_made", Decide(st[r]).decision, TRUE)} \in SUBSET Metrics
    BY <2>2, <2>3
  <2> QED BY <1>1, <2>1, <2>4, OwnStepType DEF DecisionNode
<1>2. CASE OutputMask(r)
  <2>1. [st[r] EXCEPT !.text = MaskPii(st[r].text)] \in AgentState
    BY <1>0, MaskPiiFacts DEF AgentState
  <2> QED BY <1>2, <2>1, OwnStepType DEF OutputMask
<1>3. CASE OutputNothing(r)
  BY <1>0, <1>3, OwnStepType DEF OutputNothing
<1>4. CASE Output(r)
  <2>1. {Metric("post_reply_result", "", TRUE)} \in SUBSET Metrics
    BY DEF Metric, Metrics, MetricNames
  <2>2. /\ st' \in [Requests -> AgentState]
        /\ metrics' \in [Requests -> SUBSET Metrics]
        /\ pc' \in [Requests -> Places]
    BY <1>0, <1>4, <2>1, ReturnType DEF Output
  <2>3. /\ replies' \subseteq [tool : {"post_reply"}, req : Requests, text : SUBSET Fragment]
        /\ late' \subseteq [tool : {"post_reply", "notify_handoff"}, req : Requests,
                            text : SUBSET Fragment]
    <3>1. /\ Post(r) \in [tool : {"post_reply"}, req : Requests, text : SUBSET Fragment]
          /\ Post(r) \in [tool : {"post_reply", "notify_handoff"}, req : Requests,
                          text : SUBSET Fragment]
      BY <1>0 DEF Post
    <3> QED BY <1>4, <3>1 DEF Output, TypeOK
  <2> QED BY <1>4, <2>2, <2>3 DEF Output, TypeOK, dbVars, fixedVars
<1> QED BY <1>1, <1>2, <1>3, <1>4 DEF Answer

\* the handoff,
LEMMA HandoffType ==
    ASSUME TypeOK, NEW r \in Requests, Handoff(r)
    PROVE  TypeOK'
<1> USE DEF Nodes, Inner, Places
<1>0. st[r] \in AgentState /\ Case(r) \in Cases
  BY InquiryType DEF TypeOK, Case
<1>1. CASE HandoffSkipped(r)
  BY <1>0, <1>1, OwnStepType DEF HandoffSkipped
<1>2. CASE HandoffCheck(r)
  BY <1>2 DEF HandoffCheck, TypeOK, OwnStateOnly, dbVars, worldVars, fixedVars
<1>3. CASE HandoffCall(r)
  <2>1. /\ alerts' \subseteq Requests
        /\ late' \subseteq [tool : {"post_reply", "notify_handoff"}, req : Requests,
                            text : SUBSET Fragment]
    BY <1>3 DEF HandoffCall, Delivers, Notify, TypeOK
  <2> QED BY <1>3, <2>1 DEF HandoffCall, TypeOK, dbVars, fixedVars
<1>4. CASE HandoffMark(r)
  <2>1. /\ st' \in [Requests -> AgentState]
        /\ metrics' \in [Requests -> SUBSET Metrics]
        /\ pc' \in [Requests -> Places]
    BY <1>0, <1>4, ReturnType DEF HandoffMark
  <2> QED BY <1>0, <1>4, <2>1 DEF HandoffMark, TypeOK, worldVars, fixedVars
<1> QED BY <1>1, <1>2, <1>3, <1>4 DEF Handoff

\* and the three transactions of the logger.
LEMMA PersistType ==
    ASSUME TypeOK, NEW r \in Requests, Persist(r)
    PROVE  TypeOK'
<1> USE DEF Nodes, Inner, Places, Ended
<1>0. st[r] \in AgentState /\ Case(r) \in Cases
  BY InquiryType DEF TypeOK, Case
<1>1. CASE LogEvent(r)
  BY <1>1 DEF LogEvent, TypeOK, worldVars, fixedVars
<1>2. CASE InsertMetrics(r)
  BY <1>2 DEF InsertMetrics, TypeOK, worldVars, fixedVars
<1>3. CASE UpsertCase(r)
  <2>1. /\ st' \in [Requests -> AgentState]
        /\ metrics' \in [Requests -> SUBSET Metrics]
        /\ pc' \in [Requests -> Places]
    BY <1>0, <1>3, ReturnType DEF UpsertCase
  <2>2. caseRow' \in [Cases -> Requests \cup {"none"}]
    BY <1>0, <1>3 DEF UpsertCase, TypeOK
  <2> QED BY <1>3, <2>1, <2>2 DEF UpsertCase, TypeOK, worldVars, fixedVars
<1> QED BY <1>1, <1>2, <1>3 DEF Persist

\* Whatever happens around the requests keeps the types too.
LEMMA FailType ==
    ASSUME TypeOK, NEW r \in Requests, Breaks(r) \/ SlotExtractionFails(r)
    PROVE  TypeOK'
<1>1. pc[r] \in Nodes \cup Inner /\ Raise(r)
  BY DEF Breaks, GlossaryLoadFails, ClassificationFails, VisionAnswerMalformed, DbFails,
         SlotExtractionFails, Nodes, Inner
<1> QED BY <1>1, RaiseType

LEMMA WorldType ==
    ASSUME TypeOK,
           \/ \E r \in Requests : ProcessCase(r)
           \/ \E call \in late : McpRunsLate(call) \/ McpDropsLate(call)
           \/ Crash
    PROVE  TypeOK'
<1>1. CASE \E r \in Requests : ProcessCase(r)
  BY <1>1 DEF ProcessCase, TypeOK, Nodes, dbVars, worldVars
<1>2. CASE \E call \in late : McpRunsLate(call) \/ McpDropsLate(call)
  <2>1. PICK call \in late : McpRunsLate(call) \/ McpDropsLate(call)
    BY <1>2
  <2>2. /\ call.req \in Requests /\ late' \subseteq late
        /\ call.tool = "post_reply" =>
             call \in [tool : {"post_reply"}, req : Requests, text : SUBSET Fragment]
    BY <2>1 DEF McpRunsLate, McpDropsLate, TypeOK
  <2>3. /\ replies' \subseteq [tool : {"post_reply"}, req : Requests, text : SUBSET Fragment]
        /\ alerts' \subseteq Requests
    BY <2>1, <2>2 DEF McpRunsLate, McpDropsLate, Delivers, TypeOK
  <2>4. /\ pc' = pc /\ st' = st /\ metrics' = metrics /\ inquiry' = inquiry
        /\ glossaryLoaded' = glossaryLoaded /\ handoffRows' = handoffRows /\ logged' = logged
        /\ metricRows' = metricRows /\ caseRow' = caseRow /\ alertCalls' = alertCalls
        /\ doneBefore' = doneBefore /\ env' = env
    BY <2>1 DEF McpRunsLate, McpDropsLate, requestVars, dbVars, fixedVars
  <2> QED BY <2>2, <2>3, <2>4 DEF TypeOK
<1>3. CASE Crash
  <2>1. pc' \in [Requests -> Places] /\ glossaryLoaded' \in BOOLEAN
    BY <1>3 DEF Crash, TypeOK, Places, Ended
  <2> QED BY <1>3, <2>1 DEF Crash, TypeOK, Places, dbVars, worldVars, fixedVars
<1> QED BY <1>1, <1>2, <1>3

LEMMA NextType == TypeOK /\ [Next]_vars => TypeOK'
<1> SUFFICES ASSUME TypeOK, [Next]_vars PROVE TypeOK'
  OBVIOUS
<1>1. CASE Next
  <2>1. ASSUME NEW r \in Requests, Work(r) \/ Breaks(r)
        PROVE  TypeOK'
    BY <2>1, PlanType, TermExtractType, DraftType, AnswerType, HandoffType, PersistType, FailType
       DEF Work
  <2> QED BY <1>1, <2>1, WorldType DEF Next
<1>2. CASE UNCHANGED vars
  BY <1>2 DEF TypeOK, vars, requestVars, dbVars, worldVars, fixedVars
<1> QED BY <1>1, <1>2

\* The variables keep their types, whatever is asked and whatever fails.
THEOREM TypeCorrect == Spec => []TypeOK
BY InitType, NextType, PTL DEF Spec
=============================================================================
