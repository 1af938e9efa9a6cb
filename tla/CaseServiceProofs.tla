--------------------------- MODULE CaseServiceProofs ---------------------------
(***************************************************************************)
(* The pipeline implements CaseService: every node is a step of the        *)
(* abstract service, or none that is seen.  On the way, what the handoff   *)
(* keeps between requests: no case is marked that nobody was asked to be   *)
(* notified of, and none is asked for again once a handoff completed.      *)
(***************************************************************************)
EXTENDS CasePipelineProofs

-----------------------------------------------------------------------------
(* The steps, by what they touch *)

\* A node whose work stays inside the request's state.
Inside(r) == \/ NormalizeAndMask(r) \/ TermExtract(r) \/ ClassifyRiskRoute(r) \/ Plan(r)
             \/ Draft(r) \/ DecisionNode(r) \/ OutputMask(r)
Before == Nodes \ (Alerting \cup Storing)

LEMMA InsideStep ==
    ASSUME TypeOK, Inv, NEW r \in Requests, Inside(r)
    PROVE  /\ pc[r] \in Before /\ pc'[r] \in Before \cup {"HandoffNotify"}
           /\ pc'[r] \in {"OutputMask", "Output"} => DecisionNode(r) \/ OutputMask(r)
           /\ \A q \in Requests : q # r => pc'[q] = pc[q] /\ st'[q] = st[q]
           /\ UNCHANGED <<env, inquiry, doneBefore, handoffRows, metricRows, caseRow, alertCalls, replies>>
<1> DEFINE Moves(n) ==
             /\ \E s, events : Return(r, s, events, n)
             /\ n \in {"OutputMask", "Output"} => DecisionNode(r) \/ OutputMask(r)
<1>1. \E n \in Before \cup {"HandoffNotify"} : Moves(n)
  <2> USE DEF Before, Nodes, Alerting, Storing
  <2>1. CASE NormalizeAndMask(r)
    <3>1. Moves("TermExtract")
      BY <2>1 DEF NormalizeAndMask
    <3> QED BY <3>1
  <2>2. CASE TermExtract(r)
    <3>1. Moves("ClassifyRiskRoute")
      BY <2>2 DEF TermExtract
    <3> QED BY <3>1
  <2>3. CASE ClassifyRiskRoute(r)
    <3>1. Moves("HandoffNotify") \/ Moves("PreVisionNeedGate")
      BY <2>3 DEF ClassifyRiskRoute
    <3> QED BY <3>1
  <2>4. CASE Plan(r)
    <3>1. \/ Moves("PreVision") \/ Moves("PolicyLoader") \/ Moves("PlanBuilder")
          \/ Moves("PlanEngine") \/ Moves("ResponseModeGate")
      <4>1. CASE PreVision(r)
        BY <4>1 DEF PreVision
      <4>2. CASE PlanEngine(r)
        BY <4>2 DEF PlanEngine
      <4> QED BY <2>4, <4>1, <4>2
              DEF Plan, PreVisionNeedGate, PreVisionSkipped, PolicyLoader, PlanBuilder
    <3> QED BY <3>1
  <2>5. CASE Draft(r)
    <3>1. \/ Moves("ValidatePII") \/ Moves("ValidatePolicy") \/ Moves("ValidateGrounding")
          \/ Moves("Decision") \/ Moves("ScenarioSubgraph") \/ Moves("AgentGenerateSubgraph")
      <4>1. CASE ResponseModeGate(r)
        BY <4>1 DEF ResponseModeGate
      <4>2. CASE AgentGenerateSubgraph(r)
        BY <4>2 DEF AgentGenerateSubgraph
      <4>3. CASE ValidateGrounding(r)
        BY <4>3 DEF ValidateGrounding
      <4> QED BY <2>5, <4>1, <4>2, <4>3 DEF Draft, ScenarioSubgraph, ValidatePII, ValidatePolicy
    <3> QED BY <3>1
  <2>6. CASE DecisionNode(r)
    <3>1. Moves("OutputMask")
      BY <2>6 DEF DecisionNode
    <3> QED BY <3>1
  <2>7. CASE OutputMask(r)
    <3>1. Moves("Output")
      BY <2>7 DEF OutputMask
    <3> QED BY <3>1
  <2> QED BY <2>1, <2>2, <2>3, <2>4, <2>5, <2>6, <2>7 DEF Inside
<1>2. PICK n \in Before \cup {"HandoffNotify"} : Moves(n)
  BY <1>1
<1>3. /\ pc'[r] = n
      /\ n \in {"OutputMask", "Output"} => DecisionNode(r) \/ OutputMask(r)
      /\ \A q \in Requests : q # r => pc'[q] = pc[q] /\ st'[q] = st[q]
  BY <1>2 DEF Return, TypeOK
<1>4. pc[r] \in Before
  BY DEF Inside, Plan, Draft, NormalizeAndMask, TermExtract, ClassifyRiskRoute, DecisionNode,
         OutputMask, PreVisionNeedGate, PreVisionSkipped, PreVision, PolicyLoader, PlanBuilder,
         PlanEngine, ResponseModeGate, ScenarioSubgraph, AgentGenerateSubgraph, ValidatePII,
         ValidatePolicy, ValidateGrounding, Before, Nodes, Alerting, Storing
<1>5. UNCHANGED <<env, inquiry, doneBefore, handoffRows, metricRows, caseRow, alertCalls, replies>>
  <2> USE DEF OwnStateOnly, dbVars, worldVars, fixedVars
  <2>1. CASE TermExtract(r)
    BY <2>1 DEF TermExtract
  <2>2. CASE ~TermExtract(r)
    <3>1. OwnStateOnly
      BY <2>2 DEF Inside, Plan, Draft, NormalizeAndMask, ClassifyRiskRoute, DecisionNode, OutputMask,
         PreVisionNeedGate, PreVisionSkipped, PreVision, PolicyLoader, PlanBuilder, PlanEngine,
         ResponseModeGate, ScenarioSubgraph, AgentGenerateSubgraph, ValidatePII, ValidatePolicy,
         ValidateGrounding
    <3> QED BY <3>1
  <2> QED BY <2>1, <2>2
<1> QED BY <1>3, <1>4, <1>5

\* Such a node gives a verdict only where there is none.
LEMMA InsideVerdict ==
    ASSUME TypeOK, Inv, NEW r \in Requests, Inside(r)
    PROVE  st'[r].decision = st[r].decision \/ st[r].decision = "none"
<1>0. /\ st[r] \in AgentState /\ Local(pc[r], st[r], inquiry[r])
      /\ \A s, events, next : Return(r, s, events, next) => st'[r] = s
  BY Start DEF Return, TypeOK
<1>1. CASE pc[r] \in Routing \cup Planning
  BY <1>0, <1>1 DEF Local, VerdictKnown
<1>2. CASE pc[r] \notin Routing \cup Planning
  <2>1. ~NormalizeAndMask(r) /\ ~TermExtract(r) /\ ~ClassifyRiskRoute(r) /\ ~Plan(r)
    BY <1>2 DEF Routing, Planning, NormalizeAndMask, TermExtract, ClassifyRiskRoute, Plan,
       PreVisionNeedGate, PreVisionSkipped, PreVision, PolicyLoader, PlanBuilder, PlanEngine
  <2>2. CASE ResponseModeGate(r)
    BY <1>0, <2>2 DEF ResponseModeGate
  <2>3. CASE \/ ScenarioSubgraph(r) \/ AgentGenerateSubgraph(r) \/ ValidatePII(r)
             \/ ValidatePolicy(r) \/ OutputMask(r)
    <3>1. PICK cited, text : st'[r] = [st[r] EXCEPT !.cited = cited, !.text = text]
                             \/ st'[r] = [st[r] EXCEPT !.text = text]
      BY <1>0, <2>3 DEF ScenarioSubgraph, AgentGenerateSubgraph, ValidatePII, ValidatePolicy,
                        OutputMask
    <3> QED BY <1>0, <3>1 DEF AgentState
  <2>4. CASE ValidateGrounding(r)
    <3>1. st[r].decision \in {"none", "DRAFT"}
      BY <1>0, <2>4 DEF ValidateGrounding, Local, VerdictKnown, Drafting
    <3> DEFINE score(m) == Score(st[r].text, inquiry[r].title, st[r].cited, m)
               scored(m) == [st[r] EXCEPT !.score = score(m),
                               !.retry = IF Rewrites(score(m), @) THEN @ + 1 ELSE @,
                               !.text = IF Rewrites(score(m), st[r].retry)
                                        THEN @ \cup {Plain("note")} ELSE @]
               drafted(m) == [scored(m) EXCEPT !.decision = "DRAFT",
                                               !.reason = "grounding_low_score"]
               passed(m) == Passes(score(m), st[r].retry)
    <3>2. PICK m : Return(r, IF passed(m) THEN scored(m) ELSE drafted(m),
                          {Metric("validator_result", "GROUNDING", passed(m))}, "Decision")
      BY <2>4 DEF ValidateGrounding
    <3>3. scored(m).decision = st[r].decision /\ drafted(m).decision = "DRAFT"
      BY <1>0 DEF AgentState
    <3>4. st'[r] = scored(m) \/ st'[r] = drafted(m)
      <4> HIDE DEF scored, drafted, passed
      <4> QED BY <1>0, <3>2
    <3> HIDE DEF scored, drafted
    <3> QED BY <3>1, <3>3, <3>4
  <2>5. CASE DecisionNode(r)
    <3>1. st[r].decision \in {"none", "DRAFT"}
      BY <1>0, <2>5 DEF DecisionNode, Local, VerdictKnown
    <3>2. st[r].decision = "DRAFT" => Decide(st[r]) = st[r]
      BY DEF Decide
    <3> QED BY <1>0, <2>5, <3>1, <3>2 DEF DecisionNode
  <2> QED BY <2>1, <2>2, <2>3, <2>4, <2>5 DEF Inside, Draft
<1> QED BY <1>1, <1>2

\* A verdict, once there, is final.
LEMMA VerdictStep ==
    ASSUME TypeOK, Inv, [Next]_vars, NEW r \in Requests
    PROVE  st'[r].decision = st[r].decision \/ st[r].decision = "none"
<1>1. ASSUME NEW q \in Requests, Work(q) \/ Breaks(q)
      PROVE  st'[r].decision = st[r].decision \/ st[r].decision = "none"
  <2>1. CASE Inside(q)
    BY <2>1, InsideStep, InsideVerdict
  <2>2. CASE ~Inside(q)
    <3>1. \A next, events : Return(q, st[q], events, next) => st' = st
      BY DEF Return, TypeOK
    <3>2. st' = st
      BY <1>1, <2>2, <3>1 DEF Inside, Work, Breaks, Answer, Handoff, Persist, OutputNothing, Output,
         HandoffSkipped, HandoffCheck, HandoffCall, HandoffMark, LogEvent, InsertMetrics, UpsertCase,
         SlotExtractionFails, GlossaryLoadFails, ClassificationFails, VisionAnswerMalformed,
         DbFails, Raise
    <3> QED BY <3>2
  <2> QED BY <2>1, <2>2
<1>2. CASE UNCHANGED vars \/ Crash \/ (\E q \in Requests : ProcessCase(q))
           \/ \E call \in late : McpRunsLate(call) \/ McpDropsLate(call)
  BY <1>2 DEF vars, requestVars, Crash, ProcessCase, McpRunsLate, McpDropsLate
<1> QED BY <1>1, <1>2 DEF Next

\* No node turns a handoff or a draft into a reply, or a reply into a draft.
THEOREM VerdictsAreFinal == Spec => VerdictIsFinal
<1>1. TypeOK /\ Inv /\ [Next]_vars =>
        [\A r \in Requests : st[r].decision # "none" => st'[r].decision = st[r].decision]_vars
  BY VerdictStep
<1> QED BY <1>1, Invariance, PTL DEF Spec, VerdictIsFinal

-----------------------------------------------------------------------------
(* What the handoff keeps between requests *)

\* A mark follows a call, a stored handoff has its mark, and a request that came
\* after a completed handoff of its case neither calls nor is about to.
AlertInv ==
    /\ \A r \in Requests :
          /\ pc[r] = "HandoffMark" => r \in alertCalls
          /\ pc[r] = "waiting" => r \notin alertCalls
          /\ pc[r] = "Output" => st[r].decision # "HANDOFF"
          /\ pc[r] = "OutputMask" => st[r].decision # "HANDOFF"
          /\ pc[r] \in Storing /\ st[r].decision = "HANDOFF" => Case(r) \in handoffRows
    /\ AlertAskedBeforeMark
    /\ \A r \in Requests : \A q \in doneBefore[r] :
          /\ q \in Requests /\ pc[q] = "done"
          /\ Case(q) = Case(r) /\ st[q].decision = "HANDOFF"
               => pc[r] # "HandoffCall" /\ r \notin alertCalls

LEMMA AlertInit == Init => AlertInv
BY DEF Init, AlertInv, AlertAskedBeforeMark, Storing

LEMMA AlertInside ==
    ASSUME TypeOK, Inv, AlertInv, NEW r \in Requests, Inside(r)
    PROVE  AlertInv'
<1>1. /\ pc[r] \in Before /\ pc'[r] \in Before \cup {"HandoffNotify"}
      /\ \A q \in Requests : q # r => pc'[q] = pc[q] /\ st'[q] = st[q]
      /\ UNCHANGED <<inquiry, doneBefore, handoffRows, alertCalls>>
  BY InsideStep
<1>2. pc'[r] \in {"OutputMask", "Output"} => st'[r].decision # "HANDOFF"
  <2> SUFFICES ASSUME DecisionNode(r) \/ OutputMask(r) PROVE st'[r].decision # "HANDOFF"
    BY InsideStep
  <2>0. /\ st[r] \in AgentState /\ Local(pc[r], st[r], inquiry[r])
        /\ \A s, events, next : Return(r, s, events, next) => st'[r] = s
    BY Start DEF Return, TypeOK
  <2>1. CASE DecisionNode(r)
    <3>1. st[r].decision \in {"none", "DRAFT"}
      BY <2>0, <2>1 DEF DecisionNode, Local, VerdictKnown
    <3>2. Decide(st[r]).decision # "HANDOFF"
      BY <2>0, <3>1 DEF Decide, AgentState
    <3> QED BY <2>0, <2>1, <3>2 DEF DecisionNode
  <2>2. CASE OutputMask(r)
    <3>1. st'[r].decision = st[r].decision
      BY <2>0, <2>2 DEF OutputMask, AgentState
    <3> QED BY <2>2, <3>1 DEF AlertInv, OutputMask
  <2> QED BY <2>1, <2>2
<1> QED BY <1>1, <1>2 DEF AlertInv, AlertAskedBeforeMark, Case, Before, Nodes, Storing, Alerting

\* A step that breaks requests off.
LEMMA AlertBreak ==
    ASSUME TypeOK, AlertInv,
           \A q \in Requests : pc'[q] = pc[q] \/ (pc'[q] \in Broken /\ pc[q] \notin Ended),
           UNCHANGED <<st, inquiry, doneBefore, handoffRows, alertCalls>>
    PROVE  AlertInv'
BY DEF AlertInv, AlertAskedBeforeMark, Case, Broken, Ended, Storing

\* A step of the handoff, or of the telemetry logger.
LEMMA AlertStore ==
    ASSUME TypeOK, Inv, AlertInv, NEW r \in Requests,
           OutputNothing(r) \/ Output(r) \/ Handoff(r) \/ Persist(r)
    PROVE  AlertInv'
<1> DEFINE Moves(n) == /\ \A q \in Requests : st'[q] = st[q] /\ (q # r => pc'[q] = pc[q])
                       /\ pc'[r] = n /\ UNCHANGED <<inquiry, doneBefore>>
<1>0. /\ \A n, events : Return(r, st[r], events, n) /\ UNCHANGED fixedVars => Moves(n)
      /\ \A n : pc' = [pc EXCEPT ![r] = n] /\ st' = st /\ UNCHANGED fixedVars => Moves(n)
  BY DEF Return, TypeOK, fixedVars
<1> USE DEF Storing, OwnStateOnly, dbVars, worldVars
<1>1. CASE OutputNothing(r) \/ Output(r)
  <2>1. pc[r] = "Output" /\ Moves("TelemetryLogger") /\ UNCHANGED <<handoffRows, alertCalls>>
    BY <1>0, <1>1 DEF OutputNothing, Output
  <2> QED BY <2>1 DEF AlertInv, AlertAskedBeforeMark, Case
<1>2. CASE HandoffSkipped(r)
  <2>1. Moves("TelemetryLogger") /\ UNCHANGED <<handoffRows, alertCalls>> /\ Case(r) \in handoffRows
        /\ pc[r] = "HandoffNotify"
    BY <1>0, <1>2 DEF HandoffSkipped
  <2> QED BY <2>1 DEF AlertInv, AlertAskedBeforeMark, Case
<1>3. CASE HandoffCheck(r)
  <2>1. Moves("HandoffCall") /\ UNCHANGED <<handoffRows, alertCalls>> /\ Case(r) \notin handoffRows
        /\ pc[r] = "HandoffNotify"
    BY <1>0, <1>3 DEF HandoffCheck
  <2> QED BY <2>1 DEF AlertInv, AlertAskedBeforeMark, Case
<1>4. CASE HandoffCall(r)
  <2>1. /\ Moves("HandoffMark") /\ UNCHANGED handoffRows /\ alertCalls' = alertCalls \cup {r}
        /\ pc[r] = "HandoffCall"
    BY <1>0, <1>4 DEF HandoffCall
  <2> QED BY <2>1 DEF AlertInv, AlertAskedBeforeMark, Case
<1>5. CASE HandoffMark(r)
  <2>1. /\ Moves("TelemetryLogger") /\ UNCHANGED alertCalls
        /\ handoffRows' = handoffRows \cup {Case(r)} /\ pc[r] = "HandoffMark"
    BY <1>0, <1>5 DEF HandoffMark
  <2> QED BY <2>1 DEF AlertInv, AlertAskedBeforeMark, Case
<1>6. CASE LogEvent(r) \/ InsertMetrics(r) \/ UpsertCase(r)
  <2>1. /\ UNCHANGED <<handoffRows, alertCalls>>
        /\ pc[r] \in Storing \ {"done"}
        /\ Moves("InsertMetrics") \/ Moves("UpsertCase") \/ Moves("done")
    BY <1>0, <1>6 DEF LogEvent, InsertMetrics, UpsertCase
  <2> QED BY <2>1 DEF AlertInv, AlertAskedBeforeMark, Case
<1> QED BY <1>1, <1>2, <1>3, <1>4, <1>5, <1>6 DEF Handoff, Persist

LEMMA AlertNext == TypeOK /\ Inv /\ AlertInv /\ [Next]_vars => AlertInv'
<1> SUFFICES ASSUME TypeOK, Inv, AlertInv, [Next]_vars PROVE AlertInv'
  OBVIOUS
<1>1. ASSUME NEW r \in Requests, Work(r) \/ Breaks(r)
      PROVE  AlertInv'
  <2>1. CASE SlotExtractionFails(r) \/ Breaks(r)
    <3>1. Raise(r) /\ pc[r] \notin Ended
      BY <2>1 DEF SlotExtractionFails, Breaks, GlossaryLoadFails, ClassificationFails,
                  VisionAnswerMalformed, DbFails, Ended
    <3>2. \A q \in Requests : pc'[q] = pc[q] \/ (pc'[q] \in Broken /\ pc[q] \notin Ended)
      BY <3>1 DEF Raise, TypeOK, Broken
    <3> QED BY <3>1, <3>2, AlertBreak DEF Raise, dbVars, worldVars, fixedVars
  <2> QED BY <1>1, <2>1, AlertInside, AlertStore DEF Work, Inside, Answer
<1>2. ASSUME NEW r \in Requests, ProcessCase(r)
      PROVE  AlertInv'
  <2>1. /\ \A q \in Requests : q # r => pc'[q] = pc[q] /\ doneBefore'[q] = doneBefore[q]
        /\ pc[r] = "waiting" /\ pc'[r] = "NormalizeAndMask"
        /\ doneBefore'[r] = {q \in Requests : pc[q] = "done"}
        /\ UNCHANGED <<st, inquiry, handoffRows, alertCalls>>
    BY <1>2 DEF ProcessCase, TypeOK, dbVars, worldVars
  <2> QED BY <2>1 DEF AlertInv, AlertAskedBeforeMark, Case, Storing
<1>3. CASE Crash
  <2>1. \A q \in Requests : pc'[q] = pc[q] \/ (pc'[q] \in Broken /\ pc[q] \notin Ended)
    BY <1>3 DEF Crash, Active, Nodes, Inner, Broken, Ended
  <2> QED BY <1>3, <2>1, AlertBreak DEF Crash, dbVars, worldVars, fixedVars
<1>4. CASE UNCHANGED vars \/ \E call \in late : McpRunsLate(call) \/ McpDropsLate(call)
  <2>1. UNCHANGED <<pc, st, inquiry, doneBefore, handoffRows, alertCalls>>
    BY <1>4 DEF vars, McpRunsLate, McpDropsLate, requestVars, dbVars, worldVars, fixedVars
  <2> QED BY <2>1 DEF AlertInv, AlertAskedBeforeMark, Case
<1> QED BY <1>1, <1>2, <1>3, <1>4 DEF Next

THEOREM AlertInvariance == Spec => []AlertInv
BY AlertInit, AlertNext, Invariance, PTL DEF Spec

\* A case is marked as notified only after a notification was asked for.
THEOREM MarksFollowAlerts == Spec => []AlertAskedBeforeMark
<1>1. AlertInv => AlertAskedBeforeMark
  BY DEF AlertInv
<1> QED BY <1>1, AlertInvariance, PTL

\* A handoff that completed keeps later requests of its case from alerting again.
THEOREM CompletedHandoffsAlertOnce == Spec => []AlertedOnceInSequence
<1>1. TypeOK /\ AlertInv => AlertedOnceInSequence
  BY DEF TypeOK, AlertInv, AlertedOnceInSequence
<1> QED BY <1>1, Invariance, AlertInvariance, PTL

-----------------------------------------------------------------------------
(* Every step is one of CaseService, or none that is seen *)

Seen == <<PhaseView, CaseView, VerdictView, alertCalls, handoffRows, PostedView, caseRow>>

LEMMA ServiceInit == TypeOK /\ Init => Service!Init
BY InquiryType DEF Init, TypeOK, Service!Init, PhaseView, CaseView, VerdictView, PostedView, Phase,
   Case, EmptyState

\* What the phases, the cases and the verdicts are of a step that moves one request.
LEMMA ViewStep ==
    ASSUME NEW r \in Requests, inquiry' = inquiry,
           \A q \in Requests : q # r => pc'[q] = pc[q] /\ st'[q] = st[q]
    PROVE  /\ PhaseView' = [PhaseView EXCEPT ![r] = Phase(r)']
           /\ VerdictView' = [VerdictView EXCEPT ![r] = st'[r].decision]
           /\ CaseView' = CaseView
           /\ Phase(r)' = Phase(r) => PhaseView' = PhaseView
           /\ st'[r].decision = st[r].decision => VerdictView' = VerdictView
BY DEF PhaseView, VerdictView, CaseView, Case, Phase

LEMMA InsideService ==
    ASSUME TypeOK, Inv, NEW r \in Requests, Inside(r), TypeOK'
    PROVE  Service!Judge(r) \/ UNCHANGED Seen
<1>1. /\ pc[r] \in Before /\ pc'[r] \in Before \cup {"HandoffNotify"}
      /\ \A q \in Requests : q # r => pc'[q] = pc[q] /\ st'[q] = st[q]
      /\ UNCHANGED <<inquiry, handoffRows, caseRow, alertCalls, replies>>
  BY InsideStep
<1>2. Phase(r) = "open" /\ Phase(r)' = "open"
  BY <1>1 DEF Phase, Before, Nodes
<1>3. PhaseView' = PhaseView /\ CaseView' = CaseView /\ PostedView' = PostedView
  BY <1>1, <1>2, ViewStep DEF PostedView
<1>4. CASE st'[r].decision = st[r].decision
  BY <1>1, <1>3, <1>4, ViewStep DEF Seen
<1>5. CASE st'[r].decision # st[r].decision
  <2>1. st[r].decision = "none" /\ st'[r].decision \in {"HANDOFF", "DRAFT", "AUTO_POST"}
    <3>1. st'[r].decision \in Verdicts
      BY DEF TypeOK, AgentState
    <3> QED BY <1>5, <3>1, InsideVerdict DEF Verdicts
  <2>2. VerdictView' = [VerdictView EXCEPT ![r] = st'[r].decision]
    BY <1>1, ViewStep
  <2> QED BY <1>1, <1>2, <1>3, <2>1, <2>2 DEF Service!Judge, PhaseView, VerdictView
<1> QED BY <1>4, <1>5

\* The steps of a request that keep its AgentState.
LEMMA StoreService ==
    ASSUME TypeOK, Inv, AlertInv, NEW r \in Requests,
           OutputNothing(r) \/ Output(r) \/ Handoff(r) \/ Persist(r)
    PROVE  Service!PostReply(r) \/ Service!Alert(r) \/ Service!Note(r) \/ Service!Complete(r)
             \/ UNCHANGED Seen
<1> DEFINE Moves(n) == /\ \A q \in Requests : st'[q] = st[q] /\ (q # r => pc'[q] = pc[q])
                       /\ pc'[r] = n /\ UNCHANGED inquiry
<1>0. /\ \A n, events : Return(r, st[r], events, n) /\ UNCHANGED fixedVars => Moves(n)
      /\ \A n : pc' = [pc EXCEPT ![r] = n] /\ st' = st /\ UNCHANGED fixedVars => Moves(n)
  BY DEF Return, TypeOK, fixedVars
<1>a. ASSUME NEW n \in Nodes \cup Inner, Moves(n), pc[r] \in Nodes \cup Inner
      PROVE  PhaseView' = PhaseView /\ VerdictView' = VerdictView /\ CaseView' = CaseView
             /\ PhaseView[r] = "open"
  <2>1. Phase(r) = "open" /\ Phase(r)' = "open"
    BY <1>a DEF Phase, Nodes, Inner
  <2> QED BY <1>a, <2>1, ViewStep DEF PhaseView
<1>b. VerdictView[r] = st[r].decision /\ CaseView[r] = Case(r)
  BY DEF VerdictView, CaseView
<1>c. Local(pc[r], st[r], inquiry[r])
  BY Start
<1> USE DEF OwnStateOnly, dbVars, worldVars
<1>1. CASE Output(r)
  <2>1. /\ Moves("TelemetryLogger") /\ UNCHANGED <<alertCalls, handoffRows, caseRow>>
        /\ pc[r] = "Output" /\ st[r].decision = "AUTO_POST"
        /\ replies' = replies \cup {Post(r)} \/ replies' = replies
    BY <1>0, <1>1 DEF Output
  <2>2. PostedView' = PostedView \cup {r} \/ PostedView' = PostedView
    BY <2>1 DEF PostedView, Post
  <2>3. PhaseView' = PhaseView /\ VerdictView' = VerdictView /\ CaseView' = CaseView
    BY <1>a, <2>1 DEF Nodes
  <2> QED BY <1>b, <2>1, <2>2, <2>3 DEF Service!PostReply, Seen
<1>2. CASE HandoffCall(r)
  <2>1. /\ Moves("HandoffMark") /\ UNCHANGED <<handoffRows, caseRow, replies>>
        /\ pc[r] = "HandoffCall" /\ alertCalls' = alertCalls \cup {r}
    BY <1>0, <1>2 DEF HandoffCall
  <2>2. /\ PhaseView' = PhaseView /\ VerdictView' = VerdictView /\ CaseView' = CaseView
        /\ PhaseView[r] = "open"
    BY <1>a, <2>1 DEF Inner
  <2>3. VerdictView[r] = "HANDOFF"
    BY <1>b, <1>c, <2>1 DEF Local, VerdictKnown, Alerting
  <2> QED BY <2>1, <2>2, <2>3 DEF Service!Alert, PostedView
<1>3. CASE HandoffMark(r)
  <2>1. /\ Moves("TelemetryLogger") /\ UNCHANGED <<alertCalls, caseRow, replies>>
        /\ pc[r] = "HandoffMark" /\ handoffRows' = handoffRows \cup {Case(r)}
    BY <1>0, <1>3 DEF HandoffMark
  <2>2. /\ PhaseView' = PhaseView /\ VerdictView' = VerdictView /\ CaseView' = CaseView
        /\ PhaseView[r] = "open"
    BY <1>a, <2>1 DEF Nodes, Inner
  <2> QED BY <1>b, <2>1, <2>2 DEF Service!Note, PostedView, AlertInv
<1>4. CASE UpsertCase(r)
  <2>1. /\ Moves("done") /\ UNCHANGED <<alertCalls, handoffRows, replies>>
        /\ pc[r] = "UpsertCase" /\ caseRow' = [caseRow EXCEPT ![Case(r)] = r]
    BY <1>0, <1>4 DEF UpsertCase
  <2>2. /\ PhaseView' = [PhaseView EXCEPT ![r] = "done"] /\ VerdictView' = VerdictView
        /\ CaseView' = CaseView /\ PhaseView[r] = "open"
    <3>1. Phase(r) = "open" /\ Phase(r)' = "done"
      BY <2>1 DEF Phase
    <3> QED BY <2>1, <3>1, ViewStep DEF PhaseView
  <2>3. VerdictView[r] # "none" /\ (VerdictView[r] = "HANDOFF" => CaseView[r] \in handoffRows)
    BY <1>b, <1>c, <2>1 DEF Local, VerdictKnown, AlertInv, Storing
  <2> QED BY <1>b, <2>1, <2>2, <2>3 DEF Service!Complete, PostedView
<1>5. CASE OutputNothing(r) \/ HandoffSkipped(r) \/ HandoffCheck(r) \/ LogEvent(r) \/ InsertMetrics(r)
  <2>1. /\ UNCHANGED <<alertCalls, handoffRows, caseRow, replies>>
        /\ pc[r] \in Nodes \cup Inner
        /\ Moves("TelemetryLogger") \/ Moves("HandoffCall") \/ Moves("InsertMetrics")
             \/ Moves("UpsertCase")
    BY <1>0, <1>5
       DEF OutputNothing, HandoffSkipped, HandoffCheck, LogEvent, InsertMetrics, Nodes, Inner
  <2>2. PhaseView' = PhaseView /\ VerdictView' = VerdictView /\ CaseView' = CaseView
    BY <1>a, <2>1 DEF Nodes, Inner
  <2> QED BY <2>1, <2>2 DEF Seen, PostedView
<1> QED BY <1>1, <1>2, <1>3, <1>4, <1>5 DEF Handoff, Persist

\* Requests that break off, one or all that are under way, are dropped.
LEMMA BreakService ==
    ASSUME TypeOK, NEW some \in SUBSET Requests, UNCHANGED <<st, inquiry, handoffRows, caseRow,
           alertCalls, replies>>,
           \A q \in Requests : IF q \in some THEN pc[q] \in Nodes \cup Inner /\ pc'[q] \in Broken
                                             ELSE pc'[q] = pc[q]
    PROVE  Service!Drop(some)
<1>1. \A q \in some : Phase(q) = "open" /\ Phase(q)' = "dropped"
  BY DEF Phase, Nodes, Inner, Broken
<1>2. \A q \in Requests \ some : Phase(q)' = Phase(q)
  BY DEF Phase
<1>3. PhaseView' = [q \in Requests |-> IF q \in some THEN "dropped" ELSE PhaseView[q]]
  BY <1>1, <1>2 DEF PhaseView
<1> QED BY <1>1, <1>3 DEF Service!Drop, PhaseView, CaseView, VerdictView, PostedView, Case

LEMMA ServiceStep ==
    ASSUME TypeOK, Inv, AlertInv, [Next]_vars, TypeOK'
    PROVE  [Service!Next]_(Service!vars)
<1> USE DEF Service!vars, Seen
<1>1. ASSUME NEW r \in Requests, Work(r) \/ Breaks(r)
      PROVE  [Service!Next]_(Service!vars)
  <2>1. CASE SlotExtractionFails(r) \/ Breaks(r)
    <3>1. Raise(r) /\ pc[r] \in Nodes \cup Inner
      BY <2>1 DEF SlotExtractionFails, Breaks, GlossaryLoadFails, ClassificationFails,
                  VisionAnswerMalformed, DbFails, Nodes, Inner
    <3>2. Service!Drop({r})
      BY <3>1, BreakService DEF Raise, TypeOK, Broken, dbVars, worldVars, fixedVars
    <3> QED BY <3>2 DEF Service!Next
  <2>2. CASE Inside(r)
    BY <2>2, InsideService DEF Service!Next
  <2>3. CASE OutputNothing(r) \/ Output(r) \/ Handoff(r) \/ Persist(r)
    BY <2>3, StoreService DEF Service!Next
  <2> QED BY <1>1, <2>1, <2>2, <2>3 DEF Work, Inside, Answer
<1>2. ASSUME NEW r \in Requests, ProcessCase(r)
      PROVE  [Service!Next]_(Service!vars)
  <2>1. /\ \A q \in Requests : q # r => pc'[q] = pc[q]
        /\ pc[r] = "waiting" /\ pc'[r] = "NormalizeAndMask"
        /\ UNCHANGED <<st, inquiry, handoffRows, caseRow, alertCalls, replies>>
    BY <1>2 DEF ProcessCase, TypeOK, dbVars, worldVars
  <2>2. Phase(r) = "new" /\ Phase(r)' = "open"
    BY <2>1 DEF Phase
  <2>3. /\ PhaseView' = [PhaseView EXCEPT ![r] = "open"] /\ PhaseView[r] = "new"
        /\ VerdictView' = VerdictView /\ CaseView' = CaseView /\ PostedView' = PostedView
    BY <2>1, <2>2, ViewStep DEF PhaseView, PostedView
  <2> QED BY <2>1, <2>3 DEF Service!Next, Service!Take
<1>3. ASSUME NEW call \in late, McpRunsLate(call) \/ McpDropsLate(call)
      PROVE  [Service!Next]_(Service!vars)
  <2>1. /\ UNCHANGED <<pc, st, inquiry, handoffRows, caseRow, alertCalls>>
        /\ \/ replies' = replies
           \/ call.tool = "post_reply" /\ replies' = replies \cup {call}
    BY <1>3 DEF McpRunsLate, McpDropsLate, requestVars, dbVars, fixedVars
  <2>2. PhaseView' = PhaseView /\ CaseView' = CaseView /\ VerdictView' = VerdictView
    BY <2>1 DEF PhaseView, CaseView, VerdictView, Phase, Case
  <2>3. CASE replies' = replies
    BY <2>1, <2>2, <2>3 DEF PostedView
  <2>4. CASE call.tool = "post_reply" /\ replies' = replies \cup {call}
    <3>1. call.req \in Requests /\ VerdictView[call.req] = "AUTO_POST"
      BY <2>4 DEF Inv, Outgoing, Sent, TypeOK, VerdictView
    <3>2. PostedView' = PostedView \cup {call.req}
      BY <2>4 DEF PostedView
    <3> QED BY <2>1, <2>2, <3>1, <3>2 DEF Service!PostReply, Service!Next
  <2> QED BY <2>1, <2>3, <2>4
<1>4. CASE Crash
  <2>1. Service!Drop({r \in Requests : Active(r)})
    BY <1>4, BreakService DEF Crash, Active, Broken, dbVars, worldVars, fixedVars
  <2> QED BY <2>1 DEF Service!Next
<1>5. CASE UNCHANGED vars
  BY <1>5 DEF vars, requestVars, dbVars, worldVars, fixedVars, PhaseView, CaseView, VerdictView,
              PostedView, Phase, Case
<1> QED BY <1>1, <1>2, <1>3, <1>4, <1>5 DEF Next

\* The pipeline implements CaseService.
THEOREM Implementation == Spec => ImplementsService
BY InitType, ServiceInit, NextType, ServiceStep, Invariance, AlertInvariance, PTL
   DEF Spec, ImplementsService, Service!Spec
=============================================================================
