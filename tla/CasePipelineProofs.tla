-------------------------- MODULE CasePipelineProofs --------------------------
(***************************************************************************)
(* The safety of the pipeline, proved from an inductive invariant that     *)
(* says what a request knows at each place of the graph.                   *)
(***************************************************************************)
EXTENDS CaseTypeProofs

-----------------------------------------------------------------------------
(* The inductive invariant: what a request knows at each place *)

Routing  == {"waiting", "NormalizeAndMask", "TermExtract", "ClassifyRiskRoute"}
Planning == {"PreVisionNeedGate", "PreVision", "PolicyLoader", "PlanBuilder", "PlanEngine"}
Drafting == {"ResponseModeGate", "ScenarioSubgraph", "AgentGenerateSubgraph", "ValidatePII",
             "ValidatePolicy", "ValidateGrounding"}
Alerting == {"HandoffNotify", "HandoffCall", "HandoffMark"}
Storing  == {"TelemetryLogger", "InsertMetrics", "UpsertCase", "done"}
Broken   == {"failed", "lost"}

Words(q) == {q.title} \cup q.body
Answers(s) == Call("rag_search", "answer") \in s.trace
NoneBanned(text) == \A f \in text : ~Banned(f)
NoneExposed(text) == \A f \in text : ~Exposed(f)

\* The masked text is what the rule reads.
MaskedKnown(place, s, q) ==
    place \in {"TermExtract", "ClassifyRiskRoute"} => s.masked = MaskPii(Words(q))

\* No verdict before the plan ran; past the routing, none but HANDOFF for a case
\* with a legible high-risk keyword; on the way to the decision, a draft or none.
VerdictKnown(place, s, q) ==
    /\ place \in Routing \cup Planning => s.decision = "none"
    /\ place \in Drafting \cup {"Decision"} => s.decision \in {"none", "DRAFT"}
    /\ place \in Alerting => s.decision = "HANDOFF"
    /\ place \in {"OutputMask", "Output"} \cup Storing => s.decision # "none"
    /\ s.decision = "AUTO_POST" => place \in {"OutputMask", "Output"} \cup Storing \cup Broken
    /\ place \notin Routing \cup Broken => s.decision = "HANDOFF" \/ ~HighRisk(Words(q))

\* The policy loaded is the inquiry's; only a draft of the AGENT mode cites.
PolicyKnown(place, s, q) ==
    /\ place \in {"PlanBuilder", "PlanEngine"} \cup Drafting \cup {"Decision"}
         => s.autoPost = PolicyOf(q.kind).autoPost
    /\ place \in {"PlanEngine"} \cup Drafting \cup {"Decision"} => s.mode = PolicyOf(q.kind).mode
    /\ place \in Routing \cup Planning => ~s.cited
    /\ place \in Drafting /\ s.cited => s.mode = "AGENT"
    /\ place = "AgentGenerateSubgraph" => s.mode = "AGENT"

\* The configuration under which a reply's score and words can be vouched for: a
\* text with a banned word that cites nothing scores 50 at most, and the one
\* rewrite a request makes is not the last one allowed.  config/policy.yaml has
\* 0.70 and 2.
Calibrated == Threshold > 50 /\ MaxRewrite # 1

\* Without a verdict the knowledge search was answered and, from the grounding
\* on, the score suffices, which a SCENARIO text with a banned word cannot reach.
DraftSound(place, s, q) ==
    /\ place \in Routing \cup Planning \cup Drafting => s.retry = 0
    /\ place \in Drafting \cup {"Decision"} /\ s.decision = "none" => Answers(s)
    /\ place = "Decision" /\ s.decision = "none" /\ Calibrated =>
         s.score >= Threshold /\ (s.mode = "SCENARIO" => NoneBanned(s.text))

PostSound(s, q) ==
    s.decision = "AUTO_POST" =>
        /\ PolicyOf(q.kind).autoPost /\ ~HighRisk(Words(q)) /\ Answers(s)
        /\ Calibrated => NoneBanned(s.text) /\ s.score >= Threshold

TextMasked(place, s, q) ==
    /\ place \in Routing \cup Planning \cup Alerting => s.text = {}
    /\ place \in {"Output"} \cup Storing => NoneExposed(s.text)

Local(place, s, q) ==
    /\ MaskedKnown(place, s, q) /\ VerdictKnown(place, s, q) /\ PolicyKnown(place, s, q)
    /\ DraftSound(place, s, q) /\ PostSound(s, q) /\ TextMasked(place, s, q)

\* A reply sent off is the masked text of a request past its output, which has
\* the verdict AUTO_POST.
Sent(call, place, s) ==
    /\ place \in Storing \cup Broken /\ s.decision = "AUTO_POST"
    /\ call.text = s.text /\ NoneExposed(call.text)

Inv ==
    /\ \A r \in Requests : Local(pc[r], st[r], inquiry[r])
    /\ \A call \in Outgoing : Sent(call, pc[call.req], st[call.req])

-----------------------------------------------------------------------------
(* Preservation *)

AllPlaces == Routing \cup Planning \cup Drafting \cup Alerting \cup Storing \cup Broken
               \cup {"Decision", "OutputMask", "Output"}

LEMMA PlacesCovered == Places = AllPlaces
BY DEF AllPlaces, Places, Nodes, Inner, Ended, Routing, Planning, Drafting, Alerting, Storing, Broken

\* A request that breaks off keeps what the invariant still says of it.
LEMMA BreakLocal ==
    ASSUME NEW place, NEW s, NEW q, Local(place, s, q), NEW end \in Broken
    PROVE  Local(end, s, q)
BY DEF Local, MaskedKnown, VerdictKnown, PolicyKnown, DraftSound, PostSound, TextMasked,
       Routing, Planning, Drafting, Alerting, Storing, Broken

\* A node that returns s keeps the invariant if s satisfies it at the next place,
\* and if what was already sent off stays as it was sent.
LEMMA ReturnInv ==
    ASSUME TypeOK, Inv, NEW r \in Requests, NEW s, NEW events, NEW next,
           Return(r, s, events, next), UNCHANGED <<inquiry, replies, late>>,
           Local(next, s, inquiry[r]),
           pc[r] \in Storing \cup Broken => s = st[r] /\ next \in Storing \cup Broken
    PROVE  Inv'
<1>1. /\ \A q \in Requests : q # r => st'[q] = st[q] /\ pc'[q] = pc[q]
      /\ st'[r] = s /\ pc'[r] = next /\ inquiry' = inquiry /\ Outgoing' = Outgoing
  BY DEF Return, TypeOK, Outgoing
<1>2. \A q \in Requests : Local(pc'[q], st'[q], inquiry'[q])
  BY <1>1 DEF Inv
<1>3. ASSUME NEW call \in Outgoing
      PROVE  Sent(call, pc'[call.req], st'[call.req])
  <2>1. call.req \in Requests /\ Sent(call, pc[call.req], st[call.req])
    BY DEF Inv, Outgoing, TypeOK
  <2>2. CASE call.req # r
    BY <1>1, <2>1, <2>2
  <2>3. CASE call.req = r
    BY <1>1, <2>1, <2>3 DEF Sent
  <2> QED BY <2>2, <2>3
<1> QED BY <1>1, <1>2, <1>3 DEF Inv

LEMMA RaiseInv ==
    ASSUME TypeOK, Inv, NEW r \in Requests, Raise(r)
    PROVE  Inv'
<1>1. /\ \A q \in Requests : pc'[q] = pc[q] \/ pc'[q] = "failed"
      /\ st' = st /\ inquiry' = inquiry /\ Outgoing' = Outgoing
  BY DEF Raise, TypeOK, Outgoing, worldVars, fixedVars
<1>2. \A q \in Requests : Local(pc'[q], st'[q], inquiry'[q])
  BY <1>1, BreakLocal DEF Inv, Broken
<1>3. ASSUME NEW call \in Outgoing
      PROVE  Sent(call, pc'[call.req], st'[call.req])
  <2>1. call.req \in Requests /\ Sent(call, pc[call.req], st[call.req])
    BY DEF Inv, Outgoing, TypeOK
  <2> QED BY <1>1, <2>1 DEF Sent, Broken
<1> QED BY <1>1, <1>2, <1>3 DEF Inv

LEMMA InitInv == Init => Inv
<1> SUFFICES ASSUME Init PROVE Inv
  OBVIOUS
<1>1. Outgoing = {}
  BY DEF Init, Outgoing
<1>2. ASSUME NEW r \in Requests
      PROVE  Local(pc[r], st[r], inquiry[r])
  <2>1. pc[r] = "waiting" /\ st[r] = EmptyState
    BY DEF Init
  <2> QED BY <2>1 DEF Local, MaskedKnown, VerdictKnown, PolicyKnown, DraftSound, PostSound,
            TextMasked, EmptyState, Routing, Planning, Drafting, Alerting, Storing, Broken
<1> QED BY <1>1, <1>2 DEF Inv

\* What every step of one request starts from.
LEMMA Start ==
    ASSUME TypeOK, Inv, NEW r \in Requests
    PROVE  /\ st[r] \in AgentState /\ Local(pc[r], st[r], inquiry[r])
           /\ Words(inquiry[r]) \in SUBSET Fragment
           /\ inquiry[r].title \in Fragment /\ inquiry[r].body \in SUBSET Fragment
BY InquiryType DEF TypeOK, Inv, Words

\* The nodes from NormalizeAndMask to the routing keep the invariant,
LEMMA RoutingInv ==
    ASSUME TypeOK, Inv, NEW r \in Requests,
           NormalizeAndMask(r) \/ TermExtract(r) \/ ClassifyRiskRoute(r)
    PROVE  Inv'
<1> USE DEF Local, MaskedKnown, VerdictKnown, PolicyKnown, DraftSound, PostSound, TextMasked,
            Routing, Planning, Drafting, Alerting, Storing, Broken
<1>0. /\ st[r] \in AgentState /\ Local(pc[r], st[r], inquiry[r])
      /\ Words(inquiry[r]) \in SUBSET Fragment
  BY Start
<1>1. CASE NormalizeAndMask(r)
  <2> DEFINE s == [st[r] EXCEPT !.masked = MaskPii({inquiry[r].title} \cup inquiry[r].body)]
  <2>1. Local("TermExtract", s, inquiry[r])
    BY <1>0, <1>1 DEF NormalizeAndMask, AgentState, Words
  <2> QED BY <1>1, <2>1, ReturnInv DEF NormalizeAndMask, OwnStateOnly, worldVars, fixedVars
<1>2. CASE TermExtract(r)
  <2>1. PICK found \in SUBSET Glossary :
          Return(r, [st[r] EXCEPT !.terms = found], {Metric("glossary_extract", "", TRUE)},
                 "ClassifyRiskRoute")
    BY <1>2 DEF TermExtract
  <2>2. Local("ClassifyRiskRoute", [st[r] EXCEPT !.terms = found], inquiry[r])
    BY <1>0, <1>2 DEF TermExtract, AgentState
  <2> QED BY <1>2, <2>1, <2>2, ReturnInv DEF TermExtract, worldVars, fixedVars
<1>3. CASE ClassifyRiskRoute(r)
  <2>1. HighRisk(st[r].masked) <=> HighRisk(Words(inquiry[r]))
    BY <1>0, <1>3, MaskPiiFacts DEF ClassifyRiskRoute
  <2>2. PICK judged \in Judgements(st[r].masked) :
          IF IsHandoff(st[r].masked, judged)
          THEN Return(r, [st[r] EXCEPT !.labels = judged.labels, !.decision = "HANDOFF",
                                       !.reason = "high_risk"], Classified, "HandoffNotify")
          ELSE Return(r, [st[r] EXCEPT !.labels = judged.labels], Classified, "PreVisionNeedGate")
    BY <1>3 DEF ClassifyRiskRoute
  <2>3. CASE IsHandoff(st[r].masked, judged)
    <3> DEFINE s == [st[r] EXCEPT !.labels = judged.labels, !.decision = "HANDOFF",
                                  !.reason = "high_risk"]
    <3>1. Local("HandoffNotify", s, inquiry[r])
      BY <1>0, <1>3 DEF ClassifyRiskRoute, AgentState
    <3> QED BY <1>3, <2>2, <2>3, <3>1, ReturnInv
            DEF ClassifyRiskRoute, OwnStateOnly, worldVars, fixedVars
  <2>4. CASE ~IsHandoff(st[r].masked, judged)
    <3> DEFINE s == [st[r] EXCEPT !.labels = judged.labels]
    <3>1. Local("PreVisionNeedGate", s, inquiry[r])
      BY <1>0, <1>3, <2>1, <2>4 DEF ClassifyRiskRoute, AgentState, IsHandoff
    <3> QED BY <1>3, <2>2, <2>4, <3>1, ReturnInv
            DEF ClassifyRiskRoute, OwnStateOnly, worldVars, fixedVars
  <2> QED BY <2>3, <2>4
<1> QED BY <1>1, <1>2, <1>3

\* those from PreVisionNeedGate to PlanEngine,
LEMMA PlanInv ==
    ASSUME TypeOK, Inv, NEW r \in Requests, Plan(r)
    PROVE  Inv'
<1> USE DEF Local, MaskedKnown, VerdictKnown, PolicyKnown, DraftSound, PostSound, TextMasked,
            Routing, Planning, Drafting, Alerting, Storing, Broken
<1>0. st[r] \in AgentState /\ Local(pc[r], st[r], inquiry[r])
  BY Start
<1>1. CASE PreVisionNeedGate(r)
  <2>1. \A need : Local("PreVision", [st[r] EXCEPT !.need = need], inquiry[r])
    BY <1>0, <1>1 DEF PreVisionNeedGate, AgentState
  <2> QED BY <1>1, <2>1, ReturnInv DEF PreVisionNeedGate, OwnStateOnly, worldVars, fixedVars
<1>2. CASE PreVisionSkipped(r)
  <2>1. Local("PolicyLoader", [st[r] EXCEPT !.vision = "skipped"], inquiry[r])
    BY <1>0, <1>2 DEF PreVisionSkipped, AgentState
  <2> QED BY <1>2, <2>1, ReturnInv DEF PreVisionSkipped, OwnStateOnly, worldVars, fixedVars
<1>3. CASE PreVision(r)
  <2>1. PICK a, by : Return(r, [st[r] EXCEPT !.vision = Triage(a), !.seen = by], {}, "PolicyLoader")
    BY <1>3 DEF PreVision
  <2>2. Local("PolicyLoader", [st[r] EXCEPT !.vision = Triage(a), !.seen = by], inquiry[r])
    BY <1>0, <1>3 DEF PreVision, AgentState
  <2> QED BY <1>3, <2>1, <2>2, ReturnInv DEF PreVision, OwnStateOnly, worldVars, fixedVars
<1>4. CASE PolicyLoader(r)
  <2>1. Local("PlanBuilder", [st[r] EXCEPT !.autoPost = PolicyOf(inquiry[r].kind).autoPost], inquiry[r])
    BY <1>0, <1>4 DEF PolicyLoader, AgentState
  <2> QED BY <1>4, <2>1, ReturnInv DEF PolicyLoader, OwnStateOnly, worldVars, fixedVars
<1>5. CASE PlanBuilder(r)
  <2>1. Local("PlanEngine", [st[r] EXCEPT !.mode = PolicyOf(inquiry[r].kind).mode], inquiry[r])
    BY <1>0, <1>5 DEF PlanBuilder, AgentState
  <2> QED BY <1>5, <2>1, ReturnInv DEF PlanBuilder, OwnStateOnly, worldVars, fixedVars
<1>6. CASE PlanEngine(r)
  <2> DEFINE ran == ToolsRun(st[r].mode)
             failed(o) == {t \in ran : ReportsFailure(t, o[t])}
             spent == Len(StepsOf(st[r].mode)) > MaxTools
             traced(o) == [st[r] EXCEPT !.trace = {Call(t, o[t]) : t \in ran}]
             drafted(o) == [traced(o) EXCEPT !.decision = "DRAFT",
                              !.reason = IF spent THEN "budget_exceeded" ELSE "tool_failure"]
             events(o) == {Metric("tool_call", t, t \notin failed(o)) : t \in ran}
  <2>1. PICK o \in [ran -> {"answer", "error", "fallback"}] :
          Return(r, IF failed(o) = {} /\ ~spent THEN traced(o) ELSE drafted(o), events(o),
                 "ResponseModeGate")
    BY <1>6 DEF PlanEngine
  <2>2. CASE failed(o) = {} /\ ~spent
    <3>1. "rag_search" \in ran /\ ~ReportsFailure("rag_search", o["rag_search"])
      BY <2>2, ToolsRunType
    <3>2. Answers(traced(o))
      BY <1>0, <3>1 DEF Answers, ReportsFailure, AgentState
    <3>3. Local("ResponseModeGate", traced(o), inquiry[r])
      BY <1>0, <1>6, <3>2 DEF PlanEngine, AgentState
    <3> QED BY <1>6, <2>1, <2>2, <3>3, ReturnInv DEF PlanEngine, OwnStateOnly, worldVars, fixedVars
  <2>3. CASE ~(failed(o) = {} /\ ~spent)
    <3>1. Local("ResponseModeGate", drafted(o), inquiry[r])
      BY <1>0, <1>6 DEF PlanEngine, AgentState
    <3> QED BY <1>6, <2>1, <2>3, <3>1, ReturnInv DEF PlanEngine, OwnStateOnly, worldVars, fixedVars
  <2> QED BY <2>2, <2>3
<1> QED BY <1>1, <1>2, <1>3, <1>4, <1>5, <1>6 DEF Plan

\* A text that cites nothing and has a banned word scores 50 at most.
LEMMA ScoreBound ==
    ASSUME NEW text, NEW title, NEW cited \in BOOLEAN, NEW mismatches \in Nat
    PROVE  /\ Score(text, title, cited, mismatches) \in Int
           /\ ~cited /\ ~NoneBanned(text) => Score(text, title, cited, mismatches) <= 50
<1>1. Min2(5 * mismatches, 20) \in Nat
  BY DEF Min2
<1> QED BY <1>1 DEF Score, NoneBanned

\* While a text is drafted only the text, and whether it cites, changes.
LEMMA RedraftLocal ==
    ASSUME NEW place \in Drafting, NEW s \in AgentState, NEW q, Local(place, s, q),
           NEW text, NEW next \in {"ValidatePII", "ValidatePolicy", "ValidateGrounding"}
    PROVE  /\ Local(next, [s EXCEPT !.text = text], q)
           /\ s.mode = "AGENT" => Local(next, [s EXCEPT !.cited = TRUE, !.text = text], q)
<1>1. ASSUME NEW t, \/ t = [s EXCEPT !.text = text]
                    \/ s.mode = "AGENT" /\ t = [s EXCEPT !.cited = TRUE, !.text = text]
      PROVE  Local(next, t, q)
  <2>1. /\ t.decision = s.decision /\ t.mode = s.mode /\ t.autoPost = s.autoPost
        /\ t.retry = s.retry /\ t.trace = s.trace /\ t.score = s.score /\ t.masked = s.masked
        /\ t.cited => s.cited \/ s.mode = "AGENT"
    BY <1>1 DEF AgentState
  <2> USE DEF Routing, Planning, Drafting, Alerting, Storing, Broken
  <2>2. MaskedKnown(next, t, q) /\ TextMasked(next, t, q)
    BY DEF MaskedKnown, TextMasked
  <2>3. VerdictKnown(next, t, q) /\ PostSound(t, q)
    BY <2>1 DEF Local, VerdictKnown, PostSound
  <2>4. PolicyKnown(next, t, q)
    BY <2>1 DEF Local, PolicyKnown
  <2>5. DraftSound(next, t, q)
    BY <2>1 DEF Local, DraftSound, Answers
  <2> QED BY <2>2, <2>3, <2>4, <2>5 DEF Local
<1> QED BY <1>1

\* from the mode gate to the grounding,
LEMMA DraftInv ==
    ASSUME TypeOK, Inv, NEW r \in Requests, Draft(r)
    PROVE  Inv'
<1>0. st[r] \in AgentState /\ Local(pc[r], st[r], inquiry[r])
  BY Start
<1>1. CASE ResponseModeGate(r)
  <2> USE DEF Local, MaskedKnown, VerdictKnown, PolicyKnown, DraftSound, PostSound, TextMasked,
            Routing, Planning, Drafting, Alerting, Storing, Broken
  <2>1. st[r].mode \in {"SCENARIO", "AGENT"}
    BY <1>0, <1>1 DEF ResponseModeGate, PolicyOf
  <2>2. CASE st[r].mode = "AGENT"
    <3>1. Local("AgentGenerateSubgraph", st[r], inquiry[r])
      BY <1>0, <1>1, <2>2 DEF ResponseModeGate
    <3> QED BY <1>1, <2>2, <3>1, ReturnInv DEF ResponseModeGate, OwnStateOnly, worldVars, fixedVars
  <2>3. CASE st[r].mode = "SCENARIO"
    <3>1. Local("ScenarioSubgraph", st[r], inquiry[r])
      BY <1>0, <1>1, <2>3 DEF ResponseModeGate
    <3> QED BY <1>1, <2>3, <3>1, ReturnInv DEF ResponseModeGate, OwnStateOnly, worldVars, fixedVars
  <2> QED BY <2>1, <2>2, <2>3
<1>2. CASE ScenarioSubgraph(r)
  <2>1. \A text : Local("ValidatePII", [st[r] EXCEPT !.text = text], inquiry[r])
    BY <1>0, <1>2, RedraftLocal DEF ScenarioSubgraph, Drafting
  <2> QED BY <1>2, <2>1, ReturnInv DEF ScenarioSubgraph, Storing, Broken, OwnStateOnly, worldVars, fixedVars
<1>3. CASE AgentGenerateSubgraph(r)
  <2>1. PICK text : Return(r, [st[r] EXCEPT !.cited = TRUE, !.text = text], {}, "ValidatePII")
    BY <1>3 DEF AgentGenerateSubgraph
  <2>2. Local("ValidatePII", [st[r] EXCEPT !.cited = TRUE, !.text = text], inquiry[r])
    <3>1. st[r].mode = "AGENT"
      BY <1>0, <1>3 DEF AgentGenerateSubgraph, Local, PolicyKnown
    <3> QED BY <1>0, <1>3, <3>1, RedraftLocal DEF AgentGenerateSubgraph, Drafting
  <2> QED BY <1>3, <2>1, <2>2, ReturnInv
         DEF AgentGenerateSubgraph, Storing, Broken, OwnStateOnly, worldVars, fixedVars
<1>4. CASE ValidatePII(r)
  <2>1. Local("ValidatePolicy", [st[r] EXCEPT !.text = MaskPii(@)], inquiry[r])
    BY <1>0, <1>4, RedraftLocal DEF ValidatePII, Drafting
  <2> QED BY <1>4, <2>1, ReturnInv
         DEF ValidatePII, Storing, Broken, OwnStateOnly, worldVars, fixedVars
<1>5. CASE ValidatePolicy(r)
  <2>1. Local("ValidateGrounding", [st[r] EXCEPT !.text = StripBanned(@)], inquiry[r])
    BY <1>0, <1>5, RedraftLocal DEF ValidatePolicy, Drafting
  <2> QED BY <1>5, <2>1, ReturnInv
         DEF ValidatePolicy, Storing, Broken, OwnStateOnly, worldVars, fixedVars
<1>6. CASE ValidateGrounding(r)
  <2> DEFINE score(m) == Score(st[r].text, inquiry[r].title, st[r].cited, m)
             scored(m) == [st[r] EXCEPT !.score = score(m),
                             !.retry = IF Rewrites(score(m), @) THEN @ + 1 ELSE @,
                             !.text = IF Rewrites(score(m), st[r].retry)
                                      THEN @ \cup {Plain("note")} ELSE @]
             drafted(m) == [scored(m) EXCEPT !.decision = "DRAFT", !.reason = "grounding_low_score"]
             passed(m) == Passes(score(m), st[r].retry)
  <2>1. PICK m \in 0..Cardinality(st[r].terms) :
          Return(r, IF passed(m) THEN scored(m) ELSE drafted(m),
                 {Metric("validator_result", "GROUNDING", passed(m))}, "Decision")
    BY <1>6 DEF ValidateGrounding
  <2>2. /\ st[r].cited \in BOOLEAN /\ st[r].retry = 0
        /\ score(m) \in Int
        /\ ~st[r].cited /\ ~NoneBanned(st[r].text) => score(m) <= 50
    <3>1. m \in Nat
      BY <2>1
    <3>2. st[r].cited \in BOOLEAN /\ st[r].retry = 0
      BY <1>0, <1>6 DEF ValidateGrounding, AgentState, Local, DraftSound, Drafting
    <3> QED BY <3>1, <3>2, ScoreBound
  <2>3. CASE passed(m)
    <3>1. Calibrated => score(m) >= Threshold /\ ~Rewrites(score(m), st[r].retry)
      BY <2>2, <2>3, ConfigAssumption DEF Passes, Rewrites, Calibrated
    <3>2. Calibrated /\ st[r].mode = "SCENARIO" => NoneBanned(scored(m).text)
      BY <1>0, <1>6, <2>2, <3>1, ConfigAssumption 
         DEF ValidateGrounding, AgentState, Calibrated, Local, PolicyKnown, Drafting
    <3>3. Local("Decision", scored(m), inquiry[r])
      BY <1>0, <1>6, <3>1, <3>2
         DEF ValidateGrounding, AgentState, Answers, Local, MaskedKnown, VerdictKnown, PolicyKnown, DraftSound, PostSound, TextMasked,
             Routing, Planning, Drafting, Alerting, Storing, Broken
    <3> QED BY <1>6, <2>1, <2>3, <3>3, ReturnInv
            DEF ValidateGrounding, Storing, Broken, OwnStateOnly, worldVars, fixedVars
  <2>4. CASE ~passed(m)
    <3>1. Local("Decision", drafted(m), inquiry[r])
      BY <1>0, <1>6
         DEF ValidateGrounding, AgentState, Local, MaskedKnown, VerdictKnown, PolicyKnown, DraftSound, PostSound, TextMasked,
             Routing, Planning, Drafting, Alerting, Storing, Broken
    <3> QED BY <1>6, <2>1, <2>4, <3>1, ReturnInv
            DEF ValidateGrounding, Storing, Broken, OwnStateOnly, worldVars, fixedVars
  <2> QED BY <2>3, <2>4
<1> QED BY <1>1, <1>2, <1>3, <1>4, <1>5, <1>6 DEF Draft

\* A place and a state the decision or the output leaves behind.
LEMMA AnswerLocal ==
    ASSUME NEW s \in AgentState, NEW q
    PROVE  /\ Local("Decision", s, q) => Local("OutputMask", Decide(s), q)
           /\ Local("OutputMask", s, q) => Local("Output", [s EXCEPT !.text = MaskPii(@)], q)
           /\ Local("Output", s, q) => Local("TelemetryLogger", s, q)
<1> USE DEF Local, MaskedKnown, VerdictKnown, PolicyKnown, DraftSound, PostSound, TextMasked,
            Routing, Planning, Drafting, Alerting, Storing, Broken
<1>1. ASSUME Local("Decision", s, q) PROVE Local("OutputMask", Decide(s), q)
  <2>1. CASE s.decision # "none"
    BY <1>1, <2>1 DEF Decide
  <2>2. CASE s.decision = "none" /\ s.autoPost
    <3>1. PolicyOf(q.kind).autoPost /\ s.mode = "SCENARIO"
      BY <1>1, <2>2 DEF PolicyOf
    <3> DEFINE t == [s EXCEPT !.decision = "AUTO_POST"]
    <3>2. /\ t.decision = "AUTO_POST" /\ t.text = s.text /\ t.score = s.score
          /\ t.trace = s.trace
      BY DEF AgentState
    <3>3. Decide(s) = t
      BY <2>2 DEF Decide
    <3>4. VerdictKnown("OutputMask", t, q)
      BY <1>1, <2>2, <3>2
    <3>5. PostSound(t, q)
      BY <1>1, <2>2, <3>1, <3>2 DEF Answers
    <3> HIDE DEF t
    <3> QED BY <3>3, <3>4, <3>5
  <2>3. CASE s.decision = "none" /\ ~s.autoPost
    <3> DEFINE t == [s EXCEPT !.decision = "DRAFT", !.reason = "policy_restrict"]
    <3>1. t.decision = "DRAFT" /\ Decide(s) = t
      BY <2>3 DEF Decide, AgentState
    <3> HIDE DEF t
    <3> QED BY <1>1, <2>3, <3>1
  <2> QED BY <2>1, <2>2, <2>3
<1>2. ASSUME Local("OutputMask", s, q) PROVE Local("Output", [s EXCEPT !.text = MaskPii(@)], q)
  <2> DEFINE t == [s EXCEPT !.text = MaskPii(@)]
  <2>1. /\ t.decision = s.decision /\ t.text = MaskPii(s.text) /\ t.score = s.score
        /\ t.trace = s.trace
    BY DEF AgentState
  <2>2. NoneExposed(t.text) /\ (NoneBanned(s.text) => NoneBanned(t.text))
    <3>1. s.text \in SUBSET Fragment
      BY DEF AgentState
    <3> QED BY <2>1, <3>1, MaskPiiFacts DEF NoneExposed, NoneBanned
  <2> HIDE DEF t
  <2>3. VerdictKnown("Output", t, q) /\ TextMasked("Output", t, q)
    BY <1>2, <2>1, <2>2
  <2>4. PostSound(t, q)
    BY <1>2, <2>1, <2>2 DEF Answers
  <2>5. MaskedKnown("Output", t, q) /\ PolicyKnown("Output", t, q) /\ DraftSound("Output", t, q)
    OBVIOUS
  <2> QED BY <2>3, <2>4, <2>5 DEF t
<1>3. Local("Output", s, q) => Local("TelemetryLogger", s, q)
  OBVIOUS
<1> QED BY <1>1, <1>2, <1>3

\* A step that moves one request and sends nothing off.
LEMMA MoveInv ==
    ASSUME TypeOK, Inv, NEW r \in Requests, NEW next,
           pc' = [pc EXCEPT ![r] = next], UNCHANGED <<st, inquiry>>, Outgoing' \subseteq Outgoing,
           Local(next, st[r], inquiry[r]), pc[r] \in Storing \cup Broken => next \in Storing \cup Broken
    PROVE  Inv'
<1>1. \A q \in Requests : (q # r => pc'[q] = pc[q]) /\ pc'[r] = next
  BY DEF TypeOK
<1>2. \A q \in Requests : Local(pc'[q], st'[q], inquiry'[q])
  BY <1>1 DEF Inv
<1>3. ASSUME NEW call \in Outgoing'
      PROVE  Sent(call, pc'[call.req], st'[call.req])
  <2>1. call.req \in Requests /\ Sent(call, pc[call.req], st[call.req])
    BY DEF Inv, Outgoing, TypeOK
  <2> QED BY <1>1, <2>1 DEF Sent
<1> QED BY <1>2, <1>3 DEF Inv

\* from the decision to the output,
LEMMA AnswerInv ==
    ASSUME TypeOK, Inv, NEW r \in Requests, Answer(r)
    PROVE  Inv'
<1>0. st[r] \in AgentState /\ Local(pc[r], st[r], inquiry[r])
  BY Start
<1>1. CASE DecisionNode(r)
  <2>1. Local("OutputMask", Decide(st[r]), inquiry[r])
    BY <1>0, <1>1, AnswerLocal DEF DecisionNode
  <2> QED BY <1>1, <2>1, ReturnInv
         DEF DecisionNode, OwnStateOnly, worldVars, fixedVars, Storing, Broken
<1>2. CASE OutputMask(r)
  <2>1. Local("Output", [st[r] EXCEPT !.text = MaskPii(@)], inquiry[r])
    BY <1>0, <1>2, AnswerLocal DEF OutputMask
  <2> QED BY <1>2, <2>1, ReturnInv
         DEF OutputMask, OwnStateOnly, worldVars, fixedVars, Storing, Broken
<1>3. CASE OutputNothing(r)
  <2>1. Local("TelemetryLogger", st[r], inquiry[r])
    BY <1>0, <1>3, AnswerLocal DEF OutputNothing
  <2> QED BY <1>3, <2>1, ReturnInv
         DEF OutputNothing, OwnStateOnly, worldVars, fixedVars, Storing, Broken
<1>4. CASE Output(r)
  <2>1. /\ \A q \in Requests : (q # r => pc'[q] = pc[q]) /\ pc'[r] = "TelemetryLogger"
        /\ \A q \in Requests : st'[q] = st[q]
        /\ inquiry' = inquiry
    BY <1>4 DEF Output, Return, TypeOK, fixedVars
  <2>2. Local("TelemetryLogger", st[r], inquiry[r])
    BY <1>0, <1>4, AnswerLocal DEF Output
  <2>3. \A q \in Requests : Local(pc'[q], st'[q], inquiry'[q])
    BY <2>1, <2>2 DEF Inv
  <2>4. Outgoing' \subseteq Outgoing \cup {Post(r)}
    BY <1>4 DEF Output, Outgoing
  <2>5. ASSUME NEW call \in Outgoing
        PROVE  Sent(call, pc'[call.req], st'[call.req])
    <3>1. call.req \in Requests /\ Sent(call, pc[call.req], st[call.req])
      BY DEF Inv, Outgoing, TypeOK
    <3> QED BY <2>1, <3>1 DEF Sent, Storing
  <2>6. Sent(Post(r), pc'[r], st'[r])
    BY <1>0, <1>4, <2>1 DEF Sent, Post, Storing, Output, Local, TextMasked
  <2>7. Post(r).req = r
    BY DEF Post
  <2> QED BY <2>3, <2>4, <2>5, <2>6, <2>7 DEF Inv
<1> QED BY <1>1, <1>2, <1>3, <1>4 DEF Answer

\* those of the handoff and of the telemetry logger,
LEMMA StoreInv ==
    ASSUME TypeOK, Inv, NEW r \in Requests, Handoff(r) \/ Persist(r)
    PROVE  Inv'
<1> USE DEF Routing, Planning, Drafting, Alerting, Storing, Broken
<1>0. Local(pc[r], st[r], inquiry[r])
  BY Start
<1>1. ASSUME pc[r] \in Alerting \cup Storing,
             NEW next \in {"HandoffCall", "HandoffMark", "TelemetryLogger", "InsertMetrics",
                           "UpsertCase", "done"},
             pc[r] \in Storing => next \in Storing
      PROVE  Local(next, st[r], inquiry[r])
  <2> DEFINE s == st[r]
             q == inquiry[r]
             here == pc[r]
  <2> HIDE DEF s, q, here
  <2>1. Local(here, s, q) /\ here \in Alerting \cup Storing /\ (here \in Storing => next \in Storing)
    BY <1>0, <1>1 DEF s, q, here
  <2>2. MaskedKnown(next, s, q) /\ PolicyKnown(next, s, q) /\ DraftSound(next, s, q)
    BY <1>1 DEF MaskedKnown, PolicyKnown, DraftSound
  <2>3. VerdictKnown(next, s, q)
    BY <2>1, <1>1 DEF Local, VerdictKnown
  <2>4. PostSound(s, q)
    BY <2>1 DEF Local
  <2>5. TextMasked(next, s, q)
    BY <2>1, <1>1 DEF Local, TextMasked, NoneExposed
  <2> QED BY <2>2, <2>3, <2>4, <2>5 DEF Local, s, q
<1>2. CASE HandoffSkipped(r)
  BY <1>1, <1>2, ReturnInv DEF HandoffSkipped, OwnStateOnly, worldVars, fixedVars
<1>3. CASE HandoffCheck(r)
  BY <1>1, <1>3, MoveInv DEF HandoffCheck, OwnStateOnly, worldVars, fixedVars, Outgoing
<1>4. CASE HandoffCall(r)
  <2>1. Outgoing' \subseteq Outgoing
    BY <1>4 DEF HandoffCall, Outgoing, Notify
  <2> QED BY <1>1, <1>4, <2>1, MoveInv DEF HandoffCall, fixedVars
<1>5. CASE HandoffMark(r)
  BY <1>1, <1>5, ReturnInv DEF HandoffMark, worldVars, fixedVars
<1>6. CASE LogEvent(r)
  BY <1>1, <1>6, MoveInv DEF LogEvent, worldVars, fixedVars, Outgoing
<1>7. CASE InsertMetrics(r)
  BY <1>1, <1>7, MoveInv DEF InsertMetrics, worldVars, fixedVars, Outgoing
<1>8. CASE UpsertCase(r)
  BY <1>1, <1>8, ReturnInv DEF UpsertCase, worldVars, fixedVars
<1> QED BY <1>2, <1>3, <1>4, <1>5, <1>6, <1>7, <1>8 DEF Handoff, Persist

\* and whatever comes from outside a request.
LEMMA WorldInv ==
    ASSUME TypeOK, Inv,
           \/ \E r \in Requests : ProcessCase(r)
           \/ \E call \in late : McpRunsLate(call) \/ McpDropsLate(call)
           \/ Crash
    PROVE  Inv'
<1>1. ASSUME NEW r \in Requests, ProcessCase(r)
      PROVE  Inv'
  <2>1. Local("NormalizeAndMask", st[r], inquiry[r])
    BY <1>1, Start DEF ProcessCase, Local, MaskedKnown, VerdictKnown, PolicyKnown, DraftSound,
       PostSound, TextMasked, Routing, Planning, Drafting, Alerting, Storing, Broken
  <2> QED BY <1>1, <2>1, MoveInv DEF ProcessCase, worldVars, Outgoing, Storing, Broken
<1>2. ASSUME NEW call \in late, McpRunsLate(call) \/ McpDropsLate(call)
      PROVE  Inv'
  <2>1. /\ pc' = pc /\ st' = st /\ inquiry' = inquiry /\ Outgoing' \subseteq Outgoing
    BY <1>2 DEF McpRunsLate, McpDropsLate, requestVars, fixedVars, Outgoing
  <2> QED BY <2>1 DEF Inv
<1>3. CASE Crash
  <2>1. /\ \A q \in Requests : pc'[q] = pc[q] \/ pc'[q] = "lost"
        /\ st' = st /\ inquiry' = inquiry /\ Outgoing' = Outgoing
    BY <1>3 DEF Crash, TypeOK, Outgoing, worldVars, fixedVars
  <2>2. \A q \in Requests : Local(pc'[q], st'[q], inquiry'[q])
    BY <2>1, BreakLocal DEF Inv, Broken
  <2>3. ASSUME NEW call \in Outgoing
        PROVE  Sent(call, pc'[call.req], st'[call.req])
    <3>1. call.req \in Requests /\ Sent(call, pc[call.req], st[call.req])
      BY DEF Inv, Outgoing, TypeOK
    <3> QED BY <2>1, <3>1 DEF Sent, Broken
  <2> QED BY <2>1, <2>2, <2>3 DEF Inv
<1> QED BY <1>1, <1>2, <1>3

LEMMA NextInv == TypeOK /\ Inv /\ [Next]_vars => Inv'
<1> SUFFICES ASSUME TypeOK, Inv, [Next]_vars PROVE Inv'
  OBVIOUS
<1>1. CASE Next
  <2>1. ASSUME NEW r \in Requests, Work(r) \/ Breaks(r)
        PROVE  Inv'
    <3>1. CASE SlotExtractionFails(r) \/ Breaks(r)
      <4>1. Raise(r)
        BY <3>1 DEF SlotExtractionFails, Breaks, GlossaryLoadFails, ClassificationFails,
                    VisionAnswerMalformed, DbFails
      <4> QED BY <4>1, RaiseInv
    <3> QED BY <2>1, <3>1, RoutingInv, PlanInv, DraftInv, AnswerInv, StoreInv DEF Work
  <2> QED BY <1>1, <2>1, WorldInv DEF Next
<1>2. CASE UNCHANGED vars
  BY <1>2 DEF Inv, Outgoing, vars, requestVars, worldVars, fixedVars
<1> QED BY <1>1, <1>2

THEOREM Invariance == Spec => [](TypeOK /\ Inv)
BY InitType, NextType, InitInv, NextInv, PTL DEF Spec

-----------------------------------------------------------------------------
(* What follows *)

\* No personal data the patterns match leaves the pipeline, in a reply or a draft,
\* whatever the texts, the dictionary and the configuration.
THEOREM OutgoingIsMasked == Spec => []OutgoingMasked
<1>1. TypeOK /\ Inv => OutgoingMasked
  BY DEF TypeOK, Inv, OutgoingMasked, Sent, Local, TextMasked, NoneExposed, Storing
<1> QED BY <1>1, Invariance, PTL

\* A keyword that stands apart from any address is one the rule finds once the text
\* is masked.
LEMMA LegibleIsHighRisk ==
    ASSUME TypeOK, Inv, NEW r \in Requests, AlarmIsLegible(r)
    PROVE  HighRisk(Words(inquiry[r]))
<1>1. PICK f \in Words(inquiry[r]) : f.k = "high" /\ f.d = 0
  BY DEF AlarmIsLegible, Words
<1>2. f = Plain("high")
  BY <1>1, Start DEF Plain, Fragment
<1> QED BY <1>1, <1>2 DEF HighRisk

\* A case whose words hold a high-risk keyword apart from their addresses is handed
\* to a person, whatever a classifier answers.
THEOREM LegibleAlarmsAreHandedOff == Spec => []LegibleAlarmIsHandedOff
<1>1. TypeOK /\ Inv => LegibleAlarmIsHandedOff
  <2> SUFFICES ASSUME TypeOK, Inv, NEW r \in Requests, AlarmIsLegible(r),
                      pc[r] \notin Routing \cup Broken
               PROVE  st[r].decision = "HANDOFF"
    BY DEF LegibleAlarmIsHandedOff, PastRouting, Routing, Broken
  <2> QED BY LegibleIsHighRisk, Start DEF Local, VerdictKnown
<1> QED BY <1>1, Invariance, PTL

\* A reply sent to the board is justified, under a configuration in which the
\* grounding score can vouch for it.
THEOREM RepliesAreJustified == Spec => [](Calibrated => ReplyIsJustified)
<1>1. TypeOK /\ Inv => (Calibrated => ReplyIsJustified)
  <2> SUFFICES ASSUME TypeOK, Inv, Calibrated, NEW call \in Outgoing
               PROVE  /\ PolicyOf(inquiry[call.req].kind).autoPost /\ ~AlarmIsLegible(call.req)
                      /\ Call("rag_search", "answer") \in st[call.req].trace
                      /\ NoneBanned(call.text) /\ st[call.req].score >= Threshold
    BY DEF ReplyIsJustified, NoneBanned
  <2>1. call.req \in Requests /\ Sent(call, pc[call.req], st[call.req])
    BY DEF Inv, Outgoing, TypeOK
  <2>2. PostSound(st[call.req], inquiry[call.req])
    BY <2>1 DEF Inv, Local
  <2>3. ~AlarmIsLegible(call.req)
    BY <2>1, <2>2, LegibleIsHighRisk DEF PostSound, Sent
  <2> QED BY <2>1, <2>2, <2>3 DEF Sent, PostSound, Answers
<1> QED BY <1>1, Invariance, PTL
=============================================================================
