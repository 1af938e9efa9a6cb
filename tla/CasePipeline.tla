---------------------------- MODULE CasePipeline ----------------------------
(***************************************************************************)
(* The case-answering pipeline of the board bot: the LangGraph nodes of    *)
(* board_bot/graphs/pipeline.py run once per POST /v1/cases/process        *)
(* (apps/api/app/main.py), on the thread pool of one API process.  A       *)
(* request owns its AgentState; requests meet in Postgres (handoff rows,   *)
(* logs, metrics, cases), in the glossary cache and on the board, which    *)
(* they reach through the MCP client.                                      *)
(*                                                                         *)
(* One action is one node.  A node that makes several calls with an        *)
(* outside effect is cut where another request, or a crash, can be seen    *)
(* between them: HandoffNotify (check, call, mark) and TelemetryLogger     *)
(* (log, metrics, case: three transactions).                               *)
(*                                                                         *)
(* A text is the set of its fragments.  A fragment has a kind and the      *)
(* number d of times the banned word must be struck out of it before       *)
(* nothing of the word is left: personal data written around a banned word *)
(* ([k |-> "pii", d |-> 1]) escapes the masking patterns until the word is *)
(* struck out, and is matched by them from then on.  A fragment ends where *)
(* no pattern reaches across: since \w of the address pattern matches      *)
(* Hangul, a keyword written against an address is one fragment with it    *)
(* ("highmail"), and is masked away with it.                               *)
(***************************************************************************)
EXTENDS Integers, FiniteSets, Sequences

CONSTANTS
    Requests,          \* the requests of one run
    Cases,             \* the case ids clients send
    Inquiries,         \* what a client may ask: see InquiryShape
    Glossary,          \* the fragments of the descriptions in the term dictionary
    Documents,         \* the fragments rag_search may quote
    VisionAnswers,     \* what vision_triage may answer, in percent
    Environments,      \* what a run may meet: see Environment
    RefreshGlossary,   \* glossary.refresh.enabled
    ExposeGlossary,    \* glossary.expose_to_customer
    MaxTerms,          \* glossary.max_terms
    Threshold,         \* grounding.threshold, in percent
    MaxRewrite,        \* grounding.max_rewrite
    VisionThreshold,   \* prevision.confidence_threshold, in percent
    MaxDepth           \* bound: how deep a banned word nests in a fragment

Fragment ==
    [k : {"plain", "high", "pii", "highmail", "ban", "mask", "label", "template", "note"},
     d : 0..MaxDepth]
InquiryShape == [case : Cases, kind : {"delay", "damage", "other"},
                 title : Fragment, body : SUBSET Fragment, files : BOOLEAN]
Scores == [damage : 0..100, misdelivery : 0..100, unclear : 0..100]
FaultKinds == {"db", "llm", "mcp", "milvus", "webhook", "vision", "crash"}
\* Whether an API key was found when the process started, and the bound on which
\* failures happen.
Environment == [llm : BOOLEAN, faults : SUBSET FaultKinds]

ASSUME InputsAssumption ==
    /\ Inquiries \subseteq InquiryShape
    /\ Glossary \subseteq Fragment
    /\ Documents \subseteq Fragment
    /\ VisionAnswers \subseteq Scores
    /\ Environments \subseteq Environment
ASSUME ConfigAssumption ==
    /\ RefreshGlossary \in BOOLEAN
    /\ ExposeGlossary \in BOOLEAN
    /\ MaxTerms \in Nat
    /\ Threshold \in 0..100
    /\ MaxRewrite \in Nat
    /\ VisionThreshold \in 0..100
    /\ MaxDepth \in Nat

VARIABLES
    env,             \* the environment of this behaviour
    pc,              \* the node each request runs next, or how it ended
    inquiry,         \* what each request asks
    st,              \* the AgentState of each request
    metrics,         \* telemetry.metrics: the buffered events of each request
    glossaryLoaded,  \* the glossary cache holds terms
    handoffRows,     \* t_handoff_notifications: the cases marked as notified
    logged,          \* t_execution_logs: the requests that wrote their event
    metricRows,      \* t_metrics_events: the events each request inserted
    caseRow,         \* t_cases: the request whose state is the row of the case
    alertCalls,      \* requests that asked for a handoff notification
    alerts,          \* requests whose notification reached the webhook
    replies,         \* replies on the board
    late,            \* calls given up on which the MCP server may still run
    doneBefore       \* history: the requests completed when this one arrived

requestVars == <<pc, st, metrics>>
dbVars == <<handoffRows, logged, metricRows, caseRow>>
worldVars == <<alertCalls, alerts, replies, late>>
fixedVars == <<env, inquiry, doneBefore>>
vars == <<requestVars, glossaryLoaded, dbVars, worldVars, fixedVars>>

LlmConfigured == env.llm
Faults == env.faults

-----------------------------------------------------------------------------
(* Texts *)

Plain(kind) == [k |-> kind, d |-> 0]

\* A fragment one of the PII patterns matches as it stands.  In an address the
\* banned word is a part of the name like any other.
Exposed(f) == (f.k = "pii" /\ f.d = 0) \/ f.k = "highmail"

\* The banned word can be read in the fragment.
Banned(f) == f.d > 0

MaskPii(text) == {IF Exposed(f) THEN Plain("mask") ELSE f : f \in text}

\* Faulty variant: counts a strike against fragments without the word.
StripTooMuch(text) == {[f EXCEPT !.d = @ - 1] : f \in text}

\* Every occurrence of the banned word goes, what it was nested in closes up.
StripBanned(text) ==
    {f \in text : ~Banned(f)}
      \cup {[f EXCEPT !.d = @ - 1] : f \in {g \in text : Banned(g) /\ g.k # "ban"}}
      \cup {[f EXCEPT !.d = @ - 1] : f \in {g \in text : g.d > 1 /\ g.k = "ban"}}

SanitizeTemplateText(text) == StripBanned(MaskPii(text))

\* A high-risk keyword the rule finds in the masked text.
HighRisk(text) == Plain("high") \in text

-----------------------------------------------------------------------------
(* Classification, vision, policy, plan *)

Labels == {"missing", "misdelivered", "undelivered", "sold_out", "damaged", "cancel"}
EnabledIntents == {"missing", "misdelivered", "undelivered", "damaged"}

\* What the classifier may say: without an LLM the dummy classification, which
\* repeats the rule's risk; with one, at most three intents and any risk.
Judgements(masked) ==
    IF LlmConfigured
    THEN [labels : {s \in SUBSET Labels : s # {} /\ Cardinality(s) <= 3}, high : BOOLEAN]
    ELSE {[labels |-> {"undelivered"}, high |-> HighRisk(masked)]}

\* Faulty variant: the classifier's risk alone routes.
RoutedByAnswerOnly(masked, judged) == judged.high

\* HIGH by the rule or by the classifier.
IsHandoff(masked, judged) == HighRisk(masked) \/ judged.high

\* max() over the scores keeps the first of the largest.
TopScore(a) ==
    IF a.damage >= a.misdelivery /\ a.damage >= a.unclear THEN "damage"
    ELSE IF a.misdelivery >= a.unclear THEN "misdelivery" ELSE "unclear"

\* Faulty variant: the threshold is not looked at.
TriageWithoutThreshold(a) == IF TopScore(a) = "unclear" THEN "unknown" ELSE TopScore(a)

Triage(a) ==
    IF TopScore(a) = "unclear" \/ a[TopScore(a)] < VisionThreshold
    THEN "unknown" ELSE TopScore(a)

\* What the MCP client answers for vision_triage when the call fails.
VisionFallback == [damage |-> 50, misdelivery |-> 10, unclear |-> 0]

PolicyOf(kind) ==
    CASE kind = "delay"  -> [mode |-> "SCENARIO", autoPost |-> TRUE]
      [] kind = "damage" -> [mode |-> "AGENT", autoPost |-> FALSE]
      [] OTHER           -> [mode |-> "SCENARIO", autoPost |-> FALSE]

\* The variables of the slot prompt, and those its caller gives values to: an
\* LLM run of PlanBuilder raises KeyError unless the first are among the second.
SlotPromptVariables == {"format_instructions", "retry_instruction",
                        "glossary_context", "expanded_query", "masked_text"}
SlotPromptValues == {"format_instructions", "retry_instruction", "masked_text"}
SlotPromptWorks == SlotPromptVariables \subseteq SlotPromptValues

StepsOf(mode) ==
    IF mode = "SCENARIO" THEN <<"rag_search", "get_shipping">>
                         ELSE <<"rag_search", "get_order", "get_shipping">>
Tools == {"rag_search", "get_order", "get_shipping"}
MaxTools == 6
Min2(a, b) == IF a < b THEN a ELSE b
ToolsRun(mode) == {StepsOf(mode)[i] : i \in 1..Min2(MaxTools, Len(StepsOf(mode)))}

\* The server answered; it answered ok=False (rag_search only); the call failed
\* and the client's fallback stands in for the answer.
Outcomes(tool) ==
    {"answer"}
      \cup (IF tool = "rag_search" /\ "milvus" \in Faults THEN {"error"} ELSE {})
      \cup (IF "mcp" \in Faults THEN {"fallback"} ELSE {})

\* Faulty variant: only exceptions count as failures.
NeverFails(tool, outcome) == FALSE

\* res.get("ok") is False: the fallback of rag_search says so, those of the
\* other tools say ok=True.
ReportsFailure(tool, outcome) == tool = "rag_search" /\ outcome # "answer"

-----------------------------------------------------------------------------
(* Grounding *)

\* 0.5 coverage + 0.3 citation + 0.2 policy - 0.05 per term used out of context
\* (0.2 at most), in percent.  There is one issue, covered when the start of its
\* summary (the title) or its label is in the answer.
Score(text, title, cited, mismatches) ==
    (IF title \in text \/ Plain("label") \in text THEN 50 ELSE 0)
      + (IF cited THEN 30 ELSE 0)
      + (IF \E f \in text : Banned(f) THEN 0 ELSE 20)
      - Min2(5 * mismatches, 20)

\* Faulty variant: a score at the threshold does not pass.
PassesAboveOnly(score, retry) ==
    \/ score > Threshold
    \/ retry < MaxRewrite /\ retry + 1 >= MaxRewrite

\* A rewrite appends a note, is not scored again, and passes when it is the
\* last one allowed.
Rewrites(score, retry) == score < Threshold /\ retry < MaxRewrite
Passes(score, retry) ==
    \/ score >= Threshold
    \/ retry < MaxRewrite /\ retry + 1 >= MaxRewrite

-----------------------------------------------------------------------------
(* The AgentState and the buffered metrics *)

Verdicts == {"none", "HANDOFF", "DRAFT", "AUTO_POST"}
Reasons == {"none", "high_risk", "budget_exceeded", "tool_failure",
            "grounding_low_score", "policy_restrict"}
Call(tool, outcome) == [tool |-> tool, outcome |-> outcome]
Calls == [tool : Tools, outcome : {"answer", "error", "fallback"}]

AgentState ==
    [masked : SUBSET Fragment, terms : SUBSET Glossary, labels : SUBSET Labels,
     need : BOOLEAN, vision : {"none", "skipped", "unknown", "damage", "misdelivery"},
     seen : {"nothing", "answer", "fallback"},
     mode : {"none", "SCENARIO", "AGENT"}, autoPost : BOOLEAN,
     trace : SUBSET Calls, text : SUBSET Fragment, cited : BOOLEAN, retry : 0..MaxRewrite,
     score : Int, decision : Verdicts, reason : Reasons]

EmptyState ==
    [masked |-> {}, terms |-> {}, labels |-> {}, need |-> FALSE, vision |-> "none",
     seen |-> "nothing", mode |-> "none", autoPost |-> FALSE, trace |-> {}, text |-> {},
     cited |-> FALSE, retry |-> 0, score |-> 0, decision |-> "none", reason |-> "none"]

Nodes == {"NormalizeAndMask", "TermExtract", "ClassifyRiskRoute", "PreVisionNeedGate",
          "PreVision", "PolicyLoader", "PlanBuilder", "PlanEngine", "ResponseModeGate",
          "ScenarioSubgraph", "AgentGenerateSubgraph", "ValidatePII", "ValidatePolicy",
          "ValidateGrounding", "Decision", "OutputMask", "Output", "HandoffNotify",
          "TelemetryLogger"}
\* The places inside a node where another request or a crash can come between.
Inner == {"HandoffCall", "HandoffMark", "InsertMetrics", "UpsertCase"}
Ended == {"done", "failed", "lost"}
NodeOf(place) == CASE place \in {"HandoffCall", "HandoffMark"} -> "HandoffNotify"
                   [] place \in {"InsertMetrics", "UpsertCase"} -> "TelemetryLogger"
                   [] OTHER -> place

Metric(name, tag, ok) == [name |-> name, tag |-> tag, ok |-> ok]
MetricNames == {"case_received", "glossary_extract", "llm_usage", "classification_completed",
                "rag_query_expansion", "tool_call", "validator_result", "decision_made",
                "post_reply_result", "node_execution"}
Metrics == [name : MetricNames,
            tag : {""} \cup Tools \cup Verdicts \cup Nodes \cup {"PII", "POLICY", "GROUNDING"},
            ok : BOOLEAN]

Active(r) == pc[r] \in Nodes \cup Inner

\* The node returns state s having emitted events; the wrapper emits its own.
Return(r, s, events, next) ==
    /\ st' = [st EXCEPT ![r] = s]
    /\ metrics' = [metrics EXCEPT ![r] =
                     @ \cup events \cup {Metric("node_execution", NodeOf(pc[r]), TRUE)}]
    /\ pc' = [pc EXCEPT ![r] = next]

\* The node raises: the wrapper emits its event into the buffer and lets the
\* exception through, which ends the request.
Raise(r) ==
    /\ metrics' = [metrics EXCEPT ![r] =
                     @ \cup {Metric("node_execution", NodeOf(pc[r]), FALSE)}]
    /\ pc' = [pc EXCEPT ![r] = "failed"]
    /\ UNCHANGED <<st, glossaryLoaded, dbVars, worldVars, fixedVars>>

\* What a node that works on its own AgentState leaves alone.
OwnStateOnly == UNCHANGED <<glossaryLoaded, dbVars, worldVars, fixedVars>>

-----------------------------------------------------------------------------
Init ==
    /\ env \in Environments
    /\ pc = [r \in Requests |-> "waiting"]
    /\ inquiry \in [Requests -> Inquiries]
    /\ st = [r \in Requests |-> EmptyState]
    /\ metrics = [r \in Requests |-> {}]
    /\ glossaryLoaded \in (IF Glossary = {} THEN {FALSE} ELSE
                           IF "db" \in Faults THEN BOOLEAN ELSE {TRUE})
    /\ handoffRows = {} /\ logged = {}
    /\ metricRows = [r \in Requests |-> {}]
    /\ caseRow = [c \in Cases |-> "none"]
    /\ alertCalls = {} /\ alerts = {} /\ replies = {} /\ late = {}
    /\ doneBefore = [r \in Requests |-> {}]

\* process_case builds the state and invokes the graph.
ProcessCase(r) ==
    /\ pc[r] = "waiting"
    /\ pc' = [pc EXCEPT ![r] = "NormalizeAndMask"]
    /\ doneBefore' = [doneBefore EXCEPT ![r] = {q \in Requests : pc[q] = "done"}]
    /\ UNCHANGED <<st, metrics, env, inquiry, glossaryLoaded, dbVars, worldVars>>

NormalizeAndMask(r) ==
    /\ pc[r] = "NormalizeAndMask"
    /\ Return(r, [st[r] EXCEPT !.masked = MaskPii({inquiry[r].title} \cup inquiry[r].body)],
              {Metric("case_received", "", TRUE)}, "TermExtract")
    /\ OwnStateOnly

\* An empty cache is loaded first; which terms the text holds is left open.
TermExtract(r) ==
    /\ pc[r] = "TermExtract"
    /\ glossaryLoaded' = (Glossary # {})
    /\ \E found \in {t \in SUBSET Glossary : Cardinality(t) <= MaxTerms} :
          Return(r, [st[r] EXCEPT !.terms = found], {Metric("glossary_extract", "", TRUE)},
                 "ClassifyRiskRoute")
    /\ UNCHANGED <<dbVars, worldVars, fixedVars>>

\* So can the reload of a cache whose time is up, which leaves it as it was.
GlossaryLoadFails(r) ==
    /\ pc[r] = "TermExtract" /\ "db" \in Faults
    /\ ~glossaryLoaded \/ RefreshGlossary
    /\ Raise(r)

Classified == {Metric("llm_usage", "", TRUE), Metric("classification_completed", "", TRUE)}

ClassifyRiskRoute(r) ==
    /\ pc[r] = "ClassifyRiskRoute"
    /\ \E judged \in Judgements(st[r].masked) :
          IF IsHandoff(st[r].masked, judged)
          THEN Return(r, [st[r] EXCEPT !.labels = judged.labels, !.decision = "HANDOFF",
                                       !.reason = "high_risk"], Classified, "HandoffNotify")
          ELSE Return(r, [st[r] EXCEPT !.labels = judged.labels], Classified, "PreVisionNeedGate")
    /\ OwnStateOnly

\* Two answers in a row that do not parse, or no answer at all.
ClassificationFails(r) ==
    /\ pc[r] = "ClassifyRiskRoute" /\ LlmConfigured /\ "llm" \in Faults
    /\ Raise(r)

PreVisionNeedGate(r) ==
    /\ pc[r] = "PreVisionNeedGate"
    /\ Return(r, [st[r] EXCEPT !.need = inquiry[r].files /\ st[r].labels \cap EnabledIntents # {}],
              {}, "PreVision")
    /\ OwnStateOnly

PreVisionSkipped(r) ==
    /\ pc[r] = "PreVision" /\ ~st[r].need
    /\ Return(r, [st[r] EXCEPT !.vision = "skipped"], {}, "PolicyLoader")
    /\ OwnStateOnly

PreVision(r) ==
    /\ pc[r] = "PreVision" /\ st[r].need
    /\ \/ \E a \in VisionAnswers :
             Return(r, [st[r] EXCEPT !.vision = Triage(a), !.seen = "answer"], {}, "PolicyLoader")
       \/ /\ "mcp" \in Faults
          /\ Return(r, [st[r] EXCEPT !.vision = Triage(VisionFallback), !.seen = "fallback"],
                    {}, "PolicyLoader")
    /\ OwnStateOnly

\* The model's JSON is handed over as it is: a score that is no number raises.
VisionAnswerMalformed(r) ==
    /\ pc[r] = "PreVision" /\ st[r].need /\ "vision" \in Faults
    /\ Raise(r)

PolicyLoader(r) ==
    /\ pc[r] = "PolicyLoader"
    /\ Return(r, [st[r] EXCEPT !.autoPost = PolicyOf(inquiry[r].kind).autoPost], {}, "PlanBuilder")
    /\ OwnStateOnly

PlanBuilder(r) ==
    /\ pc[r] = "PlanBuilder"
    /\ LlmConfigured => SlotPromptWorks
    /\ Return(r, [st[r] EXCEPT !.mode = PolicyOf(inquiry[r].kind).mode],
              {Metric("rag_query_expansion", "", TRUE)}, "PlanEngine")
    /\ OwnStateOnly

SlotExtractionFails(r) ==
    /\ pc[r] = "PlanBuilder" /\ LlmConfigured /\ ~SlotPromptWorks
    /\ Raise(r)

\* The steps in their order; a step beyond the budget drafts, and so does one
\* whose result says ok=False, the later of the two giving the reason.
PlanEngine(r) ==
    /\ pc[r] = "PlanEngine"
    /\ \E outcome \in {o \in [ToolsRun(st[r].mode) -> {"answer", "error", "fallback"}] :
                         \A t \in ToolsRun(st[r].mode) : o[t] \in Outcomes(t)} :
          LET failed == {t \in ToolsRun(st[r].mode) : ReportsFailure(t, outcome[t])}
              spent  == Len(StepsOf(st[r].mode)) > MaxTools
              traced == [st[r] EXCEPT !.trace = {Call(t, outcome[t]) : t \in ToolsRun(st[r].mode)}]
          IN  Return(r, IF failed = {} /\ ~spent THEN traced
                        ELSE [traced EXCEPT !.decision = "DRAFT",
                                !.reason = IF spent THEN "budget_exceeded" ELSE "tool_failure"],
                     {Metric("tool_call", t, t \notin failed) : t \in ToolsRun(st[r].mode)},
                     "ResponseModeGate")
    /\ OwnStateOnly

ResponseModeGate(r) ==
    /\ pc[r] = "ResponseModeGate"
    /\ Return(r, st[r], {}, IF st[r].mode = "AGENT" THEN "AgentGenerateSubgraph"
                                                    ELSE "ScenarioSubgraph")
    /\ OwnStateOnly

ScenarioSubgraph(r) ==
    /\ pc[r] = "ScenarioSubgraph"
    /\ Return(r, [st[r] EXCEPT !.text = SanitizeTemplateText(
                    {Plain("label"), Plain("template")}
                      \cup (IF ExposeGlossary THEN st[r].terms ELSE {}))],
              {}, "ValidatePII")
    /\ OwnStateOnly

\* Without an LLM: the first 120 characters of the masked text, which begin with
\* the title, and the first 300 of the tool trace.
AgentGenerateSubgraph(r) ==
    /\ pc[r] = "AgentGenerateSubgraph"
    /\ \E kept \in SUBSET MaskPii(inquiry[r].body),
          quoted \in IF Call("rag_search", "answer") \in st[r].trace
                     THEN SUBSET Documents ELSE {{}} :
          Return(r, [st[r] EXCEPT !.cited = TRUE, !.text = SanitizeTemplateText(
                       MaskPii({inquiry[r].title}) \cup kept \cup quoted)],
                 {}, "ValidatePII")
    /\ OwnStateOnly

ValidatePII(r) ==
    /\ pc[r] = "ValidatePII"
    /\ Return(r, [st[r] EXCEPT !.text = MaskPii(@)],
              {Metric("validator_result", "PII", MaskPii(st[r].text) = st[r].text)},
              "ValidatePolicy")
    /\ OwnStateOnly

ValidatePolicy(r) ==
    /\ pc[r] = "ValidatePolicy"
    /\ Return(r, [st[r] EXCEPT !.text = StripBanned(@)],
              {Metric("validator_result", "POLICY", ~ \E f \in st[r].text : Banned(f))},
              "ValidateGrounding")
    /\ OwnStateOnly

ValidateGrounding(r) ==
    /\ pc[r] = "ValidateGrounding"
    /\ \E mismatches \in 0..Cardinality(st[r].terms) :
          LET score  == Score(st[r].text, inquiry[r].title, st[r].cited, mismatches)
              scored == [st[r] EXCEPT !.score = score,
                           !.retry = IF Rewrites(score, @) THEN @ + 1 ELSE @,
                           !.text = IF Rewrites(score, st[r].retry)
                                    THEN @ \cup {Plain("note")} ELSE @]
              passed == Passes(score, st[r].retry)
          IN  Return(r, IF passed THEN scored
                        ELSE [scored EXCEPT !.decision = "DRAFT", !.reason = "grounding_low_score"],
                     {Metric("validator_result", "GROUNDING", passed)}, "Decision")
    /\ OwnStateOnly

\* Faulty variant: the policy decides, whatever was decided before.
DecideByPolicy(s) ==
    [s EXCEPT !.decision = IF s.autoPost THEN "AUTO_POST" ELSE "DRAFT"]

\* The verdict of the decision node on state s.
Decide(s) ==
    IF s.decision \in {"HANDOFF", "DRAFT"} THEN s
    ELSE IF s.autoPost THEN [s EXCEPT !.decision = "AUTO_POST"]
    ELSE [s EXCEPT !.decision = "DRAFT", !.reason = "policy_restrict"]

\* Faulty variant: reports the verdict before it is decided.
DecisionReportedFirst(r) ==
    /\ pc[r] = "Decision"
    /\ Return(r, Decide(st[r]), {Metric("decision_made", st[r].decision, TRUE)}, "OutputMask")
    /\ OwnStateOnly

DecisionNode(r) ==
    /\ pc[r] = "Decision"
    /\ Return(r, Decide(st[r]), {Metric("decision_made", Decide(st[r]).decision, TRUE)}, "OutputMask")
    /\ OwnStateOnly

\* Faulty variant: trusts the validators and passes the text on.
OutputAsIs(r) ==
    /\ pc[r] = "OutputMask"
    /\ Return(r, st[r], {}, "Output")
    /\ OwnStateOnly

OutputMask(r) ==
    /\ pc[r] = "OutputMask"
    /\ Return(r, [st[r] EXCEPT !.text = MaskPii(@)], {}, "Output")
    /\ OwnStateOnly

Post(r) == [tool |-> "post_reply", req |-> r, text |-> st[r].text]

\* Faulty variant: drafts are posted too.
OutputDraftToo(r) ==
    /\ pc[r] = "Output" /\ st[r].decision # "AUTO_POST"
    /\ Return(r, st[r], {}, "TelemetryLogger")
    /\ replies' = replies \cup {Post(r)}
    /\ UNCHANGED <<alertCalls, alerts, late, glossaryLoaded, dbVars, fixedVars>>

OutputNothing(r) ==
    /\ pc[r] = "Output" /\ st[r].decision # "AUTO_POST"
    /\ Return(r, st[r], {}, "TelemetryLogger")
    /\ OwnStateOnly

\* Faulty variant: the reply is counted and not sent.
OutputForgotten(r) ==
    /\ pc[r] = "Output" /\ st[r].decision = "AUTO_POST"
    /\ Return(r, st[r], {Metric("post_reply_result", "", TRUE)}, "TelemetryLogger")
    /\ OwnStateOnly

\* The fallback of post_reply says posted=True as the server does.  The server's
\* own post_reply is a stand-in for the board; that it ran counts as a reply there.
Output(r) ==
    /\ pc[r] = "Output" /\ st[r].decision = "AUTO_POST"
    /\ Return(r, st[r], {Metric("post_reply_result", "", TRUE)}, "TelemetryLogger")
    /\ \/ replies' = replies \cup {Post(r)} /\ UNCHANGED late
       \/ "mcp" \in Faults /\ late' = late \cup {Post(r)} /\ UNCHANGED replies
    /\ UNCHANGED <<alertCalls, alerts, glossaryLoaded, dbVars, fixedVars>>

-----------------------------------------------------------------------------
(* HandoffNotify: check, call, mark *)

Case(r) == inquiry[r].case

\* Faulty variant: a case already notified is polled for, not skipped.
HandoffWaits(r) ==
    /\ pc[r] = "HandoffNotify" /\ Case(r) \in handoffRows
    /\ UNCHANGED vars

HandoffSkipped(r) ==
    /\ pc[r] = "HandoffNotify" /\ Case(r) \in handoffRows
    /\ Return(r, st[r], {}, "TelemetryLogger")
    /\ OwnStateOnly

\* Faulty variant: the row is written before the call.
MarkThenCall(r) ==
    /\ pc[r] = "HandoffNotify" /\ Case(r) \notin handoffRows
    /\ handoffRows' = handoffRows \cup {Case(r)}
    /\ pc' = [pc EXCEPT ![r] = "HandoffCall"]
    /\ UNCHANGED <<st, metrics, logged, metricRows, caseRow, glossaryLoaded, worldVars, fixedVars>>

HandoffCheck(r) ==
    /\ pc[r] = "HandoffNotify" /\ Case(r) \notin handoffRows
    /\ pc' = [pc EXCEPT ![r] = "HandoffCall"]
    /\ UNCHANGED <<st, metrics>> /\ OwnStateOnly

Notify(r) == [tool |-> "notify_handoff", req |-> r, text |-> {}]

\* The webhook is called by the MCP server; its answer, or the client's
\* fallback, is kept in the state and not looked at.
Delivers(r) ==
    \/ alerts' = alerts \cup {r}
    \/ "webhook" \in Faults /\ UNCHANGED alerts

HandoffCall(r) ==
    /\ pc[r] = "HandoffCall"
    /\ pc' = [pc EXCEPT ![r] = "HandoffMark"]
    /\ alertCalls' = alertCalls \cup {r}
    /\ \/ Delivers(r) /\ UNCHANGED late
       \/ "mcp" \in Faults /\ late' = late \cup {Notify(r)} /\ UNCHANGED alerts
    /\ UNCHANGED <<st, metrics, replies, glossaryLoaded, dbVars, fixedVars>>

\* Faulty variant: the notification leaves no row.
HandoffUnmarked(r) ==
    /\ pc[r] = "HandoffMark"
    /\ Return(r, st[r], {}, "TelemetryLogger")
    /\ OwnStateOnly

HandoffMark(r) ==
    /\ pc[r] = "HandoffMark"
    /\ handoffRows' = handoffRows \cup {Case(r)}
    /\ Return(r, st[r], {}, "TelemetryLogger")
    /\ UNCHANGED <<logged, metricRows, caseRow, glossaryLoaded, worldVars, fixedVars>>

-----------------------------------------------------------------------------
(* TelemetryLogger: three transactions *)

\* Faulty variant: the case is stored before its log event.
StoreThenLog(r) ==
    /\ pc[r] = "TelemetryLogger"
    /\ caseRow' = [caseRow EXCEPT ![Case(r)] = r]
    /\ pc' = [pc EXCEPT ![r] = "InsertMetrics"]
    /\ UNCHANGED <<st, metrics, handoffRows, logged, metricRows, glossaryLoaded, worldVars, fixedVars>>

LogEvent(r) ==
    /\ pc[r] = "TelemetryLogger"
    /\ logged' = logged \cup {r}
    /\ pc' = [pc EXCEPT ![r] = "InsertMetrics"]
    /\ UNCHANGED <<st, metrics, handoffRows, metricRows, caseRow, glossaryLoaded, worldVars, fixedVars>>

\* Faulty variant: a batch that cannot be stored is given up.
InsertMetricsOrNot(r) ==
    /\ pc[r] = "InsertMetrics"
    /\ \/ metricRows' = [metricRows EXCEPT ![r] = metrics[r]]
       \/ "db" \in Faults /\ UNCHANGED metricRows
    /\ pc' = [pc EXCEPT ![r] = "UpsertCase"]
    /\ UNCHANGED <<st, metrics, handoffRows, logged, caseRow, glossaryLoaded, worldVars, fixedVars>>

InsertMetrics(r) ==
    /\ pc[r] = "InsertMetrics"
    /\ metricRows' = [metricRows EXCEPT ![r] = metrics[r]]
    /\ pc' = [pc EXCEPT ![r] = "UpsertCase"]
    /\ UNCHANGED <<st, metrics, handoffRows, logged, caseRow, glossaryLoaded, worldVars, fixedVars>>

UpsertCase(r) ==
    /\ pc[r] = "UpsertCase"
    /\ caseRow' = [caseRow EXCEPT ![Case(r)] = r]
    /\ Return(r, st[r], {}, "done")
    /\ UNCHANGED <<handoffRows, logged, metricRows, glossaryLoaded, worldVars, fixedVars>>

DbFails(r) ==
    /\ pc[r] \in {"HandoffNotify", "HandoffMark", "TelemetryLogger", "InsertMetrics", "UpsertCase"}
    /\ "db" \in Faults
    /\ Raise(r)

-----------------------------------------------------------------------------
(* The MCP server behind a call given up on, and the end of the process *)

McpRunsLate(call) ==
    /\ call \in late
    /\ late' = late \ {call}
    /\ \/ call.tool = "post_reply" /\ replies' = replies \cup {call} /\ UNCHANGED alerts
       \/ call.tool = "notify_handoff" /\ Delivers(call.req) /\ UNCHANGED replies
    /\ UNCHANGED <<requestVars, alertCalls, glossaryLoaded, dbVars, fixedVars>>

McpDropsLate(call) ==
    /\ call \in late
    /\ late' = late \ {call}
    /\ UNCHANGED <<requestVars, alertCalls, alerts, replies, glossaryLoaded, dbVars, fixedVars>>

\* The API process goes down with every request in it, and comes up again; the
\* load of the glossary at start may fail.
Crash ==
    /\ "crash" \in Faults
    /\ \E r \in Requests : Active(r)
    /\ pc' = [r \in Requests |-> IF Active(r) THEN "lost" ELSE pc[r]]
    /\ glossaryLoaded' \in (IF Glossary = {} THEN {FALSE} ELSE
                            IF "db" \in Faults THEN BOOLEAN ELSE {TRUE})
    /\ UNCHANGED <<st, metrics, dbVars, worldVars, fixedVars>>

Plan(r) == PreVisionNeedGate(r) \/ PreVisionSkipped(r) \/ PreVision(r) \/ PolicyLoader(r)
             \/ PlanBuilder(r) \/ PlanEngine(r)
Draft(r) == ResponseModeGate(r) \/ ScenarioSubgraph(r) \/ AgentGenerateSubgraph(r)
              \/ ValidatePII(r) \/ ValidatePolicy(r) \/ ValidateGrounding(r)
Answer(r) == DecisionNode(r) \/ OutputMask(r) \/ OutputNothing(r) \/ Output(r)
Handoff(r) == HandoffSkipped(r) \/ HandoffCheck(r) \/ HandoffCall(r) \/ HandoffMark(r)
Persist(r) == LogEvent(r) \/ InsertMetrics(r) \/ UpsertCase(r)
\* What can go wrong around a request at any time.
Breaks(r) == GlossaryLoadFails(r) \/ ClassificationFails(r) \/ VisionAnswerMalformed(r)
               \/ DbFails(r)

\* One step of the thread that runs request r, when nothing goes wrong around it.
Work(r) == NormalizeAndMask(r) \/ TermExtract(r) \/ ClassifyRiskRoute(r) \/ Plan(r)
             \/ SlotExtractionFails(r) \/ Draft(r) \/ Answer(r) \/ Handoff(r) \/ Persist(r)

Next ==
    \/ \E r \in Requests : ProcessCase(r) \/ Work(r) \/ Breaks(r)
    \/ \E call \in late : McpRunsLate(call) \/ McpDropsLate(call)
    \/ Crash

Spec == Init /\ [][Next]_vars

\* A thread that runs a request goes on running it.  Clients need not ask, and
\* nothing needs to fail or crash.
Fairness == \A r \in Requests : WF_vars(Work(r))
FairSpec == Spec /\ Fairness
=============================================================================
