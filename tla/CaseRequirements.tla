--------------------------- MODULE CaseRequirements ---------------------------
(***************************************************************************)
(* What the pipeline must guarantee, apart from how CasePipeline does it:  *)
(* the requirements look at what clients sent, at what the board, the      *)
(* webhook and the database got, and at the verdicts between them.         *)
(***************************************************************************)
EXTENDS CasePipeline

\* The variables range over what the code puts in them: the nodes a request can
\* be at (graphs/pipeline.py), the AgentState of models/state.py, the tables of
\* services/db.py and the calls tools/mcp_client.py can have given up on.
TypeOK ==
    /\ env \in Environments
    /\ pc \in [Requests -> {"waiting"} \cup Nodes \cup Inner \cup Ended]
    /\ inquiry \in [Requests -> Inquiries]
    /\ st \in [Requests -> AgentState]
    /\ metrics \in [Requests -> SUBSET Metrics]
    /\ glossaryLoaded \in BOOLEAN
    /\ handoffRows \subseteq Cases
    /\ logged \subseteq Requests
    /\ metricRows \in [Requests -> SUBSET Metrics]
    /\ caseRow \in [Cases -> Requests \cup {"none"}]
    /\ alertCalls \subseteq Requests
    /\ alerts \subseteq Requests
    /\ replies \subseteq [tool : {"post_reply"}, req : Requests, text : SUBSET Fragment]
    /\ late \subseteq [tool : {"post_reply", "notify_handoff"}, req : Requests,
                       text : SUBSET Fragment]
    /\ doneBefore \in [Requests -> SUBSET Requests]

\* Replies on the board, and those the MCP server may still put there.
Outgoing == replies \cup {call \in late : call.tool = "post_reply"}

\* What leaves the pipeline shows no personal data the patterns match: neither a
\* reply sent to the board, nor the draft a request returns to its client once
\* OutputMask has run.  Striking a banned word out (_sanitize_template_text,
\* validate_policy) can complete a phone number after a masking pass has gone by.
OutgoingMasked ==
    /\ \A call \in Outgoing : \A f \in call.text : ~Exposed(f)
    /\ \A r \in Requests : pc[r] \in {"Output", "TelemetryLogger", "InsertMetrics",
                                       "UpsertCase", "done"}
                             => \A f \in st[r].text : ~Exposed(f)

\* The client's own words hold a high-risk keyword.
RaisesAlarm(r) ==
    \E f \in {inquiry[r].title} \cup inquiry[r].body : f.k \in {"high", "highmail"} /\ f.d = 0

\* They hold one that stands apart from any address.
AlarmIsLegible(r) ==
    \E f \in {inquiry[r].title} \cup inquiry[r].body : f.k = "high" /\ f.d = 0

\* A reply sent to the board answers a case that may be answered automatically,
\* shows no high-risk keyword apart from its addresses and had its knowledge search
\* answered; it says no banned word and its grounding score reaches the threshold
\* (classify_risk_route, plan_engine, validate_grounding and decision_node each
\* hold one of these back).  What is hidden in an address is AlarmIsHandedOff.
ReplyIsJustified ==
    \A call \in Outgoing :
        /\ PolicyOf(inquiry[call.req].kind).autoPost
        /\ ~AlarmIsLegible(call.req)
        /\ Call("rag_search", "answer") \in st[call.req].trace
        /\ \A f \in call.text : ~Banned(f)
        /\ st[call.req].score >= Threshold

PastRouting(r) == pc[r] \notin {"waiting", "NormalizeAndMask", "TermExtract",
                                "ClassifyRiskRoute", "failed", "lost"}

\* A request whose words hold a high-risk keyword apart from their addresses is handed
\* to a person, whatever the classifier says of it (classify_risk_route takes the
\* worse of the two): past the routing it has no other verdict.
LegibleAlarmIsHandedOff ==
    \A r \in Requests : AlarmIsLegible(r) /\ PastRouting(r) => st[r].decision = "HANDOFF"

\* The reason given for a verdict is the reason there is: a draft for a tool
\* failure had its knowledge search fail, one for its score scored too low, one
\* for the policy would otherwise have been posted.
ReasonIsTruthful ==
    \A r \in Requests :
        LET s == st[r]
            answered == Call("rag_search", "answer") \in s.trace
        IN  CASE s.reason = "high_risk" -> s.decision = "HANDOFF"
              [] s.reason = "tool_failure" -> s.decision = "DRAFT" /\ ~answered
              [] s.reason = "grounding_low_score" -> s.decision = "DRAFT" /\ s.score < Threshold
              [] s.reason = "policy_restrict" ->
                   /\ s.decision = "DRAFT" /\ answered /\ s.score >= Threshold
                   /\ ~PolicyOf(inquiry[r].kind).autoPost
              [] OTHER -> s.decision \in {"none", "AUTO_POST"}

\* A verdict, once there, is final: no later node turns a handoff or a draft into
\* a reply, or a reply into a draft (plan_engine and validate_grounding write the
\* verdict before decision_node sees it).
VerdictIsFinal ==
    [][\A r \in Requests : st[r].decision # "none" => st'[r].decision = st[r].decision]_vars

\* A photo counts as damaged or wrong only on an answer of the vision model: the
\* stand-in scores of the MCP client (damage 0.5) never pass for evidence.
VisionEvidence ==
    \A r \in Requests : st[r].vision \in {"damage", "misdelivery"} => st[r].seen = "answer"

\* A case is marked as notified only after a notification was asked for: a crash
\* or a failed insert between the two repeats a notification, and loses none.
AlertAskedBeforeMark ==
    \A c \in handoffRows : \E r \in alertCalls : Case(r) = c

\* A handoff that completed keeps later requests of its case from asking for a
\* notification again (is_handoff_notified, mark_handoff_notified).
AlertedOnceInSequence ==
    \A r \in alertCalls : ~ \E q \in doneBefore[r] : Case(q) = Case(r) /\ st[q].decision = "HANDOFF"

\* The row of a case never runs ahead of its audit trail: the request that wrote
\* it has its log event and its metrics in, with the verdict the row holds, and
\* a posted reply counted as one (log_event, insert_metrics, upsert_case).
RowHasItsTrail ==
    \A c \in Cases : caseRow[c] # "none" =>
        LET r == caseRow[c] IN
        /\ Case(r) = c /\ r \in logged
        /\ st[r].decision = "HANDOFF"
             \/ Metric("decision_made", st[r].decision, TRUE) \in metricRows[r]
        /\ (\E m \in metricRows[r] : m.name = "post_reply_result")
             <=> st[r].decision = "AUTO_POST"

\* The stored events of a request say what the dashboard takes them for: it was
\* received and classified; unless it was handed off it called tools and reported
\* one verdict, its own, and a search that failed was of a draft; a handoff did
\* neither (emit_metric in seven nodes; queries.py counts verdicts by these events).
EventsTellTheVerdict ==
    \A r \in Requests : metricRows[r] # {} =>
        LET told(name) == {m \in metricRows[r] : m.name = name}
            verdict == st[r].decision
        IN  /\ told("case_received") # {} /\ told("classification_completed") # {}
            /\ told("tool_call") = {} <=> verdict = "HANDOFF"
            /\ told("decision_made") = IF verdict = "HANDOFF" THEN {}
                                       ELSE {Metric("decision_made", verdict, TRUE)}
            /\ Metric("tool_call", "rag_search", FALSE) \in metricRows[r] => verdict = "DRAFT"

\* A client that is answered finds everything done: its events are in, its case has
\* the row of a request that completed, a handoff is on record and was asked for,
\* a reply is on the board, unless the client of the MCP server made up the answer
\* (process_case answers after the graph; log_event, insert_metrics and upsert_case
\* raise when they fail, post_reply's stand-in does not).
AnswerMeansDone ==
    \A r \in Requests : pc[r] = "done" =>
        /\ r \in logged /\ metricRows[r] # {}
        /\ \E q \in Requests : caseRow[Case(r)] = q /\ Case(q) = Case(r) /\ pc[q] = "done"
        /\ st[r].decision = "HANDOFF" =>
             Case(r) \in handoffRows /\ \E q \in alertCalls : Case(q) = Case(r)
        /\ st[r].decision = "AUTO_POST" => Post(r) \in replies \/ "mcp" \in Faults

\* Every request that was taken up ends: completed, failed or lost in a crash.
EveryRequestEnds == \A r \in Requests : Active(r) ~> pc[r] \in Ended

\* Where nothing around it fails, a request that was taken up completes, its case
\* has a row, and a reply decided on is on the board.
Completes ==
    \A r \in Requests :
        Active(r) /\ Faults = {}
          ~> /\ pc[r] = "done" /\ caseRow[Case(r)] # "none"
             /\ st[r].decision = "AUTO_POST" => Post(r) \in replies

-----------------------------------------------------------------------------
(* The pipeline implements CaseService *)

Phase(r) == CASE pc[r] = "waiting" -> "new"
              [] pc[r] = "done" -> "done"
              [] pc[r] \in {"failed", "lost"} -> "dropped"
              [] OTHER -> "open"

PhaseView == [r \in Requests |-> Phase(r)]
CaseView == [r \in Requests |-> Case(r)]
VerdictView == [r \in Requests |-> st[r].decision]
PostedView == {call.req : call \in replies}

Service == INSTANCE CaseService WITH
    phase <- PhaseView, caseOf <- CaseView, verdict <- VerdictView,
    alerted <- alertCalls, noted <- handoffRows, posted <- PostedView, row <- caseRow

\* Every behaviour of the pipeline, seen through verdicts, alerts, replies and
\* rows, is one CaseService allows: among others, a reply reaches the board only
\* under the verdict AUTO_POST, however late, and a handoff completes only once
\* its case is noted.
ImplementsService == Service!Spec

-----------------------------------------------------------------------------
(* What the documentation says and the code does not do *)

\* README section 3 keeps handoff rows for "알림 중복방지": a case is notified once.
AlertedOnce == \A r, q \in alerts : Case(r) = Case(q) => r = q

\* README section 2 notifies high-risk cases at once: a case marked as notified was.
MarkedMeansDelivered == \A c \in handoffRows : \E r \in alerts : Case(r) = c

\* README section 2 has high-risk cases reach a person at once: a request whose words
\* hold a high-risk keyword is handed off, wherever the keyword stands.
AlarmIsHandedOff ==
    \A r \in Requests : RaisesAlarm(r) /\ PastRouting(r) => st[r].decision = "HANDOFF"

\* README section 9 turns a case into a draft after the rewriting loop, "기본 2회": a
\* draft for its score was rewritten as often as max_rewrite allows.
DraftedAfterRewrites ==
    \A r \in Requests : st[r].reason = "grounding_low_score" => st[r].retry = MaxRewrite

\* The dashboard's handoff_rate is the share of decision_made events that say
\* HANDOFF: a stored case with that verdict has the event.
HandoffIsCounted ==
    \A c \in Cases :
        caseRow[c] # "none" /\ st[caseRow[c]].decision = "HANDOFF"
          => Metric("decision_made", "HANDOFF", TRUE) \in metricRows[caseRow[c]]

=============================================================================
