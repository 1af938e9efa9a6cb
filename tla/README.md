# Verification of the board bot

TLA+ models of board-bot-ai, the program that answers cases of a help board:
it masks and classifies an inquiry, hands high-risk ones to a person, gathers
knowledge and order data through an MCP server, drafts a reply, validates it
and posts it or leaves it as a draft. The models are translated from the
Python source; TLC checks them on small instances and TLAPS proves the
properties that matter most for every size. Paths below are those of the
repository.

## 1. The system

| Component | State it keeps | Operations | Hard behaviour | Correct when |
|---|---|---|---|---|
| Case pipeline (`graphs/pipeline.py`, `nodes/`) | one `AgentState` per request: masked text, terms, classification, vision label, policy, plan, trace, draft, verdict, metric buffer | 19 nodes, two conditional edges | four nodes write the verdict; text is masked and struck out alternately; a node may raise | what goes out is masked and justified, the verdict is final, the reason given is the reason there is |
| API service (`apps/api/app/main.py`) | nothing between requests but the glossary cache | `process_case` on a thread pool, `logger`, start | requests interleave, the process dies in the middle of them | every request ends, rows have their trail |
| Postgres repository (`services/db.py`) | handoff rows, execution log, metric events, case rows | `is_handoff_notified`, `mark_handoff_notified`, `log_event`, `insert_metrics`, `upsert_case`, each its own transaction | check-then-act over two transactions; three transactions per result | a mark follows an alert, a row follows its log and metrics |
| Metric buffer (`services/metrics.py`) | a list in the state | `emit_metric` | lost when a node raises; complete only if flushed last | the stored events tell the verdict and the reply |
| MCP client (`tools/mcp_client.py`) | none | `call_tool` with a timeout | a failed call is answered by a stand-in while the server may still run it | a stand-in is never taken for evidence or for knowledge |
| MCP server (`apps/mcp_server/app/main.py`) | the cached retriever with its vocabulary | `rag_search`, `vision_triage`, `notify_handoff`, `post_reply`, constant lookups | the cache is never refreshed; its own webhook timeout is longer than the client's | a search goes by the numbering the documents were encoded with |
| Safety utilities (`utils/safety.py`) | none | `mask_pii`, `risk_score_rule` | order with the striking out of the banned word; a pattern takes away what is written against the personal data, a risk keyword included | nothing the patterns match is left, and no keyword goes with it |
| Glossary (`services/glossary.py`) | three maps and a time, shared by all threads | `load_cache`, `extract_terms`, `get_synonyms` | four assignments without a lock; TTL; loads that fail or overlap | known terms are found, the maps are of one state, edits arrive |
| Sparse vocabulary (`retrieval/hybrid.py`, `scripts/`) | `t_rag_vocab`, the document vectors in Milvus | build, load, sample load, collection creation | three copies of one numbering, kept together only by the order of scripts; rebuilds that overlap under READ COMMITTED | no two terms share an index, a search is exact |
| LLM chains (`services/llm_chains.py`) | none | classification, slots, drafts, each with one retry | answers that do not parse, prompts with missing variables | a wrong answer never lowers the risk |
| Dashboard (`streamlit_app/`) | the cached figures, shared by all users | queries over the metric events of a range of days | the tag of an event is the verdict at the time it is emitted; stamps and commits differ; cached figures are old | a figure counts what it says, is recent, and stands once its range is over |
| Configuration, prompts, LLM factory | read once at start | loading | none: sequential | — |
| Demo, seed data | none | one form, sample rows | none | — |

A request calls the nodes one after the other on one thread. Nodes call the
MCP client, which calls the server over HTTP; the handoff node and the logger
call the repository. Requests share the handoff rows, the case rows, the board
and the glossary. The scripts and the server share the vocabulary table and the
collection. The dashboard reads the metric events that the logger stores. There are no queues and no callbacks.

## 2. The modules

| Module | What it is |
|---|---|
| `CasePipeline` | the pipeline, the repository, the MCP client and the crash of the API process |
| `CaseRequirements` | what the pipeline must guarantee, and what the documentation says that it does not |
| `CaseService` | the abstract service: taken up, judged once, alerted, posted, completed, dropped |
| `GlossaryCache` | the glossary, access by access, with its requirements |
| `SparseIndex` | vocabulary, vectors, cached copy and the scripts, with its requirements |
| `Dashboard` | the events as they are stored, the queries over them and their cache, with its requirements |
| `CaseTypeProofs`, `CasePipelineProofs`, `CaseServiceProofs`, `CaseTrailProofs`, `CaseOutcomeProofs` | the proofs about the pipeline, in this order on one another; the last rests on the two before it |
| `GlossaryCacheProofs`, `SparseIndexProofs`, `DashboardProofs` | the proofs about the others |
| `VocabularyTable` | the abstract table of the vocabulary: writes are atomic, and each numbers a whole corpus |
| `StaleReads` | the abstract cache: what users see through it is the rows of one moment of the last cache life |
| `MCCasePipeline`, `MCGlossaryCache`, `MCSparseIndex`, `MCDashboard` | values of the constants for TLC |

### CasePipeline

`pc[r]` is the node request `r` runs next (or `done`, `failed`, `lost`), `st[r]`
its `AgentState`, `metrics[r]` the buffer. One action is one node: its guard is
the place in the graph and the node's condition, and its result goes through
`Return`, which also emits the `node_execution` event of the wrapper
`_with_node_logging`. A node that raises goes through `Raise`. Two nodes are cut
where others can come between: `HandoffNotify` into check, call and mark,
`TelemetryLogger` into its three transactions. The remaining nodes touch only
the state of their own request, or make one outside call, so that cutting them
would show nothing more.

Text is a set of fragments. A fragment has a kind (personal data, risk keyword,
banned word, the label the grounding looks for, ...) and a depth: how often the
banned word must be struck out of it before none of it is left. This is what
the properties tell apart: `010-금지1234-5678` is no phone number for
`mask_pii`, and becomes one when `validate_policy` strikes the word out. Striking
closes up what was nested one level deep only, as `str.replace` does.

A fragment ends where no pattern reaches across. `\w` of the address pattern
(`utils/safety.py:14`) matches Hangul, so that a risk keyword written against an
address is one fragment with it (`highmail`), and `MaskPii` takes away both, before
`risk_score_rule` reads the text (`nodes/master.py:129`). A keyword apart from any
address (`high`) stays. The requirements tell the two apart: `AlarmIsLegible` is
the second, `RaisesAlarm` either.

`env` is what a behaviour meets, fixed when it starts: whether an LLM is
configured, and which failures may happen; `Environments` is the set of those a
run considers. `RefreshGlossary` is `glossary.refresh.enabled`: with it a load of the glossary can
fail at any request, without it only until the first one succeeds.

Calls to the MCP server have three outcomes: the answer, `ok=False` (only
`rag_search` reports so), or a failed call whose stand-in the client returns. A
failed `post_reply` or `notify_handoff` stays in `late`: the server may run it
at any later time, or never. `notify_handoff` of the server may in turn fail to
reach the webhook.

What the model leaves open: which terms a text holds, which part of a quoted
document lands in a draft, what the LLM classifies, what the vision model sees.
`Score` has the weights of `validate_grounding` for the single issue that cases
have without an LLM.

`post_reply` of the server in the repository (`apps/mcp_server/app/main.py:221-223`)
returns constants and writes to no board. It stands for the board's own: that it
ran is, in `replies`, a reply on the board.

Assumed from how `src/` uses it: LangGraph runs nodes one at a time in the order
of the edges and passes exceptions through; a Postgres transaction is atomic;
the server offers the client's tools at the address the client calls.

### GlossaryCache

One action is one access to a shared attribute. A thread asks
(`extract_terms`), refreshes if needed, matches against `_normalized_to_term`,
reads the description of each match, then calls `get_synonyms` per term, with
its own refresh and its own reads. A load reads the tables in one transaction and
assigns `_term_to_desc`, `_normalized_to_term`, `_group_to_terms` and
`_loaded_at` in four steps. The three map builders are the `setdefault` loops of
`load_cache`. Others edit the tables at any time; loads may fail; the TTL is a
flag that time sets.

### SparseIndex

`vocab` is the table, `entities` the collection with the vectors, `cached` the
copy of the server, `job[o]` the script operator `o` has under way with what it
has read so far. One action is one transaction or one Milvus call, and a script
may break off between two of them. Each entity remembers the text and the
vocabulary its vector was made of. Terms are numbers in the order of `sorted()`,
and texts sets of terms: weights are all positive, so whether two vectors meet
does not depend on them.

Operators run their scripts at the same time. A transaction that writes the
vocabulary is two actions, since under READ COMMITTED others commit between:
`Begin` fixes which rows its `DELETE` sees, `Commit` takes those that are left
and puts in the new ones. `build_bm25_vocab.py` inserts `ON CONFLICT DO UPDATE`,
`load_sample_rag.py` without, so that a row committed meanwhile makes it raise.
`doomed` is what is left of the rows to delete; `company`, `tangled` and
`overlapped` are history: who had another writer beside it.

`VocabularyTable` is what the readers of the table may take it for, `load_rag_to_milvus.py`
and the server: a commit is one `Write` of all the terms of some corpus, a row
it does not write keeps its index or goes, and in the rebuild mode all the others
go unless the write had company. All else that scripts do is a stutter, so that
none that breaks off, raises on a conflict or overlaps another shows in the table
as half a numbering.

### Dashboard

`batch[r]` stands for the events request `r` stores: its verdict and whether its
knowledge search failed determine which there are and how each is tagged
(`Events`, put together of `Classification`, `Search` and `Decided`, each the tag that
`emit_metric` takes from the state at that node: `master.py:179-183`,
`executor.py:57-63`, `executor.py:234-245`). The tags are translated by hand:
the events of `CasePipeline` have none. The transaction of
`insert_metrics` begins, which stamps the rows, and commits, which makes them
visible; it may fail. The figures are the queries of `lib/queries.py`, as
operators over the batches. One figure is followed per behaviour, since entries
of the cache do not interact: `key` is its query and filter, `cache` its entry of
`st.cache_data`, `shown` what users saw last.

`StaleReads` is a cache with a time to live, of anything: rows arrive, and a look
sees the rows as they were at some moment less than the time to live ago and no
fewer than the look before. A commit of `insert_metrics` is an arrival, `load_df`
a look. `ShownIsRecent` says how old a figure may be; the refinement says that it
is of one moment and that figures never go back, which needs the cache to be
shared.

## 3. What the runs show

| Run | Instance | Shows |
|---|---|---|
| `one_case` | one request, nine inquiries, three environments: all failures, none, and an LLM that answers anything; 254 thousand states | masking, justification, `LegibleAlarmIsHandedOff`, truthful reasons, vision evidence, final verdicts, stored events that tell the verdict (`EventsTellTheVerdict`); and, where nothing fails, `Completes` |
| `same_case` | two requests of one case, high-risk or answerable; database, MCP, webhook failures, crashes | `AlertAskedBeforeMark`, `AlertedOnceInSequence`, `RowHasItsTrail`, `AnswerMeansDone`, `ImplementsService`, `EveryRequestEnds` |
| `glossary_refresh` | two threads, two states of the tables, one edit; 251 thousand states | `AlwaysKnownTerms`, `WholeWhenAlone`, `AnswersWereTrue`, `EventuallyFresh` |
| `sparse_rebuild` | two operators, two terms, two documents, one edit, every order and overlap of scripts; 1.0 million states | `NoCollision`, `SearchIsExact`, `ImplementsTable` |
| `dashboard` | two requests of one case, two days, six figures, a cache life of a day; 708 thousand states | `TotalIsOfTheVerdict`, `ShownIsRecent`, `SettledFiguresStand`, `ImplementsReads` |
| `alarm_masked` | violated | a keyword written against an address is masked away with it, and the case goes on to be answered |
| `rewritten_once` | violated | with `max_rewrite` 2 a text that scores too low is rewritten once, then made a draft |
| `alerted_twice` | violated | two overlapping requests alert twice |
| `marked_not_delivered` | violated | a case is marked although no alert arrived |
| `handoff_not_counted` | violated | a stored handoff has no `decision_made` event |
| `llm_never_completes` | violated, LLM configured | an ordinary case fails at `PlanBuilder` |
| `sparse_fixed` | violated, mode `fixed` | terms that have an index get another |

The last seven state what a document, a comment or a test of the repository says;
each is a finding in `PROJECT.json` with the line it quotes.

`AlarmIsHandedOff`, of `alarm_masked`, is about any keyword in the client's words;
`LegibleAlarmIsHandedOff`, of `one_case`, about one that stands apart from any
address, and holds whatever a classifier answers. The case of `alarm_masked` is of
a kind that may be answered automatically: where its score suffices it is
`AUTO_POST`ed, so that `ReplyIsJustified`, too, speaks of legible keywords only.

A reply is said to be on the board by `AnswerMeansDone` only where the client of the
MCP server does not make up the answer of `post_reply`, and by `Completes` where
nothing fails. `Completes` leaves out the one environment in which it is
false: an LLM and no failure, which is `llm_never_completes`.

Every property of a passing run has a mutant: a definition of the model changed
as a plausible bug would change the code (`\* Faulty variant` in the modules).
The run finds the mutant.

### Bounds and why they are enough

* Two requests: every property of requests is about one of them or a pair (a
  repeated alert, a row overwritten by another request), and requests meet
  only in the tables and on the board. One case, so that they always meet.
* `MaxDepth = 3`: two striking passes (`_sanitize_template_text`,
  `validate_policy`), and one level more than they take away.
* `OneInquiry` has a text for each order of masking and striking, photos at, just
  below and above the threshold, and a title that is masked or struck out, so
  that the coverage of the score varies.
* `Environments` names what a run may meet. `one_case` has all failures without an
  LLM, no failure, and with an LLM those that can come before the node such a
  request does not get past.
* Glossary: two threads are enough for two loads to overlap and for a reader to
  meet a load; the two states of the tables share a term, drop one and have two
  words of one normal form; `MaxTerms = 1` makes the cap bite.
* Sparse: two operators are enough for two writers to overlap; the rank of the
  second of two terms depends on whether some document says the first, so a
  rebuild renumbers it and two overlapping ones give both terms one index. The
  corpus starts as anything, and one edit (and the sample) changes it between
  two rebuilds. Operators are symmetric. Larger sets of terms, documents and
  operators are left to the proofs.
* Dashboard: two ticks a day and a cache life of two, so that a day has a midnight
  and a later time, a transaction can be open over midnight, and an entry can
  outlive the commit of an event; two requests, both of one case, so that counts
  of cases and of requests differ; the range ends with the first day or the second.

`CHECK_DEADLOCK FALSE` stands where the system may stop: all requests have ended,
or operators run no more scripts, or the clock has stopped. The glossary run checks deadlock.

### Fairness

`CasePipeline!Fairness` is weak fairness of each request's thread: a pool thread
that runs a request goes on. Calls of the MCP server have a timeout (`mcp_client.py`);
queries of Postgres have none (`db.py:25` creates the engine without one), so that
the fairness assumes that a query returns, with its result or an error. Nothing is
assumed of clients, failures, crashes or late calls. `GlossaryCache!Fairness`
adds that time passes, that customers go on asking, and (strong fairness) that a
database which is asked again and again answers some time; without the last two
a cache that only requests refresh would rightly stay old.

## 4. What is proved

All for every value of the constants that meets the named assumptions.

* `TypeCorrect`: `Spec => []TypeOK`.
* `OutgoingIsMasked`: replies, late replies and returned drafts show nothing the
  patterns match.
  This covers the reply and the returned draft. The `tool_trace` that `process_case`
  returns as well (`apps/api/app/main.py:127`) is not covered.
* `LegibleAlarmsAreHandedOff`: past the routing, a request whose words hold a risk
  keyword apart from any address is a handoff, whatever the classifier says. That
  a keyword in an address is not is `alarm_masked`.
* `RepliesAreJustified`: under `Calibrated`, a reply is of a case that may be
  answered automatically and shows no risk keyword apart from its addresses, its
  search was answered, it has no banned word and its score suffices.
* `VerdictsAreFinal`, `MarksFollowAlerts`, `CompletedHandoffsAlertOnce`.
* `Implementation`: the pipeline implements `CaseService`.
* `ReasonsAreTruthful`, under `Calibrated`; `PhotosAreEvidence`, under a vision
  threshold above 50; `RowsHaveTheirTrail`.
* `EventsAreTheVerdict`: which events of a request are stored, the verdict that
  `decision_made` reports and whether the search failed, are what its verdict says.
  `Dashboard` takes as much for granted (`Events`). How the other events are tagged
  is not part of it.
* `AnswersMeanDone`: who is answered has left its log, its events and its row, and
  its handoff or its reply.
* `TablesKeepTheirTypes`, `IndexesAreUnique`, `SearchesAreExact` for the sparse
  index, for any number of operators, terms and documents, in the rebuild mode and
  but for what two overlapping rebuilds left until one runs alone; and
  `TableIsWrittenWhole`: the scripts implement `VocabularyTable`, in either mode.
* `CacheKeepsItsTypes`, `KnownTermsAreFound`, `WholeUnlessOverlapped` and
  `AnswersAreOfTheTables` for the glossary, for any number of threads and states
  of the tables.
* `TotalsAreOfVerdicts`, `FiguresAreRecent`, `SettledRangesStand` for the
  dashboard, for any number of requests, cases, days and filters, and
  `UsersSeeOneMoment`: it implements `StaleReads`.

**The inductive invariant.** None of the safety properties is inductive: that a
reply is masked depends on the request having passed `OutputMask`, that it is
justified on the verdict not having been set before `Decision`, and so on back
to the routing. `Inv` (in `CasePipelineProofs`) therefore says what a request
knows at each place: `MaskedKnown` (what the rule reads is the masked inquiry, in
which a legible keyword stands: `LegibleIsHighRisk`),
`VerdictKnown` (no verdict while planning, a draft or none while drafting),
`PolicyKnown` (policy and mode are the inquiry's; only AGENT drafts cite),
`DraftSound` (no verdict means the search was answered and, past the grounding,
the score suffices), `PostSound`, `TextMasked`; and that everything sent off is
the final text of a request past its output (`Sent`). Lemmas about texts say what
masking and striking preserve; one lemma per group of nodes shows preservation.

**`Calibrated`.** A text with a banned word can pass both striking passes when
the word nests deeply enough. It is not posted because it loses the policy
part of the score: without a citation it reaches 50 at most. So the threshold
must be above 50, and the number of rewrites must not be 1, for then the first
rewrite passes unscored and a reply below the threshold is posted
(`executor.py:222-225`). `config/policy.yaml` has 0.70 and 2.
TLC checks `ReplyIsJustified` itself under that configuration.

**Photos.** The stand-in of a failed vision call scores 0.5 for damage, so
`PhotosAreEvidence` needs a threshold above 50; `config/policy.yaml` has 0.65.

**The other invariants.**

* `CaseServiceProofs`: a second invariant about alerts (who asked, what is marked,
  what `doneBefore` remembers); each action maps to a step or a stutter of
  `CaseService`.
* `CaseTrailProofs`: `Explained` ties each reason to what happened, and says that
  while a text is drafted a tool failure is the only reason there can be, since
  scoring comes last; `Trail` says what is in the buffer at each place
  (`Buffered`) and what of it is in the tables (`Stored`); `RowOfCompleted` says
  that a row is that of a completed request of its case. `Told` says which of the
  telling events are in the buffer at each place, and that a stored batch is as one of
  a completed request; a request that breaks off keeps only what can be said of
  events there are, since it may break off anywhere.
* `CaseOutcomeProofs`: `DoneSoFar` adds that the batch in is not empty, that the row
  is of a request that completed (another one's, perhaps, for the last to complete
  writes it), and that a reply is out from the output on; the rest of
  `AnswerMeansDone` is in `Trail` and in the invariant about alerts.
* `SparseIndexProofs`: the numbering is the rank of a term, whence injective, by
  cardinality of finite sets. `WriteInv` says what an open transaction that had no
  company will leave: it deletes every row there is, as nobody has committed since
  it began. Without it a rebuild after an overlap could not be shown to repair.
  For the refinement `BringsInv` adds that what a build is to write is the numbering
  of a corpus there was, and what a sample load is to number is the sample.
* `GlossaryCacheProofs`: `Reading` types what threads hold; `IndexKnown` says that
  `_normalized_to_term` is of some state of the tables from the first complete
  load on, or that a load stands in the gap; `WholeKnown` says how far the
  assignments of a load without company have come. For `AnswersWereTrue`, `MapsKnown`
  says that each of the two maps that are read for answers is of one state of the
  tables, whichever the other is of, or that nothing was loaded and no thread is past
  its first assignment; `AnswersKnown` says the same as the property of what a thread
  still has to do: a word to describe is in the question and was listed, a word to
  expand was found.
* `DashboardProofs`: `Inv` says that an entry of the cache, and the figure shown,
  has all that was committed before it was made, and nothing else. An answer depends
  only on the rows in its range (`AnswerStable`), whence settled figures stand.
  `ShownCached` adds that the entry has all that was shown, which makes looks grow.
  In `StaleReads` a look keeps its time: without that, serving the same entry once
  more would be a stutter, however old it had become.

**Model-checked only.** Liveness (`EveryRequestEnds`, `Completes`,
`EventuallyFresh`) is out of the prover's reach. All other properties of the
passing runs are proved.

## 5. What is not modelled

* With an LLM the nodes behind `PlanBuilder` are never reached
  (`llm_never_completes`), so the LLM branches of `agent_generate_subgraph` and
  `validate_policy` are left out.
* Weights, `avgdl`, dense vectors and the ranker of the search; whether a
  collection is loaded; the rows of two load scripts that overlap within one Milvus
  call. The server's cached vocabulary may differ from that of the documents after
  a rebuild: `SearchIsExact` says what holds where they are one, and only a
  restart of the server makes them one.
* Of the dashboard: latency and cost figures, `VALIDATOR_TOP`, `MODEL_PERF`, the
  filters other than range and decision, which narrow rows in the same way, the case
  list and the layout of the pages.
* `get_case` and `health`: they read one row, or nothing.
* The configuration loader: it runs once, sequentially, before anything else, and
  what it returns are the constants of the models. The prompts' wording, seed
  data, demo form, DDL and containers have no behaviour of their own.
* `bm25_sparse.py` is imported by nothing; `load_intent_examples.py` and
  `verify_hybrid_search.py` are one pass of I/O with no state that others read back
  through the code modelled here.

Seen while modelling, and not stated as runs:

* The `node_execution` event of a node that raises is appended to the buffer
  (`pipeline.py:61`) and lost with it, since only `TelemetryLogger` stores the
  buffer: no failure of a node is ever in the tables, though the docstring
  (`pipeline.py:43-46`) has the event record success and error of all nodes.
* `output_node` looks up no earlier reply: a client that sends an answerable case
  again, after an error of the logger for instance, has it answered once more.
  Nothing in the code or the documents says that it would not. `ImplementsService`
  says that each reply has a verdict for it, not that a case has one reply.
* `BETWEEN` compares time stamps with dates: with the default range of the filters
  the events of today are not in it,
  though the overview page is meant to show the state of the day
  (`pages/1_Executive_Overview.py:3-4`).
* `decision_made` carries no `latency_ms`, so the average and the 95th percentile of
  the overview are never filled; and `case_received` carries no verdict, so the
  inquiries of the business page are none under a decision filter.
* A tool whose call failed and was answered by a stand-in counts as a success of
  the tool, except for `rag_search`.
* The compatibility file of the configuration is not unwrapped from its root key,
  and the API key of one provider falls back to the variable of another.

## 6. How the project grew

`CasePipeline` with its requirements (the heart of the program), `CaseService` as
its abstraction, type correctness, the invariant and the refinement proof,
`SparseIndex` and `GlossaryCache`; then overlapping operators in `SparseIndex`,
`Dashboard` over the events the pipeline stores, and the proofs of every safety
property that had only been model-checked; then what ties the components together,
`EventsTellTheVerdict`, `AnswerMeansDone` and `AnswersWereTrue`, and the abstract
`VocabularyTable` and `StaleReads`, each with its proof; then the keyword that masking
hides, and environments, so that one run covers all a single request may meet.

Further work:

1. `McpServer`: the server's side of a call with its own timeouts, composed with
   the pipeline, and resubmitted cases that are answered twice.
2. The LLM branches behind a repaired slot prompt, with `invoke_with_retry` as an
   action of its own.
