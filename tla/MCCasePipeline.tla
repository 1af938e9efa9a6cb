---------------------------- MODULE MCCasePipeline ----------------------------
(* Values of the constants of CasePipeline for TLC. *)
EXTENDS CaseRequirements

At(kind, depth) == [k |-> kind, d |-> depth]
Ask(case, kind, title, body, files) ==
    [case |-> case, kind |-> kind, title |-> title, body |-> body, files |-> files]

\* One request at a time: every kind of inquiry, a title that is masked or struck
\* out, personal data hidden one and two banned words deep, photos, a keyword that
\* can be read, that a banned word hides or that stands in an address.
OneInquiry ==
    {Ask("c1", "delay", Plain("plain"), {Plain("pii")}, FALSE),
     Ask("c1", "delay", Plain("plain"), {Plain("pii")}, TRUE),
     Ask("c1", "delay", Plain("plain"), {Plain("highmail")}, FALSE),
     Ask("c1", "delay", Plain("plain"), {Plain("high")}, TRUE),
     Ask("c1", "other", Plain("plain"), {At("high", 1)}, FALSE),
     Ask("c1", "damage", Plain("plain"), {At("pii", 1), At("pii", 2)}, TRUE),
     Ask("c1", "damage", Plain("pii"), {At("highmail", 1), At("ban", 2)}, FALSE),
     Ask("c1", "damage", At("ban", 1), {Plain("plain"), Plain("label")}, FALSE),
     Ask("c1", "damage", Plain("plain"), {Plain("high"), Plain("pii")}, FALSE)}

\* A description that stays banned after both passes, and one that hides personal
\* data behind one of them.
Descriptions == {At("ban", 3), At("pii", 2), Plain("plain")}
Quotes == {Plain("plain"), At("ban", 2)}

Seen(damage, misdelivery, unclear) ==
    [damage |-> damage, misdelivery |-> misdelivery, unclear |-> unclear]
Photos == {Seen(65, 65, 0), Seen(64, 0, 0), Seen(20, 70, 10), Seen(30, 30, 90)}

\* Two requests of the same case, both high-risk, or one of them a delay whose
\* reply is posted.
SameCase == {Ask("c1", "delay", Plain("high"), {}, FALSE),
             Ask("c1", "delay", Plain("plain"), {}, FALSE)}
HighRiskOnly == {Ask("c1", "delay", Plain("high"), {}, FALSE)}
DelayOnly == {Ask("c1", "delay", Plain("plain"), {}, FALSE)}
HighMailOnly == {Ask("c1", "delay", Plain("plain"), {Plain("highmail")}, FALSE)}
DamageOnly == {Ask("c1", "damage", At("ban", 1), {Plain("plain")}, FALSE)}
NoText == {}

Meets(llm, faults) == [llm |-> llm, faults |-> faults]
\* Without an LLM all failures or none; with one those that can come before the
\* node it does not get past.
AnyEnvironment == {Meets(FALSE, FaultKinds), Meets(FALSE, {}),
                   Meets(TRUE, {"llm", "db", "mcp", "vision"})}
Undisturbed == {Meets(FALSE, {})}
UndisturbedWithLlm == {Meets(TRUE, {})}
McpFails == {Meets(FALSE, {"mcp"})}
SharedFails == {Meets(FALSE, {"db", "mcp", "webhook", "crash"})}
=============================================================================
