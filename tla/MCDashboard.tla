---------------------------- MODULE MCDashboard ----------------------------
(* Values of the constants of Dashboard for TLC. *)
EXTENDS Dashboard, TLC

\* One case is sent twice.
Sent == [r \in Requests |-> "c1"]

Key(figure, decision, end) == [figure |-> figure, decision |-> decision, start |-> 0, end |-> end]

\* The first day, and a range that reaches into the second one.
SomeKeys == {Key("kpi", "", 1), Key("kpi", "HANDOFF", 1), Key("kpi", "DRAFT", 2),
             Key("trend", "", 2), Key("tool", "DRAFT", 1), Key("business", "", 1)}
=============================================================================
