----------------------------- MODULE CaseService -----------------------------
(***************************************************************************)
(* What the board bot promises the people around it, whatever nodes it is  *)
(* made of: a request is taken up, gets one verdict and keeps it; a person *)
(* is alerted only for a handoff and the board is written to only for an   *)
(* automatic reply; a request completes only with a verdict, leaving the   *)
(* row of its case behind, and a completed handoff leaves its case noted.  *)
(* Requests may be dropped at any time, several at once when the process   *)
(* dies, and a reply sent off may reach the board after its request ended. *)
(***************************************************************************)
CONSTANTS Requests, Cases

VARIABLES
    phase,     \* how far each request is
    caseOf,    \* the case each request is about
    verdict,   \* what was decided about each request
    alerted,   \* requests that had a person alerted
    noted,     \* cases on record as handed off
    posted,    \* requests whose reply is on the board
    row        \* the request each case's row was written by
vars == <<phase, caseOf, verdict, alerted, noted, posted, row>>

Init ==
    /\ phase = [r \in Requests |-> "new"]
    /\ caseOf \in [Requests -> Cases]
    /\ verdict = [r \in Requests |-> "none"]
    /\ alerted = {} /\ noted = {} /\ posted = {}
    /\ row = [c \in Cases |-> "none"]

Take(r) ==
    /\ phase[r] = "new"
    /\ phase' = [phase EXCEPT ![r] = "open"]
    /\ UNCHANGED <<caseOf, verdict, alerted, noted, posted, row>>

Judge(r) ==
    /\ phase[r] = "open" /\ verdict[r] = "none"
    /\ \E v \in {"HANDOFF", "DRAFT", "AUTO_POST"} : verdict' = [verdict EXCEPT ![r] = v]
    /\ UNCHANGED <<phase, caseOf, alerted, noted, posted, row>>

Alert(r) ==
    /\ phase[r] = "open" /\ verdict[r] = "HANDOFF"
    /\ alerted' = alerted \cup {r}
    /\ UNCHANGED <<phase, caseOf, verdict, noted, posted, row>>

Note(r) ==
    /\ phase[r] = "open" /\ r \in alerted
    /\ noted' = noted \cup {caseOf[r]}
    /\ UNCHANGED <<phase, caseOf, verdict, alerted, posted, row>>

PostReply(r) ==
    /\ verdict[r] = "AUTO_POST"
    /\ posted' = posted \cup {r}
    /\ UNCHANGED <<phase, caseOf, verdict, alerted, noted, row>>

Complete(r) ==
    /\ phase[r] = "open" /\ verdict[r] # "none"
    /\ verdict[r] = "HANDOFF" => caseOf[r] \in noted
    /\ phase' = [phase EXCEPT ![r] = "done"]
    /\ row' = [row EXCEPT ![caseOf[r]] = r]
    /\ UNCHANGED <<caseOf, verdict, alerted, noted, posted>>

Drop(some) ==
    /\ \A r \in some : phase[r] = "open"
    /\ phase' = [r \in Requests |-> IF r \in some THEN "dropped" ELSE phase[r]]
    /\ UNCHANGED <<caseOf, verdict, alerted, noted, posted, row>>

Next ==
    \/ \E r \in Requests : Take(r) \/ Judge(r) \/ Alert(r) \/ Note(r) \/ PostReply(r) \/ Complete(r)
    \/ \E some \in SUBSET Requests : Drop(some)

Spec == Init /\ [][Next]_vars
=============================================================================
