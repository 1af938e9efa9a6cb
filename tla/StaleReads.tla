------------------------------ MODULE StaleReads ------------------------------
(***************************************************************************)
(* What a cache with a time to live promises to those who read through it: *)
(* what they see is the rows as they were at some moment less than the     *)
(* time to live ago, all of them and no others, and never fewer than what  *)
(* was seen before.                                                        *)
(***************************************************************************)
EXTENDS Naturals

CONSTANTS
    Rows,
    Ttl           \* the time to live

VARIABLES
    clock,
    arrived,      \* when each row that is in came in
    view          \* the last look, if any: the rows seen, and when

vars == <<clock, arrived, view>>

Init == clock = 0 /\ arrived = [r \in {} |-> 0] /\ view = {}

Arrive(r) ==
    /\ r \notin DOMAIN arrived
    /\ arrived' = [q \in DOMAIN arrived \cup {r} |-> IF q = r THEN clock ELSE arrived[q]]
    /\ UNCHANGED <<clock, view>>

Pass == clock' = clock + 1 /\ UNCHANGED <<arrived, view>>

\* All the rows from before the moment, and some of those that came in at it.
IsSnapshot(rows, moment) ==
    /\ rows \subseteq {r \in DOMAIN arrived : arrived[r] <= moment}
    /\ {r \in DOMAIN arrived : arrived[r] < moment} \subseteq rows

Look ==
    /\ \E rows \in SUBSET DOMAIN arrived, moment \in 0..clock :
          /\ clock < moment + Ttl /\ IsSnapshot(rows, moment)
          /\ \A before \in view : before.rows \subseteq rows
          /\ view' = {[rows |-> rows, when |-> clock]}
    /\ UNCHANGED <<clock, arrived>>

Next == (\E r \in Rows : Arrive(r)) \/ Pass \/ Look

Spec == Init /\ [][Next]_vars
=============================================================================
