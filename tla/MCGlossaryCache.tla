--------------------------- MODULE MCGlossaryCache ---------------------------
(* Values of the constants of GlossaryCache for TLC. *)
EXTENDS GlossaryCache

Row(word, no, desc) == [word |-> word, no |-> no, desc |-> desc]

\* Two words with one normal form, and a synonym that is a term of its own in
\* one state of the tables and missing from the other.
Forms == [w \in {"return", "re turn", "pickup"} |-> IF w = "pickup" THEN "f2" ELSE "f1"]
Before == <<Row("return", 1, "back"), Row("pickup", 1, "back"), Row("pickup", 2, "fetch")>>
After == <<Row("re turn", 3, "back"), Row("return", 3, "back")>>
TwoStates == {Before, After}
AnyQuestion == {{"f1"}, {"f1", "f2"}}
=============================================================================
