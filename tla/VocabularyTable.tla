--------------------------- MODULE VocabularyTable ---------------------------
(***************************************************************************)
(* What the scripts that write the vocabulary promise of its table, with   *)
(* no operators, transactions or vectors: a write takes effect all at      *)
(* once, and ranks all the terms of some corpus among each other; a row it *)
(* does not write keeps its index or goes.  In the rebuild mode all others *)
(* go, unless the write had company.                                       *)
(***************************************************************************)
EXTENDS Integers, FiniteSets

CONSTANTS
    Texts,        \* the terms that documents may say between them
    Mode          \* rag.hybrid.vocab.mode

VARIABLES
    table,        \* the index of each term that has one
    mixed         \* the last write had company

Rank(t, terms) == Cardinality({u \in terms : u < t})

Init == table = [t \in {} |-> 0] /\ mixed = FALSE

\* A write of the terms own that leaves the rows of kept.
Write(own, kept) ==
    /\ table' = [t \in own \cup kept |-> IF t \in own THEN Rank(t, own) ELSE table[t]]
    /\ mixed' \in BOOLEAN
    /\ Mode = "rebuild" /\ kept # {} => mixed'

Next == \E own \in Texts : \E kept \in SUBSET (DOMAIN table \ own) : Write(own, kept)

Spec == Init /\ [][Next]_<<table, mixed>>
=============================================================================
