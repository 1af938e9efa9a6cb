----------------------------- MODULE SparseIndex -----------------------------
(***************************************************************************)
(* The sparse half of the knowledge search: the vocabulary that numbers    *)
(* the terms (t_rag_vocab), the document vectors in Milvus written with    *)
(* it, and the copy of it the MCP server caches for its queries.  Nothing  *)
(* ties the three together but the order in which operators run the        *)
(* scripts: build_bm25_vocab.py, load_rag_to_milvus.py, load_sample_rag.py *)
(* and init_milvus_collections.py.                                         *)
(*                                                                         *)
(* One action is one transaction, or one call of Milvus, of one of several *)
(* operators who each run one script at a time; the corpus, which others   *)
(* write, and the server move between any two steps of a script, and a     *)
(* script may be broken off there.  A transaction that writes the          *)
(* vocabulary is two actions, since under READ COMMITTED others commit in  *)
(* between: its DELETE sees the rows committed when it begins, and the     *)
(* rest, row locks making it wait for others, takes effect at its commit.  *)
(*                                                                         *)
(* A text is the set of its terms, and terms are numbers, in the order     *)
(* sorted() gives them; weights, all positive, are left out.               *)
(***************************************************************************)
EXTENDS Integers, FiniteSets

CONSTANTS
    Operators,    \* those who run scripts
    Terms,        \* the terms texts are made of
    Docs,         \* the ids of documents
    Contents,     \* what a document may say
    Sample,       \* the documents of load_sample_rag.py, by id
    Mode,         \* rag.hybrid.vocab.mode
    MaxEdits      \* bound: changes of the corpus by others

ASSUME SparseAssumption ==
    /\ Terms \subseteq Int /\ IsFiniteSet(Terms)
    /\ Contents \subseteq SUBSET Terms
    /\ Sample \in [DOMAIN Sample -> Contents] /\ DOMAIN Sample \subseteq Docs /\ DOMAIN Sample # {}
    /\ Mode \in {"fixed", "rebuild"}
    /\ MaxEdits \in Nat

VARIABLES
    corpus,       \* t_rag_documents: what each document says
    vocab,        \* t_rag_vocab: the index of each term
    schema,       \* the collection: absent, keyed by id, or numbered by Milvus
    entities,     \* the documents in the collection, with their sparse vectors
    cached,       \* _retriever: the vocabulary the MCP server has cached, if any
    job,          \* the script each operator has under way
    tangled,      \* history: the last to write the vocabulary had company
    overlapped,   \* history: two transactions that write it have been open at once
    edits         \* bound: changes of the corpus so far

milvusVars == <<schema, entities>>
historyVars == <<tangled, overlapped>>
vars == <<corpus, vocab, milvusVars, cached, job, historyVars, edits>>

\* A table or a dict is a function of some of the keys.
Partial(keys, values) == UNION {[ks -> values] : ks \in SUBSET keys}
Nothing == [x \in {} |-> x]
Without(f, keys) == [x \in DOMAIN f \ keys |-> f[x]]
With(f, g) == [x \in DOMAIN f \cup DOMAIN g |-> IF x \in DOMAIN g THEN g[x] ELSE f[x]]

-----------------------------------------------------------------------------
(* SparseVectorBuilder *)

TermsOf(docs) == UNION {docs[d] : d \in DOMAIN docs}

\* Faulty variant: counts from one.
NumberedFromOne(terms) == [t \in terms |-> Cardinality({u \in terms : u <= t})]

\* enumerate(sorted(terms))
Numbering(terms) == [t \in terms |-> Cardinality({u \in terms : u < t})]

\* Terms the vocabulary lacks are left out.
DocVector(words, text) == {words[t] : t \in text \cap DOMAIN words}

\* Faulty variant: takes index 0 for no index.
QueryWithoutZero(words, text) == {words[t] : t \in text \cap DOMAIN words} \ {0}

QueryVector(words, text) == {words[t] : t \in text \cap DOMAIN words}

-----------------------------------------------------------------------------
(* Scripts *)

\* doomed: the rows its DELETE goes for; company: another transaction that writes
\* the vocabulary has been open beside it (history).
Idle == [at |-> "idle", docs |-> Nothing, words |-> Nothing, doomed |-> {}, company |-> FALSE]

Writing(o) == job[o].at \in {"buildWrite", "samplePersist"}
Company(o) == \E p \in Operators \ {o} : Writing(p)

Init ==
    /\ corpus \in Partial(Docs, Contents)
    /\ vocab = Nothing
    /\ schema = "absent" /\ entities = {}
    /\ cached = {}
    /\ job = [o \in Operators |-> Idle]
    /\ tangled = FALSE /\ overlapped = FALSE
    /\ edits = 0

Goto(o, place) == job' = [job EXCEPT ![o].at = place]
Stop(o) == job' = [job EXCEPT ![o] = Idle]

\* The corpus is written by others at any time.
EditCorpus ==
    /\ edits < MaxEdits /\ edits' = edits + 1
    /\ \/ \E d \in Docs, text \in Contents : corpus' = With(corpus, [x \in {d} |-> text])
       \/ \E d \in DOMAIN corpus : corpus' = Without(corpus, {d})
    /\ UNCHANGED <<vocab, milvusVars, cached, job, historyVars>>

\* Operator o opens a transaction that deletes the given rows; it and the others
\* that are open take note of each other.
Begin(o, place, rows) ==
    /\ job' = [p \in Operators |->
                 IF p = o THEN [job[o] EXCEPT !.at = place, !.doomed = rows, !.company = Company(o)]
                 ELSE IF Writing(p) THEN [job[p] EXCEPT !.company = TRUE] ELSE job[p]]
    /\ overlapped' = (overlapped \/ Company(o))
    /\ UNCHANGED <<corpus, vocab, milvusVars, cached, tangled, edits>>

\* Operator o commits: what is left of the rows it deletes goes, also where others
\* meant to delete it, and the new rows are in.
Commit(o, rows, next) ==
    /\ vocab' = With(Without(vocab, job[o].doomed), rows)
    /\ job' = [p \in Operators |->
                 IF p = o THEN next ELSE [job[p] EXCEPT !.doomed = @ \ job[o].doomed]]
    /\ tangled' = job[o].company
    /\ UNCHANGED <<corpus, milvusVars, cached, overlapped, edits>>

\* build_bm25_vocab.py; without documents it raises.
BuildRead(o) ==
    /\ job[o].at = "idle" /\ DOMAIN corpus # {}
    /\ job' = [job EXCEPT ![o] = [Idle EXCEPT !.at = "build", !.words = Numbering(TermsOf(corpus))]]
    /\ UNCHANGED <<corpus, vocab, milvusVars, cached, historyVars, edits>>

\* Faulty variant: a rebuild keeps the rows it does not overwrite.
BuildWithoutDelete(o) ==
    /\ job[o].at = "build"
    /\ Begin(o, "buildWrite", {})

\* Faulty variant: the DELETE is a transaction of its own.
BuildDeletesFirst(o) ==
    /\ job[o].at = "build"
    /\ vocab' = Nothing /\ Goto(o, "buildWrite")
    /\ UNCHANGED <<corpus, milvusVars, cached, historyVars, edits>>

\* Only a rebuild deletes.
BuildBegin(o) ==
    /\ job[o].at = "build"
    /\ Begin(o, "buildWrite", IF Mode = "rebuild" THEN DOMAIN vocab ELSE {})

\* Rows are inserted over those there are, whether or not a term has one.
BuildWrite(o) ==
    /\ job[o].at = "buildWrite"
    /\ Commit(o, job[o].words, Idle)

\* load_rag_to_milvus.py; without documents, or with an empty vocabulary, it raises.
LoadRead(o) ==
    /\ job[o].at = "idle" /\ DOMAIN corpus # {}
    /\ job' = [job EXCEPT ![o] = [Idle EXCEPT !.at = "load", !.docs = corpus]]
    /\ UNCHANGED <<corpus, vocab, milvusVars, cached, historyVars, edits>>

LoadVocab(o) ==
    /\ job[o].at = "load"
    /\ IF DOMAIN vocab = {} THEN Stop(o)
       ELSE job' = [job EXCEPT ![o].at = "upsert", ![o].words = vocab]
    /\ UNCHANGED <<corpus, vocab, milvusVars, cached, historyVars, edits>>

\* A document as it is written to Milvus; text and words are history.
Entity(d, text, words) ==
    [doc |-> d, vector |-> DocVector(words, text), text |-> text, words |-> words]
Encode(docs, words) == {Entity(d, docs[d], words) : d \in DOMAIN docs}

\* The rows carry ids: only a collection keyed by id takes them, and replaces
\* those of the same id.
LoadUpsert(o) ==
    /\ job[o].at = "upsert"
    /\ entities' = IF schema = "keyed"
                   THEN {e \in entities : e.doc \notin DOMAIN job[o].docs}
                          \cup Encode(job[o].docs, job[o].words)
                   ELSE entities
    /\ Stop(o)
    /\ UNCHANGED <<corpus, vocab, schema, cached, historyVars, edits>>

\* load_sample_rag.py: the documents, the vocabulary, the collection anew.
SampleUpsert(o) ==
    /\ job[o].at = "idle"
    /\ corpus' = With(corpus, Sample)
    /\ job' = [job EXCEPT ![o] = [Idle EXCEPT !.at = "sampleLook", !.docs = Sample]]
    /\ UNCHANGED <<vocab, milvusVars, cached, historyVars, edits>>

\* In the fixed mode a vocabulary that is there is used.
SampleLook(o) ==
    /\ job[o].at = "sampleLook"
    /\ IF Mode = "fixed" /\ DOMAIN vocab # {}
       THEN job' = [job EXCEPT ![o].at = "recreate", ![o].words = vocab]
       ELSE Goto(o, "sampleBuild")
    /\ UNCHANGED <<corpus, vocab, milvusVars, cached, historyVars, edits>>

SampleBegin(o) ==
    /\ job[o].at = "sampleBuild"
    /\ Begin(o, "samplePersist", DOMAIN vocab)

\* A row committed by another in the meantime is a conflict, and the script raises.
SamplePersist(o) ==
    /\ job[o].at = "samplePersist"
    /\ LET rows == Numbering(TermsOf(job[o].docs))
       IN  IF DOMAIN rows \cap (DOMAIN vocab \ job[o].doomed) = {}
           THEN Commit(o, rows, [job[o] EXCEPT !.at = "recreate", !.words = rows, !.doomed = {}])
           ELSE /\ Stop(o)
                /\ UNCHANGED <<corpus, vocab, milvusVars, cached, historyVars, edits>>

SampleDrop(o) ==
    /\ job[o].at = "recreate"
    /\ schema' = "absent" /\ entities' = {}
    /\ Goto(o, "create")
    /\ UNCHANGED <<corpus, vocab, cached, historyVars, edits>>

\* A collection another has created by then serves if it has the same schema.
SampleCreate(o) ==
    /\ job[o].at = "create"
    /\ IF schema = "keyed" THEN Stop(o) /\ UNCHANGED schema
       ELSE Goto(o, "insert") /\ schema' = "numbered"
    /\ UNCHANGED <<corpus, vocab, entities, cached, historyVars, edits>>

\* The rows carry no ids: only a collection that numbers them takes them.
SampleInsert(o) ==
    /\ job[o].at = "insert"
    /\ entities' = IF schema = "numbered" THEN entities \cup Encode(job[o].docs, job[o].words)
                   ELSE entities
    /\ Stop(o)
    /\ UNCHANGED <<corpus, vocab, schema, cached, historyVars, edits>>

\* init_milvus_collections.py --allow-create.
InitCollection ==
    /\ schema = "absent"
    /\ schema' = "keyed"
    /\ UNCHANGED <<corpus, vocab, entities, cached, job, historyVars, edits>>

\* A script is broken off between two of its steps; an open transaction goes.
JobBreaks(o) ==
    /\ job[o].at # "idle"
    /\ Stop(o)
    /\ UNCHANGED <<corpus, vocab, milvusVars, cached, historyVars, edits>>

\* The first rag_search of the server caches the vocabulary, an empty one too;
\* without a collection it raises.
FirstSearch ==
    /\ cached = {} /\ schema # "absent"
    /\ cached' = {vocab}
    /\ UNCHANGED <<corpus, vocab, milvusVars, job, historyVars, edits>>

ServerRestarts ==
    /\ cached # {}
    /\ cached' = {}
    /\ UNCHANGED <<corpus, vocab, milvusVars, job, historyVars, edits>>

Build(o) == BuildRead(o) \/ BuildBegin(o) \/ BuildWrite(o)
Load(o) == LoadRead(o) \/ LoadVocab(o) \/ LoadUpsert(o)
LoadSample(o) == SampleUpsert(o) \/ SampleLook(o) \/ SampleBegin(o) \/ SamplePersist(o)
                   \/ SampleDrop(o) \/ SampleCreate(o) \/ SampleInsert(o)

Next ==
    \/ \E o \in Operators : Build(o) \/ Load(o) \/ LoadSample(o) \/ JobBreaks(o)
    \/ EditCorpus \/ InitCollection \/ FirstSearch \/ ServerRestarts

Spec == Init /\ [][Next]_vars

-----------------------------------------------------------------------------
(* What the three copies of the vocabulary must agree on *)

Indexes == 0..(Cardinality(Terms) - 1)
Corpora == Partial(Docs, Contents)
Vocabularies == Partial(Terms, Indexes)
Entities == {Entity(d, text, words) : d \in Docs, text \in Contents, words \in Vocabularies}
Jobs == [at : {"idle", "build", "buildWrite", "load", "upsert", "sampleLook", "sampleBuild",
               "samplePersist", "recreate", "create", "insert"},
         docs : Corpora, words : Vocabularies, doomed : SUBSET Terms, company : BOOLEAN]

\* Tables, caches and vectors hold what the scripts put there, and an index is
\* one of as many as there are terms (SparseVectorBuilder.build_vocab).
TypeOK ==
    /\ corpus \in Corpora /\ vocab \in Vocabularies
    /\ schema \in {"absent", "keyed", "numbered"} /\ entities \subseteq Entities
    /\ cached \subseteq Vocabularies
    /\ job \in [Operators -> Jobs]
    /\ tangled \in BOOLEAN /\ overlapped \in BOOLEAN
    /\ edits \in 0..MaxEdits

Injective(words) == \A t, u \in DOMAIN words : words[t] = words[u] => t = u

\* In the rebuild mode no two terms share an index in the table unless the last
\* script to write it overlapped with another one: each of the two deletes the
\* rows it sees and puts its own over what the other committed.  One rebuild that
\* runs alone repairs that.  Copies are sound if there never was an overlap
\* (build_bm25_vocab.py, load_sample_rag.py under READ COMMITTED).
NoCollision ==
    Mode = "rebuild" =>
        /\ ~tangled => Injective(vocab)
        /\ ~overlapped =>
             /\ \A o \in Operators : Injective(job[o].words)
             /\ \A words \in cached : Injective(words)
             /\ \A e \in entities : Injective(e.words)

\* Where server and document go by the same vocabulary, a search for a term meets
\* the document if and only if the document says the term, whatever scripts,
\* restarts and edits came before (build_doc_vector, build_query_vector).
SearchIsExact ==
    Mode = "rebuild" /\ ~overlapped =>
        \A words \in cached, e \in entities : words = e.words =>
            \A t \in DOMAIN words : QueryVector(words, {t}) \cap e.vector # {} <=> t \in e.text

\* Operators and transactions aside, the table of the vocabulary is as good as one
\* whose writes are atomic: each puts in the numbering of a whole corpus, never
\* nothing or a part of one, changes no other row, and in the rebuild mode leaves
\* none unless it had company (build_bm25_vocab.py, load_sample_rag.py).
Table == INSTANCE VocabularyTable WITH
             Texts <- {TermsOf(docs) : docs \in Corpora \ {Nothing}},
             table <- vocab, mixed <- tangled
ImplementsTable == Table!Spec

\* What load_sample_rag.py and a comment of build_bm25_vocab.py say of the fixed
\* mode: a term that has an index keeps it.
FixedKeepsIndexes ==
    [][Mode = "fixed" => \A t \in DOMAIN vocab : t \in DOMAIN vocab' /\ vocab'[t] = vocab[t]]_vars
=============================================================================
