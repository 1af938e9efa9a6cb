-------------------------- MODULE SparseIndexProofs --------------------------
(***************************************************************************)
(* Tables and vectors keep their types; in the rebuild mode two terms      *)
(* share an index only where transactions that write the vocabulary have   *)
(* overlapped; and a search by the vocabulary a document was encoded with  *)
(* is exact as long as none have.                                          *)
(***************************************************************************)
EXTENDS SparseIndex, FiniteSetTheorems, TLAPS

(* Tables *)

LEMMA PartialMember ==
    ASSUME NEW keys, NEW values, NEW f
    PROVE  f \in Partial(keys, values) <=> DOMAIN f \in SUBSET keys /\ f \in [DOMAIN f -> values]
BY DEF Partial

LEMMA NothingPartial ==
    ASSUME NEW keys, NEW values
    PROVE  Nothing \in Partial(keys, values)
BY PartialMember DEF Nothing

LEMMA WithPartial ==
    ASSUME NEW keys, NEW values, NEW f \in Partial(keys, values), NEW g \in Partial(keys, values)
    PROVE  With(f, g) \in Partial(keys, values)
<1>1. /\ DOMAIN f \in SUBSET keys /\ f \in [DOMAIN f -> values]
      /\ DOMAIN g \in SUBSET keys /\ g \in [DOMAIN g -> values]
  BY PartialMember
<1>2. DOMAIN With(f, g) = DOMAIN f \cup DOMAIN g
  BY DEF With
<1>3. With(f, g) \in [DOMAIN With(f, g) -> values]
  BY <1>1, <1>2 DEF With
<1> QED BY <1>1, <1>2, <1>3, PartialMember

LEMMA WithoutPartial ==
    ASSUME NEW keys, NEW values, NEW f \in Partial(keys, values), NEW gone
    PROVE  Without(f, gone) \in Partial(keys, values)
<1>1. DOMAIN f \in SUBSET keys /\ f \in [DOMAIN f -> values]
  BY PartialMember
<1>2. DOMAIN Without(f, gone) = DOMAIN f \ gone
  BY DEF Without
<1>3. Without(f, gone) \in [DOMAIN Without(f, gone) -> values]
  BY <1>1, <1>2 DEF Without
<1> QED BY <1>1, <1>2, <1>3, PartialMember

\* What replaces all of a table is all there is.
LEMMA WithAll ==
    ASSUME NEW keys, NEW values, NEW f, NEW g \in Partial(keys, values)
    PROVE  With(Without(f, DOMAIN f), g) = g
<1>1. g \in [DOMAIN g -> values]
  BY PartialMember
<1>2. DOMAIN Without(f, DOMAIN f) = {}
  BY DEF Without
<1> QED BY <1>1, <1>2 DEF With

-----------------------------------------------------------------------------
(* The rank of a term *)

\* It is less than there are terms.
LEMMA NumberingType ==
    ASSUME NEW terms \in SUBSET Terms
    PROVE  Numbering(terms) \in Vocabularies
<1> DEFINE below(t) == {u \in terms : u < t}
<1>1. ASSUME NEW t \in terms PROVE Cardinality(below(t)) \in Indexes
  <2>1. IsFiniteSet(Terms) /\ t \in Int /\ ~(t < t)
    BY SparseAssumption
  <2>2. below(t) \subseteq Terms \ {t}
    BY <2>1, Zenon
  <2>3. /\ IsFiniteSet(Terms \ {t}) /\ Cardinality(Terms \ {t}) = Cardinality(Terms) - 1
        /\ Cardinality(Terms) \in Nat
    BY <2>1, FS_RemoveElement, FS_CardinalityType
  <2>4. /\ IsFiniteSet(below(t))
        /\ Cardinality(below(t)) <= Cardinality(Terms \ {t})
    BY <2>2, <2>3, FS_Subset
  <2>5. Cardinality(below(t)) \in Nat
    BY <2>4, FS_CardinalityType
  <2> QED BY <2>3, <2>4, <2>5 DEF Indexes
<1>2. DOMAIN Numbering(terms) = terms /\ Numbering(terms) \in [terms -> Indexes]
  BY <1>1 DEF Numbering
<1> QED BY <1>2, PartialMember DEF Vocabularies

\* It tells the term from every other term.
LEMMA NumberingInjective ==
    ASSUME NEW terms \in SUBSET Terms
    PROVE  Injective(Numbering(terms))
<1> DEFINE below(t) == {u \in terms : u < t}
<1>1. IsFiniteSet(terms) /\ terms \subseteq Int
  BY SparseAssumption, FS_Subset
<1>2. ASSUME NEW t \in terms, NEW u \in terms, t < u
      PROVE  Cardinality(below(t)) # Cardinality(below(u))
  <2>0. t \in Int /\ u \in Int /\ \A x \in terms : x \in Int
    BY <1>1
  <2>1. /\ \A x \in terms : x < t => x < u
        /\ ~(t < t)
    BY <1>2, <2>0
  <2>3. below(t) \subseteq below(u) /\ t \in below(u) /\ t \notin below(t)
    BY <1>2, <2>1
  <2>2. IsFiniteSet(below(u))
    BY <1>1, FS_Subset
  <2> QED BY <2>3, <2>2, FS_Subset
<1>3. \A t, u \in terms : t # u => t < u \/ u < t
  BY <1>1
<1>4. \A t, u \in terms : Cardinality(below(t)) = Cardinality(below(u)) => t = u
  BY <1>2, <1>3
<1> QED BY <1>4 DEF Numbering, Injective

LEMMA TermsOfType ==
    ASSUME NEW docs \in Corpora
    PROVE  TermsOf(docs) \in SUBSET Terms
<1>1. docs \in [DOMAIN docs -> Contents]
  BY PartialMember DEF Corpora
<1> QED BY <1>1, SparseAssumption DEF TermsOf

LEMMA SampleType == Sample \in Corpora
BY SparseAssumption, PartialMember DEF Corpora

LEMMA EncodeType ==
    ASSUME NEW docs \in Corpora, NEW words \in Vocabularies
    PROVE  Encode(docs, words) \in SUBSET Entities
<1>1. DOMAIN docs \in SUBSET Docs /\ docs \in [DOMAIN docs -> Contents]
  BY PartialMember DEF Corpora
<1>2. \A d \in DOMAIN docs : d \in Docs /\ docs[d] \in Contents
  BY <1>1
<1> QED BY <1>2 DEF Encode, Entities

-----------------------------------------------------------------------------
(* Types *)

LEMMA IdleType == Idle \in Jobs
BY NothingPartial DEF Idle, Jobs, Corpora, Vocabularies

LEMMA StopType ==
    ASSUME TypeOK, NEW o \in Operators, Stop(o)
    PROVE  job' \in [Operators -> Jobs]
BY IdleType DEF Stop, TypeOK

LEMMA TypeInit == Init => TypeOK
<1> SUFFICES ASSUME Init PROVE TypeOK
  OBVIOUS
<1>1. vocab \in Vocabularies
  BY NothingPartial DEF Init, Vocabularies
<1>2. job \in [Operators -> Jobs]
  BY IdleType DEF Init
<1>3. corpus \in Corpora /\ edits \in 0..MaxEdits
  BY SparseAssumption DEF Init, Corpora
<1> QED BY <1>1, <1>2, <1>3 DEF Init, TypeOK

LEMMA CommitType ==
    ASSUME TypeOK, NEW o \in Operators, NEW rows \in Vocabularies, NEW next \in Jobs,
           Commit(o, rows, next)
    PROVE  TypeOK'
<1>1. vocab' \in Vocabularies
  BY WithPartial, WithoutPartial DEF Commit, TypeOK, Vocabularies
<1>2. ASSUME NEW p \in Operators
      PROVE  [job[p] EXCEPT !.doomed = @ \ job[o].doomed] \in Jobs
  BY DEF TypeOK, Jobs
<1>3. job' \in [Operators -> Jobs]
  BY <1>2 DEF Commit
<1>4. tangled' \in BOOLEAN
  BY DEF Commit, TypeOK, Jobs
<1> QED BY <1>1, <1>3, <1>4 DEF Commit, TypeOK, milvusVars

LEMMA BeginType ==
    ASSUME TypeOK, NEW o \in Operators, NEW place \in {"buildWrite", "samplePersist"},
           NEW doomed \in SUBSET Terms, Begin(o, place, doomed)
    PROVE  TypeOK'
<1>1. /\ [job[o] EXCEPT !.at = place, !.doomed = doomed, !.company = Company(o)] \in Jobs
      /\ \A p \in Operators : [job[p] EXCEPT !.company = TRUE] \in Jobs
  BY DEF TypeOK, Jobs, Company
<1>2. job' \in [Operators -> Jobs]
  BY <1>1 DEF Begin, TypeOK
<1>3. overlapped' \in BOOLEAN
  BY DEF Begin, TypeOK, Company
<1> QED BY <1>2, <1>3 DEF Begin, TypeOK, milvusVars

LEMMA TypeNext == TypeOK /\ [Next]_vars => TypeOK'
<1> SUFFICES ASSUME TypeOK, [Next]_vars PROVE TypeOK'
  OBVIOUS
<1>0. /\ \A o \in Operators : job[o] \in Jobs
      /\ \A o \in Operators : job[o].docs \in Corpora /\ job[o].words \in Vocabularies
      /\ DOMAIN vocab \in SUBSET Terms
  BY PartialMember DEF TypeOK, Jobs, Vocabularies
<1>1. CASE EditCorpus
  <2>1. ASSUME NEW d \in Docs, NEW text \in Contents
        PROVE  [x \in {d} |-> text] \in Corpora
    BY PartialMember DEF Corpora
  <2>2. /\ \A d \in Docs, text \in Contents : With(corpus, [x \in {d} |-> text]) \in Corpora
        /\ \A d \in Docs : Without(corpus, {d}) \in Corpora
        /\ DOMAIN corpus \in SUBSET Docs
    BY <2>1, WithPartial, WithoutPartial, PartialMember DEF TypeOK, Corpora
  <2>3. edits' \in 0..MaxEdits
    BY <1>1, SparseAssumption DEF EditCorpus, TypeOK
  <2>4. corpus' \in Corpora
    BY <1>1, <2>2 DEF EditCorpus
  <2> QED BY <1>1, <2>3, <2>4 DEF EditCorpus, TypeOK, milvusVars, historyVars
<1>2. ASSUME NEW o \in Operators, Build(o) PROVE TypeOK'
  <2>1. CASE BuildRead(o)
    <3>1. Numbering(TermsOf(corpus)) \in Vocabularies
      BY TermsOfType, NumberingType DEF TypeOK
    <3>2. [Idle EXCEPT !.at = "build", !.words = Numbering(TermsOf(corpus))] \in Jobs
      BY <3>1, IdleType DEF Jobs
    <3> QED BY <2>1, <3>2 DEF BuildRead, TypeOK, milvusVars, historyVars
  <2>2. CASE BuildBegin(o)
    BY <1>0, <2>2, BeginType DEF BuildBegin
  <2>3. CASE BuildWrite(o)
    BY <1>0, <2>3, CommitType, IdleType DEF BuildWrite
  <2> QED BY <1>2, <2>1, <2>2, <2>3 DEF Build
<1>3. ASSUME NEW o \in Operators, Load(o) PROVE TypeOK'
  <2>1. CASE LoadRead(o)
    <3>1. [Idle EXCEPT !.at = "load", !.docs = corpus] \in Jobs
      BY IdleType DEF TypeOK, Jobs
    <3> QED BY <2>1, <3>1 DEF LoadRead, TypeOK, milvusVars, historyVars
  <2>2. CASE LoadVocab(o)
    <3>1. [job[o] EXCEPT !.at = "upsert", !.words = vocab] \in Jobs
      BY <1>0 DEF TypeOK, Jobs
    <3>2. job' \in [Operators -> Jobs]
      BY <2>2, <3>1, StopType DEF LoadVocab, TypeOK
    <3> QED BY <2>2, <3>2 DEF LoadVocab, TypeOK, milvusVars, historyVars
  <2>3. CASE LoadUpsert(o)
    <3>1. entities' \subseteq Entities
      BY <1>0, <2>3, EncodeType DEF LoadUpsert, TypeOK
    <3>2. job' \in [Operators -> Jobs]
      BY <2>3, StopType DEF LoadUpsert
    <3> QED BY <2>3, <3>1, <3>2 DEF LoadUpsert, TypeOK, historyVars
  <2> QED BY <1>3, <2>1, <2>2, <2>3 DEF Load
<1>4. ASSUME NEW o \in Operators, LoadSample(o) PROVE TypeOK'
  <2>1. CASE SampleUpsert(o)
    <3>1. [Idle EXCEPT !.at = "sampleLook", !.docs = Sample] \in Jobs
      BY IdleType, SampleType DEF Jobs
    <3>2. corpus' \in Corpora
      BY <2>1, WithPartial, SampleType DEF SampleUpsert, TypeOK, Corpora
    <3> QED BY <2>1, <3>1, <3>2 DEF SampleUpsert, TypeOK, milvusVars, historyVars
  <2>2. CASE SampleLook(o)
    <3>1. /\ [job[o] EXCEPT !.at = "recreate", !.words = vocab] \in Jobs
          /\ [job[o] EXCEPT !.at = "sampleBuild"] \in Jobs
      BY <1>0 DEF TypeOK, Jobs
    <3>2. job' \in [Operators -> Jobs]
      BY <2>2, <3>1 DEF SampleLook, TypeOK, Goto
    <3> QED BY <2>2, <3>2 DEF SampleLook, TypeOK, milvusVars, historyVars
  <2>3. CASE SampleBegin(o)
    BY <1>0, <2>3, BeginType DEF SampleBegin
  <2>4. CASE SamplePersist(o)
    <3> DEFINE new == Numbering(TermsOf(job[o].docs))
    <3>1. new \in Vocabularies
      BY <1>0, TermsOfType, NumberingType
    <3>2. [job[o] EXCEPT !.at = "recreate", !.words = new, !.doomed = {}] \in Jobs
      BY <1>0, <3>1 DEF Jobs
    <3>3. CASE Commit(o, new, [job[o] EXCEPT !.at = "recreate", !.words = new, !.doomed = {}])
      BY <3>1, <3>2, <3>3, CommitType
    <3>4. CASE Stop(o) /\ UNCHANGED <<corpus, vocab, milvusVars, cached, historyVars, edits>>
      BY <3>4, StopType DEF TypeOK, milvusVars, historyVars
    <3> QED BY <2>4, <3>3, <3>4 DEF SamplePersist
  <2>5. CASE SampleDrop(o) \/ SampleCreate(o)
    <3>1. /\ [job[o] EXCEPT !.at = "create"] \in Jobs
          /\ [job[o] EXCEPT !.at = "insert"] \in Jobs
      BY <1>0 DEF Jobs
    <3>2. job' \in [Operators -> Jobs]
      BY <2>5, <3>1, StopType DEF SampleDrop, SampleCreate, TypeOK, Goto
    <3> QED BY <2>5, <3>2 DEF SampleDrop, SampleCreate, TypeOK, historyVars
  <2>6. CASE SampleInsert(o)
    <3>1. entities' \subseteq Entities
      BY <1>0, <2>6, EncodeType DEF SampleInsert, TypeOK
    <3>2. job' \in [Operators -> Jobs]
      BY <2>6, StopType DEF SampleInsert
    <3> QED BY <2>6, <3>1, <3>2 DEF SampleInsert, TypeOK, historyVars
  <2> QED BY <1>4, <2>1, <2>2, <2>3, <2>4, <2>5, <2>6 DEF LoadSample
<1>5. CASE InitCollection \/ ServerRestarts \/ FirstSearch
  BY <1>5 DEF InitCollection, ServerRestarts, FirstSearch, TypeOK, milvusVars, historyVars
<1>6. ASSUME NEW o \in Operators, JobBreaks(o) PROVE TypeOK'
  <2>1. job' \in [Operators -> Jobs]
    BY <1>6, StopType DEF JobBreaks
  <2> QED BY <1>6, <2>1 DEF JobBreaks, TypeOK, milvusVars, historyVars
<1>7. CASE UNCHANGED vars
  BY <1>7 DEF vars, TypeOK, milvusVars, historyVars
<1> QED BY <1>1, <1>2, <1>3, <1>4, <1>5, <1>6, <1>7 DEF Next

\* Whatever scripts overlap or break off, every table, cached copy and vector
\* keeps its type: no index is beyond the number of terms.
THEOREM TablesKeepTheirTypes == Spec => []TypeOK
BY TypeInit, TypeNext, PTL DEF Spec

-----------------------------------------------------------------------------
(* Indexes *)

\* A rebuild brings a numbering.  A transaction that has had no company is the only
\* one that writes, and deletes all there is; none has had company if none have
\* overlapped.
WriteInv ==
    /\ \A o \in Operators : job[o].at \in {"build", "buildWrite"} => Injective(job[o].words)
    /\ \A o \in Operators : Writing(o) /\ ~job[o].company =>
         /\ ~Company(o)
         /\ Mode = "rebuild" => job[o].doomed = DOMAIN vocab
    /\ ~overlapped => ~tangled /\ \A o \in Operators : Writing(o) => ~job[o].company

IndexInv == TypeOK /\ WriteInv /\ NoCollision

LEMMA IndexInit == Init => IndexInv
<1> SUFFICES ASSUME Init PROVE IndexInv
  OBVIOUS
<1>1. DOMAIN Nothing = {} /\ Injective(Nothing)
  BY DEF Nothing, Injective
<1>2. \A o \in Operators : job[o].at = "idle" /\ job[o].words = Nothing
  BY DEF Init, Idle
<1> QED BY <1>1, <1>2, TypeInit DEF Init, IndexInv, WriteInv, NoCollision, Writing

\* A step of operator o that leaves the vocabulary alone, opens no transaction and
\* takes up a numbering, the vocabulary or nothing.
LEMMA OtherStep ==
    ASSUME IndexInv, NEW o \in Operators, NEW next \in Jobs, job' = [job EXCEPT ![o] = next],
           next.at \notin {"buildWrite", "samplePersist"},
           \/ next.words = job[o].words /\ next.at # "build"
           \/ next.words = vocab /\ next.at # "build"
           \/ Injective(next.words),
           \A e \in entities' : e \in entities \/ e.words = job[o].words,
           UNCHANGED <<vocab, cached, historyVars>>
    PROVE  WriteInv' /\ NoCollision'
<1>1. /\ \A p \in Operators : job'[p] = IF p = o THEN next ELSE job[p]
      /\ tangled' = tangled /\ overlapped' = overlapped
  BY DEF IndexInv, TypeOK, historyVars
<1>2. \A p \in Operators : Writing(p)' => p # o /\ Writing(p) /\ job'[p] = job[p]
  BY <1>1 DEF Writing
<1>3. \A p \in Operators : ~Company(p) => ~Company(p)'
  BY <1>2 DEF Company
<1>4. WriteInv'
  <2>1. \A p \in Operators : (job[p].at \in {"build", "buildWrite"})' => Injective(job[p].words)'
    BY <1>1 DEF IndexInv, WriteInv, Injective
  <2>2. \A p \in Operators : (Writing(p) /\ ~job[p].company)' =>
           ~Company(p)' /\ (Mode = "rebuild" => job'[p].doomed = DOMAIN vocab')
    BY <1>2, <1>3 DEF IndexInv, WriteInv
  <2>3. (~overlapped => ~tangled /\ \A p \in Operators : Writing(p) => ~job[p].company)'
    BY <1>1, <1>2 DEF IndexInv, WriteInv
  <2> QED BY <2>1, <2>2, <2>3 DEF WriteInv
<1>5. NoCollision'
  <2> SUFFICES ASSUME Mode = "rebuild"
               PROVE  /\ ~tangled => Injective(vocab)
                      /\ ~overlapped =>
                           /\ \A p \in Operators : Injective(job'[p].words)
                           /\ \A words \in cached : Injective(words)
                           /\ \A e \in entities' : Injective(e.words)
    BY <1>1 DEF NoCollision, Injective
  <2>1. ~overlapped => Injective(vocab) /\ Injective(job[o].words)
    BY DEF IndexInv, WriteInv, NoCollision
  <2>2. ~overlapped => Injective(next.words)
    BY <2>1
  <2> QED BY <1>1, <2>1, <2>2 DEF IndexInv, NoCollision
<1> QED BY <1>4, <1>5

\* Whoever finds a transaction open makes both of them have company.
LEMMA BeginStep ==
    ASSUME IndexInv, NEW o \in Operators, NEW place \in {"buildWrite", "samplePersist"},
           NEW doomed \in SUBSET Terms, Mode = "rebuild" => doomed = DOMAIN vocab,
           place = "buildWrite" => job[o].at = "build",
           ~Writing(o), Begin(o, place, doomed)
    PROVE  WriteInv' /\ NoCollision'
<1>1. /\ job'[o].at = place /\ job'[o].doomed = doomed /\ job'[o].company = Company(o)
      /\ job'[o].words = job[o].words
      /\ \A p \in Operators \ {o} :
           /\ job'[p].at = job[p].at /\ job'[p].doomed = job[p].doomed
           /\ job'[p].words = job[p].words
           /\ Writing(p) => job'[p].company
  BY DEF Begin, IndexInv, TypeOK, Jobs
<1>2. /\ overlapped' = (overlapped \/ Company(o)) /\ tangled' = tangled /\ vocab' = vocab
      /\ entities' = entities /\ cached' = cached
  BY DEF Begin, milvusVars
<1>3. \A p \in Operators \ {o} : Writing(p)' <=> Writing(p)
  BY <1>1 DEF Writing
<1>4. Company(o)' <=> Company(o)
  BY <1>3 DEF Company
<1>5. WriteInv'
  <2>1. \A p \in Operators : (job[p].at \in {"build", "buildWrite"})' => Injective(job[p].words)'
    BY <1>1 DEF IndexInv, WriteInv, Injective
  <2>2. \A p \in Operators : (Writing(p) /\ ~job[p].company)' =>
           ~Company(p)' /\ (Mode = "rebuild" => job'[p].doomed = DOMAIN vocab')
    BY <1>1, <1>2, <1>3, <1>4
  <2>3. ~overlapped' => ~tangled' /\ \A p \in Operators : Writing(p)' => ~job'[p].company
    <3>1. ~overlapped' => ~overlapped /\ ~Company(o)
      BY <1>2
    <3>2. ~Company(o) => \A p \in Operators \ {o} : ~Writing(p)
      BY DEF Company
    <3> QED BY <1>1, <1>2, <1>3, <3>1, <3>2 DEF IndexInv, WriteInv
  <2> QED BY <2>1, <2>2, <2>3 DEF WriteInv
<1>6. NoCollision'
  <2>1. \A p \in Operators : job'[p].words = job[p].words
    BY <1>1
  <2> QED BY <1>2, <2>1 DEF IndexInv, NoCollision, Injective
<1> QED BY <1>5, <1>6

\* A transaction that had no company replaces the vocabulary by its own.
LEMMA CommitStep ==
    ASSUME IndexInv, NEW o \in Operators, Writing(o), NEW rows \in Vocabularies, Injective(rows),
           NEW next \in Jobs, next.at \in {"idle", "recreate"}, Injective(next.words),
           Commit(o, rows, next)
    PROVE  WriteInv' /\ NoCollision'
<1>1. /\ job'[o] = next
      /\ \A p \in Operators \ {o} :
           job'[p].at = job[p].at /\ job'[p].words = job[p].words /\ job'[p].company = job[p].company
  BY DEF Commit, IndexInv, TypeOK, Jobs
<1>2. /\ overlapped' = overlapped /\ tangled' = job[o].company
      /\ entities' = entities /\ cached' = cached
  BY DEF Commit, milvusVars
<1>3. \A p \in Operators : Writing(p)' => p # o /\ Writing(p)
  BY <1>1 DEF Writing
<1>4. \A p \in Operators \ {o} : Writing(p) => job[p].company
  BY DEF IndexInv, WriteInv, Company
<1>5. WriteInv'
  <2>1. \A p \in Operators : (job[p].at \in {"build", "buildWrite"})' => Injective(job[p].words)'
    BY <1>1 DEF IndexInv, WriteInv, Injective
  <2>2. \A p \in Operators : Writing(p)' => job'[p].company
    BY <1>1, <1>3, <1>4
  <2>3. ~overlapped' => ~tangled' /\ \A p \in Operators : Writing(p)' => ~job'[p].company
    BY <1>1, <1>2, <1>3 DEF IndexInv, WriteInv
  <2> QED BY <2>1, <2>2, <2>3 DEF WriteInv
<1>6. NoCollision'
  <2> SUFFICES ASSUME Mode = "rebuild" PROVE NoCollision'
    BY DEF NoCollision
  <2>1. ~tangled' => vocab' = rows
    <3> SUFFICES ASSUME ~job[o].company PROVE vocab' = rows
      BY <1>2
    <3>1. job[o].doomed = DOMAIN vocab
      BY DEF IndexInv, WriteInv
    <3> QED BY <3>1, WithAll DEF Commit, Vocabularies
  <2>2. ~tangled' => Injective(vocab')
    BY <2>1
  <2>3. \A p \in Operators : job'[p].words \in {job[p].words, next.words}
    BY <1>1
  <2>4. ~overlapped' => \A p \in Operators : Injective(job'[p].words)
    BY <1>2, <2>3 DEF IndexInv, NoCollision
  <2> QED BY <1>2, <2>2, <2>4 DEF IndexInv, NoCollision, Injective
<1> QED BY <1>5, <1>6

LEMMA IndexNext == IndexInv /\ [Next]_vars => IndexInv'
<1> SUFFICES ASSUME IndexInv, [Next]_vars PROVE IndexInv'
  OBVIOUS
<1> SUFFICES WriteInv' /\ NoCollision'
  BY TypeNext DEF IndexInv
<1>0. /\ TypeOK /\ job \in [Operators -> Jobs]
      /\ \A o \in Operators : /\ job[o] \in Jobs /\ job[o].docs \in Corpora
                              /\ job[o].words \in Vocabularies
      /\ DOMAIN vocab \in SUBSET Terms /\ vocab \in Vocabularies
  BY PartialMember DEF IndexInv, TypeOK, Jobs, Vocabularies
<1>a. /\ Idle \in Jobs /\ Idle.at = "idle" /\ Injective(Idle.words)
      /\ DOMAIN Idle = {"at", "docs", "words", "doomed", "company"}
  BY IdleType DEF Idle, Nothing, Injective
<1>1. CASE EditCorpus \/ InitCollection \/ ServerRestarts \/ FirstSearch
  <2>1. UNCHANGED <<vocab, job, historyVars, entities>> /\ (cached' \subseteq cached \/ cached' = {vocab})
    BY <1>1 DEF EditCorpus, InitCollection, ServerRestarts, FirstSearch, milvusVars
  <2>2. WriteInv'
    BY <2>1 DEF IndexInv, WriteInv, Writing, Company, historyVars, Injective
  <2>3. NoCollision'
    BY <2>1 DEF IndexInv, WriteInv, NoCollision, historyVars, Injective
  <2> QED BY <2>2, <2>3
<1>2. ASSUME NEW o \in Operators, Build(o) PROVE WriteInv' /\ NoCollision'
  <2>1. CASE BuildRead(o)
    <3> DEFINE new == Numbering(TermsOf(corpus))
               next == [Idle EXCEPT !.at = "build", !.words = new]
    <3>1. new \in Vocabularies /\ Injective(new)
      BY <1>0, TermsOfType, NumberingType, NumberingInjective DEF TypeOK
    <3>2. next \in Jobs /\ next.at = "build" /\ next.words = new
      BY <1>a, <3>1 DEF Jobs
    <3>3. job' = [job EXCEPT ![o] = next] /\ UNCHANGED <<vocab, entities, cached, historyVars>>
      BY <2>1 DEF BuildRead, milvusVars
    <3> HIDE DEF new, next
    <3> QED BY <3>1, <3>2, <3>3, OtherStep
  <2>2. CASE BuildBegin(o)
    BY <1>0, <2>2, BeginStep DEF BuildBegin, Writing
  <2>3. CASE BuildWrite(o)
    <3>1. Writing(o) /\ Injective(job[o].words)
      BY <2>3 DEF BuildWrite, Writing, IndexInv, WriteInv
    <3> QED BY <1>0, <1>a, <2>3, <3>1, CommitStep DEF BuildWrite
  <2> QED BY <1>2, <2>1, <2>2, <2>3 DEF Build
<1>3. ASSUME NEW o \in Operators, Stop(o), UNCHANGED <<vocab, cached, historyVars>>,
             \A e \in entities' : e \in entities \/ e.words = job[o].words
      PROVE  WriteInv' /\ NoCollision'
  BY <1>3, <1>a, OtherStep DEF Stop
<1>4. ASSUME NEW o \in Operators, NEW place \in {"sampleBuild", "create", "insert"}, Goto(o, place),
             UNCHANGED <<vocab, cached, historyVars>>, entities' \subseteq entities
      PROVE  WriteInv' /\ NoCollision'
  <2> DEFINE next == [job[o] EXCEPT !.at = place]
  <2>1. next \in Jobs /\ next.at = place /\ next.words = job[o].words
    BY <1>0 DEF Jobs
  <2>2. job' = [job EXCEPT ![o] = next]
    BY <1>4 DEF Goto
  <2> HIDE DEF next
  <2> QED BY <1>4, <2>1, <2>2, OtherStep
<1>5. ASSUME NEW o \in Operators, NEW place \in {"upsert", "recreate"},
             job' = [job EXCEPT ![o].at = place, ![o].words = vocab],
             UNCHANGED <<vocab, entities, cached, historyVars>>
      PROVE  WriteInv' /\ NoCollision'
  <2> DEFINE next == [job[o] EXCEPT !.at = place, !.words = vocab]
  <2>1. next \in Jobs /\ next.at = place /\ next.words = vocab
    BY <1>0 DEF Jobs
  <2>2. job' = [job EXCEPT ![o] = next]
    BY <1>0, <1>5
  <2> HIDE DEF next
  <2> QED BY <1>5, <2>1, <2>2, OtherStep
<1>6. ASSUME NEW o \in Operators, NEW place \in {"load", "sampleLook"}, NEW docs \in Corpora,
             job' = [job EXCEPT ![o] = [Idle EXCEPT !.at = place, !.docs = docs]],
             UNCHANGED <<vocab, entities, cached, historyVars>>
      PROVE  WriteInv' /\ NoCollision'
  <2> DEFINE next == [Idle EXCEPT !.at = place, !.docs = docs]
  <2>1. next \in Jobs /\ next.at = place /\ next.words = Idle.words
    BY <1>a DEF Jobs
  <2>2. job' = [job EXCEPT ![o] = next]
    BY <1>6
  <2> HIDE DEF next
  <2> QED BY <1>6, <1>a, <2>1, <2>2, OtherStep
<1>7. ASSUME NEW o \in Operators, Load(o) PROVE WriteInv' /\ NoCollision'
  <2>1. CASE LoadRead(o)
    BY <1>0, <1>6, <2>1 DEF LoadRead, TypeOK, milvusVars
  <2>2. CASE LoadVocab(o)
    BY <1>3, <1>5, <2>2 DEF LoadVocab, milvusVars
  <2>3. CASE LoadUpsert(o)
    <3>1. \A e \in entities' : e \in entities \/ e.words = job[o].words
      BY <2>3 DEF LoadUpsert, Encode, Entity
    <3> QED BY <1>3, <2>3, <3>1 DEF LoadUpsert
  <2> QED BY <1>7, <2>1, <2>2, <2>3 DEF Load
<1>8. ASSUME NEW o \in Operators, LoadSample(o) PROVE WriteInv' /\ NoCollision'
  <2>1. CASE SampleUpsert(o)
    BY <1>6, <2>1, SampleType DEF SampleUpsert, milvusVars
  <2>2. CASE SampleLook(o)
    BY <1>4, <1>5, <2>2 DEF SampleLook, milvusVars
  <2>3. CASE SampleBegin(o)
    BY <1>0, <2>3, BeginStep DEF SampleBegin, Writing
  <2>4. CASE SamplePersist(o)
    <3> DEFINE new == Numbering(TermsOf(job[o].docs))
               next == [job[o] EXCEPT !.at = "recreate", !.words = new, !.doomed = {}]
    <3>1. new \in Vocabularies /\ Injective(new)
      BY <1>0, TermsOfType, NumberingType, NumberingInjective
    <3>2. next \in Jobs /\ next.at = "recreate" /\ next.words = new
      BY <1>0, <3>1 DEF Jobs
    <3>3. \/ Commit(o, new, next)
          \/ Stop(o) /\ UNCHANGED <<vocab, entities, cached, historyVars>>
      BY <2>4 DEF SamplePersist, milvusVars
    <3>4. Writing(o)
      BY <2>4 DEF SamplePersist, Writing
    <3> HIDE DEF new, next
    <3> QED BY <1>3, <3>1, <3>2, <3>3, <3>4, CommitStep
  <2>5. CASE SampleDrop(o)
    BY <1>4, <2>5 DEF SampleDrop
  <2>6. CASE SampleCreate(o)
    BY <1>3, <1>4, <2>6 DEF SampleCreate
  <2>7. CASE SampleInsert(o)
    <3>1. \A e \in entities' : e \in entities \/ e.words = job[o].words
      BY <2>7 DEF SampleInsert, Encode, Entity
    <3> QED BY <1>3, <2>7, <3>1 DEF SampleInsert
  <2> QED BY <1>8, <2>1, <2>2, <2>3, <2>4, <2>5, <2>6, <2>7 DEF LoadSample
<1>9. ASSUME NEW o \in Operators, JobBreaks(o) PROVE WriteInv' /\ NoCollision'
  BY <1>3, <1>9 DEF JobBreaks, milvusVars
<1>10. CASE UNCHANGED vars
  BY <1>10 DEF vars, milvusVars, historyVars, IndexInv, WriteInv, NoCollision, Writing, Company, Injective
<1> QED BY <1>1, <1>2, <1>7, <1>8, <1>9, <1>10 DEF Next

\* In the rebuild mode two terms share an index only if the last two to write the
\* vocabulary overlapped, however many operators, terms and documents there are.
THEOREM IndexesAreUnique == Spec => []NoCollision
BY IndexInit, IndexNext, PTL DEF Spec, IndexInv

\* A search by the vocabulary of a document is exact unless transactions overlapped.
THEOREM SearchesAreExact == Spec => []SearchIsExact
<1>1. IndexInv => SearchIsExact
  <2> SUFFICES ASSUME IndexInv, Mode = "rebuild", ~overlapped,
                      NEW words \in cached, NEW e \in entities, words = e.words,
                      NEW t \in DOMAIN words
               PROVE  QueryVector(words, {t}) \cap e.vector # {} <=> t \in e.text
    BY DEF SearchIsExact
  <2>1. e.vector = DocVector(words, e.text)
    BY DEF IndexInv, TypeOK, Entities, Entity
  <2>2. Injective(words)
    BY DEF IndexInv, NoCollision
  <2> QED BY <2>1, <2>2 DEF QueryVector, DocVector, Injective
<1> QED BY <1>1, IndexInit, IndexNext, PTL DEF Spec

-----------------------------------------------------------------------------
(* The table of the vocabulary *)

CorpusTexts == {TermsOf(docs) : docs \in Corpora \ {Nothing}}

\* A build brings the numbering of a corpus; who is to number the sample has it.
Brings(task) ==
    /\ task.at \in {"build", "buildWrite"} => \E own \in CorpusTexts : task.words = Numbering(own)
    /\ task.at \in {"sampleLook", "sampleBuild", "samplePersist"} => TermsOf(task.docs) \in CorpusTexts

BringsInv == \A o \in Operators : Brings(job[o])

LEMMA CorpusTextsType == CorpusTexts \subseteq SUBSET Terms
BY TermsOfType DEF CorpusTexts

LEMMA CorpusText ==
    ASSUME NEW docs \in Corpora, DOMAIN docs # {}
    PROVE  TermsOf(docs) \in CorpusTexts
BY DEF CorpusTexts, Nothing

LEMMA BringsInit == Init => BringsInv
BY DEF Init, BringsInv, Brings, Idle

\* A step of operator o, which leaves the others' places, documents and words.
LEMMA BringsStep ==
    ASSUME TypeOK, BringsInv, NEW o \in Operators, Brings(job'[o]),
           \A p \in Operators \ {o} : /\ job'[p].at = job[p].at /\ job'[p].docs = job[p].docs
                                      /\ job'[p].words = job[p].words
    PROVE  BringsInv'
BY DEF BringsInv, Brings

\* A step of operator o that goes on to a place where nothing is brought.
LEMMA PlainStep ==
    ASSUME TypeOK, BringsInv, NEW o \in Operators, NEW task,
           job' = [job EXCEPT ![o] = task],
           task.at \in {"idle", "load", "upsert", "recreate", "create", "insert"}
    PROVE  BringsInv'
<1>1. job'[o] = task /\ \A p \in Operators \ {o} : job'[p] = job[p]
  BY DEF TypeOK
<1>2. Brings(job'[o])
  BY <1>1 DEF Brings
<1> QED BY <1>1, <1>2, BringsStep

LEMMA OpenStep ==
    ASSUME TypeOK, BringsInv, NEW o \in Operators, NEW place, NEW rows, Begin(o, place, rows),
           \/ job[o].at = "build" /\ place = "buildWrite"
           \/ job[o].at = "sampleBuild" /\ place = "samplePersist"
    PROVE  BringsInv' /\ UNCHANGED <<vocab, tangled>>
<1>1. /\ job'[o].at = place /\ job'[o].docs = job[o].docs /\ job'[o].words = job[o].words
      /\ \A p \in Operators \ {o} :
           /\ job'[p].at = job[p].at /\ job'[p].docs = job[p].docs /\ job'[p].words = job[p].words
  BY DEF Begin, TypeOK, Jobs
<1>2. Brings(job'[o])
  BY <1>1 DEF BringsInv, Brings
<1> QED BY <1>1, <1>2, BringsStep DEF Begin

\* A commit is a write of the table.
LEMMA WriteStep ==
    ASSUME IndexInv, BringsInv, NEW o \in Operators, Writing(o), NEW own \in CorpusTexts,
           NEW next \in Jobs, next.at \in {"idle", "recreate"}, Commit(o, Numbering(own), next)
    PROVE  /\ BringsInv'
           /\ \E kept \in SUBSET (DOMAIN vocab \ own) : Table!Write(own, kept)
<1>1. /\ job'[o] = next
      /\ \A p \in Operators \ {o} :
           /\ job'[p].at = job[p].at /\ job'[p].docs = job[p].docs /\ job'[p].words = job[p].words
  BY DEF Commit, IndexInv, TypeOK, Jobs
<1>2. BringsInv'
  BY <1>1, BringsStep DEF Brings, IndexInv
<1> DEFINE kept == (DOMAIN vocab \ job[o].doomed) \ own
<1>3. /\ DOMAIN Numbering(own) = own
      /\ \A t \in own : Numbering(own)[t] = Table!Rank(t, own)
  <2>1. Numbering(own) = [t \in own |-> Table!Rank(t, own)]
    BY DEF Numbering, Table!Rank, Cardinality, Table!Cardinality
  <2> QED BY <2>1
<1>4. vocab' = [t \in own \cup kept |-> IF t \in own THEN Table!Rank(t, own) ELSE vocab[t]]
  <2>1. /\ DOMAIN Without(vocab, job[o].doomed) = DOMAIN vocab \ job[o].doomed
        /\ \A t \in DOMAIN vocab \ job[o].doomed : Without(vocab, job[o].doomed)[t] = vocab[t]
    BY DEF Without
  <2>2. (DOMAIN vocab \ job[o].doomed) \cup own = own \cup kept
    OBVIOUS
  <2> QED BY <1>3, <2>1, <2>2 DEF Commit, With
<1>5. tangled' = job[o].company /\ tangled' \in BOOLEAN
  BY DEF Commit, IndexInv, TypeOK, Jobs
<1>6. Mode = "rebuild" /\ kept # {} => tangled'
  BY <1>5 DEF IndexInv, WriteInv
<1>7. Table!Write(own, kept)
  BY <1>4, <1>5, <1>6 DEF Table!Write
<1> QED BY <1>2, <1>7

LEMMA TableStep ==
    ASSUME IndexInv, BringsInv, [Next]_vars
    PROVE  BringsInv' /\ [Table!Next]_<<vocab, tangled>>
<1>0. /\ TypeOK /\ job \in [Operators -> Jobs] /\ corpus \in Corpora
      /\ \A o \in Operators : job[o] \in Jobs /\ job[o].docs \in Corpora
  BY DEF IndexInv, TypeOK, Jobs
<1>a. Idle \in Jobs /\ Idle.at = "idle" /\ DOMAIN Idle = {"at", "docs", "words", "doomed", "company"}
  BY IdleType DEF Idle
<1>1. ASSUME UNCHANGED <<vocab, tangled, job>> PROVE BringsInv' /\ UNCHANGED <<vocab, tangled>>
  BY <1>1 DEF BringsInv, Brings
<1>2. ASSUME NEW o \in Operators, Stop(o) PROVE BringsInv'
  BY <1>0, <1>2, <1>a, PlainStep DEF Stop
<1>3. ASSUME NEW o \in Operators, NEW place \in {"upsert", "recreate", "create", "insert"},
             NEW words, job' = [job EXCEPT ![o] = [job[o] EXCEPT !.at = place, !.words = words]]
      PROVE  BringsInv'
  <2>1. [job[o] EXCEPT !.at = place, !.words = words].at = place
    BY <1>0 DEF Jobs
  <2> QED BY <1>0, <1>3, <2>1, PlainStep
<1>4. ASSUME NEW o \in Operators, NEW place \in {"create", "insert"}, Goto(o, place) PROVE BringsInv'
  <2>1. [job[o] EXCEPT !.at = place].at = place
    BY <1>0 DEF Jobs
  <2> QED BY <1>0, <1>4, <2>1, PlainStep DEF Goto
<1>5. ASSUME NEW o \in Operators, Build(o) PROVE BringsInv' /\ [Table!Next]_<<vocab, tangled>>
  <2>1. CASE BuildRead(o)
    <3> DEFINE task == [Idle EXCEPT !.at = "build", !.words = Numbering(TermsOf(corpus))]
    <3>1. task.at = "build" /\ task.words = Numbering(TermsOf(corpus))
      BY <1>a
    <3>2. TermsOf(corpus) \in CorpusTexts
      BY <1>0, <2>1, CorpusText DEF BuildRead
    <3>3. Brings(task)
      BY <3>1, <3>2 DEF Brings
    <3>4. job' = [job EXCEPT ![o] = task] /\ UNCHANGED <<vocab, tangled>>
      BY <2>1 DEF BuildRead, historyVars
    <3> HIDE DEF task
    <3>5. job'[o] = task /\ \A p \in Operators \ {o} : job'[p] = job[p]
      BY <1>0, <3>4
    <3>6. BringsInv'
      BY <1>0, <3>3, <3>5, BringsStep
    <3> QED BY <3>4, <3>6
  <2>2. CASE BuildBegin(o)
    <3>1. BringsInv' /\ UNCHANGED <<vocab, tangled>>
      BY <1>0, <2>2, OpenStep DEF BuildBegin
    <3> QED BY <3>1
  <2>3. CASE BuildWrite(o)
    <3>1. Writing(o) /\ Commit(o, job[o].words, Idle)
      BY <2>3 DEF BuildWrite, Writing
    <3>2. PICK own \in CorpusTexts : job[o].words = Numbering(own)
      BY <2>3 DEF BuildWrite, BringsInv, Brings
    <3>3. /\ BringsInv'
          /\ \E kept \in SUBSET (DOMAIN vocab \ own) : Table!Write(own, kept)
      BY <1>a, <3>1, <3>2, WriteStep
    <3> QED BY <3>2, <3>3 DEF Table!Next, CorpusTexts
  <2> QED BY <1>5, <2>1, <2>2, <2>3 DEF Build
<1>6. ASSUME NEW o \in Operators, Load(o) PROVE BringsInv' /\ UNCHANGED <<vocab, tangled>>
  <2>1. UNCHANGED <<vocab, tangled>>
    BY <1>6 DEF Load, LoadRead, LoadVocab, LoadUpsert, historyVars
  <2>2. CASE LoadRead(o)
    <3>1. [Idle EXCEPT !.at = "load", !.docs = corpus].at = "load"
      BY <1>a
    <3> QED BY <1>0, <2>1, <2>2, <3>1, PlainStep DEF LoadRead
  <2>3. CASE LoadVocab(o)
    <3>1. \/ Stop(o)
          \/ job' = [job EXCEPT ![o] = [job[o] EXCEPT !.at = "upsert", !.words = vocab]]
      BY <1>0, <2>3 DEF LoadVocab
    <3> QED BY <1>2, <1>3, <2>1, <3>1
  <2>4. CASE LoadUpsert(o)
    BY <1>2, <2>1, <2>4 DEF LoadUpsert
  <2> QED BY <1>6, <2>2, <2>3, <2>4 DEF Load
<1>7. ASSUME NEW o \in Operators, LoadSample(o) PROVE BringsInv' /\ [Table!Next]_<<vocab, tangled>>
  <2>a. ASSUME NEW task, Brings(task), job' = [job EXCEPT ![o] = task] PROVE BringsInv'
    <3>1. job'[o] = task /\ \A p \in Operators \ {o} : job'[p] = job[p]
      BY <1>0, <2>a
    <3> QED BY <1>0, <2>a, <3>1, BringsStep
  <2>1. CASE SampleUpsert(o)
    <3> DEFINE task == [Idle EXCEPT !.at = "sampleLook", !.docs = Sample]
    <3>1. task.at = "sampleLook" /\ task.docs = Sample
      BY <1>a
    <3>2. Brings(task)
      BY <3>1, SampleType, CorpusText, SparseAssumption DEF Brings
    <3>3. job' = [job EXCEPT ![o] = task] /\ UNCHANGED <<vocab, tangled>>
      BY <2>1 DEF SampleUpsert, historyVars
    <3> HIDE DEF task
    <3> QED BY <2>a, <3>2, <3>3
  <2>2. CASE SampleLook(o)
    <3> DEFINE task == [job[o] EXCEPT !.at = "sampleBuild"]
    <3>1. task.at = "sampleBuild" /\ task.docs = job[o].docs /\ task.words = job[o].words
      BY <1>0 DEF Jobs
    <3>2. Brings(task)
      BY <2>2, <3>1 DEF SampleLook, BringsInv, Brings
    <3>3. UNCHANGED <<vocab, tangled>>
      BY <2>2 DEF SampleLook, historyVars
    <3>4. \/ job' = [job EXCEPT ![o] = [job[o] EXCEPT !.at = "recreate", !.words = vocab]]
          \/ job' = [job EXCEPT ![o] = task]
      BY <1>0, <2>2 DEF SampleLook, Goto
    <3> HIDE DEF task
    <3>5. BringsInv'
      BY <1>3, <2>a, <3>2, <3>4
    <3> QED BY <3>3, <3>5
  <2>3. CASE SampleBegin(o)
    <3>1. BringsInv' /\ UNCHANGED <<vocab, tangled>>
      BY <1>0, <2>3, OpenStep DEF SampleBegin
    <3> QED BY <3>1
  <2>4. CASE SamplePersist(o)
    <3> DEFINE own == TermsOf(job[o].docs)
               next == [job[o] EXCEPT !.at = "recreate", !.words = Numbering(own), !.doomed = {}]
    <3>1. Writing(o) /\ own \in CorpusTexts
      BY <2>4 DEF SamplePersist, Writing, BringsInv, Brings
    <3>2. next \in Jobs /\ next.at = "recreate"
      <4>1. Numbering(own) \in Vocabularies
        BY <3>1, CorpusTextsType, NumberingType
      <4> QED BY <1>0, <4>1 DEF Jobs
    <3>3. \/ Commit(o, Numbering(own), next)
          \/ Stop(o) /\ UNCHANGED <<vocab, tangled>>
      BY <2>4 DEF SamplePersist, historyVars
    <3> HIDE DEF own, next
    <3>4. CASE Commit(o, Numbering(own), next)
      <4>1. /\ BringsInv'
            /\ \E kept \in SUBSET (DOMAIN vocab \ own) : Table!Write(own, kept)
        BY <3>1, <3>2, <3>4, WriteStep
      <4> QED BY <3>1, <4>1 DEF Table!Next, CorpusTexts
    <3> QED BY <1>2, <3>3, <3>4
  <2>5. CASE SampleDrop(o) \/ SampleCreate(o) \/ SampleInsert(o)
    <3>1. UNCHANGED <<vocab, tangled>> /\ (Stop(o) \/ \E place \in {"create", "insert"} : Goto(o, place))
      BY <2>5 DEF SampleDrop, SampleCreate, SampleInsert, historyVars
    <3> QED BY <1>2, <1>4, <3>1
  <2> QED BY <1>7, <2>1, <2>2, <2>3, <2>4, <2>5 DEF LoadSample
<1>8. ASSUME NEW o \in Operators, JobBreaks(o) PROVE BringsInv' /\ UNCHANGED <<vocab, tangled>>
  BY <1>2, <1>8 DEF JobBreaks, historyVars
<1>9. CASE EditCorpus \/ InitCollection \/ FirstSearch \/ ServerRestarts
  BY <1>1, <1>9 DEF EditCorpus, InitCollection, FirstSearch, ServerRestarts, historyVars
<1>10. CASE UNCHANGED vars
  BY <1>1, <1>10 DEF vars, historyVars
<1> QED BY <1>5, <1>6, <1>7, <1>8, <1>9, <1>10 DEF Next

\* To its readers every write of the vocabulary is the numbering of a whole corpus
\* put in at once, whichever scripts break off, overlap or conflict.
THEOREM TableIsWrittenWhole == Spec => ImplementsTable
<1>1. Init => Table!Init
  BY DEF Init, Nothing, Table!Init
<1> QED BY <1>1, IndexInit, IndexNext, BringsInit, TableStep, PTL
        DEF Spec, ImplementsTable, Table!Spec
=============================================================================
