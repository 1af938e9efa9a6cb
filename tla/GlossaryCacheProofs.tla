-------------------------- MODULE GlossaryCacheProofs --------------------------
(***************************************************************************)
(* What readers of the term dictionary may rely on, for any number of      *)
(* threads that load it and read it at the same time and for every history *)
(* of the tables.                                                          *)
(***************************************************************************)
EXTENDS GlossaryCache, TLAPS, WellFoundedInduction

-----------------------------------------------------------------------------
(* The maps a load builds *)

LEMMA MinFact ==
    ASSUME NEW S \in SUBSET Nat, S # {}
    PROVE  Min(S) \in S /\ \A y \in S : Min(S) <= y
<1>1. PICK x \in S : \A y \in S : <<y, x>> \notin OpToRel(<, Nat)
  BY NatLessThanWellFounded, WFMin
<1>2. \A y \in S : ~(y < x)
  BY <1>1, Zenon DEF OpToRel
<1>3. \A y \in S : x <= y
  BY <1>2
<1> QED BY <1>3 DEF Min

\* The maps hold words, descriptions and groups of words of the tables.
LEMMA MapTypes ==
    ASSUME NEW db \in Dictionaries
    PROVE  /\ \A w \in DOMAIN DescOf(db) : DescOf(db)[w] \in Descriptions
           /\ \A f \in DOMAIN TermOf(db) : TermOf(db)[f] \in Words
           /\ \A n \in DOMAIN GroupOf(db) : n \in Nat /\ GroupOf(db)[n] \subseteq Words
<1>1. DOMAIN db \subseteq Nat /\ \A i \in DOMAIN db : db[i].word \in Words /\ db[i].no \in Nat
  BY GlossaryAssumption
<1>2. \A i \in DOMAIN db : db[i].desc \in Descriptions
  BY DEF Descriptions
<1>3. ASSUME NEW w \in DOMAIN DescOf(db)
      PROVE  DescOf(db)[w] \in Descriptions
  <2> DEFINE own == {i \in DOMAIN db : db[i].word = w}
  <2>1. own # {} /\ own \in SUBSET Nat
    BY <1>1 DEF DescOf, Listed
  <2>2. Min(own) \in own
    BY <2>1, MinFact
  <2>3. DescOf(db)[w] = db[Min(own)].desc
    BY DEF DescOf
  <2> QED BY <1>2, <2>2, <2>3
<1>4. ASSUME NEW f \in DOMAIN TermOf(db)
      PROVE  TermOf(db)[f] \in Words
  <2> DEFINE own == {i \in DOMAIN db : NormalForm[db[i].word] = f}
  <2>1. own # {} /\ own \in SUBSET Nat
    BY <1>1 DEF TermOf, Listed
  <2>2. Min(own) \in own
    BY <2>1, MinFact
  <2>3. TermOf(db)[f] = db[Min(own)].word
    BY DEF TermOf
  <2> QED BY <1>1, <2>2, <2>3
<1>5. ASSUME NEW n \in DOMAIN GroupOf(db)
      PROVE  n \in Nat /\ GroupOf(db)[n] \subseteq Words
  <2>1. n \in {db[i].no : i \in DOMAIN db}
    BY DEF GroupOf
  <2>2. GroupOf(db)[n] = {db[i].word : i \in {j \in DOMAIN db : db[j].no = n}}
    BY <2>1 DEF GroupOf
  <2> QED BY <1>1, <2>1, <2>2
<1> QED BY <1>3, <1>4, <1>5

-----------------------------------------------------------------------------
(* Type correctness *)

\* The tables hold what is on record, and a thread that assigns read it from them.
Reading ==
    /\ dictionary \in seen
    /\ \A t \in Threads :
          pc[t] \in {"setDescs", "setTerms", "setGroups", "setTime"} => rows[t] \in seen

LEMMA CachedTypes ==
    ASSUME TypeOK
    PROVE  /\ \A w : Description(w) \in Descriptions \cup {""}
           /\ \A f \in DOMAIN normalizedToTerm : normalizedToTerm[f] \in Words
           /\ \A n \in DOMAIN groupToTerms : n \in Nat /\ groupToTerms[n] \subseteq Words
<1>1. DOMAIN Empty = {}
  BY DEF Empty
<1>2. \A w \in DOMAIN termToDesc : termToDesc[w] \in Descriptions
  BY <1>1, MapTypes DEF TypeOK
<1>3. \A f \in DOMAIN normalizedToTerm : normalizedToTerm[f] \in Words
  BY <1>1, MapTypes DEF TypeOK
<1>4. \A n \in DOMAIN groupToTerms : n \in Nat /\ groupToTerms[n] \subseteq Words
  BY <1>1, MapTypes DEF TypeOK
<1> QED BY <1>2, <1>3, <1>4 DEF Description

LEMMA InitTypes == Init => TypeOK /\ Reading
<1> SUFFICES ASSUME Init PROVE TypeOK /\ Reading
  OBVIOUS
<1>1. /\ termToDesc \in {DescOf(db) : db \in Dictionaries} \cup {Empty}
      /\ normalizedToTerm \in {TermOf(db) : db \in Dictionaries} \cup {Empty}
      /\ groupToTerms \in {GroupOf(db) : db \in Dictionaries} \cup {Empty}
      /\ expired \in BOOLEAN
  BY DEF Init
<1>2. edits \in 0..MaxEdits
  BY GlossaryAssumption DEF Init
<1> QED BY <1>1, <1>2 DEF Init, TypeOK, Reading

\* The loads keep the types,
LEMMA LoadTypes ==
    ASSUME TypeOK, Reading, NEW t \in Threads,
           RefreshIfNeeded(t) \/ LoadRead(t) \/ LoadFails(t) \/ Load(t)
    PROVE  TypeOK' /\ Reading'
<1> USE DEF TypeOK, Reading, Goto, cacheVars, readerVars, historyVars, Loads, Reads
<1>1. CASE RefreshIfNeeded(t)
  BY <1>1 DEF RefreshIfNeeded
<1>2. CASE LoadRead(t)
  BY <1>2 DEF LoadRead
<1>3. CASE LoadFails(t)
  BY <1>3 DEF LoadFails, Forget
<1>4. CASE SetDescs(t)
  BY <1>4 DEF SetDescs
<1>5. CASE SetTerms(t)
  BY <1>5 DEF SetTerms
<1>6. CASE SetGroups(t)
  BY <1>6 DEF SetGroups
<1>7. CASE SetTime(t)
  BY <1>7 DEF SetTime
<1> QED BY <1>1, <1>2, <1>3, <1>4, <1>5, <1>6, <1>7 DEF Load

\* A reader moves on with what it has found.
LEMMA ReadStepTypes ==
    ASSUME TypeOK, Reading, NEW t \in Threads, NEW place \in {"idle", "load"} \cup Reads,
           pc' = [pc EXCEPT ![t] = place],
           UNCHANGED <<dictionary, cacheVars, rows, resume, historyVars, overlapped>>,
           asked' \in [Threads -> Questions \cup {{}}],
           todo' \in [Threads -> SUBSET Words],
           found' \in [Threads -> SUBSET [word : Words, desc : Descriptions \cup {""}]],
           synonyms' \in [Threads -> SUBSET (Words \X Words)]
    PROVE  TypeOK' /\ Reading'
<1>1. pc' \in [Threads -> {"idle"} \cup Loads \cup Reads]
  BY DEF TypeOK, Loads
<1>2. Reading'
  BY DEF Reading, TypeOK, historyVars, Reads
<1>3. TypeOK'
  BY <1>1 DEF TypeOK, cacheVars, historyVars
<1> QED BY <1>2, <1>3

\* So the readers keep the types,
LEMMA ReadTypes ==
    ASSUME TypeOK, Reading, NEW t \in Threads, Ask(t) \/ Extract(t) \/ Expand(t)
    PROVE  TypeOK' /\ Reading'
<1> USE DEF Goto
<1>0. /\ asked \in [Threads -> Questions \cup {{}}] /\ todo \in [Threads -> SUBSET Words]
      /\ found \in [Threads -> SUBSET [word : Words, desc : Descriptions \cup {""}]]
      /\ synonyms \in [Threads -> SUBSET (Words \X Words)]
  BY DEF TypeOK
<1>1. CASE Ask(t)
  BY <1>0, <1>1, ReadStepTypes DEF Ask, Reads
<1>2. CASE Match(t)
  <2>1. {normalizedToTerm[f] : f \in asked[t] \cap DOMAIN normalizedToTerm} \subseteq Words
    BY CachedTypes
  <2>2. \A some \in Matches(t) : some \in SUBSET Words
    BY <2>1 DEF Matches
  <2>3. todo' \in [Threads -> SUBSET Words]
    BY <1>0, <1>2, <2>2 DEF Match
  <2>4. /\ pc' = [pc EXCEPT ![t] = "describe"]
        /\ UNCHANGED <<dictionary, cacheVars, rows, resume, asked, found, synonyms, historyVars, overlapped>>
    BY <1>2 DEF Match
  <2> QED BY <1>0, <2>3, <2>4, ReadStepTypes DEF Reads
<1>3. CASE Describe(t)
  <2>1. PICK w \in todo[t] :
          /\ found' = [found EXCEPT ![t] = @ \cup {[word |-> w, desc |-> Description(w)]}]
          /\ todo' = [todo EXCEPT ![t] = @ \ {w}]
    BY <1>3 DEF Describe
  <2>2. [word |-> w, desc |-> Description(w)] \in [word : Words, desc : Descriptions \cup {""}]
    BY <1>0, CachedTypes
  <2>3. /\ found' \in [Threads -> SUBSET [word : Words, desc : Descriptions \cup {""}]]
        /\ todo' \in [Threads -> SUBSET Words]
    BY <1>0, <2>1, <2>2
  <2>4. pc' = [pc EXCEPT ![t] = "describe"]
    BY <1>3 DEF Describe, TypeOK
  <2> QED BY <1>0, <1>3, <2>3, <2>4, ReadStepTypes DEF Describe, Reads
<1>4. CASE Extracted(t)
  <2>1. {item.word : item \in found[t]} \in SUBSET Words
    <3>1. found[t] \subseteq [word : Words, desc : Descriptions \cup {""}]
      BY <1>0
    <3>2. \A item \in [word : Words, desc : Descriptions \cup {""}] : item.word \in Words
      OBVIOUS
    <3> QED BY <3>1, <3>2
  <2>2. todo' \in [Threads -> SUBSET Words]
    BY <1>0, <1>4, <2>1 DEF Extracted
  <2> QED BY <1>0, <1>4, <2>2, ReadStepTypes DEF Extracted, Reads
<1>5. CASE GetSynonyms(t)
  BY <1>0, <1>5, ReadStepTypes DEF GetSynonyms, Reads, readerVars
<1>6. CASE Finish(t)
  BY <1>0, <1>6, ReadStepTypes DEF Finish, Forget
<1>7. CASE DescribeAgain(t)
  <2>1. PICK w \in todo[t] :
          \/ todo' = [todo EXCEPT ![t] = @ \ {w}] /\ pc' = [pc EXCEPT ![t] = "next"]
          \/ pc' = [pc EXCEPT ![t] = "group"] /\ todo' = todo
    BY <1>7 DEF DescribeAgain
  <2>2. todo' \in [Threads -> SUBSET Words]
    BY <1>0, <2>1
  <2> QED BY <1>0, <1>7, <2>1, <2>2, ReadStepTypes DEF DescribeAgain, Reads
<1>8. CASE Group(t)
  <2>1. PICK w \in todo[t] :
          /\ synonyms' = [synonyms EXCEPT ![t] = @ \cup {<<w, s>> : s \in Fellows(groupToTerms, w)}]
          /\ todo' = [todo EXCEPT ![t] = @ \ {w}]
    BY <1>8 DEF Group
  <2>2. w \in Words /\ Fellows(groupToTerms, w) \subseteq Words
    <3> DEFINE own == {n \in DOMAIN groupToTerms : w \in groupToTerms[n]}
    <3>1. own \in SUBSET Nat
      BY CachedTypes
    <3>2. own # {} => Min(own) \in DOMAIN groupToTerms
      BY <3>1, MinFact
    <3> QED BY <1>0, <3>2, CachedTypes DEF Fellows
  <2>3. {<<w, s>> : s \in Fellows(groupToTerms, w)} \in SUBSET (Words \X Words)
    BY <2>2
  <2>4. synonyms' \in [Threads -> SUBSET (Words \X Words)] /\ todo' \in [Threads -> SUBSET Words]
    BY <1>0, <2>1, <2>3
  <2>5. /\ pc' = [pc EXCEPT ![t] = "next"]
        /\ UNCHANGED <<dictionary, cacheVars, rows, resume, asked, found, historyVars, overlapped>>
    BY <1>8 DEF Group
  <2>6. /\ asked' \in [Threads -> Questions \cup {{}}]
        /\ found' \in [Threads -> SUBSET [word : Words, desc : Descriptions \cup {""}]]
    BY <1>0, <2>5
  <2> QED BY <2>4, <2>5, <2>6, ReadStepTypes DEF Reads
<1> QED BY <1>1, <1>2, <1>3, <1>4, <1>5, <1>6, <1>7, <1>8 DEF Extract, Expand

\* and so does what goes on around them.
LEMMA NextTypes == TypeOK /\ Reading /\ [Next]_vars => TypeOK' /\ Reading'
<1> SUFFICES ASSUME TypeOK, Reading, [Next]_vars PROVE TypeOK' /\ Reading'
  OBVIOUS
<1> USE DEF TypeOK, Reading, cacheVars, readerVars, historyVars
<1>1. CASE EditDictionary
  <2>1. edits' \in 0..MaxEdits
    <3>1. MaxEdits \in Nat
      BY GlossaryAssumption
    <3>2. edits \in 0..MaxEdits /\ edits < MaxEdits /\ edits' = edits + 1
      BY <1>1 DEF EditDictionary
    <3> HIDE DEF TypeOK, Reading
    <3> QED BY <3>1, <3>2
  <2>2. dictionary' \in Dictionaries /\ seen' \subseteq Dictionaries
    BY <1>1 DEF EditDictionary
  <2>3. Reading'
    BY <1>1 DEF EditDictionary
  <2> QED BY <1>1, <2>1, <2>2, <2>3 DEF EditDictionary
<1>2. CASE Expire
  BY <1>2 DEF Expire
<1>3. CASE UNCHANGED vars
  BY <1>3 DEF vars
<1> QED BY <1>1, <1>2, <1>3, LoadTypes, ReadTypes DEF Next, Runs

THEOREM Types == Spec => [](TypeOK /\ Reading)
BY InitTypes, NextTypes, PTL DEF Spec

\* The cache holds the maps of some dictionary, and threads return words with
\* descriptions and synonyms of the tables, whatever loads overlap or fail.
THEOREM CacheKeepsItsTypes == Spec => []TypeOK
BY Types, PTL

-----------------------------------------------------------------------------
(* The index of terms *)

IndexLoaded == \E db \in seen : normalizedToTerm = TermOf(db)

\* Until the first index is assigned the cache holds no groups either, looks empty
\* or has a load between its first two assignments, and only then is it read.
IndexKnown ==
    /\ \/ IndexLoaded
       \/ /\ normalizedToTerm = Empty /\ groupToTerms = Empty
          /\ termToDesc = Empty \/ \E u \in Threads : pc[u] = "setTerms"
          /\ \A t \in Threads : pc[t] = "match" => \E u \in Threads : pc[u] = "setTerms"
    /\ \A t \in Threads : pc[t] \in {"setGroups", "setTime"} => IndexLoaded

LEMMA InitIndex == Init => IndexKnown
BY DEF Init, IndexKnown, IndexLoaded

\* A step that leaves the maps alone, and lets no reader at an index not there.
LEMMA IndexStays ==
    ASSUME IndexKnown, UNCHANGED <<termToDesc, normalizedToTerm, groupToTerms>>, seen \subseteq seen',
           \A u \in Threads : pc[u] = "setTerms" <=> pc'[u] = "setTerms",
           \A u \in Threads : pc'[u] \in {"setGroups", "setTime"} => pc[u] \in {"setGroups", "setTime"},
           \A u \in Threads : pc'[u] = "match" =>
               \/ pc[u] \in {"match", "setTime"}
               \/ termToDesc # Empty
    PROVE  IndexKnown'
<1>1. IndexLoaded => IndexLoaded'
  BY DEF IndexLoaded
<1>2. CASE IndexLoaded
  BY <1>1, <1>2 DEF IndexKnown
<1>3. CASE ~IndexLoaded
  BY <1>3 DEF IndexKnown
<1> QED BY <1>2, <1>3

LEMMA NextIndex == TypeOK /\ Reading /\ IndexKnown /\ [Next]_vars => IndexKnown'
<1> SUFFICES ASSUME TypeOK, Reading, IndexKnown, [Next]_vars PROVE IndexKnown'
  OBVIOUS
<1> USE DEF Goto
<1>0. DOMAIN pc = Threads /\ \A t \in Threads : resume[t] \in {"idle", "match", "describeAgain"}
  BY DEF TypeOK
<1>1. ASSUME NEW t \in Threads, NEW place, pc' = [pc EXCEPT ![t] = place],
             UNCHANGED <<termToDesc, normalizedToTerm, groupToTerms, seen>>,
             pc[t] # "setTerms", place \notin {"setTerms", "setGroups", "setTime"},
             place = "match" => pc[t] = "setTime" \/ termToDesc # Empty
      PROVE  IndexKnown'
  <2>1. \A u \in Threads : pc'[u] = IF u = t THEN place ELSE pc[u]
    BY <1>0, <1>1
  <2> QED BY <1>1, <2>1, IndexStays
<1>2. ASSUME NEW t \in Threads, RefreshIfNeeded(t)
      PROVE  IndexKnown'
  <2>1. PICK place : /\ pc' = [pc EXCEPT ![t] = place] /\ place \in {"load", "match", "describeAgain"}
                     /\ place # "load" => termToDesc # Empty
    BY <1>2 DEF RefreshIfNeeded, MustLoad
  <2> QED BY <1>1, <1>2, <2>1 DEF RefreshIfNeeded, cacheVars, historyVars
<1>3. ASSUME NEW t \in Threads, LoadRead(t) \/ LoadFails(t)
      PROVE  IndexKnown'
  BY <1>1, <1>3 DEF LoadRead, LoadFails, Forget, cacheVars, historyVars
<1>4. ASSUME NEW t \in Threads, SetDescs(t)
      PROVE  IndexKnown'
  <2>1. /\ \A u \in Threads : pc'[u] = IF u = t THEN "setTerms" ELSE pc[u]
        /\ UNCHANGED <<normalizedToTerm, groupToTerms, seen>>
    BY <1>0, <1>4 DEF SetDescs, historyVars
  <2>2. IndexLoaded' <=> IndexLoaded
    BY <2>1 DEF IndexLoaded
  <2> QED BY <2>1, <2>2 DEF IndexKnown
<1>5. ASSUME NEW t \in Threads, SetTerms(t)
      PROVE  IndexKnown'
  <2>1. rows[t] \in seen /\ normalizedToTerm' = TermOf(rows[t]) /\ seen' = seen
    BY <1>5 DEF SetTerms, Reading, historyVars
  <2>2. IndexLoaded'
    BY <2>1 DEF IndexLoaded
  <2> QED BY <2>2 DEF IndexKnown
<1>6. ASSUME NEW t \in Threads, SetGroups(t) \/ SetTime(t)
      PROVE  IndexKnown'
  <2>1. IndexLoaded
    BY <1>6 DEF SetGroups, SetTime, IndexKnown
  <2>2. IndexLoaded'
    BY <1>6, <2>1 DEF SetGroups, SetTime, IndexLoaded, historyVars
  <2> QED BY <2>2 DEF IndexKnown
<1>7. ASSUME NEW t \in Threads, Ask(t) \/ Extract(t) \/ Expand(t)
      PROVE  IndexKnown'
  <2>1. PICK place : /\ pc' = [pc EXCEPT ![t] = place]
                     /\ place \in {"idle", "extract", "describe", "next", "expand", "group"}
    <3>1. CASE Describe(t)
      BY <1>0, <3>1 DEF Describe, TypeOK
    <3>2. CASE ~Describe(t)
      BY <1>7, <3>2 DEF Ask, Extract, Expand, Match, Extracted, GetSynonyms, Finish, Forget,
                        DescribeAgain, Group
    <3> QED BY <3>1, <3>2
  <2>2. /\ UNCHANGED <<termToDesc, normalizedToTerm, groupToTerms, seen>> /\ pc[t] # "setTerms"
    BY <1>7 DEF Ask, Extract, Expand, Match, Describe, Extracted, GetSynonyms, Finish,
                DescribeAgain, Group, cacheVars, historyVars
  <2> QED BY <1>1, <2>1, <2>2
<1>8. CASE EditDictionary \/ Expire \/ UNCHANGED vars
  BY <1>8, IndexStays DEF EditDictionary, Expire, vars, cacheVars, historyVars
<1> QED BY <1>2, <1>3, <1>4, <1>5, <1>6, <1>7, <1>8 DEF Next, Runs, Load

THEOREM Index == Spec => []IndexKnown
BY InitIndex, NextIndex, Types, PTL DEF Spec

\* A term every state of the tables has had is found, but in the one gap.
THEOREM KnownTermsAreFound == Spec => []AlwaysKnownTerms
<1>1. IndexKnown => AlwaysKnownTerms
  <2> SUFFICES ASSUME IndexKnown, NEW t \in Threads, pc[t] = "match"
               PROVE  \/ asked[t] \cap AlwaysKnown \subseteq DOMAIN normalizedToTerm
                      \/ /\ normalizedToTerm = Empty /\ groupToTerms = Empty
                         /\ \E u \in Threads \ {t} : pc[u] = "setTerms"
    BY DEF AlwaysKnownTerms
  <2>1. CASE IndexLoaded
    BY <2>1 DEF IndexLoaded, AlwaysKnown
  <2>2. CASE ~IndexLoaded
    BY <2>2 DEF IndexKnown
  <2> QED BY <2>1, <2>2
<1> QED BY <1>1, Index, PTL

-----------------------------------------------------------------------------
(* The three maps together *)

Whole == Unloaded \/ \E db \in seen : Is(db)

\* Without overlap one thread at most assigns, and what it has assigned is of the
\* rows it has read.
WholeKnown ==
    ~overlapped =>
        /\ \A t, u \in Threads : Assigning(t) /\ Assigning(u) => t = u
        /\ \A t \in Threads : Assigning(t) => termToDesc = DescOf(rows[t])
        /\ \A t \in Threads : pc[t] \in {"setGroups", "setTime"} =>
                                normalizedToTerm = TermOf(rows[t])
        /\ \A t \in Threads : pc[t] = "setTime" => groupToTerms = GroupOf(rows[t])
        /\ (\A t \in Threads : ~Assigning(t)) => Whole

LEMMA InitWhole == Init => WholeKnown
BY DEF Init, WholeKnown, Whole, Unloaded, Is, Assigning

\* A step that assigns nothing keeps the maps whole.
LEMMA WholeStays ==
    ASSUME WholeKnown, UNCHANGED <<termToDesc, normalizedToTerm, groupToTerms, overlapped>>,
           seen \subseteq seen',
           \A u \in Threads : \/ pc'[u] = pc[u] /\ rows'[u] = rows[u]
                              \/ ~Assigning(u) /\ ~Assigning(u)'
    PROVE  WholeKnown'
<1> SUFFICES ASSUME ~overlapped PROVE WholeKnown'
  BY DEF WholeKnown
<1>1. \A u \in Threads : Assigning(u)' <=> Assigning(u)
  BY DEF Assigning
<1>2. \A u \in Threads : Assigning(u) => pc'[u] = pc[u] /\ rows'[u] = rows[u]
  OBVIOUS
<1>3. \A u \in Threads : pc'[u] \in {"setGroups", "setTime"} => Assigning(u)
  BY <1>1 DEF Assigning
<1>4. Whole => Whole'
  BY DEF Whole, Unloaded, Is
<1> QED BY <1>1, <1>2, <1>3, <1>4 DEF WholeKnown

LEMMA NextWhole == TypeOK /\ Reading /\ WholeKnown /\ [Next]_vars => WholeKnown'
<1> SUFFICES ASSUME TypeOK, Reading, WholeKnown, [Next]_vars PROVE WholeKnown'
  OBVIOUS
<1> USE DEF Goto
<1>0. DOMAIN pc = Threads /\ DOMAIN rows = Threads
      /\ \A t \in Threads : resume[t] \in {"idle", "match", "describeAgain"}
  BY DEF TypeOK
<1>1. ASSUME NEW t \in Threads, NEW place, pc' = [pc EXCEPT ![t] = place],
             UNCHANGED <<termToDesc, normalizedToTerm, groupToTerms, seen, overlapped>>,
             ~Assigning(t), place \notin {"setTerms", "setGroups", "setTime"},
             \A u \in Threads \ {t} : rows'[u] = rows[u]
      PROVE  WholeKnown'
  <2>1. ~Assigning(t)' /\ \A u \in Threads \ {t} : pc'[u] = pc[u]
    BY <1>0, <1>1 DEF Assigning
  <2> QED BY <1>1, <2>1, WholeStays
<1>2. ASSUME NEW t \in Threads, RefreshIfNeeded(t)
      PROVE  WholeKnown'
  <2>1. PICK place : pc' = [pc EXCEPT ![t] = place] /\ place \in {"load", "match", "describeAgain"}
    BY <1>2 DEF RefreshIfNeeded
  <2> QED BY <1>1, <1>2, <2>1 DEF RefreshIfNeeded, Assigning, cacheVars, historyVars
<1>3. ASSUME NEW t \in Threads, LoadRead(t) \/ LoadFails(t)
      PROVE  WholeKnown'
  <2>1. PICK place : pc' = [pc EXCEPT ![t] = place] /\ place \in {"setDescs", "idle"}
    BY <1>3 DEF LoadRead, LoadFails, Forget
  <2>2. /\ UNCHANGED <<termToDesc, normalizedToTerm, groupToTerms, seen, overlapped>> /\ ~Assigning(t)
        /\ \A u \in Threads \ {t} : rows'[u] = rows[u]
    BY <1>0, <1>3 DEF LoadRead, LoadFails, Assigning, cacheVars, historyVars
  <2> QED BY <1>1, <2>1, <2>2
\* A load that comes upon another is on record; otherwise it is the only one.
<1>4. ASSUME NEW t \in Threads, SetDescs(t)
      PROVE  WholeKnown'
  <2> SUFFICES ASSUME ~overlapped' PROVE WholeKnown'
    BY DEF WholeKnown
  <2>1. /\ \A u \in Threads : ~Assigning(u)
        /\ \A u \in Threads : pc'[u] = IF u = t THEN "setTerms" ELSE pc[u]
        /\ rows' = rows /\ termToDesc' = DescOf(rows[t])
    BY <1>0, <1>4 DEF SetDescs, Assigning
  <2>2. Assigning(t)' /\ \A u \in Threads : Assigning(u)' => u = t
    BY <2>1 DEF Assigning
  <2>3. \A u \in Threads : pc'[u] \notin {"setGroups", "setTime"}
    BY <2>1 DEF Assigning
  <2> QED BY <2>1, <2>2, <2>3 DEF WholeKnown
\* A step of the only thread that assigns, from one assignment to the next.
<1>5. ASSUME NEW t \in Threads, SetTerms(t) \/ SetGroups(t), ~overlapped'
      PROVE  WholeKnown'
  <2>1. /\ ~overlapped /\ rows' = rows /\ Assigning(t) /\ termToDesc' = termToDesc
        /\ \A u \in Threads : u # t => pc'[u] = pc[u]
    BY <1>0, <1>5 DEF SetTerms, SetGroups, Assigning
  <2>2. \A u \in Threads : Assigning(u) => u = t
    BY <2>1 DEF WholeKnown
  <2>3. termToDesc' = DescOf(rows'[t])
    BY <2>1 DEF WholeKnown
  <2>4. \A u \in Threads : pc'[u] \in {"setTerms", "setGroups", "setTime"} => u = t
    BY <2>1, <2>2 DEF Assigning
  <2>5. CASE SetTerms(t)
    <3>1. pc'[t] = "setGroups" /\ normalizedToTerm' = TermOf(rows'[t])
      BY <1>0, <2>1, <2>5 DEF SetTerms
    <3> QED BY <2>3, <2>4, <3>1 DEF WholeKnown, Assigning
  <2>6. CASE SetGroups(t)
    <3>1. /\ pc'[t] = "setTime" /\ normalizedToTerm' = TermOf(rows'[t])
          /\ groupToTerms' = GroupOf(rows'[t])
      BY <1>0, <2>1, <2>6 DEF SetGroups, WholeKnown
    <3> QED BY <2>3, <2>4, <3>1 DEF WholeKnown, Assigning
  <2> QED BY <1>5, <2>5, <2>6
<1>6. ASSUME NEW t \in Threads, SetTime(t), ~overlapped'
      PROVE  WholeKnown'
  <2>1. /\ ~overlapped /\ pc[t] = "setTime" /\ Assigning(t) /\ rows[t] \in seen
        /\ UNCHANGED <<termToDesc, normalizedToTerm, groupToTerms, seen>>
        /\ \A u \in Threads : pc'[u] = IF u = t THEN resume[t] ELSE pc[u]
    BY <1>0, <1>6 DEF SetTime, Assigning, Reading, historyVars
  <2>2. Is(rows[t]) /\ \A u \in Threads : Assigning(u) => u = t
    BY <2>1 DEF WholeKnown, Is
  <2>3. Whole'
    BY <2>1, <2>2 DEF Whole, Is
  <2>4. \A u \in Threads : pc'[u] \notin {"setTerms", "setGroups", "setTime"}
    BY <1>0, <2>1, <2>2 DEF Assigning
  <2> QED BY <2>3, <2>4 DEF WholeKnown, Assigning
<1>7. ASSUME NEW t \in Threads, Ask(t) \/ Extract(t) \/ Expand(t)
      PROVE  WholeKnown'
  <2>1. PICK place : /\ pc' = [pc EXCEPT ![t] = place]
                     /\ place \in {"idle", "extract", "describe", "next", "expand", "group"}
    <3>1. CASE Describe(t)
      BY <1>0, <3>1 DEF Describe, TypeOK
    <3>2. CASE ~Describe(t)
      BY <1>7, <3>2 DEF Ask, Extract, Expand, Match, Extracted, GetSynonyms, Finish, Forget,
                        DescribeAgain, Group
    <3> QED BY <3>1, <3>2
  <2>2. /\ UNCHANGED <<termToDesc, normalizedToTerm, groupToTerms, seen, overlapped, rows>>
        /\ ~Assigning(t)
    BY <1>7 DEF Ask, Extract, Expand, Match, Describe, Extracted, GetSynonyms, Finish,
                DescribeAgain, Group, cacheVars, historyVars, Assigning
  <2> QED BY <1>1, <2>1, <2>2
<1>8. CASE EditDictionary \/ Expire \/ UNCHANGED vars
  BY <1>8, WholeStays DEF EditDictionary, Expire, vars, cacheVars, historyVars
<1>9. ASSUME NEW t \in Threads, SetTerms(t) \/ SetGroups(t) \/ SetTime(t)
      PROVE  WholeKnown'
  <2>1. CASE ~overlapped'
    BY <1>5, <1>6, <1>9, <2>1
  <2>2. CASE overlapped'
    BY <2>2 DEF WholeKnown
  <2> QED BY <2>1, <2>2
<1> QED BY <1>2, <1>3, <1>4, <1>7, <1>8, <1>9 DEF Next, Runs, Load

\* The maps are of one state of the tables as long as no two loads have assigned
\* at the same time, however many threads read them and whichever loads fail.
THEOREM WholeUnlessOverlapped == Spec => []WholeWhenAlone
<1>1. WholeKnown => WholeWhenAlone
  BY DEF WholeKnown, WholeWhenAlone, Whole
<1> QED BY <1>1, InitWhole, NextWhole, Types, PTL DEF Spec

-----------------------------------------------------------------------------
(* What threads answer *)

DescsLoaded == \E db \in seen : termToDesc = DescOf(db)

\* Until descriptions are assigned no thread gets past its load.
MapsKnown ==
    /\ \/ DescsLoaded
       \/ Unloaded /\ \A t \in Threads : pc[t] \in {"idle", "extract", "load", "setDescs"}
    /\ groupToTerms = Empty \/ \E db \in seen : groupToTerms = GroupOf(db)

LEMMA InitMaps == Init => MapsKnown
BY DEF Init, MapsKnown, DescsLoaded, Unloaded

\* A step that assigns neither, and lets no thread on before there are descriptions.
LEMMA MapsStay ==
    ASSUME MapsKnown, UNCHANGED <<termToDesc, groupToTerms>>, seen \subseteq seen',
           DescsLoaded \/ /\ UNCHANGED normalizedToTerm
                          /\ \A u \in Threads :
                               pc'[u] \in {pc[u], "idle", "extract", "load", "setDescs"}
    PROVE  MapsKnown'
<1>1. DescsLoaded => DescsLoaded'
  BY DEF DescsLoaded
<1>2. (groupToTerms = Empty \/ \E db \in seen : groupToTerms = GroupOf(db))'
  BY DEF MapsKnown
<1>3. Unloaded /\ UNCHANGED normalizedToTerm => Unloaded'
  BY DEF Unloaded
<1> QED BY <1>1, <1>2, <1>3 DEF MapsKnown

LEMMA NextMaps == TypeOK /\ Reading /\ MapsKnown /\ [Next]_vars => MapsKnown'
<1> SUFFICES ASSUME TypeOK, Reading, MapsKnown, [Next]_vars PROVE MapsKnown'
  OBVIOUS
<1> USE DEF Goto, cacheVars, historyVars
<1>0. DOMAIN pc = Threads
  BY DEF TypeOK
\* A thread past its load, or past its first assignment, has seen descriptions.
<1>1. ASSUME NEW t \in Threads, pc[t] \notin {"idle", "extract", "load", "setDescs"}
      PROVE  DescsLoaded
  BY <1>1 DEF MapsKnown
<1>2. ASSUME NEW t \in Threads, RefreshIfNeeded(t)
      PROVE  MapsKnown'
  <2>1. CASE DescsLoaded
    BY <1>2, <2>1, MapsStay DEF RefreshIfNeeded
  <2>2. CASE ~DescsLoaded
    <3>1. pc' = [pc EXCEPT ![t] = "load"]
      BY <1>2, <2>2 DEF RefreshIfNeeded, MapsKnown, Unloaded, MustLoad
    <3> QED BY <1>0, <1>2, <3>1, MapsStay DEF RefreshIfNeeded
  <2> QED BY <2>1, <2>2
<1>3. ASSUME NEW t \in Threads, LoadRead(t) \/ LoadFails(t) \/ Ask(t)
      PROVE  MapsKnown'
  <2>1. \A u \in Threads : pc'[u] \in {pc[u], "idle", "extract", "load", "setDescs"}
    BY <1>0, <1>3 DEF LoadRead, LoadFails, Ask, Forget
  <2> QED BY <1>3, <2>1, MapsStay DEF LoadRead, LoadFails, Ask
<1>4. ASSUME NEW t \in Threads, SetDescs(t)
      PROVE  MapsKnown'
  <2>1. /\ rows[t] \in seen /\ termToDesc' = DescOf(rows[t])
        /\ seen' = seen /\ groupToTerms' = groupToTerms
    BY <1>4 DEF SetDescs, Reading
  <2>2. DescsLoaded'
    BY <2>1 DEF DescsLoaded
  <2> QED BY <2>1, <2>2 DEF MapsKnown
<1>5. ASSUME NEW t \in Threads, SetGroups(t)
      PROVE  MapsKnown'
  <2>1. /\ rows[t] \in seen /\ groupToTerms' = GroupOf(rows[t])
        /\ UNCHANGED <<termToDesc, seen>>
    BY <1>5 DEF SetGroups, Reading
  <2>2. DescsLoaded'
    BY <1>1, <1>5, <2>1 DEF SetGroups, DescsLoaded
  <2> QED BY <2>1, <2>2 DEF MapsKnown
<1>6. ASSUME NEW t \in Threads, SetTerms(t) \/ SetTime(t) \/ Extract(t) \/ Expand(t)
      PROVE  MapsKnown'
  <2>1. /\ pc[t] \notin {"idle", "extract", "load", "setDescs"}
        /\ UNCHANGED <<termToDesc, groupToTerms, seen>>
    BY <1>6 DEF SetTerms, SetTime, Extract, Expand, Match, Describe, Extracted, GetSynonyms, Finish,
                DescribeAgain, Group
  <2> QED BY <1>1, <2>1, MapsStay
<1>7. CASE EditDictionary \/ Expire \/ UNCHANGED vars
  BY <1>7, MapsStay DEF EditDictionary, Expire, vars
<1> QED BY <1>2, <1>3, <1>4, <1>5, <1>6, <1>7 DEF Next, Runs, Load

\* The index leads to listed words that have the normal form looked for.
LEMMA TermFact ==
    ASSUME NEW db \in Dictionaries, NEW f \in DOMAIN TermOf(db)
    PROVE  TermOf(db)[f] \in Listed(db) /\ NormalForm[TermOf(db)[f]] = f
<1> DEFINE own == {i \in DOMAIN db : NormalForm[db[i].word] = f}
<1>1. own # {} /\ own \in SUBSET Nat
  BY GlossaryAssumption DEF TermOf, Listed
<1>2. Min(own) \in own
  BY <1>1, MinFact
<1>3. TermOf(db)[f] = db[Min(own)].word
  BY DEF TermOf
<1> QED BY <1>2, <1>3 DEF Listed

FoundTrue(t) == \A item \in found[t] :
    /\ NormalForm[item.word] \in asked[t]
    /\ \E db \in seen : item.word \in Listed(db)
    /\ \E db \in seen : item.desc = Said(db, item.word)
ExpandedTrue(t) == \A pair \in synonyms[t] :
    /\ pair[1] # pair[2] /\ \E item \in found[t] : item.word = pair[1]
    /\ \E db \in seen : \E n \in DOMAIN GroupOf(db) : {pair[1], pair[2]} \subseteq GroupOf(db)[n]

\* Words to be described are in the question and were listed; words to be expanded
\* were found; and a thread that loads has somewhere to go on.
Answering(t) ==
    /\ pc[t] = "idle" => found[t] = {} /\ synonyms[t] = {}
    /\ pc[t] \in Loads => resume[t] # "idle"
    /\ pc[t] = "describe" =>
         \A w \in todo[t] : NormalForm[w] \in asked[t] /\ \E db \in seen : w \in Listed(db)
    /\ pc[t] # "describe" => \A w \in todo[t] : \E item \in found[t] : item.word = w
    /\ FoundTrue(t) /\ ExpandedTrue(t)

AnswersKnown == \A t \in Threads : Answering(t)

LEMMA InitAnswers == Init => AnswersKnown
BY DEF Init, AnswersKnown, Answering, FoundTrue, ExpandedTrue, Loads

\* A thread that holds on to what it has, wherever it goes but back to its start.
LEMMA AnswerStays ==
    ASSUME NEW t \in Threads, Answering(t), seen \subseteq seen',
           asked'[t] = asked[t], todo'[t] = todo[t], found'[t] = found[t],
           synonyms'[t] = synonyms[t],
           \/ pc'[t] = pc[t] /\ resume'[t] = resume[t]
           \/ /\ pc[t] # "describe" /\ pc'[t] \notin {"describe", "idle"}
              /\ pc'[t] \in Loads => resume'[t] # "idle"
    PROVE  Answering(t)'
<1>1. FoundTrue(t)' /\ ExpandedTrue(t)'
  BY DEF Answering, FoundTrue, ExpandedTrue
<1> QED BY <1>1 DEF Answering

\* The loads leave a thread's answer alone, or drop it with the request.
LEMMA LoadAnswers ==
    ASSUME TypeOK, AnswersKnown, NEW t \in Threads,
           RefreshIfNeeded(t) \/ LoadRead(t) \/ LoadFails(t) \/ Load(t) \/ Finish(t)
    PROVE  AnswersKnown'
<1> USE DEF Goto, readerVars, historyVars, Loads
<1>0. /\ DOMAIN pc = Threads /\ DOMAIN resume = Threads /\ DOMAIN todo = Threads
      /\ DOMAIN found = Threads /\ DOMAIN synonyms = Threads /\ DOMAIN asked = Threads
      /\ resume[t] \in {"idle", "match", "describeAgain"}
  BY DEF TypeOK
<1>1. seen' = seen
  BY DEF RefreshIfNeeded, LoadRead, LoadFails, Load, SetDescs, SetTerms, SetGroups, SetTime, Finish
<1>2. ASSUME NEW u \in Threads, u # t
      PROVE  Answering(u)'
  <2>1. /\ pc'[u] = pc[u] /\ resume'[u] = resume[u] /\ asked'[u] = asked[u] /\ todo'[u] = todo[u]
        /\ found'[u] = found[u] /\ synonyms'[u] = synonyms[u]
    BY <1>0, <1>2 DEF RefreshIfNeeded, LoadRead, LoadFails, Load, SetDescs, SetTerms, SetGroups,
                      SetTime, Finish, Forget
  <2> QED BY <1>1, <2>1, AnswerStays DEF AnswersKnown
<1>3. CASE RefreshIfNeeded(t) \/ LoadRead(t) \/ SetDescs(t) \/ SetTerms(t) \/ SetGroups(t)
  <2>1. UNCHANGED readerVars /\ pc[t] # "describe" /\ pc'[t] \notin {"describe", "idle"}
    BY <1>0, <1>3 DEF RefreshIfNeeded, LoadRead, SetDescs, SetTerms, SetGroups
  <2>2. pc'[t] \in Loads => resume'[t] # "idle"
    BY <1>0, <1>3 DEF RefreshIfNeeded, LoadRead, SetDescs, SetTerms, SetGroups, AnswersKnown,
                      Answering
  <2> QED BY <1>1, <1>2, <2>1, <2>2, AnswerStays DEF AnswersKnown
<1>4. CASE SetTime(t)
  <2>1. UNCHANGED readerVars /\ pc[t] # "describe" /\ pc'[t] \in {"match", "describeAgain"}
    BY <1>0, <1>4 DEF SetTime, AnswersKnown, Answering
  <2> QED BY <1>1, <1>2, <2>1, AnswerStays DEF AnswersKnown
<1>5. CASE LoadFails(t) \/ Finish(t)
  <2>1. /\ pc'[t] = "idle" /\ todo'[t] = {} /\ found'[t] = {} /\ synonyms'[t] = {}
    BY <1>0, <1>5 DEF LoadFails, Finish, Forget
  <2>2. Answering(t)'
    BY <2>1 DEF Answering, FoundTrue, ExpandedTrue
  <2> QED BY <1>2, <2>2 DEF AnswersKnown
<1> QED BY <1>3, <1>4, <1>5 DEF Load

\* A step of one reader.
LEMMA OneAnswer ==
    ASSUME TypeOK, AnswersKnown, NEW t \in Threads, NEW place, NEW question, NEW left, NEW items,
           NEW pairs, pc' = [pc EXCEPT ![t] = place], asked' = [asked EXCEPT ![t] = question],
           todo' = [todo EXCEPT ![t] = left], found' = [found EXCEPT ![t] = items],
           synonyms' = [synonyms EXCEPT ![t] = pairs], UNCHANGED <<resume, seen>>,
           Answering(t)'
    PROVE  AnswersKnown'
<1>1. ASSUME NEW u \in Threads, u # t
      PROVE  Answering(u)'
  <2>1. /\ pc'[u] = pc[u] /\ resume'[u] = resume[u] /\ asked'[u] = asked[u] /\ todo'[u] = todo[u]
        /\ found'[u] = found[u] /\ synonyms'[u] = synonyms[u] /\ seen' = seen
    BY <1>1 DEF TypeOK
  <2> QED BY <2>1, AnswerStays DEF AnswersKnown
<1> QED BY <1>1 DEF AnswersKnown

\* What a thread finds is what an index and the descriptions say of its question.
LEMMA ExtractAnswers ==
    ASSUME TypeOK, IndexKnown, MapsKnown, AnswersKnown, NEW t \in Threads, Ask(t) \/ Extract(t)
    PROVE  AnswersKnown'
<1> USE DEF Goto, cacheVars, historyVars, Loads
<1>0. /\ DOMAIN pc = Threads /\ DOMAIN resume = Threads /\ DOMAIN todo = Threads
      /\ DOMAIN found = Threads /\ DOMAIN synonyms = Threads /\ DOMAIN asked = Threads
      /\ seen \subseteq Dictionaries
  BY DEF TypeOK
<1>a. Answering(t)
  BY DEF AnswersKnown
<1>e. /\ asked = [asked EXCEPT ![t] = asked[t]] /\ todo = [todo EXCEPT ![t] = todo[t]]
      /\ found = [found EXCEPT ![t] = found[t]] /\ synonyms = [synonyms EXCEPT ![t] = synonyms[t]]
      /\ pc = [pc EXCEPT ![t] = pc[t]]
  BY DEF TypeOK
<1>1. CASE Ask(t)
  <2>1. PICK question : asked' = [asked EXCEPT ![t] = question]
    BY <1>1 DEF Ask
  <2>2. found[t] = {} /\ synonyms[t] = {} /\ todo[t] = {}
    BY <1>1, <1>a DEF Ask, Answering
  <2>3. /\ pc' = [pc EXCEPT ![t] = "extract"]
        /\ UNCHANGED <<todo, found, synonyms, resume, seen>>
    BY <1>1 DEF Ask
  <2>4. Answering(t)'
    BY <1>0, <2>2, <2>3 DEF Answering, FoundTrue, ExpandedTrue
  <2>5. /\ todo' = [todo EXCEPT ![t] = todo[t]] /\ found' = [found EXCEPT ![t] = found[t]]
        /\ synonyms' = [synonyms EXCEPT ![t] = synonyms[t]]
    BY <1>e, <2>3
  <2> QED BY <2>1, <2>3, <2>4, <2>5, OneAnswer
<1>2. CASE Match(t)
  <2>1. PICK some \in Matches(t) : todo' = [todo EXCEPT ![t] = some]
    BY <1>2 DEF Match
  <2>2. /\ pc' = [pc EXCEPT ![t] = "describe"]
        /\ UNCHANGED <<asked, found, synonyms, resume, seen>>
    BY <1>2 DEF Match
  <2>3. ASSUME NEW w \in some
        PROVE  NormalForm[w] \in asked[t] /\ \E db \in seen : w \in Listed(db)
    <3>1. PICK f \in asked[t] \cap DOMAIN normalizedToTerm : w = normalizedToTerm[f]
      BY DEF Matches
    <3>2. DOMAIN normalizedToTerm # {}
      BY <3>1
    <3>3. PICK db \in seen : normalizedToTerm = TermOf(db)
      BY <3>2 DEF IndexKnown, IndexLoaded, Empty
    <3> QED BY <1>0, <3>1, <3>3, TermFact
  <2>4. Answering(t)'
    BY <1>0, <1>a, <2>1, <2>2, <2>3 DEF Answering, FoundTrue, ExpandedTrue
  <2>5. /\ asked' = [asked EXCEPT ![t] = asked[t]] /\ found' = [found EXCEPT ![t] = found[t]]
        /\ synonyms' = [synonyms EXCEPT ![t] = synonyms[t]]
    BY <1>e, <2>2
  <2> QED BY <2>1, <2>2, <2>4, <2>5, OneAnswer
<1>3. CASE Describe(t)
  <2> DEFINE item(w) == [word |-> w, desc |-> Description(w)]
  <2>1. PICK w \in todo[t] : /\ found' = [found EXCEPT ![t] = found[t] \cup {item(w)}]
                             /\ todo' = [todo EXCEPT ![t] = todo[t] \ {w}]
    BY <1>3 DEF Describe
  <2>2. UNCHANGED <<pc, asked, synonyms, resume, seen>> /\ pc[t] = "describe"
    BY <1>3 DEF Describe
  <2>3. PICK db \in seen : termToDesc = DescOf(db)
    BY <2>2 DEF MapsKnown, DescsLoaded
  <2>4. Description(w) = Said(db, w)
    BY <2>3 DEF Description, Said, DescOf
  <2>5. /\ NormalForm[item(w).word] \in asked[t] /\ \E d \in seen : item(w).word \in Listed(d)
        /\ \E d \in seen : item(w).desc = Said(d, item(w).word)
    BY <1>a, <2>2, <2>4 DEF Answering
  <2> HIDE DEF item
  <2>6. found'[t] = found[t] \cup {item(w)} /\ todo'[t] = todo[t] \ {w}
    BY <1>0, <2>1
  <2>7. FoundTrue(t)' /\ ExpandedTrue(t)'
    BY <1>a, <2>2, <2>5, <2>6 DEF Answering, FoundTrue, ExpandedTrue
  <2>8. Answering(t)'
    BY <1>a, <2>2, <2>6, <2>7 DEF Answering
  <2> QED BY <1>e, <2>1, <2>2, <2>8, OneAnswer
<1>4. CASE Extracted(t)
  <2>1. /\ todo' = [todo EXCEPT ![t] = {item.word : item \in found[t]}]
        /\ pc' = [pc EXCEPT ![t] = "next"]
        /\ UNCHANGED <<asked, found, synonyms, resume, seen>>
    BY <1>4 DEF Extracted
  <2>2. \A w \in todo'[t] : \E item \in found'[t] : item.word = w
    BY <1>0, <2>1
  <2>3. Answering(t)'
    BY <1>0, <1>a, <2>1, <2>2 DEF Answering, FoundTrue, ExpandedTrue
  <2> QED BY <1>e, <2>1, <2>3, OneAnswer
<1> QED BY <1>1, <1>2, <1>3, <1>4 DEF Extract

\* The synonyms of a term are its fellows in a group of one state of the tables.
LEMMA ExpandAnswers ==
    ASSUME TypeOK, MapsKnown, AnswersKnown, NEW t \in Threads,
           GetSynonyms(t) \/ DescribeAgain(t) \/ Group(t)
    PROVE  AnswersKnown'
<1> USE DEF Goto, cacheVars, historyVars, readerVars, Loads
<1>0. /\ DOMAIN pc = Threads /\ DOMAIN resume = Threads /\ DOMAIN todo = Threads
      /\ DOMAIN found = Threads /\ DOMAIN synonyms = Threads /\ DOMAIN asked = Threads
      /\ seen \subseteq Dictionaries
  BY DEF TypeOK
<1>a. Answering(t)
  BY DEF AnswersKnown
<1>e. /\ asked = [asked EXCEPT ![t] = asked[t]] /\ todo = [todo EXCEPT ![t] = todo[t]]
      /\ found = [found EXCEPT ![t] = found[t]] /\ synonyms = [synonyms EXCEPT ![t] = synonyms[t]]
      /\ pc = [pc EXCEPT ![t] = pc[t]]
  BY DEF TypeOK
<1>1. CASE GetSynonyms(t) \/ DescribeAgain(t)
  <2>1. PICK place \in {"next", "group", "expand"}, left \in SUBSET todo[t] :
          /\ pc' = [pc EXCEPT ![t] = place] /\ todo' = [todo EXCEPT ![t] = left]
    <3>1. CASE GetSynonyms(t)
      BY <1>e, <3>1 DEF GetSynonyms
    <3>2. CASE DescribeAgain(t)
      <4>1. PICK w \in todo[t] :
              \/ todo' = [todo EXCEPT ![t] = todo[t] \ {w}] /\ pc' = [pc EXCEPT ![t] = "next"]
              \/ pc' = [pc EXCEPT ![t] = "group"] /\ todo' = todo
        BY <3>2 DEF DescribeAgain
      <4> QED BY <1>e, <4>1
    <3> QED BY <1>1, <3>1, <3>2
  <2>2. UNCHANGED <<asked, found, synonyms, resume, seen>> /\ pc[t] # "describe"
    BY <1>1 DEF GetSynonyms, DescribeAgain
  <2>3. Answering(t)'
    BY <1>0, <1>a, <2>1, <2>2 DEF Answering, FoundTrue, ExpandedTrue
  <2> QED BY <1>e, <2>1, <2>2, <2>3, OneAnswer
<1>2. CASE Group(t)
  <2>1. PICK w \in todo[t] :
          /\ synonyms' = [synonyms EXCEPT ![t] =
                            synonyms[t] \cup {<<w, s>> : s \in Fellows(groupToTerms, w)}]
          /\ todo' = [todo EXCEPT ![t] = todo[t] \ {w}]
    BY <1>2 DEF Group
  <2>2. /\ pc' = [pc EXCEPT ![t] = "next"] /\ UNCHANGED <<asked, found, resume, seen>>
        /\ pc[t] = "group"
    BY <1>2 DEF Group
  <2>3. ASSUME NEW s \in Fellows(groupToTerms, w)
        PROVE  /\ w # s
               /\ \E db \in seen : \E n \in DOMAIN GroupOf(db) : {w, s} \subseteq GroupOf(db)[n]
    <3> DEFINE own == {n \in DOMAIN groupToTerms : w \in groupToTerms[n]}
    <3>1. own # {} /\ s \in groupToTerms[Min(own)] /\ s # w
      BY DEF Fellows
    <3>2. PICK db \in seen : groupToTerms = GroupOf(db)
      BY <3>1 DEF MapsKnown, Empty
    <3>3. own \in SUBSET Nat
      BY CachedTypes
    <3>4. Min(own) \in own
      BY <3>1, <3>3, MinFact
    <3> QED BY <3>1, <3>2, <3>4
  <2>4. \E item \in found[t] : item.word = w
    BY <1>a, <2>2 DEF Answering
  <2>5. ASSUME NEW pair \in {<<w, s>> : s \in Fellows(groupToTerms, w)}
        PROVE  /\ pair[1] # pair[2] /\ \E item \in found[t] : item.word = pair[1]
               /\ \E db \in seen : \E n \in DOMAIN GroupOf(db) :
                    {pair[1], pair[2]} \subseteq GroupOf(db)[n]
    <3>1. PICK s \in Fellows(groupToTerms, w) : pair = <<w, s>>
      OBVIOUS
    <3>2. pair[1] = w /\ pair[2] = s
      BY <3>1
    <3> QED BY <2>3, <2>4, <3>2
  <2>6. ExpandedTrue(t)'
    <3>1. synonyms'[t] = synonyms[t] \cup {<<w, s>> : s \in Fellows(groupToTerms, w)}
      BY <1>0, <2>1
    <3> QED BY <1>a, <2>2, <2>5, <3>1 DEF Answering, ExpandedTrue
  <2>7. Answering(t)'
    BY <1>0, <1>a, <2>1, <2>2, <2>6 DEF Answering, FoundTrue
  <2> QED BY <1>e, <2>1, <2>2, <2>7, OneAnswer
<1> QED BY <1>1, <1>2

LEMMA NextAnswers ==
    TypeOK /\ IndexKnown /\ MapsKnown /\ AnswersKnown /\ [Next]_vars => AnswersKnown'
<1> SUFFICES ASSUME TypeOK, IndexKnown, MapsKnown, AnswersKnown, [Next]_vars PROVE AnswersKnown'
  OBVIOUS
<1>1. CASE EditDictionary \/ Expire \/ UNCHANGED vars
  <2>1. UNCHANGED <<pc, resume, readerVars>> /\ seen \subseteq seen'
    BY <1>1 DEF EditDictionary, Expire, vars, historyVars
  <2> QED BY <2>1, AnswerStays DEF AnswersKnown, readerVars
<1> QED BY <1>1, LoadAnswers, ExtractAnswers, ExpandAnswers DEF Next, Runs, Expand

\* What a thread returns was in the tables once, for every history of them and
\* however many loads overlap, fail or come late.
THEOREM AnswersAreOfTheTables == Spec => []AnswersWereTrue
<1>1. AnswersKnown => AnswersWereTrue
  BY DEF AnswersKnown, Answering, FoundTrue, ExpandedTrue, AnswersWereTrue
<1> QED BY <1>1, InitMaps, NextMaps, InitAnswers, NextAnswers, Index, Types, PTL DEF Spec
=============================================================================
