---------------------------- MODULE GlossaryCache ----------------------------
(***************************************************************************)
(* The term dictionary as the API process caches it: GlossaryService of    *)
(* services/glossary.py, shared without a lock by the threads that run     *)
(* requests.  A thread extracts the terms of a question and then asks for  *)
(* the synonyms of each (term_extract in nodes/master.py); either call may *)
(* find that the cache must be loaded first, and loads it itself.          *)
(*                                                                         *)
(* A load reads the database once and assigns the three maps and the time  *)
(* one after the other; a reader takes each map as it finds it.  So one    *)
(* action is one access to the shared state.  Which terms of a question    *)
(* come first when there are too many, and how many synonyms are quoted,   *)
(* is left open.                                                           *)
(***************************************************************************)
EXTENDS Integers, FiniteSets, Sequences, FiniteSetsExt

CONSTANTS
    Threads,         \* the threads that run requests
    Words,           \* terms and synonyms
    NormalForm,      \* normalize_text
    Dictionaries,    \* what the tables may hold: rows in the order of the query
    Questions,       \* the normal forms a question may contain
    RefreshEnabled,  \* glossary.refresh.enabled
    MaxTerms,        \* glossary.max_terms
    MaxEdits         \* bound: edits of the tables

\* A row is a term or one of its synonyms; "" is no description.
Descriptions == UNION {{db[i].desc : i \in DOMAIN db} : db \in Dictionaries}

ASSUME GlossaryAssumption ==
    /\ \A db \in Dictionaries :
          /\ DOMAIN db \subseteq Nat
          /\ \A i \in DOMAIN db : db[i].word \in Words /\ db[i].no \in Nat
    /\ \A question \in Questions : question \subseteq {NormalForm[w] : w \in Words}
    /\ RefreshEnabled \in BOOLEAN
    /\ MaxTerms \in Nat \ {0}
    /\ MaxEdits \in Nat

VARIABLES
    dictionary,        \* the tables
    termToDesc,        \* _term_to_desc
    normalizedToTerm,  \* _normalized_to_term
    groupToTerms,      \* _group_to_terms
    expired,           \* ttl_seconds have passed since _loaded_at
    pc,                \* what each thread does next
    rows,              \* the rows a thread that loads has read
    resume,            \* where it goes on afterwards
    asked,             \* the normal forms in the text each thread looks at
    todo,              \* terms matched, to be described, then to be expanded
    found,             \* the terms each thread returns, with their descriptions
    synonyms,          \* the synonyms of each
    seen,              \* history: what the tables have held so far
    overlapped,        \* history: two loads have assigned at the same time
    edits              \* bound: edits so far

cacheVars == <<termToDesc, normalizedToTerm, groupToTerms, expired>>
readerVars == <<asked, todo, found, synonyms>>
historyVars == <<seen, edits>>
vars == <<dictionary, cacheVars, pc, rows, resume, readerVars, historyVars, overlapped>>

-----------------------------------------------------------------------------
(* The maps a load builds *)

Listed(db) == {db[i].word : i \in DOMAIN db}
Empty == [x \in {} |-> x]

\* setdefault keeps what the first row says.
DescOf(db) == [w \in Listed(db) |-> db[Min({i \in DOMAIN db : db[i].word = w})].desc]
TermOf(db) == [f \in {NormalForm[w] : w \in Listed(db)} |->
                 db[Min({i \in DOMAIN db : NormalForm[db[i].word] = f})].word]
GroupOf(db) == [n \in {db[i].no : i \in DOMAIN db} |->
                  {db[i].word : i \in {j \in DOMAIN db : db[j].no = n}}]

\* The first group that has the term, and the term's fellows in it.
Fellows(groups, w) ==
    LET own == {n \in DOMAIN groups : w \in groups[n]}
    IN  IF own = {} THEN {} ELSE groups[Min(own)] \ {w}

\* Faulty variant: no default.
DescriptionOrNone(w) == IF w \in DOMAIN termToDesc THEN termToDesc[w] ELSE "None"
Description(w) == IF w \in DOMAIN termToDesc THEN termToDesc[w] ELSE ""

-----------------------------------------------------------------------------
\* The load at start may have failed.
Init ==
    /\ dictionary \in Dictionaries
    /\ \/ /\ termToDesc = DescOf(dictionary) /\ normalizedToTerm = TermOf(dictionary)
          /\ groupToTerms = GroupOf(dictionary) /\ expired = FALSE
       \/ /\ termToDesc = Empty /\ normalizedToTerm = Empty
          /\ groupToTerms = Empty /\ expired = TRUE
    /\ pc = [t \in Threads |-> "idle"]
    /\ rows = [t \in Threads |-> <<>>]
    /\ resume = [t \in Threads |-> "idle"]
    /\ asked = [t \in Threads |-> {}] /\ todo = [t \in Threads |-> {}]
    /\ found = [t \in Threads |-> {}] /\ synonyms = [t \in Threads |-> {}]
    /\ seen = {dictionary} /\ overlapped = FALSE /\ edits = 0

Goto(t, place) == pc' = [pc EXCEPT ![t] = place]

Ask(t) ==
    /\ pc[t] = "idle"
    /\ \E question \in Questions : asked' = [asked EXCEPT ![t] = question]
    /\ Goto(t, "extract")
    /\ UNCHANGED <<dictionary, cacheVars, rows, resume, todo, found, synonyms, historyVars, overlapped>>

\* A thread is done with its question, for better or worse.
Forget(t) ==
    /\ pc' = [pc EXCEPT ![t] = "idle"]
    /\ asked' = [asked EXCEPT ![t] = {}] /\ todo' = [todo EXCEPT ![t] = {}]
    /\ found' = [found EXCEPT ![t] = {}] /\ synonyms' = [synonyms EXCEPT ![t] = {}]

\* Faulty variant: only an empty cache is loaded.
LoadOnce == termToDesc = Empty
MustLoad == termToDesc = Empty \/ (RefreshEnabled /\ expired)

\* _refresh_if_needed, at the head of extract_terms and of get_synonyms.
RefreshIfNeeded(t) ==
    /\ pc[t] \in {"extract", "expand"}
    /\ LET next == IF pc[t] = "extract" THEN "match" ELSE "describeAgain"
       IN  IF MustLoad THEN Goto(t, "load") /\ resume' = [resume EXCEPT ![t] = next]
                       ELSE Goto(t, next) /\ UNCHANGED resume
    /\ UNCHANGED <<dictionary, cacheVars, rows, readerVars, historyVars, overlapped>>

Assigning(t) == pc[t] \in {"setTerms", "setGroups", "setTime"}

LoadRead(t) ==
    /\ pc[t] = "load"
    /\ rows' = [rows EXCEPT ![t] = dictionary]
    /\ Goto(t, "setDescs")
    /\ UNCHANGED <<dictionary, cacheVars, resume, readerVars, historyVars, overlapped>>

\* The exception ends the request; the maps stay as they were.
LoadFails(t) ==
    /\ pc[t] = "load"
    /\ Forget(t)
    /\ resume' = [resume EXCEPT ![t] = "idle"]
    /\ UNCHANGED <<dictionary, cacheVars, rows, historyVars, overlapped>>

\* Faulty variant: the old index is emptied before the new one is there.
SetDescsClearing(t) ==
    /\ pc[t] = "setDescs"
    /\ termToDesc' = DescOf(rows[t]) /\ normalizedToTerm' = Empty
    /\ overlapped' = (overlapped \/ \E u \in Threads \ {t} : Assigning(u))
    /\ Goto(t, "setTerms")
    /\ UNCHANGED <<dictionary, groupToTerms, expired, rows, resume, readerVars, historyVars>>

SetDescs(t) ==
    /\ pc[t] = "setDescs"
    /\ termToDesc' = DescOf(rows[t])
    /\ overlapped' = (overlapped \/ \E u \in Threads \ {t} : Assigning(u))
    /\ Goto(t, "setTerms")
    /\ UNCHANGED <<dictionary, normalizedToTerm, groupToTerms, expired, rows, resume, readerVars,
                   historyVars>>

SetTerms(t) ==
    /\ pc[t] = "setTerms"
    /\ normalizedToTerm' = TermOf(rows[t])
    /\ Goto(t, "setGroups")
    /\ UNCHANGED <<dictionary, termToDesc, groupToTerms, expired, rows, resume, readerVars,
                   historyVars, overlapped>>

\* Faulty variant: the groups are built and not assigned.
SetNoGroups(t) ==
    /\ pc[t] = "setGroups"
    /\ Goto(t, "setTime")
    /\ UNCHANGED <<dictionary, cacheVars, rows, resume, readerVars, historyVars, overlapped>>

SetGroups(t) ==
    /\ pc[t] = "setGroups"
    /\ groupToTerms' = GroupOf(rows[t])
    /\ Goto(t, "setTime")
    /\ UNCHANGED <<dictionary, termToDesc, normalizedToTerm, expired, rows, resume, readerVars,
                   historyVars, overlapped>>

SetTime(t) ==
    /\ pc[t] = "setTime"
    /\ expired' = FALSE
    /\ rows' = [rows EXCEPT ![t] = <<>>]
    /\ Goto(t, resume[t])
    /\ resume' = [resume EXCEPT ![t] = "idle"]
    /\ UNCHANGED <<dictionary, termToDesc, normalizedToTerm, groupToTerms, readerVars,
                   historyVars, overlapped>>

-----------------------------------------------------------------------------
(* extract_terms and get_synonyms *)

\* As many terms as the index has for the text, up to MaxTerms.
Matches(t) ==
    LET all == {normalizedToTerm[f] : f \in asked[t] \cap DOMAIN normalizedToTerm}
    IN  {some \in SUBSET all : \/ some = all /\ Cardinality(all) <= MaxTerms
                               \/ Cardinality(some) = MaxTerms}

Match(t) ==
    /\ pc[t] = "match"
    /\ \E some \in Matches(t) : todo' = [todo EXCEPT ![t] = some]
    /\ Goto(t, "describe")
    /\ UNCHANGED <<dictionary, cacheVars, rows, resume, asked, found, synonyms, historyVars, overlapped>>

Describe(t) ==
    /\ pc[t] = "describe"
    /\ \E w \in todo[t] :
          /\ found' = [found EXCEPT ![t] = @ \cup {[word |-> w, desc |-> Description(w)]}]
          /\ todo' = [todo EXCEPT ![t] = @ \ {w}]
    /\ UNCHANGED <<dictionary, cacheVars, pc, rows, resume, asked, synonyms, historyVars, overlapped>>

\* extract_terms returns; each term found is to be expanded.
Extracted(t) ==
    /\ pc[t] = "describe" /\ todo[t] = {}
    /\ todo' = [todo EXCEPT ![t] = {item.word : item \in found[t]}]
    /\ Goto(t, "next")
    /\ UNCHANGED <<dictionary, cacheVars, rows, resume, asked, found, synonyms, historyVars, overlapped>>

GetSynonyms(t) ==
    /\ pc[t] = "next" /\ todo[t] # {}
    /\ Goto(t, "expand")
    /\ UNCHANGED <<dictionary, cacheVars, rows, resume, readerVars, historyVars, overlapped>>

Finish(t) ==
    /\ pc[t] = "next" /\ todo[t] = {}
    /\ Forget(t)
    /\ UNCHANGED <<dictionary, cacheVars, rows, resume, historyVars, overlapped>>

\* A term that has no description, or has it no more, gets no synonyms.
DescribeAgain(t) ==
    /\ pc[t] = "describeAgain"
    /\ \E w \in todo[t] :
          IF Description(w) = ""
          THEN /\ todo' = [todo EXCEPT ![t] = @ \ {w}]
               /\ Goto(t, "next")
          ELSE Goto(t, "group") /\ UNCHANGED todo
    /\ UNCHANGED <<dictionary, cacheVars, rows, resume, asked, found, synonyms, historyVars, overlapped>>

Group(t) ==
    /\ pc[t] = "group"
    /\ \E w \in todo[t] :
          /\ synonyms' = [synonyms EXCEPT ![t] = @ \cup {<<w, s>> : s \in Fellows(groupToTerms, w)}]
          /\ todo' = [todo EXCEPT ![t] = @ \ {w}]
    /\ Goto(t, "next")
    /\ UNCHANGED <<dictionary, cacheVars, rows, resume, asked, found, historyVars, overlapped>>

-----------------------------------------------------------------------------
EditDictionary ==
    /\ edits < MaxEdits /\ edits' = edits + 1
    /\ dictionary' \in Dictionaries \ {dictionary}
    /\ seen' = seen \cup {dictionary'}
    /\ UNCHANGED <<cacheVars, pc, rows, resume, readerVars, overlapped>>

Expire ==
    /\ ~expired
    /\ expired' = TRUE
    /\ UNCHANGED <<dictionary, termToDesc, normalizedToTerm, groupToTerms, pc, rows, resume,
                   readerVars, historyVars, overlapped>>

Load(t) == SetDescs(t) \/ SetTerms(t) \/ SetGroups(t) \/ SetTime(t)
Extract(t) == Match(t) \/ Describe(t) \/ Extracted(t)
Expand(t) == GetSynonyms(t) \/ Finish(t) \/ DescribeAgain(t) \/ Group(t)
Runs(t) == RefreshIfNeeded(t) \/ Load(t) \/ Extract(t) \/ Expand(t)

Next ==
    \/ \E t \in Threads : Ask(t) \/ Runs(t) \/ LoadRead(t) \/ LoadFails(t)
    \/ EditDictionary \/ Expire

Spec == Init /\ [][Next]_vars

\* Threads run on and time passes; customers go on asking, and a database that is
\* asked again and again answers some time.
Fairness ==
    /\ \A t \in Threads : WF_vars(Runs(t)) /\ WF_vars(Ask(t)) /\ SF_vars(LoadRead(t))
    /\ WF_vars(Expire)
FairSpec == Spec /\ Fairness

-----------------------------------------------------------------------------
(* What readers may rely on *)

Loads == {"load", "setDescs", "setTerms", "setGroups", "setTime"}
Reads == {"extract", "match", "describe", "next", "expand", "describeAgain", "group"}

\* The maps hold what some dictionary says, and a thread returns words with
\* descriptions and synonyms of the dictionary.
TypeOK ==
    /\ dictionary \in Dictionaries /\ seen \subseteq Dictionaries
    /\ termToDesc \in {DescOf(db) : db \in Dictionaries} \cup {Empty}
    /\ normalizedToTerm \in {TermOf(db) : db \in Dictionaries} \cup {Empty}
    /\ groupToTerms \in {GroupOf(db) : db \in Dictionaries} \cup {Empty}
    /\ expired \in BOOLEAN /\ overlapped \in BOOLEAN /\ edits \in 0..MaxEdits
    /\ pc \in [Threads -> {"idle"} \cup Loads \cup Reads]
    /\ rows \in [Threads -> Dictionaries \cup {<<>>}]
    /\ resume \in [Threads -> {"idle", "match", "describeAgain"}]
    /\ asked \in [Threads -> Questions \cup {{}}]
    /\ todo \in [Threads -> SUBSET Words]
    /\ found \in [Threads -> SUBSET [word : Words, desc : Descriptions \cup {""}]]
    /\ synonyms \in [Threads -> SUBSET (Words \X Words)]

\* The normal forms every dictionary has had.
AlwaysKnown == {f \in {NormalForm[w] : w \in Words} : \A db \in seen : f \in DOMAIN TermOf(db)}

\* A term that was in the dictionary all along is found, whatever loads fail, run
\* out or overlap, but for one gap: while the first load of another thread stands
\* between its assignments of _term_to_desc and of _normalized_to_term, the cache
\* looks loaded and finds nothing.
AlwaysKnownTerms ==
    \A t \in Threads : pc[t] = "match" =>
        \/ asked[t] \cap AlwaysKnown \subseteq DOMAIN normalizedToTerm
        \/ /\ normalizedToTerm = Empty /\ groupToTerms = Empty
           /\ \E u \in Threads \ {t} : pc[u] = "setTerms"

Is(db) == termToDesc = DescOf(db) /\ normalizedToTerm = TermOf(db) /\ groupToTerms = GroupOf(db)
Unloaded == termToDesc = Empty /\ normalizedToTerm = Empty /\ groupToTerms = Empty

\* As long as no two loads have assigned at the same time, the three maps are of
\* one state of the tables whenever no load is assigning; load_cache takes no
\* lock, so with overlapping loads they may stay of two.
WholeWhenAlone ==
    ~overlapped /\ (\A t \in Threads : ~Assigning(t))
      => Unloaded \/ \E db \in seen : Is(db)

\* The description of a word in one state of the tables.
Said(db, w) == IF w \in Listed(db) THEN DescOf(db)[w] ELSE ""

\* However loads overlap and maps of two states stay side by side, a thread returns
\* nothing the tables never said: a term it found is one of theirs and in the
\* question, with a description they have had for it (none only if they had none,
\* for the descriptions are assigned before the index), and its synonyms have been
\* in a group with it (extract_terms, get_synonyms).
AnswersWereTrue ==
    \A t \in Threads :
        /\ \A item \in found[t] :
              /\ NormalForm[item.word] \in asked[t]
              /\ \E db \in seen : item.word \in Listed(db)
              /\ \E db \in seen : item.desc = Said(db, item.word)
        /\ \A pair \in synonyms[t] :
              /\ pair[1] # pair[2] /\ \E item \in found[t] : item.word = pair[1]
              /\ \E db \in seen : \E n \in DOMAIN GroupOf(db) :
                    {pair[1], pair[2]} \subseteq GroupOf(db)[n]

\* With the refresh enabled an edit of the dictionary reaches the cache in the
\* end, and stays, although a slow load may bring back an older state on the way.
EventuallyFresh == <>[](Is(dictionary))
=============================================================================
