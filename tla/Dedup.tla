------------------------------- MODULE Dedup -------------------------------
(***************************************************************************)
(* --remove-duplicates (storage/rocksdb_store.cpp, removeDuplicateURLs;    *)
(* main.cpp).  A database of an older version may hold a URL under several *)
(* keys, a document under several domain entries, and a next_doc_id that   *)
(* is too low.  The cleanup keeps the record with the lowest id of every   *)
(* URL and deletes the rest, one RocksDB call after the other; the process *)
(* may die between any two, and pages are crawled before and after.        *)
(***************************************************************************)
EXTENDS Naturals, Sequences, FiniteSets, FiniteSetsExt

CONSTANTS
    URL,
    Hash,        \* keys, numbers in the order of the iterator
    UrlOf,       \* the normalised URL of the document under a key
    Sha,         \* the key this version computes for a URL
    NoRecord,
    Legacy,      \* a pending list of an older version, with repetitions
    MaxDocId,    \* bounds of an instance
    MaxRuns,
    MaxCrawls

ASSUME DedupAssumption ==
    /\ Hash \subseteq Nat \ {0} /\ IsFiniteSet(Hash)
    /\ UrlOf \in [Hash -> URL]
    /\ Sha \in [URL -> Hash] /\ \A u \in URL : UrlOf[Sha[u]] = u
    /\ NoRecord \notin Nat
    /\ Legacy \in Seq(URL)
    /\ MaxDocId \in Nat \ {0}
    /\ MaxRuns \in Nat /\ MaxCrawls \in Nat

VARIABLES
    core,         \* DOC_CORE: the id of the document under a key, or NoRecord
    other,        \* keys that have records in the seven other families
    domain,       \* domain index: pairs of an id and a key
    next_doc_id,
    legacy,       \* __pending_urls__
    pc,           \* cleanup: "off", "docs", "domain", "next_id"
    dups,         \* duplicate_hashes of this cleanup
    kept,         \* kept_by_url: the key kept for a URL, 0 for none
    victims,      \* domain entries still to be deleted
    runs,         \* cleanups started
    crawls,       \* pages crawled
    cut,          \* history: a cleanup died
    cleaned,      \* history: the last cleanup ended and nothing was crawled since
    first,        \* history: the lowest id a URL had when it had a record first
    repaired      \* history: a cleanup ended

tableVars == <<core, other, domain, next_doc_id, legacy>>
cleanupVars == <<pc, dups, kept, victims>>
historyVars == <<cut, cleaned, repaired, first>>
vars == <<tableVars, cleanupVars, runs, crawls, historyVars>>

-----------------------------------------------------------------------------
Stored(u) == {h \in Hash : core[h] # NoRecord /\ UrlOf[h] = u}

Ids == {core[h] : h \in Hash} \ {NoRecord}

\* An id of 0 is worse than any other.
DocIdRank(id) == IF id = 0 THEN MaxDocId + 1 ELSE id

LowestRank(u) == Min({DocIdRank(core[h]) : h \in Stored(u)})

\* No id is shared by two keys.  A document may have its domain entry, or an
\* entry under an id of an earlier fetch, or both.
Init ==
    /\ core \in [Hash -> (0 .. MaxDocId - 1) \cup {NoRecord}]
    /\ \A h, g \in Hash : h # g /\ core[h] \notin {0, NoRecord} => core[h] # core[g]
    /\ other = {h \in Hash : core[h] # NoRecord}
    /\ \E right \in SUBSET {<<core[h], h>> : h \in {g \in other : core[g] # 0}},
          wrong \in SUBSET (((1 .. MaxDocId - 1) \ Ids) \X other) :
         /\ Cardinality(wrong) <= 1
         /\ domain = right \cup wrong
    /\ next_doc_id \in {1, MaxDocId}
    /\ legacy = Legacy
    /\ pc = "off"
    /\ dups = {} /\ victims = {}
    /\ kept = [u \in URL |-> 0]
    /\ runs = 0 /\ crawls = 0
    /\ cut = FALSE /\ cleaned = FALSE
    /\ first = [u \in URL |-> IF Stored(u) = {} THEN 0 ELSE LowestRank(u)]
    /\ repaired = FALSE

-----------------------------------------------------------------------------
\* Variant: the record read last is kept.
KeptHashLast(u) == Max(Stored(u))

\* The lowest id wins, the first key among equals.
KeptHash(u) ==
    Min({h \in Stored(u) : DocIdRank(core[h]) = LowestRank(u)})

\* DOC_CORE is read with one iterator before anything is deleted.
StartCleanup ==
    /\ pc = "off"
    /\ runs < MaxRuns
    /\ runs' = runs + 1
    /\ kept' = [u \in URL |-> IF Stored(u) = {} THEN 0 ELSE KeptHash(u)]
    /\ dups' = UNION {Stored(u) \ {KeptHash(u)} : u \in {v \in URL : Stored(v) # {}}}
    /\ pc' = "docs"
    /\ cleaned' = FALSE
    /\ UNCHANGED <<tableVars, victims, crawls, cut, first, repaired>>

InCore == {h \in dups : core[h] # NoRecord}

\* Variant: the other families are not cleaned.
OrphansIgnored == {}

Orphans == {h \in dups : core[h] = NoRecord /\ h \in other}

\* One key after the other, in any order, and of each DOC_CORE first.
DeleteCore(h) ==
    /\ pc = "docs"
    /\ Orphans = {}
    /\ h \in InCore
    /\ core' = [core EXCEPT ![h] = NoRecord]
    /\ UNCHANGED <<other, domain, next_doc_id, legacy, cleanupVars, runs, crawls,
                   historyVars>>

DeleteOthers(h) ==
    /\ pc = "docs"
    /\ h \in Orphans
    /\ other' = other \ {h}
    /\ UNCHANGED <<core, domain, next_doc_id, legacy, cleanupVars, runs, crawls,
                   historyVars>>

Entries(h) == {e \in domain : e[2] = h}

\* Variant: the entry with the lowest id stays.
EntryToKeepLowest(h) == {e \in Entries(h) : \A f \in Entries(h) : e[1] <= f[1]}

\* The entry that stays: the one under the id of the document if its key was
\* kept, otherwise the first.
EntryToKeep(h) ==
    LET right == {e \in Entries(h) : \E u \in URL : kept[u] = h /\ e[1] = core[h]}
    IN IF right # {} THEN right
       ELSE {e \in Entries(h) : \A f \in Entries(h) : e[1] <= f[1]}

\* Of a duplicate key every entry goes, of any other all but one.
FindVictims ==
    /\ pc = "docs"
    /\ InCore = {} /\ Orphans = {}
    /\ victims' = domain \ UNION {EntryToKeep(h) : h \in Hash \ dups}
    /\ pc' = "domain"
    /\ UNCHANGED <<tableVars, dups, kept, runs, crawls, historyVars>>

DeleteEntry(e) ==
    /\ pc = "domain"
    /\ e \in victims
    /\ domain' = domain \ {e}
    /\ victims' = victims \ {e}
    /\ UNCHANGED <<core, other, next_doc_id, legacy, pc, dups, kept, runs, crawls,
                   historyVars>>

\* The first occurrence of every URL of the list.
Unique(s) ==
    LET firsts == {i \in 1 .. Len(s) : \A j \in 1 .. i - 1 : s[j] # s[i]}
        nth(n) == CHOOSE i \in firsts : Cardinality({j \in firsts : j <= i}) = n
    IN [n \in 1 .. Cardinality(firsts) |-> s[nth(n)]]

CleanPending ==
    /\ pc = "domain"
    /\ victims = {}
    /\ legacy' = Unique(legacy)
    /\ pc' = "next_id"
    /\ UNCHANGED <<core, other, domain, next_doc_id, dups, kept, victims, runs,
                   crawls, historyVars>>

\* Variant: the highest id itself is taken for the next.
RequiredTooLow == Max({0} \cup {core[kept[u]] : u \in {v \in URL : kept[v] # 0}})

RequiredNextDocId ==
    1 + Max({0} \cup {core[kept[u]] : u \in {v \in URL : kept[v] # 0}})

RepairNextDocId ==
    /\ pc = "next_id"
    /\ next_doc_id' = Max({next_doc_id, RequiredNextDocId})
    /\ pc' = "off"
    /\ dups' = {}
    /\ kept' = [u \in URL |-> 0]
    /\ cleaned' = TRUE
    /\ repaired' = TRUE
    /\ UNCHANGED <<core, other, domain, legacy, victims, runs, crawls, cut, first>>

Crash ==
    /\ pc # "off"
    /\ pc' = "off"
    /\ dups' = {}
    /\ kept' = [u \in URL |-> 0]
    /\ victims' = {}
    /\ cut' = TRUE
    /\ UNCHANGED <<tableVars, runs, crawls, cleaned, repaired, first>>

\* A page of a URL is crawled: it keeps the id under its key, or gets a new
\* one and a domain entry (module DocStore, here as one step).
Crawl(u) ==
    LET h == Sha[u]
        known == core[h] # NoRecord /\ core[h] # 0
    IN /\ pc = "off"
       /\ crawls < MaxCrawls
       /\ next_doc_id <= MaxDocId
       /\ crawls' = crawls + 1
       /\ cleaned' = FALSE
       /\ other' = other \cup {h}
       /\ IF known
            THEN UNCHANGED <<core, domain, next_doc_id>>
            ELSE /\ core' = [core EXCEPT ![h] = next_doc_id]
                 /\ domain' = domain \cup {<<next_doc_id, h>>}
                 /\ next_doc_id' = next_doc_id + 1
       /\ first' = IF first[u] = 0 THEN [first EXCEPT ![u] = next_doc_id] ELSE first
       /\ UNCHANGED <<legacy, cleanupVars, runs, cut, repaired>>

Next ==
    \/ StartCleanup
    \/ \E h \in Hash : DeleteCore(h) \/ DeleteOthers(h)
    \/ FindVictims
    \/ \E e \in victims : DeleteEntry(e)
    \/ CleanPending
    \/ RepairNextDocId
    \/ Crash
    \/ \E u \in URL : Crawl(u)

Spec == Init /\ [][Next]_vars

-----------------------------------------------------------------------------
\* No page gets lost and none loses its id, wherever a cleanup dies and
\* whatever is crawled or cleaned up afterwards: of the records of a URL the
\* one with the lowest id it ever had stays, with all its families.
LowestIdStays ==
    \A u \in URL :
      first[u] # 0 => \E h \in Stored(u) :
                        DocIdRank(core[h]) <= first[u] /\ h \in other

\* A cleanup that ends leaves one record per URL and at most one domain entry
\* per key, also when an earlier one died half way; records that no DOC_CORE
\* leads to remain only where one died: a later cleanup does not find them.
CleanedUp ==
    cleaned =>
      /\ \A u \in URL : Cardinality(Stored(u)) <= 1
      /\ \A h \in Hash : Cardinality(Entries(h)) <= 1
      /\ \A i, j \in 1 .. Len(legacy) : i # j => legacy[i] # legacy[j]
      /\ ~cut => \A h \in Hash : h \in other \/ Entries(h) # {} => core[h] # NoRecord

\* The domain entry of a document under its id is never taken for one of the
\* superfluous ones.
RightEntryStays ==
    [][\A h \in Hash : /\ <<core[h], h>> \in domain
                       /\ core'[h] = core[h]
                       => <<core[h], h>> \in domain']_vars

\* Once a cleanup has ended, a new document gets an id of its own.
NewIdsAreFresh == [][repaired /\ next_doc_id' > next_doc_id /\ pc = "off"
                       => next_doc_id \notin Ids]_vars

=============================================================================
