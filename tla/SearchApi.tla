------------------------------ MODULE SearchApi ------------------------------
(***************************************************************************)
(* The search server (api/search_api.cpp, query/query_engine.cpp and the   *)
(* click counts of query/index_searcher.cpp and storage/rocksdb_store.cpp).*)
(* The threads of the server answer /search and /click at once.  The index *)
(* is read-only but for the click counts, which are read and written with  *)
(* no lock; the cache of answers has a lock of its own, and so has the     *)
(* database.  The process may stop at any step and start again.            *)
(***************************************************************************)
EXTENDS SequencesExt, Integers, FiniteSets

CONSTANTS
    Thread,
    Key,             \* normalised query, page and limit: cacheKey
    Document,
    Matches,         \* the documents that the ranking of a key scores
    cache_capacity,  \* cache_capacity_, 128 in the code
    NoKey,
    NoDocument,
    MaxClicks,       \* bound: clicks on all documents
    MaxStarts        \* bound: restarts of the process

ASSUME SearchApiAssumption ==
    /\ Matches \in [Key -> SUBSET Document]
    /\ cache_capacity \in Nat \ {0}
    /\ NoKey \notin Key /\ NoDocument \notin Document
    /\ IsFiniteSet(Thread) /\ MaxClicks \in Nat /\ MaxStarts \in Nat

VARIABLES
    entries,      \* cache_entries_: <<[key, seen, late]>>, the last used first
    cache_index,  \* the keys of cache_index_
    click_count,  \* click_count of the documents in memory
    stored,       \* the values of click:<doc_id>
    pc,           \* thread: "idle", "score", "write", "clear", "increment", "respond"
    key,          \* the key a thread computes
    todo,         \* the documents of which it has not read the count yet
    seen,         \* the counts its answer is made of
    late,         \* history: a click cleared the cache while it computed
    doc,          \* the document a thread registers a click of
    read,         \* the count it read
    recent,       \* history: the keys by last use since the cache was cleared
    sent,         \* history: clicks begun
    answered,     \* history: clicks answered with ok
    starts

cacheVars == <<entries, cache_index, recent>>
countVars == <<click_count, stored, sent, answered>>
searchVars == <<key, todo, seen, late>>
clickVars == <<doc, read>>
vars == <<cacheVars, countVars, searchVars, clickVars, pc, starts>>

Unseen == [d \in {} |-> 0]

Keys == [i \in DOMAIN entries |-> entries[i].key]

Init ==
    /\ entries = <<>> /\ cache_index = {} /\ recent = <<>>
    /\ pc = [t \in Thread |-> "idle"]
    /\ key = [t \in Thread |-> NoKey]
    /\ todo = [t \in Thread |-> {}]
    /\ seen = [t \in Thread |-> Unseen]
    /\ late = [t \in Thread |-> FALSE]
    /\ doc = [t \in Thread |-> NoDocument]
    /\ read = [t \in Thread |-> 0]
    /\ stored = [d \in Document |-> 0]
    /\ click_count = stored
    /\ sent = stored
    /\ answered = stored
    /\ starts = 0

-----------------------------------------------------------------------------
(* The cache.                                                              *)

\* The splice of a list: element i leaves its place and x is put in front.
MoveToFront(list, i, x) == <<x>> \o RemoveAt(list, i)

Use(k) ==
    \/ k \notin ToSet(recent) /\ recent' = <<k>> \o recent
    \/ \E i \in DOMAIN recent : recent[i] = k /\ recent' = MoveToFront(recent, i, k)

\* Variant: a hit leaves the entry where it is.
HitInPlace(k) ==
    /\ k \in cache_index
    /\ Use(k)
    /\ UNCHANGED <<entries, cache_index>>

GetCached(k) ==
    /\ k \in cache_index
    /\ \E i \in DOMAIN entries :
         /\ entries[i].key = k
         /\ entries' = MoveToFront(entries, i, entries[i])
    /\ Use(k)
    /\ UNCHANGED cache_index

\* Another thread stored the key first: its answer is replaced.
Replace(entry) ==
    /\ entry.key \in cache_index
    /\ \E i \in DOMAIN entries :
         /\ entries[i].key = entry.key
         /\ entries' = MoveToFront(entries, i, entry)
    /\ UNCHANGED cache_index

Insert(entry) ==
    LET list == <<entry>> \o entries
    IN /\ entry.key \notin cache_index
       /\ IF Len(list) > cache_capacity
            THEN /\ entries' = SubSeq(list, 1, Len(list) - 1)
                 /\ cache_index' = (cache_index \cup {entry.key}) \ {Last(list).key}
            ELSE /\ entries' = list
                 /\ cache_index' = cache_index \cup {entry.key}

PutCached(entry) == Use(entry.key) /\ (Replace(entry) \/ Insert(entry))

-----------------------------------------------------------------------------
(* /search.                                                                *)

Hit(t, k) ==
    /\ pc[t] = "idle"
    /\ GetCached(k)
    /\ UNCHANGED <<countVars, searchVars, clickVars, pc, starts>>

\* Nothing tells other threads that the key is being computed.
Miss(t, k) ==
    /\ pc[t] = "idle"
    /\ k \notin cache_index
    /\ pc' = [pc EXCEPT ![t] = "score"]
    /\ key' = [key EXCEPT ![t] = k]
    /\ todo' = [todo EXCEPT ![t] = Matches[k]]
    /\ seen' = [seen EXCEPT ![t] = Unseen]
    /\ late' = [late EXCEPT ![t] = FALSE]
    /\ UNCHANGED <<cacheVars, countVars, clickVars, starts>>

WithCount(answer, d) ==
    [e \in DOMAIN answer \cup {d} |-> IF e = d THEN click_count[d] ELSE answer[e]]

\* rank reads the click counts one document after the other.
Score(t, d) ==
    /\ pc[t] = "score"
    /\ d \in todo[t]
    /\ todo' = [todo EXCEPT ![t] = @ \ {d}]
    /\ seen' = [seen EXCEPT ![t] = WithCount(@, d)]
    /\ UNCHANGED <<cacheVars, countVars, clickVars, key, late, pc, starts>>

Store(t) ==
    /\ pc[t] = "score"
    /\ todo[t] = {}
    /\ PutCached([key |-> key[t], seen |-> seen[t], late |-> late[t]])
    /\ pc' = [pc EXCEPT ![t] = "idle"]
    /\ key' = [key EXCEPT ![t] = NoKey]
    /\ seen' = [seen EXCEPT ![t] = Unseen]
    /\ late' = [late EXCEPT ![t] = FALSE]
    /\ UNCHANGED <<countVars, clickVars, todo, starts>>

-----------------------------------------------------------------------------
(* /click.  An unknown document is answered 404 and changes nothing.       *)

\* ++click_count of IndexSearcher::registerClick is a read and a write.
ReadCount(t, d) ==
    /\ pc[t] = "idle"
    /\ pc' = [pc EXCEPT ![t] = "write"]
    /\ doc' = [doc EXCEPT ![t] = d]
    /\ read' = [read EXCEPT ![t] = click_count[d]]
    /\ sent' = [sent EXCEPT ![d] = @ + 1]
    /\ UNCHANGED <<cacheVars, searchVars, click_count, stored, answered, starts>>

WriteCount(t) ==
    /\ pc[t] = "write"
    /\ click_count' = [click_count EXCEPT ![doc[t]] = read[t] + 1]
    /\ pc' = [pc EXCEPT ![t] = "clear"]
    /\ UNCHANGED <<cacheVars, searchVars, clickVars, stored, sent, answered, starts>>

\* Variant: the entry used last is kept.
ClearAllButFirst(t) ==
    /\ pc[t] = "clear"
    /\ entries' = SelectSeq(entries, LAMBDA e : e = entries[1])
    /\ cache_index' = {e.key : e \in ToSet(entries')}
    /\ recent' = SelectSeq(recent, LAMBDA k : k = recent[1])
    /\ late' = [s \in Thread |-> pc[s] = "score"]
    /\ pc' = [pc EXCEPT ![t] = "increment"]
    /\ UNCHANGED <<countVars, clickVars, key, todo, seen, starts>>

ClearCache(t) ==
    /\ pc[t] = "clear"
    /\ entries' = <<>>
    /\ cache_index' = {}
    /\ recent' = <<>>
    /\ late' = [s \in Thread |-> pc[s] = "score"]
    /\ pc' = [pc EXCEPT ![t] = "increment"]
    /\ UNCHANGED <<countVars, clickVars, key, todo, seen, starts>>

\* Variant: the count in memory is what is stored.
IncrementFromMemory(t) ==
    /\ pc[t] = "increment"
    /\ stored' = [stored EXCEPT ![doc[t]] = click_count[doc[t]]]
    /\ pc' = [pc EXCEPT ![t] = "respond"]
    /\ UNCHANGED <<cacheVars, searchVars, clickVars, click_count, sent, answered, starts>>

\* The lock of the store is held from the Get to the Put.
IncrementClickCount(t) ==
    /\ pc[t] = "increment"
    /\ stored' = [stored EXCEPT ![doc[t]] = @ + 1]
    /\ pc' = [pc EXCEPT ![t] = "respond"]
    /\ UNCHANGED <<cacheVars, searchVars, clickVars, click_count, sent, answered, starts>>

Respond(t) ==
    /\ pc[t] = "respond"
    /\ answered' = [answered EXCEPT ![doc[t]] = @ + 1]
    /\ pc' = [pc EXCEPT ![t] = "idle"]
    /\ doc' = [doc EXCEPT ![t] = NoDocument]
    /\ read' = [read EXCEPT ![t] = 0]
    /\ UNCHANGED <<cacheVars, searchVars, click_count, stored, sent, starts>>

-----------------------------------------------------------------------------
\* load takes the counts from the database.
Restart ==
    /\ starts < MaxStarts
    /\ starts' = starts + 1
    /\ entries' = <<>> /\ cache_index' = {} /\ recent' = <<>>
    /\ pc' = [t \in Thread |-> "idle"]
    /\ key' = [t \in Thread |-> NoKey]
    /\ todo' = [t \in Thread |-> {}]
    /\ seen' = [t \in Thread |-> Unseen]
    /\ late' = [t \in Thread |-> FALSE]
    /\ doc' = [t \in Thread |-> NoDocument]
    /\ read' = [t \in Thread |-> 0]
    /\ click_count' = stored
    /\ UNCHANGED <<stored, sent, answered>>

Begun == FoldFunction(LAMBDA m, n : m + n, 0, sent)

ThreadStep(t) ==
    \/ \E k \in Key : Hit(t, k) \/ Miss(t, k)
    \/ \E d \in todo[t] : Score(t, d)
    \/ Store(t)
    \/ \E d \in Document : Begun < MaxClicks /\ ReadCount(t, d)
    \/ WriteCount(t)
    \/ ClearCache(t)
    \/ IncrementClickCount(t)
    \/ Respond(t)

Next == Restart \/ \E t \in Thread : ThreadStep(t)

Spec == Init /\ [][Next]_vars

-----------------------------------------------------------------------------
Between(d, where) == Cardinality({t \in Thread : doc[t] = d /\ pc[t] \in where})

\* The list and the map of the cache hold the same keys, and these are the
\* cache_capacity keys used last since the last click, in that order: through
\* hits, several threads that compute one key, evictions and clears.
CacheIsLRU ==
    /\ Keys = SubSeq(recent, 1, IF Len(recent) < cache_capacity
                                  THEN Len(recent) ELSE cache_capacity)
    /\ cache_index = ToSet(Keys)

\* An answer in the cache that was not being computed while a click cleared
\* the cache is the answer the counts of now give, except while the click
\* that made the difference has yet to clear it.
StaleOnlyIfLate ==
    \A i \in DOMAIN entries : ~entries[i].late =>
        \A d \in Matches[entries[i].key] :
            entries[i].seen[d] # click_count[d] => Between(d, {"clear"}) > 0

\* Every click that was answered is in the database, whatever overlapped and
\* wherever the process stopped; the count in memory, which may lose clicks
\* that overlap, never holds one that nobody made.
ClicksKept ==
    \A d \in Document :
        /\ answered[d] + Between(d, {"respond"}) <= stored[d]
        /\ stored[d] <= sent[d]
        /\ click_count[d] <= stored[d] + Between(d, {"clear", "increment"})

=============================================================================
