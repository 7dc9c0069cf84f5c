------------------------------ MODULE DocStore ------------------------------
(***************************************************************************)
(* What a page with status 200 leaves in the database (crawler/engine.cpp, *)
(* processItem; storage/rocksdb_store.cpp): a document id, one record in   *)
(* each of eight column families, all with the key sha256(url), and an     *)
(* entry in the domain index.  Every put is a write of its own, so the     *)
(* process may die between any two.  The search API opens the database     *)
(* only while no crawler has it open, and reads what is there.             *)
(*                                                                         *)
(* No two workers process one URL at a time (CrawlPool, OnePlace).  The    *)
(* recrawl record, written by the same code, is not part of this module.   *)
(***************************************************************************)
EXTENDS Naturals, Sequences

CONSTANTS
    Hash,      \* sha256 of the normalised URLs
    Page,      \* what a page may hold
    NoPage,    \* no record
    Worker,
    MaxDocId,  \* bound on the document ids of an instance
    MaxStarts  \* bound on the times the crawler is started

ASSUME DocAssumption ==
    /\ NoPage \notin Page
    /\ MaxDocId \in Nat
    /\ MaxStarts \in Nat

\* In the order of the puts in processItem.
Families == <<"doc_core", "fetch_meta", "content_meta", "parsed_content",
              "link_graph", "quality", "presentation", "control">>

Family == {Families[i] : i \in 1 .. Len(Families)}

VARIABLES
    doc_id,       \* DocCore::doc_id of a hash, 0 when it has no DocCore
    rec,          \* the page each record of a hash was built from, or NoPage
    domain,       \* domain index: pairs of a document id and a hash
    next_doc_id,  \* the key next_doc_id; absent counts as 1
    running,      \* a crawler process has the database open
    starts,       \* how often it was started
    pc,           \* worker: "idle", "lock", "set_next", "put", "domain"
    job,          \* what a worker that is not idle works on
    open          \* history: hashes whose last processing has not ended

tableVars == <<doc_id, rec, domain, next_doc_id>>
processVars == <<running, starts>>
vars == <<tableVars, processVars, pc, job, open>>

NoJob == [hash |-> NoPage, page |-> NoPage, id |-> 0, new |-> FALSE, puts |-> 0]

Job == [hash : Hash, page : Page, id : 0 .. MaxDocId, new : BOOLEAN,
        puts : 0 .. Len(Families)]

TypeOK ==
    /\ doc_id \in [Hash -> 0 .. MaxDocId]
    /\ rec \in [Hash -> [Family -> Page \cup {NoPage}]]
    /\ domain \subseteq (1 .. MaxDocId) \X Hash
    /\ next_doc_id \in 1 .. MaxDocId + 1
    /\ running \in BOOLEAN
    /\ starts \in 0 .. MaxStarts
    /\ pc \in [Worker -> {"idle", "lock", "set_next", "put", "domain"}]
    /\ job \in [Worker -> Job \cup {NoJob}]
    /\ \A w \in Worker :
         /\ pc[w] = "idle" <=> job[w] = NoJob
         /\ pc[w] # "idle" => running
         /\ pc[w] \in {"lock", "set_next", "domain"} => job[w].new
         /\ pc[w] = "put" => job[w].puts < Len(Families)
    /\ open \subseteq Hash

Init ==
    /\ doc_id = [h \in Hash |-> 0]
    /\ rec = [h \in Hash |-> [f \in Family |-> NoPage]]
    /\ domain = {}
    /\ next_doc_id = 1
    /\ running = FALSE
    /\ starts = 0
    /\ pc = [w \in Worker |-> "idle"]
    /\ job = [w \in Worker |-> NoJob]
    /\ open = {}

-----------------------------------------------------------------------------

Start ==
    /\ ~running
    /\ starts < MaxStarts
    /\ running' = TRUE
    /\ starts' = starts + 1
    /\ UNCHANGED <<tableVars, pc, job, open>>

Begin(w, h, p, new) ==
    /\ running
    /\ pc[w] = "idle"
    /\ \A v \in Worker : pc[v] # "idle" => job[v].hash # h
    /\ pc' = [pc EXCEPT ![w] = IF new THEN "lock" ELSE "put"]
    /\ job' = [job EXCEPT ![w] =
                 [hash |-> h, page |-> p, id |-> IF new THEN 0 ELSE doc_id[h],
                  new |-> new, puts |-> 0]]
    /\ open' = open \cup {h}
    /\ UNCHANGED <<tableVars, processVars>>

\* Variant: a stored document is not looked for.
FetchedAsNew(w, h, p) == Begin(w, h, p, TRUE)

\* The page is there, and the document of its hash, if any, is read.
Fetched(w, h, p) == Begin(w, h, p, doc_id[h] = 0)

\* Variant: no doc_id_mutex_.
GetNextUnlocked(w) ==
    /\ pc[w] = "lock"
    /\ next_doc_id <= MaxDocId
    /\ pc' = [pc EXCEPT ![w] = "set_next"]
    /\ job' = [job EXCEPT ![w].id = next_doc_id]
    /\ UNCHANGED <<tableVars, processVars, open>>

\* getNextDocId, under doc_id_mutex_, which is held until setNextDocId.
GetNextDocId(w) ==
    /\ pc[w] = "lock"
    /\ \A v \in Worker : pc[v] # "set_next"
    /\ next_doc_id <= MaxDocId
    /\ pc' = [pc EXCEPT ![w] = "set_next"]
    /\ job' = [job EXCEPT ![w].id = next_doc_id]
    /\ UNCHANGED <<tableVars, processVars, open>>

SetNextDocId(w) ==
    /\ pc[w] = "set_next"
    /\ next_doc_id' = job[w].id + 1
    /\ pc' = [pc EXCEPT ![w] = "put"]
    /\ UNCHANGED <<doc_id, rec, domain, processVars, job, open>>

\* Variant: the domain entry is written for every page.
AfterPutsAlways(new) == "domain"

\* Where a worker goes once all records are put.
AfterPuts(new) == IF new THEN "domain" ELSE "idle"

\* Variant: a document that was known keeps its other records.
FamiliesPutNew(new) == IF new THEN Len(Families) ELSE 4

\* How many records are put for a page.
FamiliesPut(new) == Len(Families)

Put(w) ==
    LET j == job[w]
        last == j.puts + 1 = FamiliesPut(j.new)
        next == IF last THEN AfterPuts(j.new) ELSE "put"
    IN /\ pc[w] = "put"
       /\ rec' = [rec EXCEPT ![j.hash][Families[j.puts + 1]] = j.page]
       /\ doc_id' = IF j.puts = 0 THEN [doc_id EXCEPT ![j.hash] = j.id]
                                  ELSE doc_id
       /\ pc' = [pc EXCEPT ![w] = next]
       /\ job' = [job EXCEPT ![w] = IF next = "idle" THEN NoJob
                                    ELSE [j EXCEPT !.puts = @ + 1]]
       /\ open' = IF next = "idle" THEN open \ {j.hash} ELSE open
       /\ UNCHANGED <<domain, next_doc_id, processVars>>

PutDomain(w) ==
    /\ pc[w] = "domain"
    /\ domain' = domain \cup {<<job[w].id, job[w].hash>>}
    /\ pc' = [pc EXCEPT ![w] = "idle"]
    /\ job' = [job EXCEPT ![w] = NoJob]
    /\ open' = open \ {job[w].hash}
    /\ UNCHANGED <<doc_id, rec, next_doc_id, processVars>>

\* The process ends or dies, at any moment.
Stop ==
    /\ running
    /\ running' = FALSE
    /\ pc' = [w \in Worker |-> "idle"]
    /\ job' = [w \in Worker |-> NoJob]
    /\ UNCHANGED <<tableVars, starts, open>>

WorkerStep(w) ==
    \/ \E h \in Hash, p \in Page : Fetched(w, h, p)
    \/ GetNextDocId(w)
    \/ SetNextDocId(w)
    \/ Put(w)
    \/ PutDomain(w)

Next ==
    \/ Start
    \/ Stop
    \/ \E w \in Worker : WorkerStep(w)

Spec == Init /\ [][Next]_vars

-----------------------------------------------------------------------------
\* Two documents never share an id, and the next id is above all of them:
\* what a crash leaves behind never leads to an id that is given twice.
DocIdsUnique ==
    /\ \A h \in Hash : doc_id[h] < next_doc_id
    /\ \A h, g \in Hash : h # g /\ doc_id[h] # 0 => doc_id[h] # doc_id[g]

\* The domain index holds at most one entry for a document, under its id.
DomainLeadsToDoc == \A e \in domain : doc_id[e[2]] = e[1]

\* A document keeps its id for good, and ids are not handed out again: click
\* counts are stored under the id and stay with their document.
IdsAreStable ==
    [][/\ next_doc_id' >= next_doc_id
       /\ \A h \in Hash : doc_id[h] # 0 => doc_id'[h] = doc_id[h]]_vars

\* Whatever was cut short before: once a page has been processed to the end,
\* all eight records are of that one page.
RecordsOfOnePage ==
    \A h \in Hash \ open : \A f, g \in Family : rec[h][f] = rec[h][g]
=============================================================================
