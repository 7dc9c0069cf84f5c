------------------------------- MODULE Recrawl -------------------------------
(***************************************************************************)
(* When a stored page is fetched again (storage/rocksdb_store.cpp:         *)
(* recordCrawlResult, getUrlsBatch, getAllDocumentUrls; main.cpp,          *)
(* --crawl-database; crawler/engine.cpp, the branches of processItem).     *)
(* A session picks a batch of documents; its workers fetch each of them    *)
(* and write what came back with a record of when to come again.  The      *)
(* process may die between any two writes.                                 *)
(*                                                                         *)
(* Time is in hours and an interval is cut to whole hours.  A change rate  *)
(* r in 0 .. 1 is the integer r * Unit; with Unit = 4^n the first n        *)
(* averages are exact.                                                     *)
(***************************************************************************)
EXTENDS Integers, FiniteSets, FiniteSetsExt

CONSTANTS
    Worker,           \* the worker threads
    URL,
    Depth,            \* slashes of the path of a URL
    Ending,           \* what a URL ends in: "page", "asset" or "other"
    Content,          \* hashes of what a page may hold
    NoContent,        \* the empty hash
    Code,             \* answers; 0 when there is none
    Limit,            \* how many URLs a batch may have
    MAX_RETRY_COUNT,
    Unit,
    Wait,             \* steps of the clock, in hours
    MaxTime,          \* bounds of an instance
    MaxSessions,
    MaxAgain          \* how often a URL is let in again after a timeout

ASSUME RecrawlAssumption ==
    /\ IsFiniteSet(Worker)
    /\ IsFiniteSet(URL)
    /\ Depth \in [URL -> Nat]
    /\ Ending \in [URL -> {"page", "asset", "other"}]
    /\ NoContent \notin Content
    /\ Code \subseteq Nat
    /\ {Limit, MAX_RETRY_COUNT, Unit, MaxTime, MaxSessions} \subseteq Nat \ {0}
    /\ MaxAgain \in Nat
    /\ Wait \subseteq Nat \ {0}

VARIABLES
    now,
    doc,         \* URLs with a DocCore
    fetch_meta,  \* FetchMeta: the time of the fetch, 0 when there is none
    content,     \* ContentMeta: hash, or NoContent
    record,      \* the recrawl record of a URL; last = 0 when there is none
    session,     \* "none", "due" (a batch of getUrlsBatch), "all" (fallback)
    sessions,    \* sessions started
    todo,        \* URLs of the session still to be fetched
    seen,        \* URLs push refuses in this session: pending or with an outcome
    tries,       \* retry_count of a URL in this session
    job,         \* the page a worker is writing, if any
    touched,     \* history: when the URL was last fetched, 0 for never
    unseen,      \* history: number of changes put in ContentMeta but in no record
    again,       \* history: how often the URL was let in again after a timeout
    crashes      \* history

storeVars == <<doc, fetch_meta, content, record>>
sessionVars == <<session, sessions, todo, seen, tries, job>>
historyVars == <<touched, unseen, again, crashes>>
vars == <<now, storeVars, sessionVars, historyVars>>

-----------------------------------------------------------------------------
Clamp(x, low, high) == IF x < low THEN low ELSE IF x > high THEN high ELSE x

OneHour == 1
OneWeek == 7 * 24
Longest == 14 * 24

\* Classification of an answer (net/response_classifier.cpp).
Classify(code) ==
    IF code = 0 THEN "NETWORK_ERROR"
    ELSE IF code \in 200 .. 299 THEN "OK"
    ELSE IF code \in 300 .. 399 THEN "REDIRECT"
    ELSE IF code \in 400 .. 499 THEN "CLIENT_ERROR"
    ELSE IF code >= 500 THEN "SERVER_ERROR"
    ELSE "NETWORK_ERROR"

IsRetryableStatus(code) == code \in {0, 408, 429} \/ code >= 500

\* A "/" or .html at the end counts for a page, .css or .png against it.
UrlPriorityScore(u) ==
    Clamp(50 - 5 * Depth[u] + [page |-> 10, asset |-> -25, other |-> 0][Ending[u]],
          0, 100)

ComputeBaseRecrawlInterval(rate, priority) ==
    Clamp((((OneWeek * Unit - (OneWeek - OneHour) * Clamp(rate, 0, Unit))
              * (1000 - 6 * Clamp(priority, 0, 100))) \div (1000 * Unit)),
          OneHour, OneWeek)

\* Variant: the shift is not capped and runs out of its 8 bits.
BackoffWrapping(failures) == Clamp((OneHour * 2 ^ failures) % 8, OneHour, Longest)

ComputeFailureBackoff(failures) ==
    Clamp(OneHour * 2 ^ Clamp(failures, 0, 8), OneHour, Longest)

NoRecord == [last |-> 0, next |-> 0, failures |-> 0, rate |-> 0,
             hash |-> NoContent, status |-> 0]

NoJob == [url |-> NoContent, hash |-> NoContent, step |-> "none", changed |-> FALSE]

\* Some pages were stored before, by a version that wrote no record.
Init ==
    /\ now = 1
    /\ doc \in (SUBSET URL) \ {{}}
    /\ fetch_meta = [u \in URL |-> IF u \in doc THEN 1 ELSE 0]
    /\ \E c \in Content :
         content = [u \in URL |-> IF u \in doc THEN c ELSE NoContent]
    /\ record = [u \in URL |-> NoRecord]
    /\ session = "none"
    /\ sessions = 0
    /\ todo = {}
    /\ seen = {}
    /\ tries = [u \in URL |-> 0]
    /\ job = [w \in Worker |-> NoJob]
    /\ touched = fetch_meta
    /\ unseen = 0
    /\ again = [u \in URL |-> 0]
    /\ crashes = 0

-----------------------------------------------------------------------------
(* The choice of a batch: the state of a document, with the defaults taken *)
(* from its other records.                                                 *)

LastCrawl(u) == IF record[u].last = 0 THEN fetch_meta[u] ELSE record[u].last

\* QualitySignals::update_frequency is always 1, a rate of a tenth.
Rate(u) == IF record[u].rate = 0 THEN Unit \div 10 ELSE record[u].rate

Status(u) == IF record[u].status = 0 /\ fetch_meta[u] # 0 THEN 200
             ELSE record[u].status

\* A document without a record is due at its fetch time plus an interval;
\* without a fetch time at once.
NextCrawl(u) ==
    IF record[u].next # 0 THEN record[u].next
    ELSE IF LastCrawl(u) = 0 THEN 0
    ELSE LastCrawl(u) +
           IF IsRetryableStatus(Status(u))
             THEN ComputeFailureBackoff(Max({record[u].failures, 1}))
             ELSE ComputeBaseRecrawlInterval(Rate(u), UrlPriorityScore(u))

IsDue(u) == u \in doc /\ NextCrawl(u) <= now

\* 2400 * Unit times the score of the code.
Score(u) ==
    LET age == IF LastCrawl(u) = 0 THEN now ELSE now - LastCrawl(u)
        overdue == IF NextCrawl(u) = 0 THEN age ELSE now - NextCrawl(u)
    IN Unit * (UrlPriorityScore(u) * 1080
               + Min({40, overdue}) * 2400
               + Min({25 * 24, age}) * 100
               - Min({25, 5 * record[u].failures}) * 2400)
       + Rate(u) * 30 * 2400

Before(u, v) ==
    \/ Score(u) > Score(v)
    \/ Score(u) = Score(v) /\ LastCrawl(u) < LastCrawl(v)

\* The first Limit candidates of an order that leaves ties open.
GetUrlsBatch ==
    LET due == {u \in URL : IsDue(u)}
    IN {b \in SUBSET due :
          /\ Cardinality(b) = Min({Limit, Cardinality(due)})
          /\ \A u \in due \ b, v \in b : ~Before(u, v)}

GetAllDocumentUrls ==
    {b \in SUBSET doc : Cardinality(b) = Min({Limit, Cardinality(doc)})}

-----------------------------------------------------------------------------
StartSession ==
    /\ session = "none"
    /\ sessions < MaxSessions
    /\ sessions' = sessions + 1
    /\ \E batch \in GetUrlsBatch :
         IF batch # {}
           THEN session' = "due" /\ todo' = batch
           ELSE session' = "all" /\ todo' \in GetAllDocumentUrls
    /\ seen' = todo'
    /\ tries' = [u \in URL |-> 0]
    /\ UNCHANGED <<now, storeVars, job, historyVars>>

\* With --crawl-links a page may lead to any URL that push accepts
\* (frontier.cpp:57-73), due or not: one the session has not met, or one it
\* gave up with a timeout, which gets a new budget.
FindLink(w, u) ==
    /\ job[w].step = "links"
    /\ u \notin seen
    /\ tries[u] > 0 => again[u] < MaxAgain
    /\ todo' = todo \cup {u}
    /\ seen' = seen \cup {u}
    /\ tries' = [tries EXCEPT ![u] = 0]
    /\ again' = IF tries[u] > 0 THEN [again EXCEPT ![u] = @ + 1] ELSE again
    /\ UNCHANGED <<now, storeVars, session, sessions, job, touched, unseen, crashes>>

\* The workers have left: nothing is queued, or the crawl was interrupted.
EndSession ==
    /\ session # "none"
    /\ \A w \in Worker : job[w] = NoJob
    /\ session' = "none"
    /\ todo' = {}
    /\ UNCHANGED <<now, storeVars, sessions, seen, tries, job, historyVars>>

\* A worker that has nothing in hand takes a URL of the session.
Takes(w, u) == job[w] = NoJob /\ u \in todo

\* Variant: a failed answer leaves the next time of the record.
RecordKeepsNext(u, code, hash, changed) ==
    LET r == record[u]
        rate == (3 * r.rate + IF changed THEN Unit ELSE 0) \div 4
        failed == IsRetryableStatus(code)
    IN [last |-> now,
        status |-> code,
        failures |-> IF failed THEN r.failures + 1 ELSE 0,
        rate |-> IF failed THEN r.rate ELSE rate,
        next |-> IF failed THEN r.next ELSE
                 now + ComputeBaseRecrawlInterval(rate, UrlPriorityScore(u)),
        hash |-> IF hash = NoContent THEN r.hash ELSE hash]

\* recordCrawlResult, one read and one write under the store's mutex.
RecordCrawlResult(u, code, hash, changed) ==
    LET r == record[u]
        rate == (3 * r.rate + IF changed THEN Unit ELSE 0) \div 4
        failed == IsRetryableStatus(code)
    IN [last |-> now,
        status |-> code,
        failures |-> IF failed THEN r.failures + 1 ELSE 0,
        rate |-> IF failed THEN r.rate ELSE rate,
        next |-> now + IF failed THEN ComputeFailureBackoff(r.failures + 1)
                       ELSE ComputeBaseRecrawlInterval(rate, UrlPriorityScore(u)),
        hash |-> IF hash = NoContent THEN r.hash ELSE hash]

\* A page with any content: DOC_CORE is put, the other records follow.
FetchOK(w, u, code, c) ==
    /\ Takes(w, u)
    /\ code = 200
    /\ todo' = todo \ {u}
    /\ doc' = doc \cup {u}
    /\ job' = [job EXCEPT ![w] = [url |-> u, hash |-> c, step |-> "fetch_meta",
                                  changed |-> FALSE]]
    /\ touched' = [touched EXCEPT ![u] = now]
    /\ UNCHANGED <<now, fetch_meta, content, record, session, sessions,
                   seen, tries, unseen, again, crashes>>

\* robots.txt forbids the page, or processItem throws before the first put.
NotFetched(w, u) ==
    /\ Takes(w, u)
    /\ todo' = todo \ {u}
    /\ UNCHANGED <<now, storeVars, session, sessions, seen, tries, job, historyVars>>

\* Any other 2xx ends the work on the page and leaves no record at all.
FetchUnstored(w, u, code) ==
    /\ Takes(w, u)
    /\ Classify(code) = "OK" /\ code # 200
    /\ todo' = todo \ {u}
    /\ touched' = [touched EXCEPT ![u] = now]
    /\ UNCHANGED <<now, storeVars, session, sessions, seen, tries, job, unseen,
                   again, crashes>>

PutFetchMeta(w) ==
    /\ job[w].step = "fetch_meta"
    /\ fetch_meta' = [fetch_meta EXCEPT ![job[w].url] = now]
    /\ job' = [job EXCEPT ![w].step = "content"]
    /\ UNCHANGED <<now, doc, content, record, session, sessions, todo,
                   seen, tries, historyVars>>

\* Variant: the previous hash is read after the new one is put.
ChangedReadLate(u, hash) == FALSE

\* The previous hash was read before the puts; nobody else writes it, since
\* the page is in no other worker's hands.
ContentChanged(u, hash) == content[u] \notin {NoContent, hash}

PutContentMeta(w) ==
    LET u == job[w].url
        hash == job[w].hash
        changed == ContentChanged(u, hash)
    IN /\ job[w].step = "content"
       /\ content' = [content EXCEPT ![u] = hash]
       /\ job' = [job EXCEPT ![w].step = "record", ![w].changed = changed]
       /\ unseen' = IF content[u] \in {NoContent, hash} THEN unseen ELSE unseen + 1
       /\ UNCHANGED <<now, doc, fetch_meta, record, session, sessions,
                      todo, seen, tries, touched, again, crashes>>

Record(w) ==
    /\ job[w].step = "record"
    /\ record' = [record EXCEPT ![job[w].url] =
                    RecordCrawlResult(job[w].url, 200, job[w].hash, job[w].changed)]
    /\ unseen' = IF job[w].changed THEN unseen - 1 ELSE unseen
    /\ job' = [job EXCEPT ![w].step = "links", ![w].changed = FALSE]
    /\ UNCHANGED <<now, doc, fetch_meta, content, session, sessions, todo,
                   seen, tries, touched, again, crashes>>

\* The link loop is over, and the page is reported fetched.
Finish(w) ==
    /\ job[w].step = "links"
    /\ job' = [job EXCEPT ![w] = NoJob]
    /\ UNCHANGED <<now, storeVars, session, sessions, todo, seen, tries, historyVars>>

\* A redirect or a client error is terminal; 429 is a client error here.
FetchTerminal(w, u, code) ==
    /\ Takes(w, u)
    /\ Classify(code) \in {"REDIRECT", "CLIENT_ERROR"}
    /\ todo' = todo \ {u}
    /\ record' = [record EXCEPT ![u] = RecordCrawlResult(u, code, NoContent, FALSE)]
    /\ touched' = [touched EXCEPT ![u] = now]
    /\ UNCHANGED <<now, doc, fetch_meta, content, session, sessions, seen,
                   tries, job, unseen, again, crashes>>

\* Variant: a failed URL is tried until it answers.
FetchRetryableForever(w, u, code) ==
    /\ Takes(w, u)
    /\ Classify(code) \in {"SERVER_ERROR", "NETWORK_ERROR"}
    /\ record' = [record EXCEPT ![u] = RecordCrawlResult(u, code, NoContent, FALSE)]
    /\ touched' = [touched EXCEPT ![u] = now]
    /\ UNCHANGED <<now, doc, fetch_meta, content, sessionVars, unseen, again, crashes>>

\* A server or network error is recorded and, while tries are left, the URL
\* is fetched again in the same session.  One that is given up stays so, but
\* for a last attempt that timed out (no answer, and the status TIMEOUT): push
\* does not refuse it.
FetchRetryable(w, u, code) ==
    LET left == tries[u] + 1 < MAX_RETRY_COUNT
    IN /\ Takes(w, u)
       /\ Classify(code) \in {"SERVER_ERROR", "NETWORK_ERROR"}
       /\ record' = [record EXCEPT ![u] = RecordCrawlResult(u, code, NoContent, FALSE)]
       /\ tries' = [tries EXCEPT ![u] = @ + 1]
       /\ todo' = IF left THEN todo ELSE todo \ {u}
       /\ \/ seen' = seen
          \/ code = 0 /\ ~left /\ seen' = seen \ {u}
       /\ touched' = [touched EXCEPT ![u] = now]
       /\ UNCHANGED <<now, doc, fetch_meta, content, session, sessions,
                      job, unseen, again, crashes>>

\* The process dies; the records that were not written are lost.
Crash ==
    /\ session # "none"
    /\ session' = "none"
    /\ todo' = {}
    /\ job' = [w \in Worker |-> NoJob]
    /\ crashes' = crashes + 1
    /\ UNCHANGED <<now, storeVars, sessions, seen, tries, touched, unseen, again>>

Tick ==
    /\ \E d \in Wait : now + d <= MaxTime /\ now' = now + d
    /\ session = "none"
    /\ UNCHANGED <<storeVars, sessionVars, historyVars>>

WorkerStep(w) ==
    \/ \E u \in todo, code \in Code :
         \/ \E c \in Content : FetchOK(w, u, code, c)
         \/ FetchUnstored(w, u, code)
         \/ FetchTerminal(w, u, code)
         \/ FetchRetryable(w, u, code)
    \/ \E u \in todo : NotFetched(w, u)
    \/ PutFetchMeta(w)
    \/ PutContentMeta(w)
    \/ Record(w)
    \/ \E u \in URL : FindLink(w, u)
    \/ Finish(w)

Next ==
    \/ StartSession
    \/ \E w \in Worker : WorkerStep(w)
    \/ EndSession
    \/ Crash
    \/ Tick

Spec == Init /\ [][Next]_vars

-----------------------------------------------------------------------------
\* Whatever it answered and wherever the process died: a stored page is due
\* again at most 14 days after it was last fetched, and if that fetch was
\* recorded not before an hour has passed.
NeverForgotten ==
    \A u \in doc :
      /\ NextCrawl(u) <= touched[u] + Longest
      /\ record[u].last = touched[u] /\ touched[u] # 0
           => NextCrawl(u) >= touched[u] + OneHour

\* The workers between ContentMeta and the record of a page that changed.
Changing == {w \in Worker : job[w].changed}

\* Every change that a fetch saw is counted in the page's change rate, but
\* for those whose page a worker was about to record when the process died:
\* at most one per worker and crash (engine.cpp:256-268).
ChangesCounted == unseen <= Cardinality(Worker) * crashes + Cardinality(Changing)

\* A page that goes on failing is left alone for longer and longer.
BackoffGrows ==
    [][\A u \in URL :
         /\ record[u].failures > 0
         /\ record'[u].failures > record[u].failures
         => record'[u].next - record'[u].last >= record[u].next - record[u].last]_vars

\* A session counts at most MAX_RETRY_COUNT failures of a page, and as many
\* again each time that a link brings the page back after a timeout
\* (frontier.cpp:57-73 accepts it and starts its count at 0): an outage sets a
\* page back by a time that grows with the links that are followed to it.
FailuresPerSession ==
    \A u \in URL : record[u].failures <= MAX_RETRY_COUNT * (sessions + again[u])

=============================================================================
