# A TLA+ model of VairagyaEngine

VairagyaEngine is a single-machine web crawler with a local search API. In
crawler mode a pool of threads takes URLs from a shared frontier, fetches and
parses pages, writes them to RocksDB and pushes the links it finds; in API mode
the stored pages are loaded into an in-memory index that an HTTP server queries.
This directory holds TLA+ modules for its core, the TLC runs that check them and
TLAPS proofs about them. Paths below are relative to `VairagyaEngine/` in the
repository; `CPI` is `CRAWLER_PROJECT_INFORMATION.md`.

## 1. Inventory

| Component | State | Operations | Hard behaviour | Correct when |
|---|---|---|---|---|
| Frontier (`src/crawler/frontier.cpp`) | host queues, `urlStates`, `active_workers_`, `accepting_work_`, one mutex | push, popWait, markFetched/Failed/Retry/Disallowed, completeWork, shutdown, getPendingURLs | blocking wait that doubles as termination detection; retries; a status that means "pending" | a URL is in one place, within its budget, never fetched after an outcome; nobody leaves early |
| Engine (`src/crawler/engine.cpp`) | worker threads, `g_running`, `running` | workerLoop, processItem, addURL, mark*, runCrawler | frontier and database are updated one after the other; exceptions; SIGINT at any moment | every crawl ends; what is pending survives |
| Pending store (`src/storage/rocksdb_store.cpp` 276-364) | `pending_url:*` keys, old `__pending_urls__` list | mark, clear, save, load | crash between any two writes | a resumed crawl continues where the first stopped |
| Document store (same file, `include/storage/db_schema.hpp`) | nine column families, `next_doc_id`, domain index | the puts of one page, removeDuplicateURLs | several writes per page or cleanup, no batch | ids unique, records consistent after a crash, a cut cleanup can be repeated |
| Recrawl scheduler (same file 44-147, 366-601) | `recrawl:*` records | recordCrawlResult, getUrlsBatch, getAllDocumentUrls | intervals, failures, records written at different times | no page is forgotten, changes are counted, backoff grows |
| Robots (`src/host/robots_manager.cpp`) | rules per host | extractRobotsDirectives, robotsMatch, updateRobots, canFetch | lazily fetched by concurrent workers; groups; matcher with `*` and `$` | a disallowed URL is never fetched, a permitted one never left out |
| Fetch and classification (`src/net`) | none | fetch, classify | timeouts, answers of any kind | every answer is handled by one branch |
| URL rules (`src/url`, `isHtmlPageUrl`) | none | processURL, resolveRelativeURL, classifyResourceType, priorityScore | several filters for one question, byte arithmetic | the filters agree where it matters |
| HTML parser, pipeline builders (`src/html`, `src/pipeline`) | none | extractLinks, cleanText, extractTitle, control flags | four scanners with four ideas of a comment | text, links and flags of a well-formed page are right |
| Query (`src/query`) | index, click counts, LRU cache of answers | load, search, registerClick | threads of the HTTP server search and click at once; fuzzy expansion; pages | an answer is not older than a click; the cache is LRU; no answered click is lost |
| API (`src/api/search_api.cpp`) | none | /search, /click, /stats, /health | several server threads | - |
| Rate limiter (`src/host/rate_limit.cpp`) | next time per host | canFetch, recordFetch | not called by the engine | - |
| Main (`src/main.cpp`) | command line | modes, seeds, resume, cleanup, signal handler | restarts | - |

Interactions: `main` calls `runCrawler`, which owns an `Engine`; its threads
call the `Frontier` (one mutex), the `RocksDBStore` (another) and the
`RobotsManager` (a third); no lock is held across two of them. The only other
shared state is `g_running`, cleared by the signal handler. The API reads what
the crawler wrote, in another process and after it, and writes only click
counts. The repository has no tests; the statements the runs compare the code
with come from `README.md`, `CPI` and the comments.

## 2. Modules

| Module | Models |
|---|---|
| `Frontier` | the methods of class `Frontier`, each one action on its variables (each holds the mutex from beginning to end) |
| `CrawlPool` | the frontier driven by the main thread and the workers; what pages hold and how they answer is arbitrary |
| `PendingStore` | the pending marks in the database |
| `CrawlEngine` | one run of the crawler: frontier, marks and workers, with a step of its own for every call on the frontier and on the store |
| `CrawlResume` | several processes over one database: crash or end at any moment, then `--resume-db` |
| `DocStore` | what a page leaves in the database: document id, eight records, domain entry, put by put |
| `Dedup` | `--remove-duplicates` delete by delete, cut at any point and repeated, with pages crawled before and after |
| `Recrawl` | `--crawl-database`: the choice of a batch, the answers, the recrawl record and the writes around it, over a clock |
| `RobotsRules` | operators: the robots.txt parser, the matcher, the decision |
| `Robots` | workers that fetch, store and obey rules; `EXTENDS RobotsRules` |
| `SearchApi` | the threads of the search server: cache, click counts, database |
| `SearchText` | operators: what the index is loaded from, tokens, fuzzy expansion, retrieval, pages of an answer |
| `UrlRules` | operators: normal form, classification, priority, filters of seeds and links |
| `PageRules` | operators: links, text, title, description and robots flags of a page |
| `TextRules` | the algorithms of `RobotsRules`, `SearchText`, `UrlRules` and `PageRules`, each compared with a definition written another way; says what a well-formed page is |
| `CrawlPoolProofs`, `CrawlResumeProofs`, `DocStoreProofs`, `DedupProofs`, `RecrawlProofs`, `RobotsProofs`, `SearchApiProofs`, `TextRulesProofs` | theorems about the modules they are named after; those about `CrawlEngine` are in `CrawlResumeProofs` |
| `MC...` | values for TLC |

`CrawlPool` is the abstract specification, `CrawlEngine` the detailed one:
`CrawlEngine` instantiates `CrawlPool` (`Pool`), the run `engine` checks
`ImplementsPool`, and `EngineImplementsPool` proves it for every instance, so
what is proved of the pool holds of the engine. `Robots`, `DocStore` and
`Recrawl` look at other parts of `processItem` over the same worker loop and rely on one fact of the
pool, that no two workers have one URL (`OnePlace`, proved). `Dedup` takes the
crawl of a page, which is `DocStore` put by put, as one step.

### How state corresponds to code

Crawl:

- `hostQueue[u]` counts the items of URL `u`. Host and priority are functions of
  the URL (`extractHost`, `priorityScore`), so the queues need no more. Depth,
  referrer and the item's copy of the retry count decide nothing. Which host
  `popLocked` looks at first is the order of an `unordered_map`, and equal
  priorities leave a heap in any order: both are nondeterministic (`IsTop`).
- `fetch_status` is `urlStates[u].fetch_status`, with `NoEntry` when there is no
  entry. The code has no value for "pending" and uses `UNKNOWN_ERROR`; so does
  `Pending`. A retried attempt can carry `SUCCESS` (any HTTP answer, also 5xx),
  `FAILED` or `TIMEOUT`.
- `popWait` is `PopWaitItem` or `PopWaitNothing`, enabled when `MustWait` is
  false. The timed wait of 250 ms re-tests its condition, so a lost notify does
  not matter, and none is modelled.
- A worker's `pc` in `CrawlEngine`: `loop` (in popWait), `work` (processItem up
  to the answer), `links` (the link loop), `mark_link` (addURL between push and
  markPendingURL), `mark_again` and `clear` (between the frontier's mark method
  and the store's), `complete` (the completion guard), `exit`.
- `Engine::running` is only cleared by `shutdown`, after the workers are joined,
  so it never differs from TRUE while a worker looks at it.
- `Links` are the links that pass the filters of the link loop other than that
  of `--same-domain`, `Body` the URLs that runCrawler takes as seeds (HTML or
  text). A page answers with the same links every time; which of them a process
  follows depends on its `allowed_domains` (`AllowedLinks`), which `main` takes
  from the URLs it starts with: the seeds, or in `Resume` the pending marks.
  Hosts are values, and `Subdomain` gives those that end in a dot and the host.
  Every process of `CrawlResume` gets the same options, the seeds are in small
  letters, and the database holds no marks of another crawl at the start.
- The third `savePendingURLs` of `runCrawler` writes the set the second one wrote
  and is not a separate step. `savePendingURLs` is one step although it writes
  key by key: the keys it adds are those of URLs with no mark, and a crash in
  the middle leaves a state that a crash before or after it also protects.
- A RocksDB write that returned is taken to survive the process. Writes that
  fail are not modelled.

Documents:

- In `DocStore` a worker's `pc` is `lock` (waiting for `doc_id_mutex_`),
  `set_next` (holding it, between `getNextDocId` and `setNextDocId`), `put` and
  `domain`. `rec[h][f]` says which page a record was built from.
- In `Dedup` keys are numbers in the order of the iterator. The seven families
  other than `DOC_CORE` are one set, `other`: the code deletes a key from each of
  them in turn, and a cut in the middle differs from one before it only in how
  many are left. `UrlOf` is the URL a record names, `Sha` the key this version
  computes for it; `Init` is any database of an older version within the bounds.
  Keys start at 1: `kept[u]` is 0 while the scan has met no record of `u`.
- In `Recrawl` a time is a number of hours and a rate `r` the integer
  `r * Unit`; intervals are cut to whole hours, the code cuts to seconds. `Score`
  is the score of `getUrlsBatch` times 2400 `Unit`. `UrlPriorityScore` is what
  `recordCrawlResult` uses. `job[w]` is the page that worker `w` writes, put by
  put, and then goes through for links; two pages of two workers are written at
  once. An answer without a page is one step with its record, because the URL is
  in no other worker's hands. `seen` are the URLs `push` refuses: `FetchRetryable`
  takes a URL out of it that is given up with a timeout, and `FindLink` lets it
  in again with no tries used. `NotFetched` is a page that robots.txt forbids or
  an exception before its first put. `touched`, `unseen` (the changes of all
  pages that no rate counts), `again` and `crashes` are history.

Robots:

- A rule and a path are sequences of characters, a robots.txt its lines without
  comments and blanks. `cache[h]` is `Unknown` without an entry. `pc` is `robots`
  while robots.txt is requested and `update` between the parser and
  `updateRobots`. `refused`, `requests` and `skipped` are history. The frontier
  is reduced to what decides whether a URL comes back.

Search:

- `entries` is `cache_entries_`, `cache_index` the keys of the map; `Replace` and
  `Insert` are the two branches of `putCached`. An answer is
  the click counts it was computed from (`seen`), since they are all that can
  change after loading. `++click_count` without a lock is a data race: `ReadCount`
  and `WriteCount` are the outcome that loses an increment, their adjacency the one
  that does not. `late` and `recent` are history.
- `SearchText` leaves scores and weights open: `Search` is the set of documents
  that get a score, and a ranking is any order of them. Fuzzy ties are left open.

Pure rules:

- A URL in `UrlRules` is a record of the features the rules look at (scheme,
  labels, port, directories, ending, query, and whether scheme and host are
  written with capitals). `NormalizeURI` lowers both, as `u.normalize()` does;
  `ResolveRelativeURL` looks at the scheme before that, as it is written. A
  reference of nothing but a fragment, or of nothing, is refused; one of nothing
  but a query keeps the path of its base. `None` is a URL that Boost.URL or the
  scheme filter refuses.
- A page in `PageRules` is a sequence of pieces: words, tags with their
  attributes, end tags, comment marks. Each of the four scanners is a fold over
  the pieces with its own idea of what hides what.

## 3. Runs

Passing runs:

| Run | Instance | Shows |
|---|---|---|
| `pool` | 3 URLs, 2 hosts, 2 workers, `MAX_RETRY_COUNT` = 3 | type, `ActiveIsBusy`, `OnePlace`, `PendingIsSomewhere`, `RetryBudget`, `NoEarlyExit`, `OutcomeIsFinal` |
| `engine` | 3 pages that link to each other, 2 seeds, 2 workers, 2 attempts, retries that time out | `ImplementsPool`, `Termination` |
| `resume` | `--same-domain`; a seed, a page of a subdomain, a file that is no seed and a page of the parent domain, 2 workers, 2 restarts at any step, no SIGINT | `CrashSafe`, `MarkOutlivesWork`, `ResumeComplete`, `StaysInDomain` |
| `docs` | 2 URLs, 2 workers, 3 processes, 3 document ids | `DocIdsUnique`, `IdsAreStable`, `DomainLeadsToDoc`, `RecordsOfOnePage` |
| `dedup` | 2 URLs under 4 keys, any older database with ids below 4, 2 cleanups, 1 crawl | `LowestIdStays`, `CleanedUp`, `RightEntryStays`, `NewIdsAreFresh` |
| `recrawl` | 2 workers, 2 pages, 2 contents, answers 200, 204, 404, 429, 503 and none, 2 sessions, 201 hours | `NeverForgotten`, `ChangesCounted`, `FailuresPerSession`, `BackoffGrows` |
| `robots` | 5 pages of 2 hosts, 2 workers | `ObeysRobots`, `BlocksOnlyForbidden` |
| `query` | 2 threads, 3 keys, a cache of 2, 2 documents, 3 clicks, 1 restart | `CacheIsLRU`, `StaleOnlyIfLate`, `ClicksKept` |
| `text` | all inputs of the sizes below | `RobotsMatchRight`, `GroupsRight`, `EditDistanceRight`, `ResultsRight`, `PagesRight`, `UrlRulesRight`, `PageRight` |

Runs that end in a counterexample, each one a disagreement between the code and
what it says of itself (quoted in `PROJECT.json`):

| Run | Violated | What happens |
|---|---|---|
| `timeout` | `PendingSavedForResume` | worker A gives up a URL on a timeout (status `TIMEOUT`); B finds a link to it, pushes it and marks it; A clears the mark. The URL is queued and unprotected. |
| `sigint` | `ResumeComplete` | the interrupt ends a page's link loop and the page is still reported fetched. |
| `anchor` | `MatchesAsDocumented` | a rule `*a$` does not match a path with two `a`: the loop stops at the anchor before the `*` is tried at a later place. |

What the passing runs say in words:

- `resume`: a URL that was accepted and has no outcome is marked, or its page is
  and the worker stands between push and mark (`CrashSafe`); a mark leaves only
  when its URL has had an outcome or is not taken as a seed
  (`MarkOutlivesWork`); without a crash, exceptions alone lose no seed and no
  link that the process which fetched its page may follow (`ResumeComplete`);
  and however the domains of a resumed process shrink, none leaves those of the
  seeds (`StaysInDomain`). `ResumeComplete` does not claim the links that a
  resumed process may not follow any more (see the observations). Its
  `RetryOutcome` leaves out `TIMEOUT`, which the run `timeout` is about, and its
  `Interrupts` leaves out SIGINT, which the run `sigint` is about.
- `docs`: `next_doc_id` is written before the first record, so a crash wastes an
  id and never gives one twice; a URL that is processed to the end after a crash
  has eight records of that fetch. A document has at most one domain entry, not
  always one (see the observations).
- `dedup`: wherever a cleanup dies, no page is lost, and the next one leaves one
  record per URL; what it may not find are orphans (see the observations).
- `recrawl`: a stored page is due again at most 14 days after its last fetch; a
  change is missed by the rate only in a crash, which may hit every worker
  between content hash and record (`engine.cpp` 256-262) and so loses at most one
  for each; a session counts at most `MAX_RETRY_COUNT` failures of a page, and as
  many again each time a link lets it in after a timeout.
- `robots`: a forbidden page is requested only after a request for the host's
  robots.txt failed, which the code takes for "everything is allowed"; nothing
  permitted is left out. How often a host is asked is not checked here: the
  documented once (`CPI` 371) is false of the code, and the bound that is left,
  once per worker, is a theorem.
- `query`: list and map of the cache agree and are the keys used last; only an
  answer that was being computed while a click cleared the cache may be stale;
  every answered click is in the database.

### Bounds

Two workers are enough for every pair of steps to interleave, and three URLs for
one to be queued, one processed and one found; two share a host queue with
different priorities. `MAX_RETRY_COUNT` is the build's value in `pool` and 2 in
the engine's runs: one retry and one exhaustion, which is every branch of
`markRetry`. In `resume` two restarts (`MaxResumes` = 2) give every pair of crash
points and a complete run after them, and let the allowed domains shrink (from
those of the seed to the subdomain alone) before a link back is met. Three starts (`MaxStarts`) in `docs` give a crash of a
first fetch, a crash of the fetch that repeats it and a complete one;
`MaxDocId` = 3 wastes at least one id.

In `dedup` one URL has up to three keys, so that the lowest id may be the first,
the middle or the last of them, and `MaxRuns` = 2 gives every cut a repetition.
In `recrawl` a batch holds both pages (`Limit` = 2), so that two workers write at
once; when only one is due, a link brings the other. `Wait` = 100 hours lies
between the intervals of a failed and of a quiet page. Two sessions with two
tries each and one more budget after a timeout (`MaxAgain` = 1) reach six
failures, where the cap of the shift is at eight. In
`robots` host `a` forbids a directory but one page of it to us and everything to
others, and `b` forbids a suffix, so a worker that confuses hosts, groups or failures is found out. `query` has one
key more than the cache has places. In `text` paths have up to 3 characters and
rules up to 4, over letters, `*` and `$`; files up to 4 of 8 lines; words up to 4
letters of 2; databases up to 3 of 7 rows; rankings up to 4 documents; URLs all
combinations of the listed features, with depths on both sides of 10 and of 256;
pages up to 3 of 12 blocks.

Symmetry is over the workers (the hashes of `docs`, the contents of `recrawl`,
the threads of `query`), and not in `engine`, which checks liveness.
`CHECK_DEADLOCK` is on where `Done` is the only way to stop; `docs`, `dedup` and
`recrawl` turn it off, because the last process they allow may end.

### Fairness

`FairSpec` of `CrawlEngine` has weak fairness of the main thread and of each
worker. Threads are scheduled, and a waiting worker tests its condition every
250 ms, so none of the worker's steps needs more than weak fairness. The one
assumption that is not the scheduler's is that a fetch ends: `net::fetch` uses
blocking calls, which `expires_after` does not bound, so this is an assumption
about the network. Nothing is assumed about which answers come, about interrupts
or exceptions.

## 4. Proofs

`CrawlPoolProofs` proves, for every set of URLs, hosts and priorities, every
finite set of workers and every retry budget up to 255, that `Spec` of
`CrawlPool` implies `[]TypeOK`, `[]ActiveIsBusy`, `[]OnePlace`,
`[]PendingIsSomewhere`, `[]RetryBudget`, `[]NoEarlyExit` and the action property
`OutcomeIsFinal`. The assumptions are those named in `Frontier` and `CrawlPool`.

The invariants are proved in layers, each using those before it:

1. types;
2. phases: workers are all in `loop` before the crawl, all in `exit` after it,
   `accepting_work` is on until it ends, and a worker has an item exactly while
   it is in `work` or `marked`;
3. the count: `active_workers` is the cardinality of `Busy`. Each step adds or
   removes at most one worker, by the library's facts about cardinality;
4. placement: `OnePlace` and `PendingIsSomewhere` are not inductive one without
   the other. That a pushed URL is nowhere else needs that whatever is somewhere
   is pending; that a reported URL is no longer anywhere needs that it was in
   one place;
5. the budget: a pending URL has a retry left. It needs placement, because a
   worker's item is pending when it is reported;
6. early exit: with the count, an empty queue and `active_workers = 0` mean no
   worker is busy, and then nothing can be pushed any more;
7. finality: a reported item is pending by placement, hence not in an outcome.

`RobotsProofs` proves `[]TypeOK`, `[]ObeysRobots`, `[]BlocksOnlyForbidden` and
`[]RequestsBounded` (at most one request of robots.txt per host and worker, where
`CPI` 371 says one per host) of `Robots`, for every set of pages, links and robots.txt
files and every finite set of workers (assumptions `RobotsAssumption` and
`UnknownAssumption`, which says that "no entry" differs from any rules):

1. types (`Typed`);
2. obedience (`Obedient`): rules in the cache or in a worker's hands are the
   served ones, or the empty ones of a host whose request failed; a worker that
   checks has rules to check with; what it goes on to fetch has been checked.
   `ObeysRobots` alone is not inductive: it needs what the worker knew when it
   left the check, and that the cache may change afterwards only in the page's
   favour. Of the parser and the matcher it uses only that empty rules permit
   everything (`NoRulesPermit`);
3. requests (`RequestsCounted`): as long as a host has no rules, the requests
   made for it are as many as the workers between request and update, hence not
   more than there are workers; once it has rules nobody asks.

`DocStoreProofs` proves `[]TypeOK`, `[]DocIdsUnique`, `[]DomainLeadsToDoc`,
`[]RecordsOfOnePage` and the action property `IdsAreStable` of `DocStore`
(assumption `DocAssumption`):

1. types, with the shape of a worker's job in each `pc`;
2. ids (`IdsCorrect`): no two workers have one hash; the worker in `set_next` has
   the next id and is alone there; the id of a document that is not put yet
   (`Unput`) is in no record and in no other worker's hands, and below the next
   id; a worker that has put has the id of the record. `DocIdsUnique` needs all
   of this: the id exists in a worker before it exists in the database;
3. records (`PutSoFar`): a worker's page is open and what it has put is still
   there, because the hash is its own.

The first part of `CrawlResumeProofs` proves `[]TypeOK`, the refinement
`ImplementsPool` and, when no exhausted retry ends as `TIMEOUT`
(`RetryOutcome \subseteq Terminal`), `[]CrashSafe` of `CrawlEngine`, for every
set of URLs, every link structure and every finite set of workers
(`EngineAssumption`, `FrontierAssumption`):

1. types (`Typed`), phases of the main thread (`Phases`) and `Placement`: the
   pool's `OnePlace` and `PendingIsSomewhere` in terms of the engine's own steps;
2. every step is a step of the pool or a stutter (`StepRefines`). The steps
   between the calls on the frontier, which touch only the database, are the
   stutters; the pending URLs that nothing holds (`Dropped`) stand for the pool's
   `abandoned`, and only a worker that gives up its item adds to them;
3. `CrashSafe` with `ClearOK`: a worker that is about to clear a mark has given
   its URL a final outcome, and only page-like URLs are pushed while seeds are
   skipped. The hypothesis is needed: `push` accepts a URL with `TIMEOUT` again,
   `ClearOK` then fails, and the run `timeout` shows the loss.

The theorems on `CrawlPool` are not restated for the engine: `tlapm` does not
instantiate the module they are in. They follow from `EngineImplementsPool`
because the substituted constants meet the pool's assumptions.

Its second part proves, of `CrawlResume`, `[]ResumeTypeOK`, `[]CrashSafe` (same hypothesis),
`[]StaysInDomain`, `MarkOutlivesWork` and, without SIGINT (`~Interrupts`),
`[]ResumeComplete`, for any number of restarts. The invariant of one process holds afresh after each
restart (`ResumeFresh`). `MarkOutlivesWork` needs only that what is about to be
cleared had some outcome (`ClearSettled`), so it holds with timeouts too.
`ResumeComplete` needs that, as long as no process has died, every page-like seed
and every link a worker has gone through is settled, a seed or pending
(`Remembered`), and that this is never unlearned (`KnownStays`). With SIGINT the
first part fails; the run `sigint` shows how. `StaysInDomain` needs that all that
a URL can be taken from is in the domains of the seeds (`Domestic`), that a
process started with such URLs lets no other pass, because a subdomain of a
subdomain is one (`DomainsNarrow`), and that its domains are not empty, for then
the code filters nothing.

`SearchApiProofs` proves `[]ClicksKept`, `[]CacheIsLRU` and `[]StaleOnlyIfLate`
of `SearchApi`, for every finite set of threads, every cache size and every set
of documents (`SearchApiAssumption`):

1. clicks: `Counted` bounds what is stored by the clicks begun and not stored
   yet, and a count that a thread has read and not written by what is stored or
   will be; `Moves` says how the step of one thread changes the numbers of
   threads on the way;
2. cache (`CacheInv`): the history `recent` has each key once, the entries are
   its first ones, as many as fit, and the map has exactly their keys. The lemmas
   say what moving a key to the front and dropping the last do to a sequence;
3. staleness: `StaleOnlyIfLate` is not inductive. An answer that is being
   computed must be as current as a stored one for the documents it has scored
   (`SearchesCurrent`), and a count that differs is excused only by a click that
   is yet to clear the cache.

`RecrawlProofs` proves `[]NeverForgotten`, `[]ChangesCounted`,
`[]FailuresPerSession` and the action property `BackoffGrows` of `Recrawl`, for
every set of URLs, contents and answers and any number of sessions, crashes and
hours (`RecrawlAssumption`):

1. the arithmetic: the powers of the backoff one by one, its bounds, that it is
   monotonic (`BackoffMonotonic`), and that every interval lies between an hour
   and 14 days (`IntervalIn`);
2. `Dated`: no record is dated after its page's last fetch, and its next time is
   within that range of its own date. `DatedImplies` adds the pages without a
   record, which the default interval covers;
3. `WaitKept`: a record with failures holds the wait of their number;
4. `Counted`: the failures are at most those of the earlier budgets and one per
   try of the current one; only a URL that is given up with a timeout starts
   another budget in a session. What is to be fetched is in no two workers' hands;
5. `Counting`: a change that is in nobody's rate is in the hands of a worker
   (`Changing`) or was lost in a crash, which adds at most as many as there are
   workers to what is lost.

`DedupProofs` proves `[]LowestIdStays`, `[]CleanedUp` and the action properties
`RightEntryStays` and `NewIdsAreFresh` of `Dedup`, for every database of the old
version, any number of cleanups and crawls and a crash at any delete
(`DedupAssumption`). That a set of ids has a least and a largest element comes
from the well-foundedness of `<`:

1. `KeptStays`: while a cleanup runs, the key it keeps of a URL is stored and has
   the lowest id left, and every other key of the URL is a duplicate. The type
   invariant is proved together with it;
2. `LowKept`: from the lowest id a URL ever had, a record with at most that id is
   stored. A crash only deletes the plan, never what it kept;
3. `Chosen`: what the cleanup has gone through so far, as each later stage
   relies on the earlier ones being finished;
4. `Fresh` and `Clean`: a repaired `next_doc_id` is above every id, and a cleanup
   that ended leaves one record per URL, and no orphans unless one was cut.

`TextRulesProofs` proves every invariant of `TextRules`: what the run `text`
checks on small inputs holds for inputs of any length. `CaseAssumption` says
what an input is: texts are sequences of characters, lines, rows, documents and
URLs have the fields the code reads, and a page is a sequence of well-formed
blocks. `SynonymsAssumption` says that the synonyms are texts. Induction over
data is done without the library's rules, which take an operator as a parameter:
a counterexample of least measure takes their place (`Induction`), and
`Recursion` says that a function defined by recursion over a bounded measure
exists. A fold is such a function of the number of elements it has seen; each
fold of the model has a lemma that says how one more element changes it.

1. `RobotsMatchRight`: whatever the loop of `robotsMatch` has reached leads to a
   match that the documentation promises (`Leads`), so it never matches too much.
   It matches enough because one star to come back to suffices: a path that can
   be matched from an earlier star can be matched from the last one, which the
   anchor spoils. A weight of the loop's state says that it ends.
2. `GroupsRight`: after each line the parser has read the agents of the run it
   is in, whether the run is still open, and the rules of the runs that named us
   or `*` (`Parsed`).
3. `UrlRulesRight`: by cases over the features of a URL and the kinds of a
   reference. What a link resolves to normalises to what the URL does
   (`ResolvedIs`) unless it leads nowhere (`NoLink`); a score goes down by the
   step of each directory and is cut at both ends.
4. `EditDistanceRight`: the last cell of the matrix is the least number of edits.
   One edit changes it by at most one (`EditNear`), and two words that differ
   have an edit that brings them nearer (`Descent`). Once a whole row is above
   two, so are all rows after it, and a difference of the lengths is a lower
   bound: the early ends hide nothing.
5. `PagesRight`: after each document of the ranking the list holds those shown so
   far, each at the place that counts the shown ones before it; a page is a slice.
6. `ResultsRight`: the tokens of a query and their expansions are lists without
   repeats, the vocabulary of a finite index is finite, and so the near words of
   a token have an order. How many known tokens a document holds is compared with
   half of the tokens in the list, which are the known ones or all of them.
7. `PageRight`: each of the scanners is a function from the end of the page
   (`Backward`), so what it finds in a page of several blocks is what it finds in
   the first and then in the rest (`BlockGives`, for a plain piece, an entry, a
   comment and a hidden element), and `Gather` adds up. That a scanner comes out
   of a block where it entered needs that a hidden element holds no end tag of
   its own name and that a comment is closed in its block; the observations below
   say what happens otherwise.

The proof of `UrlRulesRight` found the property wrong for inputs the run does not
have: a query that ends in `.PNG` is refused in a link, because the filter
lowers the letters, while the property excluded only endings in small letters.
It now excludes what the filter refuses.

Model-checked only: `Termination`, because liveness under fairness is beyond the
prover. The three violations are counterexamples of runs. The assumptions on the
constants are evaluated by TLC for the instances of the runs, and are otherwise
what the code gives: finite sets of threads, types, and the sizes of integers.

## 5. Observations

Behaviour the models have that a reader of the code may not expect. None of it
contradicts the properties above.

Crawl and resume:

- The mark of a finished URL can survive: a worker pushes a link, another takes,
  fetches and clears it, and the first then writes the mark (`engine.cpp` 48-50).
  A resumed crawl fetches the page again.
- A link that another worker's page also has is refused by `push` as queued. If
  the process dies before the first worker's mark, and the second page is
  finished and the first page answers differently next time, the link is lost.
- A link to a .pdf or .zip file is crawled when found, but discarded, mark and
  all, when resumed (`engine.cpp` 570-571).
- A process resumed with `--same-domain` takes its domains from the URLs left
  pending (`main.cpp` 398). If a seed's domain has none left, the links into it
  that are found from then on are dropped, without a crash or a SIGINT: with the
  seed `a.x` and only a page of `s.a.x` left pending, a page of `a.x` that only
  `s.a.x` links to is never crawled. `ResumeComplete` claims the links that the
  fetching process may follow; that all links into the seeds' domains are
  followed is false (TLC finds the trace just told when `found` is computed with
  the seeds' domains).
- The marks in the database are all resumed, whichever crawl they are from, and
  their domains are then allowed.

Documents:

- The text of a page is put before its control flags. After a crash in between
  the page is searchable although it says noindex: missing flags count as
  "index", and so do those of an earlier fetch (`CPI` 799 says noindex pages are
  skipped).
- A crash between the `DOC_CORE` put (`engine.cpp` 254) and the domain put (274)
  leaves a document that later fetches find known, so its domain entry is never
  written. Only `removeDuplicateURLs` reads the domain index.
- After a cut cleanup the records of a deleted `DOC_CORE` in other families and
  in the domain index stay for ever: the next cleanup looks only at `DOC_CORE`.
- A record may be kept under a key that is not the hash of its URL. The next
  crawl of the page creates a second one, and the next cleanup deletes that fresh
  one.

Recrawl:

- `CPI` says the backoff is capped at 14 days. The shift is capped at 8, which is
  256 hours, so the cap of 14 days is not reached.
- `getUrlsBatch` caps age and overdue time in the score, so with more due pages
  than the limit those of low priority can be passed over again and again.
- A page whose budget ends on a timeout is let in again by a link in the same
  session (`frontier.cpp` 57-73), so one outage can count more than
  `MAX_RETRY_COUNT` failures, without a bound but the number of such links.
- 408 and 429 are terminal for the classifier and failures for the recrawl
  record. A 404 counts as a fetch without change. A 2xx other than 200 leaves no
  record, so the page stays due. `update_frequency` is always 1.

Robots:

- `CPI` 371 says robots.txt is fetched once per host. The code contradicts it:
  workers look for the rules and ask for them without a lock (`engine.cpp` 91),
  so a host gets up to one request from each worker (`RequestsBounded`), and a
  later failed request overwrites good rules with "allow all".
- The cache key is the host without scheme and port.
- Any line that names no agent ends a run of agents, so a Sitemap line between
  two User-agent lines starts a new group. A literal `*` in a path is compared
  literally first.

Search:

- A search that overlaps a click can store its answer after the click cleared
  the cache; it is served until the next click or its eviction.
- The count in memory may lose one of two clicks that overlap.
- A cached answer carries the query text of the request that was computed first.
- The comment in `index_searcher.cpp` 243-245 about increasing ids does not hold
  of the order of loading; nothing depends on it.
- `is_duplicate` is never set by the crawler and its spam score is 0.7 or 0.1, so
  the filters for duplicates and for more than 0.8 never apply.
- Documents with a score below 0.01 are left out of an answer; `Search` is the
  set before that.

URLs and pages:

- The filters of seeds and of links differ both ways: `.pdf` is a link but not a
  seed, a page whose query ends in `.css` is a seed but not a link. `UrlRulesRight`
  excludes that case by name.
- `HTTP://host/` is taken as a seed, because `processURL` looks at the normalised
  scheme, and dropped as a link, because `resolveRelativeURL` compares the scheme
  as it is written (`process.cpp` 93-96). `UrlRulesRight` says that it is so.
- Capitals in a seed's host make `--same-domain` refuse the seed's own links.
- Seeds without a scheme are skipped as invalid, although
  `extractAllowedDomains` supplies one. A host that ends in `.zip` is rejected as
  a file when the URL has no path.
- The depth in `priorityScore` is a byte: 256 slashes count as none.
- An end tag of svg or script that closes nothing (after a nested `<svg>` or a
  self-closing one) hides the text up to the next one or the end of the page.
- Title and robots tags count inside comments; links are found inside scripts; a
  `<!--` in a script without `-->` ends the scan for links; a robots tag beyond
  the first 128 KB is missed; `none` is not understood as noindex; `nofollow` is
  stored and never read by the link loop.
- `CPI` 134 and 640 say the pending URLs are one JSON list under
  `__pending_urls__`, which is only read for old databases.

## 6. Not modelled, and the plan

Out of scope: sockets, TLS, DNS, JSON, the parsing of URLs (Boost.URL),
floating-point ranking, snippets, language and charset detection, simhash,
console output, argument parsing, vendored code (`external/`,
`include/utils/argparse.hpp`, 2666 lines), opening and migrating the database,
RocksDB calls that fail, and code nothing calls (`Frontier::pop`, `pushRetry`,
`Engine::processNextURL`, the rate limiter, the in-memory stores).

Hazards without a property, with the reason, are in `PROJECT.json`: a fetch that
never ends, the pending list of the old version, http and https under one host
key, the domain entry lost in a crash, end tags that close nothing.

Every invariant and every action property of the passing runs is a theorem, so
what the plan has left is more of the code:

1. ill-formed pages in `PageRules`: what at least is read of a page whose hidden
   elements or comments are not closed;
2. writes that fail: a RocksDB put or delete that returns an error, which most
   callers do not look at;
3. the pending list of the old version in `PendingStore`, with a first resume
   that dies after the first of its marks;
4. the origin of rules in `Robots`: scheme and port as parts of the key.
