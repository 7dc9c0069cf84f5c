----------------------------- MODULE CrawlEngine -----------------------------
(***************************************************************************)
(* One run of the crawler (crawler/engine.cpp) with its frontier and the   *)
(* pending marks it keeps in the database.  The engine never updates the   *)
(* two together: addURL pushes and then marks, each mark operation changes *)
(* the frontier and then sets or clears the mark, and other threads run in *)
(* between.  Pages are constant: a page answers with the same links        *)
(* whenever it is fetched; which of them the crawl may follow depends on   *)
(* the domains the process was started for.                                *)
(***************************************************************************)
EXTENDS Frontier, PendingStore, FiniteSets

CONSTANTS
    Worker,       \* the worker threads
    NoURL,        \* "no URL" in item, adding and seeding
    Seeds,        \* the seed URLs (initialURLs)
    Links,        \* the links of a page that pass the filters of the link loop
                  \* other than that of --same-domain
    same_domain,  \* the option --same-domain
    DomainOf,     \* the host of a URL, as parse_uri gives it
    Subdomain,    \* the hosts that end with "." and this one
    Body,         \* URLs whose resource type is HTML or text (shouldFetchBody)
    RetryOutcome  \* the statuses a retryable attempt may have in this instance

ASSUME EngineAssumption ==
    /\ IsFiniteSet(Worker)
    /\ NoURL \notin URL
    /\ Seeds \subseteq URL
    /\ Seeds # {}
    /\ same_domain \in BOOLEAN
    /\ DomainOf \in [URL -> DOMAIN Subdomain]
    /\ Subdomain \in [DOMAIN Subdomain -> SUBSET DOMAIN Subdomain]
    /\ \A d \in DOMAIN Subdomain : \A e \in Subdomain[d] : Subdomain[e] \subseteq Subdomain[d]
    /\ Links \in [URL -> SUBSET URL]
    /\ Body \subseteq URL
    /\ RetryOutcome \subseteq RetryStatus
    /\ RetryOutcome # {}

VARIABLES
    phase,      \* main thread: "seed", "crawl", "save", "done"
    seeds,      \* seeds still to be added
    seeding,    \* the seed pushed but not yet marked, or NoURL
    cleanup,    \* cleanup_skipped_pending: the run was started by --resume-db
    allowed_domains, \* the hosts of the URLs the process was started with
    g_running,  \* cleared by the signal handler
    pc,         \* where a worker is, see WorkerPC
    item,       \* the URL a worker processes, or NoURL
    links,      \* links a worker has still to go through
    adding,     \* the link a worker pushed but has not yet marked, or NoURL
    found       \* history: the links to follow of the pages reported fetched

mainVars   == <<phase, seeds, seeding, cleanup, allowed_domains, g_running>>
workerVars == <<pc, item, links, adding>>
vars == <<frontierVars, storeVars, mainVars, workerVars, found>>

\* popWait; processItem up to the answer; the link loop; markPendingURL in
\* addURL; markPendingURL or clearPendingURL in mark*; the guard's destructor.
WorkerPC == {"loop", "work", "links", "mark_link", "mark_again", "clear",
             "complete", "exit"}

TypeOK ==
    /\ FrontierTypeOK
    /\ pending \subseteq URL
    /\ legacy \subseteq URL
    /\ phase \in {"seed", "crawl", "save", "done"}
    /\ seeds \subseteq URL
    /\ seeding \in URL \cup {NoURL}
    /\ cleanup \in BOOLEAN
    /\ allowed_domains \subseteq DOMAIN Subdomain
    /\ g_running \in BOOLEAN
    /\ pc \in [Worker -> WorkerPC]
    /\ item \in [Worker -> URL \cup {NoURL}]
    /\ links \in [Worker -> SUBSET URL]
    /\ adding \in [Worker -> URL \cup {NoURL}]
    /\ found \subseteq URL

-----------------------------------------------------------------------------
(* The filter of --same-domain.                                            *)

ExtractAllowedDomains(urls) == IF same_domain THEN {DomainOf[u] : u \in urls} ELSE {}

\* Variant: the suffix test the wrong way round, which lets parents pass.
DomainAllowedUpwards(domains, v) ==
    \/ ~same_domain \/ domains = {}
    \/ \E d \in domains : DomainOf[v] = d \/ d \in Subdomain[DomainOf[v]]

\* The test of engine.cpp:299-320.
DomainAllowed(domains, v) ==
    \/ ~same_domain \/ domains = {}
    \/ \E d \in domains : DomainOf[v] = d \/ DomainOf[v] \in Subdomain[d]

AllowedLinks(domains, p) == {v \in Links[p] : DomainAllowed(domains, v)}

Init ==
    /\ FrontierInit
    /\ phase = "seed"
    /\ seeds = Seeds
    /\ seeding = NoURL
    /\ cleanup = FALSE
    /\ allowed_domains = ExtractAllowedDomains(Seeds)
    /\ g_running = TRUE
    /\ pc = [w \in Worker |-> "loop"]
    /\ item = [w \in Worker |-> NoURL]
    /\ links = [w \in Worker |-> {}]
    /\ adding = [w \in Worker |-> NoURL]
    /\ pending = {}
    /\ legacy = {}
    /\ found = {}

-----------------------------------------------------------------------------
(* The main thread: runCrawler.                                            *)

SeedPush(u) ==
    /\ phase = "seed"
    /\ seeding = NoURL
    /\ u \in seeds \cap Body
    /\ seeds' = seeds \ {u}
    /\ \/ Push(u) /\ seeding' = u
       \/ ~Accepts(u) /\ UNCHANGED <<frontierVars, seeding>>
    /\ UNCHANGED <<storeVars, phase, cleanup, allowed_domains,
                   g_running, workerVars, found>>

\* A seed that is neither HTML nor text is skipped; a resumed run forgets it.
SkipSeed(u) ==
    /\ phase = "seed"
    /\ seeding = NoURL
    /\ u \in seeds \ Body
    /\ seeds' = seeds \ {u}
    /\ IF cleanup THEN ClearPendingURL(u) ELSE UNCHANGED storeVars
    /\ UNCHANGED <<frontierVars, phase, seeding, cleanup, allowed_domains,
                   g_running, workerVars, found>>

SeedMark ==
    /\ seeding # NoURL
    /\ MarkPendingURL(seeding)
    /\ seeding' = NoURL
    /\ UNCHANGED <<frontierVars, phase, seeds, cleanup, allowed_domains,
                   g_running, workerVars, found>>

\* saveCheckpoint, then run starts the workers.
CheckpointAndRun ==
    /\ phase = "seed"
    /\ seeds = {}
    /\ seeding = NoURL
    /\ SavePendingURLs(PendingURLs)
    /\ phase' = "crawl"
    /\ UNCHANGED <<frontierVars, seeds, seeding, cleanup, allowed_domains,
                   g_running, workerVars, found>>

JoinAndShutdown ==
    /\ phase = "crawl"
    /\ \A w \in Worker : pc[w] = "exit"
    /\ FrontierShutdown
    /\ phase' = "save"
    /\ UNCHANGED <<storeVars, seeds, seeding, cleanup, allowed_domains,
                   g_running, workerVars, found>>

\* The second saveCheckpoint and the save after it write the same set.
FinalSave ==
    /\ phase = "save"
    /\ SavePendingURLs(PendingURLs)
    /\ phase' = "done"
    /\ UNCHANGED <<frontierVars, seeds, seeding, cleanup, allowed_domains,
                   g_running, workerVars, found>>

MainStep ==
    \/ \E u \in URL : SeedPush(u) \/ SkipSeed(u)
    \/ SeedMark
    \/ CheckpointAndRun
    \/ JoinAndShutdown
    \/ FinalSave

Interrupt ==
    /\ phase # "done"
    /\ g_running
    /\ g_running' = FALSE
    /\ UNCHANGED <<frontierVars, storeVars, phase, seeds, seeding, cleanup,
                   allowed_domains, workerVars, found>>

-----------------------------------------------------------------------------
(* A worker: workerLoop and processItem.                                   *)

Goto(w, label) == pc' = [pc EXCEPT ![w] = label]

Take(w, u) ==
    /\ phase = "crawl"
    /\ pc[w] = "loop"
    /\ PopWaitItem(g_running, u)
    /\ Goto(w, "work")
    /\ item' = [item EXCEPT ![w] = u]
    /\ UNCHANGED <<storeVars, mainVars, links, adding, found>>

Leave(w) ==
    /\ phase = "crawl"
    /\ pc[w] = "loop"
    /\ PopWaitNothing(g_running)
    /\ Goto(w, "exit")
    /\ UNCHANGED <<storeVars, mainVars, item, links, adding, found>>

\* A 200 answer: the page is stored and its links are gone through.
FetchPage(w) ==
    /\ pc[w] = "work"
    /\ Goto(w, "links")
    /\ links' = [links EXCEPT ![w] = AllowedLinks(allowed_domains, item[w])]
    /\ UNCHANGED <<frontierVars, storeVars, mainVars, item, adding, found>>

\* Variant: the loop does not look at g_running.
AddLinkUnchecked(w, v) ==
    /\ pc[w] = "links"
    /\ v \in links[w]
    /\ links' = [links EXCEPT ![w] = @ \ {v}]
    /\ \/ /\ Push(v)
          /\ adding' = [adding EXCEPT ![w] = v]
          /\ Goto(w, "mark_link")
       \/ ~Accepts(v) /\ UNCHANGED <<frontierVars, adding, pc>>
    /\ UNCHANGED <<storeVars, mainVars, item, found>>

\* One round of the link loop, up to the push of addURL.
AddLink(w, v) ==
    /\ pc[w] = "links"
    /\ g_running
    /\ v \in links[w]
    /\ links' = [links EXCEPT ![w] = @ \ {v}]
    /\ \/ /\ Push(v)
          /\ adding' = [adding EXCEPT ![w] = v]
          /\ Goto(w, "mark_link")
       \/ ~Accepts(v) /\ UNCHANGED <<frontierVars, adding, pc>>
    /\ UNCHANGED <<storeVars, mainVars, item, found>>

MarkLink(w) ==
    /\ pc[w] = "mark_link"
    /\ MarkPendingURL(adding[w])
    /\ adding' = [adding EXCEPT ![w] = NoURL]
    /\ Goto(w, "links")
    /\ UNCHANGED <<frontierVars, mainVars, item, links, found>>

\* Variant: the page is reported before all of its links were added.
PageFetchedEarly(w) ==
    /\ pc[w] = "links"
    /\ MarkFetched(item[w])
    /\ links' = [links EXCEPT ![w] = {}]
    /\ found' = found \cup AllowedLinks(allowed_domains, item[w])
    /\ Goto(w, "clear")
    /\ UNCHANGED <<storeVars, mainVars, item, adding>>

\* The loop ends, or breaks because the crawl is interrupted.
PageFetched(w) ==
    /\ pc[w] = "links"
    /\ links[w] = {} \/ ~g_running
    /\ MarkFetched(item[w])
    /\ links' = [links EXCEPT ![w] = {}]
    /\ found' = found \cup AllowedLinks(allowed_domains, item[w])
    /\ Goto(w, "clear")
    /\ UNCHANGED <<storeVars, mainVars, item, adding>>

\* An answer that ends processItem with one mark operation.
Report(w, mark, next) ==
    /\ pc[w] = "work"
    /\ mark
    /\ Goto(w, next)
    /\ UNCHANGED <<storeVars, mainVars, item, links, adding, found>>

Disallowed(w)  == Report(w, MarkDisallowed(item[w]), "clear")
OtherAnswer(w) == Report(w, MarkFetched(item[w]), "clear")  \* 2xx, 3xx
ClientError(w) == Report(w, MarkFailed(item[w]), "clear")
\* Variant: markRetry clears the mark of the URL it requeued.
RequeueCleared(w) == Report(w, MarkRetryRequeue(item[w]), "clear")

Requeue(w) ==
    Report(w, MarkRetryRequeue(item[w]),
           IF accepting_work THEN "mark_again" ELSE "clear")
Exhausted(w) ==
    \E s \in RetryOutcome : Report(w, MarkRetryExhausted(item[w], s), "clear")

\* Variant: an exception leaves the worker counted as active.
AbandonUncounted(w) ==
    /\ pc[w] \in {"work", "links"}
    /\ Goto(w, "loop")
    /\ item' = [item EXCEPT ![w] = NoURL]
    /\ links' = [links EXCEPT ![w] = {}]
    /\ UNCHANGED <<frontierVars, storeVars, mainVars, adding, found>>

\* Variant: the guard's destructor also clears the pending mark.
AbandonCleared(w) ==
    /\ pc[w] \in {"work", "links"}
    /\ Goto(w, "clear")
    /\ links' = [links EXCEPT ![w] = {}]
    /\ UNCHANGED <<frontierVars, storeVars, mainVars, item, adding, found>>

\* The early return of an interrupted crawl, or an exception anywhere in
\* processItem before its mark operation.
Abandon(w) ==
    /\ pc[w] \in {"work", "links"}
    /\ Goto(w, "complete")
    /\ links' = [links EXCEPT ![w] = {}]
    /\ UNCHANGED <<frontierVars, storeVars, mainVars, item, adding, found>>

MarkAgain(w) ==
    /\ pc[w] = "mark_again"
    /\ MarkPendingURL(item[w])
    /\ Goto(w, "complete")
    /\ UNCHANGED <<frontierVars, mainVars, item, links, adding, found>>

Clear(w) ==
    /\ pc[w] = "clear"
    /\ ClearPendingURL(item[w])
    /\ Goto(w, "complete")
    /\ UNCHANGED <<frontierVars, mainVars, item, links, adding, found>>

Complete(w) ==
    /\ pc[w] = "complete"
    /\ CompleteWork
    /\ item' = [item EXCEPT ![w] = NoURL]
    /\ Goto(w, "loop")
    /\ UNCHANGED <<storeVars, mainVars, links, adding, found>>

WorkerStep(w) ==
    \/ \E u \in URL : Take(w, u) \/ AddLink(w, u)
    \/ Leave(w)
    \/ FetchPage(w) \/ MarkLink(w) \/ PageFetched(w)
    \/ OtherAnswer(w) \/ ClientError(w) \/ Requeue(w) \/ Exhausted(w)
    \/ Disallowed(w) \/ Abandon(w)
    \/ MarkAgain(w) \/ Clear(w)
    \/ Complete(w)

Done == phase = "done" /\ UNCHANGED vars

Next ==
    \/ MainStep
    \/ Interrupt
    \/ \E w \in Worker : WorkerStep(w)
    \/ Done

Spec == Init /\ [][Next]_vars

\* Threads are scheduled, and a wait in popWait re-tests its condition every
\* 250 ms.  The steps out of "work" also need the network to answer or to fail:
\* an assumption about it, the blocking calls of net::fetch set no limit.
FairSpec ==
    /\ Spec
    /\ WF_vars(MainStep)
    /\ \A w \in Worker : WF_vars(WorkerStep(w))

-----------------------------------------------------------------------------
(* The pool of CrawlPool, as this module's state shows it.                 *)

PoolPC(w) ==
    CASE pc[w] \in {"work", "links", "mark_link"}         -> "work"
      [] pc[w] \in {"mark_again", "clear", "complete"}    -> "marked"
      [] OTHER                                            -> pc[w]

Held == {item[w] : w \in {x \in Worker : PoolPC(x) = "work"}}

Pool == INSTANCE CrawlPool WITH
    phase     <- IF phase = "save" THEN "done" ELSE phase,
    pc        <- [w \in Worker |-> PoolPC(w)],
    abandoned <- {u \in URL : /\ fetch_status[u] = Pending
                              /\ hostQueue[u] = 0
                              /\ u \notin Held}

\* The engine implements the pool, whatever it does to the database between
\* the pool's steps.
ImplementsPool == Pool!Spec

-----------------------------------------------------------------------------

\* A set of URLs that holds the marked ones, the seed not yet marked (it is
\* still on the command line), and with a page the link that a worker found on
\* it and is about to mark.
HoldsMarks(S) ==
    /\ pending \subseteq S
    /\ seeding \in S \cup {NoURL}
    /\ \A w \in Worker : item[w] \in S => adding[w] \in S \cup {NoURL}

PendingInCrawl == {u \in URL : fetch_status[u] = Pending}

\* If the process dies now, no URL that was accepted and has no outcome is
\* lost: it is in every such set, so its mark is in the database, or its
\* page's mark is and the worker is just between the push and the mark of
\* addURL (engine.cpp:47-52).
\* (With --same-domain a resumed process must let the link pass again.)
CrashSafe == \A S \in SUBSET URL : HoldsMarks(S) => PendingInCrawl \subseteq S

\* Everything a crawl resumed from the marks would come across if every page
\* answered; it takes its allowed domains from the marks too.
Marked == (pending \cup {seeding}) \cap URL

Reached[n \in Nat] ==
    IF n = 0 THEN Marked
    ELSE Reached[n - 1] \cup
         UNION {AllowedLinks(ExtractAllowedDomains(Marked), p) : p \in Reached[n - 1]}

\* The weaker form: a pending URL is at least found again by a resumed crawl
\* (README.md:399: "pending URLs are saved for --resume-db").
PendingSavedForResume ==
    PendingInCrawl \subseteq Reached[Cardinality(URL)]

\* The crawl ends: every worker leaves, and main saves and returns.
Termination == <>(phase = "done")
=============================================================================
