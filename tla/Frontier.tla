------------------------------ MODULE Frontier ------------------------------
(***************************************************************************)
(* The crawl frontier (crawler/frontier.hpp, crawler/frontier.cpp): the    *)
(* per-host priority queues, the state remembered for every URL, the count *)
(* of workers that are processing an item, and the accepting_work_ flag.   *)
(* Every method of the class runs under one mutex, so each is one action   *)
(* on the frontier's variables; the modules that drive the frontier        *)
(* (CrawlPool, CrawlEngine) conjoin these actions with the caller's step.  *)
(*                                                                         *)
(* A queued item is abstracted to its URL: priority and host are functions *)
(* of the URL, and the item's depth, referrer and copy of the retry count  *)
(* never decide what the frontier does.                                    *)
(***************************************************************************)
EXTENDS Naturals

CONSTANTS
    URL,              \* the normalised URLs processURL accepts
    HostOf,           \* extractHost: the key of a URL in hostQueue
    Priority,         \* ProcessedURL::priority
    MAX_RETRY_COUNT   \* url/process.hpp; 3 in the build, a uint8_t

ASSUME FrontierAssumption ==
    /\ HostOf \in [URL -> STRING]
    /\ Priority \in [URL -> Nat]
    /\ MAX_RETRY_COUNT \in 1 .. 255

VARIABLES
    hostQueue,        \* number of items of a URL in the queue of its host
    fetch_status,     \* urlStates[url].fetch_status, or NoEntry
    retry_count,      \* urlStates[url].retry_count
    active_workers,   \* active_workers_
    accepting_work    \* accepting_work_

frontierVars ==
    <<hostQueue, fetch_status, retry_count, active_workers, accepting_work>>

-----------------------------------------------------------------------------
(* net::FetchStatus, restricted to the values the crawler ever stores.     *)

NoEntry  == "NoEntry"            \* the URL has no entry in urlStates
Pending  == "UNKNOWN_ERROR"      \* the value the code uses for "pending"
Terminal == {"SUCCESS", "FAILED", "ROBOTS_DISALLOWED"}

\* What net::fetch can report for an attempt that is then retried: any HTTP
\* answer (5xx) is SUCCESS, an exception is TIMEOUT or FAILED.
RetryStatus == {"SUCCESS", "FAILED", "TIMEOUT"}

Status == Terminal \cup RetryStatus \cup {Pending, NoEntry}

FrontierTypeOK ==
    /\ hostQueue \in [URL -> Nat]
    /\ fetch_status \in [URL -> Status]
    /\ retry_count \in [URL -> Nat]
    /\ active_workers \in Nat
    /\ accepting_work \in BOOLEAN

FrontierInit ==
    /\ hostQueue = [u \in URL |-> 0]
    /\ fetch_status = [u \in URL |-> NoEntry]
    /\ retry_count = [u \in URL |-> 0]
    /\ active_workers = 0
    /\ accepting_work = TRUE

-----------------------------------------------------------------------------
(* push: a URL with an entry in a terminal or pending status is refused,   *)
(* every other one starts afresh with its whole retry budget.              *)

\* Variants with a status left out of the test of frontier.cpp:59-64.
AcceptsPending(u) == accepting_work /\ fetch_status[u] \notin Terminal
AcceptsFailed(u) ==
    accepting_work /\ fetch_status[u] \notin (Terminal \ {"FAILED"}) \cup {Pending}

Accepts(u) ==
    /\ accepting_work
    /\ fetch_status[u] \notin Terminal \cup {Pending}

\* Variant: an accepted URL keeps the retries it used before.
PushKeepsRetries(u) ==
    /\ Accepts(u)
    /\ hostQueue' = [hostQueue EXCEPT ![u] = @ + 1]
    /\ fetch_status' = [fetch_status EXCEPT ![u] = Pending]
    /\ UNCHANGED <<retry_count, active_workers, accepting_work>>

Push(u) ==
    /\ Accepts(u)
    /\ hostQueue' = [hostQueue EXCEPT ![u] = @ + 1]
    /\ fetch_status' = [fetch_status EXCEPT ![u] = Pending]
    /\ retry_count' = [retry_count EXCEPT ![u] = 0]
    /\ UNCHANGED <<active_workers, accepting_work>>

-----------------------------------------------------------------------------
(* popWait.  Its wait loop uses a 250 ms timed wait, so whether a notify   *)
(* is lost does not matter: the call blocks exactly while MustWait holds.  *)

HasQueuedURL == \E u \in URL : hostQueue[u] > 0

\* Variant: an empty queue is taken for the end of the crawl.
NeverWaits(running) == FALSE

MustWait(running) ==
    /\ running
    /\ accepting_work
    /\ ~HasQueuedURL
    /\ active_workers > 0

\* Variant: top() and pop() of a queue that may be empty.
IsTopUnchecked(u) ==
    \A v \in URL : hostQueue[v] > 0 /\ HostOf[v] = HostOf[u]
                      => Priority[v] <= Priority[u]

\* popLocked takes the top of the first non-empty host in the arbitrary
\* order of an unordered_map; equal priorities are in arbitrary order.
IsTop(u) ==
    /\ hostQueue[u] > 0
    /\ \A v \in URL : hostQueue[v] > 0 /\ HostOf[v] = HostOf[u]
                         => Priority[v] <= Priority[u]

\* Variant: the worker that takes the item is not counted.
PopUncounted(running, u) ==
    /\ running
    /\ accepting_work
    /\ IsTop(u)
    /\ hostQueue' = [hostQueue EXCEPT ![u] = @ - 1]
    /\ UNCHANGED <<fetch_status, retry_count, active_workers, accepting_work>>

PopWaitItem(running, u) ==
    /\ running
    /\ accepting_work
    /\ IsTop(u)
    /\ hostQueue' = [hostQueue EXCEPT ![u] = @ - 1]
    /\ active_workers' = active_workers + 1
    /\ UNCHANGED <<fetch_status, retry_count, accepting_work>>

PopWaitNothing(running) ==
    /\ ~MustWait(running)
    /\ ~running \/ ~accepting_work \/ ~HasQueuedURL
    /\ UNCHANGED frontierVars

-----------------------------------------------------------------------------
(* The outcomes a worker reports for the URL it processes.                 *)

MarkFetched(u) ==
    /\ fetch_status' = [fetch_status EXCEPT ![u] = "SUCCESS"]
    /\ retry_count' = [retry_count EXCEPT ![u] = 0]
    /\ UNCHANGED <<hostQueue, active_workers, accepting_work>>

MarkFailed(u) ==
    /\ fetch_status' = [fetch_status EXCEPT ![u] = "FAILED"]
    /\ UNCHANGED <<hostQueue, retry_count, active_workers, accepting_work>>

MarkDisallowed(u) ==
    /\ fetch_status' = [fetch_status EXCEPT ![u] = "ROBOTS_DISALLOWED"]
    /\ retry_count' = [retry_count EXCEPT ![u] = 0]
    /\ UNCHANGED <<hostQueue, active_workers, accepting_work>>

RetriesLeft(u) == retry_count[u] + 1 < MAX_RETRY_COUNT

\* markRetry with budget left: the URL is pending again and, while work is
\* accepted, queued again; the method then returns requeued = accepting_work.
MarkRetryRequeue(u) ==
    /\ RetriesLeft(u)
    /\ retry_count' = [retry_count EXCEPT ![u] = @ + 1]
    /\ fetch_status' = [fetch_status EXCEPT ![u] = Pending]
    /\ hostQueue' = IF accepting_work
                      THEN [hostQueue EXCEPT ![u] = @ + 1]
                      ELSE hostQueue
    /\ UNCHANGED <<active_workers, accepting_work>>

\* Variant: the URL is set pending before the budget is tested.
ExhaustedPending(u, s) ==
    /\ ~RetriesLeft(u)
    /\ retry_count' = [retry_count EXCEPT ![u] = @ + 1]
    /\ fetch_status' = [fetch_status EXCEPT ![u] = Pending]
    /\ UNCHANGED <<hostQueue, active_workers, accepting_work>>

\* markRetry with the budget spent: the status of the attempt stays.
MarkRetryExhausted(u, s) ==
    /\ ~RetriesLeft(u)
    /\ retry_count' = [retry_count EXCEPT ![u] = @ + 1]
    /\ fetch_status' = [fetch_status EXCEPT ![u] = s]
    /\ UNCHANGED <<hostQueue, active_workers, accepting_work>>

-----------------------------------------------------------------------------

CompleteWork ==
    /\ active_workers' = IF active_workers > 0 THEN active_workers - 1
                                               ELSE active_workers
    /\ UNCHANGED <<hostQueue, fetch_status, retry_count, accepting_work>>

FrontierShutdown ==
    /\ accepting_work' = FALSE
    /\ UNCHANGED <<hostQueue, fetch_status, retry_count, active_workers>>

\* getPendingURLs: everything queued, and every URL still pending.
PendingURLs == {u \in URL : hostQueue[u] > 0 \/ fetch_status[u] = Pending}
=============================================================================
