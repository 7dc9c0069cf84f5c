------------------------------ MODULE CrawlPool ------------------------------
(***************************************************************************)
(* The crawl as its threads see it (crawler/engine.cpp: runCrawler, run,   *)
(* workerLoop, processItem): the main thread seeds the frontier, starts    *)
(* the workers, joins them and shuts the frontier down; every worker takes *)
(* items until popWait returns nothing.  What a worker finds on the net is *)
(* nondeterministic: while it processes an item it may add any URLs, and   *)
(* it then reports one outcome, or none when the crawl is interrupted or   *)
(* an exception ends processItem.                                          *)
(***************************************************************************)
EXTENDS Frontier, FiniteSets

CONSTANTS
    Worker,   \* the worker threads of Engine::run
    NoURL     \* the item of a worker that processes none

ASSUME PoolAssumption ==
    /\ IsFiniteSet(Worker)
    /\ NoURL \notin URL

VARIABLES
    phase,      \* main thread: "seed", "crawl" (workers run), "done"
    g_running,  \* the global flag the signal handler clears
    pc,         \* worker: "loop" (popWait), "work", "marked", "exit"
    item,       \* the URL a worker processes, or NoURL
    abandoned   \* history: URLs whose processing ended without an outcome

poolVars == <<phase, g_running, pc, item, abandoned>>
vars == <<frontierVars, poolVars>>

-----------------------------------------------------------------------------
TypeOK ==
    /\ FrontierTypeOK
    /\ phase \in {"seed", "crawl", "done"}
    /\ g_running \in BOOLEAN
    /\ pc \in [Worker -> {"loop", "work", "marked", "exit"}]
    /\ item \in [Worker -> URL \cup {NoURL}]
    /\ abandoned \subseteq URL

Init ==
    /\ FrontierInit
    /\ phase = "seed"
    /\ g_running = TRUE
    /\ pc = [w \in Worker |-> "loop"]
    /\ item = [w \in Worker |-> NoURL]
    /\ abandoned = {}

-----------------------------------------------------------------------------
(* The main thread.                                                        *)

Seed(u) ==
    /\ phase = "seed"
    /\ Push(u)
    /\ UNCHANGED poolVars

StartWorkers ==
    /\ phase = "seed"
    /\ phase' = "crawl"
    /\ UNCHANGED <<frontierVars, g_running, pc, item, abandoned>>

JoinAndShutdown ==
    /\ phase = "crawl"
    /\ \A w \in Worker : pc[w] = "exit"
    /\ FrontierShutdown
    /\ phase' = "done"
    /\ UNCHANGED <<g_running, pc, item, abandoned>>

\* SIGINT, at any moment.
Interrupt ==
    /\ g_running
    /\ g_running' = FALSE
    /\ UNCHANGED <<frontierVars, phase, pc, item, abandoned>>

-----------------------------------------------------------------------------
(* A worker.                                                               *)

Take(w, u) ==
    /\ phase = "crawl"
    /\ pc[w] = "loop"
    /\ PopWaitItem(g_running, u)
    /\ pc' = [pc EXCEPT ![w] = "work"]
    /\ item' = [item EXCEPT ![w] = u]
    /\ UNCHANGED <<phase, g_running, abandoned>>

Leave(w) ==
    /\ phase = "crawl"
    /\ pc[w] = "loop"
    /\ PopWaitNothing(g_running)
    /\ pc' = [pc EXCEPT ![w] = "exit"]
    /\ UNCHANGED <<phase, g_running, item, abandoned>>

AddLink(w, v) ==
    /\ pc[w] = "work"
    /\ g_running
    /\ Push(v)
    /\ UNCHANGED poolVars

\* One of the frontier's mark operations ends the processing of the item.
Report(w, mark) ==
    /\ pc[w] = "work"
    /\ mark
    /\ pc' = [pc EXCEPT ![w] = "marked"]
    /\ UNCHANGED <<phase, g_running, item, abandoned>>

Fetched(w)    == Report(w, MarkFetched(item[w]))
Failed(w)     == Report(w, MarkFailed(item[w]))
Disallowed(w) == Report(w, MarkDisallowed(item[w]))
Requeue(w)    == Report(w, MarkRetryRequeue(item[w]))
Exhausted(w)  == \E s \in RetryStatus : Report(w, MarkRetryExhausted(item[w], s))

\* processItem returns at once (g_running is off) or throws: no outcome.
Abandon(w) ==
    /\ pc[w] = "work"
    /\ pc' = [pc EXCEPT ![w] = "marked"]
    /\ abandoned' = abandoned \cup {item[w]}
    /\ UNCHANGED <<frontierVars, phase, g_running, item>>

\* The destructor of WorkCompletionGuard.
Complete(w) ==
    /\ pc[w] = "marked"
    /\ CompleteWork
    /\ pc' = [pc EXCEPT ![w] = "loop"]
    /\ item' = [item EXCEPT ![w] = NoURL]
    /\ UNCHANGED <<phase, g_running, abandoned>>

WorkerStep(w) ==
    \/ \E u \in URL : Take(w, u) \/ AddLink(w, u)
    \/ Leave(w)
    \/ Fetched(w)
    \/ Failed(w)
    \/ Disallowed(w)
    \/ Requeue(w)
    \/ Exhausted(w)
    \/ Abandon(w)
    \/ Complete(w)

Done == phase = "done" /\ UNCHANGED vars

Next ==
    \/ \E u \in URL : Seed(u)
    \/ StartWorkers
    \/ JoinAndShutdown
    \/ Interrupt
    \/ \E w \in Worker : WorkerStep(w)
    \/ Done

Spec == Init /\ [][Next]_vars

-----------------------------------------------------------------------------
(* What makes the pool correct.                                            *)

Busy == {w \in Worker : pc[w] \in {"work", "marked"}}

Holds(w, u) == pc[w] = "work" /\ item[w] = u

\* The counter popWait's termination test reads is exactly the number of
\* workers between a pop and the end of their completion guard, whatever
\* path processItem took (frontier.cpp:120, 292; engine.cpp:409-414).
ActiveIsBusy == active_workers = Cardinality(Busy)

\* A URL is in at most one place: queued once, being processed by one worker,
\* or abandoned (the refusal of pending URLs in push, frontier.cpp:59).
OnePlace ==
    \A u \in URL :
        /\ hostQueue[u] <= 1
        /\ u \in abandoned => hostQueue[u] = 0
        /\ \A w \in Worker : Holds(w, u) => hostQueue[u] = 0 /\ u \notin abandoned
        /\ \A w1, w2 \in Worker : Holds(w1, u) /\ Holds(w2, u) => w1 = w2

\* A pending URL is never forgotten: it is queued, held by a worker, or was
\* abandoned by an interrupt or an exception; and whatever is queued, held or
\* abandoned is pending, so getPendingURLs reports all of it and nothing else.
PendingIsSomewhere ==
    \A u \in URL :
        fetch_status[u] = Pending
          <=> \/ hostQueue[u] > 0
              \/ \E w \in Worker : Holds(w, u)
              \/ u \in abandoned

\* Every attempt a URL gets is within its retry budget, also after a URL that
\* ran out of budget is accepted a second time (frontier.cpp:71, 219); so the
\* uint8_t that counts the retries never wraps.
RetryBudget ==
    \A u \in URL :
        /\ retry_count[u] <= MAX_RETRY_COUNT
        /\ fetch_status[u] = Pending => retry_count[u] < MAX_RETRY_COUNT

\* While the crawl is not interrupted, a worker leaves only when the whole
\* crawl is over: nothing is queued and no worker can queue anything.
NoEarlyExit ==
    g_running /\ (\E w \in Worker : pc[w] = "exit")
      => ~HasQueuedURL /\ Busy = {}

\* A URL that reached an outcome is never fetched or reported again in this
\* run: its status is final.
OutcomeIsFinal ==
    [][\A u \in URL : fetch_status[u] \in Terminal
                        => fetch_status'[u] = fetch_status[u]]_vars
=============================================================================
