--------------------------- MODULE CrawlPoolProofs ---------------------------
(***************************************************************************)
(* The invariants of CrawlPool hold for every set of URLs, hosts and       *)
(* priorities, every number of worker threads and every retry limit.  They *)
(* are proved in layers, each using the ones before it.                    *)
(***************************************************************************)
EXTENDS CrawlPool, FiniteSetTheorems, TLAPS

(***************************************************************************)
(* Types: the first layer is inductive alone once it also says that a      *)
(* worker that processes something processes a URL.                        *)
(***************************************************************************)

ItemOK == \A w \in Worker : pc[w] \in {"work", "marked"} => item[w] \in URL

Typed == TypeOK /\ ItemOK

\* The operations of the frontier keep its types.
LEMMA FrontierKeepsTypes ==
    ASSUME FrontierTypeOK, NEW u \in URL
    PROVE  /\ Push(u) => FrontierTypeOK'
           /\ PopWaitItem(g_running, u) => FrontierTypeOK'
           /\ MarkFetched(u) => FrontierTypeOK'
           /\ MarkFailed(u) => FrontierTypeOK'
           /\ MarkDisallowed(u) => FrontierTypeOK'
           /\ MarkRetryRequeue(u) => FrontierTypeOK'
           /\ \A s \in RetryStatus : MarkRetryExhausted(u, s) => FrontierTypeOK'
           /\ CompleteWork => FrontierTypeOK'
           /\ FrontierShutdown => FrontierTypeOK'
<1> USE DEF FrontierTypeOK, Status, Terminal, RetryStatus, Pending, NoEntry
<1>1. Push(u) => FrontierTypeOK'
  BY DEF Push, Accepts
<1>2. PopWaitItem(g_running, u) => FrontierTypeOK'
  BY DEF PopWaitItem, IsTop
<1>3. MarkFetched(u) => FrontierTypeOK'
  BY DEF MarkFetched
<1>4. MarkFailed(u) => FrontierTypeOK'
  BY DEF MarkFailed
<1>5. MarkDisallowed(u) => FrontierTypeOK'
  BY DEF MarkDisallowed
<1>6. MarkRetryRequeue(u) => FrontierTypeOK'
  BY DEF MarkRetryRequeue
<1>7. \A s \in RetryStatus : MarkRetryExhausted(u, s) => FrontierTypeOK'
  BY DEF MarkRetryExhausted
<1>8. CompleteWork => FrontierTypeOK'
  BY DEF CompleteWork
<1>9. FrontierShutdown => FrontierTypeOK'
  BY DEF FrontierShutdown
<1>. QED
  BY <1>1, <1>2, <1>3, <1>4, <1>5, <1>6, <1>7, <1>8, <1>9

LEMMA InitTyped == Init => Typed
  BY DEF Init, FrontierInit, Typed, TypeOK, FrontierTypeOK, ItemOK, Status,
         Terminal, RetryStatus, Pending, NoEntry

LEMMA StepTyped == Typed /\ [Next]_vars => Typed'
<1>. SUFFICES ASSUME Typed, [Next]_vars
              PROVE  Typed'
  OBVIOUS
<1>. USE DEF Typed, TypeOK, ItemOK
<1>1. ASSUME NEW u \in URL, Seed(u)
      PROVE  Typed'
  BY <1>1, FrontierKeepsTypes DEF Seed, poolVars
<1>2. CASE StartWorkers
  BY <1>2 DEF StartWorkers, frontierVars, FrontierTypeOK
<1>3. CASE JoinAndShutdown
  <2>1. FrontierTypeOK'
    BY <1>3 DEF JoinAndShutdown, FrontierShutdown, FrontierTypeOK
  <2>. QED
    BY <1>3, <2>1 DEF JoinAndShutdown
<1>4. CASE Interrupt
  BY <1>4 DEF Interrupt, frontierVars, FrontierTypeOK
<1>5. ASSUME NEW w \in Worker, NEW u \in URL, Take(w, u)
      PROVE  Typed'
  BY <1>5, FrontierKeepsTypes DEF Take
<1>6. ASSUME NEW w \in Worker, NEW v \in URL, AddLink(w, v)
      PROVE  Typed'
  BY <1>6, FrontierKeepsTypes DEF AddLink, poolVars
<1>7. ASSUME NEW w \in Worker, Leave(w)
      PROVE  Typed'
  BY <1>7 DEF Leave, PopWaitNothing, frontierVars, FrontierTypeOK
<1>8. ASSUME NEW w \in Worker,
             \/ Fetched(w) \/ Failed(w) \/ Disallowed(w)
             \/ Requeue(w) \/ Exhausted(w)
      PROVE  Typed'
  <2>1. pc[w] = "work" /\ item[w] \in URL
    BY <1>8 DEF Fetched, Failed, Disallowed, Requeue, Exhausted, Report
  <2>2. FrontierTypeOK'
    BY <1>8, <2>1, FrontierKeepsTypes
       DEF Fetched, Failed, Disallowed, Requeue, Exhausted, Report
  <2>3. /\ pc' = [pc EXCEPT ![w] = "marked"]
        /\ UNCHANGED <<phase, g_running, item, abandoned>>
    BY <1>8 DEF Fetched, Failed, Disallowed, Requeue, Exhausted, Report
  <2>. QED
    BY <2>1, <2>2, <2>3
<1>9. ASSUME NEW w \in Worker, Abandon(w)
      PROVE  Typed'
  BY <1>9 DEF Abandon, frontierVars, FrontierTypeOK
<1>10. ASSUME NEW w \in Worker, Complete(w)
       PROVE  Typed'
  <2>1. FrontierTypeOK'
    BY <1>10 DEF Complete, CompleteWork, FrontierTypeOK
  <2>. QED
    BY <1>10, <2>1 DEF Complete
<1>11. CASE UNCHANGED vars
  BY <1>11 DEF vars, frontierVars, poolVars, FrontierTypeOK
<1>. QED
  BY <1>1, <1>2, <1>3, <1>4, <1>5, <1>6, <1>7, <1>8, <1>9, <1>10, <1>11
     DEF Next, WorkerStep, Done

\* Every variable keeps its type.
THEOREM TypeCorrect == Spec => []TypeOK
<1>1. Typed => TypeOK
  BY DEF Typed
<1>. QED
  BY <1>1, InitTyped, StepTyped, PTL DEF Spec

(***************************************************************************)
(* The phases of the main thread: work is accepted until the shutdown, no  *)
(* worker runs before the start and none is left after it.                 *)
(***************************************************************************)

Phases ==
    /\ accepting_work <=> phase # "done"
    /\ phase = "seed" => \A w \in Worker : pc[w] = "loop"
    /\ phase = "done" => \A w \in Worker : pc[w] = "exit"

LEMMA InitPhases == Init => Phases
  BY DEF Init, FrontierInit, Phases

LEMMA StepPhases == Typed /\ Phases /\ [Next]_vars => Phases'
<1>. SUFFICES ASSUME Typed, Phases, [Next]_vars
              PROVE  Phases'
  OBVIOUS
<1>. USE DEF Typed, TypeOK, FrontierTypeOK, Phases
<1>1. ASSUME NEW u \in URL, Seed(u)
      PROVE  Phases'
  BY <1>1 DEF Seed, Push, poolVars
<1>2. CASE StartWorkers
  BY <1>2 DEF StartWorkers, frontierVars
<1>3. CASE JoinAndShutdown
  BY <1>3 DEF JoinAndShutdown, FrontierShutdown
<1>4. CASE Interrupt
  BY <1>4 DEF Interrupt, frontierVars
<1>5. ASSUME NEW w \in Worker, WorkerStep(w)
      PROVE  Phases'
  <2>1. phase = "crawl"
    BY <1>5 DEF WorkerStep, Take, AddLink, Leave, Fetched, Failed, Disallowed,
                Requeue, Exhausted, Report, Abandon, Complete
  <2>2. UNCHANGED <<phase, accepting_work>>
    BY <1>5 DEF WorkerStep, Take, PopWaitItem, AddLink, Push, Leave,
                PopWaitNothing, Fetched, MarkFetched, Failed, MarkFailed,
                Disallowed, MarkDisallowed, Requeue, MarkRetryRequeue,
                Exhausted, MarkRetryExhausted, Report, Abandon, Complete,
                CompleteWork, poolVars, frontierVars
  <2>. QED
    BY <2>1, <2>2
<1>6. CASE UNCHANGED vars
  BY <1>6 DEF vars, frontierVars, poolVars
<1>. QED
  BY <1>1, <1>2, <1>3, <1>4, <1>5, <1>6 DEF Next, Done

(***************************************************************************)
(* The counter of busy workers.                                            *)
(***************************************************************************)

LEMMA BusyIsFinite == IsFiniteSet(Busy) /\ Cardinality(Busy) \in Nat
  BY PoolAssumption, FS_Subset, FS_CardinalityType DEF Busy

LEMMA InitCount == Init => ActiveIsBusy
<1>. SUFFICES ASSUME Init
              PROVE  ActiveIsBusy
  OBVIOUS
<1>1. Busy = {}
  BY DEF Init, Busy
<1>. QED
  BY <1>1, FS_EmptySet DEF Init, FrontierInit, ActiveIsBusy

LEMMA StepCount == Typed /\ ActiveIsBusy /\ [Next]_vars => ActiveIsBusy'
<1>. SUFFICES ASSUME Typed, ActiveIsBusy, [Next]_vars
              PROVE  ActiveIsBusy'
  OBVIOUS
<1>. USE DEF Typed, TypeOK, FrontierTypeOK
<1>1. ASSUME NEW w \in Worker, NEW u \in URL, Take(w, u)
      PROVE  ActiveIsBusy'
  <2>1. w \notin Busy /\ Busy' = Busy \cup {w}
    BY <1>1 DEF Take, Busy
  <2>2. Cardinality(Busy') = Cardinality(Busy) + 1
    BY <2>1, BusyIsFinite, FS_AddElement
  <2>. QED
    BY <1>1, <2>2 DEF Take, PopWaitItem, ActiveIsBusy
<1>2. ASSUME NEW w \in Worker, Complete(w)
      PROVE  ActiveIsBusy'
  <2>1. w \in Busy /\ Busy' = Busy \ {w}
    BY <1>2 DEF Complete, Busy
  <2>2. Cardinality(Busy') = Cardinality(Busy) - 1
    BY <2>1, BusyIsFinite, FS_RemoveElement
  <2>3. Cardinality(Busy) > 0
    BY <2>1, BusyIsFinite, FS_EmptySet
  <2>. QED
    BY <1>2, <2>2, <2>3, BusyIsFinite DEF Complete, CompleteWork, ActiveIsBusy
<1>3. ASSUME Busy' = Busy, active_workers' = active_workers
      PROVE  ActiveIsBusy'
  BY <1>3 DEF ActiveIsBusy
<1>4. ASSUME NEW u \in URL, Seed(u)
      PROVE  ActiveIsBusy'
  BY <1>3, <1>4 DEF Seed, Push, poolVars, Busy
<1>5. CASE StartWorkers \/ Interrupt
  BY <1>3, <1>5 DEF StartWorkers, Interrupt, frontierVars, Busy
<1>6. CASE JoinAndShutdown
  BY <1>3, <1>6 DEF JoinAndShutdown, FrontierShutdown, Busy
<1>7. ASSUME NEW w \in Worker, NEW v \in URL, AddLink(w, v)
      PROVE  ActiveIsBusy'
  BY <1>3, <1>7 DEF AddLink, Push, poolVars, Busy
<1>8. ASSUME NEW w \in Worker, Leave(w)
      PROVE  ActiveIsBusy'
  BY <1>3, <1>8 DEF Leave, PopWaitNothing, frontierVars, Busy
<1>9. ASSUME NEW w \in Worker,
             \/ Fetched(w) \/ Failed(w) \/ Disallowed(w)
             \/ Requeue(w) \/ Exhausted(w) \/ Abandon(w)
      PROVE  ActiveIsBusy'
  <2>1. pc[w] = "work" /\ pc' = [pc EXCEPT ![w] = "marked"]
    BY <1>9 DEF Fetched, Failed, Disallowed, Requeue, Exhausted, Report, Abandon
  <2>2. Busy' = Busy
    BY <2>1 DEF Busy
  <2>3. active_workers' = active_workers
    BY <1>9 DEF Fetched, MarkFetched, Failed, MarkFailed, Disallowed,
                MarkDisallowed, Requeue, MarkRetryRequeue, Exhausted,
                MarkRetryExhausted, Report, Abandon, frontierVars
  <2>. QED
    BY <1>3, <2>2, <2>3
<1>10. CASE UNCHANGED vars
  BY <1>3, <1>10 DEF vars, frontierVars, poolVars, Busy
<1>. QED
  BY <1>1, <1>2, <1>4, <1>5, <1>6, <1>7, <1>8, <1>9, <1>10
     DEF Next, WorkerStep, Done

\* active_workers_ counts exactly the workers between a pop and the end of
\* their completion guard.
THEOREM CountCorrect == Spec => []ActiveIsBusy
  BY InitTyped, StepTyped, InitCount, StepCount, PTL DEF Spec

(***************************************************************************)
(* Where a URL is.  OnePlace is not inductive without PendingIsSomewhere:  *)
(* push refuses a URL that is queued or held because its status is pending.*)
(***************************************************************************)

Placement == OnePlace /\ PendingIsSomewhere

\* A worker that reports an outcome held its URL, which was pending and
\* nowhere else.
LEMMA HolderIsAlone ==
    ASSUME Typed, Placement, NEW w \in Worker, pc[w] = "work"
    PROVE  /\ item[w] \in URL
           /\ fetch_status[item[w]] = Pending
           /\ hostQueue[item[w]] = 0
           /\ item[w] \notin abandoned
           /\ \A x \in Worker : Holds(x, item[w]) => x = w
<1>1. item[w] \in URL /\ Holds(w, item[w])
  BY DEF Typed, ItemOK, Holds
<1>. QED
  BY <1>1 DEF Placement, OnePlace, PendingIsSomewhere

LEMMA InitPlacement == Init => Placement
  BY DEF Init, FrontierInit, Placement, OnePlace, PendingIsSomewhere, Holds,
         Pending, NoEntry

\* A URL that push accepts was nowhere, unless it was abandoned.
LEMMA PushPlacement ==
    ASSUME Typed, Placement, NEW u \in URL, Push(u), UNCHANGED <<pc, item, abandoned>>
    PROVE  Placement'
<1>. USE DEF Typed, TypeOK, FrontierTypeOK, Placement
<1>1. /\ hostQueue[u] = 0
      /\ u \notin abandoned
      /\ \A w \in Worker : ~Holds(w, u)
  BY DEF Push, Accepts, PendingIsSomewhere
<1>2. OnePlace'
  BY <1>1 DEF Push, OnePlace, Holds
<1>3. PendingIsSomewhere'
  BY <1>1 DEF Push, PendingIsSomewhere, Holds
<1>. QED
  BY <1>2, <1>3

LEMMA TakePlacement ==
    ASSUME Typed, Placement, NEW w \in Worker, NEW u \in URL, Take(w, u)
    PROVE  Placement'
<1>. USE DEF Typed, TypeOK, FrontierTypeOK, Placement
<1>1. /\ hostQueue[u] = 1
      /\ u \notin abandoned
      /\ \A x \in Worker : ~Holds(x, u)
  BY DEF Take, PopWaitItem, IsTop, OnePlace
<1>2. /\ hostQueue' = [hostQueue EXCEPT ![u] = 0]
      /\ UNCHANGED <<fetch_status, abandoned>>
  BY <1>1 DEF Take, PopWaitItem
<1>3. \A x \in Worker, v \in URL :
         Holds(x, v)' <=> Holds(x, v) \/ (x = w /\ v = u)
  BY DEF Take, Holds
<1>4. OnePlace'
  BY <1>1, <1>2, <1>3 DEF OnePlace
<1>5. PendingIsSomewhere'
  BY <1>1, <1>2, <1>3 DEF PendingIsSomewhere
<1>. QED
  BY <1>4, <1>5

\* A worker stops holding its URL: what it leaves behind is the new status.
LEMMA ReleasePlacement ==
    ASSUME Typed, Placement, NEW w \in Worker, pc[w] = "work",
           pc' = [pc EXCEPT ![w] = "marked"], item' = item,
           \/ /\ UNCHANGED <<hostQueue, abandoned>>
              /\ \E s \in Status \ {Pending} :
                    fetch_status' = [fetch_status EXCEPT ![item[w]] = s]
           \/ /\ UNCHANGED abandoned
              /\ hostQueue' = [hostQueue EXCEPT ![item[w]] = @ + 1]
              /\ fetch_status' = [fetch_status EXCEPT ![item[w]] = Pending]
           \/ /\ UNCHANGED <<hostQueue, fetch_status>>
              /\ abandoned' = abandoned \cup {item[w]}
    PROVE  Placement'
<1>. USE DEF Typed, TypeOK, FrontierTypeOK, Placement
<1>. DEFINE u == item[w]
<1>1. /\ u \in URL
      /\ fetch_status[u] = Pending
      /\ hostQueue[u] = 0
      /\ u \notin abandoned
      /\ \A x \in Worker : Holds(x, u) => x = w
  BY HolderIsAlone
<1>2. \A x \in Worker, v \in URL :
         Holds(x, v)' <=> Holds(x, v) /\ x # w
  BY DEF Holds
<1>3. \A v \in URL \ {u} : ~Holds(w, v)
  BY DEF Holds
<1>. HIDE DEF u
<1>4. OnePlace'
  BY <1>1, <1>2, <1>3 DEF OnePlace, u
<1>5. PendingIsSomewhere'
  BY <1>1, <1>2, <1>3 DEF PendingIsSomewhere, u
<1>. QED
  BY <1>4, <1>5

LEMMA StepPlacement == Typed /\ Phases /\ Placement /\ [Next]_vars => Placement'
<1>. SUFFICES ASSUME Typed, Phases, Placement, [Next]_vars
              PROVE  Placement'
  OBVIOUS
<1>1. ASSUME NEW u \in URL, Seed(u)
      PROVE  Placement'
  BY <1>1, PushPlacement DEF Seed, poolVars
<1>2. ASSUME NEW w \in Worker, NEW v \in URL, AddLink(w, v)
      PROVE  Placement'
  BY <1>2, PushPlacement DEF AddLink, poolVars
<1>3. ASSUME NEW w \in Worker, NEW u \in URL, Take(w, u)
      PROVE  Placement'
  BY <1>3, TakePlacement
<1>4. ASSUME NEW w \in Worker, Fetched(w) \/ Failed(w) \/ Disallowed(w) \/ Exhausted(w)
      PROVE  Placement'
  <2>1. /\ pc[w] = "work"
        /\ pc' = [pc EXCEPT ![w] = "marked"]
        /\ item' = item
    BY <1>4 DEF Fetched, Failed, Disallowed, Exhausted, Report
  <2>2. /\ UNCHANGED <<hostQueue, abandoned>>
        /\ \E s \in Status \ {Pending} :
              fetch_status' = [fetch_status EXCEPT ![item[w]] = s]
    BY <1>4 DEF Fetched, MarkFetched, Failed, MarkFailed, Disallowed,
                MarkDisallowed, Exhausted, MarkRetryExhausted, Report,
                Status, Terminal, RetryStatus, Pending
  <2>. QED
    BY <2>1, <2>2, ReleasePlacement
<1>5. ASSUME NEW w \in Worker, Requeue(w)
      PROVE  Placement'
  <2>1. /\ pc[w] = "work"
        /\ pc' = [pc EXCEPT ![w] = "marked"]
        /\ UNCHANGED <<item, abandoned>>
        /\ fetch_status' = [fetch_status EXCEPT ![item[w]] = Pending]
    BY <1>5 DEF Requeue, MarkRetryRequeue, Report
  <2>2. accepting_work
    BY <2>1 DEF Phases
  <2>. QED
    BY <2>1, <2>2, <1>5, ReleasePlacement DEF Requeue, MarkRetryRequeue, Report
<1>6. ASSUME NEW w \in Worker, Abandon(w)
      PROVE  Placement'
  BY <1>6, ReleasePlacement DEF Abandon, frontierVars
<1>7. ASSUME UNCHANGED <<hostQueue, fetch_status, abandoned>>,
             \A w \in Worker, u \in URL : Holds(w, u)' <=> Holds(w, u)
      PROVE  Placement'
  BY <1>7 DEF Placement, OnePlace, PendingIsSomewhere
<1>8. ASSUME NEW w \in Worker, Leave(w) \/ Complete(w)
      PROVE  Placement'
  BY <1>7, <1>8 DEF Leave, PopWaitNothing, Complete, CompleteWork, Holds,
                    frontierVars, Typed, TypeOK
<1>9. CASE StartWorkers \/ JoinAndShutdown \/ Interrupt
  BY <1>7, <1>9 DEF StartWorkers, JoinAndShutdown, FrontierShutdown,
                    Interrupt, frontierVars, Holds
<1>10. CASE UNCHANGED vars
  BY <1>7, <1>10 DEF vars, frontierVars, poolVars, Holds
<1>. QED
  BY <1>1, <1>2, <1>3, <1>4, <1>5, <1>6, <1>8, <1>9, <1>10
     DEF Next, WorkerStep, Done

LEMMA AllPlacement == Spec => [](Typed /\ Phases /\ Placement)
  BY InitTyped, StepTyped, InitPhases, StepPhases, InitPlacement,
     StepPlacement, PTL DEF Spec

\* A URL is queued once, or held by one worker, or abandoned.
THEOREM OnePlaceCorrect == Spec => []OnePlace
<1>1. Placement => OnePlace
  BY DEF Placement
<1>. QED
  BY <1>1, AllPlacement, PTL

\* The pending URLs are exactly the queued, the held and the abandoned ones.
THEOREM PendingCorrect == Spec => []PendingIsSomewhere
<1>1. Placement => PendingIsSomewhere
  BY DEF Placement
<1>. QED
  BY <1>1, AllPlacement, PTL

(***************************************************************************)
(* Retries.                                                                *)
(***************************************************************************)

LEMMA InitRetry == Init => RetryBudget
<1>. SUFFICES ASSUME Init, NEW u \in URL
              PROVE  /\ retry_count[u] <= MAX_RETRY_COUNT
                     /\ fetch_status[u] = Pending => retry_count[u] < MAX_RETRY_COUNT
  BY DEF RetryBudget
<1>1. retry_count[u] = 0
  BY DEF Init, FrontierInit
<1>2. MAX_RETRY_COUNT \in Nat /\ 0 < MAX_RETRY_COUNT
  BY FrontierAssumption
<1>. QED
  BY <1>1, <1>2

LEMMA StepRetry == Typed /\ Placement /\ RetryBudget /\ [Next]_vars => RetryBudget'
<1>. SUFFICES ASSUME Typed, Placement, RetryBudget, [Next]_vars
              PROVE  RetryBudget'
  OBVIOUS
<1>. USE FrontierAssumption DEF Typed, TypeOK, FrontierTypeOK, RetryBudget
<1>1. ASSUME NEW u \in URL, Push(u)
      PROVE  RetryBudget'
  BY <1>1 DEF Push
<1>2. ASSUME NEW w \in Worker, Exhausted(w) \/ Requeue(w)
      PROVE  RetryBudget'
  <2>1. /\ item[w] \in URL
        /\ retry_count[item[w]] < MAX_RETRY_COUNT
    BY <1>2, HolderIsAlone DEF Exhausted, Requeue, Report
  <2>2. CASE Exhausted(w)
    BY <2>1, <2>2 DEF Exhausted, Report, MarkRetryExhausted, RetryStatus, Pending
  <2>3. CASE Requeue(w)
    BY <2>1, <2>3 DEF Requeue, Report, MarkRetryRequeue, RetriesLeft
  <2>. QED
    BY <1>2, <2>2, <2>3
<1>3. ASSUME NEW w \in Worker, Fetched(w) \/ Failed(w) \/ Disallowed(w)
      PROVE  RetryBudget'
  BY <1>3 DEF Fetched, MarkFetched, Failed, MarkFailed, Disallowed,
              MarkDisallowed, Report, Pending
<1>4. CASE UNCHANGED <<fetch_status, retry_count>>
  BY <1>4
<1>5. ASSUME NEW w \in Worker,
             \/ \E u \in URL : Take(w, u)
             \/ Leave(w) \/ Abandon(w) \/ Complete(w)
      PROVE  UNCHANGED <<fetch_status, retry_count>>
  BY <1>5 DEF Take, PopWaitItem, Leave, PopWaitNothing, Abandon, Complete,
              CompleteWork, frontierVars
<1>6. ASSUME StartWorkers \/ JoinAndShutdown \/ Interrupt \/ UNCHANGED vars
      PROVE  UNCHANGED <<fetch_status, retry_count>>
  BY <1>6 DEF StartWorkers, JoinAndShutdown, FrontierShutdown, Interrupt,
              vars, frontierVars
<1>. QED
  BY <1>1, <1>2, <1>3, <1>4, <1>5, <1>6 DEF Next, WorkerStep, Seed, AddLink, Done

\* No URL is tried more often than the limit allows after it was accepted.
THEOREM RetryCorrect == Spec => []RetryBudget
  BY AllPlacement, InitRetry, StepRetry, PTL DEF Spec

(***************************************************************************)
(* Termination detection and final outcomes.                               *)
(***************************************************************************)

LEMMA InitNoEarlyExit == Init => NoEarlyExit
  BY DEF Init, NoEarlyExit

LEMMA StepNoEarlyExit ==
    Typed /\ Phases /\ ActiveIsBusy /\ NoEarlyExit /\ [Next]_vars => NoEarlyExit'
<1>. SUFFICES ASSUME Typed, Phases, ActiveIsBusy, NoEarlyExit, [Next]_vars,
                     g_running', \E w \in Worker : pc'[w] = "exit"
              PROVE  ~HasQueuedURL' /\ Busy' = {}
  BY DEF NoEarlyExit
<1>. USE DEF Typed, TypeOK, FrontierTypeOK
<1>1. g_running
  BY DEF Next, Seed, StartWorkers, JoinAndShutdown, Interrupt, WorkerStep, Take,
         Leave, AddLink, Fetched, Failed, Disallowed, Requeue, Exhausted, Report,
         Abandon, Complete, Done, poolVars, vars
<1>2. ASSUME NEW w \in Worker, Leave(w)
      PROVE  ~HasQueuedURL' /\ Busy' = {}
  \* popWait returned nothing although the crawl runs: no item, no worker.
  <2>1. accepting_work
    BY <1>2 DEF Leave, Phases
  <2>2. ~HasQueuedURL /\ active_workers = 0
    BY <1>1, <1>2, <2>1 DEF Leave, PopWaitNothing, MustWait
  <2>3. Busy = {}
    BY <2>2, BusyIsFinite, FS_EmptySet DEF ActiveIsBusy
  <2>. QED
    BY <1>2, <2>2, <2>3 DEF Leave, PopWaitNothing, HasQueuedURL, Busy, frontierVars
<1>3. ASSUME \E w \in Worker : pc[w] = "exit"
      PROVE  /\ ~HasQueuedURL /\ Busy = {}
             /\ phase # "seed"
             /\ \A w \in Worker : pc[w] \in {"loop", "exit"}
  <2>1. ~HasQueuedURL /\ Busy = {}
    BY <1>1, <1>3 DEF NoEarlyExit
  <2>. QED
    BY <2>1, <1>3 DEF Busy, Phases
<1>4. ASSUME pc' = pc, hostQueue' = hostQueue
      PROVE  ~HasQueuedURL' /\ Busy' = {}
  BY <1>3, <1>4 DEF HasQueuedURL, Busy
<1>5. ASSUME NEW u \in URL, Seed(u)
      PROVE  FALSE
  BY <1>3, <1>5 DEF Seed, poolVars
<1>6. ASSUME NEW w \in Worker,
             \/ \E u \in URL : Take(w, u) \/ AddLink(w, u)
             \/ Fetched(w) \/ Failed(w) \/ Disallowed(w)
             \/ Requeue(w) \/ Exhausted(w) \/ Abandon(w) \/ Complete(w)
      PROVE  FALSE
  <2>1. \E x \in Worker : pc[x] = "exit"
    BY <1>6 DEF Take, AddLink, Fetched, Failed, Disallowed, Requeue, Exhausted,
                Report, Abandon, Complete, poolVars
  <2>. QED
    BY <1>3, <1>6, <2>1
       DEF Take, PopWaitItem, IsTop, HasQueuedURL, AddLink, Fetched, Failed,
           Disallowed, Requeue, Exhausted, Report, Abandon, Complete
<1>7. CASE StartWorkers \/ JoinAndShutdown \/ Interrupt \/ UNCHANGED vars
  BY <1>4, <1>7 DEF StartWorkers, JoinAndShutdown, FrontierShutdown, Interrupt,
                    vars, frontierVars, poolVars
<1>. QED
  BY <1>2, <1>5, <1>6, <1>7 DEF Next, WorkerStep, Done

\* A worker leaves an uninterrupted crawl only when nothing is left to do and
\* no worker can find more.
THEOREM NoEarlyExitCorrect == Spec => []NoEarlyExit
  BY InitTyped, StepTyped, InitPhases, StepPhases, InitCount, StepCount,
     InitNoEarlyExit, StepNoEarlyExit, PTL DEF Spec

LEMMA StepOutcome ==
    ASSUME Typed, Placement, [Next]_vars, NEW u \in URL, fetch_status[u] \in Terminal
    PROVE  fetch_status'[u] = fetch_status[u]
<1>. USE DEF Typed, TypeOK, FrontierTypeOK
<1>1. ASSUME NEW v \in URL, Push(v)
      PROVE  fetch_status'[u] = fetch_status[u]
  BY <1>1 DEF Push, Accepts
<1>2. ASSUME NEW w \in Worker,
             \/ Fetched(w) \/ Failed(w) \/ Disallowed(w)
             \/ Requeue(w) \/ Exhausted(w)
      PROVE  fetch_status'[u] = fetch_status[u]
  <2>1. item[w] \in URL /\ item[w] # u
    BY <1>2, HolderIsAlone DEF Fetched, Failed, Disallowed, Requeue, Exhausted,
                               Report, Terminal, Pending
  <2>. QED
    BY <1>2, <2>1 DEF Fetched, MarkFetched, Failed, MarkFailed, Disallowed,
                      MarkDisallowed, Requeue, MarkRetryRequeue, Exhausted,
                      MarkRetryExhausted, Report
<1>3. ASSUME NEW w \in Worker,
             \/ \E v \in URL : Take(w, v)
             \/ Leave(w) \/ Abandon(w) \/ Complete(w)
      PROVE  UNCHANGED fetch_status
  BY <1>3 DEF Take, PopWaitItem, Leave, PopWaitNothing, Abandon, Complete,
              CompleteWork, frontierVars
<1>4. ASSUME StartWorkers \/ JoinAndShutdown \/ Interrupt \/ UNCHANGED vars
      PROVE  UNCHANGED fetch_status
  BY <1>4 DEF StartWorkers, JoinAndShutdown, FrontierShutdown, Interrupt,
              vars, frontierVars
<1>. QED
  BY <1>1, <1>2, <1>3, <1>4 DEF Next, WorkerStep, Seed, AddLink, Done

\* A URL with a final outcome keeps it: nothing queues, fetches or reports it
\* again.
THEOREM OutcomeCorrect == Spec => OutcomeIsFinal
<1>1. Typed /\ Placement /\ [Next]_vars
        => [\A u \in URL : fetch_status[u] \in Terminal
                             => fetch_status'[u] = fetch_status[u]]_vars
  BY StepOutcome
<1>. QED
  BY <1>1, AllPlacement, PTL DEF Spec, OutcomeIsFinal
=============================================================================
