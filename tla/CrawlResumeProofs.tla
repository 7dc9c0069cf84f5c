-------------------------- MODULE CrawlResumeProofs --------------------------
(***************************************************************************)
(* For every set of URLs, every link structure and every number of worker  *)
(* threads: the engine keeps its types, it implements the pool of          *)
(* CrawlPool, and it leaves a database from which no accepted URL is lost. *)
(* The lemmas on single steps hold whatever cleanup is, so the second part *)
(* uses them for crawls over any number of processes: what the first shows *)
(* of one process holds again after every restart, and what a crash or an  *)
(* end leaves in the database is enough to go on from.                     *)
(***************************************************************************)
EXTENDS CrawlResume, TLAPS

(***************************************************************************)
(* Types.                                                                  *)
(***************************************************************************)

\* A worker that processes something processes a URL, and it has a link to
\* mark exactly between the push and the mark of addURL.
WorkersOK ==
    \A w \in Worker :
        /\ pc[w] \notin {"loop", "exit"} => item[w] \in URL
        /\ pc[w] = "mark_link" <=> adding[w] # NoURL

Typed == TypeOK /\ WorkersOK

\* The operations of the frontier keep its types.
LEMMA FrontierKeepsTypes ==
    ASSUME FrontierTypeOK, NEW u \in URL
    PROVE  /\ Push(u) => FrontierTypeOK'
           /\ PopWaitItem(g_running, u) => FrontierTypeOK'
           /\ MarkFetched(u) => FrontierTypeOK'
           /\ MarkFailed(u) => FrontierTypeOK'
           /\ MarkDisallowed(u) => FrontierTypeOK'
           /\ MarkRetryRequeue(u) => FrontierTypeOK'
           /\ \A s \in RetryStatus : MarkRetryExhausted(u, s) => FrontierTypeOK'
           /\ CompleteWork => FrontierTypeOK'
           /\ FrontierShutdown => FrontierTypeOK'
           /\ UNCHANGED frontierVars => FrontierTypeOK'
<1> USE DEF FrontierTypeOK, Status, Terminal, RetryStatus, Pending, NoEntry
<1>1. Push(u) => FrontierTypeOK'
  BY DEF Push, Accepts
<1>2. PopWaitItem(g_running, u) => FrontierTypeOK'
  BY DEF PopWaitItem, IsTop
<1>3. MarkFetched(u) => FrontierTypeOK'
  BY DEF MarkFetched
<1>4. MarkFailed(u) => FrontierTypeOK'
  BY DEF MarkFailed
<1>5. MarkDisallowed(u) => FrontierTypeOK'
  BY DEF MarkDisallowed
<1>6. MarkRetryRequeue(u) => FrontierTypeOK'
  BY DEF MarkRetryRequeue
<1>7. \A s \in RetryStatus : MarkRetryExhausted(u, s) => FrontierTypeOK'
  BY DEF MarkRetryExhausted
<1>8. CompleteWork => FrontierTypeOK'
  BY DEF CompleteWork
<1>9. FrontierShutdown => FrontierTypeOK'
  BY DEF FrontierShutdown
<1>10. UNCHANGED frontierVars => FrontierTypeOK'
  BY DEF frontierVars
<1>. QED
  BY <1>1, <1>2, <1>3, <1>4, <1>5, <1>6, <1>7, <1>8, <1>9, <1>10

LEMMA FrontierRests == FrontierTypeOK /\ UNCHANGED frontierVars => FrontierTypeOK'
  BY DEF FrontierTypeOK, frontierVars

\* The answers that end with one mark operation, seen together: the worker
\* leaves "work" for a mark of the database, or for the guard's destructor.
Answers(w) ==
    \/ OtherAnswer(w) \/ ClientError(w) \/ Disallowed(w)
    \/ Requeue(w) \/ Exhausted(w)

LEMMA AnswerEffect ==
    ASSUME NEW w \in Worker, Typed, Answers(w)
    PROVE  /\ pc[w] = "work" /\ item[w] \in URL
           /\ FrontierTypeOK'
           /\ \E next \in {"clear", "mark_again"} : pc' = [pc EXCEPT ![w] = next]
           /\ UNCHANGED <<storeVars, mainVars, item, links, adding, found>>
<1>1. /\ pc[w] = "work"
      /\ \E next \in {"clear", "mark_again"} : pc' = [pc EXCEPT ![w] = next]
      /\ UNCHANGED <<storeVars, mainVars, item, links, adding, found>>
  BY DEF Answers, OtherAnswer, ClientError, Disallowed, Requeue, Exhausted,
         Report, Goto
<1>2. item[w] \in URL /\ FrontierTypeOK
  BY <1>1 DEF Typed, TypeOK, WorkersOK
<1>3. FrontierTypeOK'
  BY <1>2, FrontierKeepsTypes, EngineAssumption
     DEF Answers, OtherAnswer, ClientError, Disallowed, Requeue, Exhausted, Report
<1>. QED
  BY <1>1, <1>2, <1>3

\* The allowed domains are domains, and only links pass the filter.
LEMMA DomainsTyped ==
    ASSUME NEW S \in SUBSET URL
    PROVE  ExtractAllowedDomains(S) \subseteq DOMAIN Subdomain
  BY EngineAssumption DEF ExtractAllowedDomains

LEMMA AllowedLinksTyped ==
    ASSUME NEW domains, NEW p \in URL
    PROVE  AllowedLinks(domains, p) \subseteq URL
  BY EngineAssumption DEF AllowedLinks

LEMMA InitTyped == Init => Typed
<1>. SUFFICES ASSUME Init
              PROVE  Typed
  OBVIOUS
<1>1. FrontierTypeOK
  BY DEF Init, FrontierInit, FrontierTypeOK, Status, NoEntry
<1>2. TypeOK
  BY <1>1, EngineAssumption, DomainsTyped DEF Init, TypeOK, WorkerPC
<1>3. WorkersOK
  BY DEF Init, WorkersOK
<1>. QED
  BY <1>2, <1>3 DEF Typed

LEMMA MainStepTyped == Typed /\ MainStep => Typed'
<1>. SUFFICES ASSUME Typed, MainStep
              PROVE  Typed'
  OBVIOUS
<1>. USE EngineAssumption
     DEF Typed, TypeOK, WorkersOK, storeVars, workerVars, MarkPendingURL,
         ClearPendingURL, SavePendingURLs, PendingURLs
<1>1. ASSUME NEW u \in URL, SeedPush(u)
      PROVE  Typed'
  <2>1. FrontierTypeOK'
    BY <1>1, FrontierKeepsTypes DEF SeedPush
  <2>. QED
    BY <1>1, <2>1 DEF SeedPush
<1>2. ASSUME NEW u \in URL, SkipSeed(u)
      PROVE  Typed'
  BY <1>2, FrontierRests DEF SkipSeed
<1>3. CASE SeedMark
  BY <1>3, FrontierRests DEF SeedMark
<1>4. CASE CheckpointAndRun
  BY <1>4, FrontierRests DEF CheckpointAndRun
<1>5. CASE JoinAndShutdown
  <2>1. FrontierTypeOK'
    BY <1>5 DEF JoinAndShutdown, FrontierShutdown, FrontierTypeOK
  <2>. QED
    BY <1>5, <2>1 DEF JoinAndShutdown
<1>6. CASE FinalSave
  BY <1>6, FrontierRests DEF FinalSave
<1>. QED
  BY <1>1, <1>2, <1>3, <1>4, <1>5, <1>6 DEF MainStep

LEMMA WorkerStepTyped ==
    ASSUME NEW w \in Worker, Typed, WorkerStep(w)
    PROVE  Typed'
<1>. USE EngineAssumption
     DEF Typed, TypeOK, WorkersOK, WorkerPC, storeVars, mainVars, Goto
<1>1. ASSUME NEW u \in URL, Take(w, u)
      PROVE  Typed'
  <2>1. FrontierTypeOK'
    BY <1>1, FrontierKeepsTypes DEF Take
  <2>. QED
    BY <1>1, <2>1 DEF Take
<1>2. ASSUME NEW v \in URL, AddLink(w, v)
      PROVE  Typed'
  <2>1. FrontierTypeOK'
    BY <1>2, FrontierKeepsTypes DEF AddLink
  <2>. QED
    BY <1>2, <2>1 DEF AddLink
<1>3. CASE Leave(w)
  BY <1>3, FrontierRests DEF Leave, PopWaitNothing
<1>4. CASE FetchPage(w)
  <2>1. AllowedLinks(allowed_domains, item[w]) \subseteq URL
    BY <1>4, AllowedLinksTyped DEF FetchPage
  <2>. QED
    BY <1>4, <2>1, FrontierRests DEF FetchPage
<1>5. CASE MarkLink(w)
  BY <1>5, FrontierRests DEF MarkLink, MarkPendingURL
<1>6. CASE PageFetched(w)
  <2>1. item[w] \in URL
    BY <1>6 DEF PageFetched
  <2>2. FrontierTypeOK'
    BY <1>6, <2>1, FrontierKeepsTypes DEF PageFetched
  <2>. QED
    BY <1>6, <2>1, <2>2, AllowedLinksTyped DEF PageFetched
<1>7. CASE Answers(w)
  BY <1>7, AnswerEffect
<1>8. CASE Abandon(w)
  BY <1>8, FrontierRests DEF Abandon
<1>9. CASE MarkAgain(w)
  BY <1>9, FrontierRests DEF MarkAgain, MarkPendingURL
<1>10. CASE Clear(w)
  BY <1>10, FrontierRests DEF Clear, ClearPendingURL
<1>11. CASE Complete(w)
  <2>1. FrontierTypeOK'
    BY <1>11 DEF Complete, CompleteWork, FrontierTypeOK
  <2>. QED
    BY <1>11, <2>1 DEF Complete
<1>. QED
  BY <1>1, <1>2, <1>3, <1>4, <1>5, <1>6, <1>7, <1>8, <1>9, <1>10, <1>11
     DEF WorkerStep, Answers

LEMMA StepTyped == Typed /\ [Next]_vars => Typed'
<1>. SUFFICES ASSUME Typed, [Next]_vars
              PROVE  Typed'
  OBVIOUS
<1>1. CASE Interrupt
  BY <1>1, FrontierRests
     DEF Interrupt, Typed, TypeOK, WorkersOK, storeVars, workerVars
<1>2. CASE UNCHANGED vars
  BY <1>2, FrontierRests
     DEF vars, Typed, TypeOK, WorkersOK, storeVars, mainVars, workerVars
<1>. QED
  BY <1>1, <1>2, MainStepTyped, WorkerStepTyped DEF Next, Done

\* Every variable of the engine keeps its type.
THEOREM EngineTypeCorrect == Spec => []TypeOK
<1>1. Typed => TypeOK
  BY DEF Typed
<1>. QED
  BY <1>1, InitTyped, StepTyped, PTL DEF Spec

(***************************************************************************)
(* The phases of the main thread: no worker runs before the start, none is *)
(* left after the join, and work is accepted until the shutdown.           *)
(***************************************************************************)

Phases ==
    /\ accepting_work <=> phase \in {"seed", "crawl"}
    /\ seeding # NoURL => phase = "seed"
    /\ phase = "seed" => \A w \in Worker : pc[w] = "loop"
    /\ phase \in {"save", "done"} => \A w \in Worker : pc[w] = "exit"

LEMMA InitPhases == Init => Phases
  BY DEF Init, FrontierInit, Phases

\* What a worker's step leaves alone, and when it can happen.
LEMMA WorkerStepRuns ==
    ASSUME NEW w \in Worker, Typed, Phases, WorkerStep(w)
    PROVE  /\ phase = "crawl"
           /\ accepting_work
           /\ UNCHANGED <<mainVars, legacy, accepting_work>>
<1>1. phase = "crawl"
  BY DEF Typed, TypeOK, Phases, WorkerStep, Take, AddLink, Leave, FetchPage,
         MarkLink, PageFetched, OtherAnswer, ClientError, Disallowed, Requeue,
         Exhausted, Report, Abandon, MarkAgain, Clear, Complete
<1>2. UNCHANGED mainVars
  BY DEF WorkerStep, Take, AddLink, Leave, FetchPage, MarkLink, PageFetched,
         OtherAnswer, ClientError, Disallowed, Requeue, Exhausted, Report,
         Abandon, MarkAgain, Clear, Complete
<1>3. UNCHANGED legacy
  BY DEF WorkerStep, Take, AddLink, Leave, FetchPage, MarkLink, PageFetched,
         OtherAnswer, ClientError, Disallowed, Requeue, Exhausted, Report,
         Abandon, MarkAgain, Clear, Complete, storeVars, MarkPendingURL,
         ClearPendingURL
<1>4. UNCHANGED accepting_work
  BY DEF WorkerStep, Take, PopWaitItem, AddLink, Push, Leave, PopWaitNothing,
         FetchPage, MarkLink, PageFetched, OtherAnswer, MarkFetched, ClientError,
         MarkFailed, Disallowed, MarkDisallowed, Requeue, MarkRetryRequeue,
         Exhausted, MarkRetryExhausted, Report, Abandon, MarkAgain, Clear,
         Complete, CompleteWork, frontierVars
<1>. QED
  BY <1>1, <1>2, <1>3, <1>4 DEF Phases

LEMMA StepPhases == Typed /\ Phases /\ [Next]_vars => Phases'
<1>. SUFFICES ASSUME Typed, Phases, [Next]_vars
              PROVE  Phases'
  OBVIOUS
<1>. USE DEF Phases, Typed, TypeOK
<1>1. ASSUME NEW u \in URL, SeedPush(u) \/ SkipSeed(u)
      PROVE  Phases'
  BY <1>1 DEF SeedPush, Push, SkipSeed, frontierVars, workerVars
<1>2. CASE SeedMark
  BY <1>2 DEF SeedMark, frontierVars, workerVars
<1>3. CASE CheckpointAndRun
  BY <1>3 DEF CheckpointAndRun, frontierVars, workerVars
<1>4. CASE JoinAndShutdown
  BY <1>4 DEF JoinAndShutdown, FrontierShutdown, workerVars
<1>5. CASE FinalSave
  BY <1>5 DEF FinalSave, frontierVars, workerVars
<1>6. CASE Interrupt
  BY <1>6 DEF Interrupt, frontierVars, workerVars
<1>7. ASSUME NEW w \in Worker, WorkerStep(w)
      PROVE  Phases'
  BY <1>7, WorkerStepRuns DEF mainVars
<1>8. CASE UNCHANGED vars
  BY <1>8 DEF vars, frontierVars, mainVars, workerVars
<1>. QED
  BY <1>1, <1>2, <1>3, <1>4, <1>5, <1>6, <1>7, <1>8 DEF Next, MainStep, Done

(***************************************************************************)
(* Where a URL is.                                                         *)
(***************************************************************************)

Working(w) == pc[w] \in {"work", "links", "mark_link"}

\* A queued URL is pending and queued once; a worker that has not reported an
\* outcome holds a pending URL that is not queued and that no other holds.
Placement ==
    /\ \A u \in URL :
          /\ hostQueue[u] <= 1
          /\ hostQueue[u] > 0 => fetch_status[u] = Pending
    /\ \A w \in Worker : Working(w) => /\ fetch_status[item[w]] = Pending
                                      /\ hostQueue[item[w]] = 0
    /\ \A w, x \in Worker :
          Working(w) /\ Working(x) /\ item[w] = item[x] => w = x

LEMMA InitPlacement == Init => Placement
  BY DEF Init, FrontierInit, Placement, Working

LEMMA PushPlacement ==
    ASSUME Typed, Placement, NEW u \in URL, Push(u), item' = item,
           \A w \in Worker : Working(w)' <=> Working(w)
    PROVE  Placement'
<1>. USE DEF Typed, TypeOK, FrontierTypeOK, WorkersOK
<1>1. hostQueue[u] = 0 /\ \A w \in Worker : Working(w) => item[w] # u
  BY DEF Push, Accepts, Placement
<1>2. /\ hostQueue' = [hostQueue EXCEPT ![u] = 1]
      /\ fetch_status' = [fetch_status EXCEPT ![u] = Pending]
  BY <1>1 DEF Push
<1>3. \A w \in Worker : Working(w) => item[w] \in URL
  BY DEF Working
<1>. QED
  BY <1>1, <1>2, <1>3 DEF Placement

\* A worker reports an outcome of its URL, or drops it.
LEMMA ReleasePlacement ==
    ASSUME Typed, Placement, NEW w \in Worker, Working(w), item' = item,
           \A x \in Worker : Working(x)' => Working(x) /\ x # w,
           \/ /\ hostQueue' = hostQueue
              /\ \E s \in Status : fetch_status' = [fetch_status EXCEPT ![item[w]] = s]
           \/ /\ hostQueue' = [hostQueue EXCEPT ![item[w]] = @ + 1]
              /\ fetch_status' = [fetch_status EXCEPT ![item[w]] = Pending]
    PROVE  Placement'
<1>. USE DEF Typed, TypeOK, FrontierTypeOK, WorkersOK
<1>. DEFINE u == item[w]
<1>1. /\ u \in URL
      /\ hostQueue[u] = 0
      /\ \A x \in Worker : Working(x)' => item[x] \in URL \ {u}
  BY DEF Placement, Working
<1>2. \A v \in URL \ {u} : hostQueue'[v] = hostQueue[v] /\ fetch_status'[v] = fetch_status[v]
  BY <1>1
<1>3. hostQueue'[u] <= 1 /\ (hostQueue'[u] > 0 => fetch_status'[u] = Pending)
  BY <1>1
<1>. HIDE DEF u
<1>. QED
  BY <1>1, <1>2, <1>3 DEF Placement

LEMMA TakePlacement ==
    ASSUME Typed, Placement, NEW w \in Worker, NEW u \in URL, Take(w, u)
    PROVE  Placement'
<1>. USE DEF Typed, TypeOK, FrontierTypeOK, WorkersOK
<1>1. /\ hostQueue[u] = 1
      /\ fetch_status[u] = Pending
      /\ \A x \in Worker : Working(x) => item[x] \in URL \ {u}
  BY DEF Take, PopWaitItem, IsTop, Placement, Working
<1>2. /\ hostQueue' = [hostQueue EXCEPT ![u] = 0]
      /\ UNCHANGED fetch_status
      /\ item' = [item EXCEPT ![w] = u]
  BY <1>1 DEF Take, PopWaitItem
<1>3. \A x \in Worker : Working(x)' <=> Working(x) \/ x = w
  BY DEF Take, Goto, Working
<1>. QED
  BY <1>1, <1>2, <1>3 DEF Placement

\* An answer changes the state of its own URL alone.
LEMMA AnswerRelease ==
    ASSUME NEW w \in Worker, Typed, accepting_work, Answers(w)
    PROVE  \/ /\ hostQueue' = hostQueue
              /\ \E s \in Terminal \cup RetryStatus :
                    fetch_status' = [fetch_status EXCEPT ![item[w]] = s]
              /\ pc' = [pc EXCEPT ![w] = "clear"]
           \/ /\ hostQueue' = [hostQueue EXCEPT ![item[w]] = @ + 1]
              /\ fetch_status' = [fetch_status EXCEPT ![item[w]] = Pending]
              /\ pc' = [pc EXCEPT ![w] = "mark_again"]
<1>1. CASE OtherAnswer(w) \/ ClientError(w) \/ Disallowed(w)
  BY <1>1 DEF OtherAnswer, ClientError, Disallowed, Report, Goto, MarkFetched,
              MarkFailed, MarkDisallowed, Terminal
<1>2. CASE Exhausted(w)
  BY <1>2, EngineAssumption DEF Exhausted, Report, Goto, MarkRetryExhausted
<1>3. CASE Requeue(w)
  BY <1>3 DEF Requeue, Report, Goto, MarkRetryRequeue
<1>. QED
  BY <1>1, <1>2, <1>3 DEF Answers

LEMMA StepPlacement == Typed /\ Phases /\ Placement /\ [Next]_vars => Placement'
<1>. SUFFICES ASSUME Typed, Phases, Placement, [Next]_vars
              PROVE  Placement'
  OBVIOUS
<1>. USE DEF Typed, TypeOK
<1>1. ASSUME UNCHANGED <<hostQueue, fetch_status, item>>,
             \A w \in Worker : Working(w)' => Working(w)
      PROVE  Placement'
  BY <1>1 DEF Placement
<1>2. ASSUME NEW u \in URL, SeedPush(u)
      PROVE  Placement'
  <2>1. CASE Push(u)
    BY <1>2, <2>1, PushPlacement DEF SeedPush, workerVars, Working
  <2>2. CASE ~Accepts(u) /\ UNCHANGED frontierVars
    BY <1>1, <1>2, <2>2 DEF SeedPush, workerVars, frontierVars, Working
  <2>. QED
    BY <1>2, <2>1, <2>2 DEF SeedPush
<1>3. ASSUME NEW u \in URL, SkipSeed(u)
      PROVE  Placement'
  BY <1>1, <1>3 DEF SkipSeed, workerVars, frontierVars, Working
<1>4. CASE SeedMark \/ CheckpointAndRun \/ JoinAndShutdown \/ FinalSave \/ Interrupt
  BY <1>1, <1>4 DEF SeedMark, CheckpointAndRun, JoinAndShutdown, FrontierShutdown,
                    FinalSave, Interrupt, workerVars, frontierVars, Working
<1>5. ASSUME NEW w \in Worker, NEW u \in URL, Take(w, u)
      PROVE  Placement'
  BY <1>5, TakePlacement
<1>6. ASSUME NEW w \in Worker, NEW v \in URL, AddLink(w, v)
      PROVE  Placement'
  <2>1. item' = item /\ \A x \in Worker : Working(x)' <=> Working(x)
    BY <1>6 DEF AddLink, Goto, Working
  <2>2. CASE Push(v)
    BY <2>1, <2>2, PushPlacement
  <2>3. CASE ~Accepts(v) /\ UNCHANGED frontierVars
    BY <1>1, <2>1, <2>3 DEF frontierVars
  <2>. QED
    BY <1>6, <2>2, <2>3 DEF AddLink
<1>7. ASSUME NEW w \in Worker, Answers(w)
      PROVE  Placement'
  <2>1. /\ Working(w) /\ item' = item
        /\ \A x \in Worker : Working(x)' => Working(x) /\ x # w
        /\ accepting_work
    BY <1>7, AnswerEffect, WorkerStepRuns DEF Working, WorkerStep, Answers
  <2>. QED
    BY <1>7, <2>1, AnswerRelease, ReleasePlacement DEF Status
<1>8. ASSUME NEW w \in Worker, PageFetched(w)
      PROVE  Placement'
  <2>1. /\ Working(w) /\ item' = item
        /\ \A x \in Worker : Working(x)' => Working(x) /\ x # w
    BY <1>8 DEF PageFetched, Goto, Working
  <2>2. /\ hostQueue' = hostQueue
        /\ \E s \in Status : fetch_status' = [fetch_status EXCEPT ![item[w]] = s]
    BY <1>8 DEF PageFetched, MarkFetched, Status, Terminal
  <2>. QED
    BY <2>1, <2>2, ReleasePlacement
<1>9. ASSUME NEW w \in Worker, Abandon(w)
      PROVE  Placement'
  BY <1>1, <1>9 DEF Abandon, Goto, Working, frontierVars
<1>10. ASSUME NEW w \in Worker,
              Leave(w) \/ FetchPage(w) \/ MarkLink(w) \/ MarkAgain(w) \/ Clear(w)
       PROVE  Placement'
  BY <1>1, <1>10 DEF Leave, PopWaitNothing, FetchPage, MarkLink, MarkAgain, Clear,
                     Goto, Working, frontierVars
<1>11. ASSUME NEW w \in Worker, Complete(w)
       PROVE  Placement'
  <2>1. /\ UNCHANGED <<hostQueue, fetch_status>>
        /\ \A x \in Worker : Working(x)' => Working(x) /\ item'[x] = item[x]
    BY <1>11 DEF Complete, CompleteWork, Goto, Working
  <2>. QED
    BY <2>1 DEF Placement
<1>12. CASE UNCHANGED vars
  BY <1>1, <1>12 DEF vars, frontierVars, workerVars, Working
<1>. QED
  BY <1>2, <1>3, <1>4, <1>5, <1>6, <1>7, <1>8, <1>9, <1>10, <1>11, <1>12
     DEF Next, MainStep, WorkerStep, Answers, Done

Inv == Typed /\ Phases /\ Placement

LEMMA InitInv == Init => Inv
  BY InitTyped, InitPhases, InitPlacement DEF Inv

LEMMA StepInv == Inv /\ [Next]_vars => Inv'
  BY StepTyped, StepPhases, StepPlacement DEF Inv

(***************************************************************************)
(* The refinement of the pool.                                             *)
(***************************************************************************)

\* The values that stand for the variables of CrawlPool.
AbstractPhase == IF phase = "save" THEN "done" ELSE phase
AbstractPC    == [w \in Worker |-> PoolPC(w)]
Dropped       == {u \in URL : /\ fetch_status[u] = Pending
                              /\ hostQueue[u] = 0
                              /\ u \notin Held}

LEMMA PoolPCWorks ==
    ASSUME Typed, NEW w \in Worker
    PROVE  /\ PoolPC(w) = "work" <=> Working(w)
           /\ PoolPC(w) = "marked" <=> pc[w] \in {"mark_again", "clear", "complete"}
           /\ PoolPC(w) = "loop" <=> pc[w] = "loop"
           /\ PoolPC(w) = "exit" <=> pc[w] = "exit"
  BY DEF Typed, TypeOK, WorkerPC, PoolPC, Working

\* What the pool sees of a worker that goes to another place.
LEMMA AbstractGoto ==
    ASSUME Typed, NEW w \in Worker, NEW l \in WorkerPC, pc' = [pc EXCEPT ![w] = l]
    PROVE  /\ l \in {"work", "links", "mark_link"}
                => AbstractPC' = [AbstractPC EXCEPT ![w] = "work"]
           /\ l \in {"mark_again", "clear", "complete"}
                => AbstractPC' = [AbstractPC EXCEPT ![w] = "marked"]
           /\ l \in {"loop", "exit"} => AbstractPC' = [AbstractPC EXCEPT ![w] = l]
  BY DEF Typed, TypeOK, WorkerPC, AbstractPC, PoolPC

LEMMA AbstractStays ==
    ASSUME Typed, NEW w \in Worker, Working(w),
           NEW l \in {"work", "links", "mark_link"}, pc' = [pc EXCEPT ![w] = l]
    PROVE  AbstractPC' = AbstractPC
  BY DEF Typed, TypeOK, WorkerPC, AbstractPC, PoolPC, Working

LEMMA DroppedIs ==
    ASSUME Typed, NEW u \in URL
    PROVE  u \in Dropped <=> /\ fetch_status[u] = Pending
                             /\ hostQueue[u] = 0
                             /\ \A w \in Worker : Working(w) => item[w] # u
  BY DEF Dropped, Held, Typed, TypeOK, WorkerPC, PoolPC, Working

LEMMA DroppedNext ==
    ASSUME Typed', NEW u \in URL
    PROVE  u \in Dropped' <=> /\ fetch_status'[u] = Pending
                              /\ hostQueue'[u] = 0
                              /\ \A w \in Worker : Working(w)' => item'[w] # u
  BY DEF Dropped, Held, Typed, TypeOK, WorkerPC, PoolPC, Working

LEMMA DroppedStays ==
    ASSUME Typed, Typed', UNCHANGED <<hostQueue, fetch_status>>,
           \A w \in Worker : Working(w)' <=> Working(w),
           \A w \in Worker : Working(w) => item'[w] = item[w]
    PROVE  Dropped' = Dropped
<1>1. \A u \in URL : u \in Dropped' <=> u \in Dropped
  BY DroppedIs, DroppedNext
<1>. QED
  BY <1>1 DEF Dropped

\* A URL that push accepts was not pending, and is then queued.
LEMMA DroppedPush ==
    ASSUME Typed, Typed', NEW v \in URL, Push(v), item' = item,
           \A w \in Worker : Working(w)' <=> Working(w)
    PROVE  Dropped' = Dropped
<1>1. ASSUME NEW u \in URL
      PROVE  u \in Dropped' <=> u \in Dropped
  BY DroppedIs, DroppedNext DEF Push, Accepts, Typed, TypeOK, FrontierTypeOK
<1>. QED
  BY <1>1 DEF Dropped

LEMMA DroppedTake ==
    ASSUME Typed, Typed', Placement, NEW w \in Worker, NEW v \in URL, Take(w, v)
    PROVE  Dropped' = Dropped
<1>1. hostQueue[v] = 1
  BY DEF Take, PopWaitItem, IsTop, Placement, Typed, TypeOK, FrontierTypeOK
<1>2. /\ hostQueue' = [hostQueue EXCEPT ![v] = 0]
      /\ UNCHANGED fetch_status
  BY <1>1 DEF Take, PopWaitItem
<1>3. /\ \A x \in Worker : Working(x)' <=> Working(x) \/ x = w
      /\ item'[w] = v
      /\ \A x \in Worker : Working(x) => item'[x] = item[x]
  BY DEF Take, Goto, Working, Typed, TypeOK
<1>4. v \notin Dropped /\ v \notin Dropped'
  BY <1>1, <1>3, DroppedIs, DroppedNext
<1>5. ASSUME NEW u \in URL, u # v
      PROVE  u \in Dropped' <=> u \in Dropped
  <2>1. hostQueue'[u] = hostQueue[u]
    BY <1>2, <1>5 DEF Typed, TypeOK, FrontierTypeOK
  <2>. QED
    BY <1>2, <1>3, <1>5, <2>1, DroppedIs, DroppedNext
<1>. QED
  BY <1>4, <1>5 DEF Dropped

\* A worker that ends its processing drops its URL exactly when it leaves it
\* pending and not queued.
LEMMA DroppedRelease ==
    ASSUME Typed, Typed', Placement, NEW w \in Worker, Working(w), item' = item,
           \A x \in Worker : Working(x)' <=> Working(x) /\ x # w,
           \A u \in URL \ {item[w]} :
               hostQueue'[u] = hostQueue[u] /\ fetch_status'[u] = fetch_status[u]
    PROVE  Dropped' = IF fetch_status'[item[w]] = Pending /\ hostQueue'[item[w]] = 0
                        THEN Dropped \cup {item[w]}
                        ELSE Dropped
<1>1. item[w] \in URL \ Dropped
  BY DroppedIs DEF Typed, WorkersOK, Working
<1>2. item[w] \in Dropped' <=> fetch_status'[item[w]] = Pending /\ hostQueue'[item[w]] = 0
  BY <1>1, DroppedNext DEF Placement
<1>3. ASSUME NEW u \in URL \ {item[w]}
      PROVE  u \in Dropped' <=> u \in Dropped
  BY DroppedIs, DroppedNext
<1>. QED
  BY <1>1, <1>2, <1>3 DEF Dropped

LEMMA InitRefines == Init => Pool!Init
<1>. SUFFICES ASSUME Init
              PROVE  Pool!Init
  OBVIOUS
<1>1. Pool!FrontierInit
  BY DEF Init, FrontierInit, Pool!FrontierInit, NoEntry, Pool!NoEntry
<1>2. [w \in Worker |-> PoolPC(w)] = [w \in Worker |-> "loop"]
  BY DEF Init, PoolPC
<1>3. {u \in URL : /\ fetch_status[u] = Pending
                   /\ hostQueue[u] = 0
                   /\ u \notin Held} = {}
  BY DEF Init, FrontierInit, NoEntry, Pending
<1>. QED
  BY <1>1, <1>2, <1>3 DEF Init, Pool!Init

LEMMA Stutter ==
    ASSUME UNCHANGED <<frontierVars, g_running, item>>,
           AbstractPhase' = AbstractPhase, AbstractPC' = AbstractPC,
           Dropped' = Dropped
    PROVE  UNCHANGED Pool!vars
  BY DEF frontierVars, AbstractPhase, AbstractPC, Dropped, Pool!vars,
         Pool!frontierVars, Pool!poolVars

\* The main thread: a push of a seed, the start of the workers and the join are
\* steps of the pool; what it does to the database is none.
LEMMA MainRefines ==
    ASSUME Inv, Inv', MainStep
    PROVE  [Pool!Next]_(Pool!vars)
<1>. USE DEF Inv
<1>1. ASSUME NEW u \in URL, SeedPush(u), Push(u)
      PROVE  Pool!Seed(u)
  <2>1. Dropped' = Dropped /\ AbstractPC' = AbstractPC
    BY <1>1, DroppedPush DEF SeedPush, workerVars, Working, AbstractPC, PoolPC
  <2>2. Pool!Push(u)
    BY <1>1 DEF Push, Accepts, Terminal, Pending, Pool!Push, Pool!Accepts,
                Pool!Terminal, Pool!Pending
  <2>. QED
    BY <1>1, <2>1, <2>2 DEF SeedPush, workerVars, Pool!Seed, Pool!poolVars,
                            Dropped, AbstractPC
<1>2. CASE CheckpointAndRun
  <2>1. Dropped' = Dropped /\ AbstractPC' = AbstractPC
    BY <1>2, DroppedStays DEF CheckpointAndRun, frontierVars, workerVars, Working,
                              AbstractPC, PoolPC
  <2>2. Pool!StartWorkers
    BY <1>2, <2>1 DEF CheckpointAndRun, frontierVars, workerVars,
                      Pool!StartWorkers, Pool!frontierVars, Dropped, AbstractPC
  <2>. QED
    BY <2>2 DEF Pool!Next
<1>3. CASE JoinAndShutdown
  <2>1. Dropped' = Dropped /\ AbstractPC' = AbstractPC
    BY <1>3, DroppedStays DEF JoinAndShutdown, FrontierShutdown, workerVars, Working,
                              AbstractPC, PoolPC
  <2>2. \A w \in Worker : AbstractPC[w] = "exit"
    BY <1>3 DEF JoinAndShutdown, AbstractPC, PoolPC
  <2>3. Pool!FrontierShutdown
    BY <1>3 DEF JoinAndShutdown, FrontierShutdown, Pool!FrontierShutdown
  <2>4. Pool!JoinAndShutdown
    BY <1>3, <2>1, <2>2, <2>3 DEF JoinAndShutdown, workerVars,
                                  Pool!JoinAndShutdown, Dropped, AbstractPC
  <2>. QED
    BY <2>4 DEF Pool!Next
<1>4. ASSUME \/ \E u \in URL : SkipSeed(u) \/ (SeedPush(u) /\ ~Push(u))
             \/ SeedMark \/ FinalSave
      PROVE  UNCHANGED Pool!vars
  <2>1. UNCHANGED <<frontierVars, g_running, workerVars>>
    BY <1>4 DEF SkipSeed, SeedPush, SeedMark, FinalSave
  <2>2. AbstractPhase' = AbstractPhase
    BY <1>4 DEF SkipSeed, SeedPush, SeedMark, FinalSave, AbstractPhase
  <2>3. Dropped' = Dropped /\ AbstractPC' = AbstractPC
    BY <2>1, DroppedStays DEF frontierVars, workerVars, Working, AbstractPC, PoolPC
  <2>. QED
    BY <2>1, <2>2, <2>3, Stutter DEF workerVars
<1>. QED
  BY <1>1, <1>2, <1>3, <1>4 DEF MainStep, Pool!Next

\* Two steps of a worker that move the pool's view of it.
LEMMA TakeRefines ==
    ASSUME Inv, Inv', NEW w \in Worker, NEW u \in URL, Take(w, u)
    PROVE  Pool!Take(w, u)
<1>. USE DEF Inv
<1>1. Dropped' = Dropped
  BY DroppedTake
<1>2. AbstractPC' = [AbstractPC EXCEPT ![w] = "work"]
  BY AbstractGoto DEF Take, Goto, WorkerPC
<1>3. AbstractPC[w] = "loop"
  BY DEF Take, AbstractPC, PoolPC
<1>4. Pool!PopWaitItem(g_running, u)
  BY DEF Take, PopWaitItem, IsTop, Pool!PopWaitItem, Pool!IsTop
<1>. QED
  BY <1>1, <1>2, <1>3, <1>4 DEF Take, mainVars, Pool!Take, Dropped, AbstractPC

LEMMA LeaveRefines ==
    ASSUME Inv, Inv', NEW w \in Worker, Leave(w)
    PROVE  Pool!Leave(w)
<1>. USE DEF Inv
<1>1. pc[w] = "loop" /\ pc' = [pc EXCEPT ![w] = "exit"] /\ item' = item
  BY DEF Leave, Goto
<1>2. Dropped' = Dropped
  BY <1>1, DroppedStays DEF Leave, PopWaitNothing, frontierVars, Working, Typed, TypeOK
<1>3. AbstractPC' = [AbstractPC EXCEPT ![w] = "exit"]
  BY <1>1, AbstractGoto DEF WorkerPC
<1>4. AbstractPC[w] = "loop"
  BY <1>1 DEF AbstractPC, PoolPC
<1>5. Pool!PopWaitNothing(g_running)
  BY DEF Leave, PopWaitNothing, MustWait, HasQueuedURL, frontierVars,
         Pool!PopWaitNothing, Pool!MustWait, Pool!HasQueuedURL, Pool!frontierVars
<1>. QED
  BY <1>1, <1>2, <1>3, <1>4, <1>5 DEF Leave, mainVars, Pool!Leave, Dropped, AbstractPC

LEMMA AddLinkRefines ==
    ASSUME Inv, Inv', NEW w \in Worker, NEW v \in URL, AddLink(w, v)
    PROVE  Pool!AddLink(w, v) \/ UNCHANGED Pool!vars
<1>. USE DEF Inv
<1>1. /\ pc[w] = "links" /\ item' = item /\ UNCHANGED mainVars
      /\ pc' = pc \/ pc' = [pc EXCEPT ![w] = "mark_link"]
  BY DEF AddLink, Goto
<1>2. AbstractPC' = AbstractPC
  BY <1>1, AbstractStays DEF Working, AbstractPC, PoolPC
<1>3. /\ Working(w) /\ item' = item /\ UNCHANGED mainVars
      /\ \A x \in Worker : Working(x)' <=> Working(x)
      /\ AbstractPC[w] = "work"
      /\ AbstractPC' = AbstractPC
  BY <1>1, <1>2 DEF Working, AbstractPC, PoolPC, Typed, TypeOK
<1>4. CASE Push(v)
  <2>1. Dropped' = Dropped
    BY <1>3, <1>4, DroppedPush
  <2>2. Pool!Push(v)
    BY <1>4 DEF Push, Accepts, Terminal, Pending, Pool!Push, Pool!Accepts,
                Pool!Terminal, Pool!Pending
  <2>. QED
    BY <1>3, <2>1, <2>2 DEF AddLink, mainVars, Pool!AddLink, Pool!poolVars,
                            Dropped, AbstractPC
<1>5. CASE UNCHANGED frontierVars
  <2>1. Dropped' = Dropped
    BY <1>3, <1>5, DroppedStays DEF frontierVars
  <2>. QED
    BY <1>3, <1>5, <2>1, Stutter DEF mainVars, AbstractPhase
<1>. QED
  BY <1>4, <1>5 DEF AddLink

\* What the end of a processing has in common: the pool sees the worker leave
\* "work" with its item.
LEMMA ReleaseRefines ==
    ASSUME Inv, NEW w \in Worker, Working(w),
           NEW l \in {"mark_again", "clear", "complete"}, pc' = [pc EXCEPT ![w] = l]
    PROVE  /\ AbstractPC[w] = "work"
           /\ AbstractPC' = [AbstractPC EXCEPT ![w] = "marked"]
           /\ \A x \in Worker : Working(x)' <=> Working(x) /\ x # w
<1>. USE DEF Inv
<1>1. AbstractPC' = [AbstractPC EXCEPT ![w] = "marked"]
  BY AbstractGoto DEF WorkerPC
<1>2. AbstractPC[w] = "work"
  BY DEF Working, AbstractPC, PoolPC
<1>3. \A x \in Worker : Working(x)' <=> Working(x) /\ x # w
  BY DEF Working, Typed, TypeOK
<1>. QED
  BY <1>1, <1>2, <1>3

LEMMA AnswerRefines ==
    ASSUME Inv, Inv', NEW w \in Worker, Answers(w)
    PROVE  \/ Pool!Fetched(w) \/ Pool!Failed(w) \/ Pool!Disallowed(w)
           \/ Pool!Requeue(w) \/ Pool!Exhausted(w)
<1>. USE DEF Inv
<1>1. /\ Working(w) /\ item[w] \in URL /\ item' = item
      /\ UNCHANGED mainVars /\ accepting_work
      /\ \E l \in {"clear", "mark_again"} : pc' = [pc EXCEPT ![w] = l]
  BY AnswerEffect, WorkerStepRuns DEF Working, WorkerStep, Answers
<1>2. /\ AbstractPC[w] = "work"
      /\ AbstractPC' = [AbstractPC EXCEPT ![w] = "marked"]
      /\ \A x \in Worker : Working(x)' <=> Working(x) /\ x # w
  BY <1>1, ReleaseRefines
<1>3. Dropped' = Dropped
  <2>. DEFINE u == item[w]
  <2>1. /\ u \in URL
        /\ hostQueue \in [URL -> Nat]
        /\ fetch_status \in [URL -> Status]
    BY <1>1 DEF Typed, TypeOK, FrontierTypeOK
  <2>2. CASE /\ hostQueue' = hostQueue
             /\ \E s \in Terminal \cup RetryStatus :
                   fetch_status' = [fetch_status EXCEPT ![u] = s]
    <3>1. fetch_status'[u] # Pending
      BY <2>1, <2>2 DEF Terminal, RetryStatus, Pending
    <3>2. \A v \in URL \ {u} : /\ hostQueue'[v] = hostQueue[v]
                              /\ fetch_status'[v] = fetch_status[v]
      BY <2>1, <2>2
    <3>. QED
      BY <1>1, <1>2, <3>1, <3>2, DroppedRelease
  <2>3. CASE /\ hostQueue' = [hostQueue EXCEPT ![u] = @ + 1]
             /\ fetch_status' = [fetch_status EXCEPT ![u] = Pending]
    <3>1. hostQueue'[u] # 0
      BY <2>1, <2>3
    <3>2. \A v \in URL \ {u} : /\ hostQueue'[v] = hostQueue[v]
                              /\ fetch_status'[v] = fetch_status[v]
      BY <2>1, <2>3
    <3>. QED
      BY <1>1, <1>2, <3>1, <3>2, DroppedRelease
  <2>. QED
    BY <1>1, <2>2, <2>3, AnswerRelease
<1>5. OtherAnswer(w) => Pool!Fetched(w)
  BY <1>1, <1>2, <1>3
     DEF OtherAnswer, Report, MarkFetched, mainVars, Dropped, AbstractPC,
         Pool!Fetched, Pool!Report, Pool!MarkFetched
<1>6. ClientError(w) => Pool!Failed(w)
  BY <1>1, <1>2, <1>3
     DEF ClientError, Report, MarkFailed, mainVars, Dropped, AbstractPC,
         Pool!Failed, Pool!Report, Pool!MarkFailed
<1>7. Disallowed(w) => Pool!Disallowed(w)
  BY <1>1, <1>2, <1>3
     DEF Disallowed, Report, MarkDisallowed, mainVars, Dropped, AbstractPC,
         Pool!Disallowed, Pool!Report, Pool!MarkDisallowed
<1>8. Requeue(w) => Pool!Requeue(w)
  BY <1>1, <1>2, <1>3
     DEF Requeue, Report, MarkRetryRequeue, RetriesLeft, Pending, mainVars, Dropped,
         AbstractPC, Pool!Requeue, Pool!Report, Pool!MarkRetryRequeue,
         Pool!RetriesLeft, Pool!Pending
<1>9. Exhausted(w) => Pool!Exhausted(w)
  BY <1>1, <1>2, <1>3, EngineAssumption
     DEF Exhausted, Report, MarkRetryExhausted, RetriesLeft, RetryStatus, mainVars,
         Dropped, AbstractPC, Pool!Exhausted, Pool!Report,
         Pool!MarkRetryExhausted, Pool!RetriesLeft, Pool!RetryStatus
<1>. QED
  BY <1>5, <1>6, <1>7, <1>8, <1>9 DEF Answers

LEMMA PageFetchedRefines ==
    ASSUME Inv, Inv', NEW w \in Worker, PageFetched(w)
    PROVE  Pool!Fetched(w)
<1>. USE DEF Inv
<1>1. /\ Working(w) /\ item[w] \in URL /\ item' = item /\ UNCHANGED mainVars
      /\ pc' = [pc EXCEPT ![w] = "clear"]
      /\ MarkFetched(item[w])
  BY DEF PageFetched, Goto, Working, Typed, WorkersOK
<1>2. /\ AbstractPC[w] = "work"
      /\ AbstractPC' = [AbstractPC EXCEPT ![w] = "marked"]
      /\ \A x \in Worker : Working(x)' <=> Working(x) /\ x # w
  BY <1>1, ReleaseRefines
<1>3. Dropped' = Dropped
  <2>1. \A u \in URL \ {item[w]} : /\ hostQueue'[u] = hostQueue[u]
                                    /\ fetch_status'[u] = fetch_status[u]
    BY <1>1 DEF MarkFetched, Typed, TypeOK, FrontierTypeOK
  <2>2. fetch_status'[item[w]] # Pending
    BY <1>1 DEF MarkFetched, Pending, Typed, TypeOK, FrontierTypeOK
  <2>. QED
    BY <1>1, <1>2, <2>1, <2>2, DroppedRelease
<1>4. Pool!MarkFetched(item[w])
  BY <1>1 DEF MarkFetched, Pool!MarkFetched
<1>. QED
  BY <1>1, <1>2, <1>3, <1>4 DEF mainVars, Dropped, AbstractPC, Pool!Fetched, Pool!Report

LEMMA AbandonRefines ==
    ASSUME Inv, Inv', NEW w \in Worker, Abandon(w)
    PROVE  Pool!Abandon(w)
<1>. USE DEF Inv
<1>1. /\ Working(w) /\ item[w] \in URL /\ item' = item /\ UNCHANGED mainVars
      /\ pc' = [pc EXCEPT ![w] = "complete"]
      /\ UNCHANGED frontierVars
  BY DEF Abandon, Goto, Working, Typed, WorkersOK
<1>2. /\ AbstractPC[w] = "work"
      /\ AbstractPC' = [AbstractPC EXCEPT ![w] = "marked"]
      /\ \A x \in Worker : Working(x)' <=> Working(x) /\ x # w
  BY <1>1, ReleaseRefines
<1>3. Dropped' = Dropped \cup {item[w]}
  <2>1. /\ UNCHANGED <<hostQueue, fetch_status>>
        /\ fetch_status[item[w]] = Pending /\ hostQueue[item[w]] = 0
    BY <1>1 DEF frontierVars, Placement
  <2>. QED
    BY <1>1, <1>2, <2>1, DroppedRelease
<1>. QED
  BY <1>1, <1>2, <1>3 DEF frontierVars, mainVars, Dropped, AbstractPC,
                          Pool!Abandon, Pool!frontierVars

LEMMA CompleteRefines ==
    ASSUME Inv, Inv', NEW w \in Worker, Complete(w)
    PROVE  Pool!Complete(w)
<1>. USE DEF Inv
<1>1. /\ pc[w] = "complete" /\ pc' = [pc EXCEPT ![w] = "loop"]
      /\ item' = [item EXCEPT ![w] = NoURL] /\ UNCHANGED mainVars
      /\ CompleteWork
  BY DEF Complete, Goto
<1>2. /\ \A x \in Worker : Working(x)' <=> Working(x)
      /\ \A x \in Worker : Working(x) => item'[x] = item[x]
  BY <1>1 DEF Working, Typed, TypeOK
<1>3. Dropped' = Dropped
  BY <1>1, <1>2, DroppedStays DEF CompleteWork
<1>4. AbstractPC[w] = "marked" /\ AbstractPC' = [AbstractPC EXCEPT ![w] = "loop"]
  BY <1>1, AbstractGoto DEF WorkerPC, AbstractPC, PoolPC
<1>. QED
  BY <1>1, <1>3, <1>4 DEF CompleteWork, mainVars, Dropped, AbstractPC,
                          Pool!Complete, Pool!CompleteWork

\* The answer of the server, the marks of the database: the pool does not move.
LEMMA WorkerStutters ==
    ASSUME Inv, Inv', NEW w \in Worker,
           FetchPage(w) \/ MarkLink(w) \/ MarkAgain(w) \/ Clear(w)
    PROVE  UNCHANGED Pool!vars
<1>. USE DEF Inv
<1>1. /\ UNCHANGED <<frontierVars, mainVars, item>>
      /\ \/ Working(w) /\ pc' = [pc EXCEPT ![w] = "links"]
         \/ /\ pc[w] \in {"mark_again", "clear"}
            /\ pc' = [pc EXCEPT ![w] = "complete"]
  BY DEF FetchPage, MarkLink, MarkAgain, Clear, Goto, Working
<1>2. AbstractPC' = AbstractPC
  BY <1>1, AbstractStays DEF Typed, TypeOK, WorkerPC, AbstractPC, PoolPC
<1>3. Dropped' = Dropped
  <2>1. \A x \in Worker : Working(x)' <=> Working(x)
    BY <1>1 DEF Working, Typed, TypeOK
  <2>. QED
    BY <1>1, <2>1, DroppedStays DEF frontierVars
<1>. QED
  BY <1>1, <1>2, <1>3, Stutter DEF mainVars, AbstractPhase

LEMMA StepRefines ==
    ASSUME Inv, Inv', [Next]_vars
    PROVE  [Pool!Next]_(Pool!vars)
<1>1. CASE MainStep
  BY <1>1, MainRefines
<1>2. CASE Interrupt
  <2>1. UNCHANGED <<frontierVars, phase, pc, item>>
    BY <1>2 DEF Interrupt, workerVars
  <2>2. AbstractPhase' = AbstractPhase /\ AbstractPC' = AbstractPC
    BY <2>1 DEF AbstractPhase, AbstractPC, PoolPC
  <2>3. Dropped' = Dropped
    BY <2>1, DroppedStays DEF frontierVars, Working, Inv
  <2>4. Pool!Interrupt
    BY <1>2, <2>1, <2>2, <2>3
       DEF Interrupt, frontierVars, AbstractPhase, AbstractPC, Dropped,
           Pool!Interrupt, Pool!frontierVars
  <2>. QED
    BY <2>4 DEF Pool!Next
<1>3. ASSUME NEW w \in Worker, WorkerStep(w)
      PROVE  Pool!WorkerStep(w) \/ UNCHANGED Pool!vars
  BY <1>3, TakeRefines, LeaveRefines, AddLinkRefines, AnswerRefines,
     PageFetchedRefines, AbandonRefines, CompleteRefines, WorkerStutters
     DEF WorkerStep, Answers, Pool!WorkerStep
<1>4. CASE UNCHANGED vars
  <2>1. UNCHANGED <<frontierVars, phase, g_running, pc, item>>
    BY <1>4 DEF vars, mainVars, workerVars
  <2>2. AbstractPhase' = AbstractPhase /\ AbstractPC' = AbstractPC
    BY <2>1 DEF AbstractPhase, AbstractPC, PoolPC
  <2>3. Dropped' = Dropped
    BY <2>1, DroppedStays DEF frontierVars, Working, Inv
  <2>. QED
    BY <2>1, <2>2, <2>3, Stutter
<1>. QED
  BY <1>1, <1>2, <1>3, <1>4 DEF Next, Done, Pool!Next

\* The engine with its database implements the pool: the steps between two
\* changes of the frontier, in which other threads run, are invisible to it.
THEOREM EngineImplementsPool == Spec => ImplementsPool
  BY InitInv, StepInv, InitRefines, StepRefines, PTL DEF Spec, ImplementsPool, Pool!Spec

(***************************************************************************)
(* Nothing is lost when the process dies.  This needs that an attempt that *)
(* used up the retries does not end as TIMEOUT: push accepts such a URL    *)
(* again, and the Clear of its first worker then removes the new mark (the *)
(* run CrawlEngineTimeout shows the loss).                                 *)
(***************************************************************************)

\* A mark is only removed from a URL with an outcome, and only page-like URLs
\* are pushed while seeds are skipped.
ClearOK ==
    /\ \A w \in Worker : pc[w] = "clear" => fetch_status[item[w]] \in Terminal
    /\ phase = "seed" => PendingInCrawl \subseteq Body

LEMMA InitClearOK == Init => ClearOK
  BY DEF Init, FrontierInit, ClearOK, PendingInCrawl, NoEntry, Pending

\* An outcome is final: only a worker that holds a pending URL changes it.
LEMMA OutcomeStays ==
    ASSUME Inv, [Next]_vars, NEW u \in URL, fetch_status[u] \in Terminal
    PROVE  fetch_status'[u] = fetch_status[u]
<1>. USE DEF Inv, Typed, TypeOK, FrontierTypeOK
<1>1. ASSUME NEW v \in URL, Push(v)
      PROVE  fetch_status'[u] = fetch_status[u]
  BY <1>1 DEF Push, Accepts
<1>2. ASSUME NEW w \in Worker, Answers(w)
      PROVE  fetch_status'[u] = fetch_status[u]
  <2>1. item[w] \in URL /\ Working(w) /\ accepting_work
    BY <1>2, AnswerEffect, WorkerStepRuns DEF Working, WorkerStep, Answers
  <2>2. item[w] # u
    BY <2>1 DEF Placement, Terminal, Pending
  <2>. QED
    BY <1>2, <2>1, <2>2, AnswerRelease
<1>3. ASSUME NEW w \in Worker, PageFetched(w)
      PROVE  fetch_status'[u] = fetch_status[u]
  <2>1. item[w] # u
    BY <1>3 DEF PageFetched, Working, Placement, Terminal, Pending
  <2>. QED
    BY <1>3, <2>1 DEF PageFetched, MarkFetched
<1>4. ASSUME NEW w \in Worker,
             \/ \E v \in URL : Take(w, v) \/ (AddLink(w, v) /\ ~Push(v))
             \/ Leave(w) \/ FetchPage(w) \/ MarkLink(w) \/ Abandon(w)
             \/ MarkAgain(w) \/ Clear(w) \/ Complete(w)
      PROVE  UNCHANGED fetch_status
  BY <1>4 DEF Take, PopWaitItem, AddLink, Leave, PopWaitNothing, FetchPage, MarkLink,
              Abandon, MarkAgain, Clear, Complete, CompleteWork, frontierVars
<1>5. ASSUME \/ \E v \in URL : SkipSeed(v) \/ (SeedPush(v) /\ ~Push(v))
             \/ SeedMark \/ CheckpointAndRun \/ JoinAndShutdown \/ FinalSave
             \/ Interrupt \/ UNCHANGED vars
      PROVE  UNCHANGED fetch_status
  BY <1>5 DEF SkipSeed, SeedPush, SeedMark, CheckpointAndRun, JoinAndShutdown,
              FrontierShutdown, FinalSave, Interrupt, vars, frontierVars
<1>. QED
  BY <1>1, <1>2, <1>3, <1>4, <1>5 DEF Next, MainStep, WorkerStep, Answers, Done

\* A worker's step changes nothing that belongs to another worker.
LEMMA OthersStay ==
    ASSUME NEW w \in Worker, NEW x \in Worker, x # w, Typed, WorkerStep(w)
    PROVE  /\ pc'[x] = pc[x] /\ item'[x] = item[x]
           /\ links'[x] = links[x] /\ adding'[x] = adding[x]
<1>. USE DEF Typed, TypeOK
<1>1. /\ pc'[x] = pc[x] /\ item'[x] = item[x]
  BY DEF WorkerStep, Take, AddLink, Leave, FetchPage, MarkLink, PageFetched,
         OtherAnswer, ClientError, Disallowed, Requeue, Exhausted, Report,
         Abandon, MarkAgain, Clear, Complete, Goto
<1>2. links'[x] = links[x] /\ adding'[x] = adding[x]
  BY DEF WorkerStep, Take, AddLink, Leave, FetchPage, MarkLink, PageFetched,
         OtherAnswer, ClientError, Disallowed, Requeue, Exhausted, Report,
         Abandon, MarkAgain, Clear, Complete
<1>. QED
  BY <1>1, <1>2

\* The steps that take a worker to the clearing of a mark: it has just reported
\* the outcome of its URL.
LEMMA ToClear ==
    ASSUME RetryOutcome \subseteq Terminal, Inv, NEW w \in Worker, WorkerStep(w),
           pc'[w] = "clear"
    PROVE  fetch_status'[item'[w]] \in Terminal
<1>. USE DEF Inv, Typed, TypeOK, FrontierTypeOK
<1>1. CASE PageFetched(w)
  BY <1>1 DEF PageFetched, MarkFetched, WorkersOK, Terminal
<1>2. CASE Answers(w)
  <2>1. item[w] \in URL /\ item' = item /\ accepting_work
    BY <1>2, AnswerEffect, WorkerStepRuns
  <2>2. ~Requeue(w)
    BY <2>1 DEF Requeue, Report, Goto
  <2>3. \E s \in Terminal : fetch_status' = [fetch_status EXCEPT ![item[w]] = s]
    BY <1>2, <2>2 DEF Answers, OtherAnswer, ClientError, Disallowed, Exhausted, Report,
                      MarkFetched, MarkFailed, MarkDisallowed, MarkRetryExhausted,
                      Terminal
  <2>. QED
    BY <2>1, <2>3
<1>3. ASSUME \/ \E u \in URL : Take(w, u) \/ AddLink(w, u)
             \/ Leave(w) \/ FetchPage(w) \/ MarkLink(w) \/ Abandon(w)
             \/ MarkAgain(w) \/ Clear(w) \/ Complete(w)
      PROVE  pc'[w] # "clear"
  BY <1>3 DEF Take, AddLink, Leave, FetchPage, MarkLink, Abandon, MarkAgain, Clear,
              Complete, Goto
<1>. QED
  BY <1>1, <1>2, <1>3 DEF WorkerStep, Answers

LEMMA StepClearOK ==
    ASSUME RetryOutcome \subseteq Terminal, Inv, ClearOK, [Next]_vars
    PROVE  ClearOK'
<1>1. ASSUME NEW w \in Worker, pc[w] = "clear", item'[w] = item[w]
      PROVE  fetch_status'[item'[w]] \in Terminal
  BY <1>1, OutcomeStays DEF ClearOK, Inv, Typed, WorkersOK
<1>2. ASSUME NEW w \in Worker, WorkerStep(w)
      PROVE  ClearOK'
  <2>1. phase' # "seed"
    BY <1>2, WorkerStepRuns DEF mainVars, Inv
  <2>2. ASSUME NEW x \in Worker, pc'[x] = "clear"
        PROVE  fetch_status'[item'[x]] \in Terminal
    BY <1>1, <1>2, <2>2, OthersStay, ToClear DEF Inv
  <2>. QED
    BY <2>1, <2>2 DEF ClearOK
<1>3. CASE MainStep \/ Interrupt \/ UNCHANGED vars
  <2>1. UNCHANGED workerVars /\ (phase' = "seed" => phase = "seed")
    BY <1>3 DEF MainStep, SeedPush, SkipSeed, SeedMark, CheckpointAndRun,
                JoinAndShutdown, FinalSave, Interrupt, vars, mainVars
  <2>2. PendingInCrawl' \subseteq PendingInCrawl \cup Body
    BY <1>3 DEF MainStep, SeedPush, Push, SkipSeed, SeedMark, CheckpointAndRun,
                JoinAndShutdown, FrontierShutdown, FinalSave, Interrupt, vars,
                frontierVars, PendingInCrawl, Inv, Typed, TypeOK, FrontierTypeOK
  <2>. QED
    BY <1>1, <2>1, <2>2 DEF ClearOK, workerVars
<1>. QED
  BY <1>2, <1>3 DEF Next, Done

LEMMA InitCrashSafe == Init => CrashSafe
  BY DEF Init, FrontierInit, CrashSafe, PendingInCrawl, NoEntry, Pending

\* The main thread pushes a seed and remembers it until its mark is set; the
\* seeds it forgets were never pushed.
LEMMA MainCrashSafe ==
    ASSUME Inv, ClearOK, CrashSafe, MainStep \/ Interrupt \/ UNCHANGED vars
    PROVE  CrashSafe'
<1>. SUFFICES ASSUME NEW S \in SUBSET URL, HoldsMarks(S)'
              PROVE  PendingInCrawl' \subseteq S
  BY DEF CrashSafe
<1>. USE EngineAssumption DEF Inv, Typed, TypeOK
<1>1. UNCHANGED workerVars
  BY DEF MainStep, SeedPush, SkipSeed, SeedMark, CheckpointAndRun,
         JoinAndShutdown, FinalSave, Interrupt, vars
<1>2. ASSUME NEW u \in URL, SeedPush(u), Push(u)
      PROVE  PendingInCrawl' \subseteq S
  <2>1. HoldsMarks(S) /\ u \in S
    BY <1>1, <1>2 DEF SeedPush, Push, storeVars, workerVars, HoldsMarks
  <2>2. PendingInCrawl' = PendingInCrawl \cup {u}
    BY <1>2 DEF Push, PendingInCrawl, FrontierTypeOK
  <2>. QED
    BY <2>1, <2>2 DEF CrashSafe
<1>3. ASSUME NEW u \in URL, SkipSeed(u)
      PROVE  PendingInCrawl' \subseteq S
  <2>1. \A w \in Worker : adding[w] = NoURL
    BY <1>3 DEF SkipSeed, Phases, WorkersOK
  <2>2. pending \subseteq S \cup {u} /\ seeding = NoURL
    BY <1>3 DEF SkipSeed, ClearPendingURL, storeVars, HoldsMarks
  <2>3. HoldsMarks(S \cup {u})
    BY <2>1, <2>2 DEF HoldsMarks
  <2>4. PendingInCrawl \subseteq S \cup {u} /\ u \notin PendingInCrawl
    BY <1>3, <2>3 DEF SkipSeed, CrashSafe, ClearOK
  <2>. QED
    BY <1>3, <2>4 DEF SkipSeed, frontierVars, PendingInCrawl
<1>4. ASSUME \/ \E u \in URL : SeedPush(u) /\ ~Push(u)
             \/ SeedMark \/ CheckpointAndRun \/ JoinAndShutdown \/ FinalSave
             \/ Interrupt \/ UNCHANGED vars
      PROVE  PendingInCrawl' \subseteq S
  <2>1. PendingInCrawl' = PendingInCrawl
    BY <1>4 DEF SeedPush, SeedMark, CheckpointAndRun, JoinAndShutdown,
                FrontierShutdown, FinalSave, Interrupt, vars, frontierVars,
                PendingInCrawl
  <2>2. pending \subseteq pending' /\ seeding \in pending' \cup {seeding'}
    BY <1>4 DEF SeedPush, SeedMark, MarkPendingURL, CheckpointAndRun,
                SavePendingURLs, JoinAndShutdown, FinalSave, Interrupt, vars,
                storeVars, mainVars
  <2>3. HoldsMarks(S)
    BY <1>1, <2>2 DEF workerVars, HoldsMarks
  <2>. QED
    BY <2>1, <2>3 DEF CrashSafe
<1>. QED
  BY <1>2, <1>3, <1>4 DEF MainStep

\* A worker pushes a link and remembers it until its mark is set, while its own
\* URL is pending; it removes the mark of a URL with an outcome alone.
LEMMA WorkerCrashSafe ==
    ASSUME Inv, ClearOK, CrashSafe, NEW w \in Worker, WorkerStep(w)
    PROVE  CrashSafe'
<1>. SUFFICES ASSUME NEW S \in SUBSET URL, HoldsMarks(S)'
              PROVE  PendingInCrawl' \subseteq S
  BY DEF CrashSafe
<1>. USE EngineAssumption DEF Inv, Typed, TypeOK
<1>1. seeding' = seeding
  BY WorkerStepRuns DEF mainVars
<1>2. \A x \in Worker \ {w} : item[x] \in S => adding[x] \in S \cup {NoURL}
  BY OthersStay DEF HoldsMarks
<1>3. ASSUME pending \subseteq S, item[w] \in S => adding[w] \in S \cup {NoURL}
      PROVE  PendingInCrawl \subseteq S
  <2>1. HoldsMarks(S)
    BY <1>1, <1>2, <1>3 DEF HoldsMarks
  <2>. QED
    BY <2>1 DEF CrashSafe
<1>4. ASSUME NEW v \in URL, AddLink(w, v), Push(v)
      PROVE  PendingInCrawl' \subseteq S
  <2>1. adding[w] = NoURL /\ pending' = pending /\ item' = item /\ adding'[w] = v
    BY <1>4 DEF AddLink, Push, Goto, storeVars, WorkersOK
  <2>2. PendingInCrawl \subseteq S
    BY <1>3, <2>1 DEF HoldsMarks
  <2>3. item[w] \in PendingInCrawl
    BY <1>4 DEF AddLink, Working, Placement, WorkersOK, PendingInCrawl
  <2>4. v \in S
    BY <2>1, <2>2, <2>3 DEF HoldsMarks
  <2>. QED
    BY <1>4, <2>2, <2>4 DEF Push, PendingInCrawl, FrontierTypeOK
<1>5. CASE Clear(w)
  <2>1. item[w] \in URL /\ item[w] \notin PendingInCrawl
    BY <1>5 DEF Clear, ClearOK, WorkersOK, PendingInCrawl, Terminal, Pending
  <2>2. \A x \in Worker : item[x] = item[w] => adding[x] = NoURL
    BY <2>1 DEF WorkersOK, Working, Placement, PendingInCrawl
  <2>3. pending \subseteq S \cup {item[w]}
    BY <1>5 DEF Clear, ClearPendingURL, HoldsMarks
  <2>4. seeding \in S \cup {NoURL}
    BY <1>1 DEF HoldsMarks
  <2>5. HoldsMarks(S \cup {item[w]})
    BY <1>2, <2>2, <2>3, <2>4 DEF HoldsMarks
  <2>6. PendingInCrawl \subseteq S
    BY <2>1, <2>5 DEF CrashSafe
  <2>. QED
    BY <1>5, <2>6 DEF Clear, frontierVars, PendingInCrawl
<1>6. ASSUME \/ \E u \in URL : Take(w, u) \/ (AddLink(w, u) /\ ~Push(u))
             \/ Leave(w) \/ FetchPage(w) \/ MarkLink(w) \/ PageFetched(w)
             \/ Answers(w) \/ Abandon(w) \/ MarkAgain(w) \/ Complete(w)
      PROVE  PendingInCrawl' \subseteq S
  <2>1. PendingInCrawl' \subseteq PendingInCrawl
    <3>1. CASE Answers(w)
      <4>1. /\ item[w] \in URL /\ fetch_status[item[w]] = Pending
            /\ accepting_work
        BY <3>1, AnswerEffect, WorkerStepRuns DEF Working, Placement
      <4>. QED
        BY <3>1, <4>1, AnswerRelease DEF PendingInCrawl, FrontierTypeOK
    <3>2. CASE PageFetched(w)
      BY <3>2 DEF PageFetched, MarkFetched, PendingInCrawl, FrontierTypeOK, Pending
    <3>3. CASE ~Answers(w) /\ ~PageFetched(w)
      BY <1>6, <3>3 DEF Take, PopWaitItem, AddLink, Leave, PopWaitNothing, FetchPage,
                        MarkLink, Abandon, MarkAgain, Complete, CompleteWork,
                        frontierVars, PendingInCrawl
    <3>. QED
      BY <3>1, <3>2, <3>3
  <2>2. CASE Answers(w)
    BY <1>3, <2>1, <2>2, AnswerEffect DEF storeVars, HoldsMarks
  <2>3. CASE ~Answers(w)
    <3>1. pending \subseteq pending'
      BY <1>6, <2>3 DEF Take, AddLink, Leave, FetchPage, MarkLink, MarkPendingURL,
                        PageFetched, Abandon, MarkAgain, Complete, storeVars
    <3>2. \/ adding[w] \in pending' \cup {NoURL}
          \/ item'[w] = item[w] /\ adding'[w] = adding[w]
      BY <1>6, <2>3 DEF Take, AddLink, Leave, FetchPage, MarkLink, MarkPendingURL,
                        PageFetched, Abandon, MarkAgain, Complete, WorkersOK
    <3>. QED
      BY <1>3, <2>1, <3>1, <3>2 DEF HoldsMarks
  <2>. QED
    BY <2>2, <2>3
<1>. QED
  BY <1>4, <1>5, <1>6 DEF WorkerStep, Answers

LEMMA StepCrashSafe ==
    ASSUME Inv, ClearOK, CrashSafe, [Next]_vars
    PROVE  CrashSafe'
  BY MainCrashSafe, WorkerCrashSafe DEF Next, Done

\* Whenever the process dies, each accepted URL without an outcome has its mark
\* in the database, or is found again through a page that has.
THEOREM CrashSafeCorrect ==
    ASSUME RetryOutcome \subseteq Terminal
    PROVE  Spec => []CrashSafe
  BY InitInv, StepInv, InitClearOK, StepClearOK, InitCrashSafe, StepCrashSafe, PTL
     DEF Spec

-----------------------------------------------------------------------------

(***************************************************************************)
(* Types and the invariant of one process.                                 *)
(***************************************************************************)

\* Whatever has an outcome in this process has been recorded in settled.
Answered == {u \in URL : fetch_status[u] \notin {NoEntry, Pending}}

ResumeTyped ==
    /\ Inv
    /\ resumes \in 0 .. MaxResumes
    /\ crashed \in BOOLEAN
    /\ settled \subseteq URL
    /\ Answered \subseteq settled

LEMMA StepIsNext == Step => [Next]_vars
  BY DEF Step, Next

\* The state a new process starts from, whatever the database holds.
LEMMA ResumeFresh ==
    ASSUME Inv, Resume
    PROVE  /\ Inv'
           /\ \A u \in URL : fetch_status'[u] = NoEntry
           /\ \A w \in Worker : pc'[w] = "loop" /\ item'[w] = NoURL
<1>. USE DEF Resume, storeVars
<1>1. FrontierTypeOK'
  BY DEF FrontierTypeOK, Status
<1>2. seeds' \subseteq URL
  BY DEF LoadPendingURLs, Inv, Typed, TypeOK
<1>7. allowed_domains' \subseteq DOMAIN Subdomain
  BY DomainsTyped DEF LoadPendingURLs, Inv, Typed, TypeOK
<1>3. TypeOK'
  BY <1>1, <1>2, <1>7 DEF TypeOK, WorkerPC, Inv, Typed
<1>4. WorkersOK'
  BY DEF WorkersOK
<1>5. Phases'
  BY DEF Phases
<1>6. Placement'
  BY DEF Placement, Working
<1>. QED
  BY <1>3, <1>4, <1>5, <1>6 DEF Inv, Typed

LEMMA InitResumeTyped == ResumeInit => ResumeTyped
<1>. SUFFICES ASSUME ResumeInit
              PROVE  ResumeTyped
  OBVIOUS
<1>1. Inv
  BY InitInv DEF ResumeInit
<1>2. Answered = {}
  BY DEF ResumeInit, Init, FrontierInit, Answered
<1>3. resumes \in 0 .. MaxResumes
  BY ResumeAssumption DEF ResumeInit
<1>4. crashed \in BOOLEAN /\ settled = {}
  BY DEF ResumeInit
<1>. QED
  BY <1>1, <1>2, <1>3, <1>4 DEF ResumeTyped

LEMMA StepResumeTyped == ResumeTyped /\ [ResumeNext]_resumeVars => ResumeTyped'
<1>. SUFFICES ASSUME ResumeTyped, [ResumeNext]_resumeVars
              PROVE  ResumeTyped'
  OBVIOUS
<1>. USE DEF ResumeTyped
<1>1. CASE ResumeNext
  <2>1. Inv'
    BY <1>1, StepInv, StepIsNext, ResumeFresh DEF ResumeNext
  <2>2. resumes' \in 0 .. MaxResumes
    BY <1>1, ResumeAssumption DEF ResumeNext, Resume
  <2>3. crashed' \in BOOLEAN
    BY <1>1 DEF ResumeNext, Resume
  <2>4. settled' = settled \cup Answered'
    BY <1>1 DEF ResumeNext, Answered
  <2>5. Answered' \subseteq URL
    BY DEF Answered
  <2>. QED
    BY <2>1, <2>2, <2>3, <2>4, <2>5
<1>2. CASE UNCHANGED resumeVars
  <2>1. Inv'
    BY <1>2, StepInv DEF resumeVars
  <2>. QED
    BY <1>2, <2>1 DEF resumeVars, vars, frontierVars, Answered
<1>. QED
  BY <1>1, <1>2

\* Every variable keeps its type over all restarts.
THEOREM ResumeTypeCorrect == ResumeSpec => []ResumeTypeOK
<1>1. ResumeTyped => ResumeTypeOK
  BY DEF ResumeTyped, Inv, Typed, ResumeTypeOK
<1>. QED
  BY <1>1, InitResumeTyped, StepResumeTyped, PTL DEF ResumeSpec

(***************************************************************************)
(* Nothing is lost by a crash, also not by one of a resumed process: that  *)
(* process skips seeds and clears their marks, which were never pushed.    *)
(***************************************************************************)

LEMMA StepResumeCrashSafe ==
    ASSUME RetryOutcome \subseteq Terminal, ResumeTyped, ClearOK, CrashSafe,
           [ResumeNext]_resumeVars
    PROVE  ClearOK' /\ CrashSafe'
<1>. USE DEF ResumeTyped
<1>1. CASE Resume
  BY <1>1, ResumeFresh DEF ClearOK, CrashSafe, PendingInCrawl, NoEntry, Pending
<1>2. CASE [Next]_vars
  BY <1>2, StepClearOK, StepCrashSafe
<1>. QED
  BY <1>1, <1>2, StepIsNext DEF ResumeNext, resumeVars

\* The same as CrashSafeCorrect, over any number of restarts.
THEOREM ResumeCrashSafeCorrect ==
    ASSUME RetryOutcome \subseteq Terminal
    PROVE  ResumeSpec => []CrashSafe
<1>1. ResumeInit => ClearOK /\ CrashSafe
  BY InitClearOK, InitCrashSafe DEF ResumeInit
<1>. QED
  BY <1>1, InitResumeTyped, StepResumeTyped, StepResumeCrashSafe, PTL DEF ResumeSpec

(***************************************************************************)
(* A mark outlives the work on its URL.                                    *)
(***************************************************************************)

\* A worker that is about to clear a mark has reported an outcome of its URL.
\* Nothing is assumed about that outcome: it may be one push accepts again.
ClearSettled == \A w \in Worker : pc[w] = "clear" => item[w] \in settled

LEMMA SettledGrows ==
    ASSUME [ResumeNext]_resumeVars
    PROVE  settled \subseteq settled'
  BY DEF ResumeNext, resumeVars

LEMMA ToClearSettled ==
    ASSUME ResumeTyped, ResumeTyped', NEW w \in Worker, WorkerStep(w), pc'[w] = "clear",
           pc[w] # "clear"
    PROVE  item'[w] \in settled'
<1>. USE DEF ResumeTyped, Inv, Typed, TypeOK, FrontierTypeOK
<1>1. CASE PageFetched(w)
  <2>1. item'[w] \in URL /\ fetch_status'[item'[w]] = "SUCCESS"
    BY <1>1 DEF PageFetched, MarkFetched, WorkersOK
  <2>. QED
    BY <2>1 DEF Answered, NoEntry, Pending
<1>2. CASE Answers(w)
  <2>1. item[w] \in URL /\ item' = item /\ accepting_work
    BY <1>2, AnswerEffect, WorkerStepRuns
  <2>2. \E s \in Terminal \cup RetryStatus :
           fetch_status' = [fetch_status EXCEPT ![item[w]] = s]
    BY <1>2, <2>1, AnswerRelease
  <2>. QED
    BY <2>1, <2>2 DEF Answered, NoEntry, Pending, Terminal, RetryStatus
<1>3. ASSUME \/ \E u \in URL : Take(w, u) \/ AddLink(w, u)
             \/ Leave(w) \/ FetchPage(w) \/ MarkLink(w) \/ Abandon(w)
             \/ MarkAgain(w) \/ Clear(w) \/ Complete(w)
      PROVE  pc'[w] # "clear"
  BY <1>3 DEF Take, AddLink, Leave, FetchPage, MarkLink, Abandon, MarkAgain, Clear,
              Complete, Goto
<1>. QED
  BY <1>1, <1>2, <1>3 DEF WorkerStep, Answers

LEMMA StepClearSettled ==
    ASSUME ResumeTyped, ResumeTyped', ClearSettled, [ResumeNext]_resumeVars
    PROVE  ClearSettled'
<1>1. CASE Resume
  BY <1>1, ResumeFresh DEF ResumeTyped, ClearSettled
<1>2. ASSUME NEW w \in Worker, WorkerStep(w), NEW x \in Worker, pc'[x] = "clear"
      PROVE  item'[x] \in settled'
  <2>1. CASE x # w
    BY <1>2, <2>1, OthersStay, SettledGrows DEF ResumeTyped, Inv, ClearSettled
  <2>2. CASE x = w /\ pc[w] # "clear"
    BY <1>2, <2>2, ToClearSettled
  <2>3. CASE x = w /\ pc[w] = "clear"
    \* The only step from there is Clear.
    <3>1. Clear(w)
      BY <1>2, <2>3
         DEF WorkerStep, Take, AddLink, Leave, FetchPage, MarkLink, PageFetched,
             OtherAnswer, ClientError, Disallowed, Requeue, Exhausted, Report,
             Abandon, MarkAgain, Complete
    <3>2. pc'[w] # "clear"
      BY <3>1 DEF Clear, Goto, ResumeTyped, Inv, Typed, TypeOK
    <3>. QED
      BY <1>2, <2>3, <3>2
  <2>. QED
    BY <2>1, <2>2, <2>3
<1>3. CASE MainStep \/ Interrupt \/ UNCHANGED vars
  <2>1. UNCHANGED workerVars
    BY <1>3 DEF MainStep, SeedPush, SkipSeed, SeedMark, CheckpointAndRun,
                JoinAndShutdown, FinalSave, Interrupt, vars
  <2>. QED
    BY <2>1, SettledGrows DEF workerVars, ClearSettled
<1>. QED
  BY <1>1, <1>2, <1>3 DEF ResumeNext, Step, Done, resumeVars, ClearSettled

\* The two steps that remove a mark.
LEMMA MarkRemoved ==
    ASSUME ResumeTyped, ClearSettled, [ResumeNext]_resumeVars, NEW u \in pending \ pending'
    PROVE  u \in settled' \/ u \notin Body
<1>1. ASSUME NEW w \in Worker, WorkerStep(w)
      PROVE  u \in settled'
  <2>1. Clear(w)
    BY <1>1 DEF WorkerStep, Take, AddLink, Leave, FetchPage, MarkLink, PageFetched,
                OtherAnswer, ClientError, Disallowed, Requeue, Exhausted, Report,
                Abandon, MarkAgain, Complete, MarkPendingURL, storeVars
  <2>2. u = item[w] /\ item[w] \in settled
    BY <2>1 DEF Clear, ClearPendingURL, ClearSettled
  <2>. QED
    BY <2>2, SettledGrows
<1>2. CASE MainStep
  BY <1>2 DEF MainStep, SeedPush, SkipSeed, ClearPendingURL, SeedMark, MarkPendingURL,
              CheckpointAndRun, SavePendingURLs, JoinAndShutdown, FinalSave, storeVars
<1>3. CASE Resume \/ Interrupt \/ UNCHANGED vars
  BY <1>3 DEF Resume, Interrupt, vars, storeVars
<1>. QED
  BY <1>1, <1>2, <1>3 DEF ResumeNext, Step, Done, resumeVars

\* A mark leaves the database only after its URL had an outcome, in this process
\* or in an earlier one, or when no resumed crawl would take the URL.
THEOREM MarkOutlivesWorkCorrect == ResumeSpec => MarkOutlivesWork
<1>1. ResumeInit => ClearSettled
  BY DEF ResumeInit, Init, ClearSettled
<1>2. ResumeTyped /\ ClearSettled /\ [ResumeNext]_resumeVars
        => [\A u \in pending \ pending' : u \in settled' \/ u \notin Body]_resumeVars
  BY MarkRemoved
<1>. QED
  BY <1>1, <1>2, InitResumeTyped, StepResumeTyped, StepClearSettled, PTL
     DEF ResumeSpec, MarkOutlivesWork

(***************************************************************************)
(* The domains of the seeds.                                               *)
(***************************************************************************)

InDomain == {u \in URL : InSeedDomain(u)}

\* Everything a URL can be taken from is in the domains of the first seeds, and
\* the allowed domains of the process let no other URL pass.
Domestic ==
    /\ allowed_domains # {}
    /\ \A v \in URL : DomainAllowed(allowed_domains, v) => v \in InDomain
    /\ seeds \cup pending \cup legacy \subseteq InDomain
    /\ seeding \in InDomain \cup {NoURL}
    /\ \A w \in Worker : /\ item[w] \in InDomain \cup {NoURL}
                         /\ links[w] \subseteq InDomain
                         /\ adding[w] \in InDomain \cup {NoURL}
    /\ \A u \in URL : fetch_status[u] # NoEntry => u \in InDomain

LEMMA SeedsInDomain == Seeds \subseteq InDomain
  BY EngineAssumption DEF InDomain, InSeedDomain

\* A subdomain of a subdomain is one: a process that is started with URLs from
\* the domains of the seeds follows no link that leads out of them.
LEMMA DomainsNarrow ==
    ASSUME same_domain, NEW S \in SUBSET InDomain, S # {}
    PROVE  LET domains == ExtractAllowedDomains(S)
           IN  /\ domains # {}
               /\ \A v \in URL : DomainAllowed(domains, v) => v \in InDomain
<1>. DEFINE domains == ExtractAllowedDomains(S)
<1>1. domains = {DomainOf[u] : u \in S}
  BY DEF ExtractAllowedDomains
<1>2. domains # {}
  BY <1>1
<1>3. ASSUME NEW v \in URL, DomainAllowed(domains, v)
      PROVE  v \in InDomain
  <2>1. PICK u \in S : DomainOf[v] = DomainOf[u] \/ DomainOf[v] \in Subdomain[DomainOf[u]]
    BY <1>1, <1>2, <1>3 DEF DomainAllowed
  <2>2. PICK s \in Seeds : DomainOf[u] = DomainOf[s] \/ DomainOf[u] \in Subdomain[DomainOf[s]]
    BY DEF InDomain, InSeedDomain
  <2>3. DomainOf[s] \in DOMAIN Subdomain
    BY EngineAssumption
  <2>4. DomainOf[v] = DomainOf[s] \/ DomainOf[v] \in Subdomain[DomainOf[s]]
    BY <2>1, <2>2, <2>3, EngineAssumption
  <2>. QED
    BY <2>4 DEF InDomain, InSeedDomain
<1>. QED
  BY <1>2, <1>3

LEMMA InitDomestic == same_domain /\ Init => Domestic
<1>. SUFFICES ASSUME same_domain, Init
              PROVE  Domestic
  OBVIOUS
<1>1. /\ allowed_domains # {}
      /\ \A v \in URL : DomainAllowed(allowed_domains, v) => v \in InDomain
  BY SeedsInDomain, DomainsNarrow, EngineAssumption DEF Init
<1>. QED
  BY <1>1, SeedsInDomain DEF Init, FrontierInit, Domestic

LEMMA ResumeDomestic ==
    ASSUME same_domain, Inv, Domestic, Resume
    PROVE  Domestic'
<1>1. LoadPendingURLs \subseteq InDomain /\ LoadPendingURLs # {}
  BY DEF Resume, Domestic, LoadPendingURLs
<1>2. allowed_domains' = ExtractAllowedDomains(LoadPendingURLs)
  BY DEF Resume
<1>3. /\ allowed_domains' # {}
      /\ \A v \in URL : DomainAllowed(allowed_domains', v) => v \in InDomain
  BY <1>1, <1>2, DomainsNarrow
<1>. QED
  BY <1>1, <1>3 DEF Resume, storeVars, Domestic

\* The main thread accepts the seeds it was given, and marks what is pending.
LEMMA MainDomestic ==
    ASSUME Inv, Domestic, MainStep \/ Interrupt \/ UNCHANGED vars
    PROVE  Domestic'
<1>. USE DEF Inv, Typed, TypeOK
<1>1. UNCHANGED <<allowed_domains, workerVars>>
  BY DEF MainStep, SeedPush, SkipSeed, SeedMark, CheckpointAndRun,
         JoinAndShutdown, FinalSave, Interrupt, vars, mainVars
<1>2. seeds' \cup pending' \cup legacy' \subseteq InDomain
  <2>1. seeds \cup pending \cup legacy \cup PendingURLs \subseteq InDomain
    BY DEF PendingURLs, Placement, FrontierTypeOK, Domestic, NoEntry, Pending
  <2>2. seeding # NoURL => seeding \in InDomain
    BY DEF Domestic
  <2>3. /\ seeds' \subseteq seeds
        /\ legacy' \subseteq legacy
        /\ pending' \subseteq pending \cup PendingURLs \cup ({seeding} \ {NoURL})
    BY DEF MainStep, SeedPush, SkipSeed, ClearPendingURL, SeedMark, MarkPendingURL,
           CheckpointAndRun, JoinAndShutdown, FinalSave, SavePendingURLs,
           Interrupt, vars, mainVars, storeVars
  <2>. QED
    BY <2>1, <2>2, <2>3
<1>3. seeding' \in InDomain \cup {NoURL}
  BY DEF MainStep, SeedPush, SkipSeed, SeedMark, CheckpointAndRun,
         JoinAndShutdown, FinalSave, Interrupt, vars, mainVars, Domestic
<1>4. \A u \in URL : fetch_status'[u] # NoEntry => u \in InDomain
  BY DEF MainStep, SeedPush, Push, SkipSeed, SeedMark, CheckpointAndRun,
         JoinAndShutdown, FrontierShutdown, FinalSave, Interrupt, vars, frontierVars,
         Domestic, FrontierTypeOK
<1>. QED
  BY <1>1, <1>2, <1>3, <1>4 DEF workerVars, Domestic

\* A worker accepts the links that pass the filter.
LEMMA WorkerDomestic ==
    ASSUME Inv, Domestic, NEW w \in Worker, WorkerStep(w)
    PROVE  Domestic'
<1>. USE DEF Inv, Typed, TypeOK
<1>1. UNCHANGED <<mainVars, legacy>> /\ accepting_work
  BY WorkerStepRuns
<1>2. item'[w] \in InDomain \cup {NoURL}
  <2>1. ASSUME NEW u \in URL, Take(w, u)
        PROVE  item'[w] \in InDomain
    BY <2>1 DEF Take, PopWaitItem, IsTop, Placement, FrontierTypeOK, Domestic, Pending, NoEntry
  <2>2. CASE Complete(w)
    BY <2>2 DEF Complete
  <2>3. ASSUME \/ \E v \in URL : AddLink(w, v)
               \/ Leave(w) \/ FetchPage(w) \/ MarkLink(w) \/ PageFetched(w)
               \/ Answers(w) \/ Abandon(w) \/ MarkAgain(w) \/ Clear(w)
        PROVE  item' = item
    BY <2>3, AnswerEffect DEF AddLink, Leave, FetchPage, MarkLink, PageFetched,
                              Abandon, MarkAgain, Clear
  <2>. QED
    BY <2>1, <2>2, <2>3 DEF WorkerStep, Answers, Domestic
<1>3. links'[w] \subseteq InDomain
  <2>1. CASE FetchPage(w)
    <3>1. AllowedLinks(allowed_domains, item[w]) \subseteq InDomain
      BY <2>1, EngineAssumption DEF FetchPage, WorkersOK, AllowedLinks, Domestic
    <3>. QED
      BY <2>1, <3>1 DEF FetchPage
  <2>2. CASE ~FetchPage(w)
    <3>1. links'[w] \subseteq links[w]
      BY <2>2, AnswerEffect
         DEF WorkerStep, Take, AddLink, Leave, MarkLink, PageFetched, Answers,
             Abandon, MarkAgain, Clear, Complete
    <3>. QED
      BY <3>1 DEF Domestic
  <2>. QED
    BY <2>1, <2>2
<1>4. adding'[w] \in InDomain \cup {NoURL}
  <2>1. adding'[w] \in links[w] \cup {NoURL, adding[w]}
    BY AnswerEffect
       DEF WorkerStep, Take, AddLink, Leave, FetchPage, MarkLink, PageFetched, Answers,
           Abandon, MarkAgain, Clear, Complete
  <2>. QED
    BY <2>1 DEF Domestic
<1>5. \A x \in Worker : /\ item'[x] \in InDomain \cup {NoURL}
                        /\ links'[x] \subseteq InDomain
                        /\ adding'[x] \in InDomain \cup {NoURL}
  BY <1>2, <1>3, <1>4, OthersStay DEF Domestic
<1>6. pending' \subseteq InDomain
  <2>1. CASE MarkLink(w)
    BY <2>1 DEF MarkLink, MarkPendingURL, WorkersOK, Domestic
  <2>2. CASE MarkAgain(w)
    BY <2>2, EngineAssumption DEF MarkAgain, MarkPendingURL, WorkersOK, Domestic
  <2>3. CASE ~MarkLink(w) /\ ~MarkAgain(w)
    <3>1. pending' \subseteq pending
      BY <2>3, AnswerEffect
         DEF WorkerStep, Take, AddLink, Leave, FetchPage, PageFetched, Answers,
             Abandon, Clear, ClearPendingURL, Complete, storeVars
    <3>. QED
      BY <3>1 DEF Domestic
  <2>. QED
    BY <2>1, <2>2, <2>3
<1>7. \A u \in URL : fetch_status'[u] # NoEntry => u \in InDomain
  <2>1. ASSUME NEW v \in URL, AddLink(w, v), Push(v)
        PROVE  \A u \in URL : fetch_status'[u] # NoEntry => u \in InDomain
    BY <2>1 DEF AddLink, Push, FrontierTypeOK, Domestic
  <2>2. ASSUME item[w] \in InDomain,
               \E s \in Status : fetch_status' = [fetch_status EXCEPT ![item[w]] = s]
        PROVE  \A u \in URL : fetch_status'[u] # NoEntry => u \in InDomain
    BY <2>2 DEF FrontierTypeOK, Domestic
  <2>3. CASE Answers(w)
    <3>1. item[w] \in InDomain
      BY <2>3, AnswerEffect, EngineAssumption DEF Domestic
    <3>2. \E s \in Status : fetch_status' = [fetch_status EXCEPT ![item[w]] = s]
      BY <1>1, <2>3, AnswerRelease DEF Status
    <3>. QED
      BY <2>2, <3>1, <3>2
  <2>4. CASE PageFetched(w)
    <3>1. item[w] \in InDomain
      BY <2>4, EngineAssumption DEF PageFetched, WorkersOK, Domestic
    <3>2. \E s \in Status : fetch_status' = [fetch_status EXCEPT ![item[w]] = s]
      BY <2>4 DEF PageFetched, MarkFetched, Status, Terminal
    <3>. QED
      BY <2>2, <3>1, <3>2
  <2>5. ASSUME \/ \E v \in URL : Take(w, v) \/ (AddLink(w, v) /\ ~Push(v))
               \/ Leave(w) \/ FetchPage(w) \/ MarkLink(w) \/ Abandon(w)
               \/ MarkAgain(w) \/ Clear(w) \/ Complete(w)
        PROVE  UNCHANGED fetch_status
    BY <2>5 DEF Take, PopWaitItem, AddLink, Leave, PopWaitNothing, FetchPage, MarkLink,
                Abandon, MarkAgain, Clear, Complete, CompleteWork, frontierVars
  <2>. QED
    BY <2>1, <2>3, <2>4, <2>5 DEF WorkerStep, Answers, Domestic
<1>. QED
  BY <1>1, <1>5, <1>6, <1>7 DEF mainVars, Domestic

LEMMA StepDomestic ==
    ASSUME same_domain, ResumeTyped, Domestic, [ResumeNext]_resumeVars
    PROVE  Domestic'
<1>. USE DEF ResumeTyped
<1>1. CASE Resume
  BY <1>1, ResumeDomestic
<1>2. CASE [Next]_vars
  BY <1>2, MainDomestic, WorkerDomestic DEF Next, Done
<1>. QED
  BY <1>1, <1>2, StepIsNext DEF ResumeNext, resumeVars

\* With --same-domain every URL that has an entry in some process or a mark in
\* the database is in a domain of the first seeds or below one, over any number
\* of crashes and of processes that compute their allowed domains from the marks.
THEOREM StaysInDomainCorrect == ResumeSpec => []StaysInDomain
<1>1. ASSUME same_domain, ResumeInit
      PROVE  Domestic
  BY <1>1, InitDomestic DEF ResumeInit
<1>2. Domestic => StaysInDomain
  BY DEF Domestic, InDomain, StaysInDomain
<1>3. ~same_domain => StaysInDomain
  BY DEF StaysInDomain
<1>. DEFINE Kept == same_domain => Domestic
<1>4. ResumeInit => Kept
  BY <1>1
<1>5. ResumeTyped /\ Kept /\ [ResumeNext]_resumeVars => Kept'
  BY StepDomestic
<1>6. Kept => StaysInDomain
  BY <1>2, <1>3
<1>. HIDE DEF Kept
<1>. QED
  BY <1>4, <1>5, <1>6, InitResumeTyped, StepResumeTyped, PTL DEF ResumeSpec

(***************************************************************************)
(* Nothing is forgotten by a crawl that is ended and resumed.              *)
(***************************************************************************)

\* A URL that is certain to get an outcome in this process, had one before, or
\* is pending when the process ends.
Known(u) == u \in settled \/ u \in seeds \/ (u \in URL /\ fetch_status[u] = Pending)

\* While no process has died: every page-like URL that was asked for is known,
\* the links a worker has gone through are, and the last save of a process
\* marked all it left pending.
Remembered ==
    /\ \A u \in (Seeds \cup found) \cap Body : Known(u)
    /\ \A w \in Worker :
          pc[w] \in {"links", "mark_link"}
            => \A v \in (AllowedLinks(allowed_domains, item[w]) \cap Body) \ links[w] : Known(v)
    /\ phase # "seed" => seeds = {}
    /\ phase = "done" => PendingInCrawl \subseteq pending

ResumeKeeps == g_running /\ (~crashed => Remembered)

\* No step of a process takes a URL back to being unknown.
LEMMA EntryStays ==
    ASSUME Inv, [Next]_vars, NEW u \in URL, fetch_status[u] # NoEntry
    PROVE  fetch_status'[u] # NoEntry
<1>. USE DEF Inv, Typed, TypeOK, FrontierTypeOK, NoEntry, Pending, Terminal, RetryStatus
<1>1. ASSUME NEW v \in URL, Push(v)
      PROVE  fetch_status'[u] # NoEntry
  BY <1>1 DEF Push
<1>2. ASSUME NEW w \in Worker, Answers(w)
      PROVE  fetch_status'[u] # NoEntry
  <2>1. item[w] \in URL /\ accepting_work
    BY <1>2, AnswerEffect, WorkerStepRuns DEF WorkerStep, Answers
  <2>. QED
    BY <1>2, <2>1, AnswerRelease
<1>3. ASSUME NEW w \in Worker, PageFetched(w)
      PROVE  fetch_status'[u] # NoEntry
  BY <1>3 DEF PageFetched, MarkFetched
<1>4. ASSUME NEW w \in Worker,
             \/ \E v \in URL : Take(w, v) \/ (AddLink(w, v) /\ ~Push(v))
             \/ Leave(w) \/ FetchPage(w) \/ MarkLink(w) \/ Abandon(w)
             \/ MarkAgain(w) \/ Clear(w) \/ Complete(w)
      PROVE  UNCHANGED fetch_status
  BY <1>4 DEF Take, PopWaitItem, AddLink, Leave, PopWaitNothing, FetchPage, MarkLink,
              Abandon, MarkAgain, Clear, Complete, CompleteWork, frontierVars
<1>5. ASSUME \/ \E v \in URL : SkipSeed(v) \/ (SeedPush(v) /\ ~Push(v))
             \/ SeedMark \/ CheckpointAndRun \/ JoinAndShutdown \/ FinalSave
             \/ Interrupt \/ UNCHANGED vars
      PROVE  UNCHANGED fetch_status
  BY <1>5 DEF SkipSeed, SeedPush, SeedMark, CheckpointAndRun, JoinAndShutdown,
              FrontierShutdown, FinalSave, Interrupt, vars, frontierVars
<1>. QED
  BY <1>1, <1>2, <1>3, <1>4, <1>5 DEF Next, MainStep, WorkerStep, Answers, Done

\* A link that push refuses has been answered or is pending.
LEMMA RefusedIsKnown ==
    ASSUME ResumeTyped, NEW u \in URL, accepting_work, ~Accepts(u)
    PROVE  u \in settled \/ fetch_status[u] = Pending
  BY DEF ResumeTyped, Accepts, Answered, Terminal, NoEntry, Pending

LEMMA KnownStays ==
    ASSUME ResumeTyped, ResumeTyped', Step, ResumeNext, NEW u \in Body, Known(u)
    PROVE  Known(u)'
<1>. USE DEF ResumeTyped
<1>4. u \in URL
  BY EngineAssumption
<1>1. CASE u \in settled
  BY <1>1, SettledGrows DEF Known
<1>2. CASE fetch_status[u] = Pending
  <2>1. fetch_status'[u] # NoEntry
    BY <1>4, <1>2, StepIsNext, EntryStays DEF NoEntry, Pending
  <2>. QED
    BY <1>4, <2>1 DEF Known, Answered
<1>3. CASE u \in seeds /\ u \notin seeds'
  <2>1. SeedPush(u)
    BY <1>3 DEF Step, MainStep, SeedPush, SkipSeed, SeedMark, CheckpointAndRun,
                JoinAndShutdown, FinalSave, Interrupt, WorkerStep, Take, AddLink, Leave,
                FetchPage, MarkLink, PageFetched, OtherAnswer, ClientError, Disallowed,
                Requeue, Exhausted, Report, Abandon, MarkAgain, Clear, Complete, Done,
                mainVars, vars
  <2>2. CASE Push(u)
    BY <1>4, <2>2 DEF Push, Known, Inv, Typed, TypeOK, FrontierTypeOK
  <2>3. CASE ~Accepts(u) /\ UNCHANGED frontierVars
    <3>1. u \in settled \/ fetch_status[u] = Pending
      BY <1>4, <2>1, <2>3, RefusedIsKnown DEF SeedPush, Inv, Phases
    <3>. QED
      BY <1>4, <1>1, <2>3, <3>1 DEF frontierVars, Known
  <2>. QED
    BY <2>1, <2>2, <2>3 DEF SeedPush
<1>. QED
  BY <1>1, <1>2, <1>3 DEF Known

\* The next process starts with everything the last one left pending.
LEMMA ResumeRemembers ==
    ASSUME ResumeTyped, ResumeTyped', ResumeKeeps, Resume, ResumeNext
    PROVE  ResumeKeeps'
<1>. SUFFICES ASSUME ~crashed'
              PROVE  Remembered'
  BY DEF ResumeKeeps, Resume
<1>1. ~crashed /\ phase = "done" /\ Remembered
  BY DEF Resume, ResumeKeeps
<1>2. ASSUME NEW u \in (Seeds \cup found) \cap Body
      PROVE  Known(u)'
  <2>1. CASE u \in settled
    BY <2>1, SettledGrows DEF Known
  <2>2. CASE u \in URL /\ fetch_status[u] = Pending
    <3>1. u \in pending
      BY <1>1, <2>2 DEF Remembered, PendingInCrawl
    <3>. QED
      BY <3>1 DEF Resume, LoadPendingURLs, Known
  <2>. QED
    BY <1>1, <2>1, <2>2 DEF Remembered, Known
<1>3. found' = found
  BY DEF Resume
<1>4. phase' = "seed" /\ \A w \in Worker : pc'[w] = "loop"
  BY DEF Resume
<1>. QED
  BY <1>2, <1>3, <1>4 DEF Remembered

\* The steps of the main thread: the checkpoint comes after the last seed, and
\* the last save marks what is still pending.
LEMMA MainRemembers ==
    ASSUME ResumeTyped, ResumeTyped', Remembered, Step, ResumeNext,
           MainStep \/ Interrupt \/ UNCHANGED vars
    PROVE  Remembered'
<1>. USE DEF ResumeTyped
<1>1. UNCHANGED <<found, allowed_domains, workerVars>>
  BY DEF MainStep, SeedPush, SkipSeed, SeedMark, CheckpointAndRun,
         JoinAndShutdown, FinalSave, Interrupt, vars, mainVars
<1>2. \A u \in (Seeds \cup found)' \cap Body : Known(u)'
  BY <1>1, KnownStays DEF Remembered
<1>3. \A w \in Worker :
         pc'[w] \in {"links", "mark_link"}
            => \A v \in (AllowedLinks(allowed_domains', item'[w]) \cap Body) \ links'[w] : Known(v)'
  BY <1>1, KnownStays DEF Remembered, workerVars
<1>4. phase' # "seed" => seeds' = {}
  BY DEF Remembered, MainStep, SeedPush, SkipSeed, SeedMark, CheckpointAndRun,
         JoinAndShutdown, FinalSave, Interrupt, vars, mainVars
<1>5. phase' = "done" => PendingInCrawl' \subseteq pending'
  <2>1. CASE FinalSave
    BY <2>1 DEF FinalSave, SavePendingURLs, PendingURLs, PendingInCrawl, frontierVars
  <2>2. CASE UNCHANGED vars
    BY <2>2 DEF Remembered, vars, mainVars, storeVars, frontierVars, PendingInCrawl
  <2>3. CASE Interrupt \/ (MainStep /\ ~FinalSave)
    BY <2>3 DEF MainStep, SeedPush, SkipSeed, SeedMark, CheckpointAndRun,
                JoinAndShutdown, Interrupt, Inv, Phases
  <2>. QED
    BY <2>1, <2>2, <2>3
<1>. QED
  BY <1>2, <1>3, <1>4, <1>5 DEF Remembered

\* A worker has gone through all links of a page when it reports the page.
LEMMA WorkerRemembers ==
    ASSUME ResumeTyped, ResumeTyped', Remembered, g_running, Step, ResumeNext,
           NEW w \in Worker, WorkerStep(w)
    PROVE  Remembered'
<1>. USE EngineAssumption DEF ResumeTyped, Inv, Typed, TypeOK
<1>1. UNCHANGED <<mainVars, allowed_domains>> /\ phase = "crawl" /\ accepting_work
  BY WorkerStepRuns DEF mainVars
<1>2. ASSUME NEW x \in Worker, x # w, pc'[x] \in {"links", "mark_link"},
             NEW v \in (AllowedLinks(allowed_domains', item'[x]) \cap Body) \ links'[x]
      PROVE  Known(v)'
  BY <1>1, <1>2, OthersStay, KnownStays DEF Remembered
<1>3. ASSUME pc'[w] \in {"links", "mark_link"},
             NEW v \in (AllowedLinks(allowed_domains', item'[w]) \cap Body) \ links'[w]
      PROVE  Known(v)'
  <2>1. CASE FetchPage(w)
    BY <1>1, <1>3, <2>1 DEF FetchPage
  <2>2. ASSUME NEW u \in URL, AddLink(w, u)
        PROVE  Known(v)'
    <3>1. pc[w] = "links" /\ item' = item /\ links'[w] = links[w] \ {u}
      BY <2>2 DEF AddLink
    <3>2. CASE v # u
      BY <1>1, <1>3, <3>1, <3>2, KnownStays DEF Remembered
    <3>3. CASE v = u /\ Push(u)
      BY <3>3 DEF Push, Known, FrontierTypeOK
    <3>4. CASE v = u /\ ~Accepts(u) /\ UNCHANGED frontierVars
      <4>1. u \in settled \/ fetch_status[u] = Pending
        BY <1>1, <3>4, RefusedIsKnown
      <4>. QED
        BY <3>4, <4>1, SettledGrows DEF frontierVars, Known
    <3>. QED
      BY <2>2, <3>2, <3>3, <3>4 DEF AddLink
  <2>3. CASE MarkLink(w)
    <3>1. pc[w] = "mark_link" /\ item' = item /\ links' = links
      BY <2>3 DEF MarkLink
    <3>. QED
      BY <1>1, <1>3, <3>1, KnownStays DEF Remembered
  <2>4. ASSUME \/ \E u \in URL : Take(w, u)
               \/ Leave(w) \/ PageFetched(w) \/ Answers(w) \/ Abandon(w)
               \/ MarkAgain(w) \/ Clear(w) \/ Complete(w)
        PROVE  pc'[w] \notin {"links", "mark_link"}
    BY <2>4, AnswerEffect, ZenonT(60) DEF Take, Leave, PageFetched, Abandon, MarkAgain, Clear,
                              Complete, Goto
  <2>. QED
    BY <1>3, <2>1, <2>2, <2>3, <2>4 DEF WorkerStep, Answers
<1>4. ASSUME NEW u \in (Seeds \cup found)' \cap Body
      PROVE  Known(u)'
  <2>1. CASE u \in Seeds \cup found
    BY <1>4, <2>1, KnownStays DEF Remembered
  <2>2. CASE u \notin Seeds \cup found
    <3>1. PageFetched(w)
      BY <1>4, <2>2, AnswerEffect
         DEF WorkerStep, Take, AddLink, Leave, FetchPage, MarkLink,
             Answers, Abandon, MarkAgain, Clear, Complete
    <3>2. pc[w] = "links" /\ links[w] = {} /\ found' = found \cup AllowedLinks(allowed_domains, item[w])
      BY <3>1 DEF PageFetched
    <3>3. u \in AllowedLinks(allowed_domains, item[w])
      BY <1>4, <2>2, <3>2
    <3>. QED
      BY <1>4, <3>2, <3>3, KnownStays DEF Remembered
  <2>. QED
    BY <2>1, <2>2
<1>. QED
  BY <1>1, <1>2, <1>3, <1>4 DEF Remembered, mainVars

LEMMA StepResumeKeeps ==
    ASSUME ~Interrupts, ResumeTyped, ResumeTyped', ResumeKeeps, [ResumeNext]_resumeVars
    PROVE  ResumeKeeps'
<1>1. CASE Resume /\ ResumeNext
  BY <1>1, ResumeRemembers
<1>2. CASE Step /\ ResumeNext /\ UNCHANGED <<resumes, crashed>>
  <2>1. g_running'
    BY <1>2, WorkerStepRuns
       DEF Step, MainStep, SeedPush, SkipSeed, SeedMark, CheckpointAndRun,
           JoinAndShutdown, FinalSave, Done, vars, mainVars, ResumeKeeps, ResumeTyped, Inv
  <2>2. ~crashed => Remembered'
    BY <1>2, MainRemembers, WorkerRemembers DEF Step, Done, ResumeKeeps
  <2>. QED
    BY <1>2, <2>1, <2>2 DEF ResumeKeeps
<1>3. CASE UNCHANGED resumeVars
  BY <1>3 DEF resumeVars, vars, mainVars, workerVars, storeVars, frontierVars,
              ResumeKeeps, Remembered, Known, PendingInCrawl
<1>. QED
  BY <1>1, <1>2, <1>3 DEF ResumeNext

LEMMA InitResumeKeeps == ResumeInit => ResumeKeeps
  BY DEF ResumeInit, Init, ResumeKeeps, Remembered, Known

\* A crawl that is ended and resumed, without an interrupt and without a crash,
\* ends with an outcome for every page-like seed and every page-like link that
\* the process which fetched its page may follow: with --same-domain by the
\* domains that this process was started with (main.cpp 398).
THEOREM ResumeCompleteCorrect ==
    ASSUME ~Interrupts
    PROVE  ResumeSpec => []ResumeComplete
<1>1. ResumeTyped /\ ResumeKeeps => ResumeComplete
  BY EngineAssumption
     DEF ResumeKeeps, Remembered, Known, ResumeComplete, Finished, PendingURLs
<1>. QED
  BY <1>1, InitResumeTyped, StepResumeTyped, InitResumeKeeps, StepResumeKeeps, PTL
     DEF ResumeSpec
=============================================================================
