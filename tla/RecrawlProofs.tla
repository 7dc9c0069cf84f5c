--------------------------- MODULE RecrawlProofs ---------------------------
(***************************************************************************)
(* The recrawl records: for every set of URLs and answers, every hour and  *)
(* any number of workers, sessions and crashes, no stored page is          *)
(* forgotten, and failures push it back by a bounded and growing time.     *)
(***************************************************************************)
EXTENDS Recrawl, FiniteSetTheorems, TLAPS

Hashes == Content \cup {NoContent}

Records == [last : Nat, next : Nat, failures : Nat, rate : Int,
            hash : Hashes, status : Nat]

Jobs == [url : URL \cup {NoContent}, hash : Hashes,
         step : {"none", "fetch_meta", "content", "record", "links"}, changed : BOOLEAN]

Typed ==
    /\ now \in Nat \ {0}
    /\ doc \subseteq URL
    /\ fetch_meta \in [URL -> Nat]
    /\ content \in [URL -> Hashes]
    /\ record \in [URL -> Records]
    /\ session \in {"none", "due", "all"}
    /\ sessions \in Nat
    /\ todo \subseteq URL
    /\ seen \subseteq URL
    /\ tries \in [URL -> Nat]
    /\ job \in [Worker -> Jobs]
    /\ \A w \in Worker : job[w].step # "none" => job[w].url \in URL
    /\ touched \in [URL -> Nat]
    /\ unseen \in Int
    /\ again \in [URL -> Nat]
    /\ crashes \in Nat

(***************************************************************************)
(* The intervals, in hours.                                                *)
(***************************************************************************)

\* The powers that are used, one by one.
LEMMA Powers ==
    ASSUME NEW n \in 0 .. 8
    PROVE  \/ n = 0 /\ 2 ^ n = 1
           \/ n = 1 /\ 2 ^ n = 2
           \/ n = 2 /\ 2 ^ n = 4
           \/ n = 3 /\ 2 ^ n = 8
           \/ n = 4 /\ 2 ^ n = 16
           \/ n = 5 /\ 2 ^ n = 32
           \/ n = 6 /\ 2 ^ n = 64
           \/ n = 7 /\ 2 ^ n = 128
           \/ n = 8 /\ 2 ^ n = 256
<1>1. \/ n = 0 \/ n = 1 \/ n = 2 \/ n = 3 \/ n = 4 \/ n = 5 \/ n = 6 \/ n = 7 \/ n = 8
  OBVIOUS
<1>2. n = 0 => 2 ^ n = 1
  OBVIOUS
<1>3. n = 1 => 2 ^ n = 2
  OBVIOUS
<1>4. n = 2 => 2 ^ n = 4
  OBVIOUS
<1>5. n = 3 => 2 ^ n = 8
  OBVIOUS
<1>6. n = 4 => 2 ^ n = 16
  OBVIOUS
<1>7. n = 5 => 2 ^ n = 32
  OBVIOUS
<1>8. n = 6 => 2 ^ n = 64
  OBVIOUS
<1>9. n = 7 => 2 ^ n = 128
  OBVIOUS
<1>10. n = 8 => 2 ^ n = 256
  OBVIOUS
<1>11. QED
  BY <1>1, <1>2, <1>3, <1>4, <1>5, <1>6, <1>7, <1>8, <1>9, <1>10

LEMMA BackoffIn ==
    ASSUME NEW n \in Nat
    PROVE  ComputeFailureBackoff(n) \in OneHour .. Longest
<1> DEFINE k == Clamp(n, 0, 8)
           x == OneHour * 2 ^ k
<1>1. k \in 0 .. 8
  BY DEF Clamp
<1> HIDE DEF k
<1>2. x \in Int
  BY <1>1, Powers DEF OneHour
<1> HIDE DEF x
<1>3. Clamp(x, OneHour, Longest) \in OneHour .. Longest
  BY <1>2 DEF Clamp, OneHour, Longest
<1>4. QED
  BY <1>3 DEF ComputeFailureBackoff, k, x

\* One more failure never makes the wait shorter.
LEMMA BackoffMonotonic ==
    ASSUME NEW n \in Nat
    PROVE  ComputeFailureBackoff(n) <= ComputeFailureBackoff(n + 1)
<1> DEFINE k == Clamp(n, 0, 8)
           l == Clamp(n + 1, 0, 8)
           x == 2 ^ k
           y == 2 ^ l
<1>1. k \in 0 .. 8 /\ l \in 0 .. 8 /\ (l = k \/ l = k + 1)
  BY DEF Clamp
<1> HIDE DEF k, l
<1>2. \/ k = 0 /\ x = 1
      \/ k = 1 /\ x = 2
      \/ k = 2 /\ x = 4
      \/ k = 3 /\ x = 8
      \/ k = 4 /\ x = 16
      \/ k = 5 /\ x = 32
      \/ k = 6 /\ x = 64
      \/ k = 7 /\ x = 128
      \/ k = 8 /\ x = 256
  BY <1>1, Powers
<1>3. \/ l = 0 /\ y = 1
      \/ l = 1 /\ y = 2
      \/ l = 2 /\ y = 4
      \/ l = 3 /\ y = 8
      \/ l = 4 /\ y = 16
      \/ l = 5 /\ y = 32
      \/ l = 6 /\ y = 64
      \/ l = 7 /\ y = 128
      \/ l = 8 /\ y = 256
  BY <1>1, Powers
<1> HIDE DEF x, y
<1>4. x \in Int /\ y \in Int /\ x <= y
  BY <1>1, <1>2, <1>3
<1>5. Clamp(OneHour * x, OneHour, Longest) <= Clamp(OneHour * y, OneHour, Longest)
  BY <1>4 DEF Clamp, OneHour, Longest
<1>6. QED
  BY <1>5 DEF ComputeFailureBackoff, k, l, x, y

LEMMA PriorityIn ==
    ASSUME NEW u \in URL
    PROVE  UrlPriorityScore(u) \in 0 .. 100
<1>1. Depth[u] \in Nat
  BY RecrawlAssumption
<1>2. [page |-> 10, asset |-> -25, other |-> 0][Ending[u]] \in Int
  <2>1. Ending[u] = "page" \/ Ending[u] = "asset" \/ Ending[u] = "other"
    BY RecrawlAssumption
  <2>2. QED
    BY <2>1
<1> DEFINE x == 50 - 5 * Depth[u] + [page |-> 10, asset |-> -25, other |-> 0][Ending[u]]
<1>3. x \in Int
  BY <1>1, <1>2
<1> HIDE DEF x
<1>4. Clamp(x, 0, 100) \in 0 .. 100
  BY <1>3 DEF Clamp
<1>5. QED
  BY <1>4 DEF UrlPriorityScore, x

LEMMA IntervalIn ==
    ASSUME NEW rate \in Int, NEW priority \in Int
    PROVE  ComputeBaseRecrawlInterval(rate, priority) \in OneHour .. Longest
<1> DEFINE r == Clamp(rate, 0, Unit)
           p == Clamp(priority, 0, 100)
           product == (OneWeek * Unit - (OneWeek - OneHour) * r) * (1000 - 6 * p)
<1>1. Unit \in Nat \ {0} /\ r \in Int /\ p \in Int
  BY RecrawlAssumption DEF Clamp
<1> HIDE DEF r, p
<1>2. product \in Int
  BY <1>1 DEF OneWeek, OneHour
<1> HIDE DEF product
<1>3. 1000 * Unit \in Nat \ {0}
  BY <1>1
<1>4. product \div (1000 * Unit) \in Int
  BY <1>2, <1>3
<1> DEFINE x == product \div (1000 * Unit)
<1> HIDE DEF x
<1>5. Clamp(x, OneHour, OneWeek) \in OneHour .. Longest
  <2>1. x \in Int
    BY <1>4 DEF x
  <2>2. QED
    BY <2>1 DEF Clamp, OneWeek, OneHour, Longest
<1>6. QED
  BY <1>5 DEF ComputeBaseRecrawlInterval, x, product, r, p

\* What a record is after an answer.
LEMMA RecordEffect ==
    ASSUME Typed, NEW u \in URL, NEW code \in Nat, NEW hash \in Hashes,
           NEW changed \in BOOLEAN
    PROVE  LET r == RecordCrawlResult(u, code, hash, changed)
           IN /\ r \in Records
              /\ r.last = now
              /\ r.next \in now + OneHour .. now + Longest
              /\ r.failures = IF IsRetryableStatus(code) THEN record[u].failures + 1 ELSE 0
              /\ r.failures > 0 => r.next - r.last = ComputeFailureBackoff(r.failures)
<1> DEFINE old == record[u]
           rate == (3 * old.rate + IF changed THEN Unit ELSE 0) \div 4
           wait == IF IsRetryableStatus(code) THEN ComputeFailureBackoff(old.failures + 1)
                   ELSE ComputeBaseRecrawlInterval(rate, UrlPriorityScore(u))
<1>1. /\ old \in Records /\ old.failures \in Nat /\ old.rate \in Int /\ old.hash \in Hashes
      /\ now \in Nat /\ Unit \in Nat
  BY RecrawlAssumption DEF Typed, Records
<1>2. rate \in Int
  BY <1>1
<1> HIDE DEF rate, old
<1>3. wait \in OneHour .. Longest
  <2>1. old.failures + 1 \in Nat
    BY <1>1
  <2>2. ComputeFailureBackoff(old.failures + 1) \in OneHour .. Longest
    BY <2>1, BackoffIn
  <2>3. UrlPriorityScore(u) \in Int
    BY PriorityIn
  <2>4. ComputeBaseRecrawlInterval(rate, UrlPriorityScore(u)) \in OneHour .. Longest
    BY <1>2, <2>3, IntervalIn
  <2>5. QED
    BY <2>2, <2>4
<1>4. RecordCrawlResult(u, code, hash, changed) =
        [last |-> now, status |-> code,
         failures |-> IF IsRetryableStatus(code) THEN old.failures + 1 ELSE 0,
         rate |-> IF IsRetryableStatus(code) THEN old.rate ELSE rate,
         next |-> now + wait,
         hash |-> IF hash = NoContent THEN old.hash ELSE hash]
  BY DEF RecordCrawlResult, old, rate
<1>5. wait = IF IsRetryableStatus(code) THEN ComputeFailureBackoff(old.failures + 1)
             ELSE ComputeBaseRecrawlInterval(rate, UrlPriorityScore(u))
  OBVIOUS
<1> HIDE DEF wait
<1>6. now + wait \in now + OneHour .. now + Longest /\ now + wait \in Nat
      /\ (now + wait) - now = wait
  BY <1>1, <1>3 DEF OneHour, Longest
<1>7. RecordCrawlResult(u, code, hash, changed) \in Records
  BY <1>1, <1>2, <1>4, <1>6 DEF Records
<1>8. QED
  BY <1>1, <1>4, <1>5, <1>6, <1>7 DEF old

(***************************************************************************)
(* Types.                                                                  *)
(***************************************************************************)

LEMMA NoRecordTyped == NoRecord \in Records /\ NoJob \in Jobs
BY DEF NoRecord, Records, NoJob, Jobs, Hashes

LEMMA TypedInit == Init => Typed
<1> SUFFICES ASSUME Init PROVE Typed
  OBVIOUS
<1>1. content \in [URL -> Hashes]
  BY DEF Init, Hashes
<1>2. fetch_meta \in [URL -> Nat] /\ doc \subseteq URL
  BY DEF Init
<1>3. job = [w \in Worker |-> NoJob] /\ NoJob.step = "none"
  BY DEF Init, NoJob
<1>4. QED
  BY <1>1, <1>2, <1>3, NoRecordTyped DEF Init, Typed

LEMMA BatchTyped == GetUrlsBatch \subseteq SUBSET URL /\ GetAllDocumentUrls \subseteq SUBSET doc
BY DEF GetUrlsBatch, GetAllDocumentUrls

\* The record of one URL is written.
Renewed(u, failed) ==
    /\ u \in URL
    /\ record' \in [URL -> Records]
    /\ \A v \in URL : v # u => record'[v] = record[v]
    /\ record'[u].last = now
    /\ record'[u].next \in now + OneHour .. now + Longest
    /\ record'[u].failures = IF failed THEN record[u].failures + 1 ELSE 0
    /\ record'[u].failures > 0 =>
         record'[u].next - record'[u].last = ComputeFailureBackoff(record'[u].failures)

LEMMA RenewedBy ==
    ASSUME Typed, NEW u \in URL, NEW code \in Nat, NEW hash \in Hashes,
           NEW changed \in BOOLEAN,
           record' = [record EXCEPT ![u] = RecordCrawlResult(u, code, hash, changed)]
    PROVE  Renewed(u, IsRetryableStatus(code))
<1> DEFINE r == RecordCrawlResult(u, code, hash, changed)
<1>1. /\ r \in Records
      /\ r.last = now
      /\ r.next \in now + OneHour .. now + Longest
      /\ r.failures = IF IsRetryableStatus(code) THEN record[u].failures + 1 ELSE 0
      /\ r.failures > 0 => r.next - r.last = ComputeFailureBackoff(r.failures)
  BY RecordEffect
<1>2. record' = [record EXCEPT ![u] = r]
  OBVIOUS
<1> HIDE DEF r
<1>3. /\ record' \in [URL -> Records] /\ record'[u] = r
      /\ \A v \in URL : v # u => record'[v] = record[v]
  BY <1>1, <1>2 DEF Typed
<1>4. QED
  BY <1>1, <1>3 DEF Renewed

LEMMA FetchRenews ==
    ASSUME Typed, NEW w \in Worker, NEW u \in todo, NEW code \in Code,
           FetchTerminal(w, u, code) \/ FetchRetryable(w, u, code)
    PROVE  Renewed(u, IsRetryableStatus(code))
<1>1. u \in URL /\ code \in Nat /\ NoContent \in Hashes /\ FALSE \in BOOLEAN
  BY RecrawlAssumption DEF Typed, Hashes
<1>2. record' = [record EXCEPT ![u] = RecordCrawlResult(u, code, NoContent, FALSE)]
  BY DEF FetchTerminal, FetchRetryable
<1>3. QED
  BY <1>1, <1>2, RenewedBy

LEMMA RecordRenews ==
    ASSUME Typed, NEW w \in Worker, Record(w)
    PROVE  job[w].url \in URL /\ Renewed(job[w].url, FALSE)
<1> DEFINE u == job[w].url
           hash == job[w].hash
           changed == job[w].changed
<1>1. job[w] \in Jobs /\ job[w].step = "record"
  BY DEF Record, Typed
<1>2. u \in URL /\ hash \in Hashes /\ changed \in BOOLEAN /\ 200 \in Nat
  BY <1>1 DEF Typed, Jobs
<1>3. record' = [record EXCEPT ![u] = RecordCrawlResult(u, 200, hash, changed)]
  BY DEF Record
<1> HIDE DEF u, hash, changed
<1>4. Renewed(u, IsRetryableStatus(200))
  BY <1>2, <1>3, RenewedBy
<1>5. IsRetryableStatus(200) = FALSE
  BY DEF IsRetryableStatus
<1>6. QED
  BY <1>2, <1>4, <1>5 DEF u

\* A worker that goes on with its page, or takes or leaves one.
LEMMA JobsTyped ==
    ASSUME Typed, NEW w \in Worker, NEW j \in Jobs, job' = [job EXCEPT ![w] = j],
           j.step # "none" => j.url \in URL
    PROVE  /\ job' \in [Worker -> Jobs]
           /\ \A x \in Worker : job'[x].step # "none" => job'[x].url \in URL
<1>1. job' \in [Worker -> Jobs]
  BY DEF Typed
<1>2. \A x \in Worker : job'[x] = IF x = w THEN j ELSE job[x]
  BY DEF Typed
<1>3. QED
  BY <1>1, <1>2 DEF Typed

\* The steps of a page that is written, seen as the job a worker goes on with.
LEMMA JobStep ==
    ASSUME Typed, NEW w \in Worker,
           PutFetchMeta(w) \/ PutContentMeta(w) \/ Record(w)
    PROVE  \E j \in Jobs :
             /\ job' = [job EXCEPT ![w] = j]
             /\ j.url = job[w].url
             /\ j.step = IF PutFetchMeta(w) THEN "content"
                         ELSE IF PutContentMeta(w) THEN "record" ELSE "links"
             /\ j.changed = IF PutFetchMeta(w) THEN job[w].changed
                            ELSE IF PutContentMeta(w)
                              THEN ContentChanged(job[w].url, job[w].hash) ELSE FALSE
<1>1. job[w] \in Jobs /\ job \in [Worker -> Jobs]
  BY DEF Typed
<1>2. CASE PutFetchMeta(w)
  <2> DEFINE j == [job[w] EXCEPT !.step = "content"]
  <2>1. job' = [job EXCEPT ![w] = j]
    BY <1>2 DEF PutFetchMeta
  <2>2. j \in Jobs /\ j.url = job[w].url /\ j.step = "content" /\ j.changed = job[w].changed
    BY <1>1 DEF Jobs
  <2> HIDE DEF j
  <2>3. QED
    BY <1>2, <2>1, <2>2
<1>3. CASE PutContentMeta(w)
  <2> DEFINE c == ContentChanged(job[w].url, job[w].hash)
             j == [job[w] EXCEPT !.step = "record", !.changed = c]
  <2>1. job' = [job EXCEPT ![w] = j]
    BY <1>1, <1>3 DEF PutContentMeta
  <2>2. c \in BOOLEAN
    BY DEF ContentChanged
  <2>3. ~PutFetchMeta(w)
    BY <1>3 DEF PutContentMeta, PutFetchMeta
  <2> HIDE DEF c
  <2>4. j \in Jobs /\ j.url = job[w].url /\ j.step = "record" /\ j.changed = c
    BY <1>1, <2>2 DEF Jobs
  <2> HIDE DEF j
  <2>5. QED
    BY <1>3, <2>1, <2>3, <2>4 DEF c
<1>4. CASE Record(w)
  <2> DEFINE j == [job[w] EXCEPT !.step = "links", !.changed = FALSE]
  <2>1. job' = [job EXCEPT ![w] = j]
    BY <1>1, <1>4 DEF Record
  <2>2. ~PutFetchMeta(w) /\ ~PutContentMeta(w)
    BY <1>4 DEF Record, PutContentMeta, PutFetchMeta
  <2>3. j \in Jobs /\ j.url = job[w].url /\ j.step = "links" /\ j.changed = FALSE
    BY <1>1 DEF Jobs
  <2> HIDE DEF j
  <2>4. QED
    BY <1>4, <2>1, <2>2, <2>3
<1>5. QED
  BY <1>2, <1>3, <1>4

LEMMA TypedWorkerStep ==
    ASSUME Typed, NEW w \in Worker, WorkerStep(w)
    PROVE  Typed'
<1> USE DEF storeVars, sessionVars, historyVars
<1>1. ASSUME NEW u \in todo, NEW code \in Code, NEW c \in Content, FetchOK(w, u, code, c)
      PROVE  Typed'
  <2> DEFINE j == [url |-> u, hash |-> c, step |-> "fetch_meta", changed |-> FALSE]
  <2>1. j \in Jobs /\ j.url \in URL
    BY DEF Jobs, Hashes, Typed
  <2>2. job' = [job EXCEPT ![w] = j]
    BY <1>1 DEF FetchOK
  <2> HIDE DEF j
  <2>3. /\ job' \in [Worker -> Jobs]
        /\ \A x \in Worker : job'[x].step # "none" => job'[x].url \in URL
    BY <2>1, <2>2, JobsTyped
  <2>4. QED
    BY <1>1, <2>3 DEF FetchOK, Typed
<1>2. ASSUME NEW u \in todo, NotFetched(w, u) PROVE Typed'
  BY <1>2 DEF NotFetched, Typed
<1>3. ASSUME NEW u \in todo, NEW code \in Code, FetchUnstored(w, u, code) PROVE Typed'
  BY <1>3 DEF FetchUnstored, Typed
<1>4. ASSUME NEW u \in todo, NEW code \in Code, FetchTerminal(w, u, code) PROVE Typed'
  <2>1. record' \in [URL -> Records]
    BY <1>4, FetchRenews DEF Renewed
  <2>2. QED
    BY <1>4, <2>1 DEF FetchTerminal, Typed
<1>5. ASSUME NEW u \in todo, NEW code \in Code, FetchRetryable(w, u, code) PROVE Typed'
  <2>1. record' \in [URL -> Records]
    BY <1>5, FetchRenews DEF Renewed
  <2>2. tries' \in [URL -> Nat] /\ touched' \in [URL -> Nat]
    BY <1>5 DEF FetchRetryable, Typed
  <2>3. todo' \subseteq URL /\ seen' \subseteq URL
    BY <1>5 DEF FetchRetryable, Typed
  <2>4. UNCHANGED <<now, doc, fetch_meta, content, session, sessions, job, unseen, again,
                    crashes>>
    BY <1>5 DEF FetchRetryable
  <2>5. QED
    BY <2>1, <2>2, <2>3, <2>4 DEF Typed
<1>6. ASSUME PutFetchMeta(w) \/ PutContentMeta(w) \/ Record(w) PROVE Typed'
  <2>1. job[w] \in Jobs /\ job[w].url \in URL
    BY <1>6 DEF PutFetchMeta, PutContentMeta, Record, Typed
  <2>2. /\ job' \in [Worker -> Jobs]
        /\ \A x \in Worker : job'[x].step # "none" => job'[x].url \in URL
    BY <1>6, <2>1, JobStep, JobsTyped
  <2>3. record' \in [URL -> Records]
    <3>1. CASE Record(w)
      BY <3>1, RecordRenews DEF Renewed
    <3>2. CASE PutFetchMeta(w) \/ PutContentMeta(w)
      BY <3>2 DEF PutFetchMeta, PutContentMeta, Typed
    <3>3. QED
      BY <1>6, <3>1, <3>2
  <2>4. content' \in [URL -> Hashes] /\ fetch_meta' \in [URL -> Nat]
    BY <1>6, <2>1 DEF PutFetchMeta, PutContentMeta, Record, Typed, Jobs
  <2>5. unseen' \in Int
    BY <1>6 DEF PutFetchMeta, PutContentMeta, Record, Typed
  <2>6. UNCHANGED <<now, doc, session, sessions, todo, seen, tries, touched, again, crashes>>
    BY <1>6 DEF PutFetchMeta, PutContentMeta, Record
  <2>7. QED
    BY <2>2, <2>3, <2>4, <2>5, <2>6 DEF Typed
<1>7. ASSUME NEW u \in URL, FindLink(w, u) PROVE Typed'
  BY <1>7 DEF FindLink, Typed
<1>8. CASE Finish(w)
  <2>1. NoJob \in Jobs /\ NoJob.step = "none" /\ job' = [job EXCEPT ![w] = NoJob]
    BY <1>8, NoRecordTyped DEF Finish, NoJob
  <2>2. /\ job' \in [Worker -> Jobs]
        /\ \A x \in Worker : job'[x].step # "none" => job'[x].url \in URL
    BY <2>1, JobsTyped
  <2>3. QED
    BY <1>8, <2>2 DEF Finish, Typed
<1>9. QED
  BY <1>1, <1>2, <1>3, <1>4, <1>5, <1>6, <1>7, <1>8 DEF WorkerStep

LEMMA TypedStep == Typed /\ [Next]_vars => Typed'
<1> SUFFICES ASSUME Typed, [Next]_vars PROVE Typed'
  OBVIOUS
<1> USE DEF storeVars, sessionVars, historyVars
<1>1. CASE StartSession
  <2>1. todo' \subseteq URL /\ session' \in {"due", "all"}
    BY <1>1, BatchTyped DEF StartSession, Typed
  <2>2. seen' = todo' /\ sessions' = sessions + 1 /\ tries' = [u \in URL |-> 0]
        /\ UNCHANGED <<now, storeVars, job, historyVars>>
    BY <1>1 DEF StartSession
  <2>3. QED
    BY <2>1, <2>2 DEF Typed
<1>2. CASE EndSession
  BY <1>2 DEF EndSession, Typed
<1>3. CASE Crash
  <2>1. NoJob \in Jobs /\ NoJob.step = "none" /\ job' = [w \in Worker |-> NoJob]
    BY <1>3, NoRecordTyped DEF Crash, NoJob
  <2>2. QED
    BY <1>3, <2>1 DEF Crash, Typed
<1>4. CASE Tick
  BY <1>4, RecrawlAssumption DEF Tick, Typed
<1>5. CASE UNCHANGED vars
  BY <1>5 DEF vars, Typed
<1>6. QED
  BY <1>1, <1>2, <1>3, <1>4, <1>5, TypedWorkerStep DEF Next

LEMMA TypedAlways == Spec => []Typed
BY TypedInit, TypedStep, PTL DEF Spec

(***************************************************************************)
(* The wait after failures.                                                *)
(***************************************************************************)

\* Only these steps write a record, each that of one URL.
LEMMA RecordStep ==
    ASSUME Typed, [Next]_vars
    PROVE  \/ record' = record
           \/ \E u \in URL, failed \in BOOLEAN : Renewed(u, failed)
<1> USE DEF storeVars
<1>1. ASSUME NEW w \in Worker, NEW u \in todo, NEW code \in Code,
             FetchTerminal(w, u, code) \/ FetchRetryable(w, u, code)
      PROVE  \E v \in URL, failed \in BOOLEAN : Renewed(v, failed)
  <2>1. u \in URL /\ IsRetryableStatus(code) \in BOOLEAN
    BY DEF Typed, IsRetryableStatus
  <2>2. QED
    BY <1>1, <2>1, FetchRenews
<1>2. ASSUME NEW w \in Worker, Record(w)
      PROVE  \E v \in URL, failed \in BOOLEAN : Renewed(v, failed)
  BY <1>2, RecordRenews
<1>3. ASSUME NEW w \in Worker,
             \/ \E u \in todo, code \in Code, c \in Content : FetchOK(w, u, code, c)
             \/ \E u \in todo, code \in Code : FetchUnstored(w, u, code)
             \/ \E u \in todo : NotFetched(w, u)
             \/ PutFetchMeta(w)
             \/ PutContentMeta(w)
             \/ \E u \in URL : FindLink(w, u)
             \/ Finish(w)
      PROVE  record' = record
  BY <1>3 DEF FetchOK, FetchUnstored, NotFetched, PutFetchMeta, PutContentMeta, FindLink,
              Finish
<1>4. CASE StartSession \/ EndSession \/ Crash \/ Tick \/ UNCHANGED vars
  BY <1>4 DEF StartSession, EndSession, Crash, Tick, vars
<1>5. QED
  BY <1>1, <1>2, <1>3, <1>4 DEF Next, WorkerStep

\* A record with failures holds the wait that belongs to their number.
WaitKept ==
    \A u \in URL :
      record[u].failures > 0 =>
        record[u].next - record[u].last = ComputeFailureBackoff(record[u].failures)

LEMMA WaitKeptStep == Typed /\ WaitKept /\ [Next]_vars => WaitKept'
<1> SUFFICES ASSUME Typed, WaitKept, [Next]_vars, NEW v \in URL, record'[v].failures > 0
             PROVE  record'[v].next - record'[v].last
                      = ComputeFailureBackoff(record'[v].failures)
  BY DEF WaitKept
<1>1. CASE record' = record
  BY <1>1 DEF WaitKept
<1>2. ASSUME NEW u \in URL, NEW failed \in BOOLEAN, Renewed(u, failed)
      PROVE  record'[v].next - record'[v].last = ComputeFailureBackoff(record'[v].failures)
  <2>1. CASE v = u
    BY <1>2, <2>1 DEF Renewed
  <2>2. CASE v # u
    <3>1. record'[v] = record[v]
      BY <1>2, <2>2 DEF Renewed
    <3>2. QED
      BY <3>1 DEF WaitKept
  <2>3. QED
    BY <2>1, <2>2
<1>3. QED
  BY <1>1, <1>2, RecordStep

LEMMA WaitKeptAlways == Spec => [](Typed /\ WaitKept)
<1>1. Init => WaitKept
  BY DEF Init, WaitKept, NoRecord
<1>2. QED
  BY <1>1, TypedInit, TypedStep, WaitKeptStep, PTL DEF Spec

LEMMA WaitGrows ==
    ASSUME Typed, WaitKept, [Next]_vars, NEW v \in URL,
           record[v].failures > 0, record'[v].failures > record[v].failures
    PROVE  record'[v].next - record'[v].last >= record[v].next - record[v].last
<1> DEFINE n == record[v].failures
<1>1. n \in Nat
  BY DEF Typed, Records
<1>2. record' # record
  BY <1>1
<1>3. PICK u \in URL, failed \in BOOLEAN : Renewed(u, failed)
  BY <1>2, RecordStep
<1>4. v = u
  <2>1. v # u => record'[v] = record[v]
    BY <1>3 DEF Renewed
  <2>2. QED
    BY <1>1, <2>1
<1>5. record'[v].failures = n + 1
  BY <1>1, <1>3, <1>4 DEF Renewed
<1>6. record'[v].next - record'[v].last = ComputeFailureBackoff(n + 1)
  BY <1>1, <1>3, <1>4, <1>5 DEF Renewed
<1>7. record[v].next - record[v].last = ComputeFailureBackoff(n)
  BY DEF WaitKept
<1>8. ComputeFailureBackoff(n) <= ComputeFailureBackoff(n + 1)
  BY <1>1, BackoffMonotonic
<1>9. ComputeFailureBackoff(n) \in Int /\ ComputeFailureBackoff(n + 1) \in Int
  BY <1>1, BackoffIn DEF OneHour, Longest
<1>10. QED
  BY <1>6, <1>7, <1>8, <1>9

\* A page that fails again is left alone at least as long as before: the
\* shift of computeFailureBackoff is capped before it can wrap, and
\* recordCrawlResult takes the wait from the count it writes
\* (rocksdb_store.cpp 85-91 and 555-601).
THEOREM BackoffGrowsHolds == Spec => BackoffGrows
<1>1. Typed /\ WaitKept /\ [Next]_vars =>
        [\A u \in URL :
           /\ record[u].failures > 0
           /\ record'[u].failures > record[u].failures
           => record'[u].next - record'[u].last >= record[u].next - record[u].last]_vars
  BY WaitGrows
<1>2. QED
  BY <1>1, WaitKeptAlways, PTL DEF Spec, BackoffGrows

(***************************************************************************)
(* The changes that are counted.                                           *)
(***************************************************************************)

Counting ==
    /\ ChangesCounted
    /\ \A w \in Worker : job[w].changed => job[w].step = "record"

\* A set of workers has as many members as they are.
LEMMA ChangingFinite ==
    /\ IsFiniteSet(Changing) /\ Cardinality(Changing) \in Nat
    /\ Cardinality(Worker) \in Nat /\ Cardinality(Changing) <= Cardinality(Worker)
BY FS_Subset, FS_CardinalityType, RecrawlAssumption DEF Changing

\* One crash more is one change more for each worker.
LEMMA OneCrash ==
    ASSUME NEW n \in Nat, NEW c \in Nat
    PROVE  n * c \in Nat /\ n * (c + 1) = n * c + n
OBVIOUS

\* The numbers of changes in the workers' hands and in nobody's.
LEMMA ChangesCount ==
    ASSUME Typed, Counting, crashes' = crashes, unseen' \in Int,
           unseen' - unseen <= Cardinality(Changing') - Cardinality(Changing),
           Cardinality(Changing') \in Nat
    PROVE  ChangesCounted'
<1> DEFINE lost == Cardinality(Worker) * crashes
           before == Cardinality(Changing)
           after == Cardinality(Changing')
<1>1. unseen \in Int /\ unseen <= lost + before /\ before \in Nat /\ lost \in Nat
  <2>1. crashes \in Nat /\ unseen \in Int
    BY DEF Typed
  <2>2. lost \in Nat
    BY <2>1, ChangingFinite, OneCrash
  <2>3. QED
    BY <2>1, <2>2, ChangingFinite DEF Counting, ChangesCounted
<1>2. after \in Nat /\ unseen' \in Int /\ unseen' - unseen <= after - before
  OBVIOUS
<1>3. ASSUME NEW b \in Nat, NEW a \in Nat, NEW l \in Nat, NEW n \in Int, NEW m \in Int,
             n <= l + b, m - n <= a - b
      PROVE  m <= l + a
  BY <1>3
<1> HIDE DEF lost, before, after
<1>5. unseen' <= lost + after
  BY <1>1, <1>2, <1>3
<1>6. QED
  BY <1>5 DEF ChangesCounted, lost, after

LEMMA CountingStep == Typed /\ Counting /\ [Next]_vars => Counting'
<1> SUFFICES ASSUME Typed, Counting, [Next]_vars PROVE Counting'
  OBVIOUS
<1> USE DEF storeVars, sessionVars, historyVars
<1>1. /\ unseen \in Int /\ crashes \in Nat /\ job \in [Worker -> Jobs]
      /\ NoJob.changed = FALSE
  BY DEF Typed, NoJob
<1>2. CASE UNCHANGED <<job, unseen, crashes>>
  BY <1>2 DEF Counting, ChangesCounted, Changing
\* A worker goes on, and whether it holds a change stays.
<1>3. ASSUME NEW w \in Worker, NEW j \in Jobs, job' = [job EXCEPT ![w] = j],
             j.changed = job[w].changed, j.changed => j.step = "record",
             UNCHANGED <<unseen, crashes>>
      PROVE  Counting'
  <2>1. \A x \in Worker : job'[x] = IF x = w THEN j ELSE job[x]
    BY <1>1, <1>3
  <2>2. Changing' = Changing
    BY <1>3, <2>1 DEF Changing
  <2>3. QED
    BY <1>3, <2>1, <2>2 DEF Counting, ChangesCounted
<1>4. ASSUME NEW w \in Worker, NEW u \in todo, NEW code \in Code, NEW c \in Content,
             FetchOK(w, u, code, c)
      PROVE  Counting'
  <2> DEFINE j == [url |-> u, hash |-> c, step |-> "fetch_meta", changed |-> FALSE]
  <2>1. /\ job[w] = NoJob /\ job' = [job EXCEPT ![w] = j]
        /\ UNCHANGED <<unseen, crashes>>
    BY <1>4 DEF FetchOK, Takes
  <2>2. j \in Jobs /\ j.changed = FALSE
    BY DEF Jobs, Hashes, Typed
  <2> HIDE DEF j
  <2>3. QED
    BY <1>1, <1>3, <2>1, <2>2
<1>5. ASSUME NEW w \in Worker, PutFetchMeta(w) PROVE Counting'
  <2>1. ~job[w].changed /\ UNCHANGED <<unseen, crashes>>
    BY <1>5 DEF PutFetchMeta, Counting
  <2>2. PICK j \in Jobs : job' = [job EXCEPT ![w] = j] /\ j.changed = job[w].changed
    BY <1>5, JobStep
  <2>3. QED
    BY <1>3, <2>1, <2>2
<1>6. ASSUME NEW w \in Worker, PutContentMeta(w) PROVE Counting'
  <2> DEFINE changed == ContentChanged(job[w].url, job[w].hash)
  <2>1. /\ job[w].step = "content" /\ crashes' = crashes
        /\ unseen' = IF content[job[w].url] \in {NoContent, job[w].hash} THEN unseen
                     ELSE unseen + 1
    BY <1>6 DEF PutContentMeta
  <2>2. PICK j \in Jobs : /\ job' = [job EXCEPT ![w] = j]
                          /\ j.step = "record" /\ j.changed = changed
    <3>1. ~PutFetchMeta(w)
      BY <2>1 DEF PutFetchMeta
    <3>2. QED
      BY <1>6, <3>1, JobStep
  <2>3. ~job[w].changed
    BY <2>1 DEF Counting
  <2>4. \A x \in Worker : job'[x] = IF x = w THEN j ELSE job[x]
    BY <1>1, <2>2
  <2>5. unseen' = IF changed THEN unseen + 1 ELSE unseen
    BY <2>1 DEF ContentChanged
  <2> HIDE DEF changed
  <2>6. Changing' = IF changed THEN Changing \cup {w} ELSE Changing
    BY <2>2, <2>3, <2>4 DEF Changing
  <2>7. w \notin Changing
    BY <2>3 DEF Changing
  <2>8. Cardinality(Changing') = IF changed THEN Cardinality(Changing) + 1
                                 ELSE Cardinality(Changing)
    BY <2>6, <2>7, FS_AddElement, ChangingFinite
  <2>9. ChangesCounted'
    BY <1>1, <2>1, <2>5, <2>8, ChangingFinite, ChangesCount
  <2>10. QED
    BY <2>2, <2>4, <2>9 DEF Counting
<1>7. ASSUME NEW w \in Worker, Record(w) PROVE Counting'
  <2>1. crashes' = crashes /\ unseen' = IF job[w].changed THEN unseen - 1 ELSE unseen
    BY <1>7 DEF Record
  <2>2. PICK j \in Jobs : job' = [job EXCEPT ![w] = j] /\ j.changed = FALSE
    <3>1. ~PutFetchMeta(w) /\ ~PutContentMeta(w)
      BY <1>7 DEF Record, PutFetchMeta, PutContentMeta
    <3>2. QED
      BY <1>7, <3>1, JobStep
  <2>3. \A x \in Worker : job'[x] = IF x = w THEN j ELSE job[x]
    BY <1>1, <2>2
  <2>4. Changing' = Changing \ {w} /\ (w \in Changing <=> job[w].changed)
    BY <2>2, <2>3 DEF Changing
  <2>5. Cardinality(Changing') = IF job[w].changed THEN Cardinality(Changing) - 1
                                 ELSE Cardinality(Changing)
    BY <2>4, FS_RemoveElement, ChangingFinite
  <2>6. Cardinality(Changing') \in Nat
    BY <2>4, FS_RemoveElement, FS_CardinalityType, ChangingFinite
  <2>7. ChangesCounted'
    BY <1>1, <2>1, <2>5, <2>6, ChangingFinite, ChangesCount
  <2>8. QED
    BY <2>2, <2>3, <2>7 DEF Counting
<1>8. ASSUME NEW w \in Worker, Finish(w) PROVE Counting'
  <2>1. /\ job[w].step = "links" /\ job' = [job EXCEPT ![w] = NoJob]
        /\ UNCHANGED <<unseen, crashes>>
    BY <1>8 DEF Finish
  <2>2. ~job[w].changed
    BY <2>1 DEF Counting
  <2>3. job[w].changed \in BOOLEAN
    BY <1>1 DEF Jobs
  <2>4. QED
    BY <1>1, <1>3, <2>1, <2>2, <2>3, NoRecordTyped
<1>9. CASE Crash
  <2>1. job' = [w \in Worker |-> NoJob] /\ crashes' = crashes + 1 /\ unseen' = unseen
    BY <1>9 DEF Crash
  <2>2. Changing' = {} /\ \A w \in Worker : ~job'[w].changed
    BY <1>1, <2>1 DEF Changing
  <2>3. Cardinality(Changing') = 0
    BY <2>2, FS_EmptySet
  <2> DEFINE n == Cardinality(Worker)
             lost == n * crashes
             more == n * (crashes + 1)
             in == Cardinality(Changing)
  <2>4. n \in Nat /\ in \in Nat /\ in <= n /\ lost \in Nat /\ more = lost + n
    BY <1>1, ChangingFinite, OneCrash
  <2>5. unseen <= lost + in
    BY DEF Counting, ChangesCounted
  <2> HIDE DEF n, lost, more, in
  <2>6. unseen <= more + 0
    BY <1>1, <2>4, <2>5
  <2>7. ChangesCounted'
    BY <2>1, <2>3, <2>6 DEF ChangesCounted, more, n
  <2>8. QED
    BY <2>2, <2>7 DEF Counting
<1>10. ASSUME NEW w \in Worker,
              \/ \E u \in todo, code \in Code :
                   FetchUnstored(w, u, code) \/ FetchTerminal(w, u, code)
                   \/ FetchRetryable(w, u, code)
              \/ \E u \in todo : NotFetched(w, u)
              \/ \E u \in URL : FindLink(w, u)
       PROVE  Counting'
  BY <1>2, <1>10 DEF FetchUnstored, FetchTerminal, FetchRetryable, NotFetched, FindLink
<1>11. CASE StartSession \/ EndSession \/ Tick \/ UNCHANGED vars
  BY <1>2, <1>11 DEF StartSession, EndSession, Tick, vars
<1>12. QED
  BY <1>4, <1>5, <1>6, <1>7, <1>8, <1>9, <1>10, <1>11 DEF Next, WorkerStep

\* Every change that a fetch saw is counted, but for those in the hands of a
\* worker when the process dies: the old hash is read before the puts of the
\* page, and only a death between ContentMeta and the record loses the
\* difference (engine.cpp 200-268).  With any number of workers a crash loses at
\* most as many changes.
THEOREM ChangesCountedHolds == Spec => []ChangesCounted
<1>1. Init => Counting
  <2> SUFFICES ASSUME Init PROVE Counting
    OBVIOUS
  <2>1. unseen = 0 /\ crashes = 0 /\ job = [w \in Worker |-> NoJob]
    BY DEF Init
  <2>2. \A w \in Worker : ~job[w].changed
    BY <2>1 DEF NoJob
  <2>3. Cardinality(Worker) * 0 = 0 /\ Cardinality(Changing) \in Nat
    BY ChangingFinite
  <2>4. QED
    BY <2>1, <2>2, <2>3 DEF Counting, ChangesCounted
<1>2. Typed /\ Counting => ChangesCounted
  BY DEF Counting
<1>3. QED
  BY <1>1, <1>2, TypedInit, TypedStep, CountingStep, PTL DEF Spec

(***************************************************************************)
(* The failures of one session.                                            *)
(***************************************************************************)

\* The sessions before this one and the times the page was let in again: each
\* has had its budget.
Spent(u) == MAX_RETRY_COUNT * (sessions - 1 + again[u])

Budget(u) == MAX_RETRY_COUNT * (sessions + again[u])

\* What the failures of a page may be: those of the budgets before and, of the
\* current one, as many as the page was tried.
Counted ==
    /\ \A u \in URL : record[u].failures <= Budget(u)
    /\ session = "none" => todo = {} /\ \A w \in Worker : job[w].step = "none"
    /\ session # "none" => sessions > 0
    /\ todo \subseteq seen
    /\ session # "none" =>
         \A u \in URL :
           /\ u \notin seen /\ tries[u] = 0 => record[u].failures <= Spent(u)
           /\ u \in todo =>
                tries[u] < MAX_RETRY_COUNT
                /\ record[u].failures <= Spent(u) + tries[u]

\* One budget more is MAX_RETRY_COUNT failures more.
LEMMA OneSession ==
    ASSUME NEW n \in Nat
    PROVE  /\ MAX_RETRY_COUNT \in Nat \ {0}
           /\ MAX_RETRY_COUNT * n \in Nat
           /\ MAX_RETRY_COUNT * (n + 1) = MAX_RETRY_COUNT * n + MAX_RETRY_COUNT
BY RecrawlAssumption

LEMMA Budgets ==
    ASSUME Typed, Counted, NEW u \in URL
    PROVE  /\ MAX_RETRY_COUNT \in Nat \ {0}
           /\ Budget(u) \in Nat
           /\ session # "none" => Spent(u) \in Nat /\ Budget(u) = Spent(u) + MAX_RETRY_COUNT
           /\ record[u].failures \in Nat /\ tries[u] \in Nat
<1>1. sessions \in Nat /\ again[u] \in Nat /\ sessions + again[u] \in Nat
  BY DEF Typed
<1>2. MAX_RETRY_COUNT \in Nat \ {0} /\ Budget(u) \in Nat
  BY <1>1, OneSession DEF Budget
<1>3. ASSUME session # "none"
      PROVE  Spent(u) \in Nat /\ Budget(u) = Spent(u) + MAX_RETRY_COUNT
  <2> DEFINE n == sessions - 1 + again[u]
  <2>1. n \in Nat /\ n + 1 = sessions + again[u]
    BY <1>1, <1>3 DEF Counted
  <2> HIDE DEF n
  <2>2. MAX_RETRY_COUNT * n \in Nat
        /\ MAX_RETRY_COUNT * (n + 1) = MAX_RETRY_COUNT * n + MAX_RETRY_COUNT
    BY <2>1, OneSession
  <2>3. QED
    BY <2>1, <2>2 DEF Spent, Budget, n
<1>4. record[u].failures \in Nat /\ tries[u] \in Nat
  BY DEF Typed, Records
<1>5. QED
  BY <1>2, <1>3, <1>4

\* The bounds depend on the sessions and on again alone.
LEMMA BoundsStay ==
    ASSUME UNCHANGED <<sessions, again>>
    PROVE  \A u \in URL : Spent(u)' = Spent(u) /\ Budget(u)' = Budget(u)
BY DEF Spent, Budget

LEMMA CountedInit == Init => Counted
<1> SUFFICES ASSUME Init PROVE Counted
  OBVIOUS
<1>1. MAX_RETRY_COUNT * 0 = 0 /\ 0 + 0 = 0
  BY RecrawlAssumption
<1>2. \A u \in URL : record[u].failures = 0 /\ Budget(u) = 0
  BY <1>1 DEF Init, Budget, NoRecord
<1>3. session = "none" /\ todo = {} /\ \A w \in Worker : job[w].step = "none"
  BY DEF Init, NoJob
<1>4. QED
  BY <1>2, <1>3 DEF Counted

\* Every fetch that writes a record, seen from the bounds of the session.
LEMMA CountedFetch ==
    ASSUME Typed, Counted, NEW w \in Worker, NEW u \in todo, NEW code \in Code,
           FetchTerminal(w, u, code) \/ FetchRetryable(w, u, code)
    PROVE  Counted'
<1>1. session # "none" /\ u \in URL /\ u \in seen
  BY DEF Counted, Typed
<1>2. UNCHANGED <<session, sessions, again, job>>
  BY DEF FetchTerminal, FetchRetryable
<1>3. /\ \A v \in URL : v # u => record'[v] = record[v]
      /\ record'[u].failures \in {0, record[u].failures + 1}
  BY <1>1, FetchRenews DEF Renewed
<1>4. /\ \A v \in URL : v # u => tries'[v] = tries[v] /\ (v \in seen' <=> v \in seen)
                                 /\ (v \in todo' <=> v \in todo)
      /\ u \in todo' => u \in seen' /\ tries'[u] = tries[u] + 1 /\ tries'[u] < MAX_RETRY_COUNT
      /\ u \notin seen' => tries'[u] = tries[u] + 1
      /\ todo' \subseteq URL
  <2>1. CASE FetchTerminal(w, u, code)
    BY <1>1, <2>1 DEF FetchTerminal, Typed
  <2>2. CASE FetchRetryable(w, u, code)
    <3>1. /\ tries' = [tries EXCEPT ![u] = @ + 1]
          /\ todo' = IF tries[u] + 1 < MAX_RETRY_COUNT THEN todo ELSE todo \ {u}
          /\ \/ seen' = seen
             \/ ~(tries[u] + 1 < MAX_RETRY_COUNT) /\ seen' = seen \ {u}
      BY <2>2 DEF FetchRetryable
    <3>2. /\ \A v \in URL : v # u => tries'[v] = tries[v]
          /\ tries'[u] = tries[u] + 1
      BY <1>1, <3>1 DEF Typed
    <3>3. QED
      BY <1>1, <3>1, <3>2 DEF Typed
  <2>3. QED
    BY <2>1, <2>2
<1>5. \A v \in URL : Spent(v)' = Spent(v) /\ Budget(v)' = Budget(v)
  BY <1>2, BoundsStay
<1>6. /\ Spent(u) \in Nat /\ MAX_RETRY_COUNT \in Nat /\ Budget(u) = Spent(u) + MAX_RETRY_COUNT
      /\ record[u].failures \in Nat /\ tries[u] \in Nat
      /\ record[u].failures <= Spent(u) + tries[u] /\ tries[u] < MAX_RETRY_COUNT
  BY <1>1, Budgets DEF Counted
<1>7. record'[u].failures <= Budget(u)' /\ record'[u].failures <= Spent(u)' + tries[u] + 1
  BY <1>1, <1>3, <1>5, <1>6
<1>8. \A v \in URL : record'[v].failures <= Budget(v)'
  BY <1>3, <1>5, <1>7 DEF Counted
<1>9. todo' \subseteq seen'
  BY <1>4 DEF Counted
<1>10. ASSUME NEW v \in URL, v \notin seen', tries'[v] = 0
       PROVE  record'[v].failures <= Spent(v)'
  <2>1. v # u
    BY <1>4, <1>6, <1>10
  <2>2. QED
    BY <1>1, <1>3, <1>4, <1>5, <1>10, <2>1 DEF Counted
<1>11. ASSUME NEW v \in todo'
       PROVE  tries'[v] < MAX_RETRY_COUNT /\ record'[v].failures <= Spent(v)' + tries'[v]
  <2>1. CASE v = u
    <3>1. tries'[u] = tries[u] + 1 /\ tries'[u] < MAX_RETRY_COUNT
      BY <1>4, <1>11, <2>1
    <3>2. record'[u].failures <= Spent(u)' + (tries[u] + 1)
      <4>1. Spent(u)' \in Nat /\ tries[u] \in Nat /\ record'[u].failures \in Nat
        BY <1>1, <1>3, <1>5, <1>6
      <4>2. QED
        BY <1>7, <4>1
    <3>3. QED
      BY <2>1, <3>1, <3>2
  <2>2. CASE v # u
    BY <1>1, <1>3, <1>4, <1>5, <1>11, <2>2 DEF Counted
  <2>3. QED
    BY <2>1, <2>2
<1>12. QED
  BY <1>1, <1>2, <1>4, <1>8, <1>9, <1>10, <1>11 DEF Counted

\* A link that brings a page back after a timeout brings a new budget.
LEMMA CountedLink ==
    ASSUME Typed, Counted, NEW w \in Worker, NEW u \in URL, FindLink(w, u)
    PROVE  Counted'
<1>1. /\ u \notin seen /\ todo' = todo \cup {u} /\ seen' = seen \cup {u}
      /\ tries' = [tries EXCEPT ![u] = 0]
      /\ again' = IF tries[u] > 0 THEN [again EXCEPT ![u] = @ + 1] ELSE again
      /\ UNCHANGED <<session, sessions, record, job>>
  BY DEF FindLink, storeVars
<1>2. session # "none"
  BY DEF FindLink, Counted
<1>3. \A v \in URL : v # u => /\ again'[v] = again[v] /\ tries'[v] = tries[v]
                              /\ Spent(v)' = Spent(v) /\ Budget(v)' = Budget(v)
  BY <1>1 DEF Typed, Spent, Budget
<1>4. tries'[u] = 0 /\ again'[u] = IF tries[u] > 0 THEN again[u] + 1 ELSE again[u]
  BY <1>1 DEF Typed
<1>5. /\ MAX_RETRY_COUNT \in Nat \ {0} /\ Spent(u) \in Nat
      /\ Budget(u) = Spent(u) + MAX_RETRY_COUNT
      /\ record[u].failures \in Nat /\ tries[u] \in Nat
  BY <1>2, Budgets
<1>6. record[u].failures <= Spent(u)' /\ Spent(u)' <= Budget(u)' /\ Spent(u)' \in Nat
  <2>1. CASE tries[u] = 0
    <3>1. Spent(u)' = Spent(u) /\ Budget(u)' = Budget(u)
      BY <1>1, <1>4, <2>1 DEF Spent, Budget
    <3>2. record[u].failures <= Spent(u)
      BY <1>1, <1>2, <2>1 DEF Counted
    <3>3. QED
      BY <1>5, <3>1, <3>2
  <2>2. CASE tries[u] # 0
    <3>1. again'[u] = again[u] + 1 /\ sessions \in Nat /\ again[u] \in Nat
      BY <1>4, <1>5, <2>2 DEF Typed
    <3> DEFINE n == sessions + again[u]
    <3>2. n \in Nat /\ sessions - 1 + again'[u] = n /\ sessions + again'[u] = n + 1
      BY <3>1
    <3>3. Spent(u)' = MAX_RETRY_COUNT * n /\ Budget(u)' = MAX_RETRY_COUNT * (n + 1)
      BY <1>1, <3>2 DEF Spent, Budget
    <3>4. Budget(u) = MAX_RETRY_COUNT * n
      BY DEF Budget
    <3> HIDE DEF n
    <3>5. Spent(u)' \in Nat /\ Budget(u)' = Spent(u)' + MAX_RETRY_COUNT
      BY <3>2, <3>3, OneSession
    <3>6. record[u].failures <= Budget(u)
      BY DEF Counted
    <3>7. QED
      BY <1>5, <3>3, <3>4, <3>5, <3>6
  <2>3. QED
    BY <2>1, <2>2
<1>7. record[u].failures <= Spent(u)' + tries'[u] /\ tries'[u] < MAX_RETRY_COUNT
      /\ record[u].failures <= Budget(u)'
  <2>1. Budget(u)' \in Nat
    <3>1. /\ sessions' + again'[u] \in Nat
      BY <1>1, <1>4 DEF Typed
    <3>2. QED
      BY <3>1, OneSession DEF Budget
  <2>2. QED
    BY <1>4, <1>5, <1>6, <2>1
<1>8. \A v \in URL : record'[v].failures <= Budget(v)'
  BY <1>1, <1>3, <1>7 DEF Counted
<1>9. todo' \subseteq seen'
  BY <1>1 DEF Counted
<1>10. ASSUME NEW v \in URL, v \notin seen', tries'[v] = 0
       PROVE  record'[v].failures <= Spent(v)'
  BY <1>1, <1>2, <1>3, <1>10 DEF Counted
<1>11. ASSUME NEW v \in URL, v \in todo'
       PROVE  tries'[v] < MAX_RETRY_COUNT /\ record'[v].failures <= Spent(v)' + tries'[v]
  <2>1. CASE v = u
    BY <1>1, <1>7, <2>1
  <2>2. CASE v # u
    BY <1>1, <1>2, <1>3, <1>11, <2>2 DEF Counted
  <2>3. QED
    BY <2>1, <2>2
<1>12. QED
  BY <1>1, <1>2, <1>8, <1>9, <1>10, <1>11 DEF Counted

\* A page that answers: its failures start at 0 again.
LEMMA CountedRecord ==
    ASSUME Typed, Counted, NEW w \in Worker, Record(w)
    PROVE  Counted'
<1>1. UNCHANGED <<session, sessions, todo, seen, tries, again>>
  BY DEF Record
<1>2. \A v \in URL : record'[v].failures = record[v].failures \/ record'[v].failures = 0
  BY RecordRenews DEF Renewed
<1>3. \A v \in URL : Spent(v)' = Spent(v) /\ Budget(v)' = Budget(v)
  BY <1>1, BoundsStay
<1>4. session # "none"
  BY DEF Record, Counted
<1>5. ASSUME NEW v \in URL
      PROVE  /\ record'[v].failures <= Budget(v)'
             /\ v \notin seen' /\ tries'[v] = 0 => record'[v].failures <= Spent(v)'
             /\ v \in todo' =>
                  tries'[v] < MAX_RETRY_COUNT
                  /\ record'[v].failures <= Spent(v)' + tries'[v]
  <2>1. /\ Spent(v) \in Nat /\ Budget(v) \in Nat /\ tries[v] \in Nat
        /\ record[v].failures \in Nat
    BY <1>4, Budgets
  <2>2. /\ record[v].failures <= Budget(v)
        /\ v \notin seen /\ tries[v] = 0 => record[v].failures <= Spent(v)
        /\ v \in todo =>
             tries[v] < MAX_RETRY_COUNT /\ record[v].failures <= Spent(v) + tries[v]
    BY <1>4 DEF Counted
  <2>3. QED
    BY <1>1, <1>2, <1>3, <2>1, <2>2
<1>6. QED
  BY <1>1, <1>4, <1>5 DEF Counted

\* A session starts with a budget for each page.
LEMMA CountedStart ==
    ASSUME Typed, Counted, StartSession
    PROVE  Counted'
<1>1. /\ session = "none" /\ session' # "none" /\ sessions' = sessions + 1
      /\ seen' = todo' /\ tries' = [v \in URL |-> 0]
      /\ UNCHANGED <<record, again>>
  BY DEF StartSession, storeVars, historyVars
<1>2. sessions \in Nat /\ sessions' - 1 = sessions /\ sessions' > 0
  BY <1>1 DEF Typed
<1>3. ASSUME NEW v \in URL
      PROVE  /\ record'[v].failures <= Spent(v)' /\ tries'[v] = 0
             /\ record'[v].failures <= Budget(v)'
             /\ tries'[v] < MAX_RETRY_COUNT /\ record'[v].failures <= Spent(v)' + tries'[v]
  <2> DEFINE n == sessions + again[v]
  <2>1. n \in Nat /\ sessions' - 1 + again'[v] = n /\ sessions' + again'[v] = n + 1
    BY <1>1, <1>2 DEF Typed
  <2>2. Spent(v)' = MAX_RETRY_COUNT * n /\ Budget(v)' = MAX_RETRY_COUNT * (n + 1)
    BY <1>1, <2>1 DEF Spent, Budget
  <2>3. record[v].failures <= MAX_RETRY_COUNT * n /\ record[v].failures \in Nat
    BY DEF Counted, Budget, Typed, Records
  <2> HIDE DEF n
  <2>4. /\ Spent(v)' \in Nat /\ Budget(v)' = Spent(v)' + MAX_RETRY_COUNT
        /\ MAX_RETRY_COUNT \in Nat \ {0}
    BY <2>1, <2>2, OneSession
  <2>5. tries'[v] = 0 /\ record'[v].failures = record[v].failures
    BY <1>1
  <2>6. QED
    BY <2>2, <2>3, <2>4, <2>5
<1>4. QED
  BY <1>1, <1>2, <1>3 DEF Counted

\* The steps that leave the frontier and the records of failures alone.
LEMMA CountedRests ==
    ASSUME Typed, Counted, UNCHANGED <<record, session, sessions, tries, again>>,
           todo' \subseteq todo, seen' = seen,
           \A w \in Worker : job'[w].step # "none" => session # "none"
    PROVE  Counted'
<1>1. \A v \in URL : Spent(v)' = Spent(v) /\ Budget(v)' = Budget(v)
  BY BoundsStay
<1>2. QED
  BY <1>1 DEF Counted

LEMMA CountedStep == Typed /\ Counted /\ [Next]_vars => Counted'
<1> SUFFICES ASSUME Typed, Counted, [Next]_vars PROVE Counted'
  OBVIOUS
<1> USE DEF storeVars, sessionVars, historyVars
<1>1. ASSUME NEW w \in Worker, NEW u \in todo,
             \/ \E code \in Code, c \in Content : FetchOK(w, u, code, c)
             \/ \E code \in Code : FetchUnstored(w, u, code)
             \/ NotFetched(w, u)
      PROVE  Counted'
  <2>1. session # "none"
    BY DEF Counted
  <2>2. /\ UNCHANGED <<record, session, sessions, tries, again>>
        /\ todo' \subseteq todo /\ seen' = seen
    BY <1>1 DEF FetchOK, FetchUnstored, NotFetched
  <2>3. QED
    BY <2>1, <2>2, CountedRests
<1>2. ASSUME NEW w \in Worker, PutFetchMeta(w) \/ PutContentMeta(w) \/ Finish(w)
      PROVE  Counted'
  <2>1. session # "none"
    BY <1>2 DEF PutFetchMeta, PutContentMeta, Finish, Counted
  <2>2. /\ UNCHANGED <<record, session, sessions, tries, again>>
        /\ todo' \subseteq todo /\ seen' = seen
    BY <1>2 DEF PutFetchMeta, PutContentMeta, Finish
  <2>3. QED
    BY <2>1, <2>2, CountedRests
<1>3. CASE EndSession \/ Crash
  <2>1. /\ session' = "none" /\ todo' = {} /\ \A w \in Worker : job'[w].step = "none"
        /\ UNCHANGED <<record, sessions, again>>
    BY <1>3 DEF EndSession, Crash, NoJob
  <2>2. \A v \in URL : Budget(v)' = Budget(v)
    BY <2>1, BoundsStay
  <2>3. QED
    BY <2>1, <2>2 DEF Counted
<1>4. CASE Tick \/ UNCHANGED vars
  <2>1. /\ UNCHANGED <<record, session, sessions, tries, again, todo, seen, job>>
    BY <1>4 DEF Tick, vars
  <2>2. \A w \in Worker : job'[w].step # "none" => session # "none"
    BY <2>1 DEF Counted
  <2>3. QED
    BY <2>1, <2>2, CountedRests
<1>5. QED
  BY <1>1, <1>2, <1>3, <1>4, CountedFetch, CountedLink, CountedRecord, CountedStart
     DEF Next, WorkerStep

\* A session counts at most MAX_RETRY_COUNT failures of a page, and as many again
\* each time a link brings it back after a timeout: the frontier lets a page in
\* once, or again with a new count after a timeout, and each try that fails uses
\* up one of its retries (frontier.cpp 57-73, engine.cpp 366-396,
\* rocksdb_store.cpp 555-601).
THEOREM FailuresPerSessionHolds == Spec => []FailuresPerSession
<1>1. Typed /\ Counted => FailuresPerSession
  BY DEF Counted, Budget, FailuresPerSession
<1>2. QED
  BY <1>1, TypedInit, TypedStep, CountedInit, CountedStep, PTL DEF Spec

(***************************************************************************)
(* When a page is due again.                                               *)
(***************************************************************************)

\* No record is dated after the last fetch of its page, and each holds a
\* next time; while a page is written the clock stands at its fetch.
Dated ==
    /\ \A u \in URL :
         /\ touched[u] <= now
         /\ fetch_meta[u] <= touched[u]
         /\ record[u].last <= touched[u]
         /\ record[u].last = 0 => record[u].next = 0
         /\ record[u].last # 0 =>
              record[u].next \in record[u].last + OneHour .. record[u].last + Longest
    /\ \A w \in Worker :
         job[w].step # "none" => session # "none" /\ touched[job[w].url] = now

LEMMA MaxOfTwo ==
    ASSUME NEW n \in Nat
    PROVE  Max({n, 1}) \in Nat
<1>1. \E x \in {n, 1} : \A y \in {n, 1} : x >= y
  <2>1. CASE n >= 1
    BY <2>1
  <2>2. CASE ~(n >= 1)
    BY <2>2
  <2>3. QED
    BY <2>1, <2>2
<1>2. (CHOOSE x \in {n, 1} : \A y \in {n, 1} : x >= y) \in {n, 1}
  BY <1>1
<1>3. QED
  BY <1>2 DEF Max

\* A document that has no record is due within the longest interval of its
\* fetch, whatever defaults are taken for what is missing.
LEMMA DefaultDue ==
    ASSUME Typed, NEW u \in URL, record[u].last = 0, record[u].next = 0,
           fetch_meta[u] # 0
    PROVE  NextCrawl(u) \in fetch_meta[u] + OneHour .. fetch_meta[u] + Longest
<1> DEFINE n == Max({record[u].failures, 1})
           r == Rate(u)
           p == UrlPriorityScore(u)
           b == ComputeFailureBackoff(n)
           i == ComputeBaseRecrawlInterval(r, p)
           f == fetch_meta[u]
           retry == IsRetryableStatus(Status(u))
<1>1. record[u].failures \in Nat /\ record[u].rate \in Int /\ f \in Nat
  BY DEF Typed, Records
<1>2. b \in OneHour .. Longest
  <2>1. n \in Nat
    BY <1>1, MaxOfTwo
  <2> HIDE DEF n
  <2>2. QED
    BY <2>1, BackoffIn
<1>3. i \in OneHour .. Longest
  <2>1. r \in Int
    BY <1>1, RecrawlAssumption DEF Rate
  <2>2. p \in Int
    BY PriorityIn
  <2> HIDE DEF r, p
  <2>3. QED
    BY <2>1, <2>2, IntervalIn
<1>4. LastCrawl(u) = f
  BY DEF LastCrawl
<1>5. NextCrawl(u) = f + IF retry THEN b ELSE i
  BY <1>4 DEF NextCrawl
<1> HIDE DEF b, i, f, retry
<1>6. f + (IF retry THEN b ELSE i) \in f + OneHour .. f + Longest
  BY <1>1, <1>2, <1>3 DEF OneHour, Longest
<1>7. QED
  BY <1>5, <1>6 DEF f

LEMMA DatedInit == Init => Dated
<1> SUFFICES ASSUME Init PROVE Dated
  OBVIOUS
<1>1. \A u \in URL : record[u].last = 0 /\ record[u].next = 0
  BY DEF Init, NoRecord
<1>2. \A u \in URL : touched[u] = fetch_meta[u] /\ fetch_meta[u] \in {0, 1} /\ now = 1
  BY DEF Init
<1>3. \A w \in Worker : job[w].step = "none"
  BY DEF Init, NoJob
<1>4. QED
  BY <1>1, <1>2, <1>3 DEF Dated

\* A page that is fetched now and whose record, if it is written, is of now.
LEMMA DatedFetch ==
    ASSUME Typed, Dated, NEW u \in URL,
           now' = now, fetch_meta' = fetch_meta, session' = session,
           touched' = [touched EXCEPT ![u] = now],
           record' = record \/ \E failed \in BOOLEAN : Renewed(u, failed),
           session # "none",
           \A w \in Worker : \/ job'[w].step = "none"
                             \/ job'[w].url = u
                             \/ job'[w].url = job[w].url /\ job[w].step # "none"
    PROVE  Dated'
<1>1. now \in Nat \ {0} /\ touched' \in [URL -> Nat] /\ touched'[u] = now
      /\ \A v \in URL : v # u => touched'[v] = touched[v]
  BY DEF Typed
<1>2. \A v \in URL : touched[v] <= touched'[v] /\ touched'[v] <= now
  BY <1>1 DEF Dated, Typed
<1>3. \A v \in URL : touched[v] \in Nat /\ touched'[v] \in Nat /\ fetch_meta[v] \in Nat
                     /\ record[v].last \in Nat
  BY <1>1 DEF Typed, Records
<1>4. \A v \in URL : fetch_meta'[v] <= touched'[v]
  BY <1>2, <1>3 DEF Dated
<1>5. \A v \in URL :
        /\ record'[v].last <= touched'[v]
        /\ record'[v].last = 0 => record'[v].next = 0
        /\ record'[v].last # 0 =>
             record'[v].next \in record'[v].last + OneHour .. record'[v].last + Longest
  <2> SUFFICES ASSUME NEW v \in URL
               PROVE  /\ record'[v].last <= touched'[v]
                      /\ record'[v].last = 0 => record'[v].next = 0
                      /\ record'[v].last # 0 =>
                           record'[v].next \in record'[v].last + OneHour
                                                .. record'[v].last + Longest
    OBVIOUS
  <2>1. CASE record'[v] = record[v]
    BY <1>2, <1>3, <2>1 DEF Dated
  <2>2. CASE v = u /\ \E failed \in BOOLEAN : Renewed(u, failed)
    BY <1>1, <2>2 DEF Renewed
  <2>3. record'[v] = record[v] \/ (v = u /\ \E failed \in BOOLEAN : Renewed(u, failed))
    BY DEF Renewed
  <2>4. QED
    BY <2>1, <2>2, <2>3
<1>6. ASSUME NEW w \in Worker, job'[w].step # "none"
      PROVE  session' # "none" /\ touched'[job'[w].url] = now'
  <2>1. CASE job'[w].url = u
    BY <1>1, <2>1
  <2>2. CASE job'[w].url = job[w].url /\ job[w].step # "none"
    <3>1. job[w].url \in URL /\ touched[job[w].url] = now
      BY <2>2 DEF Dated, Typed
    <3>2. QED
      BY <1>1, <2>2, <3>1
  <2>3. QED
    BY <1>6, <2>1, <2>2
<1>7. QED
  BY <1>2, <1>4, <1>5, <1>6 DEF Dated

\* The steps of a worker, while the clock stands.
LEMMA DatedWorkerStep ==
    ASSUME Typed, Dated, session = "none" => todo = {}, NEW w \in Worker, WorkerStep(w)
    PROVE  Dated'
<1> USE DEF storeVars, sessionVars, historyVars
<1>1. ASSUME NEW u \in todo, NEW code \in Code, NEW c \in Content, FetchOK(w, u, code, c)
      PROVE  Dated'
  <2>1. u \in URL /\ session # "none"
    BY DEF Typed
  <2> DEFINE j == [url |-> u, hash |-> c, step |-> "fetch_meta", changed |-> FALSE]
  <2>2. /\ UNCHANGED <<now, fetch_meta, session, record>>
        /\ touched' = [touched EXCEPT ![u] = now]
        /\ job' = [job EXCEPT ![w] = j] /\ j.url = u
    BY <1>1 DEF FetchOK
  <2> HIDE DEF j
  <2>3. \A x \in Worker : job'[x] = job[x] \/ job'[x].url = u
    BY <2>2 DEF Typed
  <2>4. QED
    BY <2>1, <2>2, <2>3, DatedFetch
<1>2. ASSUME NEW u \in todo, NEW code \in Code,
             FetchUnstored(w, u, code) \/ FetchTerminal(w, u, code)
             \/ FetchRetryable(w, u, code)
      PROVE  Dated'
  <2>1. u \in URL /\ session # "none"
    BY DEF Typed
  <2>2. /\ UNCHANGED <<now, fetch_meta, session, job>>
        /\ touched' = [touched EXCEPT ![u] = now]
    BY <1>2 DEF FetchUnstored, FetchTerminal, FetchRetryable
  <2>3. record' = record \/ \E failed \in BOOLEAN : Renewed(u, failed)
    <3>1. CASE FetchUnstored(w, u, code)
      BY <3>1 DEF FetchUnstored
    <3>2. CASE FetchTerminal(w, u, code) \/ FetchRetryable(w, u, code)
      <4>1. IsRetryableStatus(code) \in BOOLEAN
        BY DEF IsRetryableStatus
      <4>2. QED
        BY <3>2, <4>1, FetchRenews
    <3>3. QED
      BY <1>2, <3>1, <3>2
  <2>4. QED
    BY <2>1, <2>2, <2>3, DatedFetch
<1>3. CASE PutFetchMeta(w)
  <2>1. /\ job[w].step = "fetch_meta"
        /\ fetch_meta' = [fetch_meta EXCEPT ![job[w].url] = now]
        /\ UNCHANGED <<now, record, session, touched>>
    BY <1>3 DEF PutFetchMeta
  <2>2. job[w].url \in URL /\ session # "none" /\ touched[job[w].url] = now
    BY <2>1 DEF Typed, Dated
  <2>3. \A u \in URL : fetch_meta'[u] <= touched[u]
    BY <2>1, <2>2 DEF Typed, Dated
  <2>4. \A x \in Worker : job'[x].url = job[x].url /\ (x # w => job'[x] = job[x])
    BY <1>3, JobStep DEF Typed
  <2>5. QED
    BY <2>1, <2>2, <2>3, <2>4 DEF Dated
<1>4. CASE PutContentMeta(w)
  <2>1. /\ job[w].step = "content"
        /\ UNCHANGED <<now, fetch_meta, record, session, touched>>
    BY <1>4 DEF PutContentMeta
  <2>2. session # "none" /\ touched[job[w].url] = now
    BY <2>1 DEF Dated
  <2>3. \A x \in Worker : job'[x].url = job[x].url /\ (x # w => job'[x] = job[x])
    BY <1>4, JobStep DEF Typed
  <2>4. QED
    BY <2>1, <2>2, <2>3 DEF Dated
<1>5. CASE Record(w)
  <2> DEFINE u == job[w].url
  <2>1. job[w].step = "record" /\ UNCHANGED <<now, fetch_meta, session, touched>>
    BY <1>5 DEF Record
  <2>2. u \in URL /\ session # "none" /\ touched[u] = now /\ Renewed(u, FALSE)
    BY <1>5, <2>1, RecordRenews DEF Dated
  <2>3. \A x \in Worker : job'[x].url = job[x].url /\ (x # w => job'[x] = job[x])
    BY <1>5, JobStep DEF Typed
  <2> HIDE DEF u
  <2>4. touched' = [touched EXCEPT ![u] = now]
    BY <2>1, <2>2 DEF Typed
  <2>5. \A x \in Worker : \/ job'[x].step = "none"
                          \/ job'[x].url = u
                          \/ job'[x].url = job[x].url /\ job[x].step # "none"
    BY <2>1, <2>3
  <2>6. QED
    BY <2>1, <2>2, <2>4, <2>5, DatedFetch
<1>6. CASE Finish(w)
  <2>1. /\ UNCHANGED <<now, fetch_meta, record, session, touched>>
        /\ job' = [job EXCEPT ![w] = NoJob] /\ NoJob.step = "none"
    BY <1>6 DEF Finish, NoJob
  <2>2. \A x \in Worker : job'[x].step = "none" \/ job'[x] = job[x]
    BY <2>1 DEF Typed
  <2>3. QED
    BY <2>1, <2>2 DEF Dated
<1>7. CASE (\E u \in todo : NotFetched(w, u)) \/ (\E u \in URL : FindLink(w, u))
  <2>1. UNCHANGED <<now, fetch_meta, record, session, job, touched>>
    BY <1>7 DEF NotFetched, FindLink
  <2>2. QED
    BY <2>1 DEF Dated
<1>8. QED
  BY <1>1, <1>2, <1>3, <1>4, <1>5, <1>6, <1>7 DEF WorkerStep

LEMMA DatedStep == Typed /\ Dated /\ (session = "none" => todo = {}) /\ [Next]_vars => Dated'
<1> SUFFICES ASSUME Typed, Dated, session = "none" => todo = {}, [Next]_vars
             PROVE  Dated'
  OBVIOUS
<1> USE DEF storeVars, sessionVars, historyVars
<1>1. CASE StartSession
  <2>1. session = "none" /\ UNCHANGED <<now, fetch_meta, record, job, touched>>
    BY <1>1 DEF StartSession
  <2>2. QED
    BY <2>1 DEF Dated
<1>2. CASE EndSession \/ Crash
  <2>1. /\ \A w \in Worker : job'[w].step = "none"
        /\ UNCHANGED <<now, fetch_meta, record, touched>>
    BY <1>2 DEF EndSession, Crash, NoJob
  <2>2. QED
    BY <2>1 DEF Dated
<1>3. CASE Tick
  <2>1. /\ session = "none" /\ UNCHANGED <<fetch_meta, record, session, job, touched>>
        /\ now' \in Nat /\ now <= now'
    BY <1>3, RecrawlAssumption DEF Tick, Typed
  <2>2. \A u \in URL : touched[u] <= now'
    BY <2>1 DEF Typed, Dated
  <2>3. QED
    BY <2>1, <2>2 DEF Dated
<1>4. CASE UNCHANGED vars
  BY <1>4 DEF vars, Dated
<1>5. QED
  BY <1>1, <1>2, <1>3, <1>4, DatedWorkerStep DEF Next

LEMMA DatedImplies == Typed /\ Dated => NeverForgotten
<1> SUFFICES ASSUME Typed, Dated, NEW u \in doc
             PROVE  /\ NextCrawl(u) <= touched[u] + Longest
                    /\ record[u].last = touched[u] /\ touched[u] # 0
                         => NextCrawl(u) >= touched[u] + OneHour
  BY DEF NeverForgotten
<1>1. /\ u \in URL /\ touched[u] \in Nat /\ fetch_meta[u] \in Nat
      /\ record[u].last \in Nat /\ record[u].next \in Nat
  BY DEF Typed, Records
<1>2. /\ fetch_meta[u] <= touched[u] /\ record[u].last <= touched[u]
      /\ record[u].last = 0 => record[u].next = 0
      /\ record[u].last # 0 =>
           record[u].next \in record[u].last + OneHour .. record[u].last + Longest
  BY <1>1 DEF Dated
<1>3. CASE record[u].last # 0
  <2>1. NextCrawl(u) = record[u].next
    BY <1>1, <1>2, <1>3 DEF NextCrawl, OneHour
  <2>2. QED
    BY <1>1, <1>2, <1>3, <2>1 DEF OneHour, Longest
<1>4. CASE record[u].last = 0 /\ fetch_meta[u] # 0
  <2>1. NextCrawl(u) \in fetch_meta[u] + OneHour .. fetch_meta[u] + Longest
    BY <1>1, <1>2, <1>4, DefaultDue
  <2>2. QED
    BY <1>1, <1>2, <1>4, <2>1 DEF OneHour, Longest
<1>5. CASE record[u].last = 0 /\ fetch_meta[u] = 0
  <2>1. NextCrawl(u) = 0
    BY <1>2, <1>5 DEF NextCrawl, LastCrawl
  <2>2. QED
    BY <1>1, <1>5, <2>1 DEF Longest
<1>6. QED
  BY <1>3, <1>4, <1>5

\* Whatever a page answered and wherever the process died, a stored page is
\* due again at most 14 days after its last fetch and, if that fetch was
\* recorded, not before an hour has passed (rocksdb_store.cpp 449-470 and
\* 555-601).
THEOREM NeverForgottenHolds == Spec => []NeverForgotten
<1>1. Counted => (session = "none" => todo = {})
  BY DEF Counted
<1>2. QED
  BY <1>1, TypedInit, TypedStep, CountedInit, CountedStep, DatedInit, DatedStep,
     DatedImplies, PTL DEF Spec
=============================================================================
