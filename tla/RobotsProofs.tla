---------------------------- MODULE RobotsProofs ----------------------------
(***************************************************************************)
(* What Robots.tla promises holds for every set of pages, links and        *)
(* robots.txt files and every finite set of workers.  Of the rules only    *)
(* one thing is used: empty rules permit everything.                       *)
(***************************************************************************)
EXTENDS Robots, FiniteSetTheorems, TLAPS

(***************************************************************************)
(* Types.                                                                  *)
(***************************************************************************)

ItemOK == \A w \in Worker : pc[w] # "loop" => item[w] \in URL

Typed == TypeOK /\ ItemOK

LEMMA HostOfURL == \A u \in URL : ExtractHost(u) \in Host
BY DEF Host

LEMMA TypedInit == Init => Typed
BY RobotsAssumption, UnknownAssumption DEF Init, Typed, TypeOK, ItemOK

LEMMA TypedStep == Typed /\ [Next]_vars => Typed'
<1> SUFFICES ASSUME Typed, [Next]_vars PROVE Typed'
  OBVIOUS
<1> USE RobotsAssumption, UnknownAssumption, HostOfURL DEF Typed, TypeOK, ItemOK
<1>1. ASSUME NEW w \in Worker, NEW u \in queued, Take(w, u) PROVE Typed'
  <2>1. requests' \in [Host -> Nat]
    BY <1>1 DEF Take
  <2>2. QED
    BY <1>1, <2>1 DEF Take, urlVars
<1>2. ASSUME NEW w \in Worker, RobotsServed(w) PROVE Typed'
  BY <1>2 DEF RobotsServed, historyVars, urlVars
<1>3. ASSUME NEW w \in Worker, RobotsRefused(w) PROVE Typed'
  BY <1>3 DEF RobotsRefused, urlVars
<1>4. ASSUME NEW w \in Worker, UpdateRobots(w) PROVE Typed'
  BY <1>4 DEF UpdateRobots, historyVars, urlVars
<1>5. ASSUME NEW w \in Worker, Allowed(w) PROVE Typed'
  BY <1>5 DEF Allowed, historyVars, urlVars
<1>6. ASSUME NEW w \in Worker, MarkDisallowed(w) PROVE Typed'
  BY <1>6 DEF MarkDisallowed, historyVars
<1>7. ASSUME NEW w \in Worker, Fetch(w) PROVE Typed'
  BY <1>7 DEF Fetch, historyVars
<1>8. ASSUME NEW w \in Worker, Retry(w) PROVE Typed'
  BY <1>8 DEF Retry, historyVars
<1>9. ASSUME NEW w \in Worker, NEW u \in links[w], AddLink(w, u) PROVE Typed'
  BY <1>9 DEF AddLink, urlVars
<1>10. ASSUME NEW w \in Worker, MarkFetched(w) PROVE Typed'
  BY <1>10 DEF MarkFetched, historyVars, urlVars
<1>11. CASE UNCHANGED vars
  BY <1>11 DEF vars, workerVars, urlVars, historyVars
<1>12. QED
  BY <1>1, <1>2, <1>3, <1>4, <1>5, <1>6, <1>7, <1>8, <1>9, <1>10, <1>11
     DEF Next, Done, WorkerStep

\* The variables of the workers, the cache and the frontier keep their types,
\* and a worker holds parsed rules exactly while it has to store them.
THEOREM RobotsTypeCorrect == Spec => []TypeOK
<1>1. Typed => TypeOK
  BY DEF Typed
<1>2. QED
  BY <1>1, TypedInit, TypedStep, PTL DEF Spec

LEMMA TypedAlways == Spec => []Typed
BY TypedInit, TypedStep, PTL DEF Spec

(***************************************************************************)
(* What the cache holds, and what a worker has checked.                    *)
(***************************************************************************)

Settled(h, rules) ==
    rules = ServedRules(h) \/ (rules = NoRules /\ h \in refused)

CacheSettled == \A h \in Host : cache[h] = Unknown \/ Settled(h, cache[h])

GotSettled ==
    \A w \in Worker : pc[w] = "update" => Settled(ExtractHost(item[w]), got[w])

CheckedHasRules == \A w \in Worker : pc[w] = "check" => HasRulesForUrl(item[w])

Excused(u) == FileForbids(u) => ExtractHost(u) \in refused

ToFetchExcused == \A w \in Worker : pc[w] = "fetch" => Excused(item[w])

Obedient ==
    /\ CacheSettled
    /\ GotSettled
    /\ CheckedHasRules
    /\ ToFetchExcused
    /\ ObeysRobots
    /\ BlocksOnlyForbidden

LEMMA NoRulesPermit == ASSUME NEW u PROVE CanFetch(NoRules, u)
<1> DEFINE path == ExtractPath(u)
<1>1. Longest(path, {}) = -1
  <2>1. {Len(r) : r \in {x \in {} : RobotsMatch(path, x)}} = {}
    OBVIOUS
  <2>2. Longest(path, {}) = Max({-1})
    BY <2>1 DEF Longest
  <2>3. Max({-1}) = -1
    BY DEF Max
  <2>4. QED
    BY <2>2, <2>3
<1>2. QED
  BY <1>1 DEF CanFetch, NoRules

\* With settled rules the decision errs only in favour of the page, and only
\* after a failed request.
LEMMA Decision ==
    ASSUME Typed, CacheSettled, NEW u \in URL
    PROVE  /\ Permits(u) /\ HasRulesForUrl(u) => Excused(u)
           /\ ~Permits(u) => FileForbids(u)
<1>1. cache[ExtractHost(u)] = Unknown \/ Settled(ExtractHost(u), cache[ExtractHost(u)])
  BY HostOfURL DEF CacheSettled
<1>2. CASE cache[ExtractHost(u)] = Unknown
  BY <1>2 DEF Permits, HasRulesForUrl
<1>3. CASE cache[ExtractHost(u)] = ServedRules(ExtractHost(u))
  BY <1>3 DEF Permits, HasRulesForUrl, Excused, FileForbids
<1>4. CASE cache[ExtractHost(u)] = NoRules /\ ExtractHost(u) \in refused
  BY <1>4, NoRulesPermit DEF Permits, HasRulesForUrl, Excused
<1>5. QED
  BY <1>1, <1>2, <1>3, <1>4 DEF Settled

\* A step disturbs at most what its worker and its host have.
LEMMA ObedientStep == Typed /\ Typed' /\ Obedient /\ [Next]_vars => Obedient'
<1> SUFFICES ASSUME Typed, Typed', Obedient, [Next]_vars PROVE Obedient'
  OBVIOUS
<1> USE HostOfURL, UnknownAssumption DEF Obedient
<1>1. ASSUME NEW w \in Worker, NEW u \in queued, Take(w, u) PROVE Obedient'
  <2> USE <1>1 DEF Take, urlVars, Typed, TypeOK
  <2>1. CacheSettled' /\ ObeysRobots' /\ BlocksOnlyForbidden'
    BY DEF CacheSettled, Settled, ObeysRobots, BlocksOnlyForbidden
  <2>2. GotSettled'
    BY DEF GotSettled, Settled
  <2>3. CheckedHasRules'
    BY DEF CheckedHasRules, HasRulesForUrl
  <2>4. ToFetchExcused'
    BY DEF ToFetchExcused, Excused
  <2>5. QED
    BY <2>1, <2>2, <2>3, <2>4
<1>2. ASSUME NEW w \in Worker, RobotsServed(w) PROVE Obedient'
  <2> USE <1>2 DEF RobotsServed, urlVars, historyVars, Typed, TypeOK
  <2>1. CacheSettled' /\ ObeysRobots' /\ BlocksOnlyForbidden'
    BY DEF CacheSettled, Settled, ObeysRobots, BlocksOnlyForbidden
  <2>2. GotSettled'
    BY DEF GotSettled, Settled
  <2>3. CheckedHasRules' /\ ToFetchExcused'
    BY DEF CheckedHasRules, HasRulesForUrl, ToFetchExcused, Excused
  <2>4. QED
    BY <2>1, <2>2, <2>3
<1>3. ASSUME NEW w \in Worker, RobotsRefused(w) PROVE Obedient'
  <2> USE <1>3 DEF RobotsRefused, urlVars, Typed, TypeOK
  <2>1. CacheSettled' /\ ObeysRobots' /\ BlocksOnlyForbidden'
    BY DEF CacheSettled, Settled, ObeysRobots, BlocksOnlyForbidden
  <2>2. GotSettled'
    BY DEF GotSettled, Settled
  <2>3. CheckedHasRules' /\ ToFetchExcused'
    BY DEF CheckedHasRules, HasRulesForUrl, ToFetchExcused, Excused
  <2>4. QED
    BY <2>1, <2>2, <2>3
<1>4. ASSUME NEW w \in Worker, UpdateRobots(w) PROVE Obedient'
  <2> USE <1>4 DEF UpdateRobots, urlVars, historyVars
  <2>1. item[w] \in URL /\ Settled(ExtractHost(item[w]), got[w])
    BY DEF GotSettled, Typed, ItemOK
  <2>2. got[w] # Unknown
    BY DEF Typed, TypeOK
  <2>3. CacheSettled'
    BY <2>1 DEF CacheSettled, Settled, Typed, TypeOK
  <2>4. ObeysRobots' /\ BlocksOnlyForbidden'
    BY DEF ObeysRobots, BlocksOnlyForbidden
  <2>5. GotSettled' /\ ToFetchExcused'
    BY DEF GotSettled, Settled, ToFetchExcused, Excused, Typed, TypeOK
  <2>6. CheckedHasRules'
    BY <2>1, <2>2 DEF CheckedHasRules, HasRulesForUrl, Typed, TypeOK, ItemOK
  <2>7. QED
    BY <2>3, <2>4, <2>5, <2>6
<1>5. ASSUME NEW w \in Worker, Allowed(w) PROVE Obedient'
  <2> USE <1>5 DEF Allowed, urlVars, historyVars
  <2>1. CacheSettled' /\ ObeysRobots' /\ BlocksOnlyForbidden'
    BY DEF CacheSettled, Settled, ObeysRobots, BlocksOnlyForbidden
  <2>2. GotSettled' /\ CheckedHasRules'
    BY DEF GotSettled, Settled, CheckedHasRules, HasRulesForUrl, Typed, TypeOK
  <2>3. Excused(item[w])
    BY Decision DEF Typed, ItemOK, CheckedHasRules
  <2>4. ToFetchExcused'
    BY <2>3 DEF ToFetchExcused, Excused, Typed, TypeOK
  <2>5. QED
    BY <2>1, <2>2, <2>4
<1>6. ASSUME NEW w \in Worker, MarkDisallowed(w) PROVE Obedient'
  <2> USE <1>6 DEF MarkDisallowed, historyVars
  <2>1. CacheSettled' /\ ObeysRobots'
    BY DEF CacheSettled, Settled, ObeysRobots
  <2>2. GotSettled' /\ CheckedHasRules' /\ ToFetchExcused'
    BY DEF GotSettled, Settled, CheckedHasRules, HasRulesForUrl, ToFetchExcused,
           Excused, Typed, TypeOK
  <2>3. FileForbids(item[w])
    BY Decision DEF Typed, ItemOK
  <2>4. BlocksOnlyForbidden'
    BY <2>3 DEF BlocksOnlyForbidden
  <2>5. QED
    BY <2>1, <2>2, <2>4
<1>7. ASSUME NEW w \in Worker, Fetch(w) \/ Retry(w) PROVE Obedient'
  <2> USE <1>7 DEF Fetch, Retry, historyVars
  <2>1. CacheSettled' /\ BlocksOnlyForbidden'
    BY DEF CacheSettled, Settled, BlocksOnlyForbidden
  <2>2. GotSettled' /\ CheckedHasRules' /\ ToFetchExcused'
    BY DEF GotSettled, Settled, CheckedHasRules, HasRulesForUrl, ToFetchExcused,
           Excused, Typed, TypeOK
  <2>3. Excused(item[w])
    BY DEF ToFetchExcused
  <2>4. ObeysRobots'
    BY <2>3 DEF ObeysRobots, Excused
  <2>5. QED
    BY <2>1, <2>2, <2>4
<1>8. ASSUME NEW w \in Worker, NEW u \in links[w], AddLink(w, u) PROVE Obedient'
  <2> USE <1>8 DEF AddLink, urlVars
  <2>1. CacheSettled' /\ ObeysRobots'
    BY DEF CacheSettled, Settled, ObeysRobots
  <2>2. GotSettled' /\ CheckedHasRules' /\ ToFetchExcused'
    BY DEF GotSettled, Settled, CheckedHasRules, HasRulesForUrl, ToFetchExcused, Excused
  <2>3. ~Permits(u) => FileForbids(u)
    BY Decision DEF Typed, TypeOK
  <2>4. BlocksOnlyForbidden'
    BY <2>3 DEF BlocksOnlyForbidden
  <2>5. QED
    BY <2>1, <2>2, <2>4
<1>9. ASSUME NEW w \in Worker, MarkFetched(w) PROVE Obedient'
  <2> USE <1>9 DEF MarkFetched, historyVars, urlVars
  <2>1. CacheSettled' /\ ObeysRobots' /\ BlocksOnlyForbidden'
    BY DEF CacheSettled, Settled, ObeysRobots, BlocksOnlyForbidden
  <2>2. GotSettled' /\ CheckedHasRules' /\ ToFetchExcused'
    BY DEF GotSettled, Settled, CheckedHasRules, HasRulesForUrl, ToFetchExcused,
           Excused, Typed, TypeOK
  <2>3. QED
    BY <2>1, <2>2
<1>10. CASE UNCHANGED vars
  BY <1>10 DEF vars, workerVars, urlVars, historyVars, CacheSettled, Settled, GotSettled,
     CheckedHasRules, HasRulesForUrl, ToFetchExcused, Excused, ObeysRobots, BlocksOnlyForbidden
<1>11. QED
  BY <1>1, <1>2, <1>3, <1>4, <1>5, <1>6, <1>7, <1>8, <1>9, <1>10
     DEF Next, Done, WorkerStep

LEMMA ObedientInit == Init => Obedient
BY DEF Init, Obedient, CacheSettled, GotSettled, CheckedHasRules, ToFetchExcused,
   ObeysRobots, BlocksOnlyForbidden

LEMMA ObedientAlways == Spec => []Obedient
BY TypedAlways, ObedientInit, ObedientStep, PTL DEF Spec

\* A forbidden page is requested only after a failed request of the host's
\* robots.txt (engine.cpp 96-117).
THEOREM ObeysRobotsHolds == Spec => []ObeysRobots
<1>1. Obedient => ObeysRobots
  BY DEF Obedient
<1>2. QED
  BY <1>1, ObedientAlways, PTL

\* Only what the host forbids is marked disallowed or left out of the frontier
\* (engine.cpp 113-116 and 322-326).
THEOREM BlocksOnlyForbiddenHolds == Spec => []BlocksOnlyForbidden
<1>1. Obedient => BlocksOnlyForbidden
  BY DEF Obedient
<1>2. QED
  BY <1>1, ObedientAlways, PTL

(***************************************************************************)
(* Requests of robots.txt: as long as a host has no rules, every request   *)
(* of them is still in the hands of the worker that made it.               *)
(***************************************************************************)

Asking(h) ==
    {w \in Worker : pc[w] \in {"robots", "update"} /\ ExtractHost(item[w]) = h}

RequestsCounted ==
    \A h \in Host :
        /\ requests[h] <= Cardinality(Worker)
        /\ cache[h] = Unknown => requests[h] = Cardinality(Asking(h))

LEMMA AskingFinite ==
    \A h : /\ IsFiniteSet(Asking(h))
           /\ Cardinality(Asking(h)) \in Nat
           /\ Cardinality(Asking(h)) <= Cardinality(Worker)
           /\ Cardinality(Worker) \in Nat
<1>1. \A h : Asking(h) \subseteq Worker
  BY DEF Asking
<1>2. QED
  BY <1>1, FS_Subset, FS_CardinalityType, RobotsAssumption

LEMMA RequestsInit == Init => RequestsCounted
<1> SUFFICES ASSUME Init PROVE RequestsCounted
  OBVIOUS
<1>1. \A h : Asking(h) = {}
  BY DEF Init, Asking
<1>2. Cardinality({}) = 0
  BY FS_EmptySet
<1>3. Cardinality(Worker) \in Nat
  BY FS_CardinalityType, RobotsAssumption
<1>4. QED
  BY <1>1, <1>2, <1>3 DEF Init, RequestsCounted

\* A step after which the same workers ask, of hosts that have no rules, and
\* that requests nothing.
LEMMA SameRequests ==
    ASSUME RequestsCounted, requests' = requests,
           \A h \in Host : cache'[h] = Unknown => cache[h] = Unknown /\ Asking(h)' = Asking(h)
    PROVE  RequestsCounted'
BY DEF RequestsCounted

LEMMA RequestsStep == Typed /\ Typed' /\ RequestsCounted /\ [Next]_vars => RequestsCounted'
<1> SUFFICES ASSUME Typed, Typed', RequestsCounted, [Next]_vars PROVE RequestsCounted'
  OBVIOUS
<1> USE HostOfURL
<1>1. ASSUME NEW w \in Worker, NEW u \in queued, Take(w, u), HasRulesForUrl(u)
      PROVE  RequestsCounted'
  <2>1. \A h \in Host : Asking(h)' = Asking(h)
    BY <1>1 DEF Take, Asking, Typed, TypeOK
  <2>2. QED
    BY <1>1, <2>1, SameRequests DEF Take
<1>2. ASSUME NEW w \in Worker, NEW u \in queued, Take(w, u), ~HasRulesForUrl(u)
      PROVE  RequestsCounted'
  <2> DEFINE g == ExtractHost(u)
  <2>1. g \in Host /\ cache[g] = Unknown /\ requests[g] = Cardinality(Asking(g))
    BY <1>2 DEF HasRulesForUrl, RequestsCounted, Typed, TypeOK
  <2>2. w \notin Asking(g) /\ Asking(g)' = Asking(g) \cup {w}
    BY <1>2 DEF Take, Asking, Typed, TypeOK
  <2>3. \A h \in Host : h # g => Asking(h)' = Asking(h)
    BY <1>2 DEF Take, Asking, Typed, TypeOK
  <2>4. Cardinality(Asking(g)') = Cardinality(Asking(g)) + 1
    BY <2>2, AskingFinite, FS_AddElement
  <2>5. Cardinality(Asking(g)') <= Cardinality(Worker)
    <3>1. Asking(g)' \subseteq Worker
      BY DEF Asking
    <3>2. QED
      BY <3>1, FS_Subset, RobotsAssumption
  <2>6. requests' = [requests EXCEPT ![g] = @ + 1] /\ cache' = cache
    BY <1>2 DEF Take
  <2>7. QED
    BY <2>1, <2>3, <2>4, <2>5, <2>6 DEF RequestsCounted, Typed, TypeOK
<1>3. ASSUME NEW w \in Worker, RobotsServed(w) PROVE RequestsCounted'
  <2>1. \A h \in Host : Asking(h)' = Asking(h)
    BY <1>3 DEF RobotsServed, Asking, Typed, TypeOK
  <2>2. QED
    BY <1>3, <2>1, SameRequests DEF RobotsServed, historyVars
<1>4. ASSUME NEW w \in Worker, RobotsRefused(w) PROVE RequestsCounted'
  <2>1. \A h \in Host : Asking(h)' = Asking(h)
    BY <1>4 DEF RobotsRefused, Asking, Typed, TypeOK
  <2>2. QED
    BY <1>4, <2>1, SameRequests DEF RobotsRefused
<1>5. ASSUME NEW w \in Worker, UpdateRobots(w) PROVE RequestsCounted'
  <2> USE <1>5 DEF UpdateRobots, historyVars
  <2>1. got[w] # Unknown /\ ExtractHost(item[w]) \in Host
    BY DEF Typed, TypeOK, ItemOK
  <2>2. cache'[ExtractHost(item[w])] # Unknown
    BY <2>1 DEF Typed, TypeOK
  <2>3. \A h \in Host : h # ExtractHost(item[w]) =>
            cache'[h] = cache[h] /\ Asking(h)' = Asking(h)
    BY DEF Asking, Typed, TypeOK
  <2>4. QED
    BY <2>2, <2>3, SameRequests
<1>6. ASSUME NEW w \in Worker, Allowed(w) PROVE RequestsCounted'
  <2>1. \A h \in Host : Asking(h)' = Asking(h)
    BY <1>6 DEF Allowed, Asking, Typed, TypeOK
  <2>2. QED
    BY <1>6, <2>1, SameRequests DEF Allowed, historyVars
<1>7. ASSUME NEW w \in Worker, MarkDisallowed(w) \/ Retry(w) \/ MarkFetched(w)
      PROVE  RequestsCounted'
  <2>1. \A h \in Host : Asking(h)' = Asking(h)
    BY <1>7 DEF MarkDisallowed, Retry, MarkFetched, Asking, Typed, TypeOK
  <2>2. QED
    BY <1>7, <2>1, SameRequests DEF MarkDisallowed, Retry, MarkFetched, historyVars
<1>8. ASSUME NEW w \in Worker, Fetch(w) PROVE RequestsCounted'
  <2>1. \A h \in Host : Asking(h)' = Asking(h)
    BY <1>8 DEF Fetch, Asking, Typed, TypeOK
  <2>2. QED
    BY <1>8, <2>1, SameRequests DEF Fetch, historyVars
<1>9. ASSUME NEW w \in Worker, NEW u \in links[w], AddLink(w, u) PROVE RequestsCounted'
  BY <1>9, SameRequests DEF AddLink, Asking
<1>10. CASE UNCHANGED vars
  BY <1>10, SameRequests DEF vars, workerVars, historyVars, Asking
<1>11. QED
  BY <1>1, <1>2, <1>3, <1>4, <1>5, <1>6, <1>7, <1>8, <1>9, <1>10
     DEF Next, Done, WorkerStep

\* Not once, as CRAWLER_PROJECT_INFORMATION.md:371 says, but at most once by
\* each worker is a host asked for its robots.txt (engine.cpp 91-105).
THEOREM RequestsBoundedHolds == Spec => []RequestsBounded
<1>1. RequestsCounted => RequestsBounded
  BY DEF RequestsCounted, RequestsBounded
<1>2. QED
  BY <1>1, TypedAlways, RequestsInit, RequestsStep, PTL DEF Spec
=============================================================================
