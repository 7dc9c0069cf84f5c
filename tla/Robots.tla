------------------------------- MODULE Robots -------------------------------
(***************************************************************************)
(* Workers that obey robots.txt (crawler/engine.cpp, processItem 88-117    *)
(* and the link loop; the cache of host/robots_manager.cpp).  A worker     *)
(* that finds no rules for its host fetches robots.txt itself, with no     *)
(* lock held, and stores what it got; an answer other than 2xx stores      *)
(* empty rules, which allow everything.  Two workers may do so at once.    *)
(***************************************************************************)
EXTENDS RobotsRules, FiniteSets

CONSTANTS
    Worker,
    URL,       \* records [host, path]
    Seeds,
    Links,     \* the links of a page
    File,      \* the robots.txt of a host, when it is served
    NoURL,
    Unknown    \* no rules in the cache

ASSUME RobotsAssumption ==
    /\ Seeds \subseteq URL
    /\ Links \in [URL -> SUBSET URL]
    /\ NoURL \notin URL
    /\ IsFiniteSet(Worker)

ExtractHost(url) == url.host

Host == {ExtractHost(u) : u \in URL}

VARIABLES
    cache,       \* RobotsManager::cache: the rules of a host, or Unknown
    queued,      \* URLs in the frontier
    pc,          \* worker: "loop", "robots" (fetching robots.txt), "update",
                 \* "check", "fetch", "links"
    item,        \* the URL of a worker
    got,         \* the rules a worker parsed and has not stored yet
    links,       \* the links a worker has still to look at
    fetched,     \* the URLs that were requested
    disallowed,  \* URLs marked disallowed in the frontier
    skipped,     \* history: links left out because the rules forbid them
    refused,     \* history: hosts of which a robots.txt request failed
    requests     \* history: requests of robots.txt per host

workerVars == <<pc, item, got, links>>
urlVars == <<fetched, disallowed>>
historyVars == <<skipped, refused, requests>>
vars == <<cache, queued, workerVars, urlVars, historyVars>>

ServedRules(h) == ExtractRobotsDirectives(File[h])

ASSUME UnknownAssumption ==
    /\ Unknown # NoRules
    /\ \A h \in Host : Unknown # ServedRules(h)

TypeOK ==
    /\ cache \in [Host -> {Unknown, NoRules} \cup {ServedRules(h) : h \in Host}]
    /\ queued \subseteq URL
    /\ pc \in [Worker -> {"loop", "robots", "update", "check", "fetch", "links"}]
    /\ item \in [Worker -> URL \cup {NoURL}]
    /\ got \in [Worker -> {Unknown, NoRules} \cup {ServedRules(h) : h \in Host}]
    /\ links \in [Worker -> SUBSET URL]
    /\ fetched \subseteq URL
    /\ disallowed \subseteq URL
    /\ skipped \subseteq URL
    /\ refused \subseteq Host
    /\ requests \in [Host -> Nat]
    /\ \A w \in Worker : pc[w] = "update" <=> got[w] # Unknown

Init ==
    /\ cache = [h \in Host |-> Unknown]
    /\ queued = Seeds
    /\ pc = [w \in Worker |-> "loop"]
    /\ item = [w \in Worker |-> NoURL]
    /\ got = [w \in Worker |-> Unknown]
    /\ links = [w \in Worker |-> {}]
    /\ fetched = {}
    /\ disallowed = {}
    /\ skipped = {}
    /\ refused = {}
    /\ requests = [h \in Host |-> 0]

-----------------------------------------------------------------------------
HasRulesForUrl(u) == cache[ExtractHost(u)] # Unknown

\* No entry allows everything.
Permits(u) == HasRulesForUrl(u) => CanFetch(cache[ExtractHost(u)], u)

\* Variant: the rules of the host are looked for only after the page.
TakeUnchecked(w, u) ==
    /\ pc[w] = "loop"
    /\ u \in queued
    /\ queued' = queued \ {u}
    /\ item' = [item EXCEPT ![w] = u]
    /\ pc' = [pc EXCEPT ![w] = "check"]
    /\ requests' = requests
    /\ UNCHANGED <<cache, got, links, urlVars, skipped, refused>>

\* popWait, and hasRulesForUrl; without rules robots.txt is requested.
Take(w, u) ==
    /\ pc[w] = "loop"
    /\ u \in queued
    /\ queued' = queued \ {u}
    /\ item' = [item EXCEPT ![w] = u]
    /\ pc' = [pc EXCEPT ![w] = IF HasRulesForUrl(u) THEN "check" ELSE "robots"]
    /\ requests' = IF HasRulesForUrl(u) THEN requests
                   ELSE [requests EXCEPT ![ExtractHost(u)] = @ + 1]
    /\ UNCHANGED <<cache, got, links, urlVars, skipped, refused>>

\* A 2xx answer is parsed.
RobotsServed(w) ==
    /\ pc[w] = "robots"
    /\ got' = [got EXCEPT ![w] = ServedRules(ExtractHost(item[w]))]
    /\ pc' = [pc EXCEPT ![w] = "update"]
    /\ UNCHANGED <<cache, queued, item, links, urlVars, historyVars>>

\* Variant: the empty rules are not handed to the cache.
RefusedUnstored(w) ==
    /\ pc[w] = "robots"
    /\ got' = [got EXCEPT ![w] = NoRules]
    /\ refused' = refused \cup {ExtractHost(item[w])}
    /\ pc' = [pc EXCEPT ![w] = "check"]
    /\ UNCHANGED <<cache, queued, item, links, urlVars, skipped, requests>>

\* Any other answer, a timeout or no answer: empty rules.
RobotsRefused(w) ==
    /\ pc[w] = "robots"
    /\ got' = [got EXCEPT ![w] = NoRules]
    /\ refused' = refused \cup {ExtractHost(item[w])}
    /\ pc' = [pc EXCEPT ![w] = "update"]
    /\ UNCHANGED <<cache, queued, item, links, urlVars, skipped, requests>>

\* Variant: the rules are stored without their host.
UpdateEveryHost(w) ==
    /\ pc[w] = "update"
    /\ cache' = [h \in Host |-> got[w]]
    /\ got' = [got EXCEPT ![w] = Unknown]
    /\ pc' = [pc EXCEPT ![w] = "check"]
    /\ UNCHANGED <<queued, item, links, urlVars, historyVars>>

\* updateRobots replaces whatever another worker stored meanwhile.
UpdateRobots(w) ==
    /\ pc[w] = "update"
    /\ cache' = [cache EXCEPT ![ExtractHost(item[w])] = got[w]]
    /\ got' = [got EXCEPT ![w] = Unknown]
    /\ pc' = [pc EXCEPT ![w] = "check"]
    /\ UNCHANGED <<queued, item, links, urlVars, historyVars>>

Allowed(w) ==
    /\ pc[w] = "check"
    /\ Permits(item[w])
    /\ pc' = [pc EXCEPT ![w] = "fetch"]
    /\ UNCHANGED <<cache, queued, item, got, links, urlVars, historyVars>>

MarkDisallowed(w) ==
    /\ pc[w] = "check"
    /\ ~Permits(item[w])
    /\ disallowed' = disallowed \cup {item[w]}
    /\ pc' = [pc EXCEPT ![w] = "loop"]
    /\ item' = [item EXCEPT ![w] = NoURL]
    /\ UNCHANGED <<cache, queued, got, links, fetched, historyVars>>

Fetch(w) ==
    /\ pc[w] = "fetch"
    /\ fetched' = fetched \cup {item[w]}
    /\ links' = [links EXCEPT ![w] = Links[item[w]]]
    /\ pc' = [pc EXCEPT ![w] = "links"]
    /\ UNCHANGED <<cache, queued, item, got, disallowed, historyVars>>

\* A failed request: the URL comes back and is checked again, with whatever
\* rules are known then.  How often is left open.
Retry(w) ==
    /\ pc[w] = "fetch"
    /\ fetched' = fetched \cup {item[w]}
    /\ queued' = queued \cup {item[w]}
    /\ pc' = [pc EXCEPT ![w] = "loop"]
    /\ item' = [item EXCEPT ![w] = NoURL]
    /\ UNCHANGED <<cache, got, links, disallowed, historyVars>>

\* A link is queued if the rules known now permit it and it is new; links to
\* a host without rules pass, and are checked when they are taken.
AddLink(w, u) ==
    /\ pc[w] = "links"
    /\ u \in links[w]
    /\ links' = [links EXCEPT ![w] = @ \ {u}]
    /\ queued' = IF /\ Permits(u)
                    /\ u \notin fetched \cup disallowed
                    /\ \A v \in Worker : item[v] # u
                   THEN queued \cup {u} ELSE queued
    /\ skipped' = IF Permits(u) THEN skipped ELSE skipped \cup {u}
    /\ UNCHANGED <<cache, pc, item, got, urlVars, refused, requests>>

MarkFetched(w) ==
    /\ pc[w] = "links"
    /\ links[w] = {}
    /\ pc' = [pc EXCEPT ![w] = "loop"]
    /\ item' = [item EXCEPT ![w] = NoURL]
    /\ UNCHANGED <<cache, queued, got, links, urlVars, historyVars>>

WorkerStep(w) ==
    \/ \E u \in queued : Take(w, u)
    \/ RobotsServed(w)
    \/ RobotsRefused(w)
    \/ UpdateRobots(w)
    \/ Allowed(w)
    \/ MarkDisallowed(w)
    \/ Fetch(w)
    \/ Retry(w)
    \/ \E u \in links[w] : AddLink(w, u)
    \/ MarkFetched(w)

Done ==
    /\ queued = {}
    /\ \A w \in Worker : pc[w] = "loop"
    /\ UNCHANGED vars

Next == Done \/ \E w \in Worker : WorkerStep(w)

Spec == Init /\ [][Next]_vars

-----------------------------------------------------------------------------
\* What the host's robots.txt says of a URL, in the sense of the comments.
FileForbids(u) == ~CanFetch(ServedRules(ExtractHost(u)), u)

\* A page that its host forbids is requested only if a request of that
\* host's robots.txt failed: never because the rules were not looked for,
\* were another host's, or had not come yet.
ObeysRobots ==
    \A u \in fetched : FileForbids(u) => ExtractHost(u) \in refused

\* Nothing is left out that the host's robots.txt permits, in whatever order
\* links were found and rules arrived.
BlocksOnlyForbidden == \A u \in disallowed \cup skipped : FileForbids(u)

\* The documentation promises one request of robots.txt for each host
\* (CRAWLER_PROJECT_INFORMATION.md:371), which the code does not keep: a worker
\* looks for the rules and asks for them without a lock (engine.cpp:91-105), so
\* every worker that took a URL of the host before the first answer was stored
\* sends a request of its own.  This is the bound that is left, one for each
\* worker.
RequestsBounded == \A h \in Host : requests[h] <= Cardinality(Worker)
=============================================================================
