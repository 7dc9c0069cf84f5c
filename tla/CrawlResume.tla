----------------------------- MODULE CrawlResume -----------------------------
(***************************************************************************)
(* A crawl over several processes: the process may die at any moment (or   *)
(* end), and a new one is started with --resume-db (main.cpp), which takes *)
(* its seeds from the pending marks in the database, its allowed domains   *)
(* from those seeds, and starts with an empty frontier.  Only the database *)
(* survives; every process is given the same options.                      *)
(***************************************************************************)
EXTENDS CrawlEngine

CONSTANTS
    MaxResumes,   \* bound on the number of restarts
    Interrupts    \* TRUE when SIGINT is part of the instance

ASSUME ResumeAssumption ==
    /\ MaxResumes \in Nat
    /\ Interrupts \in BOOLEAN

VARIABLES
    resumes,   \* number of restarts so far
    crashed,   \* history: some process died before its end
    settled    \* history: URLs that reached an outcome in some process

resumeVars == <<vars, resumes, crashed, settled>>

ResumeTypeOK ==
    /\ TypeOK
    /\ resumes \in 0 .. MaxResumes
    /\ crashed \in BOOLEAN
    /\ settled \subseteq URL

ResumeInit ==
    /\ Init
    /\ resumes = 0
    /\ crashed = FALSE
    /\ settled = {}

\* A first process that dies before its checkpoint is started again with its
\* seeds, not resumed; with nothing to load, --resume-db refuses to start.
Resume ==
    /\ resumes < MaxResumes
    /\ phase # "seed" \/ resumes > 0
    /\ LoadPendingURLs # {}
    /\ resumes' = resumes + 1
    /\ crashed' = (crashed \/ phase # "done")
    /\ seeds' = LoadPendingURLs
    /\ seeding' = NoURL
    /\ cleanup' = TRUE
    /\ allowed_domains' = ExtractAllowedDomains(LoadPendingURLs)
    /\ phase' = "seed"
    /\ g_running' = TRUE
    /\ hostQueue' = [u \in URL |-> 0]
    /\ fetch_status' = [u \in URL |-> NoEntry]
    /\ retry_count' = [u \in URL |-> 0]
    /\ active_workers' = 0
    /\ accepting_work' = TRUE
    /\ pc' = [w \in Worker |-> "loop"]
    /\ item' = [w \in Worker |-> NoURL]
    /\ links' = [w \in Worker |-> {}]
    /\ adding' = [w \in Worker |-> NoURL]
    /\ UNCHANGED <<storeVars, found>>

Step ==
    \/ MainStep
    \/ Interrupts /\ Interrupt
    \/ \E w \in Worker : WorkerStep(w)
    \/ Done

ResumeNext ==
    /\ \/ Step /\ UNCHANGED <<resumes, crashed>>
       \/ Resume
    /\ settled' = settled \cup {u \in URL : fetch_status'[u] \notin {NoEntry, Pending}}

ResumeSpec == ResumeInit /\ [][ResumeNext]_resumeVars

-----------------------------------------------------------------------------
Finished == phase = "done" /\ PendingURLs = {}

\* However often the crawl was ended and resumed, when a process ends with
\* nothing pending every page-like seed has had an outcome, and so has, for
\* every page that was reported fetched, every page-like link on it that the
\* process which fetched it may follow (README.md:281, "Resume an interrupted
\* crawl"): what an exception dropped has been taken up again.  Without
\* --same-domain those are all links of the page.  With it the domains of a
\* resumed process are those of the URLs left pending (main.cpp:398), often
\* fewer than the first process had: a link into a domain that has none left is
\* not followed, and this property does not claim it.
ResumeComplete ==
    ~crashed /\ Finished => (Seeds \cup found) \cap Body \subseteq settled

\* A domain that one of the seeds has, or one below it.
InSeedDomain(u) ==
    \E s \in Seeds : \/ DomainOf[u] = DomainOf[s]
                    \/ DomainOf[u] \in Subdomain[DomainOf[s]]

\* With --same-domain nothing outside the domains of the first seeds is ever
\* accepted or left in the database, whatever crashes and resumed processes
\* made of the allowed domains (README.md:215, "stays on the same domain").
StaysInDomain ==
    same_domain =>
        \A u \in URL : fetch_status[u] # NoEntry \/ u \in pending \cup legacy
                        => InSeedDomain(u)

\* A mark leaves the database only when its URL has had an outcome, or is none
\* a resumed crawl takes; so a crash never takes a URL back to being unknown.
MarkOutlivesWork ==
    [][\A u \in pending \ pending' : u \in settled' \/ u \notin Body]_resumeVars
=============================================================================
