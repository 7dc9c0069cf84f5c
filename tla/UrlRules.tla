------------------------------ MODULE UrlRules ------------------------------
(***************************************************************************)
(* Which URLs are crawled, and in which order (url/process.cpp,            *)
(* url/validate.cpp, url/normalize.cpp, the filters of crawler/engine.cpp).*)
(*                                                                         *)
(* A URL is the record that Boost.URL parses:                              *)
(*   scheme, labels  the scheme, and the host as a sequence of labels      *)
(*   scheme_capitals the scheme is written with capital letters            *)
(*   port            "" when there is none                                 *)
(*   capitals        the host is written with capital letters              *)
(*   dirs, low       how many directories, and whether one is of low value *)
(*   file            "" no path at all, "/" the path ends in a slash, else *)
(*                   the extension of the last segment                     *)
(*   query           "" none, else how the query ends                      *)
(*   fragment        whether there is one                                  *)
(***************************************************************************)
EXTENDS SequencesExt, Integers

-----------------------------------------------------------------------------
(* validate.cpp: tables of extensions.                                     *)

HtmlExtension == {".html", ".htm", ".php", ".asp", ".aspx"}
TextExtension == {".txt", ".md", ".rst"}
ImageExtension == {".jpg", ".jpeg", ".png", ".webp", ".gif", ".svg", ".bmp", ".ico"}
VideoExtension == {".mp4", ".webm", ".mov", ".avi", ".mkv", ".m4v"}
AudioExtension == {".mp3", ".wav", ".ogg", ".flac", ".m4a", ".aac"}
StaticExtension == {".css", ".js", ".mjs", ".json", ".xml", ".woff", ".woff2", ".ttf",
                    ".eot", ".zip", ".rar", ".7z", ".tar", ".gz", ".exe", ".dll",
                    ".bin", ".iso"}

\* isStaticAsset's own table, compared with the path as it is written.
AssetExtension == {".css", ".js", ".png", ".jpg", ".jpeg", ".svg", ".gif", ".webp",
                   ".ico", ".woff", ".woff2", ".ttf", ".eot", ".mp4", ".mp3", ".avi",
                   ".mov", ".zip", ".rar", ".7z", ".pdf"}

\* utils.cpp, isHtmlPageUrl.
NonHtmlExtension == {".js", ".css", ".png", ".jpg", ".jpeg", ".gif", ".svg", ".ico",
                     ".woff", ".woff2", ".ttf"}

LowerExtension(e) == IF e = ".PNG" THEN ".png" ELSE e

\* How the URL ends once query and fragment are cut off: without a path, as
\* the last label of its host.
StrippedEnd(url) == IF url.file = "" THEN "." \o Last(url.labels) ELSE url.file

\* Variant: icons are missing from the table.
ClassifyNoIcons(url) ==
    LET e == LowerExtension(StrippedEnd(url))
    IN IF e \in TextExtension THEN "TEXT_DOCUMENT"
       ELSE IF e \in (ImageExtension \ {".ico"}) \cup VideoExtension \cup AudioExtension
                     \cup StaticExtension \cup {".pdf"} THEN "OTHER"
       ELSE "HTML"

\* PDF, image, video, audio and static assets are all OTHER here: no code
\* tells them apart.
ClassifyResourceType(url) ==
    LET e == LowerExtension(StrippedEnd(url))
    IN IF e \in HtmlExtension THEN "HTML"
       ELSE IF e \in TextExtension THEN "TEXT_DOCUMENT"
       ELSE IF e \in ImageExtension \cup VideoExtension \cup AudioExtension
                     \cup StaticExtension \cup {".pdf"} THEN "OTHER"
       ELSE "HTML"

ShouldFetchBody(type) == type \in {"HTML", "TEXT_DOCUMENT"}

-----------------------------------------------------------------------------
(* priorityScore.                                                          *)

MAX_PRIORITY == 100

IsRoot(url) == url.file = "" \/ (url.file = "/" /\ url.dirs = 0)

\* The slashes of the path but the trailing one, in a uint8_t.
Depth(url) == IF IsRoot(url) THEN 0
              ELSE (url.dirs + IF url.file = "/" THEN 0 ELSE 1) % 256

LooksLikeHtmlPage(url) == IsRoot(url) \/ url.file = "/" \/ url.file \in HtmlExtension

ClampPriority(p) == IF p < 0 THEN 0 ELSE IF p > MAX_PRIORITY THEN MAX_PRIORITY ELSE p

PriorityScore(url) ==
    LET Points(condition, n) == IF condition THEN n ELSE 0
    IN IF url.file \in AssetExtension THEN 0
       ELSE ClampPriority((MAX_PRIORITY \div 2) - ((Depth(url) * MAX_PRIORITY) \div 20)
                            + Points(LooksLikeHtmlPage(url), MAX_PRIORITY \div 10)
                            + Points(IsRoot(url), MAX_PRIORITY \div 4)
                            - Points(url.query # "", MAX_PRIORITY \div 7)
                            - Points(url.low, MAX_PRIORITY \div 5))

-----------------------------------------------------------------------------
(* processURL and the links of a page.                                     *)

None == [scheme |-> "none"]

DefaultPort(url) == IF url.scheme = "http" THEN "80" ELSE "443"

NormalizeURI(url) ==
    IF url.scheme = "" \/ url.labels = <<>> THEN None
    ELSE [url EXCEPT !.scheme_capitals = FALSE,
                     !.capitals = FALSE,
                     !.fragment = FALSE,
                     !.port = IF @ = DefaultPort(url) THEN "" ELSE @]

\* Only http and https are ACCEPTED_URL, so the crawlability that is assessed
\* afterwards is always CRAWLABLE.
Accepted(normalized) == normalized # None /\ normalized.scheme \in {"http", "https"}

Priority(normalized) ==
    IF ShouldFetchBody(ClassifyResourceType(normalized))
      THEN PriorityScore(normalized) ELSE 0

\* runCrawler: what becomes of a seed.
SeedTaken(url) ==
    LET normalized == NormalizeURI(url)
    IN Accepted(normalized) /\ ShouldFetchBody(ClassifyResourceType(normalized))

\* The end of the URL as it is written, query included.
IsHtmlPageUrl(url) ==
    LowerExtension(IF url.query = "" THEN StrippedEnd(url) ELSE url.query)
        \notin NonHtmlExtension

\* The hosts of extractAllowedDomains, in the letters of the command line.
AllowedDomains(seeds) == {[labels |-> s.labels, capitals |-> s.capitals] :
                            s \in {x \in seeds : x.labels # <<>>}}

\* The host of a link, in small letters, is a domain or a part of one.
DomainAllowed(url, domains) ==
    \E d \in domains : /\ ~d.capitals
                       /\ IsSuffix(d.labels, url.labels)

\* Nothing but a fragment, if anything, follows the host.
NothingFollows(url) == url.file = "" /\ url.query = ""

\* What the reference replaces in the base: all of it, what follows the host,
\* or the query.
Resolve(ref, base) ==
    CASE ref.kind = "absolute" -> ref.url
      [] ref.kind = "relative" /\ ref.url.file # "" ->
           [ref.url EXCEPT !.scheme = base.scheme, !.scheme_capitals = base.scheme_capitals,
                           !.labels = base.labels, !.capitals = base.capitals,
                           !.port = base.port]
      [] OTHER -> [base EXCEPT !.query = ref.url.query]

\* A reference found in a page is a kind and, for "absolute" and "relative",
\* a URL, of which a relative one has only what follows the host; "mailto" (or
\* javascript, tel) and "malformed" lead nowhere, as does a relative one that
\* is empty or a fragment alone.  The scheme is compared as it is written.
ResolveRelativeURL(ref, base) ==
    LET reference == \/ ref.kind = "absolute"
                     \/ ref.kind = "relative" /\ ~NothingFollows(ref.url)
        resolved == IF reference THEN Resolve(ref, base) ELSE None
    IN IF /\ resolved.scheme \in {"http", "https"}
          /\ ~resolved.scheme_capitals
         THEN [resolved EXCEPT !.fragment = FALSE] ELSE None

\* The link loop, without robots.txt.
LinkTaken(ref, base, same_domain, seeds) ==
    LET resolved == ResolveRelativeURL(ref, base)
        normalized == IF resolved = None THEN None ELSE NormalizeURI(resolved)
    IN /\ Accepted(normalized)
       /\ same_domain /\ AllowedDomains(seeds) # {}
            => DomainAllowed(normalized, AllowedDomains(seeds))
       /\ IsHtmlPageUrl(normalized)

=============================================================================
