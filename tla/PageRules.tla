----------------------------- MODULE PageRules -----------------------------
(***************************************************************************)
(* What the crawler reads in a page: its links (html/html_parser.cpp), its *)
(* title, description and text (pipeline/parsed_content_builder.cpp) and   *)
(* what it says to robots (pipeline/control_flags_builder.cpp).  None of   *)
(* them builds a tree: each scans the source once.                         *)
(*                                                                         *)
(* A page is a sequence of pieces, records of a kind, a name and a         *)
(* function attr: a "word"; "open" and "close" of a comment; a "tag" with  *)
(* its attributes; the "end" tag of a name.  The attribute content is a    *)
(* set of words.  Names are in small letters and the limits of the length  *)
(* that is scanned (128 KB, 2 MB and 4 MB) are left out.                   *)
(***************************************************************************)
EXTENDS SequencesExt, FiniteSetsExt, Integers

Word(w) == [kind |-> "word", name |-> w, attr |-> <<>>]

IsTag(piece, name) == piece.kind = "tag" /\ piece.name = name

\* getAttributeValue: nothing for an attribute that is missing.
Attribute(piece, a) == IF a \in DOMAIN piece.attr THEN <<piece.attr[a]>> ELSE <<>>

\* The places after place i of the pieces of a kind and a name.
Following(page, i, kind, name) ==
    {j \in i + 1 .. Len(page) : page[j].kind = kind /\ page[j].name = name}

\* The scan goes on behind the next of them, or ends the page without one.
Behind(page, i, kind, name) ==
    LET places == Following(page, i, kind, name)
    IN 1 + IF places = {} THEN Len(page) ELSE Min(places)

BehindComment(page, i) == Behind(page, i, "close", "-->")

\* What stands between the tag at place i and the next end tag of its name.
Body(page, i) ==
    LET ends == Following(page, i, "end", page[i].name)
    IN IF ends = {} THEN <<>> ELSE SubSeq(page, i + 1, Min(ends) - 1)

-----------------------------------------------------------------------------
(* extractLinks.  A link is the sequence of its pieces: only one that is a *)
(* single word parses as a URL reference.                                  *)

Values(piece) ==
    Attribute(piece, "href") \o Attribute(piece, "src") \o Attribute(piece, "loc")

LinksOfTag(page, i) ==
    LET values == Values(page[i])
        body == IF page[i].name \in {"loc", "link"} THEN Body(page, i) ELSE <<>>
    IN [v \in DOMAIN values |-> <<Word(values[v])>>]
         \o (IF body # <<>> THEN <<body>> ELSE <<>>)

\* Variant: comments are not skipped.
LinksWithComments(page) ==
    LET from[i \in 1 .. Len(page) + 1] ==
          IF i > Len(page) THEN <<>>
          ELSE IF page[i].kind \in {"tag", "end"} THEN LinksOfTag(page, i) \o from[i + 1]
          ELSE from[i + 1]
    IN from[1]

\* Scripts are searched for links as everything else, comments are not.
ExtractLinks(page) ==
    LET from[i \in 1 .. Len(page) + 1] ==
          IF i > Len(page) THEN <<>>
          ELSE IF page[i].kind = "open" THEN from[BehindComment(page, i)]
          ELSE IF page[i].kind \in {"tag", "end"} THEN LinksOfTag(page, i) \o from[i + 1]
          ELSE from[i + 1]
    IN from[1]

-----------------------------------------------------------------------------
(* ParsedContentBuilder and ControlFlagsBuilder.                           *)

HiddenElement == {"script", "style", "noscript", "svg", "canvas"}

\* An end tag of a hidden element hides as its start tag does.
CleanText(page) ==
    LET from[i \in 1 .. Len(page) + 1] ==
          IF i > Len(page) THEN <<>>
          ELSE IF page[i].kind = "open" THEN from[BehindComment(page, i)]
          ELSE IF page[i].kind \in {"tag", "end"}
                 THEN from[IF page[i].name \in HiddenElement
                             THEN Behind(page, i, "end", page[i].name) ELSE i + 1]
          ELSE <<page[i].name>> \o from[i + 1]
    IN from[1]

\* The first title, one in a comment or a script included.
ExtractTitle(page) ==
    LET titles == {i \in DOMAIN page : IsTag(page[i], "title")}
    IN IF titles = {} THEN <<>> ELSE Body(page, Min(titles))

Metas(page, name) ==
    {i \in DOMAIN page : IsTag(page[i], "meta") /\ Attribute(page[i], "name") = <<name>>}

ExtractDescription(page) ==
    LET metas == Metas(page, "description")
    IN IF metas = {} THEN <<>> ELSE Attribute(page[Min(metas)], "content")

\* Any robots tag may say it, not only the first.
MetaRobotsContains(page, token) ==
    \E i \in Metas(page, "robots") :
        \E content \in ToSet(Attribute(page[i], "content")) : token \in content

ControlFlags(page) ==
    LET noindex == MetaRobotsContains(page, "noindex")
    IN [noindex |-> noindex,
        nofollow |-> MetaRobotsContains(page, "nofollow"),
        index_status |-> IF noindex THEN "SKIPPED_NOINDEX" ELSE "PENDING"]

=============================================================================
