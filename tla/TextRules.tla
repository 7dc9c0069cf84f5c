----------------------------- MODULE TextRules -----------------------------
(***************************************************************************)
(* The pure algorithms of RobotsRules, SearchText, UrlRules and PageRules, *)
(* each compared with a definition that is written another way.  A         *)
(* behaviour picks one input, an element of Case, and stays there.         *)
(***************************************************************************)
EXTENDS RobotsRules, SearchText, UrlRules, PageRules

CONSTANT Case  \* records with a field kind that names the algorithm

VARIABLE input

Init == input \in Case

Next == UNCHANGED input

Spec == Init /\ [][Next]_input

Of(kind) == input.kind = kind

-----------------------------------------------------------------------------
(* A page is put together from blocks that are well formed.  A block has   *)
(* its pieces and what a reader takes from them: its text, its links, its  *)
(* title, and whether it forbids the index.                                *)

Around == {"title", "loc", "link"}

IsWord(piece) == piece = Word(piece.name)

IsEnd(piece, name) == piece.kind = "end" /\ piece.name = name

\* A word, a tag or an end tag that says nothing of what stands around it.
Plain(piece) == IsWord(piece) \/ (piece.kind \in {"tag", "end"} /\ piece.name \notin Around)

SaysNoindex(piece) ==
    /\ IsTag(piece, "meta") /\ Attribute(piece, "name") = <<"robots">>
    /\ \E content \in ToSet(Attribute(piece, "content")) : "noindex" \in content

Reads(block, text, links, title) ==
    block.text = text /\ block.links = links /\ block.title = title

PlainBlock(block) ==
    LET piece == block.pieces[1]
    IN /\ Len(block.pieces) = 1 /\ Plain(piece)
       /\ block.noindex => SaysNoindex(piece)
       /\ IF IsWord(piece) THEN Reads(block, <<piece.name>>, <<>>, <<>>)
          ELSE piece.name \notin HiddenElement /\ Reads(block, <<>>, Values(piece), <<>>)

\* A title or a sitemap entry.
EntryBlock(block) ==
    LET pieces == block.pieces
        word == <<pieces[2].name>>
    IN /\ Len(pieces) = 3 /\ ~block.noindex
       /\ \E name \in Around :
            /\ pieces[1] = [Word(name) EXCEPT !.kind = "tag"]
            /\ pieces[3] = [Word(name) EXCEPT !.kind = "end"]
            /\ IsWord(pieces[2])
            /\ IF name = "title" THEN Reads(block, word, <<>>, word)
                                 ELSE Reads(block, word, word, <<>>)

Commented(pieces, i, j) ==
    /\ i < j /\ pieces[i].kind = "open" /\ pieces[j].kind = "close" /\ pieces[j].name = "-->"
    /\ \A k \in i + 1 .. j - 1 : pieces[k].kind = "open" \/ Plain(pieces[k])

CommentBlock(block) ==
    /\ Commented(block.pieces, 1, Len(block.pieces))
    /\ ~block.noindex /\ Reads(block, <<>>, <<>>, <<>>)

\* A hidden element around plain pieces or around a comment.
HiddenBlock(block) ==
    LET pieces == block.pieces
        n == Len(pieces)
        name == pieces[1].name
        Links(places) == FlattenSeq([k \in places |-> Values(pieces[k])])
    IN /\ n > 1 /\ ~block.noindex /\ name \in HiddenElement
       /\ pieces[1].kind = "tag" /\ IsEnd(pieces[n], name)
       /\ \A k \in 2 .. n - 1 : ~IsEnd(pieces[k], name)
       /\ \/ /\ \A k \in 2 .. n - 1 : Plain(pieces[k])
             /\ Reads(block, <<>>, Links(1 .. n), <<>>)
          \/ /\ Commented(pieces, 2, n - 1)
             /\ Reads(block, <<>>, Values(pieces[1]) \o Values(pieces[n]), <<>>)

WellFormed(block) ==
    /\ block.pieces \in Seq(ToSet(block.pieces))
    /\ \A i \in DOMAIN block.pieces :
         /\ block.pieces[i].name \in STRING
         /\ block.pieces[i].kind \in {"word", "open", "close", "tag", "end"}
         /\ Values(block.pieces[i]) \in Seq(STRING)
    /\ PlainBlock(block) \/ EntryBlock(block) \/ CommentBlock(block) \/ HiddenBlock(block)

-----------------------------------------------------------------------------
\* What the proofs ask of the inputs: texts are sequences of characters, a
\* robots.txt a sequence of lines, a URL a record as in UrlRules, the rows of
\* the database finitely many, an answer a sequence of documents, a page a
\* sequence of blocks.
ASSUME CaseAssumption ==
    LET Text == Seq(STRING)
        Line == [kind : {"agent"}, value : STRING]
                  \cup [kind : STRING \ {"agent"}, value : Text]
        URL == [scheme : STRING, scheme_capitals : BOOLEAN, labels : Text,
                capitals : BOOLEAN, port : STRING, fragment : BOOLEAN, dirs : Nat, low : BOOLEAN,
                file : STRING, query : STRING]
    IN \A case \in Case :
          /\ case.kind = "match" => case.path \in Text /\ case.rule \in Text
          /\ case.kind = "file" => case.file \in Seq(Line)
          /\ case.kind = "words" => case.left \in Text /\ case.right \in Text
          /\ case.kind = "search" =>
               /\ case.text \in Text /\ IsFiniteSet(case.rows)
               /\ \A row \in case.rows :
                    /\ row.url \in Text
                    /\ row.parsed \subseteq [body : Text, title : Text, description : Text]
          /\ case.kind = "pages" =>
               case.ranked \in Seq([doc_id : Nat, hash : STRING]) /\ case.limit \in Nat
          /\ case.kind = "page" =>
               /\ case.blocks \in Seq(ToSet(case.blocks))
               /\ \A i \in DOMAIN case.blocks : WellFormed(case.blocks[i])
          /\ case.kind = "url" => case.url \in URL

-----------------------------------------------------------------------------
\* robotsMatch never matches what the documented prefix match does not; and
\* it matches all of that for a rule without a * or without an end anchor,
\* and a path without a *.
RobotsMatchRight ==
    Of("match") =>
        LET path == input.path
            rule == input.rule
        IN /\ RobotsMatch(path, rule) => MatchesPrefix(path, rule)
           /\ /\ ~Contains(path, "*")
              /\ ~(Contains(rule, "*") /\ Last(rule) = "$")
              /\ MatchesPrefix(path, rule)
              => RobotsMatch(path, rule)

\* The comment on robotsMatch, robots_manager.cpp:226-227: "prefix match with
\* '*' (any run) and a trailing '$' end anchor".
MatchesAsDocumented ==
    Of("match") /\ ~Contains(input.path, "*") =>
        (RobotsMatch(input.path, input.rule) <=> MatchesPrefix(input.path, input.rule))

\* A rule of robots.txt applies to the agents of the run of User-agent lines
\* that ended last before it; if our agent is named anywhere only its rules
\* count, otherwise those for *.  In whatever order the lines come.
GroupsRight ==
    Of("file") =>
        LET file == input.file
            Agents == {i \in DOMAIN file : file[i].kind = "agent"}
            Run(i) == {a \in Agents : /\ a < i
                                      /\ \A j \in a .. i - 1 :
                                           j \notin Agents =>
                                             \A b \in Agents : ~(j < b /\ b < i)}
            ours == \E a \in Agents : file[a].value = "ours"
            Applies(i) == \E a \in Run(i) : file[a].value = IF ours THEN "ours" ELSE "*"
            Rules(kind) == {file[i].value : i \in {j \in DOMAIN file :
                              file[j].kind = kind /\ file[j].value # <<>> /\ Applies(j)}}
        IN ExtractRobotsDirectives(file)
             = [allow |-> Rules("allow"), disallow |-> Rules("disallow")]

-----------------------------------------------------------------------------
Letters(word) == ToSet(word)

\* The words one insertion, deletion or substitution away.
Edits(word, letters) ==
    {RemoveAt(word, i) : i \in DOMAIN word}
    \cup {InsertAt(word, i, c) : i \in 1 .. Len(word) + 1, c \in letters}
    \cup {[word EXCEPT ![i] = c] : i \in DOMAIN word, c \in letters}

Edited(words, letters) == UNION {Edits(w, letters) : w \in words}

Distance(left, right) ==
    LET one == Edits(left, Letters(right))
    IN IF left = right THEN 0
       ELSE IF right \in one THEN 1
       ELSE IF right \in Edited(one, Letters(right)) THEN 2
       ELSE TooFar

\* editDistanceAtMostTwo gives the number of edits when it is at most two,
\* and a larger number otherwise: no early end of the comparison hides a
\* distance of two.
EditDistanceRight ==
    Of("words") =>
        LET d == EditDistanceAtMostTwo(input.left, input.right)
        IN IF Distance(input.left, input.right) <= 2
             THEN d = Distance(input.left, input.right) ELSE d > 2

\* What a search gives a score: only documents that hold a token of the query
\* or a word at most two edits from a token that no document holds; a
\* document with less than half of the known tokens only when no document has
\* half of them; and every document that holds all the tokens.
ResultsRight ==
    Of("search") =>
        LET index == Load(input.rows)
            tokens == EffectiveTokens(index, Process(input.text))
            asked == ToSet(Process(input.text))
            known == ToSet(tokens) \cap Vocabulary(index)
            Near(term) == \E t \in asked \ Vocabulary(index) : Distance(t, term) <= 2
            Half(d) == 2 * Cardinality(Matched(tokens, d)) >= Cardinality(known)
            found == Search(index, input.text)
        IN /\ \A d \in found : \E term \in Terms(d) : term \in asked \/ Near(term)
           /\ (\E d \in found : Half(d)) => \A d \in found : Half(d)
           /\ \A d \in index : asked # {} /\ asked \subseteq Terms(d) => d \in found

\* A document is shown unless one of its content hash stands before it in the
\* ranking.  The pages of an answer hold the documents that are shown, all of
\* them, each once and in the order of the ranking; and every page gives their
\* number as its total.
PagesRight ==
    Of("pages") =>
        LET ranked == input.ranked
            limit == Clamp(input.limit, 1, 100)
            shown == {i \in DOMAIN ranked :
                        \/ ranked[i].hash = NoHash
                        \/ \A j \in 1 .. i - 1 : ranked[j].hash # ranked[i].hash}
            Before(i) == Cardinality({j \in shown : j < i})
        IN \A p \in 1 .. Len(ranked) + 1 :
             LET page == Build(ranked, p, input.limit)
                 skipped == (p - 1) * limit
             IN /\ page.total = Cardinality(shown)
                /\ Len(page.results) = Clamp(Cardinality(shown) - skipped, 0, limit)
                /\ \A i \in shown : \A n \in DOMAIN page.results :
                     Before(i) + 1 = skipped + n => page.results[n] = ranked[i]

-----------------------------------------------------------------------------
\* A URL is judged the same way when it is seen again in its normalised form,
\* as a resumed crawl does.  A relative reference is taken if its normalised
\* form is when it is written in full, unless it is empty, and stays in the
\* domain if the host of the seed is written in small letters.  The normalised
\* form of a seed may be a link, unless its query ends like a file; as it is
\* written the seed may be one only with its scheme in small letters, for
\* resolveRelativeURL compares the scheme before it is normalised
\* (process.cpp:93-96).  A URL one directory deeper is never crawled earlier, as
\* long as the depth fits its byte.
UrlRulesRight ==
    Of("url") =>
        LET url == input.url
            normalized == NormalizeURI(url)
            deeper == [url EXCEPT !.dirs = @ + 1]
            Taken(kind, link, same_domain, seeds) ==
                LinkTaken([kind |-> kind, url |-> link], normalized, same_domain, seeds)
        IN /\ normalized # None =>
                /\ NormalizeURI(normalized) = normalized
                /\ SeedTaken(normalized) = SeedTaken(url)
                /\ Taken("relative", url, FALSE, {})
                     <=> ~NothingFollows(url) /\ Taken("absolute", normalized, FALSE, {})
                /\ ~url.capitals =>
                     Taken("relative", url, TRUE, {url}) = Taken("relative", url, FALSE, {})
           /\ SeedTaken(url) /\ LowerExtension(url.query) \notin NonHtmlExtension
                => /\ Taken("absolute", normalized, FALSE, {})
                   /\ Taken("absolute", url, FALSE, {}) <=> ~url.scheme_capitals
           /\ PriorityScore(url) \in 0 .. MAX_PRIORITY
           /\ url.dirs < 254 /\ url.file # "" => PriorityScore(deeper) <= PriorityScore(url)
-----------------------------------------------------------------------------
\* A page that is put together from well formed blocks: all its visible words
\* are its text and no others; what is found as a link of one word is the
\* links outside comments, all of them, once and in order; the title is the
\* first one; and a robots tag outside a comment that says noindex is never
\* missed.
PageRight ==
    Of("page") =>
        LET blocks == input.blocks
            All(field) == FlattenSeq([i \in DOMAIN blocks |-> blocks[i][field]])
            page == All("pieces")
            links == ExtractLinks(page)
            titles == All("title")
        IN /\ CleanText(page) = All("text")
           /\ FlattenSeq([i \in DOMAIN links |->
                 IF Len(links[i]) = 1 THEN <<links[i][1].name>> ELSE <<>>]) = All("links")
           /\ titles # <<>> => ExtractTitle(page) = <<Word(titles[1])>>
           /\ (\E i \in DOMAIN blocks : blocks[i].noindex) => ControlFlags(page).noindex
=============================================================================
