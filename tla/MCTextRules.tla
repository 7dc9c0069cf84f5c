---------------------------- MODULE MCTextRules ----------------------------
(* All short paths, rules, files, words and answers; searches in up to     *)
(* three of seven rows; URLs with the features that the rules look at.     *)
EXTENDS TextRules

MCSynonyms == <<"d", "o", "g">> :> << <<"p", "u", "p">> >>

Matching == {[kind |-> "match", path |-> p, rule |-> r] :
               p \in SeqOf({"a", "b", "*"}, 3), r \in SeqOf({"a", "b", "*", "$"}, 4)}

Line(k, v) == [kind |-> k, value |-> v]

Lines == {Line("agent", "*"), Line("agent", "ours"), Line("agent", "other"),
          Line("disallow", <<"a">>), Line("disallow", <<"b">>), Line("disallow", <<>>),
          Line("allow", <<"a">>), Line("sitemap", <<"a">>)}

Files == {[kind |-> "file", file |-> f] : f \in SeqOf(Lines, 4)}

Words == {[kind |-> "words", left |-> l, right |-> r] :
            l \in SeqOf({"a", "b"}, 4), r \in SeqOf({"a", "b"}, 4)}

-----------------------------------------------------------------------------
java == <<"j", "a", "v", "a">>
jave == <<"j", "a", "v", "e">>
kava == <<"k", "a", "v", "a">>
jabs == <<"j", "a", "b", "b", "s">>
cats == <<"c", "a", "t", "S">>
dog == <<"d", "o", "g">>
Text(words) == FlattenSeq([i \in DOMAIN words |-> <<" ">> \o words[i]])

Row(id, words) ==
    [doc_id |-> id, url |-> <<"x">>, fetch |-> {200},
     parsed |-> {[body |-> Text(words), title |-> <<>>, description |-> <<>>]},
     content |-> {FALSE}, quality |-> {FALSE}, control |-> {FALSE}]

\* Two rows were cut short by a crash, one of them before its text.
Rows ==
    { Row(1, <<java, cats>>), Row(2, <<java>>), Row(4, <<dog>>),
      [Row(3, <<jabs, dog>>) EXCEPT !.control = {}, !.quality = {}],
      Row(5, <<cats, dog, java, kava>>),
      [Row(6, <<java, dog>>) EXCEPT !.control = {TRUE}],
      [Row(7, <<java>>) EXCEPT !.parsed = {}, !.control = {}, !.quality = {}] }

Queries ==
    {Text(<<java>>), Text(<<jave>>), Text(<<kava>>), Text(<<dog, cats, java>>),
     Text(<<jave, dog>>), Text(<<java, cats, kava>>),
     <<"c", "a", "t", "'", "s", "-", "j", "a", "v", "a", ".">>, <<"a", " ", "i", "t">>,
     <<"p", "u", "p">>}

Searches == {[kind |-> "search", rows |-> r, text |-> q] :
               r \in UNION {kSubset(n, Rows) : n \in 1 .. 3}, q \in Queries}

-----------------------------------------------------------------------------
Pages == {[kind |-> "pages", limit |-> n,
           ranked |-> [i \in DOMAIN s |-> [doc_id |-> i, hash |-> s[i]]]] :
            s \in SeqOf({NoHash, "h1", "h2"}, 4), n \in {0, 1, 2, 3, 200}}

-----------------------------------------------------------------------------
URLs == {[kind |-> "url", url |-> u] :
           u \in [scheme : {"", "ftp", "http", "https"}, scheme_capitals : BOOLEAN,
                  labels : {<<>>, <<"h", "com">>, <<"w", "h", "com">>, <<"h", "zip">>},
                  port : {"", "80"}, capitals : BOOLEAN, fragment : BOOLEAN,
                  dirs : {0}, low : {FALSE}, file : {"", "/", ".html", ".ico"},
                  query : {"", "x", ".css", ".PNG"}]
                 \cup
                 [scheme : {"http"}, scheme_capitals : {FALSE}, labels : {<<"h", "com">>},
                  port : {""}, capitals : {FALSE}, fragment : {FALSE},
                  dirs : {1, 2, 8, 9, 10, 254, 255, 256}, low : BOOLEAN,
                  file : {"/", ".html", ".md", ".pdf", ".png", ".PNG", ".mov", ".x"},
                  query : {"", "x", ".css"}]}

-----------------------------------------------------------------------------
\* A block is its pieces and what a reader of the page takes from them.
Block(pieces) == [pieces |-> pieces, text |-> <<>>, links |-> <<>>, title |-> <<>>,
                  noindex |-> FALSE]

Tag(name, attr) == [kind |-> "tag", name |-> name, attr |-> attr]
End(name) == [kind |-> "end", name |-> name, attr |-> <<>>]
Element(name, pieces) == <<Tag(name, <<>>)>> \o pieces \o <<End(name)>>
Comment(pieces) == <<[kind |-> "open", name |-> "<!--", attr |-> <<>>]>> \o pieces
                     \o <<[kind |-> "close", name |-> "-->", attr |-> <<>>]>>
Noindex == Tag("meta", [name |-> "robots", content |-> {"noindex", "nofollow"}])
Anchor(url) == Tag("a", "href" :> url)

Blocks ==
    { [Block(<<Word("w")>>) EXCEPT !.text = <<"w">>],
      [Block(<<Anchor("x")>>) EXCEPT !.links = <<"x">>],
      Block(<<End("a")>>),
      [Block(Element("title", <<Word("t")>>)) EXCEPT !.text = <<"t">>, !.title = <<"t">>],
      [Block(Element("loc", <<Word("l")>>)) EXCEPT !.text = <<"l">>, !.links = <<"l">>],
      [Block(<<Noindex>>) EXCEPT !.noindex = TRUE],
      Block(<<Tag("meta", [name |-> "robots", content |-> {"index"}])>>),
      Block(Comment(<<Word("c"), Anchor("y"), Noindex>>)),
      Block(Comment(<<Tag("script", <<>>)>>)),
      Block(Element("style", Comment(<<Word("h")>>))),
      [Block(Element("script", <<Word("h"), Tag("svg", <<>>), Anchor("z")>>))
         EXCEPT !.links = <<"z">>],
      [Block(Element("noscript", <<Tag("img", "src" :> "i")>>)) EXCEPT !.links = <<"i">>] }

Sources == {[kind |-> "page", blocks |-> b] : b \in SeqOf(Blocks, 3)}

MCCase == Matching \cup Files \cup Words \cup Searches \cup Pages \cup URLs \cup Sources
=============================================================================
