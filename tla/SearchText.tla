----------------------------- MODULE SearchText -----------------------------
(***************************************************************************)
(* From the text of a query to a page of results (src/query): how text is  *)
(* made into tokens, which documents the index holds, which of them a      *)
(* query finds, and which page of them is returned.  Text is a sequence of *)
(* characters, a token a sequence without blanks.  What a document scores  *)
(* is left open: any order of the documents that are admitted is possible. *)
(***************************************************************************)
EXTENDS SequencesExt, FiniteSetsExt, Integers

CONSTANT Synonyms   \* config/synonyms.json: tokens to sequences of tokens

ASSUME SynonymsAssumption ==
    \A token \in DOMAIN Synonyms : Synonyms[token] \in Seq(Seq(STRING))

-----------------------------------------------------------------------------
(* query_processor.cpp.                                                    *)

\* ' and the two curly ones.
Apostrophes == {"'", "lsquo", "rsquo"}

Blank == {" ", "-", ".", "/", ":", "|"}

Lower(c) == IF c = "S" THEN "s" ELSE c

Normalize(text) ==
    LET AddBlank(out) == IF out = <<>> \/ Last(out) = " " THEN out ELSE Append(out, " ")
        end == FoldLeft(LAMBDA out, c : IF c \in Apostrophes THEN out
                                        ELSE IF c \in Blank THEN AddBlank(out)
                                        ELSE Append(out, Lower(c)),
                        <<>>, text)
    IN IF end # <<>> /\ Last(end) = " " THEN SubSeq(end, 1, Len(end) - 1) ELSE end

Without(words, dropped) ==
    FoldLeft(LAMBDA s, w : IF w \in dropped THEN s ELSE Append(s, w), <<>>, words)

Tokenize(normalized) ==
    LET words == FoldLeft(LAMBDA s, c :
                            IF c = " " THEN Append(s, <<>>)
                            ELSE [s EXCEPT ![Len(s)] = Append(@, c)],
                          << <<>> >>, normalized)
    IN Without(words, {<<>>})

Cut(token, n) == SubSeq(token, 1, Len(token) - n)

Stem(token) ==
    IF Len(token) > 5 /\ IsSuffix(<<"i", "n", "g">>, token) THEN Cut(token, 3)
    ELSE IF Len(token) > 4 /\ IsSuffix(<<"i", "e", "s">>, token) THEN Cut(token, 3) \o <<"y">>
    ELSE IF Len(token) > 3 /\ IsSuffix(<<"e", "s">>, token) THEN Cut(token, 2)
    ELSE IF Len(token) > 3 /\ IsSuffix(<<"s">>, token) THEN Cut(token, 1)
    ELSE token

\* stopwords() and the "s" that process leaves out.
Stopwords == {<<"s">>, <<"a">>, <<"i", "t">>}

\* addExpandedToken: a token and its synonyms, each of them once.
AddUnseen(tokens, new) ==
    FoldLeft(LAMBDA s, x : IF Contains(s, x) THEN s ELSE Append(s, x), tokens, new)

WithSynonyms(token) ==
    <<token>> \o (IF token \in DOMAIN Synonyms THEN Synonyms[token] ELSE <<>>)

Process(text) ==
    LET words == Without(Tokenize(Normalize(text)), Stopwords)
    IN FoldLeft(LAMBDA s, w : AddUnseen(s, WithSynonyms(Stem(w))), <<>>, words)

-----------------------------------------------------------------------------
(* query_engine.cpp: the spelling of unknown tokens.                       *)

Least(a, b) == IF a <= b THEN a ELSE b

TooFar == 1000

FirstRow(b) == [j \in 0 .. Len(b) |-> j]

NextRow(prev, i, a, b) ==
    LET curr[j \in 0 .. Len(b)] ==
          IF j = 0 THEN i
          ELSE Least(Least(prev[j] + 1, curr[j - 1] + 1),
                     prev[j - 1] + IF a[i] = b[j] THEN 0 ELSE 1)
    IN curr

RowMin(row) == Min({row[j] : j \in DOMAIN row})

\* Variant: a row whose least distance is 2 ends the comparison.
GivesUpEarly(row) == RowMin(row) >= 2

GivesUp(row) == RowMin(row) > 2

EditDistanceAtMostTwo(left, right) ==
    LET a == IF Len(left) <= Len(right) THEN left ELSE right
        b == IF Len(left) <= Len(right) THEN right ELSE left
        row[i \in 0 .. Len(a)] == IF i = 0 THEN FirstRow(b) ELSE NextRow(row[i - 1], i, a, b)
    IN IF left = right THEN 0
       ELSE IF Len(b) - Len(a) > 2 \/ \E i \in 1 .. Len(a) : GivesUp(row[i]) THEN TooFar
       ELSE row[Len(a)][Len(b)]

-----------------------------------------------------------------------------
(* What rocksdb_store.cpp, forEachSearchDocument, hands to the index.  A   *)
(* row is what the families hold under one key: each a set of at most one  *)
(* value, empty when the record is missing or malformed.                   *)

Value(family, default) == IF family = {} THEN default ELSE CHOOSE v \in family : TRUE

Joined(row) ==
    LET parsed == Value(row.parsed, {})
    IN [doc_id |-> row.doc_id, url |-> row.url,
        body |-> parsed.body, title |-> parsed.title, description |-> parsed.description,
        status |-> Value(row.fetch, 0), is_duplicate |-> Value(row.content, FALSE),
        spam |-> Value(row.quality, FALSE), noindex |-> Value(row.control, FALSE)]

\* Text is what a document must have; any other record may be missing.
SearchDocuments(rows) == {Joined(r) : r \in {x \in rows : x.url # <<>> /\ x.parsed # {}}}

-----------------------------------------------------------------------------
(* index_searcher.cpp.                                                     *)

Fields == {"body", "title", "description", "url"}

Indexed(record) ==
    /\ record.doc_id # 0
    /\ record.status = 200
    /\ record.url # <<>> /\ record.body # <<>>
    /\ ~record.noindex
    /\ ~record.is_duplicate
    /\ ~record.spam

Load(rows) == {r \in SearchDocuments(rows) : Indexed(r)}

Terms(document) == UNION {ToSet(Process(document[f])) : f \in Fields}

Vocabulary(index) == UNION {Terms(d) : d \in index}

PostingsFromToken(index, token) == {d \in index : token \in Terms(d)}

\* Of up to two lists one must hold the document, of more lists half.
RequiredMatches(n) == IF n <= 2 THEN 1 ELSE (n + 1) \div 2

Matched(tokens, document) == {i \in DOMAIN tokens : tokens[i] \in Terms(document)}

Retrieve(index, tokens) ==
    LET lists == {i \in DOMAIN tokens : PostingsFromToken(index, tokens[i]) # {}}
    IN {d \in index : /\ lists # {}
                      /\ Cardinality(Matched(tokens, d)) >= RequiredMatches(Cardinality(lists))}

\* The vocabulary near an unknown token, the nearest first; equal distances
\* follow the order of the strings, here any order.
Nearest(index, token) ==
    LET near == {v \in Vocabulary(index) :
                   v[1] = token[1] /\ EditDistanceAtMostTwo(token, v) <= 2}
    IN {s \in SetToSeqs(near) :
          \A i, j \in DOMAIN s : i < j => EditDistanceAtMostTwo(token, s[i])
                                           <= EditDistanceAtMostTwo(token, s[j])}

FirstThree(s) == SubSeq(s, 1, Least(3, Len(s)))

Expansions(index, token) == FirstThree(CHOOSE n \in Nearest(index, token) : TRUE)

ExpandWithFuzzyTokens(index, tokens) ==
    FoldLeft(LAMBDA s, t : IF Len(t) >= 4 /\ PostingsFromToken(index, t) = {}
                             THEN AddUnseen(s, Expansions(index, t)) ELSE s,
             tokens, tokens)

\* The tokens QueryEngine::search goes on with.
EffectiveTokens(index, tokens) ==
    IF Retrieve(index, tokens) # {} THEN tokens ELSE ExpandWithFuzzyTokens(index, tokens)

\* Variant: rank admits whatever one token matches.
AdmittedAny(index, tokens) == {d \in index : Matched(tokens, d) # {}}

\* What rank gives a score: the candidates, or, when there are none, every
\* document that one token matches.
Admitted(index, tokens) ==
    LET candidates == Retrieve(index, tokens)
    IN IF candidates # {} THEN candidates
       ELSE {d \in index : Matched(tokens, d) # {}}

Search(index, text) ==
    LET tokens == Process(text)
    IN IF tokens = <<>> THEN {} ELSE Admitted(index, EffectiveTokens(index, tokens))

-----------------------------------------------------------------------------
(* result_builder.cpp.                                                     *)

NoHash == ""

Dedupe(ranked) ==
    FoldLeft(LAMBDA s, d : IF d.hash # NoHash /\ \E i \in DOMAIN s : s[i].hash = d.hash
                             THEN s ELSE Append(s, d),
             <<>>, ranked)

Clamp(n, low, high) == IF n < low THEN low ELSE IF n > high THEN high ELSE n

\* Variant: pages are counted from 0.
StartFromZero(page, limit) == page * limit

Start(page, limit) == (page - 1) * limit

Build(ranked, page, limit) ==
    LET deduped == Dedupe(ranked)
        shown == Clamp(limit, 1, 100)
        start == Start(IF page < 1 THEN 1 ELSE page, shown)
    IN [total |-> Len(deduped),
        results |-> IF start >= Len(deduped) THEN <<>>
                    ELSE SubSeq(deduped, start + 1, Least(Len(deduped), start + shown))]

=============================================================================
