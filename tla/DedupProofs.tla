---------------------------- MODULE DedupProofs ----------------------------
(***************************************************************************)
(* The cleanup of an old database: for every database, wherever the        *)
(* process dies and whatever is crawled in between, no page loses its      *)
(* document or its id, and a cleanup that ends leaves a clean database.    *)
(***************************************************************************)
EXTENDS Dedup, FiniteSetTheorems, WellFoundedInduction, TLAPS

\* A set of numbers has a least one.
LEMMA Least ==
    ASSUME NEW S \in SUBSET Nat, S # {}
    PROVE  \E x \in S : \A y \in S : x <= y
<1> DEFINE R == OpToRel(<, Nat)
<1>1. IsWellFoundedOn(R, Nat)
  BY NatLessThanWellFounded
<1>2. \A x, y \in Nat : <<y, x>> \in R <=> y < x
  BY DEF OpToRel
<1> HIDE DEF R
<1>3. PICK x \in S : \A y \in S : ~ (<<y, x>> \in R)
  BY <1>1, WFMin
<1>4. \A y \in S : x <= y
  <2>1. \A y \in S : x \in Nat /\ y \in Nat /\ ~ (y < x)
    BY <1>2, <1>3
  <2>2. QED
    BY <2>1
<1>5. QED
  BY <1>4

LEMMA MinIs ==
    ASSUME NEW S \in SUBSET Nat, S # {}
    PROVE  Min(S) \in S /\ \A y \in S : Min(S) <= y
<1>1. \E x \in S : \A y \in S : x <= y
  BY Least
<1>2. QED
  BY <1>1 DEF Min

LEMMA MaxIs ==
    ASSUME NEW S \in SUBSET Nat, S # {}, NEW n \in Nat, \A x \in S : x <= n
    PROVE  Max(S) \in S /\ \A y \in S : y <= Max(S)
<1> DEFINE T == {m \in Nat : \A x \in S : x <= m}
<1>1. PICK m \in T : \A k \in T : m <= k
  <2>1. n \in T
    OBVIOUS
  <2>2. QED
    BY <2>1, Least
<1>2. m \in S
  <2>1. SUFFICES ASSUME m \notin S PROVE FALSE
    OBVIOUS
  <2>2. \A x \in S : x <= m /\ x # m /\ x \in Nat
    BY <2>1
  <2>3. m \in Nat /\ m # 0
    <3>1. PICK x \in S : TRUE
      OBVIOUS
    <3>2. m \in Nat
      OBVIOUS
    <3>3. x <= m /\ x # m /\ x \in Nat
      BY <2>2
    <3>4. QED
      BY <3>2, <3>3
  <2>4. m - 1 \in T
    BY <2>2, <2>3
  <2>5. QED
    <3>1. m <= m - 1
      BY <1>1, <2>4
    <3>2. QED
      BY <2>3, <3>1
<1>3. \E x \in S : \A y \in S : x >= y
  BY <1>2
<1>4. QED
  BY <1>3 DEF Max

LEMMA AtMostOne ==
    ASSUME NEW S, \A x, y \in S : x = y
    PROVE  Cardinality(S) <= 1
<1>1. CASE S = {}
  BY <1>1, FS_EmptySet
<1>2. CASE S # {}
  <2>1. PICK x : S = {x}
    BY <1>2
  <2>2. QED
    BY <2>1, FS_Singleton
<1>3. QED
  BY <1>1, <1>2

(***************************************************************************)
(* Types.                                                                  *)
(***************************************************************************)

Typed ==
    /\ core \in [Hash -> (0 .. MaxDocId) \cup {NoRecord}]
    /\ other \subseteq Hash
    /\ domain \subseteq Nat \X Hash
    /\ next_doc_id \in Nat \ {0}
    /\ legacy \in Seq(URL)
    /\ pc \in {"off", "docs", "domain", "next_id"}
    /\ dups \subseteq Hash
    /\ kept \in [URL -> Hash \cup {0}]
    /\ victims \subseteq domain
    /\ first \in [URL -> Nat]
    /\ cut \in BOOLEAN /\ cleaned \in BOOLEAN /\ repaired \in BOOLEAN

LEMMA RankIsNat ==
    ASSUME Typed, NEW h \in Hash, core[h] # NoRecord
    PROVE  core[h] \in 0 .. MaxDocId /\ DocIdRank(core[h]) \in Nat \ {0}
<1>1. core[h] \in 0 .. MaxDocId /\ MaxDocId \in Nat
  BY DedupAssumption DEF Typed
<1>2. QED
  BY <1>1 DEF DocIdRank

LEMMA KeyOfUrl ==
    ASSUME NEW u \in URL
    PROVE  Sha[u] \in Hash /\ UrlOf[Sha[u]] = u
BY DedupAssumption

LEMMA LowestIs ==
    ASSUME Typed, NEW u \in URL, Stored(u) # {}
    PROVE  /\ \E h \in Stored(u) : LowestRank(u) = DocIdRank(core[h])
           /\ \A h \in Stored(u) : LowestRank(u) <= DocIdRank(core[h])
           /\ LowestRank(u) \in Nat \ {0}
<1> DEFINE ranks == {DocIdRank(core[h]) : h \in Stored(u)}
<1>1. \A h \in Stored(u) : h \in Hash /\ core[h] # NoRecord
  BY DEF Stored
<1>2. \A h \in Stored(u) : DocIdRank(core[h]) \in Nat \ {0}
  BY <1>1, RankIsNat
<1>3. ranks \in SUBSET Nat /\ ranks # {}
  BY <1>2
<1>4. LowestRank(u) = Min(ranks)
  BY DEF LowestRank
<1>5. Min(ranks) \in ranks /\ \A r \in ranks : Min(ranks) <= r
  <2> HIDE DEF ranks
  <2>1. QED
    BY <1>3, MinIs
<1>6. QED
  BY <1>2, <1>4, <1>5

\* The key that is kept is stored, and no stored one has a lower id.
LEMMA KeptIs ==
    ASSUME Typed, NEW u \in URL, Stored(u) # {}
    PROVE  /\ KeptHash(u) \in Stored(u)
           /\ \A h \in Stored(u) : DocIdRank(core[KeptHash(u)]) <= DocIdRank(core[h])
<1> DEFINE best == {h \in Stored(u) : DocIdRank(core[h]) = LowestRank(u)}
<1>1. /\ \E h \in Stored(u) : LowestRank(u) = DocIdRank(core[h])
      /\ \A h \in Stored(u) : LowestRank(u) <= DocIdRank(core[h])
  BY LowestIs
<1>2. best \in SUBSET Nat /\ best # {}
  BY <1>1, DedupAssumption DEF Stored
<1>3. KeptHash(u) = Min(best)
  BY DEF KeptHash
<1>4. Min(best) \in best
  <2> HIDE DEF best
  <2>1. QED
    BY <1>2, MinIs
<1>5. QED
  BY <1>1, <1>3, <1>4

\* What a crawl does, without the record of an older key of the page.
LEMMA CrawlEffect ==
    ASSUME Typed, NEW u \in URL, Crawl(u)
    PROVE  LET h == Sha[u]
           IN /\ h \in Hash /\ UrlOf[h] = u /\ pc = "off"
              /\ next_doc_id \in 1 .. MaxDocId
              /\ cleaned' = FALSE /\ other' = other \cup {h}
              /\ UNCHANGED <<legacy, pc, dups, kept, victims, cut, repaired>>
              /\ first' = IF first[u] = 0 THEN [first EXCEPT ![u] = next_doc_id] ELSE first
              /\ \/ /\ core[h] \notin {NoRecord, 0}
                    /\ UNCHANGED <<core, domain, next_doc_id>>
                 \/ /\ core[h] \in {NoRecord, 0}
                    /\ core' = [core EXCEPT ![h] = next_doc_id]
                    /\ domain' = domain \cup {<<next_doc_id, h>>}
                    /\ next_doc_id' = next_doc_id + 1
<1>1. next_doc_id \in 1 .. MaxDocId
  BY DedupAssumption DEF Crawl, Typed
<1>2. QED
  BY <1>1, KeyOfUrl DEF Crawl, cleanupVars

LEMMA RequiredIs ==
    ASSUME Typed, \A u \in URL : kept[u] # 0 => core[kept[u]] # NoRecord
    PROVE  /\ RequiredNextDocId \in Nat
           /\ \A u \in URL : kept[u] # 0 => core[kept[u]] < RequiredNextDocId
<1> DEFINE ids == {0} \cup {core[kept[u]] : u \in {v \in URL : kept[v] # 0}}
<1>1. \A u \in URL : kept[u] # 0 => core[kept[u]] \in 0 .. MaxDocId
  <2> SUFFICES ASSUME NEW u \in URL, kept[u] # 0
               PROVE  core[kept[u]] \in 0 .. MaxDocId
    OBVIOUS
  <2>1. kept[u] \in Hash /\ core[kept[u]] # NoRecord
    BY DEF Typed
  <2>2. QED
    BY <2>1, RankIsNat
<1>2. ids \in SUBSET Nat /\ ids # {} /\ MaxDocId \in Nat /\ \A x \in ids : x <= MaxDocId
  BY <1>1, DedupAssumption
<1>3. RequiredNextDocId = 1 + Max(ids)
  BY DEF RequiredNextDocId
<1>4. Max(ids) \in ids /\ \A x \in ids : x <= Max(ids)
  <2> HIDE DEF ids
  <2>1. QED
    BY <1>2, MaxIs
<1>5. Max(ids) \in Nat
  BY <1>2, <1>4
<1>6. \A u \in URL : kept[u] # 0 => core[kept[u]] \in ids
  OBVIOUS
<1> HIDE DEF ids
<1>7. \A u \in URL : kept[u] # 0 => core[kept[u]] < 1 + Max(ids)
  BY <1>1, <1>4, <1>5, <1>6
<1>8. QED
  BY <1>3, <1>5, <1>7

LEMMA NextIs ==
    ASSUME NEW m \in Nat, NEW n \in Nat
    PROVE  Max({m, n}) \in Nat /\ m <= Max({m, n}) /\ n <= Max({m, n})
<1> DEFINE b == IF m < n THEN n ELSE m
<1>1. {m, n} \in SUBSET Nat /\ b \in Nat /\ \A x \in {m, n} : x <= b
  OBVIOUS
<1>2. Max({m, n}) \in {m, n} /\ \A x \in {m, n} : x <= Max({m, n})
  BY <1>1, MaxIs
<1>3. QED
  BY <1>2

\* A list without its repetitions is a list of the same URLs, each one once.
\* The n-th first occurrence is the least place with n of them up to it.
LEMMA UniqueIs ==
    ASSUME NEW s \in Seq(URL)
    PROVE  /\ Unique(s) \in Seq(URL)
           /\ \A i, j \in 1 .. Len(Unique(s)) : i # j => Unique(s)[i] # Unique(s)[j]
<1> DEFINE firsts == {i \in 1 .. Len(s) : \A j \in 1 .. i - 1 : s[j] # s[i]}
           upto(k) == {j \in firsts : j <= k}
           count == [k \in 0 .. Len(s) |-> Cardinality(upto(k))]
           total == Cardinality(firsts)
           nth(n) == CHOOSE i \in firsts : Cardinality({j \in firsts : j <= i}) = n
<1>1. Len(s) \in Nat /\ firsts \subseteq 1 .. Len(s) /\ IsFiniteSet(firsts)
  <2>1. Len(s) \in Nat /\ firsts \in SUBSET (1 .. Len(s))
    OBVIOUS
  <2>2. IsFiniteSet(1 .. Len(s))
    BY <2>1, FS_Interval
  <2> HIDE DEF firsts
  <2>3. QED
    BY <2>1, <2>2, FS_Subset
<1>2. \A i, j \in firsts : i # j => s[i] # s[j]
  <2> SUFFICES ASSUME NEW i \in firsts, NEW j \in firsts, i < j PROVE s[i] # s[j]
    BY <1>1
  <2>1. i \in 1 .. j - 1
    BY <1>1
  <2>2. QED
    BY <2>1
<1> HIDE DEF firsts
<1>3. \A j \in firsts : j \in Int /\ 1 <= j /\ j <= Len(s)
  BY <1>1
<1>4. \A k \in 0 .. Len(s) : IsFiniteSet(upto(k)) /\ count[k] \in Nat
  <2> SUFFICES ASSUME NEW k \in 0 .. Len(s)
               PROVE  IsFiniteSet(upto(k)) /\ Cardinality(upto(k)) \in Nat
    OBVIOUS
  <2>1. upto(k) \in SUBSET firsts
    OBVIOUS
  <2> HIDE DEF upto
  <2>2. QED
    BY <1>1, <2>1, FS_Subset, FS_CardinalityType
<1>5. count[0] = 0
  <2>1. upto(0) = {}
    <3>1. \A j \in firsts : ~ (j <= 0)
      BY <1>3
    <3>2. QED
      BY <3>1
  <2>2. QED
    BY <1>1, <2>1, FS_EmptySet
<1>6. count[Len(s)] = total
  <2>1. upto(Len(s)) = firsts
    BY <1>3
  <2>2. Len(s) \in 0 .. Len(s)
    BY <1>1
  <2>3. count[Len(s)] = Cardinality(upto(Len(s)))
    BY <2>2
  <2>4. QED
    BY <2>1, <2>3
<1>7. \A k \in 1 .. Len(s) :
        count[k] = IF k \in firsts THEN count[k - 1] + 1 ELSE count[k - 1]
  <2> SUFFICES ASSUME NEW k \in 1 .. Len(s)
               PROVE  count[k] = IF k \in firsts THEN count[k - 1] + 1 ELSE count[k - 1]
    OBVIOUS
  <2>1. k - 1 \in 0 .. Len(s) /\ k \in 0 .. Len(s)
    BY <1>1
  <2>2. upto(k) = IF k \in firsts THEN upto(k - 1) \cup {k} ELSE upto(k - 1)
    <3>1. \A j \in firsts : j <= k <=> (j = k \/ j <= k - 1)
      BY <1>3, <2>1
    <3>2. \A j : j \in upto(k) <=> (j \in upto(k - 1) \/ (j = k /\ k \in firsts))
      <4> SUFFICES ASSUME NEW j
                   PROVE  (j \in firsts /\ j <= k)
                            <=> ((j \in firsts /\ j <= k - 1) \/ (j = k /\ k \in firsts))
        OBVIOUS
      <4>1. QED
        BY <1>3, <3>1
    <3> HIDE DEF upto
    <3>3. QED
      BY <3>2
  <2>3. k \notin upto(k - 1)
    OBVIOUS
  <2>4. IsFiniteSet(upto(k - 1))
    BY <1>4, <2>1
  <2>5. /\ count[k] = Cardinality(upto(k))
        /\ count[k - 1] = Cardinality(upto(k - 1))
    BY <2>1
  <2> HIDE DEF upto, count
  <2>6. Cardinality(upto(k - 1) \cup {k}) = Cardinality(upto(k - 1)) + 1
    BY <2>3, <2>4, FS_AddElement
  <2>7. QED
    BY <2>2, <2>5, <2>6
<1>8. total \in Nat
  BY <1>1, FS_CardinalityType
<1>9. \A k \in firsts : count[k] = Cardinality({j \in firsts : j <= k})
  BY <1>1
<1> HIDE DEF count, total, upto
<1>10. ASSUME NEW n \in 1 .. total
      PROVE  nth(n) \in firsts /\ count[nth(n)] = n
  <2> DEFINE T == {k \in 0 .. Len(s) : n <= count[k]}
  <2>1. Len(s) \in T
    BY <1>1, <1>6, <1>8
  <2>2. T \in SUBSET Nat
    BY <1>1
  <2>3. PICK k \in T : \A l \in T : k <= l
    <3> HIDE DEF T
    <3>1. QED
      BY <2>1, <2>2, Least
  <2>4. k \in 1 .. Len(s)
    BY <1>1, <1>5, <1>8
  <2>5. k - 1 \in 0 .. Len(s) /\ k - 1 \notin T
    <3>1. k - 1 \in 0 .. Len(s)
      BY <2>4
    <3>2. k - 1 \in T => k <= k - 1
      BY <2>3
    <3>3. QED
      BY <2>4, <3>1, <3>2
  <2>6. count[k - 1] < n /\ n <= count[k] /\ count[k - 1] \in Nat /\ count[k] \in Nat
    BY <1>4, <1>8, <2>4, <2>5
  <2>7. k \in firsts /\ count[k] = n
    BY <1>7, <1>8, <2>4, <2>6
  <2>8. \E i \in firsts : Cardinality({j \in firsts : j <= i}) = n
    BY <1>9, <2>7
  <2>9. nth(n) \in firsts /\ Cardinality({j \in firsts : j <= nth(n)}) = n
    BY <2>8
  <2>10. QED
    BY <1>9, <2>9
<1>11. Unique(s) = [n \in 1 .. total |-> s[nth(n)]]
  BY DEF Unique, firsts, total
<1>12. \A i, j \in 1 .. total : i # j => s[nth(i)] # s[nth(j)]
  <2> SUFFICES ASSUME NEW i \in 1 .. total, NEW j \in 1 .. total, i # j
               PROVE  s[nth(i)] # s[nth(j)]
    OBVIOUS
  <2>1. nth(i) \in firsts /\ nth(j) \in firsts /\ count[nth(i)] = i /\ count[nth(j)] = j
    BY <1>10
  <2> HIDE DEF nth
  <2>2. nth(i) # nth(j)
    BY <2>1
  <2>3. QED
    BY <1>2, <2>1, <2>2
<1>13. \A n \in 1 .. total : s[nth(n)] \in URL
  <2> SUFFICES ASSUME NEW n \in 1 .. total PROVE s[nth(n)] \in URL
    OBVIOUS
  <2>1. nth(n) \in 1 .. Len(s)
    BY <1>1, <1>10
  <2> HIDE DEF nth
  <2>2. QED
    BY <2>1
<1> DEFINE e == [n \in 1 .. total |-> s[nth(n)]]
<1>14. e \in [1 .. total -> URL] /\ \A i, j \in 1 .. total : i # j => e[i] # e[j]
  BY <1>12, <1>13
<1> HIDE DEF e
<1>15. e \in Seq(URL) /\ Len(e) = total
  BY <1>8, <1>14
<1>16. QED
  BY <1>11, <1>14, <1>15 DEF e

LEMMA TypedInit == Init => Typed
<1> SUFFICES ASSUME Init PROVE Typed
  OBVIOUS
<1>1. core \in [Hash -> (0 .. MaxDocId) \cup {NoRecord}] /\ MaxDocId \in Nat \ {0}
  BY DedupAssumption DEF Init
<1>2. other \subseteq Hash /\ other = {h \in Hash : core[h] # NoRecord}
  BY DEF Init
<1>3. domain \subseteq Nat \X Hash
  <2>1. PICK right \in SUBSET {<<core[h], h>> : h \in {g \in other : core[g] # 0}},
             wrong \in SUBSET (((1 .. MaxDocId - 1) \ Ids) \X other) :
           domain = right \cup wrong
    BY DEF Init
  <2>2. right \subseteq Nat \X Hash
    <3>1. \A h \in other : core[h] \in Nat /\ h \in Hash
      BY <1>1, <1>2
    <3>2. QED
      BY <3>1
  <2>3. wrong \subseteq Nat \X Hash
    BY <1>2
  <2>4. QED
    BY <2>1, <2>2, <2>3
<1>4. next_doc_id \in Nat \ {0} /\ legacy \in Seq(URL)
  BY DedupAssumption DEF Init
<1>5. first \in [URL -> Nat]
  <2>1. \A u \in URL : (IF Stored(u) = {} THEN 0 ELSE LowestRank(u)) \in Nat
    <3> SUFFICES ASSUME NEW u \in URL, Stored(u) # {} PROVE LowestRank(u) \in Nat
      OBVIOUS
    <3> DEFINE ranks == {DocIdRank(core[h]) : h \in Stored(u)}
    <3>1. \A h \in Stored(u) : core[h] \in 0 .. MaxDocId
      BY <1>1 DEF Stored
    <3>2. ranks \in SUBSET Nat /\ ranks # {}
      BY <1>1, <3>1 DEF DocIdRank
    <3>3. Min(ranks) \in ranks
      <4> HIDE DEF ranks
      <4>1. QED
        BY <3>2, MinIs
    <3>4. LowestRank(u) = Min(ranks)
      BY DEF LowestRank
    <3>5. QED
      BY <3>2, <3>3, <3>4
  <2>2. first = [u \in URL |-> IF Stored(u) = {} THEN 0 ELSE LowestRank(u)]
    BY DEF Init
  <2>3. QED
    BY <2>1, <2>2
<1>6. kept \in [URL -> Hash \cup {0}]
  BY DEF Init
<1>7. /\ pc = "off" /\ dups = {} /\ victims = {} /\ cut = FALSE
      /\ cleaned = FALSE /\ repaired = FALSE
  BY DEF Init
<1>8. core \in [Hash -> (0 .. MaxDocId) \cup {NoRecord}]
  BY <1>1
<1>9. QED
  BY <1>2, <1>3, <1>4, <1>5, <1>6, <1>7, <1>8 DEF Typed

\* While a cleanup runs, the key it keeps of a URL is stored, none that is
\* still stored has a lower id, and all others are duplicates.
KeptStays ==
    pc # "off" =>
      \A u \in URL :
        /\ kept[u] = 0 => Stored(u) = {}
        /\ kept[u] # 0 =>
             /\ kept[u] \in Stored(u) /\ kept[u] \notin dups
             /\ \A h \in Stored(u) : /\ DocIdRank(core[kept[u]]) <= DocIdRank(core[h])
                                     /\ h = kept[u] \/ h \in dups

LEMMA TypedStep == Typed /\ KeptStays /\ [Next]_vars => Typed'
<1> SUFFICES ASSUME Typed, KeptStays, [Next]_vars PROVE Typed'
  OBVIOUS
<1> USE DEF tableVars, cleanupVars, historyVars
<1>1. CASE StartCleanup
  <2>1. kept' \in [URL -> Hash \cup {0}]
    <3>1. \A u \in URL : Stored(u) # {} => KeptHash(u) \in Hash
      BY KeptIs DEF Stored
    <3>2. kept' = [u \in URL |-> IF Stored(u) = {} THEN 0 ELSE KeptHash(u)]
      BY <1>1 DEF StartCleanup
    <3>3. QED
      BY <3>1, <3>2
  <2>2. dups' \subseteq Hash
    <3>1. dups' = UNION {Stored(u) \ {KeptHash(u)} : u \in {v \in URL : Stored(v) # {}}}
      BY <1>1 DEF StartCleanup
    <3>2. \A u \in URL : Stored(u) \subseteq Hash
      BY DEF Stored
    <3>3. QED
      BY <3>1, <3>2
  <2>3. pc' = "docs" /\ cleaned' = FALSE
        /\ UNCHANGED <<core, other, domain, next_doc_id, legacy, victims, cut, first, repaired>>
    BY <1>1 DEF StartCleanup
  <2>4. QED
    BY <2>1, <2>2, <2>3 DEF Typed
<1>2. ASSUME NEW h \in Hash, DeleteCore(h) PROVE Typed'
  <2>1. core' \in [Hash -> (0 .. MaxDocId) \cup {NoRecord}]
    BY <1>2 DEF DeleteCore, Typed
  <2>2. QED
    BY <1>2, <2>1 DEF DeleteCore, Typed
<1>3. ASSUME NEW h \in Hash, DeleteOthers(h) PROVE Typed'
  BY <1>3 DEF DeleteOthers, Typed
<1>4. CASE FindVictims
  <2>1. victims' \subseteq domain' /\ pc' = "domain"
    BY <1>4 DEF FindVictims
  <2>2. QED
    BY <1>4, <2>1 DEF FindVictims, Typed
<1>5. ASSUME NEW e \in victims, DeleteEntry(e) PROVE Typed'
  BY <1>5 DEF DeleteEntry, Typed
<1>6. CASE CleanPending
  <2>1. legacy' \in Seq(URL)
    BY <1>6, UniqueIs DEF CleanPending, Typed
  <2>2. QED
    BY <1>6, <2>1 DEF CleanPending, Typed
<1>7. CASE RepairNextDocId
  <2>1. next_doc_id' \in Nat \ {0}
    <3>1. next_doc_id' = Max({next_doc_id, RequiredNextDocId})
      BY <1>7 DEF RepairNextDocId
    <3>2. \A u \in URL : kept[u] # 0 => core[kept[u]] # NoRecord
      BY <1>7 DEF RepairNextDocId, KeptStays, Stored
    <3>3. RequiredNextDocId \in Nat
      BY <3>2, RequiredIs
    <3>4. next_doc_id \in Nat \ {0}
      BY DEF Typed
    <3>5. next_doc_id' \in Nat /\ next_doc_id <= next_doc_id'
      BY <3>1, <3>3, <3>4, NextIs
    <3>6. QED
      BY <3>4, <3>5
  <2>2. QED
    BY <1>7, <2>1 DEF RepairNextDocId, Typed
<1>8. CASE Crash
  BY <1>8 DEF Crash, Typed
<1>9. ASSUME NEW u \in URL, Crawl(u) PROVE Typed'
  <2> DEFINE h == Sha[u]
  <2>1. /\ h \in Hash /\ next_doc_id \in 1 .. MaxDocId
        /\ cleaned' = FALSE /\ other' = other \cup {h}
        /\ UNCHANGED <<legacy, pc, dups, kept, victims, cut, repaired>>
        /\ first' = IF first[u] = 0 THEN [first EXCEPT ![u] = next_doc_id] ELSE first
    BY <1>9, CrawlEffect
  <2>2. \/ UNCHANGED <<core, domain, next_doc_id>>
        \/ /\ core' = [core EXCEPT ![h] = next_doc_id]
           /\ domain' = domain \cup {<<next_doc_id, h>>}
           /\ next_doc_id' = next_doc_id + 1
    BY <1>9, CrawlEffect
  <2>3. MaxDocId \in Nat
    BY DedupAssumption
  <2> HIDE DEF h
  <2>4. core' \in [Hash -> (0 .. MaxDocId) \cup {NoRecord}]
    BY <2>1, <2>2, <2>3 DEF Typed
  <2>5. domain' \subseteq Nat \X Hash /\ victims' \subseteq domain'
    BY <2>1, <2>2 DEF Typed
  <2>6. next_doc_id' \in Nat \ {0}
    BY <2>1, <2>2
  <2>7. first' \in [URL -> Nat]
    BY <2>1 DEF Typed
  <2>8. other' \subseteq Hash
    BY <2>1 DEF Typed
  <2>9. QED
    BY <2>1, <2>4, <2>5, <2>6, <2>7, <2>8 DEF Typed
<1>10. CASE UNCHANGED vars
  BY <1>10 DEF vars, Typed
<1>11. QED
  BY <1>1, <1>2, <1>3, <1>4, <1>5, <1>6, <1>7, <1>8, <1>9, <1>10 DEF Next

\* The duplicates are exactly what StartCleanup does not keep.
LEMMA StartIs ==
    ASSUME Typed, StartCleanup
    PROVE  /\ \A u \in URL : kept'[u] = IF Stored(u) = {} THEN 0 ELSE KeptHash(u)
           /\ \A u \in URL : Stored(u) # {} => KeptHash(u) \notin dups'
           /\ \A u \in URL : \A h \in Stored(u) : h = KeptHash(u) \/ h \in dups'
           /\ dups' \subseteq Hash /\ \A h \in dups' : core[h] # NoRecord
           /\ pc = "off" /\ pc' = "docs"
           /\ UNCHANGED <<core, other, domain, legacy, next_doc_id, victims, cut, first, repaired>>
<1>1. /\ kept' = [u \in URL |-> IF Stored(u) = {} THEN 0 ELSE KeptHash(u)]
      /\ dups' = UNION {Stored(u) \ {KeptHash(u)} : u \in {v \in URL : Stored(v) # {}}}
      /\ pc = "off" /\ pc' = "docs"
      /\ UNCHANGED <<core, other, domain, legacy, next_doc_id, victims, cut, first, repaired>>
  BY DEF StartCleanup, tableVars
<1>2. \A u, v \in URL : \A h \in Stored(u) : h \in Stored(v) => u = v
  BY DEF Stored
<1>3. \A u \in URL : Stored(u) # {} => KeptHash(u) \in Stored(u)
  BY KeptIs
<1>4. \A u \in URL : Stored(u) # {} => KeptHash(u) \notin dups'
  BY <1>1, <1>2, <1>3
<1>5. \A u \in URL : \A h \in Stored(u) : h = KeptHash(u) \/ h \in dups'
  BY <1>1
<1>6. \A h \in dups' : h \in Hash /\ core[h] # NoRecord
  BY <1>1 DEF Stored
<1>7. QED
  BY <1>1, <1>4, <1>5, <1>6

LEMMA KeptStaysStep == Typed /\ KeptStays /\ [Next]_vars => KeptStays'
<1> SUFFICES ASSUME Typed, KeptStays, [Next]_vars PROVE KeptStays'
  OBVIOUS
<1> USE DEF tableVars, cleanupVars, historyVars
<1>1. CASE StartCleanup
  <2>1. core' = core /\ \A u \in URL : Stored(u)' = Stored(u)
    BY <1>1, StartIs DEF Stored
  <2>2. \A u \in URL : kept'[u] = 0 => Stored(u) = {}
    <3>1. \A u \in URL : Stored(u) # {} => KeptHash(u) # 0
      BY KeptIs, DedupAssumption DEF Stored
    <3>2. QED
      BY <1>1, <3>1, StartIs
  <2>3. \A u \in URL : kept'[u] # 0 =>
          /\ kept'[u] \in Stored(u) /\ kept'[u] \notin dups'
          /\ \A h \in Stored(u) : /\ DocIdRank(core[kept'[u]]) <= DocIdRank(core[h])
                                  /\ h = kept'[u] \/ h \in dups'
    <3> SUFFICES ASSUME NEW u \in URL, kept'[u] # 0
                 PROVE  /\ kept'[u] \in Stored(u) /\ kept'[u] \notin dups'
                        /\ \A h \in Stored(u) :
                             /\ DocIdRank(core[kept'[u]]) <= DocIdRank(core[h])
                             /\ h = kept'[u] \/ h \in dups'
      OBVIOUS
    <3>1. Stored(u) # {} /\ kept'[u] = KeptHash(u)
      BY <1>1, StartIs
    <3>2. QED
      BY <1>1, <3>1, StartIs, KeptIs
  <2>4. QED
    BY <2>1, <2>2, <2>3 DEF KeptStays
<1>2. ASSUME NEW h \in Hash, DeleteCore(h) PROVE KeptStays'
  <2>1. /\ h \in dups /\ core' = [core EXCEPT ![h] = NoRecord] /\ pc # "off"
        /\ UNCHANGED <<pc, dups, kept>>
    BY <1>2 DEF DeleteCore, InCore
  <2>2. /\ \A g \in Hash : g # h => core'[g] = core[g]
        /\ core'[h] = NoRecord
    BY <2>1 DEF Typed
  <2>3. \A u \in URL : Stored(u)' = Stored(u) \ {h}
    BY <2>2 DEF Stored
  <2>4. \A u \in URL : \A g \in Stored(u) \ {h} : g \in Hash /\ core'[g] = core[g]
    BY <2>2 DEF Stored
  <2>5. \A u \in URL : kept[u] = 0 => Stored(u)' = {}
    BY <2>1, <2>3 DEF KeptStays
  <2>6. ASSUME NEW u \in URL, kept[u] # 0
        PROVE  /\ kept[u] \in Stored(u)' /\ kept[u] \notin dups
               /\ \A g \in Stored(u)' : /\ DocIdRank(core'[kept[u]]) <= DocIdRank(core'[g])
                                        /\ g = kept[u] \/ g \in dups
    <3>1. kept[u] \in Stored(u) \ {h} /\ kept[u] \notin dups
      BY <2>1, <2>6 DEF KeptStays
    <3>2. \A g \in Stored(u) \ {h} : /\ DocIdRank(core[kept[u]]) <= DocIdRank(core[g])
                                     /\ g = kept[u] \/ g \in dups
      BY <2>1, <2>6 DEF KeptStays
    <3>3. core'[kept[u]] = core[kept[u]]
      BY <2>4, <3>1
    <3>4. \A g \in Stored(u) \ {h} :
            /\ DocIdRank(core'[kept[u]]) <= DocIdRank(core'[g])
            /\ g = kept[u] \/ g \in dups
      BY <2>4, <3>2, <3>3
    <3>5. Stored(u)' = Stored(u) \ {h}
      BY <2>3
    <3>6. QED
      BY <3>1, <3>4, <3>5
  <2>7. QED
    BY <2>1, <2>5, <2>6 DEF KeptStays
<1>3. ASSUME NEW h \in Hash, DeleteOthers(h) PROVE KeptStays'
  BY <1>3 DEF DeleteOthers, KeptStays, Stored
<1>4. CASE FindVictims
  BY <1>4 DEF FindVictims, KeptStays, Stored
<1>5. ASSUME NEW e \in victims, DeleteEntry(e) PROVE KeptStays'
  BY <1>5 DEF DeleteEntry, KeptStays, Stored
<1>6. CASE CleanPending
  BY <1>6 DEF CleanPending, KeptStays, Stored
<1>7. CASE RepairNextDocId \/ Crash
  BY <1>7 DEF RepairNextDocId, Crash, KeptStays
<1>8. ASSUME NEW u \in URL, Crawl(u) PROVE KeptStays'
  BY <1>8 DEF Crawl, KeptStays
<1>9. CASE UNCHANGED vars
  BY <1>9 DEF vars, KeptStays, Stored
<1>10. QED
  BY <1>1, <1>2, <1>3, <1>4, <1>5, <1>6, <1>7, <1>8, <1>9 DEF Next

LEMMA TypedAlways == Spec => [](Typed /\ KeptStays)
<1>1. Init => KeptStays
  BY DEF Init, KeptStays
<1>2. QED
  BY <1>1, TypedInit, TypedStep, KeptStaysStep, PTL DEF Spec

(***************************************************************************)
(* No page is lost.                                                        *)
(***************************************************************************)

LowKept ==
    /\ \A h \in Hash : core[h] # NoRecord => h \in other
    /\ \A u \in URL :
         /\ first[u] = 0 => Stored(u) = {}
         /\ first[u] # 0 => \E h \in Stored(u) : DocIdRank(core[h]) <= first[u]

LEMMA LowKeptInit == Init => LowKept
<1> SUFFICES ASSUME Init PROVE LowKept
  OBVIOUS
<1>1. Typed
  BY TypedInit
<1>2. \A h \in Hash : core[h] # NoRecord => h \in other
  BY DEF Init
<1>3. ASSUME NEW u \in URL
      PROVE  /\ first[u] = 0 => Stored(u) = {}
             /\ first[u] # 0 => \E h \in Stored(u) : DocIdRank(core[h]) <= first[u]
  <2>1. first[u] = IF Stored(u) = {} THEN 0 ELSE LowestRank(u)
    BY DEF Init
  <2>2. CASE Stored(u) # {}
    <3>1. /\ LowestRank(u) \in Nat \ {0}
          /\ \E h \in Stored(u) : LowestRank(u) = DocIdRank(core[h])
      BY <1>1, <2>2, LowestIs
    <3>2. QED
      BY <2>1, <2>2, <3>1
  <2>3. QED
    BY <2>1, <2>2
<1>4. QED
  BY <1>2, <1>3 DEF LowKept

LEMMA LowKeptStep == Typed /\ KeptStays /\ LowKept /\ [Next]_vars => LowKept'
<1> SUFFICES ASSUME Typed, KeptStays, LowKept, [Next]_vars PROVE LowKept'
  OBVIOUS
<1> USE DEF tableVars, cleanupVars, historyVars
<1>1. CASE UNCHANGED <<core, other, first>>
  BY <1>1 DEF LowKept, Stored
<1>2. ASSUME NEW h \in Hash, DeleteCore(h) PROVE LowKept'
  <2>1. /\ h \in dups /\ core' = [core EXCEPT ![h] = NoRecord] /\ pc # "off"
        /\ UNCHANGED <<other, first>>
    BY <1>2 DEF DeleteCore, InCore
  <2>2. /\ \A g \in Hash : g # h => core'[g] = core[g]
        /\ core'[h] = NoRecord
    BY <2>1 DEF Typed
  <2>3. \A g \in Hash : core'[g] # NoRecord => g \in other'
    BY <2>1, <2>2 DEF LowKept
  <2>4. \A u \in URL : Stored(u)' = Stored(u) \ {h}
    BY <2>2 DEF Stored
  <2>5. ASSUME NEW u \in URL, first[u] # 0
        PROVE  \E g \in Stored(u)' : DocIdRank(core'[g]) <= first[u]
    <3>1. PICK g \in Stored(u) : DocIdRank(core[g]) <= first[u]
      BY <2>5 DEF LowKept
    <3>2. kept[u] # 0 /\ kept[u] \in Stored(u) /\ kept[u] \notin dups
          /\ DocIdRank(core[kept[u]]) <= DocIdRank(core[g])
      BY <2>1, <3>1 DEF KeptStays
    <3> DEFINE k == kept[u]
    <3>3. k \in Stored(u) \ {h} /\ k \in Hash /\ core'[k] = core[k]
      BY <2>1, <2>2, <3>2 DEF Stored
    <3>4. /\ DocIdRank(core[k]) \in Nat /\ DocIdRank(core[g]) \in Nat
          /\ first[u] \in Nat
      BY <3>1, <3>3, RankIsNat DEF Stored, Typed
    <3> HIDE DEF k
    <3>5. DocIdRank(core[k]) <= first[u]
      BY <3>1, <3>2, <3>4 DEF k
    <3>6. DocIdRank(core'[k]) <= first[u]
      BY <3>3, <3>5
    <3>7. QED
      BY <2>4, <3>3, <3>6
  <2>6. \A u \in URL : first[u] = 0 => Stored(u)' = {}
    BY <2>4 DEF LowKept
  <2>7. QED
    BY <2>1, <2>3, <2>5, <2>6 DEF LowKept
<1>3. ASSUME NEW h \in Hash, DeleteOthers(h) PROVE LowKept'
  BY <1>3 DEF DeleteOthers, Orphans, LowKept, Stored
<1>4. ASSUME NEW u \in URL, Crawl(u) PROVE LowKept'
  <2> DEFINE h == Sha[u]
             n == next_doc_id
  <2>1. /\ h \in Hash /\ UrlOf[h] = u /\ n \in 1 .. MaxDocId /\ other' = other \cup {h}
        /\ first' = IF first[u] = 0 THEN [first EXCEPT ![u] = n] ELSE first
        /\ \/ core[h] \notin {NoRecord, 0} /\ core' = core
           \/ core[h] \in {NoRecord, 0} /\ core' = [core EXCEPT ![h] = n]
    BY <1>4, CrawlEffect
  <2> HIDE DEF h, n
  <2>2. MaxDocId \in Nat /\ NoRecord \notin Nat /\ first \in [URL -> Nat]
    BY DedupAssumption DEF Typed
  <2>3. \A g \in Hash : g # h => core'[g] = core[g]
    BY <2>1 DEF Typed
  <2>4. core'[h] # NoRecord /\ h \in Stored(u)'
    <3>1. core'[h] # NoRecord
      BY <2>1, <2>2 DEF Typed
    <3>2. QED
      BY <2>1, <3>1 DEF Stored
  <2>5. \A g \in Hash : core'[g] # NoRecord => g \in other'
    BY <2>1, <2>3 DEF LowKept
  <2>6. core'[h] = core[h] \/ (DocIdRank(core'[h]) = n /\ core[h] \in {NoRecord, 0})
    <3>1. \A x \in 1 .. MaxDocId : DocIdRank(x) = x
      BY DEF DocIdRank
    <3>2. core'[h] = core[h] \/ (core'[h] = n /\ core[h] \in {NoRecord, 0})
      BY <2>1 DEF Typed
    <3>3. QED
      BY <2>1, <3>1, <3>2
  <2>7. DocIdRank(0) = MaxDocId + 1
    BY DEF DocIdRank
  <2>8. first'[u] # 0 /\ \E g \in Stored(u)' : DocIdRank(core'[g]) <= first'[u]
    <3>1. CASE first[u] = 0
      <4>1. first'[u] = n /\ Stored(u) = {}
        BY <2>1, <2>2, <3>1 DEF LowKept
      <4>2. core[h] = NoRecord
        BY <2>1, <4>1 DEF Stored
      <4>3. DocIdRank(core'[h]) = n
        BY <2>4, <2>6, <4>2
      <4>4. QED
        BY <2>1, <2>4, <4>1, <4>3
    <3>2. CASE first[u] # 0
      <4>1. first' = first
        BY <2>1, <3>2
      <4>2. PICK g \in Stored(u) : DocIdRank(core[g]) <= first[u]
        BY <3>2 DEF LowKept
      <4>3. CASE core'[g] = core[g]
        <5>1. g \in Stored(u)'
          BY <4>2, <4>3 DEF Stored
        <5>2. QED
          BY <3>2, <4>1, <4>2, <4>3, <5>1
      <4>4. CASE core'[g] # core[g]
        <5>1. g = h /\ core[h] = 0 /\ DocIdRank(core'[h]) = n
          <6>1. g \in Hash /\ core[g] # NoRecord
            BY <4>2 DEF Stored
          <6>2. g = h
            BY <2>3, <4>4, <6>1
          <6>3. QED
            BY <2>6, <4>4, <6>1, <6>2
        <5>2. MaxDocId + 1 <= first[u]
          BY <2>7, <4>2, <5>1
        <5>3. n <= first[u]
          BY <2>1, <2>2, <5>2
        <5>4. DocIdRank(core'[h]) <= first'[u]
          BY <4>1, <5>1, <5>3
        <5>5. QED
          BY <2>4, <3>2, <4>1, <5>4
      <4>5. QED
        BY <4>3, <4>4
    <3>3. QED
      BY <3>1, <3>2
  <2>9. ASSUME NEW v \in URL, v # u
        PROVE  /\ first'[v] = first[v] /\ Stored(v)' = Stored(v)
               /\ \A g \in Stored(v) : core'[g] = core[g]
    <3>1. \A g \in Hash : UrlOf[g] = v => core'[g] = core[g]
      BY <2>1, <2>3, <2>9
    <3>2. first'[v] = first[v]
      BY <2>1, <2>2, <2>9
    <3>3. QED
      BY <3>1, <3>2 DEF Stored
  <2>10. \A v \in URL :
           /\ first'[v] = 0 => Stored(v)' = {}
           /\ first'[v] # 0 => \E g \in Stored(v)' : DocIdRank(core'[g]) <= first'[v]
    <3> SUFFICES ASSUME NEW v \in URL, v # u
                 PROVE  /\ first'[v] = 0 => Stored(v)' = {}
                        /\ first'[v] # 0 =>
                             \E g \in Stored(v)' : DocIdRank(core'[g]) <= first'[v]
      BY <2>8
    <3>1. QED
      BY <2>9 DEF LowKept
  <2>11. QED
    BY <2>5, <2>10 DEF LowKept
<1>5. CASE \/ StartCleanup
           \/ FindVictims
           \/ \E e \in victims : DeleteEntry(e)
           \/ CleanPending
           \/ RepairNextDocId
           \/ Crash
           \/ UNCHANGED vars
  BY <1>1, <1>5 DEF StartCleanup, FindVictims, DeleteEntry, CleanPending,
                    RepairNextDocId, Crash, vars
<1>6. QED
  BY <1>2, <1>3, <1>4, <1>5 DEF Next

\* No page gets lost and none loses its id, wherever a cleanup dies and
\* whatever is crawled or cleaned up afterwards: removeDuplicateURLs deletes
\* only records with a higher id than one that stays, and decides before the
\* first delete (rocksdb_store.cpp 616-678).
THEOREM LowestIdStaysHolds == Spec => []LowestIdStays
<1>1. Typed /\ LowKept => LowestIdStays
  BY DEF LowKept, LowestIdStays, Stored
<1>2. QED
  BY <1>1, TypedAlways, LowKeptInit, LowKeptStep, PTL DEF Spec

(***************************************************************************)
(* The domain entries that stay.                                           *)
(***************************************************************************)

\* How far the cleanup has come: what is no victim stays, one entry per key
\* and among them the right one of every document.
Chosen ==
    /\ pc = "off" => dups = {}
    /\ pc # "domain" => victims = {}
    /\ pc = "next_id" => \A i, j \in 1 .. Len(legacy) : i # j => legacy[i] # legacy[j]
    /\ pc \in {"domain", "next_id"} =>
         /\ \A h \in dups : core[h] = NoRecord /\ h \notin other
         /\ \A e \in domain \ victims : e[2] \notin dups
         /\ \A e, f \in domain \ victims : e[2] = f[2] => e = f
    /\ \A h \in Hash : <<core[h], h>> \notin victims

\* Once the duplicates are deleted, what is stored is what was kept.
LEMMA OnlyKept ==
    ASSUME Typed, KeptStays, pc # "off", \A h \in dups : core[h] = NoRecord,
           NEW h \in Hash, core[h] # NoRecord
    PROVE  /\ UrlOf[h] \in URL /\ kept[UrlOf[h]] # 0 /\ h = kept[UrlOf[h]]
           /\ h \notin dups
<1> DEFINE u == UrlOf[h]
<1>1. u \in URL /\ h \in Stored(u) /\ h \notin dups
  BY DedupAssumption DEF Stored
<1> HIDE DEF u
<1>2. kept[u] # 0 /\ (h = kept[u] \/ h \in dups)
  BY <1>1 DEF KeptStays
<1>3. QED
  BY <1>1, <1>2 DEF u

LEMMA FindIs ==
    ASSUME Typed, KeptStays, FindVictims
    PROVE  /\ \A h \in dups : core[h] = NoRecord /\ h \notin other
           /\ \A e \in domain \ victims' : e[2] \notin dups
           /\ \A e, f \in domain \ victims' : e[2] = f[2] => e = f
           /\ \A h \in Hash : <<core[h], h>> \notin victims'
<1>1. /\ pc = "docs" /\ InCore = {} /\ Orphans = {}
      /\ victims' = domain \ UNION {EntryToKeep(h) : h \in Hash \ dups}
  BY DEF FindVictims
<1>2. \A h \in dups : core[h] = NoRecord /\ h \notin other
  BY <1>1 DEF InCore, Orphans
<1>3. \A h \in Hash : \A e \in EntryToKeep(h) :
        e \in domain /\ e[2] = h /\ e[1] \in Nat /\ e = <<e[1], e[2]>>
  BY DEF EntryToKeep, Entries, Typed
<1>4. \A h \in Hash : \A e, f \in EntryToKeep(h) : e = f
  <2> SUFFICES ASSUME NEW h \in Hash, NEW e \in EntryToKeep(h), NEW f \in EntryToKeep(h)
               PROVE  e = f
    OBVIOUS
  <2>1. /\ e[2] = h /\ f[2] = h /\ e = <<e[1], e[2]>> /\ f = <<f[1], f[2]>>
        /\ e[1] \in Nat /\ f[1] \in Nat
    BY <1>3
  <2>2. (e[1] = core[h] /\ f[1] = core[h]) \/ (e[1] <= f[1] /\ f[1] <= e[1])
    BY DEF EntryToKeep
  <2>3. e[1] = f[1]
    BY <2>1, <2>2
  <2>4. QED
    BY <2>1, <2>3
<1>5. \A e \in domain \ victims' : \E h \in Hash \ dups : e \in EntryToKeep(h)
  BY <1>1
<1>6. \A e \in domain \ victims' : e[2] \in Hash \ dups /\ e \in EntryToKeep(e[2])
  BY <1>3, <1>5
<1>7. \A e, f \in domain \ victims' : e[2] = f[2] => e = f
  BY <1>4, <1>6
<1>8. ASSUME NEW h \in Hash, <<core[h], h>> \in domain
      PROVE  <<core[h], h>> \notin victims'
  <2> DEFINE e == <<core[h], h>>
             u == UrlOf[h]
  <2>1. core[h] # NoRecord
    BY <1>8, DedupAssumption DEF Typed
  <2>2. u \in URL /\ h = kept[u] /\ h \notin dups
    BY <1>1, <1>2, <2>1, OnlyKept
  <2>3. e \in Entries(h) /\ e[1] = core[h]
    BY <1>8 DEF Entries
  <2> HIDE DEF e, u
  <2>4. e \in EntryToKeep(h)
    BY <2>2, <2>3 DEF EntryToKeep
  <2>5. e \notin victims'
    BY <1>1, <2>2, <2>4
  <2>6. QED
    BY <2>5 DEF e
<1>9. \A h \in Hash : <<core[h], h>> \notin victims'
  BY <1>1, <1>8
<1>10. QED
  BY <1>2, <1>6, <1>7, <1>9

LEMMA ChosenStep == Typed /\ KeptStays /\ Chosen /\ [Next]_vars => Chosen'
<1> SUFFICES ASSUME Typed, KeptStays, Chosen, [Next]_vars PROVE Chosen'
  OBVIOUS
<1> USE DEF tableVars, cleanupVars, historyVars
<1>1. CASE StartCleanup
  <2>1. pc = "off" /\ pc' = "docs" /\ UNCHANGED <<core, victims>>
    BY <1>1 DEF StartCleanup
  <2>2. QED
    BY <2>1 DEF Chosen
<1>2. ASSUME NEW h \in Hash, DeleteCore(h) PROVE Chosen'
  <2>1. pc = "docs" /\ UNCHANGED <<pc, dups, victims>>
    BY <1>2 DEF DeleteCore
  <2>2. victims' = {}
    BY <2>1 DEF Chosen
  <2>3. QED
    BY <2>1, <2>2 DEF Chosen
<1>3. ASSUME NEW h \in Hash, DeleteOthers(h) PROVE Chosen'
  <2>1. pc = "docs" /\ UNCHANGED <<pc, core, dups, victims>>
    BY <1>3 DEF DeleteOthers
  <2>2. QED
    BY <2>1 DEF Chosen
<1>4. CASE FindVictims
  <2>1. pc' = "domain" /\ UNCHANGED <<core, other, domain, dups, legacy>>
    BY <1>4 DEF FindVictims
  <2>2. QED
    BY <1>4, <2>1, FindIs DEF Chosen
<1>5. ASSUME NEW e \in victims, DeleteEntry(e) PROVE Chosen'
  <2>1. /\ pc = "domain" /\ domain' = domain \ {e} /\ victims' = victims \ {e}
        /\ UNCHANGED <<core, other, dups, pc, legacy>>
    BY <1>5 DEF DeleteEntry
  <2>2. domain' \ victims' = domain \ victims
    BY <2>1
  <2>3. \A h \in Hash : <<core'[h], h>> \notin victims'
    BY <2>1 DEF Chosen
  <2>4. QED
    BY <2>1, <2>2, <2>3 DEF Chosen
<1>6. CASE CleanPending
  <2>1. /\ pc = "domain" /\ pc' = "next_id" /\ victims = {} /\ legacy' = Unique(legacy)
        /\ UNCHANGED <<core, other, domain, dups, victims>>
    BY <1>6 DEF CleanPending
  <2>2. \A i, j \in 1 .. Len(legacy') : i # j => legacy'[i] # legacy'[j]
    BY <2>1, UniqueIs DEF Typed
  <2>3. QED
    BY <2>1, <2>2 DEF Chosen
<1>7. CASE RepairNextDocId
  <2>1. pc = "next_id" /\ pc' = "off" /\ dups' = {} /\ UNCHANGED victims
    BY <1>7 DEF RepairNextDocId
  <2>2. victims' = {}
    BY <2>1 DEF Chosen
  <2>3. QED
    BY <2>1, <2>2 DEF Chosen
<1>8. CASE Crash
  BY <1>8 DEF Crash, Chosen
<1>9. ASSUME NEW u \in URL, Crawl(u) PROVE Chosen'
  <2>1. pc = "off" /\ UNCHANGED <<pc, dups, victims>>
    BY <1>9 DEF Crawl
  <2>2. victims' = {} /\ dups' = {}
    BY <2>1 DEF Chosen
  <2>3. QED
    BY <2>1, <2>2 DEF Chosen
<1>10. CASE UNCHANGED vars
  BY <1>10 DEF vars, Chosen
<1>11. QED
  BY <1>1, <1>2, <1>3, <1>4, <1>5, <1>6, <1>7, <1>8, <1>9, <1>10 DEF Next

LEMMA ChosenAlways == Spec => [](Typed /\ KeptStays /\ Chosen)
<1>1. Init => Chosen
  BY DEF Init, Chosen
<1>2. QED
  BY <1>1, TypedAlways, ChosenStep, PTL DEF Spec

LEMMA RightEntry ==
    ASSUME Typed, Chosen, [Next]_vars, NEW h \in Hash, <<core[h], h>> \in domain
    PROVE  <<core[h], h>> \in domain'
<1> USE DEF tableVars
<1>1. CASE domain' = domain
  BY <1>1
<1>2. ASSUME NEW e \in victims, DeleteEntry(e) PROVE <<core[h], h>> \in domain'
  <2>1. domain' = domain \ {e} /\ <<core[h], h>> # e
    BY <1>2 DEF DeleteEntry, Chosen
  <2>2. QED
    BY <2>1
<1>3. ASSUME NEW u \in URL, Crawl(u) PROVE <<core[h], h>> \in domain'
  BY <1>3 DEF Crawl
<1>4. CASE \/ StartCleanup
           \/ \E g \in Hash : DeleteCore(g) \/ DeleteOthers(g)
           \/ FindVictims
           \/ CleanPending
           \/ RepairNextDocId
           \/ Crash
           \/ UNCHANGED vars
  BY <1>1, <1>4 DEF StartCleanup, DeleteCore, DeleteOthers, FindVictims,
                    CleanPending, RepairNextDocId, Crash, vars
<1>5. QED
  BY <1>2, <1>3, <1>4 DEF Next

\* The entry of a document under its own id is never taken for one of the
\* superfluous ones: the pass over the domain index keeps it whatever else
\* leads to the key (rocksdb_store.cpp 680-720).
THEOREM RightEntryStaysHolds == Spec => RightEntryStays
<1>1. Typed /\ Chosen /\ [Next]_vars =>
        [\A h \in Hash : /\ <<core[h], h>> \in domain
                         /\ core'[h] = core[h]
                         => <<core[h], h>> \in domain']_vars
  BY RightEntry
<1>2. QED
  BY <1>1, ChosenAlways, PTL DEF Spec, RightEntryStays

(***************************************************************************)
(* The ids of new documents.                                               *)
(***************************************************************************)

Fresh == repaired => \A h \in Hash : core[h] # NoRecord => core[h] < next_doc_id

LEMMA FreshStep == Typed /\ KeptStays /\ Chosen /\ Fresh /\ [Next]_vars => Fresh'
<1> SUFFICES ASSUME Typed, KeptStays, Chosen, Fresh, [Next]_vars, repaired',
                    NEW g \in Hash, core'[g] # NoRecord
             PROVE  core'[g] < next_doc_id'
  BY DEF Fresh
<1> USE DEF tableVars, cleanupVars, historyVars
<1>1. CASE UNCHANGED <<core, next_doc_id, repaired>>
  BY <1>1 DEF Fresh
<1>2. ASSUME NEW h \in Hash, DeleteCore(h) PROVE core'[g] < next_doc_id'
  <2>1. core' = [core EXCEPT ![h] = NoRecord] /\ UNCHANGED <<next_doc_id, repaired>>
    BY <1>2 DEF DeleteCore
  <2>2. core'[g] = core[g]
    BY <2>1 DEF Typed
  <2>3. QED
    BY <2>1, <2>2 DEF Fresh
<1>3. CASE RepairNextDocId
  <2>1. /\ pc = "next_id" /\ core' = core
        /\ next_doc_id' = Max({next_doc_id, RequiredNextDocId})
    BY <1>3 DEF RepairNextDocId
  <2>2. \A u \in URL : kept[u] # 0 => core[kept[u]] # NoRecord
    BY <2>1 DEF KeptStays, Stored
  <2>3. /\ RequiredNextDocId \in Nat
        /\ \A u \in URL : kept[u] # 0 => core[kept[u]] < RequiredNextDocId
    BY <2>2, RequiredIs
  <2>4. \A h \in dups : core[h] = NoRecord
    BY <2>1 DEF Chosen
  <2>5. UrlOf[g] \in URL /\ kept[UrlOf[g]] # 0 /\ g = kept[UrlOf[g]]
    BY <2>1, <2>4, OnlyKept
  <2>6. core[g] < RequiredNextDocId
    BY <2>3, <2>5
  <2>7. next_doc_id' \in Nat /\ RequiredNextDocId <= next_doc_id'
    BY <2>1, <2>3, NextIs DEF Typed
  <2>8. core[g] \in Nat
    BY <2>1, RankIsNat
  <2> HIDE DEF RequiredNextDocId
  <2>9. core[g] < next_doc_id'
    BY <2>3, <2>6, <2>7, <2>8
  <2>10. QED
    BY <2>1, <2>9
<1>4. ASSUME NEW u \in URL, Crawl(u) PROVE core'[g] < next_doc_id'
  <2> DEFINE h == Sha[u]
  <2>1. /\ h \in Hash /\ next_doc_id \in 1 .. MaxDocId /\ repaired' = repaired
        /\ \/ UNCHANGED <<core, next_doc_id>>
           \/ /\ core' = [core EXCEPT ![h] = next_doc_id]
              /\ next_doc_id' = next_doc_id + 1
    BY <1>4, CrawlEffect
  <2> HIDE DEF h
  <2>2. CASE UNCHANGED <<core, next_doc_id>>
    BY <2>1, <2>2 DEF Fresh
  <2>3. CASE core' = [core EXCEPT ![h] = next_doc_id] /\ next_doc_id' = next_doc_id + 1
    <3>1. CASE g = h
      BY <2>1, <2>3, <3>1 DEF Typed
    <3>2. CASE g # h
      <4>1. core'[g] = core[g]
        BY <2>3, <3>2 DEF Typed
      <4>2. core[g] \in Nat /\ core[g] < next_doc_id
        BY <2>1, <4>1, RankIsNat DEF Fresh
      <4>3. QED
        BY <2>1, <2>3, <4>1, <4>2
    <3>3. QED
      BY <3>1, <3>2
  <2>4. QED
    BY <2>1, <2>2, <2>3
<1>5. CASE \/ StartCleanup
           \/ \E h \in Hash : DeleteOthers(h)
           \/ FindVictims
           \/ \E e \in victims : DeleteEntry(e)
           \/ CleanPending
           \/ Crash
           \/ UNCHANGED vars
  BY <1>1, <1>5 DEF StartCleanup, DeleteOthers, FindVictims, DeleteEntry,
                    CleanPending, Crash, vars
<1>6. QED
  BY <1>2, <1>3, <1>4, <1>5 DEF Next

\* Once a cleanup has ended, a new document gets an id of its own, also if
\* the database started with a next_doc_id below the ids in use
\* (rocksdb_store.cpp 756-786, engine.cpp 184-192).
THEOREM NewIdsAreFreshHolds == Spec => NewIdsAreFresh
<1>1. Init => Fresh
  BY DEF Init, Fresh
<1>2. Typed /\ Fresh /\ [Next]_vars =>
        [repaired /\ next_doc_id' > next_doc_id /\ pc = "off"
           => next_doc_id \notin Ids]_vars
  <2> SUFFICES ASSUME Typed, Fresh, repaired PROVE next_doc_id \notin Ids
    OBVIOUS
  <2>1. \A h \in Hash : core[h] # NoRecord => core[h] \in Nat /\ core[h] < next_doc_id
    BY RankIsNat DEF Fresh
  <2>2. QED
    BY <2>1 DEF Ids, Typed
<1>3. QED
  BY <1>1, <1>2, ChosenAlways, FreshStep, PTL DEF Spec, NewIdsAreFresh

(***************************************************************************)
(* What a cleanup leaves.                                                  *)
(***************************************************************************)

\* The state of the database after a cleanup, and, while no cleanup died,
\* that only the duplicates in hand have records without a document.
Clean ==
    /\ cleaned =>
         /\ pc = "off"
         /\ \A h, g \in Hash : core[h] # NoRecord /\ core[g] # NoRecord /\ UrlOf[h] = UrlOf[g]
                              => h = g
         /\ \A e, f \in domain : e[2] = f[2] => e = f
         /\ \A i, j \in 1 .. Len(legacy) : i # j => legacy[i] # legacy[j]
    /\ ~cut =>
         /\ \A h \in other \ dups : core[h] # NoRecord
         /\ \A e \in domain : e[2] \notin dups => core[e[2]] # NoRecord

LEMMA CleanInit == Init => Clean
<1> SUFFICES ASSUME Init PROVE Clean
  OBVIOUS
<1>1. other = {h \in Hash : core[h] # NoRecord} /\ cleaned = FALSE
  BY DEF Init
<1>2. \A e \in domain : e[2] \in other
  BY DEF Init
<1>3. QED
  BY <1>1, <1>2 DEF Clean

LEMMA CleanStep == Typed /\ KeptStays /\ Chosen /\ Clean /\ [Next]_vars => Clean'
<1> SUFFICES ASSUME Typed, KeptStays, Chosen, Clean, [Next]_vars PROVE Clean'
  OBVIOUS
<1> USE DEF tableVars, cleanupVars, historyVars
<1>1. CASE StartCleanup
  <2>1. cleaned' = FALSE /\ dups = {} /\ UNCHANGED <<core, other, domain, cut>>
    BY <1>1 DEF StartCleanup, Chosen
  <2>2. QED
    BY <2>1 DEF Clean
<1>2. ASSUME NEW h \in Hash, DeleteCore(h) PROVE Clean'
  <2>1. /\ h \in dups /\ pc = "docs" /\ core' = [core EXCEPT ![h] = NoRecord]
        /\ UNCHANGED <<other, domain, legacy, pc, dups, cut, cleaned>>
    BY <1>2 DEF DeleteCore, InCore
  <2>2. \A g \in Hash : g # h => core'[g] = core[g]
    BY <2>1 DEF Typed
  <2>3. \A e \in domain : e[2] \in Hash
    BY DEF Typed
  <2>4. ~cleaned
    BY <2>1 DEF Clean
  <2>5. ~cut => /\ \A g \in other \ dups : core'[g] # NoRecord
                /\ \A e \in domain : e[2] \notin dups => core'[e[2]] # NoRecord
    BY <2>1, <2>2, <2>3 DEF Clean, Typed
  <2>6. QED
    BY <2>1, <2>4, <2>5 DEF Clean
<1>3. ASSUME NEW h \in Hash, DeleteOthers(h) PROVE Clean'
  BY <1>3 DEF DeleteOthers, Clean
<1>4. CASE FindVictims
  BY <1>4 DEF FindVictims, Clean
<1>5. ASSUME NEW e \in victims, DeleteEntry(e) PROVE Clean'
  BY <1>5 DEF DeleteEntry, Clean
<1>6. CASE CleanPending
  BY <1>6 DEF CleanPending, Clean
<1>7. CASE RepairNextDocId
  <2>1. /\ pc = "next_id" /\ pc' = "off" /\ dups' = {} /\ victims = {}
        /\ UNCHANGED <<core, other, domain, legacy, cut>>
    BY <1>7 DEF RepairNextDocId, Chosen
  <2>2. /\ \A h \in dups : core[h] = NoRecord /\ h \notin other
        /\ \A e \in domain : e[2] \notin dups
        /\ \A e, f \in domain : e[2] = f[2] => e = f
        /\ \A i, j \in 1 .. Len(legacy) : i # j => legacy[i] # legacy[j]
    BY <2>1 DEF Chosen
  <2>3. \A h \in Hash : core[h] # NoRecord => h = kept[UrlOf[h]]
    BY <2>1, <2>2, OnlyKept
  <2>4. \A h, g \in Hash : core[h] # NoRecord /\ core[g] # NoRecord /\ UrlOf[h] = UrlOf[g]
                         => h = g
    BY <2>3
  <2>5. ~cut => /\ \A h \in other : core[h] # NoRecord
                /\ \A e \in domain : core[e[2]] # NoRecord
    BY <2>2 DEF Clean
  <2>6. QED
    BY <2>1, <2>2, <2>4, <2>5 DEF Clean
<1>8. CASE Crash
  <2>1. pc # "off" /\ cleaned' = cleaned /\ cut' = TRUE
    BY <1>8 DEF Crash
  <2>2. QED
    BY <2>1 DEF Clean
<1>9. ASSUME NEW u \in URL, Crawl(u) PROVE Clean'
  <2> DEFINE h == Sha[u]
             n == next_doc_id
  <2>1. /\ h \in Hash /\ n \in 1 .. MaxDocId
        /\ cleaned' = FALSE /\ other' = other \cup {h} /\ UNCHANGED <<dups, cut>>
        /\ \/ core[h] \notin {NoRecord, 0} /\ UNCHANGED <<core, domain>>
           \/ core' = [core EXCEPT ![h] = n] /\ domain' = domain \cup {<<n, h>>}
    BY <1>9, CrawlEffect
  <2> HIDE DEF h, n
  <2>2. /\ core'[h] # NoRecord
        /\ \A g \in Hash : g # h => core'[g] = core[g]
    BY <2>1, DedupAssumption DEF Typed
  <2>3. \A g \in Hash : core[g] # NoRecord => core'[g] # NoRecord
    BY <2>2
  <2>4. \A e \in domain' : e[2] \in Hash /\ (e \in domain \/ e[2] = h)
    BY <2>1 DEF Typed
  <2>5. ~cut => /\ \A g \in other' \ dups : core'[g] # NoRecord
                /\ \A e \in domain' : e[2] \notin dups => core'[e[2]] # NoRecord
    BY <2>1, <2>2, <2>3, <2>4 DEF Clean, Typed
  <2>6. QED
    BY <2>1, <2>5 DEF Clean
<1>10. CASE UNCHANGED vars
  BY <1>10 DEF vars, Clean
<1>11. QED
  BY <1>1, <1>2, <1>3, <1>4, <1>5, <1>6, <1>7, <1>8, <1>9, <1>10 DEF Next

LEMMA CleanImplies == Typed /\ Chosen /\ Clean => CleanedUp
<1> SUFFICES ASSUME Typed, Chosen, Clean, cleaned
             PROVE  /\ \A u \in URL : Cardinality(Stored(u)) <= 1
                    /\ \A h \in Hash : Cardinality(Entries(h)) <= 1
                    /\ \A i, j \in 1 .. Len(legacy) : i # j => legacy[i] # legacy[j]
                    /\ ~cut => \A h \in Hash : h \in other \/ Entries(h) # {} => core[h] # NoRecord
  BY DEF CleanedUp
<1>1. ASSUME NEW u \in URL PROVE Cardinality(Stored(u)) <= 1
  <2>1. \A x, y \in Stored(u) : x = y
    BY DEF Clean, Stored
  <2>2. QED
    BY <2>1, AtMostOne
<1>2. ASSUME NEW h \in Hash PROVE Cardinality(Entries(h)) <= 1
  <2>1. \A x, y \in Entries(h) : x = y
    BY DEF Clean, Entries
  <2>2. QED
    BY <2>1, AtMostOne
<1>3. ~cut => \A h \in Hash : h \in other \/ Entries(h) # {} => core[h] # NoRecord
  <2>1. dups = {}
    BY DEF Chosen, Clean
  <2>2. QED
    BY <2>1 DEF Clean, Entries
<1>4. \A i, j \in 1 .. Len(legacy) : i # j => legacy[i] # legacy[j]
  BY DEF Clean
<1>5. QED
  BY <1>1, <1>2, <1>3, <1>4

\* A cleanup that ends leaves one record per URL, one domain entry per key
\* and a pending list without repetitions, also when an earlier one died half
\* way; records that no document leads to remain only where one died
\* (rocksdb_store.cpp 603-786).
THEOREM CleanedUpHolds == Spec => []CleanedUp
BY ChosenAlways, CleanInit, CleanStep, CleanImplies, PTL DEF Spec
=============================================================================
