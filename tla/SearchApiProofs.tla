-------------------------- MODULE SearchApiProofs --------------------------
(***************************************************************************)
(* The search server, for every finite number of threads, every set of     *)
(* documents and keys and any restarts: an answered click is in the        *)
(* database, the cache holds what was used last, and an answer misses a    *)
(* click only if it was being computed when the click came.                *)
(***************************************************************************)
EXTENDS SearchApi, FiniteSetTheorems, SequenceTheorems, TLAPS

Typed ==
    /\ click_count \in [Document -> Nat]
    /\ stored \in [Document -> Nat]
    /\ sent \in [Document -> Nat]
    /\ answered \in [Document -> Nat]
    /\ pc \in [Thread -> {"idle", "score", "write", "clear", "increment", "respond"}]
    /\ doc \in [Thread -> Document \cup {NoDocument}]
    /\ read \in [Thread -> Nat]
    /\ \A t \in Thread :
         pc[t] \in {"write", "clear", "increment", "respond"} => doc[t] \in Document

LEMMA TypedInit == Init => Typed
BY DEF Init, Typed

LEMMA TypedStep == Typed /\ [Next]_vars => Typed'
<1> SUFFICES ASSUME Typed, [Next]_vars PROVE Typed'
  OBVIOUS
<1> USE DEF Typed
<1>1. CASE Restart
  BY <1>1 DEF Restart
<1>2. ASSUME NEW t \in Thread, NEW k \in Key, Hit(t, k) \/ Miss(t, k) PROVE Typed'
  BY <1>2 DEF Hit, Miss, countVars, clickVars
<1>3. ASSUME NEW t \in Thread, NEW d \in todo[t], Score(t, d) PROVE Typed'
  BY <1>3 DEF Score, countVars, clickVars
<1>4. ASSUME NEW t \in Thread, Store(t) PROVE Typed'
  BY <1>4 DEF Store, countVars, clickVars
<1>5. ASSUME NEW t \in Thread, NEW d \in Document, ReadCount(t, d) PROVE Typed'
  BY <1>5 DEF ReadCount
<1>6. ASSUME NEW t \in Thread, WriteCount(t) PROVE Typed'
  BY <1>6 DEF WriteCount, clickVars
<1>7. ASSUME NEW t \in Thread, ClearCache(t) PROVE Typed'
  BY <1>7 DEF ClearCache, countVars, clickVars
<1>8. ASSUME NEW t \in Thread, IncrementClickCount(t) PROVE Typed'
  BY <1>8 DEF IncrementClickCount, clickVars
<1>9. ASSUME NEW t \in Thread, Respond(t) PROVE Typed'
  BY <1>9 DEF Respond
<1>10. CASE UNCHANGED vars
  BY <1>10 DEF vars, countVars, clickVars
<1>11. QED
  BY <1>1, <1>2, <1>3, <1>4, <1>5, <1>6, <1>7, <1>8, <1>9, <1>10 DEF Next, ThreadStep

LEMMA TypedAlways == Spec => []Typed
BY TypedInit, TypedStep, PTL DEF Spec

(***************************************************************************)
(* The threads that are somewhere on the way of a click of a document.     *)
(***************************************************************************)

At(d, where) == {t \in Thread : doc[t] = d /\ pc[t] \in where}

LEMMA BetweenIsAt == \A d, where : Between(d, where) = Cardinality(At(d, where))
BY DEF Between, At

LEMMA BetweenNat == \A d, where : Between(d, where) \in Nat
<1>1. \A d, where : At(d, where) \subseteq Thread
  BY DEF At
<1>2. QED
  BY <1>1, FS_Subset, FS_CardinalityType, SearchApiAssumption, BetweenIsAt

\* How a step of one thread changes the numbers.
LEMMA Moves ==
    ASSUME NEW t \in Thread, NEW d, NEW where,
           \A s \in Thread : s # t => pc'[s] = pc[s] /\ doc'[s] = doc[s]
    PROVE  Between(d, where)' =
             IF t \in At(d, where) /\ t \notin At(d, where)' THEN Between(d, where) - 1
             ELSE IF t \notin At(d, where) /\ t \in At(d, where)' THEN Between(d, where) + 1
             ELSE Between(d, where)
<1>1. IsFiniteSet(At(d, where)) /\ IsFiniteSet(At(d, where)')
  <2>1. At(d, where) \subseteq Thread /\ At(d, where)' \subseteq Thread
    BY DEF At
  <2>2. QED
    BY <2>1, FS_Subset, SearchApiAssumption
<1>2. Between(d, where)' = Cardinality(At(d, where)')
  BY DEF Between, At
<1>3. CASE t \in At(d, where) /\ t \notin At(d, where)'
  <2>1. At(d, where)' = At(d, where) \ {t}
    BY <1>3 DEF At
  <2>2. QED
    BY <1>1, <1>2, <1>3, <2>1, FS_RemoveElement, BetweenIsAt
<1>4. CASE t \notin At(d, where) /\ t \in At(d, where)'
  <2>1. At(d, where)' = At(d, where) \cup {t}
    BY <1>4 DEF At
  <2>2. QED
    BY <1>1, <1>2, <1>4, <2>1, FS_AddElement, BetweenIsAt
<1>5. CASE t \in At(d, where) <=> t \in At(d, where)'
  <2>1. At(d, where)' = At(d, where)
    BY <1>5 DEF At
  <2>2. QED
    BY <1>2, <1>5, <2>1, BetweenIsAt
<1>6. QED
  BY <1>3, <1>4, <1>5

(***************************************************************************)
(* The counts.  ClicksKept is not inductive: what is stored is bounded by  *)
(* the clicks begun and not yet stored, and so is a count that a thread    *)
(* has read and not yet written.                                           *)
(***************************************************************************)

Waiting == {"write", "clear", "increment"}
Written == {"clear", "increment"}

Counted ==
    \A d \in Document :
      /\ answered[d] + Between(d, {"respond"}) <= stored[d]
      /\ stored[d] + Between(d, Waiting) <= sent[d]
      /\ click_count[d] <= stored[d] + Between(d, Written)
      /\ \A t \in Thread : doc[t] = d /\ pc[t] = "write"
                          => read[t] <= stored[d] + Between(d, Written)

LEMMA NobodyBetween ==
    ASSUME NEW where, "idle" \notin where, \A t \in Thread : pc[t] = "idle"
    PROVE  \A d : Between(d, where) = 0
<1>1. \A d : At(d, where) = {}
  BY DEF At
<1>2. QED
  BY <1>1, FS_EmptySet, BetweenIsAt

LEMMA CountedInit == Init => Counted
<1> SUFFICES ASSUME Init PROVE Counted
  OBVIOUS
<1>1. \A t \in Thread : pc[t] = "idle"
  BY DEF Init
<1>2. \A d : /\ Between(d, {"respond"}) = 0
             /\ Between(d, Waiting) = 0
             /\ Between(d, Written) = 0
  BY <1>1, NobodyBetween DEF Waiting, Written
<1>3. QED
  BY <1>1, <1>2 DEF Init, Counted

\* A step that moves no click and changes no count.
LEMMA NoClick ==
    ASSUME Counted, UNCHANGED <<countVars, clickVars>>,
           \A t \in Thread : pc'[t] = pc[t] \/ {pc[t], pc'[t]} \subseteq {"idle", "score"}
    PROVE  Counted'
<1>1. \A d : /\ At(d, {"respond"})' = At(d, {"respond"})
             /\ At(d, Waiting)' = At(d, Waiting)
             /\ At(d, Written)' = At(d, Written)
  BY DEF At, Waiting, Written, clickVars
<1>2. \A d : /\ Between(d, {"respond"})' = Between(d, {"respond"})
             /\ Between(d, Waiting)' = Between(d, Waiting)
             /\ Between(d, Written)' = Between(d, Written)
  BY <1>1 DEF At, Between
<1>3. QED
  BY <1>2 DEF Counted, countVars, clickVars

LEMMA CountedStep == Typed /\ Typed' /\ Counted /\ [Next]_vars => Counted'
<1> SUFFICES ASSUME Typed, Typed', Counted, [Next]_vars PROVE Counted'
  OBVIOUS
<1>1. CASE Restart
  <2>1. \A t \in Thread : pc'[t] = "idle"
    BY <1>1 DEF Restart
  <2>2. \A d : /\ At(d, {"respond"})' = {}
               /\ At(d, Waiting)' = {}
               /\ At(d, Written)' = {}
    BY <2>1 DEF At, Waiting, Written
  <2>3. \A d : /\ Between(d, {"respond"})' = 0
               /\ Between(d, Waiting)' = 0
               /\ Between(d, Written)' = 0
    BY <2>2, FS_EmptySet DEF At, Between
  <2>4. /\ UNCHANGED <<stored, sent, answered>>
        /\ click_count' = stored
    BY <1>1 DEF Restart
  <2>5. QED
    BY <2>1, <2>3, <2>4, BetweenNat DEF Counted, Typed
<1>2. ASSUME NEW t \in Thread, NEW k \in Key, Hit(t, k) \/ Miss(t, k) PROVE Counted'
  BY <1>2, NoClick DEF Hit, Miss, Typed
<1>3. ASSUME NEW t \in Thread, NEW d \in todo[t], Score(t, d) PROVE Counted'
  BY <1>3, NoClick DEF Score
<1>4. ASSUME NEW t \in Thread, Store(t) PROVE Counted'
  BY <1>4, NoClick DEF Store, Typed
<1>5. ASSUME NEW t \in Thread, NEW e \in Document, ReadCount(t, e) PROVE Counted'
  <2>1. /\ \A s \in Thread : s # t => pc'[s] = pc[s] /\ doc'[s] = doc[s] /\ read'[s] = read[s]
        /\ pc[t] = "idle" /\ pc'[t] = "write" /\ doc'[t] = e /\ read'[t] = click_count[e]
        /\ UNCHANGED <<click_count, stored, answered>>
        /\ sent' = [sent EXCEPT ![e] = @ + 1]
    BY <1>5 DEF ReadCount, Typed
  <2>2. \A d : /\ Between(d, {"respond"})' = Between(d, {"respond"})
               /\ Between(d, Written)' = Between(d, Written)
               /\ Between(d, Waiting)' = IF d = e THEN Between(d, Waiting) + 1
                                         ELSE Between(d, Waiting)
    BY <2>1, Moves DEF At, Waiting, Written
  <2>3. QED
    BY <2>1, <2>2, BetweenNat DEF Counted, Typed
<1>6. ASSUME NEW t \in Thread, WriteCount(t) PROVE Counted'
  <2>1. /\ \A s \in Thread : s # t => pc'[s] = pc[s]
        /\ pc[t] = "write" /\ pc'[t] = "clear" /\ doc[t] \in Document
        /\ UNCHANGED <<doc, read, stored, sent, answered>>
        /\ click_count' = [click_count EXCEPT ![doc[t]] = read[t] + 1]
    BY <1>6 DEF WriteCount, clickVars, Typed
  <2>2. \A d : /\ Between(d, {"respond"})' = Between(d, {"respond"})
               /\ Between(d, Waiting)' = Between(d, Waiting)
               /\ Between(d, Written)' = IF d = doc[t] THEN Between(d, Written) + 1
                                         ELSE Between(d, Written)
    BY <2>1, Moves DEF At, Waiting, Written
  <2>3. QED
    BY <2>1, <2>2, BetweenNat DEF Counted, Typed
<1>7. ASSUME NEW t \in Thread, ClearCache(t) PROVE Counted'
  <2>1. /\ \A s \in Thread : s # t => pc'[s] = pc[s]
        /\ pc[t] = "clear" /\ pc'[t] = "increment"
        /\ UNCHANGED <<countVars, doc, read>>
    BY <1>7 DEF ClearCache, clickVars, Typed
  <2>2. \A d : /\ Between(d, {"respond"})' = Between(d, {"respond"})
               /\ Between(d, Waiting)' = Between(d, Waiting)
               /\ Between(d, Written)' = Between(d, Written)
    BY <2>1, Moves DEF At, Waiting, Written
  <2>3. QED
    BY <2>1, <2>2 DEF Counted, countVars
<1>8. ASSUME NEW t \in Thread, IncrementClickCount(t) PROVE Counted'
  <2>1. /\ \A s \in Thread : s # t => pc'[s] = pc[s]
        /\ pc[t] = "increment" /\ pc'[t] = "respond" /\ doc[t] \in Document
        /\ UNCHANGED <<doc, read, click_count, sent, answered>>
        /\ stored' = [stored EXCEPT ![doc[t]] = @ + 1]
    BY <1>8 DEF IncrementClickCount, clickVars, Typed
  <2>2. \A d : /\ Between(d, {"respond"})' = IF d = doc[t] THEN Between(d, {"respond"}) + 1
                                             ELSE Between(d, {"respond"})
               /\ Between(d, Waiting)' = IF d = doc[t] THEN Between(d, Waiting) - 1
                                         ELSE Between(d, Waiting)
               /\ Between(d, Written)' = IF d = doc[t] THEN Between(d, Written) - 1
                                         ELSE Between(d, Written)
    BY <2>1, Moves DEF At, Waiting, Written
  <2>3. QED
    BY <2>1, <2>2, BetweenNat DEF Counted, Typed
<1>9. ASSUME NEW t \in Thread, Respond(t) PROVE Counted'
  <2>1. /\ \A s \in Thread : s # t => pc'[s] = pc[s] /\ doc'[s] = doc[s] /\ read'[s] = read[s]
        /\ pc[t] = "respond" /\ pc'[t] = "idle" /\ doc[t] \in Document
        /\ UNCHANGED <<click_count, stored, sent>>
        /\ answered' = [answered EXCEPT ![doc[t]] = @ + 1]
    BY <1>9 DEF Respond, Typed
  <2>2. \A d : /\ Between(d, {"respond"})' = IF d = doc[t] THEN Between(d, {"respond"}) - 1
                                             ELSE Between(d, {"respond"})
               /\ Between(d, Waiting)' = Between(d, Waiting)
               /\ Between(d, Written)' = Between(d, Written)
    BY <2>1, Moves DEF At, Waiting, Written
  <2>3. QED
    BY <2>1, <2>2, BetweenNat DEF Counted, Typed
<1>10. CASE UNCHANGED vars
  BY <1>10, NoClick DEF vars
<1>11. QED
  BY <1>1, <1>2, <1>3, <1>4, <1>5, <1>6, <1>7, <1>8, <1>9, <1>10 DEF Next, ThreadStep

\* Every answered click is in the database, every stored one was made, and
\* the count in memory never holds one that nobody made
\* (index_searcher.cpp 372-383, rocksdb_store.cpp 821, search_api.cpp 225-232).
THEOREM ClicksKeptHolds == Spec => []ClicksKept
<1>1. Typed /\ Counted => ClicksKept
  <2> SUFFICES ASSUME Typed, Counted, NEW d \in Document
               PROVE  /\ answered[d] + Between(d, {"respond"}) <= stored[d]
                      /\ stored[d] <= sent[d]
                      /\ click_count[d] <= stored[d] + Between(d, {"clear", "increment"})
    BY DEF ClicksKept
  <2>1. QED
    BY BetweenNat DEF Counted, Typed, Written
<1>2. QED
  BY <1>1, TypedAlways, CountedInit, CountedStep, PTL DEF Spec

(***************************************************************************)
(* The lists of the cache.                                                 *)
(***************************************************************************)

LEMMA Pushed ==
    ASSUME NEW S, NEW s \in Seq(S), NEW x \in S
    PROVE  /\ <<x>> \o s \in Seq(S)
           /\ Len(<<x>> \o s) = Len(s) + 1
           /\ (<<x>> \o s)[1] = x
           /\ \A j \in 2 .. Len(s) + 1 : (<<x>> \o s)[j] = s[j - 1]
<1>1. <<x>> \in Seq(S) /\ Len(<<x>>) = 1 /\ <<x>>[1] = x
  OBVIOUS
<1>2. Len(s) \in Nat
  BY LenProperties
<1>3. QED
  BY <1>1, <1>2, ConcatProperties

LEMMA Removed ==
    ASSUME NEW S, NEW s \in Seq(S), NEW i \in 1 .. Len(s)
    PROVE  /\ RemoveAt(s, i) \in Seq(S)
           /\ Len(RemoveAt(s, i)) = Len(s) - 1
           /\ \A j \in 1 .. Len(s) - 1 :
                RemoveAt(s, i)[j] = IF j < i THEN s[j] ELSE s[j + 1]
<1> DEFINE before == SubSeq(s, 1, i - 1)
           after == SubSeq(s, i + 1, Len(s))
<1>1. Len(s) \in Nat
  BY LenProperties
<1>2. /\ before \in Seq(S) /\ Len(before) = i - 1
      /\ \A j \in 1 .. i - 1 : before[j] = s[j]
  BY <1>1, SubSeqProperties
<1>3. /\ after \in Seq(S) /\ Len(after) = Len(s) - i
      /\ \A j \in 1 .. Len(s) - i : after[j] = s[j + i]
  BY <1>1, SubSeqProperties
<1> HIDE DEF before, after
<1>4. /\ before \o after \in Seq(S)
      /\ Len(before \o after) = Len(s) - 1
      /\ \A j \in 1 .. Len(s) - 1 :
           (before \o after)[j] = IF j <= i - 1 THEN before[j] ELSE after[j - (i - 1)]
  <2>1. /\ before \o after \in Seq(S)
        /\ Len(before \o after) = Len(before) + Len(after)
        /\ \A j \in 1 .. Len(before) + Len(after) :
             (before \o after)[j] = IF j <= Len(before) THEN before[j]
                                    ELSE after[j - Len(before)]
    BY <1>2, <1>3, ConcatProperties
  <2>2. Len(before) + Len(after) = Len(s) - 1
    BY <1>1, <1>2, <1>3
  <2>3. QED
    BY <1>2, <2>1, <2>2
<1>5. \A j \in 1 .. Len(s) - 1 :
        (before \o after)[j] = IF j < i THEN s[j] ELSE s[j + 1]
  <2> SUFFICES ASSUME NEW j \in 1 .. Len(s) - 1
               PROVE  (before \o after)[j] = IF j < i THEN s[j] ELSE s[j + 1]
    OBVIOUS
  <2>1. CASE j < i
    BY <2>1, <1>1, <1>2, <1>4
  <2>2. CASE ~(j < i)
    <3>1. j - (i - 1) \in 1 .. Len(s) - i /\ (j - (i - 1)) + i = j + 1
      BY <2>2, <1>1
    <3>2. QED
      BY <2>2, <3>1, <1>1, <1>3, <1>4
  <2>3. QED
    BY <2>1, <2>2
<1>6. RemoveAt(s, i) = before \o after
  BY DEF RemoveAt, before, after
<1>7. QED
  BY <1>4, <1>5, <1>6

LEMMA Moved ==
    ASSUME NEW S, NEW s \in Seq(S), NEW i \in 1 .. Len(s), NEW x \in S
    PROVE  /\ MoveToFront(s, i, x) \in Seq(S)
           /\ Len(MoveToFront(s, i, x)) = Len(s)
           /\ MoveToFront(s, i, x)[1] = x
           /\ \A j \in 2 .. Len(s) :
                MoveToFront(s, i, x)[j] = IF j <= i THEN s[j - 1] ELSE s[j]
<1> DEFINE rest == RemoveAt(s, i)
<1>1. /\ rest \in Seq(S) /\ Len(rest) = Len(s) - 1
      /\ \A j \in 1 .. Len(s) - 1 : rest[j] = IF j < i THEN s[j] ELSE s[j + 1]
  BY Removed
<1>2. MoveToFront(s, i, x) = <<x>> \o rest
  BY DEF MoveToFront
<1>3. Len(s) \in Nat
  BY LenProperties
<1> HIDE DEF rest
<1>4. /\ <<x>> \o rest \in Seq(S)
      /\ Len(<<x>> \o rest) = Len(s)
      /\ (<<x>> \o rest)[1] = x
      /\ \A j \in 2 .. Len(s) : (<<x>> \o rest)[j] = rest[j - 1]
  BY <1>1, <1>3, Pushed
<1>5. QED
  BY <1>1, <1>2, <1>3, <1>4

LEMMA Evicted ==
    ASSUME NEW S, NEW s \in Seq(S), Len(s) > 0
    PROVE  /\ SubSeq(s, 1, Len(s) - 1) \in Seq(S)
           /\ Len(SubSeq(s, 1, Len(s) - 1)) = Len(s) - 1
           /\ \A j \in 1 .. Len(s) - 1 : SubSeq(s, 1, Len(s) - 1)[j] = s[j]
<1> DEFINE n == Len(s) - 1
<1>1. n \in 0 .. Len(s)
  BY LenProperties
<1>2. Len(s) \in Nat /\ 1 \in 1 .. Len(s) + 1
  BY LenProperties
<1> HIDE DEF n
<1>3. /\ SubSeq(s, 1, n) \in Seq(S)
      /\ Len(SubSeq(s, 1, n)) = IF 1 <= n THEN n - 1 + 1 ELSE 0
      /\ \A j \in 1 .. n - 1 + 1 : SubSeq(s, 1, n)[j] = s[1 + j - 1]
  BY <1>1, <1>2, SubSeqProperties
<1>4. /\ Len(SubSeq(s, 1, n)) = n
      /\ \A j \in 1 .. n : SubSeq(s, 1, n)[j] = s[j]
  BY <1>1, <1>3
<1>5. QED
  BY <1>3, <1>4 DEF n

(***************************************************************************)
(* The cache.  No key is twice among the keys by last use, the keys of the *)
(* list are the first of them, and the map holds these.                    *)
(***************************************************************************)

Counts == UNION {[D -> Nat] : D \in SUBSET Document}

Answer == [key : Key, seen : Counts, late : BOOLEAN]

CacheTyped ==
    /\ entries \in Seq(Answer)
    /\ recent \in Seq(Key)

NoKeyTwice == \A i, j \in 1 .. Len(recent) : recent[i] = recent[j] => i = j

LastUsed ==
    /\ Len(entries) = IF Len(recent) < cache_capacity THEN Len(recent) ELSE cache_capacity
    /\ \A i \in 1 .. Len(entries) : entries[i].key = recent[i]

Indexed == cache_index = {entries[i].key : i \in 1 .. Len(entries)}

CacheInv == CacheTyped /\ NoKeyTwice /\ LastUsed /\ Indexed

LEMMA CacheEmpty == entries = <<>> /\ recent = <<>> /\ cache_index = {} => CacheInv
<1> SUFFICES ASSUME entries = <<>>, recent = <<>>, cache_index = {} PROVE CacheInv
  OBVIOUS
<1>1. /\ entries \in Seq(Answer) /\ recent \in Seq(Key)
      /\ Len(entries) = 0 /\ Len(recent) = 0
  BY EmptySeq
<1>2. QED
  BY <1>1, SearchApiAssumption DEF CacheInv, CacheTyped, NoKeyTwice, LastUsed, Indexed

LEMMA CacheEmptied == entries' = <<>> /\ recent' = <<>> /\ cache_index' = {} => CacheInv'
<1> SUFFICES ASSUME entries' = <<>>, recent' = <<>>, cache_index' = {} PROVE CacheInv'
  OBVIOUS
<1>1. /\ entries' \in Seq(Answer) /\ recent' \in Seq(Key)
      /\ Len(entries') = 0 /\ Len(recent') = 0
  BY EmptySeq
<1>2. QED
  BY <1>1, SearchApiAssumption DEF CacheInv, CacheTyped, NoKeyTwice, LastUsed, Indexed

\* The use of a key: where the others are afterwards.
LEMMA UseEffect ==
    ASSUME CacheInv, NEW k \in Key, Use(k)
    PROVE  /\ recent' \in Seq(Key)
           /\ NoKeyTwice'
           /\ \/ /\ \A i \in 1 .. Len(recent) : recent[i] # k
                 /\ recent' = <<k>> \o recent
              \/ \E i \in 1 .. Len(recent) :
                   recent[i] = k /\ recent' = MoveToFront(recent, i, k)
<1>1. recent \in Seq(Key) /\ Len(recent) \in Nat /\ DOMAIN recent = 1 .. Len(recent)
  BY LenProperties DEF CacheInv, CacheTyped
<1>2. CASE k \notin ToSet(recent) /\ recent' = <<k>> \o recent
  <2>1. \A i \in 1 .. Len(recent) : recent[i] # k
    BY <1>1, <1>2 DEF ToSet
  <2>2. /\ recent' \in Seq(Key) /\ Len(recent') = Len(recent) + 1 /\ recent'[1] = k
        /\ \A j \in 2 .. Len(recent) + 1 : recent'[j] = recent[j - 1]
    BY <1>1, <1>2, Pushed
  <2>3. NoKeyTwice'
    BY <1>1, <2>1, <2>2 DEF CacheInv, NoKeyTwice
  <2>4. QED
    BY <1>2, <2>1, <2>2, <2>3
<1>3. ASSUME NEW i \in 1 .. Len(recent), recent[i] = k,
             recent' = MoveToFront(recent, i, k)
      PROVE  recent' \in Seq(Key) /\ NoKeyTwice'
  <2>1. i \in 1 .. Len(recent)
    BY <1>1
  <2> DEFINE list == MoveToFront(recent, i, k)
             place(j) == IF j <= i THEN j - 1 ELSE j
  <2>2. /\ list \in Seq(Key) /\ Len(list) = Len(recent) /\ list[1] = k
        /\ \A j \in 2 .. Len(recent) :
             list[j] = IF j <= i THEN recent[j - 1] ELSE recent[j]
    <3>1. recent \in Seq(Key) /\ k \in Key
      BY <1>1
    <3>2. list \in Seq(Key) /\ Len(list) = Len(recent)
      BY <2>1, <3>1, Moved
    <3>3. list[1] = k
      BY <2>1, <3>1, Moved
    <3>4. \A j \in 2 .. Len(recent) :
            list[j] = IF j <= i THEN recent[j - 1] ELSE recent[j]
      BY <2>1, <3>1, Moved
    <3>5. QED
      BY <3>2, <3>3, <3>4
  <2>3. \A j \in 2 .. Len(recent) :
          place(j) \in 1 .. Len(recent) /\ place(j) # i /\ list[j] = recent[place(j)]
    BY <1>1, <2>1, <2>2
  <2>4. \A h, j \in 2 .. Len(recent) : place(h) = place(j) => h = j
    BY <1>1, <2>1
  <2> HIDE DEF place, list
  <2>5. \A j \in 2 .. Len(recent) : list[j] # k
    BY <1>3, <2>1, <2>3 DEF CacheInv, NoKeyTwice
  <2>6. \A h, j \in 1 .. Len(recent) : list[h] = list[j] => h = j
    <3> SUFFICES ASSUME NEW h \in 1 .. Len(recent), NEW j \in 1 .. Len(recent),
                        list[h] = list[j], h # j
                 PROVE  FALSE
      OBVIOUS
    <3>1. \/ h = 1 /\ j \in 2 .. Len(recent)
          \/ j = 1 /\ h \in 2 .. Len(recent)
          \/ h \in 2 .. Len(recent) /\ j \in 2 .. Len(recent)
      BY <1>1
    <3>2. ~(h \in 2 .. Len(recent) /\ j \in 2 .. Len(recent))
      BY <2>3, <2>4 DEF CacheInv, NoKeyTwice
    <3>3. ~(h = 1 /\ j \in 2 .. Len(recent)) /\ ~(j = 1 /\ h \in 2 .. Len(recent))
      BY <2>2, <2>5
    <3>4. QED
      BY <3>1, <3>2, <3>3
  <2>7. recent' = list
    BY <1>3 DEF list
  <2>8. QED
    BY <2>2, <2>6, <2>7 DEF NoKeyTwice
<1>4. QED
  BY <1>1, <1>2, <1>3 DEF Use

\* What the cache is after a hit, or an answer to a key it holds.
LEMMA MovedEffect ==
    ASSUME CacheInv, NEW k \in Key, NEW x \in Answer, Use(k), UNCHANGED cache_index,
           NEW p \in 1 .. Len(entries)
    PROVE  /\ x.key = k /\ entries[p].key = k
           /\ entries' = MoveToFront(entries, p, x)
           => CacheInv'
<1>1. /\ entries \in Seq(Answer) /\ Len(entries) \in Nat /\ p \in 1 .. Len(entries)
      /\ recent \in Seq(Key) /\ Len(recent) \in Nat
      /\ cache_capacity \in Nat \ {0}
  BY LenProperties, SearchApiAssumption DEF CacheInv, CacheTyped, Answer
<1>2. Len(entries) <= Len(recent) /\ p \in 1 .. Len(recent)
  BY <1>1 DEF CacheInv, LastUsed
<1> DEFINE list == MoveToFront(entries, p, x)
           used == MoveToFront(recent, p, k)
<1>3. /\ list \in Seq(Answer) /\ Len(list) = Len(entries) /\ list[1] = x
      /\ \A j \in 2 .. Len(entries) :
           list[j] = IF j <= p THEN entries[j - 1] ELSE entries[j]
  <2>1. list \in Seq(Answer) /\ Len(list) = Len(entries)
    BY <1>1, Moved
  <2>2. list[1] = x
    BY <1>1, Moved
  <2>3. \A j \in 2 .. Len(entries) :
          list[j] = IF j <= p THEN entries[j - 1] ELSE entries[j]
    BY <1>1, Moved
  <2>4. QED
    BY <2>1, <2>2, <2>3
<1>4. /\ Len(used) = Len(recent) /\ used[1] = k
      /\ \A j \in 2 .. Len(recent) :
           used[j] = IF j <= p THEN recent[j - 1] ELSE recent[j]
  <2>1. Len(used) = Len(recent)
    BY <1>1, <1>2, Moved
  <2>2. used[1] = k
    BY <1>1, <1>2, Moved
  <2>3. \A j \in 2 .. Len(recent) :
          used[j] = IF j <= p THEN recent[j - 1] ELSE recent[j]
    BY <1>1, <1>2, Moved
  <2>4. QED
    BY <2>1, <2>2, <2>3
<1> HIDE DEF list, used
<1>5. HAVE x.key = k /\ entries[p].key = k /\ entries' = MoveToFront(entries, p, x)
<1>6. \A j \in 1 .. Len(entries) : list[j].key = used[j]
  <2> SUFFICES ASSUME NEW j \in 1 .. Len(entries) PROVE list[j].key = used[j]
    OBVIOUS
  <2>1. CASE j = 1
    BY <1>3, <1>4, <1>5, <2>1
  <2>2. CASE j # 1
    <3>1. j \in 2 .. Len(entries) /\ j \in 2 .. Len(recent) /\ j - 1 \in 1 .. Len(entries)
      BY <1>1, <1>2, <2>2
    <3>2. entries[j].key = recent[j] /\ entries[j - 1].key = recent[j - 1]
      BY <3>1 DEF CacheInv, LastUsed
    <3>3. QED
      BY <1>3, <1>4, <3>1, <3>2
  <2>3. QED
    BY <2>1, <2>2
<1>7. {list[j].key : j \in 1 .. Len(entries)} = {entries[i].key : i \in 1 .. Len(entries)}
  <2>1. ASSUME NEW j \in 1 .. Len(entries)
        PROVE  \E i \in 1 .. Len(entries) : list[j].key = entries[i].key
    <3>1. CASE j = 1
      BY <1>3, <1>5, <3>1
    <3>2. CASE j # 1
      <4>1. j \in 2 .. Len(entries) /\ j - 1 \in 1 .. Len(entries)
        BY <1>1, <3>2
      <4>2. QED
        BY <1>3, <4>1
    <3>3. QED
      BY <3>1, <3>2
  <2>2. ASSUME NEW i \in 1 .. Len(entries)
        PROVE  \E j \in 1 .. Len(entries) : entries[i].key = list[j].key
    <3>1. CASE i = p
      BY <3>1, <1>1, <1>3, <1>5
    <3>2. CASE i < p
      <4>1. i + 1 \in 2 .. Len(entries) /\ i + 1 \in 1 .. Len(entries)
            /\ i + 1 <= p /\ (i + 1) - 1 = i
        BY <3>2, <1>1
      <4>2. QED
        BY <1>3, <4>1
    <3>3. CASE i > p
      <4>1. i \in 2 .. Len(entries) /\ ~(i <= p)
        BY <3>3, <1>1
      <4>2. QED
        BY <1>3, <4>1
    <3>4. QED
      BY <1>1, <3>1, <3>2, <3>3
  <2>3. \A j \in 1 .. Len(entries) :
          list[j].key \in {entries[i].key : i \in 1 .. Len(entries)}
    BY <2>1
  <2>4. \A i \in 1 .. Len(entries) :
          entries[i].key \in {list[j].key : j \in 1 .. Len(entries)}
    BY <2>2
  <2>5. QED
    BY <2>3, <2>4
<1>8. recent[p] = k
  BY <1>5 DEF CacheInv, LastUsed
<1>9. recent' = MoveToFront(recent, p, k) /\ recent' \in Seq(Key) /\ NoKeyTwice'
  <2>1. \A i \in 1 .. Len(recent) : recent[i] = k => i = p
    BY <1>2, <1>8 DEF CacheInv, NoKeyTwice
  <2>2. QED
    BY <1>1, <1>2, <1>8, <2>1, UseEffect
<1>10. entries' = list /\ recent' = used
  BY <1>9, <1>5 DEF list, used
<1>11. LastUsed'
  BY <1>3, <1>4, <1>6, <1>10 DEF CacheInv, LastUsed
<1>12. Indexed'
  BY <1>3, <1>7, <1>10 DEF CacheInv, Indexed
<1>13. QED
  BY <1>9, <1>3, <1>10, <1>11, <1>12 DEF CacheInv, CacheTyped

\* A key that is not in the cache comes first, and up to the length of the
\* list every other moves by one.
Shifted(k) ==
    /\ recent'[1] = k
    /\ \/ Len(recent') = Len(recent) + 1
       \/ Len(recent') = Len(recent) /\ Len(recent) > Len(entries)
    /\ \A j \in 2 .. Len(entries) + 1 : j <= Len(recent') => recent'[j] = recent[j - 1]

LEMMA UseShifts ==
    ASSUME CacheInv, NEW k \in Key, Use(k), k \notin cache_index
    PROVE  Shifted(k)
<1> DEFINE n == Len(entries)
<1>1. recent \in Seq(Key) /\ Len(recent) \in Nat /\ n \in Nat /\ n <= Len(recent)
  BY LenProperties, SearchApiAssumption DEF CacheInv, CacheTyped, LastUsed
<1>2. \A i \in 1 .. n : recent[i] # k
  BY DEF CacheInv, LastUsed, Indexed
<1>3. recent' = <<k>> \o recent => Shifted(k)
  <2> DEFINE used == <<k>> \o recent
  <2>1. used[1] = k /\ Len(used) = Len(recent) + 1
    BY <1>1, Pushed
  <2>2. \A j \in 2 .. Len(recent) + 1 : used[j] = recent[j - 1]
    BY <1>1, Pushed
  <2> HIDE DEF used
  <2>3. recent' = used => Shifted(k)
    BY <1>1, <2>1, <2>2 DEF Shifted
  <2>4. QED
    BY <2>3 DEF used
<1>4. ASSUME NEW i \in 1 .. Len(recent)
      PROVE  recent[i] = k /\ recent' = MoveToFront(recent, i, k) => Shifted(k)
  <2> DEFINE used == MoveToFront(recent, i, k)
  <2>1. Len(used) = Len(recent)
    BY <1>1, Moved
  <2>2. used[1] = k
    BY <1>1, Moved
  <2>3. \A j \in 2 .. Len(recent) :
          used[j] = IF j <= i THEN recent[j - 1] ELSE recent[j]
    BY <1>1, Moved
  <2> HIDE DEF used
  <2>4. recent[i] = k /\ recent' = used => Shifted(k)
    <3> SUFFICES ASSUME recent[i] = k, recent' = used PROVE Shifted(k)
      OBVIOUS
    <3>1. i > n
      BY <1>1, <1>2
    <3>2. \A j \in 2 .. n + 1 : j <= Len(recent) => used[j] = recent[j - 1]
      BY <1>1, <2>3, <3>1
    <3>3. Len(recent) > n
      BY <1>1, <3>1
    <3>4. QED
      BY <2>1, <2>2, <3>2, <3>3 DEF Shifted
  <2>5. QED
    BY <2>4 DEF used
<1>5. QED
  BY <1>3, <1>4, UseEffect

\* What the cache is after an answer to a key it does not hold.
LEMMA InsertEffect ==
    ASSUME CacheInv, NEW k \in Key, NEW x \in Answer, Use(k), x.key = k, Insert(x)
    PROVE  CacheInv'
<1> DEFINE list == <<x>> \o entries
           n == Len(entries)
<1>1. /\ entries \in Seq(Answer) /\ n \in Nat
      /\ recent \in Seq(Key) /\ Len(recent) \in Nat
      /\ cache_capacity \in Nat \ {0}
  BY LenProperties, SearchApiAssumption DEF CacheInv, CacheTyped
<1>2. list \in Seq(Answer) /\ Len(list) = n + 1 /\ list[1] = x
  BY <1>1, Pushed
<1>3. \A j \in 2 .. n + 1 : list[j] = entries[j - 1]
  BY <1>1, Pushed
<1>4. \A j \in 1 .. n : entries[j].key = recent[j]
  BY DEF CacheInv, LastUsed
<1>5. n = IF Len(recent) < cache_capacity THEN Len(recent) ELSE cache_capacity
  BY DEF CacheInv, LastUsed
<1>6. k \notin cache_index /\ \A j \in 1 .. n : entries[j].key # k
  BY DEF CacheInv, Indexed, Insert
<1>7. recent' \in Seq(Key) /\ NoKeyTwice' /\ Len(recent') \in Nat
  BY LenProperties, UseEffect
<1>8. Shifted(k)
  BY <1>6, UseShifts
<1>9. /\ Len(list) > cache_capacity =>
           /\ entries' = SubSeq(list, 1, Len(list) - 1)
           /\ cache_index' = (cache_index \cup {k}) \ {list[Len(list)].key}
      /\ ~(Len(list) > cache_capacity) =>
           entries' = list /\ cache_index' = cache_index \cup {k}
  BY DEF Insert, Last
<1> HIDE DEF list
<1>10. \A j \in 1 .. n + 1 : j <= Len(recent') => list[j].key = recent'[j]
  <2> SUFFICES ASSUME NEW j \in 1 .. n + 1, j <= Len(recent')
               PROVE  list[j].key = recent'[j]
    OBVIOUS
  <2>1. CASE j = 1
    BY <1>2, <1>8, <2>1 DEF Shifted
  <2>2. CASE j # 1
    <3>1. j \in 2 .. n + 1 /\ j - 1 \in 1 .. n
      BY <1>1, <2>2
    <3>2. list[j] = entries[j - 1] /\ entries[j - 1].key = recent[j - 1]
      BY <1>3, <1>4, <3>1
    <3>3. recent'[j] = recent[j - 1]
      BY <1>8, <3>1 DEF Shifted
    <3>4. QED
      BY <3>2, <3>3
  <2>3. QED
    BY <2>1, <2>2
<1>11. \A i, j \in 1 .. n + 1 : list[i].key = list[j].key => i = j
  <2> SUFFICES ASSUME NEW i \in 1 .. n + 1, NEW j \in 1 .. n + 1,
                      list[i].key = list[j].key, i # j
               PROVE  FALSE
    OBVIOUS
  <2>1. \A h \in 2 .. n + 1 : h - 1 \in 1 .. n /\ list[h].key = recent[h - 1] /\ list[h].key # k
    <3> SUFFICES ASSUME NEW h \in 2 .. n + 1
                 PROVE  h - 1 \in 1 .. n /\ list[h].key = recent[h - 1] /\ list[h].key # k
      OBVIOUS
    <3>1. h - 1 \in 1 .. n
      BY <1>1
    <3>2. list[h] = entries[h - 1]
      BY <1>3
    <3>3. entries[h - 1].key = recent[h - 1] /\ entries[h - 1].key # k
      BY <1>4, <1>6, <3>1
    <3>4. QED
      BY <3>1, <3>2, <3>3
  <2>2. CASE i \in 2 .. n + 1 /\ j \in 2 .. n + 1
    <3>1. i - 1 \in 1 .. Len(recent) /\ j - 1 \in 1 .. Len(recent)
      BY <1>1, <1>5, <2>2
    <3>2. recent[i - 1] = recent[j - 1]
      BY <2>1, <2>2
    <3>3. i - 1 = j - 1
      BY <3>1, <3>2 DEF CacheInv, NoKeyTwice
    <3>4. QED
      BY <1>1, <3>3
  <2>3. CASE i = 1
    <3>1. j \in 2 .. n + 1
      BY <1>1, <2>3
    <3>2. QED
      BY <1>2, <2>1, <2>3, <3>1
  <2>4. CASE j = 1
    <3>1. i \in 2 .. n + 1
      BY <1>1, <2>4
    <3>2. QED
      BY <1>2, <2>1, <2>4, <3>1
  <2>5. QED
    BY <1>1, <2>2, <2>3, <2>4
<1>12. {list[j].key : j \in 1 .. n + 1} = cache_index \cup {k}
  <2>1. ASSUME NEW j \in 1 .. n + 1
        PROVE  list[j].key = k \/ \E i \in 1 .. n : list[j].key = entries[i].key
    <3>1. CASE j = 1
      BY <1>2, <3>1
    <3>2. CASE j # 1
      <4>1. j \in 2 .. n + 1 /\ j - 1 \in 1 .. n
        BY <1>1, <3>2
      <4>2. QED
        BY <1>3, <4>1
    <3>3. QED
      BY <3>1, <3>2
  <2>2. ASSUME NEW i \in 1 .. n
        PROVE  \E j \in 1 .. n + 1 : list[j].key = entries[i].key
    <3>1. i + 1 \in 2 .. n + 1 /\ i + 1 \in 1 .. n + 1 /\ (i + 1) - 1 = i
      BY <1>1
    <3>2. QED
      BY <1>3, <3>1
  <2>3. 1 \in 1 .. n + 1
    BY <1>1
  <2>4. {list[j].key : j \in 1 .. n + 1} = {entries[i].key : i \in 1 .. n} \cup {k}
    <3>1. \A j \in 1 .. n + 1 : list[j].key \in {entries[i].key : i \in 1 .. n} \cup {k}
      BY <2>1
    <3>2. \A i \in 1 .. n : entries[i].key \in {list[j].key : j \in 1 .. n + 1}
      BY <2>2
    <3>3. k \in {list[j].key : j \in 1 .. n + 1}
      BY <1>2, <2>3
    <3>4. QED
      BY <3>1, <3>2, <3>3
  <2>5. QED
    BY <2>4 DEF CacheInv, Indexed
<1>13. CASE n + 1 > cache_capacity
  <2>1. n = cache_capacity /\ Len(recent') >= cache_capacity
    BY <1>1, <1>5, <1>7, <1>8, <1>13 DEF Shifted
  <2>2. /\ SubSeq(list, 1, Len(list) - 1) \in Seq(Answer)
        /\ Len(SubSeq(list, 1, Len(list) - 1)) = n
        /\ \A j \in 1 .. n : SubSeq(list, 1, Len(list) - 1)[j] = list[j]
    <3>1. Len(list) > 0 /\ Len(list) - 1 = n
      BY <1>1, <1>2
    <3>2. /\ SubSeq(list, 1, Len(list) - 1) \in Seq(Answer)
          /\ Len(SubSeq(list, 1, Len(list) - 1)) = Len(list) - 1
          /\ \A j \in 1 .. Len(list) - 1 : SubSeq(list, 1, Len(list) - 1)[j] = list[j]
      BY <1>2, <3>1, Evicted
    <3>3. QED
      BY <3>1, <3>2
  <2>3. /\ entries' \in Seq(Answer) /\ Len(entries') = n
        /\ \A j \in 1 .. n : entries'[j] = list[j]
    BY <1>1, <1>2, <1>9, <1>13, <2>2
  <2>4. LastUsed'
    <3>1. \A j \in 1 .. n : entries'[j].key = recent'[j]
      BY <1>1, <1>7, <1>10, <2>1, <2>3
    <3>2. QED
      BY <1>1, <1>7, <2>1, <2>3, <3>1 DEF LastUsed
  <2>5. Indexed'
    <3>1. cache_index' = (cache_index \cup {k}) \ {list[n + 1].key}
      BY <1>1, <1>2, <1>9, <1>13
    <3>2. {list[j].key : j \in 1 .. n} = {list[j].key : j \in 1 .. n + 1} \ {list[n + 1].key}
      <4>1. \A j \in 1 .. n : j \in 1 .. n + 1 /\ list[j].key # list[n + 1].key
        BY <1>1, <1>11
      <4>2. \A j \in 1 .. n + 1 : j \in 1 .. n \/ j = n + 1
        BY <1>1
      <4>3. QED
        BY <4>1, <4>2
    <3>3. {entries'[j].key : j \in 1 .. n} = {list[j].key : j \in 1 .. n}
      BY <2>3
    <3>4. QED
      BY <1>12, <2>3, <3>1, <3>2, <3>3 DEF Indexed
  <2>6. QED
    BY <1>7, <2>3, <2>4, <2>5 DEF CacheInv, CacheTyped
<1>14. CASE ~(n + 1 > cache_capacity)
  <2>1. n = Len(recent) /\ Len(recent') = n + 1
    BY <1>1, <1>5, <1>7, <1>8, <1>14 DEF Shifted
  <2>2. entries' = list /\ cache_index' = cache_index \cup {k}
    BY <1>2, <1>9, <1>14
  <2>3. LastUsed'
    BY <1>1, <1>2, <1>10, <1>14, <2>1, <2>2 DEF LastUsed
  <2>4. Indexed'
    BY <1>2, <1>12, <2>2 DEF Indexed
  <2>5. QED
    BY <1>2, <1>7, <2>2, <2>3, <2>4 DEF CacheInv, CacheTyped
<1>15. QED
  BY <1>1, <1>13, <1>14

(***************************************************************************)
(* A search: what it has read so far is a count for each document it has   *)
(* gone through.                                                           *)
(***************************************************************************)

SearchTyped ==
    /\ key \in [Thread -> Key \cup {NoKey}]
    /\ todo \in [Thread -> SUBSET Document]
    /\ seen \in [Thread -> Counts]
    /\ late \in [Thread -> BOOLEAN]
    /\ \A t \in Thread : pc[t] = "score" =>
         /\ key[t] \in Key
         /\ todo[t] \subseteq Matches[key[t]]
         /\ seen[t] \in [Matches[key[t]] \ todo[t] -> Nat]

\* The answer that a search stores.
AnswerOf(t) == [key |-> key[t], seen |-> seen[t], late |-> late[t]]

LEMMA UnseenCounts == Unseen \in Counts
<1>1. Unseen \in [{} -> Nat]
  BY DEF Unseen
<1>2. QED
  BY <1>1 DEF Counts

\* One more count read.
LEMMA ScoreSeen ==
    ASSUME NEW D \in SUBSET Document, NEW f \in [D -> Nat],
           NEW d \in Document, click_count[d] \in Nat, d \notin D
    PROVE  /\ WithCount(f, d) \in [D \cup {d} -> Nat]
           /\ \A e \in D : WithCount(f, d)[e] = f[e]
           /\ WithCount(f, d)[d] = click_count[d]
BY DEF WithCount

LEMMA SearchTypedInit == Init => SearchTyped
BY UnseenCounts DEF Init, SearchTyped

LEMMA ScoreTyped ==
    ASSUME Typed, SearchTyped, NEW t \in Thread, NEW d \in todo[t], Score(t, d)
    PROVE  SearchTyped' /\ seen'[t] \in [(Matches[key[t]] \ todo[t]) \cup {d} -> Nat]
<1> DEFINE D == Matches[key[t]] \ todo[t]
           read1 == WithCount(seen[t], d)
<1>1. /\ pc[t] = "score" /\ key[t] \in Key /\ d \in Document /\ d \in Matches[key[t]]
      /\ D \in SUBSET Document /\ d \notin D /\ seen[t] \in [D -> Nat]
      /\ click_count[d] \in Nat
  BY SearchApiAssumption DEF Score, SearchTyped, Typed
<1>2. read1 \in [D \cup {d} -> Nat]
  BY <1>1, ScoreSeen
<1>3. read1 \in Counts
  BY <1>1, <1>2 DEF Counts
<1>4. D \cup {d} = Matches[key[t]] \ (todo[t] \ {d})
  BY <1>1
<1>5. /\ todo' = [todo EXCEPT ![t] = @ \ {d}]
      /\ seen' = [seen EXCEPT ![t] = read1]
      /\ UNCHANGED <<key, late, pc>>
  BY DEF Score
<1> HIDE DEF read1, D
<1>6. /\ seen'[t] = read1 /\ todo'[t] = todo[t] \ {d}
      /\ seen' \in [Thread -> Counts] /\ todo' \in [Thread -> SUBSET Document]
  BY <1>3, <1>5 DEF SearchTyped
<1>7. QED
  BY <1>1, <1>2, <1>4, <1>5, <1>6 DEF SearchTyped, D

\* A search that stores its answer.
LEMMA AnswerTyped ==
    ASSUME SearchTyped, NEW t \in Thread, pc[t] = "score"
    PROVE  AnswerOf(t) \in Answer /\ AnswerOf(t).key = key[t]
BY DEF SearchTyped, Answer, AnswerOf

LEMMA SearchTypedStep == Typed /\ SearchTyped /\ [Next]_vars => SearchTyped'
<1> SUFFICES ASSUME Typed, SearchTyped, [Next]_vars PROVE SearchTyped'
  OBVIOUS
<1>1. CASE Restart
  BY <1>1, UnseenCounts DEF Restart, SearchTyped
<1>2. ASSUME NEW t \in Thread, NEW k \in Key, Hit(t, k) PROVE SearchTyped'
  BY <1>2 DEF Hit, SearchTyped, searchVars
<1>3. ASSUME NEW t \in Thread, NEW k \in Key, Miss(t, k) PROVE SearchTyped'
  <2>1. Matches[k] \in SUBSET Document /\ Unseen \in [Matches[k] \ Matches[k] -> Nat]
    BY SearchApiAssumption DEF Unseen
  <2>2. QED
    BY <1>3, <2>1, UnseenCounts DEF Miss, SearchTyped, Typed
<1>4. ASSUME NEW t \in Thread, NEW d \in todo[t], Score(t, d) PROVE SearchTyped'
  BY <1>4, ScoreTyped
<1>5. ASSUME NEW t \in Thread, Store(t) PROVE SearchTyped'
  BY <1>5, UnseenCounts DEF Store, SearchTyped, Typed
<1>6. ASSUME NEW t \in Thread, NEW d \in Document, ReadCount(t, d) PROVE SearchTyped'
  BY <1>6 DEF ReadCount, SearchTyped, searchVars, Typed
<1>7. ASSUME NEW t \in Thread, WriteCount(t) PROVE SearchTyped'
  BY <1>7 DEF WriteCount, SearchTyped, searchVars, Typed
<1>8. ASSUME NEW t \in Thread, ClearCache(t) PROVE SearchTyped'
  BY <1>8 DEF ClearCache, SearchTyped, Typed
<1>9. ASSUME NEW t \in Thread, IncrementClickCount(t) PROVE SearchTyped'
  BY <1>9 DEF IncrementClickCount, SearchTyped, searchVars, Typed
<1>10. ASSUME NEW t \in Thread, Respond(t) PROVE SearchTyped'
  BY <1>10 DEF Respond, SearchTyped, searchVars, Typed
<1>11. CASE UNCHANGED vars
  BY <1>11 DEF vars, SearchTyped, searchVars
<1>12. QED
  BY <1>1, <1>2, <1>3, <1>4, <1>5, <1>6, <1>7, <1>8, <1>9, <1>10, <1>11
     DEF Next, ThreadStep

LEMMA SearchTypedAlways == Spec => []SearchTyped
<1>1. Typed /\ SearchTyped /\ [Next]_vars => SearchTyped'
  BY SearchTypedStep
<1>2. QED
  BY <1>1, TypedAlways, SearchTypedInit, PTL DEF Spec

LEMMA CacheStep == SearchTyped /\ CacheInv /\ [Next]_vars => CacheInv'
<1> SUFFICES ASSUME SearchTyped, CacheInv, [Next]_vars PROVE CacheInv'
  OBVIOUS
<1>1. CASE Restart
  BY <1>1, CacheEmptied DEF Restart
<1>2. ASSUME NEW t \in Thread, NEW k \in Key, Hit(t, k) PROVE CacheInv'
  <2>1. PICK p \in DOMAIN entries :
          entries[p].key = k /\ entries' = MoveToFront(entries, p, entries[p])
    BY <1>2 DEF Hit, GetCached
  <2>2. p \in 1 .. Len(entries) /\ entries[p] \in Answer
    BY LenProperties, ElementOfSeq DEF CacheInv, CacheTyped
  <2>3. Use(k) /\ UNCHANGED cache_index
    BY <1>2 DEF Hit, GetCached
  <2>4. QED
    BY <2>1, <2>2, <2>3, MovedEffect
<1>3. ASSUME NEW t \in Thread, Store(t) PROVE CacheInv'
  <2>1. pc[t] = "score" /\ key[t] \in Key /\ AnswerOf(t) \in Answer /\ AnswerOf(t).key = key[t]
    BY <1>3, AnswerTyped DEF Store, SearchTyped
  <2>2. Use(key[t]) /\ (Replace(AnswerOf(t)) \/ Insert(AnswerOf(t)))
    BY <1>3, <2>1 DEF Store, PutCached, AnswerOf
  <2> DEFINE x == AnswerOf(t)
  <2> HIDE DEF x
  <2>3. CASE Replace(x)
    <3>1. PICK p \in DOMAIN entries :
            entries[p].key = x.key /\ entries' = MoveToFront(entries, p, x)
      BY <2>3 DEF Replace
    <3>2. p \in 1 .. Len(entries) /\ UNCHANGED cache_index
      BY <2>3, LenProperties DEF CacheInv, CacheTyped, Replace
    <3>3. x \in Answer /\ x.key = key[t]
      BY <2>1 DEF x
    <3>4. QED
      BY <2>1, <2>2, <3>1, <3>2, <3>3, MovedEffect
  <2>4. CASE Insert(x)
    <3>1. x \in Answer /\ x.key = key[t]
      BY <2>1 DEF x
    <3>2. QED
      BY <2>1, <2>2, <2>4, <3>1, InsertEffect
  <2>5. QED
    BY <2>2, <2>3, <2>4 DEF x
<1>4. ASSUME NEW t \in Thread, ClearCache(t) PROVE CacheInv'
  BY <1>4, CacheEmptied DEF ClearCache
<1>5. CASE UNCHANGED cacheVars
  BY <1>5 DEF cacheVars, CacheInv, CacheTyped, NoKeyTwice, LastUsed, Indexed
<1>6. QED
  BY <1>1, <1>2, <1>3, <1>4, <1>5
     DEF Next, ThreadStep, Miss, Score, ReadCount, WriteCount, IncrementClickCount,
         Respond, vars

\* The list and the map of the cache hold the keys used last, in that order,
\* and no others (query_engine.cpp 136-174).
THEOREM CacheIsLRUHolds == Spec => []CacheIsLRU
<1>1. CacheInv => CacheIsLRU
  <2> SUFFICES ASSUME CacheInv PROVE CacheIsLRU
    OBVIOUS
  <2> DEFINE n == IF Len(recent) < cache_capacity THEN Len(recent) ELSE cache_capacity
  <2>1. /\ entries \in Seq(Answer) /\ DOMAIN entries = 1 .. Len(entries)
        /\ recent \in Seq(Key) /\ Len(recent) \in Nat /\ n \in Nat /\ n <= Len(recent)
        /\ Len(entries) = n
    BY LenProperties, SearchApiAssumption DEF CacheInv, CacheTyped, LastUsed
  <2> HIDE DEF n
  <2>2. \A i \in 1 .. n : recent[i] \in Key
    BY <2>1, ElementOfSeq
  <2>3. Keys = [i \in 1 .. n |-> recent[i]]
    BY <2>1 DEF Keys, CacheInv, LastUsed
  <2>4. Keys \in Seq(Key) /\ Len(Keys) = n
    BY <2>1, <2>2, <2>3
  <2>5. /\ SubSeq(recent, 1, n) \in Seq(Key) /\ Len(SubSeq(recent, 1, n)) = n
        /\ \A i \in 1 .. n : SubSeq(recent, 1, n)[i] = recent[i]
    BY <2>1, <2>2, SubSeqProperties
  <2>6. Keys = SubSeq(recent, 1, n)
    BY <2>3, <2>4, <2>5, SeqEqual
  <2>7. cache_index = ToSet(Keys)
    BY <2>1, <2>3 DEF CacheInv, Indexed, ToSet, Keys
  <2>8. QED
    BY <2>6, <2>7 DEF CacheIsLRU, n
<1>2. Init => CacheInv
  BY CacheEmpty DEF Init
<1>3. SearchTyped /\ CacheInv /\ [Next]_vars => CacheInv'
  BY CacheStep
<1>4. QED
  BY <1>1, <1>2, <1>3, SearchTypedAlways, PTL DEF Spec

(***************************************************************************)
(* The answers.  StaleOnlyIfLate is not inductive: an answer that is being *)
(* computed must be as right as one in the cache, for the documents of     *)
(* which it has read the count.                                            *)
(***************************************************************************)

EntriesCurrent ==
    \A i \in DOMAIN entries : ~entries[i].late =>
        \A d \in Matches[entries[i].key] :
            entries[i].seen[d] # click_count[d] => Between(d, {"clear"}) > 0

SearchesCurrent ==
    \A t \in Thread : pc[t] = "score" /\ ~late[t] =>
        \A d \in Matches[key[t]] \ todo[t] :
            seen[t][d] # click_count[d] => Between(d, {"clear"}) > 0

\* A step after which the documents that no click is about to clear have the
\* counts they had, and had no such click.
NoneStaler ==
    \A d : \/ Between(d, {"clear"})' > 0
           \/ click_count'[d] = click_count[d] /\ ~(Between(d, {"clear"}) > 0)

LEMMA NoneStalerOf ==
    ASSUME UNCHANGED click_count,
           \A t \in Thread : pc'[t] = "clear" \/ pc[t] = "clear" =>
                               pc'[t] = pc[t] /\ doc'[t] = doc[t]
    PROVE  NoneStaler
<1>1. \A d : At(d, {"clear"})' = At(d, {"clear"})
  BY DEF At
<1>2. \A d : Between(d, {"clear"})' = Between(d, {"clear"})
  BY <1>1 DEF At, Between
<1>3. QED
  BY <1>2 DEF NoneStaler

\* Every entry after a hit is one from before.
LEMMA HitFrom ==
    ASSUME CacheInv, NEW k, GetCached(k)
    PROVE  \A j \in DOMAIN entries' : \E i \in DOMAIN entries : entries'[j] = entries[i]
<1>1. /\ entries \in Seq(Answer) /\ Len(entries) \in Nat
      /\ DOMAIN entries = 1 .. Len(entries)
  BY LenProperties DEF CacheInv, CacheTyped
<1>2. ASSUME NEW p \in 1 .. Len(entries)
      PROVE  \A j \in DOMAIN MoveToFront(entries, p, entries[p]) :
               \E i \in DOMAIN entries : MoveToFront(entries, p, entries[p])[j] = entries[i]
  <2>1. entries[p] \in Answer
    BY <1>1, ElementOfSeq
  <2> DEFINE x == entries[p]
  <2> HIDE DEF x
  <2>2. x \in Answer
    BY <2>1 DEF x
  <2> DEFINE list == MoveToFront(entries, p, x)
  <2>3. list \in Seq(Answer) /\ Len(list) = Len(entries)
    BY <1>1, <2>2, Moved
  <2>4. list[1] = x
    BY <1>1, <2>2, Moved
  <2>5. \A j \in 2 .. Len(entries) :
          list[j] = IF j <= p THEN entries[j - 1] ELSE entries[j]
    <3>1. entries \in Seq(Answer)
      BY <1>1
    <3>2. QED
      BY <2>2, <3>1, Moved
  <2> HIDE DEF list
  <2>6. DOMAIN list = 1 .. Len(entries)
    BY <2>3, LenProperties
  <2>7. ASSUME NEW j \in 1 .. Len(entries) PROVE \E i \in 1 .. Len(entries) : list[j] = entries[i]
    <3>1. CASE j = 1
      BY <2>4, <3>1 DEF x
    <3>2. CASE j # 1
      <4>1. j \in 2 .. Len(entries) /\ j - 1 \in 1 .. Len(entries)
        BY <1>1, <3>2
      <4>2. QED
        BY <2>5, <4>1
    <3>3. QED
      BY <3>1, <3>2
  <2>8. QED
    BY <1>1, <2>6, <2>7 DEF list, x
<1>3. QED
  BY <1>1, <1>2 DEF GetCached

\* Every entry after an answer is stored is that answer or one from before.
LEMMA PutFrom ==
    ASSUME CacheInv, NEW x \in Answer, PutCached(x)
    PROVE  \A j \in DOMAIN entries' :
             entries'[j] = x \/ \E i \in DOMAIN entries : entries'[j] = entries[i]
<1>1. /\ entries \in Seq(Answer) /\ Len(entries) \in Nat
      /\ DOMAIN entries = 1 .. Len(entries)
  BY LenProperties DEF CacheInv, CacheTyped
<1>2. ASSUME NEW p \in 1 .. Len(entries)
      PROVE  \A j \in DOMAIN MoveToFront(entries, p, x) :
               \/ MoveToFront(entries, p, x)[j] = x
               \/ \E i \in DOMAIN entries : MoveToFront(entries, p, x)[j] = entries[i]
  <2> DEFINE list == MoveToFront(entries, p, x)
  <2>1. list \in Seq(Answer) /\ Len(list) = Len(entries)
    BY <1>1, Moved
  <2>2. list[1] = x
    BY <1>1, Moved
  <2>3. \A j \in 2 .. Len(entries) :
          list[j] = IF j <= p THEN entries[j - 1] ELSE entries[j]
    <3> SUFFICES ASSUME NEW j \in 2 .. Len(entries)
                 PROVE  list[j] = IF j <= p THEN entries[j - 1] ELSE entries[j]
      OBVIOUS
    <3>1. entries \in Seq(Answer) /\ Len(entries) \in Nat
      BY <1>1
    <3>2. QED
      BY <3>1, Moved
  <2> HIDE DEF list
  <2>4. DOMAIN list = 1 .. Len(entries)
    BY <2>1, LenProperties
  <2>5. ASSUME NEW j \in 1 .. Len(entries), j # 1
        PROVE  \E i \in 1 .. Len(entries) : list[j] = entries[i]
    <3>1. j \in 2 .. Len(entries) /\ j - 1 \in 1 .. Len(entries)
      BY <1>1, <2>5
    <3>2. QED
      BY <2>3, <3>1
  <2>6. QED
    BY <1>1, <2>2, <2>4, <2>5 DEF list
<1>3. CASE Replace(x)
  BY <1>1, <1>2, <1>3 DEF Replace
<1>4. CASE Insert(x)
  <2> DEFINE list == <<x>> \o entries
             n == Len(entries)
  <2>1. list \in Seq(Answer) /\ Len(list) = n + 1 /\ list[1] = x
    BY <1>1, Pushed
  <2>2. \A j \in 2 .. n + 1 : list[j] = entries[j - 1]
    BY <1>1, Pushed
  <2>3. entries' = SubSeq(list, 1, Len(list) - 1) \/ entries' = list
    BY <1>4 DEF Insert
  <2> HIDE DEF list
  <2>4. /\ SubSeq(list, 1, Len(list) - 1) \in Seq(Answer)
        /\ Len(SubSeq(list, 1, Len(list) - 1)) = Len(list) - 1
        /\ \A j \in 1 .. Len(list) - 1 : SubSeq(list, 1, Len(list) - 1)[j] = list[j]
    <3>1. Len(list) > 0
      BY <1>1, <2>1
    <3>2. QED
      BY <2>1, <3>1, Evicted
  <2>5. \A j \in DOMAIN entries' : j \in 1 .. n + 1 /\ entries'[j] = list[j]
    <3>1. DOMAIN list = 1 .. n + 1
      BY <2>1, LenProperties
    <3>2. DOMAIN SubSeq(list, 1, Len(list) - 1) = 1 .. Len(list) - 1
      BY <2>4, LenProperties
    <3>3. QED
      BY <1>1, <2>1, <2>3, <2>4, <3>1, <3>2
  <2>6. ASSUME NEW j \in 1 .. n + 1, j # 1
        PROVE  \E i \in 1 .. n : list[j] = entries[i]
    <3>1. j \in 2 .. n + 1 /\ j - 1 \in 1 .. n
      BY <1>1, <2>6
    <3>2. QED
      BY <2>2, <3>1
  <2>7. QED
    BY <1>1, <2>1, <2>5, <2>6
<1>5. QED
  BY <1>3, <1>4 DEF PutCached

LEMMA EntriesKeep ==
    ASSUME EntriesCurrent, NoneStaler,
           \A j \in DOMAIN entries' : \E i \in DOMAIN entries : entries'[j] = entries[i]
    PROVE  EntriesCurrent'
<1>1. ASSUME NEW j \in DOMAIN entries', ~entries'[j].late, NEW d \in Matches[entries'[j].key],
             entries'[j].seen[d] # click_count'[d]
      PROVE  Between(d, {"clear"})' > 0
  <2>1. PICK i \in DOMAIN entries : entries'[j] = entries[i]
    OBVIOUS
  <2>2. entries[i].seen[d] # click_count[d] => Between(d, {"clear"}) > 0
    BY <1>1, <2>1 DEF EntriesCurrent
  <2>3. QED
    BY <1>1, <2>1, <2>2 DEF NoneStaler
<1>2. QED
  BY <1>1 DEF EntriesCurrent

LEMMA SearchesKeep ==
    ASSUME SearchesCurrent, NoneStaler, UNCHANGED <<key, todo, seen, late>>,
           \A t \in Thread : pc'[t] = "score" => pc[t] = "score"
    PROVE  SearchesCurrent'
<1>1. ASSUME NEW t \in Thread, pc'[t] = "score", ~late'[t],
             NEW d \in Matches[key'[t]] \ todo'[t], seen'[t][d] # click_count'[d]
      PROVE  Between(d, {"clear"})' > 0
  <2>1. seen[t][d] # click_count[d] => Between(d, {"clear"}) > 0
    BY <1>1 DEF SearchesCurrent
  <2>2. QED
    BY <1>1, <2>1 DEF NoneStaler
<1>2. QED
  BY <1>1 DEF SearchesCurrent

LEMMA CurrentStep ==
    ASSUME Typed, Typed', SearchTyped, CacheInv, EntriesCurrent, SearchesCurrent, [Next]_vars
    PROVE  EntriesCurrent' /\ SearchesCurrent'
<1>1. CASE Restart
  <2>1. DOMAIN entries' = {} /\ \A t \in Thread : pc'[t] # "score"
    BY <1>1 DEF Restart
  <2>2. QED
    BY <2>1 DEF EntriesCurrent, SearchesCurrent
<1>2. ASSUME NEW t \in Thread, NEW k \in Key, Hit(t, k)
      PROVE  EntriesCurrent' /\ SearchesCurrent'
  <2>1. NoneStaler
    BY <1>2, NoneStalerOf DEF Hit, countVars, clickVars
  <2>2. EntriesCurrent'
    BY <1>2, <2>1, HitFrom, EntriesKeep DEF Hit
  <2>3. QED
    BY <1>2, <2>1, <2>2, SearchesKeep DEF Hit, searchVars
<1>3. ASSUME NEW t \in Thread, NEW k \in Key, Miss(t, k)
      PROVE  EntriesCurrent' /\ SearchesCurrent'
  <2>1. NoneStaler
    BY <1>3, NoneStalerOf DEF Miss, countVars, clickVars, Typed
  <2>2. EntriesCurrent'
    BY <1>3, <2>1, EntriesKeep DEF Miss, cacheVars
  <2>3. /\ \A s \in Thread : s # t => /\ pc'[s] = pc[s] /\ key'[s] = key[s]
                                      /\ todo'[s] = todo[s] /\ seen'[s] = seen[s]
                                      /\ late'[s] = late[s]
        /\ key'[t] = k /\ todo'[t] = Matches[k]
    BY <1>3 DEF Miss, Typed, SearchTyped
  <2>4. ASSUME NEW s \in Thread, pc'[s] = "score", ~late'[s],
               NEW d \in Matches[key'[s]] \ todo'[s], seen'[s][d] # click_count'[d]
        PROVE  Between(d, {"clear"})' > 0
    <3>1. s # t
      BY <2>3, <2>4
    <3>2. seen[s][d] # click_count[d] => Between(d, {"clear"}) > 0
      BY <2>3, <2>4, <3>1 DEF SearchesCurrent
    <3>3. QED
      BY <2>1, <2>3, <2>4, <3>1, <3>2 DEF NoneStaler
  <2>5. SearchesCurrent'
    BY <2>4 DEF SearchesCurrent
  <2>6. QED
    BY <2>2, <2>5
<1>4. ASSUME NEW t \in Thread, NEW d \in todo[t], Score(t, d)
      PROVE  EntriesCurrent' /\ SearchesCurrent'
  <2>1. NoneStaler
    BY <1>4, NoneStalerOf DEF Score, countVars, clickVars
  <2>2. EntriesCurrent'
    BY <1>4, <2>1, EntriesKeep DEF Score, cacheVars
  <2>3. /\ \A s \in Thread : s # t => todo'[s] = todo[s] /\ seen'[s] = seen[s]
        /\ todo'[t] = todo[t] \ {d} /\ seen'[t] = WithCount(seen[t], d)
        /\ UNCHANGED <<key, late, pc, click_count>>
    BY <1>4 DEF Score, SearchTyped, countVars
  <2>4. /\ \A e \in Matches[key[t]] \ todo[t] : seen'[t][e] = seen[t][e]
        /\ seen'[t][d] = click_count[d]
    <3>1. /\ pc[t] = "score" /\ key[t] \in Key /\ d \in Document
          /\ Matches[key[t]] \ todo[t] \in SUBSET Document
          /\ seen[t] \in [Matches[key[t]] \ todo[t] -> Nat]
          /\ click_count[d] \in Nat
      BY <1>4, SearchApiAssumption DEF Score, SearchTyped, Typed
    <3>2. d \notin Matches[key[t]] \ todo[t]
      OBVIOUS
    <3>3. \A e \in Matches[key[t]] \ todo[t] : WithCount(seen[t], d)[e] = seen[t][e]
      BY <3>1, <3>2, ScoreSeen, ZenonT(60)
    <3>4. WithCount(seen[t], d)[d] = click_count[d]
      BY <3>1, <3>2, ScoreSeen
    <3>5. QED
      BY <2>3, <3>3, <3>4
  <2>5. ASSUME NEW s \in Thread, pc'[s] = "score", ~late'[s],
               NEW e \in Matches[key'[s]] \ todo'[s], seen'[s][e] # click_count'[e]
        PROVE  Between(e, {"clear"})' > 0
    <3>1. CASE s = t /\ e = d
      BY <2>3, <2>4, <2>5, <3>1
    <3>2. CASE ~(s = t /\ e = d)
      <4>1. e \in Matches[key[s]] \ todo[s] /\ seen'[s][e] = seen[s][e]
        BY <2>3, <2>4, <2>5, <3>2
      <4>2. seen[s][e] # click_count[e] => Between(e, {"clear"}) > 0
        BY <2>3, <2>5, <4>1 DEF SearchesCurrent
      <4>3. QED
        BY <2>1, <2>5, <4>1, <4>2 DEF NoneStaler
    <3>3. QED
      BY <3>1, <3>2
  <2>6. SearchesCurrent'
    BY <2>5 DEF SearchesCurrent
  <2>7. QED
    BY <2>2, <2>6
<1>5. ASSUME NEW t \in Thread, Store(t)
      PROVE  EntriesCurrent' /\ SearchesCurrent'
  <2>1. NoneStaler
    BY <1>5, NoneStalerOf DEF Store, countVars, clickVars, Typed
  <2>2. /\ pc[t] = "score" /\ todo[t] = {} /\ AnswerOf(t) \in Answer
        /\ PutCached(AnswerOf(t))
    BY <1>5, AnswerTyped DEF Store, AnswerOf
  <2>3. ASSUME NEW d \in Matches[key[t]], ~late[t], seen[t][d] # click_count'[d]
        PROVE  Between(d, {"clear"})' > 0
    <3>1. seen[t][d] # click_count[d] => Between(d, {"clear"}) > 0
      BY <2>2, <2>3 DEF SearchesCurrent
    <3>2. QED
      BY <2>1, <2>3, <3>1 DEF NoneStaler
  <2>4. ASSUME NEW j \in DOMAIN entries', ~entries'[j].late,
               NEW d \in Matches[entries'[j].key], entries'[j].seen[d] # click_count'[d]
        PROVE  Between(d, {"clear"})' > 0
    <3>1. CASE entries'[j] = AnswerOf(t)
      BY <2>3, <2>4, <3>1 DEF AnswerOf
    <3>2. ASSUME NEW i \in DOMAIN entries, entries'[j] = entries[i]
          PROVE  Between(d, {"clear"})' > 0
      <4>1. entries[i].seen[d] # click_count[d] => Between(d, {"clear"}) > 0
        BY <2>4, <3>2 DEF EntriesCurrent
      <4>2. QED
        BY <2>1, <2>4, <3>2, <4>1 DEF NoneStaler
    <3>3. QED
      BY <2>2, <3>1, <3>2, PutFrom
  <2>5. EntriesCurrent'
    BY <2>4 DEF EntriesCurrent
  <2>6. \A s \in Thread : s # t => /\ pc'[s] = pc[s] /\ key'[s] = key[s]
                                   /\ todo'[s] = todo[s] /\ seen'[s] = seen[s]
                                   /\ late'[s] = late[s]
    BY <1>5 DEF Store, Typed, SearchTyped
  <2>7. pc'[t] = "idle"
    BY <1>5 DEF Store, Typed
  <2>8. ASSUME NEW s \in Thread, pc'[s] = "score", ~late'[s],
               NEW d \in Matches[key'[s]] \ todo'[s], seen'[s][d] # click_count'[d]
        PROVE  Between(d, {"clear"})' > 0
    <3>1. s # t
      BY <2>7, <2>8
    <3>2. seen[s][d] # click_count[d] => Between(d, {"clear"}) > 0
      BY <2>6, <2>8, <3>1 DEF SearchesCurrent
    <3>3. QED
      BY <2>1, <2>6, <2>8, <3>1, <3>2 DEF NoneStaler
  <2>9. SearchesCurrent'
    BY <2>8 DEF SearchesCurrent
  <2>10. QED
    BY <2>5, <2>9
<1>6. ASSUME NEW t \in Thread, NEW d \in Document, ReadCount(t, d)
      PROVE  EntriesCurrent' /\ SearchesCurrent'
  <2>1. NoneStaler
    BY <1>6, NoneStalerOf DEF ReadCount, Typed
  <2>2. EntriesCurrent'
    BY <1>6, <2>1, EntriesKeep DEF ReadCount, cacheVars
  <2>3. QED
    BY <1>6, <2>1, <2>2, SearchesKeep DEF ReadCount, searchVars, Typed
<1>7. ASSUME NEW t \in Thread, WriteCount(t)
      PROVE  EntriesCurrent' /\ SearchesCurrent'
  <2>1. /\ \A s \in Thread : s # t => pc'[s] = pc[s]
        /\ pc[t] = "write" /\ pc'[t] = "clear" /\ doc[t] \in Document
        /\ UNCHANGED doc
        /\ click_count' = [click_count EXCEPT ![doc[t]] = read[t] + 1]
    BY <1>7 DEF WriteCount, clickVars, Typed
  <2>2. \A d : Between(d, {"clear"})' = IF d = doc[t] THEN Between(d, {"clear"}) + 1
                                        ELSE Between(d, {"clear"})
    BY <2>1, Moves DEF At
  <2>3. \A d : d # doc[t] => click_count'[d] = click_count[d]
    BY <2>1 DEF Typed
  <2>4. NoneStaler
    BY <2>2, <2>3, BetweenNat DEF NoneStaler
  <2>5. EntriesCurrent'
    BY <1>7, <2>4, EntriesKeep DEF WriteCount, cacheVars
  <2>6. QED
    BY <1>7, <2>1, <2>4, <2>5, SearchesKeep DEF WriteCount, searchVars
<1>8. ASSUME NEW t \in Thread, ClearCache(t)
      PROVE  EntriesCurrent' /\ SearchesCurrent'
  <2>1. DOMAIN entries' = {}
    BY <1>8 DEF ClearCache
  <2>2. \A s \in Thread : pc'[s] = "score" => late'[s]
    BY <1>8 DEF ClearCache, Typed
  <2>3. QED
    BY <2>1, <2>2 DEF EntriesCurrent, SearchesCurrent
<1>9. ASSUME NEW t \in Thread, IncrementClickCount(t) \/ Respond(t)
      PROVE  EntriesCurrent' /\ SearchesCurrent'
  <2>1. NoneStaler
    BY <1>9, NoneStalerOf DEF IncrementClickCount, Respond, clickVars, Typed
  <2>2. EntriesCurrent'
    BY <1>9, <2>1, EntriesKeep DEF IncrementClickCount, Respond, cacheVars
  <2>3. QED
    BY <1>9, <2>1, <2>2, SearchesKeep DEF IncrementClickCount, Respond, searchVars, Typed
<1>10. CASE UNCHANGED vars
  <2>1. NoneStaler
    BY <1>10, NoneStalerOf DEF vars, countVars, clickVars
  <2>2. EntriesCurrent'
    BY <1>10, <2>1, EntriesKeep DEF vars, cacheVars
  <2>3. QED
    BY <1>10, <2>1, <2>2, SearchesKeep DEF vars, searchVars
<1>11. QED
  BY <1>1, <1>2, <1>3, <1>4, <1>5, <1>6, <1>7, <1>8, <1>9, <1>10 DEF Next, ThreadStep

\* An answer in the cache that was not being computed while a click cleared it
\* is the one the counts of now give, or a click is about to clear it
\* (query_engine.cpp 87-130 and 148-174, index_searcher.cpp 372-383).
THEOREM StaleOnlyIfLateHolds == Spec => []StaleOnlyIfLate
<1> DEFINE Inv == Typed /\ SearchTyped /\ CacheInv /\ EntriesCurrent /\ SearchesCurrent
<1>1. Init => Inv
  <2> SUFFICES ASSUME Init PROVE Inv
    OBVIOUS
  <2>1. DOMAIN entries = {} /\ \A t \in Thread : pc[t] # "score"
    BY DEF Init
  <2>2. EntriesCurrent /\ SearchesCurrent
    BY <2>1 DEF EntriesCurrent, SearchesCurrent
  <2>3. CacheInv
    BY CacheEmpty DEF Init
  <2>4. QED
    BY <2>2, <2>3, TypedInit, SearchTypedInit
<1>2. Inv /\ [Next]_vars => Inv'
  BY TypedStep, SearchTypedStep, CacheStep, CurrentStep
<1>3. Inv => StaleOnlyIfLate
  BY DEF EntriesCurrent, StaleOnlyIfLate
<1>4. QED
  BY <1>1, <1>2, <1>3, PTL DEF Spec
=============================================================================
