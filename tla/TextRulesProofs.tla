--------------------------- MODULE TextRulesProofs ---------------------------
(***************************************************************************)
(* What TextRules compares holds for every input: the matcher and the      *)
(* parser of robots.txt, the rules on URLs, the edit distance, the pages   *)
(* and the results of a search, and what is read in a page.  The           *)
(* algorithms are folds and functions defined by recursion, so the proofs  *)
(* begin with the existence of such functions and with induction, both     *)
(* from the least element of a set of numbers.                             *)
(***************************************************************************)
EXTENDS TextRules, SequenceTheorems, FiniteSetTheorems, WellFoundedInduction, TLAPS

(***************************************************************************)
(* Induction and recursion.  A counterexample of least measure takes the   *)
(* place of an induction rule, and functions that are defined by recursion *)
(* over a bounded measure exist.                                           *)
(***************************************************************************)

LEMMA LeastOf ==
    ASSUME NEW S \in SUBSET Nat, S # {}
    PROVE  \E n \in S : \A k \in S : n <= k
<1> DEFINE R == OpToRel(<, Nat)
<1>1. IsWellFoundedOn(R, Nat)
  BY NatLessThanWellFounded
<1>2. \A k, n \in Nat : <<k, n>> \in R <=> k < n
  BY DEF OpToRel
<1> HIDE DEF R
<1>3. PICK n \in S : \A k \in S : ~ (<<k, n>> \in R)
  BY <1>1, WFMin
<1>4. \A k \in S : n \in Nat /\ k \in Nat /\ ~ (k < n)
  BY <1>2, <1>3
<1>. QED
  BY <1>4

\* good is the set of points at which something holds: at each, if it holds
\* at all points of a smaller measure.  Then it holds everywhere.
Inductive(D, m, good) ==
    /\ m \in [D -> Nat]
    /\ \A x \in D : (\A y \in D : m[y] < m[x] => y \in good) => x \in good

LEMMA Induction ==
    ASSUME NEW D, NEW m, NEW good, Inductive(D, m, good)
    PROVE  D \subseteq good
<1> USE DEF Inductive
<1> DEFINE Bad == {m[x] : x \in D \ good}
<1> SUFFICES ASSUME Bad # {} PROVE FALSE
  OBVIOUS
<1>0. Bad \in SUBSET Nat
  OBVIOUS
<1>1. PICK n \in Bad : \A k \in Bad : n <= k
  BY <1>0, LeastOf
<1>2. PICK x \in D \ good : n = m[x]
  BY <1>1
<1>3. ASSUME NEW y \in D, m[y] < m[x], y \notin good
      PROVE  FALSE
  <2>1. m[y] \in Bad /\ m[y] \in Nat /\ m[x] \in Nat
    BY <1>3
  <2> HIDE DEF Bad
  <2>2. n <= m[y]
    BY <1>1, <2>1
  <2>. QED
    BY <1>2, <1>3, <2>1, <2>2
<1>. QED
  BY <1>2, <1>3

\* step gives the value at a point from a function that is right at all points
\* of a smaller measure.
Recursive(D, R, N, m, step) ==
    /\ R # {}
    /\ N \in Nat
    /\ m \in [D -> 0 .. N]
    /\ step \in [D -> [[D -> R] -> R]]
    /\ \A x \in D : \A f, g \in [D -> R] :
          (\A y \in D : m[y] < m[x] => f[y] = g[y]) => step[x][f] = step[x][g]

LEMMA Recursion ==
    ASSUME NEW D, NEW R, NEW N, NEW m, NEW step, Recursive(D, R, N, m, step)
    PROVE  \E f \in [D -> R] : \A x \in D : f[x] = step[x][f]
<1> USE DEF Recursive
<1> DEFINE Upto(n) == {f \in [D -> R] : \A x \in D : m[x] < n => f[x] = step[x][f]}
           good == {n \in Nat : Upto(n) # {}}
<1>1. 0 \in good
  <2>1. PICK r \in R : TRUE
    OBVIOUS
  <2>2. [x \in D |-> r] \in Upto(0)
    BY <2>1
  <2>. QED
    BY <2>2
<1>2. ASSUME NEW n \in good
      PROVE  n + 1 \in good
  <2>1. PICK f \in [D -> R] : \A x \in D : m[x] < n => f[x] = step[x][f]
    BY <1>2
  <2> DEFINE g == [x \in D |-> step[x][f]]
  <2>2. g \in [D -> R]
    OBVIOUS
  <2>3. ASSUME NEW x \in D, m[x] < n + 1
        PROVE  g[x] = step[x][g]
    <3>1. \A y \in D : m[y] < m[x] => f[y] = g[y]
      BY <2>1, <2>3
    <3>. QED
      BY <2>2, <3>1
  <2>4. g \in Upto(n + 1) /\ n + 1 \in Nat
    BY <2>2, <2>3
  <2>. QED
    BY <2>4
<1>3. \A n \in Nat : (\A k \in Nat : k < n => k \in good) => n \in good
  <2>1. ASSUME NEW n \in Nat, n # 0, \A k \in Nat : k < n => k \in good
        PROVE  n \in good
    <3>1. n - 1 \in Nat /\ n - 1 < n /\ (n - 1) + 1 = n
      BY <2>1
    <3> HIDE DEF good
    <3>. QED
      BY <1>2, <2>1, <3>1
  <2>. QED
    BY <1>1, <2>1
<1>4. Nat \subseteq good
  <2> DEFINE same == [n \in Nat |-> n]
  <2> HIDE DEF good
  <2>1. \A n \in Nat : (\A k \in Nat : same[k] < same[n] => k \in good) => n \in good
    BY <1>3
  <2>2. same \in [Nat -> Nat]
    OBVIOUS
  <2>3. Inductive(Nat, same, good)
    BY <2>1, <2>2 DEF Inductive
  <2>. QED
    BY <2>3, Induction
<1>5. N + 1 \in good
  <2> HIDE DEF good
  <2>. QED
    BY <1>4
<1>6. PICK f \in Upto(N + 1) : TRUE
  BY <1>5
<1>. QED
  BY <1>6

(***************************************************************************)
(* The matcher of robots.txt.                                              *)
(***************************************************************************)

\* The provers do not know that a literal is a string.
Char == STRING \cup {" ", "s", "y"}

IsText(s) == s \in Seq(Char)

LEMMA SeqMonotone ==
    ASSUME NEW A, NEW B, A \subseteq B
    PROVE  Seq(A) \subseteq Seq(B)
<1> SUFFICES ASSUME NEW s \in Seq(A) PROVE s \in Seq(B)
  OBVIOUS
<1> DEFINE n == Len(s)
<1>1. n \in Nat /\ s \in [1 .. n -> A]
  BY LenProperties
<1> HIDE DEF n
<1>2. s \in [1 .. n -> B]
  BY <1>1
<1>. QED
  BY <1>1, <1>2

LEMMA TextIn ==
    ASSUME NEW s \in Seq(STRING)
    PROVE  IsText(s)
<1>1. STRING \subseteq Char
  BY Zenon DEF Char
<1>. QED
  BY <1>1, SeqMonotone, Zenon DEF IsText

Places(s) == 1 .. Len(s) + 1

\* The function of MatchesPrefix, and what it says of one place in the rule.
From(path, rule) ==
    CHOOSE from : from =
        [r \in 1 .. Len(rule) + 1 |->
            IF r > Len(rule) THEN 1 .. Len(path) + 1
            ELSE IF IsAnchor(rule, r) THEN {Len(path) + 1}
            ELSE {p \in 1 .. Len(path) + 1 :
                    \/ rule[r] = "*" /\ \E q \in from[r + 1] : p <= q
                    \/ p <= Len(path) /\ rule[r] = path[p] /\ p + 1 \in from[r + 1]}]

FromStep(path, rule, next, r) ==
    IF r > Len(rule) THEN 1 .. Len(path) + 1
    ELSE IF IsAnchor(rule, r) THEN {Len(path) + 1}
    ELSE {p \in 1 .. Len(path) + 1 :
            \/ rule[r] = "*" /\ \E q \in next : p <= q
            \/ p <= Len(path) /\ rule[r] = path[p] /\ p + 1 \in next}

LEMMA MatchesPrefixIs ==
    ASSUME NEW path, NEW rule
    PROVE  MatchesPrefix(path, rule) <=> 1 \in From(path, rule)[1]
  BY DEF MatchesPrefix, From

LEMMA FromIs ==
    ASSUME NEW path, IsText(path), NEW rule, IsText(rule)
    PROVE  /\ From(path, rule) \in [Places(rule) -> SUBSET Places(path)]
           /\ \A r \in Places(rule) :
                From(path, rule)[r] = FromStep(path, rule, From(path, rule)[r + 1], r)
<1> DEFINE D == Places(rule)
           R == SUBSET Places(path)
           N == Len(rule)
           m == [r \in D |-> Len(rule) + 1 - r]
           step == [r \in D |-> [f \in [D -> R] |-> FromStep(path, rule, f[r + 1], r)]]
<1>1. Len(path) \in Nat /\ Len(rule) \in Nat
  BY DEF IsText
<1>2. m \in [D -> 0 .. N]
  BY <1>1 DEF Places
<1>3. step \in [D -> [[D -> R] -> R]]
  <2>1. ASSUME NEW r \in D, NEW f \in [D -> R]
        PROVE  FromStep(path, rule, f[r + 1], r) \in R
    BY <1>1 DEF FromStep, Places
  <2>. QED
    BY <2>1
<1>4. ASSUME NEW r \in D, NEW f \in [D -> R], NEW g \in [D -> R],
             \A y \in D : m[y] < m[r] => f[y] = g[y]
      PROVE  step[r][f] = step[r][g]
  <2>1. r <= Len(rule) => r + 1 \in D /\ m[r + 1] < m[r]
    BY <1>1 DEF Places
  <2>2. r <= Len(rule) => f[r + 1] = g[r + 1]
    BY <1>4, <2>1
  <2>3. CASE r <= Len(rule)
    BY <2>2, <2>3
  <2>4. CASE r > Len(rule)
    BY <2>4 DEF FromStep
  <2>. QED
    BY <1>1, <2>3, <2>4 DEF Places
<1>5. PICK f \in [D -> R] : \A r \in D : f[r] = step[r][f]
  <2> HIDE DEF D, R, N, m, step
  <2>0. N \in Nat
    BY <1>1 DEF N
  <2>1. R # {}
    BY DEF R
  <2>2. \A r \in D : \A f, g \in [D -> R] :
           (\A y \in D : m[y] < m[r] => f[y] = g[y]) => step[r][f] = step[r][g]
    BY <1>4
  <2>3. Recursive(D, R, N, m, step)
    BY <1>2, <1>3, <2>0, <2>1, <2>2 DEF Recursive
  <2>. QED
    BY <2>3, Recursion
<1>6. f = [r \in D |-> FromStep(path, rule, f[r + 1], r)]
  BY <1>5
<1>7. From(path, rule) = [r \in D |-> FromStep(path, rule, From(path, rule)[r + 1], r)]
  BY <1>6 DEF From, FromStep, Places
<1>8. ASSUME NEW g, g = [r \in D |-> FromStep(path, rule, g[r + 1], r)]
      PROVE  g \in [D -> R]
  <2>1. \A r \in D : FromStep(path, rule, g[r + 1], r) \in R
    BY <1>1 DEF FromStep, Places
  <2>. QED
    BY <1>8, <2>1
<1>. QED
  BY <1>7, <1>8

\* The function of Scan, and what it says of one turn of the loop.
ScanFrom(path, rule) ==
    CHOOSE scan : scan =
        [s \in LoopState(path, rule) |->
            IF s.pi > Len(path) \/ s.ri > Len(rule) THEN <<s.pi, s.ri>>
            ELSE IF IsAnchor(rule, s.ri) THEN <<s.pi, s.ri>>
            ELSE IF rule[s.ri] = path[s.pi] THEN scan[MatchOne(s)]
            ELSE IF rule[s.ri] = "*" THEN scan[PassStar(s)]
            ELSE IF s.starRi # 0 THEN scan[Backtrack(s)]
            ELSE Mismatch]

LEMMA ScanIs ==
    ASSUME NEW path, NEW rule
    PROVE  Scan(path, rule) = ScanFrom(path, rule)[Begin]
  BY DEF Scan, ScanFrom

Stops(path, rule, s) == s.pi > Len(path) \/ s.ri > Len(rule) \/ IsAnchor(rule, s.ri)

Stuck(path, rule, s) ==
    rule[s.ri] # path[s.pi] /\ rule[s.ri] # "*" /\ s.starRi = 0

Turn(path, rule, s) ==
    IF rule[s.ri] = path[s.pi] THEN MatchOne(s)
    ELSE IF rule[s.ri] = "*" THEN PassStar(s)
    ELSE Backtrack(s)

ScanStep(path, rule, next, s) ==
    IF Stops(path, rule, s) THEN <<s.pi, s.ri>>
    ELSE IF Stuck(path, rule, s) THEN Mismatch
    ELSE next

\* The weight of a state: a turn moves the star, or else the character it is
\* tried at, or else the place in the rule forward.
LEMMA Lexicographic ==
    ASSUME NEW K \in Nat, NEW a \in Nat, NEW c \in Nat, a < c,
           NEW b \in 0 .. K, NEW d \in 0 .. K
    PROVE  a * (K + 1) + b < c * (K + 1) + d
<1>1. c * (K + 1) = a * (K + 1) + (c - a) * (K + 1)
  OBVIOUS
<1>2. PICK e \in Nat : c - a = e + 1
  <2>1. c - a - 1 \in Nat /\ c - a = (c - a - 1) + 1
    OBVIOUS
  <2>. QED
    BY <2>1
<1>3. (e + 1) * (K + 1) = e * (K + 1) + K + 1 /\ e * (K + 1) \in Nat
  OBVIOUS
<1>4. a * (K + 1) \in Nat
  OBVIOUS
<1>. QED
  BY <1>1, <1>2, <1>3, <1>4

Ahead(path, rule, s) ==
    (Len(rule) - s.starRi) * (Len(path) + 2) + (Len(path) + 1 - s.starPi)

Weight(path, rule, s) == Ahead(path, rule, s) * (Len(rule) + 2) + (Len(rule) + 1 - s.ri)

MostAhead(path, rule) == Len(rule) * (Len(path) + 2) + (Len(path) + 1)

MostWeight(path, rule) == MostAhead(path, rule) * (Len(rule) + 2) + (Len(rule) + 1)

LEMMA LoopStateIs ==
    ASSUME NEW path, IsText(path), NEW rule, IsText(rule), NEW s \in LoopState(path, rule)
    PROVE  /\ s = [pi |-> s.pi, ri |-> s.ri, starRi |-> s.starRi, starPi |-> s.starPi]
           /\ Len(path) \in Nat /\ Len(rule) \in Nat
           /\ s.pi \in 1 .. Len(path) + 1
           /\ s.ri \in 1 .. Len(rule) + 1
           /\ s.starRi \in 0 .. Len(rule) /\ s.starRi < s.ri
           /\ s.starPi \in 0 .. Len(path) + 1 /\ s.starPi <= s.pi
  BY DEF LoopState, IsText

LEMMA Distributive ==
    ASSUME NEW x \in Nat, NEW y \in Nat, NEW z \in Nat
    PROVE  x * z \in Nat /\ y * z \in Nat /\ (x + y) * z = x * z + y * z
  OBVIOUS

\* A turn, variable by variable.
LEMMA TurnIs ==
    ASSUME NEW path, IsText(path), NEW rule, IsText(rule), NEW s \in LoopState(path, rule)
    PROVE  LET t == Turn(path, rule, s)
           IN /\ rule[s.ri] = path[s.pi] =>
                   t = [pi |-> s.pi + 1, ri |-> s.ri + 1,
                        starRi |-> s.starRi, starPi |-> s.starPi]
              /\ rule[s.ri] # path[s.pi] /\ rule[s.ri] = "*" =>
                   t = [pi |-> s.pi, ri |-> s.ri + 1, starRi |-> s.ri, starPi |-> s.pi]
              /\ rule[s.ri] # path[s.pi] /\ rule[s.ri] # "*" =>
                   t = [pi |-> s.starPi + 1, ri |-> s.starRi + 1,
                        starRi |-> s.starRi, starPi |-> s.starPi + 1]
<1>1. s = [pi |-> s.pi, ri |-> s.ri, starRi |-> s.starRi, starPi |-> s.starPi]
  BY LoopStateIs
<1>. QED
  BY <1>1 DEF Turn, MatchOne, PassStar, Backtrack

LEMMA TurnStays ==
    ASSUME NEW path, IsText(path), NEW rule, IsText(rule), NEW s \in LoopState(path, rule),
           ~Stops(path, rule, s), ~Stuck(path, rule, s)
    PROVE  Turn(path, rule, s) \in LoopState(path, rule)
<1>1. s.pi <= Len(path) /\ s.ri <= Len(rule)
  BY LoopStateIs DEF Stops
<1>2. /\ Len(path) \in Nat /\ Len(rule) \in Nat
      /\ s.pi \in 1 .. Len(path) + 1 /\ s.ri \in 1 .. Len(rule) + 1
      /\ s.starRi \in 0 .. Len(rule) /\ s.starRi < s.ri
      /\ s.starPi \in 0 .. Len(path) + 1 /\ s.starPi <= s.pi
  BY LoopStateIs
<1>3. CASE rule[s.ri] = path[s.pi]
  BY <1>1, <1>2, <1>3, TurnIs DEF LoopState
<1>4. CASE rule[s.ri] # path[s.pi] /\ rule[s.ri] = "*"
  BY <1>1, <1>2, <1>4, TurnIs DEF LoopState
<1>5. CASE rule[s.ri] # path[s.pi] /\ rule[s.ri] # "*"
  BY <1>1, <1>2, <1>5, TurnIs DEF LoopState, Stuck
<1>. QED
  BY <1>3, <1>4, <1>5

LEMMA WeightIn ==
    ASSUME NEW path, IsText(path), NEW rule, IsText(rule), NEW s \in LoopState(path, rule)
    PROVE  /\ Ahead(path, rule, s) \in 0 .. MostAhead(path, rule)
           /\ MostAhead(path, rule) \in Nat
           /\ Weight(path, rule, s) \in 0 .. MostWeight(path, rule)
           /\ MostWeight(path, rule) \in Nat
<1> DEFINE P == Len(path) + 2
           R == Len(rule) + 2
           a == Len(rule) - s.starRi
           b == Len(path) + 1 - s.starPi
<1>1. /\ P \in Nat /\ R \in Nat
      /\ a \in 0 .. Len(rule) /\ b \in 0 .. Len(path) + 1
      /\ Len(path) \in Nat /\ Len(rule) \in Nat
      /\ s.starRi \in Nat /\ Len(rule) + 1 - s.ri \in 0 .. Len(rule) + 1
  BY LoopStateIs
<1>2. a * P \in Nat /\ Len(rule) * P = a * P + s.starRi * P /\ s.starRi * P \in Nat
  <2>1. a \in Nat /\ Len(rule) = a + s.starRi
    BY <1>1
  <2>2. P \in Nat /\ s.starRi \in Nat
    BY <1>1
  <2> HIDE DEF P, a
  <2>3. a * P \in Nat /\ s.starRi * P \in Nat /\ (a + s.starRi) * P = a * P + s.starRi * P
    BY <2>1, <2>2, Distributive
  <2>. QED
    BY <2>1, <2>3
<1>3. Ahead(path, rule, s) = a * P + b /\ MostAhead(path, rule) = Len(rule) * P + (Len(path) + 1)
  BY DEF Ahead, MostAhead
<1> DEFINE c == Ahead(path, rule, s)
           d == MostAhead(path, rule)
<1>4. c \in 0 .. d /\ d \in Nat
  <2> DEFINE u == a * P
             v == s.starRi * P
             w == Len(rule) * P
             n == Len(path) + 1
  <2>1. u \in Nat /\ v \in Nat /\ w = u + v
    BY <1>2
  <2>2. b \in 0 .. n /\ n \in Nat
    BY <1>1
  <2>3. c = u + b /\ d = w + n
    BY <1>3
  <2> HIDE DEF u, v, w, n, a, b, P, c, d
  <2>. QED
    BY <2>1, <2>2, <2>3
<1> HIDE DEF P, a, b
<1>5. Weight(path, rule, s) = c * R + (Len(rule) + 1 - s.ri) /\ MostWeight(path, rule) = d * R + (Len(rule) + 1)
  BY DEF Weight, MostWeight
<1> HIDE DEF c, d, R
<1>6. c \in Nat /\ d \in Nat /\ d - c \in Nat
  BY <1>4 DEF c, d
<1> DEFINE e == d - c
<1>7. d * R = c * R + e * R /\ c * R \in Nat /\ e * R \in Nat
  <2>1. d = c + e /\ e \in Nat
    BY <1>6
  <2> HIDE DEF e
  <2>. QED
    BY <1>1, <1>6, <2>1, Distributive
<1> DEFINE u == c * R
           v == e * R
           w == d * R
           m == Len(rule) + 1
           n == Len(rule) + 1 - s.ri
<1>8. u \in Nat /\ v \in Nat /\ w = u + v
  BY <1>7
<1>9. m \in Nat /\ n \in 0 .. m
  BY <1>1
<1>10. Weight(path, rule, s) = u + n /\ MostWeight(path, rule) = w + m
  BY <1>5
<1> HIDE DEF u, v, w, m, n
<1>11. /\ Weight(path, rule, s) \in 0 .. MostWeight(path, rule)
       /\ MostWeight(path, rule) \in Nat
  BY <1>8, <1>9, <1>10
<1>. QED
  BY <1>4, <1>11 DEF c, d

LEMMA TurnIsLighter ==
    ASSUME NEW path, IsText(path), NEW rule, IsText(rule), NEW s \in LoopState(path, rule),
           ~Stops(path, rule, s), ~Stuck(path, rule, s)
    PROVE  Weight(path, rule, Turn(path, rule, s)) < Weight(path, rule, s)
<1> DEFINE t == Turn(path, rule, s)
<1>1. t \in LoopState(path, rule) /\ s.pi <= Len(path) /\ s.ri <= Len(rule)
  BY TurnStays, LoopStateIs DEF Stops
<1>2. /\ Ahead(path, rule, s) \in Nat /\ Ahead(path, rule, t) \in Nat
      /\ Len(rule) + 1 \in Nat
      /\ Len(rule) + 1 - s.ri \in 0 .. Len(rule) + 1
      /\ Len(rule) + 1 - t.ri \in 0 .. Len(rule) + 1
  <2> HIDE DEF t
  <2>1. /\ Len(path) \in Nat /\ Len(rule) \in Nat
        /\ t.ri \in 1 .. Len(rule) + 1 /\ s.ri \in 1 .. Len(rule) + 1
    BY <1>1, LoopStateIs
  <2>2. /\ Ahead(path, rule, s) \in 0 .. MostAhead(path, rule)
        /\ Ahead(path, rule, t) \in 0 .. MostAhead(path, rule)
        /\ MostAhead(path, rule) \in Nat
    BY <1>1, WeightIn
  <2>. QED
    BY <2>1, <2>2, SMTT(30)
<1>3. ASSUME Ahead(path, rule, t) < Ahead(path, rule, s)
      PROVE  Weight(path, rule, t) < Weight(path, rule, s)
  <2> HIDE DEF t
  <2>1. (Len(rule) + 1) + 1 = Len(rule) + 2
    BY <1>2, LoopStateIs
  <2>. QED
    BY <1>2, <1>3, <2>1, Lexicographic DEF Weight
<1>4. CASE rule[s.ri] = path[s.pi]
  <2>1. t.ri = s.ri + 1 /\ t.starRi = s.starRi /\ t.starPi = s.starPi
    BY <1>4, TurnIs
  <2>2. Ahead(path, rule, t) = Ahead(path, rule, s)
    BY <2>1 DEF Ahead
  <2> DEFINE c == Ahead(path, rule, s) * (Len(rule) + 2)
  <2>3. c \in Nat
    BY <1>2, LoopStateIs
  <2>4. Weight(path, rule, t) = c + (Len(rule) + 1 - (s.ri + 1))
        /\ Weight(path, rule, s) = c + (Len(rule) + 1 - s.ri)
    BY <2>1, <2>2 DEF Weight
  <2>5. Len(rule) \in Nat /\ s.ri \in Nat
    BY LoopStateIs
  <2> DEFINE n == Len(rule)
             i == s.ri
  <2> HIDE DEF c, n, i
  <2>6. c + (n + 1 - (i + 1)) < c + (n + 1 - i)
    BY <2>3, <2>5 DEF n, i
  <2>. QED
    BY <2>4, <2>6 DEF n, i
<1>5. CASE rule[s.ri] # path[s.pi] /\ rule[s.ri] = "*"
  <2>1. t.starRi = s.ri /\ t.starPi = s.pi
    BY <1>5, TurnIs
  <2> DEFINE K == Len(path) + 1
             a == Len(rule) - s.ri
             c == Len(rule) - s.starRi
             b == Len(path) + 1 - s.pi
             d == Len(path) + 1 - s.starPi
  <2>2. /\ K \in Nat /\ a \in Nat /\ c \in Nat /\ a < c
        /\ b \in 0 .. K /\ d \in 0 .. K /\ K + 1 = Len(path) + 2
    <3>1. /\ Len(path) \in Nat /\ Len(rule) \in Nat
          /\ s.pi \in 1 .. Len(path) + 1 /\ s.ri \in 1 .. Len(rule)
          /\ s.starRi \in 0 .. Len(rule) /\ s.starRi < s.ri
          /\ s.starPi \in 0 .. Len(path) + 1
      BY <1>1, LoopStateIs
    <3>2. K \in Nat /\ K + 1 = Len(path) + 2
      BY <3>1
    <3>3. a \in Nat /\ c \in Nat /\ a < c
      BY <3>1
    <3>4. b \in 0 .. K
      BY <3>1
    <3>5. d \in 0 .. K
      BY <3>1
    <3>. QED
      BY <3>2, <3>3, <3>4, <3>5
  <2>3. Ahead(path, rule, t) = a * (Len(path) + 2) + b /\ Ahead(path, rule, s) = c * (Len(path) + 2) + d
    BY <2>1 DEF Ahead
  <2> HIDE DEF K, a, b, c, d
  <2>. QED
    BY <1>3, <2>2, <2>3, Lexicographic
<1>6. CASE rule[s.ri] # path[s.pi] /\ rule[s.ri] # "*"
  <2>1. t.starRi = s.starRi /\ t.starPi = s.starPi + 1
    BY <1>6, TurnIs
  <2> DEFINE c == (Len(rule) - s.starRi) * (Len(path) + 2)
  <2>2. c \in Nat
    BY LoopStateIs
  <2>3. Ahead(path, rule, t) = c + (Len(path) + 1 - (s.starPi + 1))
        /\ Ahead(path, rule, s) = c + (Len(path) + 1 - s.starPi)
    BY <2>1 DEF Ahead
  <2> HIDE DEF c
  <2>4. Ahead(path, rule, t) < Ahead(path, rule, s)
    BY <2>2, <2>3, LoopStateIs
  <2>. QED
    BY <1>3, <2>4
<1>. QED
  BY <1>4, <1>5, <1>6

LEMMA ScanFromIs ==
    ASSUME NEW path, IsText(path), NEW rule, IsText(rule)
    PROVE  \A s \in LoopState(path, rule) :
              ScanFrom(path, rule)[s]
                = ScanStep(path, rule, ScanFrom(path, rule)[Turn(path, rule, s)], s)
<1> DEFINE D == LoopState(path, rule)
           R == (Places(path) \X Places(rule)) \cup {Mismatch}
           N == MostWeight(path, rule)
           m == [s \in D |-> Weight(path, rule, s)]
           step == [s \in D |-> [f \in [D -> R] |->
                      ScanStep(path, rule, f[Turn(path, rule, s)], s)]]
<1>1. N \in Nat /\ m \in [D -> 0 .. N]
  <2>1. \A s \in D : Weight(path, rule, s) \in 0 .. N
    BY WeightIn
  <2>2. \E s : s \in D
    <3>1. Begin \in D
      BY DEF Begin, LoopState, IsText
    <3>. QED
      BY <3>1
  <2>3. N \in Nat
    BY <2>2, WeightIn
  <2>. QED
    BY <2>1, <2>3
<1>2. step \in [D -> [[D -> R] -> R]]
  <2>1. ASSUME NEW s \in D, NEW f \in [D -> R]
        PROVE  ScanStep(path, rule, f[Turn(path, rule, s)], s) \in R
    <3>1. CASE Stops(path, rule, s)
      <4>1. s.pi \in Places(path) /\ s.ri \in Places(rule)
        BY LoopStateIs DEF Places
      <4>. QED
        BY <3>1, <4>1 DEF ScanStep
    <3>2. CASE ~Stops(path, rule, s) /\ Stuck(path, rule, s)
      BY <3>2 DEF ScanStep
    <3>3. CASE ~Stops(path, rule, s) /\ ~Stuck(path, rule, s)
      <4>1. Turn(path, rule, s) \in D
        BY <3>3, TurnStays
      <4>. QED
        BY <3>3, <4>1 DEF ScanStep
    <3>. QED
      BY <3>1, <3>2, <3>3
  <2>. QED
    BY <2>1
<1>3. ASSUME NEW s \in D, NEW f \in [D -> R], NEW g \in [D -> R],
             \A y \in D : m[y] < m[s] => f[y] = g[y]
      PROVE  step[s][f] = step[s][g]
  <2>1. CASE Stops(path, rule, s) \/ Stuck(path, rule, s)
    BY <2>1 DEF ScanStep
  <2>2. CASE ~Stops(path, rule, s) /\ ~Stuck(path, rule, s)
    <3> DEFINE t == Turn(path, rule, s)
    <3>1. t \in D /\ Weight(path, rule, t) < Weight(path, rule, s)
      BY <2>2, TurnStays, TurnIsLighter
    <3>2. f[t] = g[t]
      <4> HIDE DEF t
      <4>. QED
        BY <1>3, <3>1
    <3>3. step[s][f] = ScanStep(path, rule, f[t], s) /\ step[s][g] = ScanStep(path, rule, g[t], s)
      OBVIOUS
    <3> HIDE DEF t
    <3>. QED
      BY <3>2, <3>3
  <2>. QED
    BY <2>1, <2>2
<1>4. PICK f \in [D -> R] : \A s \in D : f[s] = step[s][f]
  <2>1. R # {}
    OBVIOUS
  <2> HIDE DEF D, R, N, m, step
  <2>2. \A s \in D : \A f, g \in [D -> R] :
           (\A y \in D : m[y] < m[s] => f[y] = g[y]) => step[s][f] = step[s][g]
    BY <1>3
  <2>3. Recursive(D, R, N, m, step)
    BY <1>1, <1>2, <2>1, <2>2 DEF Recursive
  <2>. QED
    BY <2>3, Recursion
<1> DEFINE Chain(next, s) ==
             IF s.pi > Len(path) \/ s.ri > Len(rule) THEN <<s.pi, s.ri>>
             ELSE IF IsAnchor(rule, s.ri) THEN <<s.pi, s.ri>>
             ELSE IF rule[s.ri] = path[s.pi] THEN next[MatchOne(s)]
             ELSE IF rule[s.ri] = "*" THEN next[PassStar(s)]
             ELSE IF s.starRi # 0 THEN next[Backtrack(s)]
             ELSE Mismatch
<1>5. ASSUME NEW next, NEW s
      PROVE  Chain(next, s) = ScanStep(path, rule, next[Turn(path, rule, s)], s)
  BY DEF ScanStep, Stops, Stuck, Turn
<1>6. f = [s \in D |-> Chain(f, s)]
  <2>1. f = [s \in D |-> ScanStep(path, rule, f[Turn(path, rule, s)], s)]
    BY <1>4
  <2> HIDE DEF Chain
  <2>. QED
    BY <1>5, <2>1
<1>7. ScanFrom(path, rule) = [s \in D |-> Chain(ScanFrom(path, rule), s)]
  BY <1>6 DEF ScanFrom
<1>. QED
  <2> HIDE DEF Chain
  <2>. QED
    BY <1>5, <1>7

\* The places from which the rest of the rule matches, case by case.
LEMMA FromAt ==
    ASSUME NEW path, IsText(path), NEW rule, IsText(rule),
           NEW p \in Places(path), NEW r \in Places(rule)
    PROVE  /\ r > Len(rule) => p \in From(path, rule)[r]
           /\ IsAnchor(rule, r) => (p \in From(path, rule)[r] <=> p = Len(path) + 1)
           /\ r <= Len(rule) /\ ~IsAnchor(rule, r) =>
                (p \in From(path, rule)[r] <=>
                   \/ rule[r] = "*" /\ \E q \in From(path, rule)[r + 1] : p <= q
                   \/ p <= Len(path) /\ rule[r] = path[p] /\ p + 1 \in From(path, rule)[r + 1])
<1>1. Len(path) \in Nat /\ Len(rule) \in Nat
  BY DEF IsText
<1>2. From(path, rule)[r] = FromStep(path, rule, From(path, rule)[r + 1], r)
  BY FromIs
<1>. QED
  BY <1>1, <1>2 DEF FromStep, Places, IsAnchor

LEMMA FromIn ==
    ASSUME NEW path, IsText(path), NEW rule, IsText(rule), NEW r \in Places(rule)
    PROVE  From(path, rule)[r] \subseteq Places(path)
  BY FromIs

\* A rest of the rule that is used up, or stands at its anchor, matches.
LEMMA EndsWellMatches ==
    ASSUME NEW path, IsText(path), NEW rule, IsText(rule),
           NEW p \in Places(path), NEW r \in Places(rule), EndsWell(path, rule, p, r)
    PROVE  p \in From(path, rule)[r]
<1> DEFINE D == Places(rule)
           m == [i \in D |-> Len(rule) + 1 - i]
           good == {i \in D : EndsWell(path, rule, p, i) => p \in From(path, rule)[i]}
<1>1. Len(path) \in Nat /\ Len(rule) \in Nat
  BY DEF IsText
<1>2. ASSUME NEW i \in D, \A j \in D : m[j] < m[i] => j \in good, EndsWell(path, rule, p, i)
      PROVE  p \in From(path, rule)[i]
  <2>1. CASE i > Len(rule)
    BY <2>1, FromAt
  <2>2. CASE IsAnchor(rule, i)
    <3>1. i \in i .. Len(rule) /\ rule[i] # "*"
      BY <1>1, <2>2 DEF IsAnchor, Places
    <3>2. p = Len(path) + 1
      BY <1>2, <3>1 DEF EndsWell
    <3>. QED
      BY <2>2, <3>2, FromAt
  <2>3. CASE i <= Len(rule) /\ ~IsAnchor(rule, i)
    <3>1. i + 1 \in D /\ m[i + 1] < m[i] /\ i \in i .. Len(rule) /\ i \in Nat
      BY <1>1, <2>3 DEF Places
    <3>2. rule[i] = "*" /\ EndsWell(path, rule, p, i + 1)
      <4>1. CASE \A j \in i .. Len(rule) : rule[j] = "*"
        BY <1>1, <3>1, <4>1 DEF EndsWell
      <4>2. CASE \E q \in i .. Len(rule) :
                   /\ \A j \in i .. q - 1 : rule[j] = "*"
                   /\ IsAnchor(rule, q)
                   /\ p = Len(path) + 1
        <5>1. PICK q \in i .. Len(rule) :
                   /\ \A j \in i .. q - 1 : rule[j] = "*"
                   /\ IsAnchor(rule, q)
                   /\ p = Len(path) + 1
          BY <4>2
        <5>2. q \in i + 1 .. Len(rule) /\ i \in i .. q - 1
          BY <1>1, <2>3, <3>1, <5>1
        <5>3. \A j \in i + 1 .. q - 1 : rule[j] = "*"
          BY <1>1, <3>1, <5>1
        <5>. QED
          BY <5>1, <5>2, <5>3 DEF EndsWell
      <4>. QED
        BY <1>2, <4>1, <4>2 DEF EndsWell
    <3>3. p \in From(path, rule)[i + 1]
      BY <1>2, <3>1, <3>2
    <3>4. p <= p
      BY <1>1 DEF Places
    <3>. QED
      BY <2>3, <3>2, <3>3, <3>4, FromAt
  <2>. QED
    BY <1>1, <2>1, <2>2, <2>3 DEF Places
<1>3. m \in [D -> Nat]
  BY <1>1 DEF Places
<1>4. \A i \in D : (\A j \in D : m[j] < m[i] => j \in good) => i \in good
  BY <1>2
<1>5. D \subseteq good
  <2> HIDE DEF D, m, good
  <2>. QED
    BY <1>3, <1>4, Induction DEF Inductive
<1>. QED
  BY <1>5

\* The other way round at the end of the path.
LEMMA MatchesEndsWell ==
    ASSUME NEW path, IsText(path), NEW rule, IsText(rule), NEW r \in Places(rule),
           Len(path) + 1 \in From(path, rule)[r]
    PROVE  EndsWell(path, rule, Len(path) + 1, r)
<1> DEFINE p == Len(path) + 1
           D == Places(rule)
           m == [i \in D |-> Len(rule) + 1 - i]
           good == {i \in D : p \in From(path, rule)[i] => EndsWell(path, rule, p, i)}
<1>1. Len(path) \in Nat /\ Len(rule) \in Nat /\ p \in Places(path)
  BY DEF IsText, Places
<1>2. ASSUME NEW i \in D, \A j \in D : m[j] < m[i] => j \in good, p \in From(path, rule)[i]
      PROVE  EndsWell(path, rule, p, i)
  <2>1. CASE i > Len(rule)
    BY <1>1, <2>1 DEF EndsWell, Places
  <2>2. CASE IsAnchor(rule, i)
    <3>1. i \in i .. Len(rule) /\ i .. i - 1 = {}
      BY <1>1, <2>2 DEF IsAnchor, Places
    <3>. QED
      BY <2>2, <3>1 DEF EndsWell
  <2>3. CASE i <= Len(rule) /\ ~IsAnchor(rule, i)
    <3>1. i + 1 \in D /\ m[i + 1] < m[i] /\ i \in Nat
      BY <1>1, <2>3 DEF Places
    <3>2. ~(p <= Len(path))
      BY <1>1
    <3>3. rule[i] = "*" /\ \E q \in From(path, rule)[i + 1] : p <= q
      BY <1>1, <1>2, <2>3, <3>2, FromAt
    <3>4. p \in From(path, rule)[i + 1]
      BY <1>1, <3>1, <3>3, FromIn DEF Places
    <3>5. EndsWell(path, rule, p, i + 1)
      BY <1>2, <3>1, <3>4
    <3>6. CASE \A j \in i + 1 .. Len(rule) : rule[j] = "*"
      <4>1. \A j \in i .. Len(rule) : rule[j] = "*"
        BY <1>1, <3>1, <3>3, <3>6
      <4>. QED
        BY <4>1 DEF EndsWell
    <3>7. CASE \E q \in i + 1 .. Len(rule) :
                 (\A j \in i + 1 .. q - 1 : rule[j] = "*") /\ IsAnchor(rule, q)
      <4>1. PICK q \in i + 1 .. Len(rule) :
                 (\A j \in i + 1 .. q - 1 : rule[j] = "*") /\ IsAnchor(rule, q)
        BY <3>7
      <4>2. q \in i .. Len(rule) /\ \A j \in i .. q - 1 : rule[j] = "*"
        BY <1>1, <3>1, <3>3, <4>1
      <4>. QED
        BY <4>1, <4>2 DEF EndsWell
    <3>. QED
      BY <3>5, <3>6, <3>7 DEF EndsWell
  <2>. QED
    BY <1>1, <2>1, <2>2, <2>3 DEF Places
<1>3. m \in [D -> Nat]
  BY <1>1 DEF Places
<1>4. \A i \in D : (\A j \in D : m[j] < m[i] => j \in good) => i \in good
  BY <1>2
<1>5. D \subseteq good
  <2> HIDE DEF D, m, good
  <2>. QED
    BY <1>3, <1>4, Induction DEF Inductive
<1>. QED
  BY <1>5

\* Plain characters of the rule are matched one by one.
LEMMA Segment ==
    ASSUME NEW path, IsText(path), NEW rule, IsText(rule),
           NEW a \in Places(rule), NEW b \in Places(rule), a <= b,
           NEW q \in From(path, rule)[a],
           \A i \in a .. b - 1 : rule[i] # "*" /\ ~IsAnchor(rule, i)
    PROVE  q + (b - a) \in From(path, rule)[b]
<1> DEFINE D == a .. b
           m == [i \in D |-> i - a]
           good == {i \in D : q + (i - a) \in From(path, rule)[i]}
<1>1. /\ Len(path) \in Nat /\ Len(rule) \in Nat /\ a \in Nat /\ b \in Nat
      /\ a \in 1 .. b /\ b <= Len(rule) + 1 /\ q \in Places(path)
  BY FromIn DEF IsText, Places
<1>2. ASSUME NEW i \in D, \A j \in D : m[j] < m[i] => j \in good
      PROVE  q + (i - a) \in From(path, rule)[i]
  <2>1. CASE i = a
    <3>1. q + (a - a) = q
      BY <1>1 DEF Places
    <3>. QED
      BY <2>1, <3>1
  <2>2. CASE i # a
    <3> DEFINE j == i - 1
               p == q + (j - a)
    <3>1. j \in D /\ m[j] < m[i] /\ j \in a .. b - 1 /\ j + 1 = i /\ j \in Places(rule)
      BY <1>1, <2>2 DEF Places
    <3>2. p \in From(path, rule)[j]
      BY <1>2, <3>1
    <3>3. p \in Places(path) /\ p + 1 = q + (i - a)
      <4>1. p + 1 = q + (i - a)
        BY <1>1, <3>1 DEF Places
      <4> HIDE DEF p, j
      <4>2. p \in Places(path)
        BY <3>1, <3>2, FromIn
      <4>. QED
        BY <4>1, <4>2
    <3>4. rule[j] # "*" /\ ~IsAnchor(rule, j) /\ j <= Len(rule)
      BY <1>1, <3>1
    <3> HIDE DEF j, p
    <3>5. p + 1 \in From(path, rule)[j + 1]
      BY <3>1, <3>2, <3>3, <3>4, FromAt
    <3>. QED
      BY <3>1, <3>3, <3>5
  <2>. QED
    BY <2>1, <2>2
<1>3. m \in [D -> Nat]
  BY <1>1
<1>4. \A i \in D : (\A j \in D : m[j] < m[i] => j \in good) => i \in good
  BY <1>2
<1>5. D \subseteq good
  <2> HIDE DEF D, m, good
  <2>. QED
    BY <1>3, <1>4, Induction DEF Inductive
<1>6. b \in D
  BY <1>1
<1>. QED
  BY <1>5, <1>6

LEMMA BeginStays ==
    ASSUME NEW path, IsText(path), NEW rule, IsText(rule)
    PROVE  /\ Begin \in LoopState(path, rule)
           /\ 1 \in Places(path) /\ 1 \in Places(rule)
  BY DEF Begin, LoopState, IsText, Places

\* Induction over the turns of the loop.
LEMMA TurnInduction ==
    ASSUME NEW path, IsText(path), NEW rule, IsText(rule), NEW good,
           \A s \in LoopState(path, rule) :
              (~Stops(path, rule, s) /\ ~Stuck(path, rule, s)
                 => Turn(path, rule, s) \in good)
              => s \in good
    PROVE  LoopState(path, rule) \subseteq good
<1> DEFINE D == LoopState(path, rule)
           m == [s \in D |-> Weight(path, rule, s)]
<1>1. m \in [D -> Nat]
  <2>1. \A s \in D : Weight(path, rule, s) \in Nat
    BY WeightIn
  <2>. QED
    BY <2>1
<1>2. ASSUME NEW s \in D, \A y \in D : m[y] < m[s] => y \in good
      PROVE  s \in good
  <2>1. ASSUME ~Stops(path, rule, s), ~Stuck(path, rule, s)
        PROVE  Turn(path, rule, s) \in good
    <3> DEFINE t == Turn(path, rule, s)
    <3>1. t \in D /\ Weight(path, rule, t) < Weight(path, rule, s)
      BY <2>1, TurnStays, TurnIsLighter
    <3> HIDE DEF t
    <3>2. t \in good
      BY <1>2, <3>1
    <3>. QED
      BY <3>2 DEF t
  <2>. QED
    BY <2>1
<1> HIDE DEF D, m
<1>. QED
  BY <1>1, <1>2, Induction DEF Inductive, D

Goal(path, rule) == 1 \in From(path, rule)[1]

Later(path, rule, r, p) == \E q \in From(path, rule)[r] : p <= q

\* What makes the loop sound: to match the rest from here, or from a later
\* character after the last star, is to match all.
Leads(path, rule, s) ==
    /\ s.pi \in From(path, rule)[s.ri] => Goal(path, rule)
    /\ s.starRi # 0 /\ Later(path, rule, s.starRi + 1, s.starPi) => Goal(path, rule)

LEMMA TurnLeads ==
    ASSUME NEW path, IsText(path), NEW rule, IsText(rule), NEW s \in LoopState(path, rule),
           ~Stops(path, rule, s), ~Stuck(path, rule, s), Leads(path, rule, s)
    PROVE  Leads(path, rule, Turn(path, rule, s))
<1> DEFINE t == Turn(path, rule, s)
<1>1. /\ Len(path) \in Nat /\ Len(rule) \in Nat
      /\ s.pi \in 1 .. Len(path) /\ s.ri \in 1 .. Len(rule)
      /\ s.pi \in Places(path) /\ s.ri \in Places(rule)
      /\ s.starRi \in Nat /\ s.starPi \in Nat
  BY LoopStateIs DEF Stops, Places
<1>2. ~IsAnchor(rule, s.ri)
  BY DEF Stops
<1>3. CASE rule[s.ri] = path[s.pi]
  <2>1. t = [pi |-> s.pi + 1, ri |-> s.ri + 1, starRi |-> s.starRi, starPi |-> s.starPi]
    BY <1>3, TurnIs
  <2>2. t.pi \in From(path, rule)[t.ri] => s.pi \in From(path, rule)[s.ri]
    BY <1>1, <1>2, <1>3, <2>1, FromAt
  <2>. QED
    BY <2>1, <2>2 DEF Leads
<1>4. CASE rule[s.ri] # path[s.pi] /\ rule[s.ri] = "*"
  <2>1. t = [pi |-> s.pi, ri |-> s.ri + 1, starRi |-> s.ri, starPi |-> s.pi]
    BY <1>4, TurnIs
  <2>2. Later(path, rule, s.ri + 1, s.pi) => s.pi \in From(path, rule)[s.ri]
    BY <1>1, <1>2, <1>4, FromAt DEF Later
  <2>3. s.pi \in From(path, rule)[s.ri + 1] => Later(path, rule, s.ri + 1, s.pi)
    BY <1>1 DEF Later
  <2>. QED
    BY <2>1, <2>2, <2>3 DEF Leads
<1>5. CASE rule[s.ri] # path[s.pi] /\ rule[s.ri] # "*"
  <2>1. t = [pi |-> s.starPi + 1, ri |-> s.starRi + 1,
             starRi |-> s.starRi, starPi |-> s.starPi + 1]
    BY <1>5, TurnIs
  <2>2. s.starRi # 0
    BY <1>5 DEF Stuck
  <2>3. s.starRi + 1 \in Places(rule)
    BY <1>1, LoopStateIs DEF Places
  <2>4. s.starPi + 1 \in From(path, rule)[s.starRi + 1]
          => Later(path, rule, s.starRi + 1, s.starPi)
    BY <1>1 DEF Later
  <2>5. Later(path, rule, s.starRi + 1, s.starPi + 1) => Later(path, rule, s.starRi + 1, s.starPi)
    <3>1. \A q \in From(path, rule)[s.starRi + 1] : q \in Nat
      BY <1>1, <2>3, FromIn DEF Places
    <3>. QED
      BY <1>1, <3>1 DEF Later
  <2>. QED
    BY <2>1, <2>2, <2>4, <2>5 DEF Leads
<1>. QED
  BY <1>3, <1>4, <1>5

\* robotsMatch matches nothing that the documented match does not.
LEMMA RobotsMatchSound ==
    ASSUME NEW path, IsText(path), NEW rule, IsText(rule), RobotsMatch(path, rule)
    PROVE  MatchesPrefix(path, rule)
<1> DEFINE end(s) == ScanFrom(path, rule)[s]
           Ends(s) == end(s) # Mismatch /\ EndsWell(path, rule, end(s)[1], end(s)[2])
           good == {s \in LoopState(path, rule) :
                      Leads(path, rule, s) /\ Ends(s) => Goal(path, rule)}
<1>1. ASSUME NEW s \in LoopState(path, rule),
             ~Stops(path, rule, s) /\ ~Stuck(path, rule, s) => Turn(path, rule, s) \in good,
             Leads(path, rule, s), Ends(s)
      PROVE  Goal(path, rule)
  <2>1. end(s) = ScanStep(path, rule, end(Turn(path, rule, s)), s)
    BY ScanFromIs
  <2>2. CASE Stops(path, rule, s)
    <3>1. end(s) = <<s.pi, s.ri>>
      BY <2>1, <2>2 DEF ScanStep
    <3>2. EndsWell(path, rule, s.pi, s.ri)
      BY <1>1, <3>1
    <3>3. s.pi \in From(path, rule)[s.ri]
      BY <3>2, EndsWellMatches, LoopStateIs DEF Places
    <3>. QED
      BY <1>1, <3>3 DEF Leads
  <2>3. CASE ~Stops(path, rule, s) /\ Stuck(path, rule, s)
    BY <1>1, <2>1, <2>3 DEF ScanStep
  <2>4. CASE ~Stops(path, rule, s) /\ ~Stuck(path, rule, s)
    <3>1. end(s) = end(Turn(path, rule, s))
      BY <2>1, <2>4 DEF ScanStep
    <3>2. Ends(Turn(path, rule, s))
      BY <1>1, <3>1
    <3>3. Leads(path, rule, Turn(path, rule, s))
      BY <1>1, <2>4, TurnLeads
    <3>. QED
      BY <1>1, <2>4, <3>2, <3>3
  <2>. QED
    BY <2>2, <2>3, <2>4
<1>2. LoopState(path, rule) \subseteq good
  <2>1. \A s \in LoopState(path, rule) :
           (~Stops(path, rule, s) /\ ~Stuck(path, rule, s) => Turn(path, rule, s) \in good)
           => s \in good
    BY <1>1
  <2> HIDE DEF good
  <2>. QED
    BY <2>1, TurnInduction
<1>3. Begin \in good
  BY <1>2, BeginStays
<1>4. Leads(path, rule, Begin)
  BY DEF Leads, Begin, Goal
<1>5. Ends(Begin)
  BY ScanIs DEF RobotsMatch
<1>. QED
  BY <1>3, <1>4, <1>5, MatchesPrefixIs DEF Goal


\* What makes the loop complete for a path without a * and a rule without a *
\* or without an anchor: before the first star the rest matches from here; after
\* it the characters since the star are the path's, and the rest after the star
\* matches from where it is tried, or later.
StarFree(rule, a, b) == \A i \in a .. b - 1 : rule[i] # "*"

Follows(path, rule, s) ==
    /\ rule[s.starRi] = "*"
    /\ StarFree(rule, s.starRi + 1, s.ri)
    /\ \A i \in s.starRi + 1 .. s.ri - 1 : rule[i] = path[s.starPi + (i - (s.starRi + 1))]
    /\ s.pi = s.starPi + (s.ri - (s.starRi + 1))
    /\ Later(path, rule, s.starRi + 1, s.starPi)

Wins(path, rule, s) ==
    /\ s.starRi = 0 => s.pi \in From(path, rule)[s.ri]
    /\ s.starRi # 0 => Follows(path, rule, s)

Ordinary(path, rule) ==
    /\ \A i \in 1 .. Len(path) : path[i] # "*"
    /\ \A i, j \in 1 .. Len(rule) : rule[i] = "*" => ~IsAnchor(rule, j)

\* The rest matches from here or from a later character, and it matches from
\* here if it matches from where the star is tried.
LEMMA FollowsOn ==
    ASSUME NEW path, IsText(path), NEW rule, IsText(rule), Ordinary(path, rule),
           NEW s \in LoopState(path, rule), s.starRi # 0, Follows(path, rule, s)
    PROVE  /\ Later(path, rule, s.ri, s.pi)
           /\ s.starPi \in From(path, rule)[s.starRi + 1] => s.pi \in From(path, rule)[s.ri]
<1> DEFINE a == s.starRi + 1
           b == s.ri
<1>1. /\ Len(path) \in Nat /\ Len(rule) \in Nat
      /\ s.starRi \in 1 .. Len(rule) /\ a \in Places(rule) /\ b \in Places(rule) /\ a <= b
      /\ a \in Nat /\ b \in Nat /\ b - a \in Nat /\ s.starPi \in Nat
  BY LoopStateIs DEF Places
<1>2. \A i \in a .. b - 1 : rule[i] # "*" /\ ~IsAnchor(rule, i)
  <2>1. \A i \in a .. b - 1 : i \in 1 .. Len(rule)
    BY <1>1 DEF Places
  <2>. QED
    BY <1>1, <2>1 DEF Follows, StarFree, Ordinary
<1>3. s.pi = s.starPi + (b - a)
  BY DEF Follows
<1>4. Later(path, rule, a, s.starPi)
  BY DEF Follows
<1> HIDE DEF a, b
<1>5. \A q \in From(path, rule)[a] : q + (b - a) \in From(path, rule)[b]
  BY <1>1, <1>2, Segment
<1>6. \A q \in From(path, rule)[a] : q \in Nat
  BY <1>1, FromIn DEF Places
<1>7. Later(path, rule, b, s.pi)
  <2>1. PICK q \in From(path, rule)[a] : s.starPi <= q
    BY <1>4 DEF Later
  <2>2. s.pi <= q + (b - a)
    BY <1>1, <1>3, <1>6, <2>1
  <2>. QED
    BY <1>5, <2>2 DEF Later
<1>8. s.starPi \in From(path, rule)[a] => s.pi \in From(path, rule)[b]
  BY <1>3, <1>5
<1>. QED
  BY <1>7, <1>8 DEF a, b

LEMMA TurnWins ==
    ASSUME NEW path, IsText(path), NEW rule, IsText(rule), Ordinary(path, rule),
           NEW s \in LoopState(path, rule),
           ~Stops(path, rule, s), Wins(path, rule, s)
    PROVE  ~Stuck(path, rule, s) /\ Wins(path, rule, Turn(path, rule, s))
<1> DEFINE t == Turn(path, rule, s)
<1>1. /\ Len(path) \in Nat /\ Len(rule) \in Nat
      /\ s.pi \in 1 .. Len(path) /\ s.ri \in 1 .. Len(rule)
      /\ s.pi \in Places(path) /\ s.ri \in Places(rule)
      /\ s.starRi \in Nat /\ s.starPi \in Nat /\ s.starRi < s.ri
  BY LoopStateIs DEF Stops, Places
<1>2. ~IsAnchor(rule, s.ri)
  BY DEF Stops
<1>3. s.pi \in From(path, rule)[s.ri] <=>
         \/ rule[s.ri] = "*" /\ Later(path, rule, s.ri + 1, s.pi)
         \/ rule[s.ri] = path[s.pi] /\ s.pi + 1 \in From(path, rule)[s.ri + 1]
  <2> DEFINE p == s.pi
             r == s.ri
  <2>1. p \in Places(path) /\ r \in Places(rule) /\ p <= Len(path) /\ r <= Len(rule)
    BY <1>1
  <2>2. ~IsAnchor(rule, r)
    BY <1>2
  <2> HIDE DEF p, r
  <2>3. p \in From(path, rule)[r] <=>
           \/ rule[r] = "*" /\ \E q \in From(path, rule)[r + 1] : p <= q
           \/ rule[r] = path[p] /\ p + 1 \in From(path, rule)[r + 1]
    BY <2>1, <2>2, FromAt
  <2>. QED
    BY <2>3 DEF Later, p, r
<1>4. ~Stuck(path, rule, s)
  BY <1>3 DEF Stuck, Wins
<1>5. CASE rule[s.ri] = path[s.pi]
  <2>1. t = [pi |-> s.pi + 1, ri |-> s.ri + 1, starRi |-> s.starRi, starPi |-> s.starPi]
    BY <1>5, TurnIs
  <2>2. rule[s.ri] # "*"
    BY <1>1, <1>5 DEF Ordinary
  <2>3. s.starRi = 0 => t.pi \in From(path, rule)[t.ri]
    BY <1>3, <2>1, <2>2 DEF Wins
  <2>4. ASSUME s.starRi # 0
        PROVE  Follows(path, rule, t)
    <3>1. Follows(path, rule, s)
      BY <2>4 DEF Wins
    <3>2. \A i \in s.starRi + 1 .. (s.ri + 1) - 1 : i = s.ri \/ i \in s.starRi + 1 .. s.ri - 1
      BY <1>1
    <3>3. StarFree(rule, s.starRi + 1, s.ri + 1)
      BY <2>2, <3>1, <3>2 DEF Follows, StarFree
    <3>4. s.pi = s.starPi + (s.ri - (s.starRi + 1))
      BY <3>1 DEF Follows
    <3>5. \A i \in s.starRi + 1 .. (s.ri + 1) - 1 :
             rule[i] = path[s.starPi + (i - (s.starRi + 1))]
      BY <1>5, <3>1, <3>2, <3>4 DEF Follows
    <3>6. s.pi + 1 = s.starPi + ((s.ri + 1) - (s.starRi + 1))
      BY <1>1, <3>4
    <3> HIDE DEF t
    <3>. QED
      BY <2>1, <3>1, <3>3, <3>5, <3>6 DEF Follows
  <2>. QED
    BY <1>4, <2>1, <2>3, <2>4 DEF Wins
<1>6. CASE rule[s.ri] # path[s.pi] /\ rule[s.ri] = "*"
  <2>1. t = [pi |-> s.pi, ri |-> s.ri + 1, starRi |-> s.ri, starPi |-> s.pi]
    BY <1>6, TurnIs
  <2>2. Later(path, rule, s.ri + 1, s.pi)
    <3>1. CASE s.starRi = 0
      BY <1>3, <1>6, <3>1 DEF Wins
    <3>2. CASE s.starRi # 0
      <4>1. PICK q \in From(path, rule)[s.ri] : s.pi <= q
        BY <3>2, FollowsOn DEF Later, Wins
      <4>2. q \in Places(path)
        BY <1>1, FromIn
      <4>3. ~(q <= Len(path) /\ rule[s.ri] = path[q])
        BY <1>1, <1>6, <4>2 DEF Ordinary, Places
      <4>4. PICK w \in From(path, rule)[s.ri + 1] : q <= w
        BY <1>1, <1>2, <4>2, <4>3, FromAt
      <4>5. w \in Places(path)
        BY <1>1, FromIn DEF Places
      <4>6. s.pi <= w
        BY <1>1, <4>1, <4>2, <4>4, <4>5 DEF Places
      <4>. QED
        BY <4>6 DEF Later
    <3>. QED
      BY <3>1, <3>2
  <2>3. s.ri + 1 .. (s.ri + 1) - 1 = {} /\ s.pi = s.pi + ((s.ri + 1) - (s.ri + 1))
    BY <1>1
  <2> HIDE DEF t
  <2>4. Follows(path, rule, t)
    BY <1>6, <2>1, <2>2, <2>3 DEF Follows, StarFree
  <2>5. t.starRi # 0
    BY <1>1, <2>1
  <2>. QED
    BY <1>4, <2>4, <2>5 DEF Wins, t
<1>7. CASE rule[s.ri] # path[s.pi] /\ rule[s.ri] # "*"
  <2>1. t = [pi |-> s.starPi + 1, ri |-> s.starRi + 1,
             starRi |-> s.starRi, starPi |-> s.starPi + 1]
    BY <1>7, TurnIs
  <2>2. s.starRi # 0 /\ Follows(path, rule, s)
    BY <1>4, <1>7 DEF Stuck, Wins
  <2>3. s.starPi \notin From(path, rule)[s.starRi + 1]
    BY <1>3, <1>7, <2>2, FollowsOn
  <2>4. PICK q \in From(path, rule)[s.starRi + 1] : s.starPi <= q
    BY <2>2 DEF Follows, Later
  <2>5. q \in Nat
    <3>1. s.starRi + 1 \in Places(rule)
      BY <1>1 DEF Places
    <3>. QED
      BY <1>1, <3>1, FromIn DEF Places
  <2>6. q # s.starPi
    BY <2>3
  <2>7. s.starPi + 1 <= q
    BY <1>1, <2>4, <2>5, <2>6
  <2>8. Later(path, rule, s.starRi + 1, s.starPi + 1)
    BY <2>7 DEF Later
  <2>9. /\ s.starRi + 1 .. (s.starRi + 1) - 1 = {}
        /\ s.starPi + 1 = (s.starPi + 1) + ((s.starRi + 1) - (s.starRi + 1))
    BY <1>1
  <2>10. rule[s.starRi] = "*"
    BY <2>2 DEF Follows
  <2> HIDE DEF t
  <2>11. Follows(path, rule, t)
    BY <2>1, <2>8, <2>9, <2>10 DEF Follows, StarFree
  <2>. QED
    BY <1>4, <2>1, <2>2, <2>11 DEF Wins, t
<1>. QED
  BY <1>5, <1>6, <1>7

LEMMA StopWins ==
    ASSUME NEW path, IsText(path), NEW rule, IsText(rule), Ordinary(path, rule),
           NEW s \in LoopState(path, rule),
           Stops(path, rule, s), Wins(path, rule, s)
    PROVE  EndsWell(path, rule, s.pi, s.ri)
<1>1. /\ Len(path) \in Nat /\ Len(rule) \in Nat
      /\ s.pi \in Places(path) /\ s.ri \in Places(rule)
      /\ s.starRi \in 0 .. Len(rule)
  BY LoopStateIs DEF Places
<1>2. CASE s.pi > Len(path)
  <2>1. s.pi = Len(path) + 1
    BY <1>1, <1>2 DEF Places
  <2>2. Later(path, rule, s.ri, s.pi)
    <3>1. CASE s.starRi = 0
      BY <2>1, <3>1, <1>1 DEF Wins, Later
    <3>2. CASE s.starRi # 0
      BY <3>2, FollowsOn DEF Wins
    <3>. QED
      BY <3>1, <3>2
  <2>3. PICK q \in From(path, rule)[s.ri] : s.pi <= q
    BY <2>2 DEF Later
  <2>4. q \in Places(path)
    BY <1>1, FromIn
  <2>5. q = Len(path) + 1
    BY <1>1, <2>1, <2>3, <2>4 DEF Places
  <2>. QED
    BY <1>1, <2>1, <2>3, <2>5, MatchesEndsWell
<1>3. CASE s.ri > Len(rule)
  BY <1>1, <1>3 DEF EndsWell, Places
<1>4. CASE IsAnchor(rule, s.ri) /\ s.pi <= Len(path)
  <2>1. s.ri \in 1 .. Len(rule)
    BY <1>1, <1>4 DEF IsAnchor, Places
  <2>2. s.starRi = 0
    <3>1. s.starRi # 0 => s.starRi \in 1 .. Len(rule) /\ rule[s.starRi] = "*"
      BY <1>1 DEF Wins, Follows
    <3>. QED
      BY <1>4, <2>1, <3>1 DEF Ordinary
  <2>3. s.pi = Len(path) + 1
    BY <1>1, <1>4, <2>2, FromAt DEF Wins
  <2>. QED
    BY <1>1, <1>4, <2>3
<1>. QED
  BY <1>1, <1>2, <1>3, <1>4 DEF Stops, Places

\* robotsMatch matches all that the documented match does, but for a path with
\* a * and for a rule with both a * and an anchor.
LEMMA RobotsMatchComplete ==
    ASSUME NEW path, IsText(path), NEW rule, IsText(rule), Ordinary(path, rule),
           MatchesPrefix(path, rule)
    PROVE  RobotsMatch(path, rule)
<1> DEFINE end(s) == ScanFrom(path, rule)[s]
           Ends(s) == end(s) # Mismatch /\ EndsWell(path, rule, end(s)[1], end(s)[2])
           good == {s \in LoopState(path, rule) : Wins(path, rule, s) => Ends(s)}
<1>1. ASSUME NEW s \in LoopState(path, rule),
             ~Stops(path, rule, s) /\ ~Stuck(path, rule, s) => Turn(path, rule, s) \in good,
             Wins(path, rule, s)
      PROVE  Ends(s)
  <2>1. end(s) = ScanStep(path, rule, end(Turn(path, rule, s)), s)
    BY ScanFromIs
  <2>2. CASE Stops(path, rule, s)
    <3>1. end(s) = <<s.pi, s.ri>>
      BY <2>1, <2>2 DEF ScanStep
    <3>2. EndsWell(path, rule, s.pi, s.ri)
      BY <1>1, <2>2, StopWins
    <3>3. s.pi # 0
      BY LoopStateIs
    <3>. QED
      BY <3>1, <3>2, <3>3 DEF Mismatch
  <2>3. CASE ~Stops(path, rule, s)
    <3>1. ~Stuck(path, rule, s) /\ Wins(path, rule, Turn(path, rule, s))
      BY <1>1, <2>3, TurnWins
    <3>2. end(s) = end(Turn(path, rule, s))
      BY <2>1, <2>3, <3>1 DEF ScanStep
    <3>3. Ends(Turn(path, rule, s))
      BY <1>1, <2>3, <3>1
    <3>. QED
      BY <3>2, <3>3
  <2>. QED
    BY <2>2, <2>3
<1>2. LoopState(path, rule) \subseteq good
  <2>1. \A s \in LoopState(path, rule) :
           (~Stops(path, rule, s) /\ ~Stuck(path, rule, s) => Turn(path, rule, s) \in good)
           => s \in good
    BY <1>1
  <2> HIDE DEF good
  <2>. QED
    BY <2>1, TurnInduction
<1>3. Begin \in good
  BY <1>2, BeginStays
<1>4. Wins(path, rule, Begin)
  BY MatchesPrefixIs DEF Wins, Begin
<1>. QED
  BY <1>3, <1>4, ScanIs DEF RobotsMatch


LEMMA InputStays == Spec => [](input \in Case)
<1>1. Init => input \in Case
  BY DEF Init
<1>2. input \in Case /\ [Next]_input => (input \in Case)'
  BY DEF Next
<1>. QED
  BY <1>1, <1>2, PTL DEF Spec

LEMMA MatchInputs ==
    ASSUME input \in Case, Of("match")
    PROVE  IsText(input.path) /\ IsText(input.rule)
  BY CaseAssumption, TextIn, Zenon DEF Of

LEMMA RobotsMatchIsRight ==
    ASSUME input \in Case
    PROVE  RobotsMatchRight
<1> SUFFICES ASSUME Of("match") PROVE RobotsMatchRight
  BY DEF RobotsMatchRight
<1> DEFINE path == input.path
           rule == input.rule
<1>1. IsText(path) /\ IsText(rule)
  BY MatchInputs
<1>2. ASSUME ~Contains(path, "*"), ~(Contains(rule, "*") /\ Last(rule) = "$")
      PROVE  Ordinary(path, rule)
  <2>1. \A i \in 1 .. Len(path) : path[i] # "*"
    BY <1>1, <1>2 DEF Contains, IsText
  <2>2. ASSUME NEW i \in 1 .. Len(rule), NEW j \in 1 .. Len(rule),
               rule[i] = "*", IsAnchor(rule, j)
        PROVE  FALSE
    <3>1. Contains(rule, "*")
      BY <1>1, <2>2 DEF Contains, IsText
    <3>2. Last(rule) = "$"
      BY <2>2 DEF IsAnchor, Last
    <3>. QED
      BY <1>2, <3>1, <3>2
  <2>. QED
    BY <2>1, <2>2 DEF Ordinary
<1> HIDE DEF path, rule
<1>3. RobotsMatch(path, rule) => MatchesPrefix(path, rule)
  BY <1>1, RobotsMatchSound
<1>4. /\ ~Contains(path, "*")
      /\ ~(Contains(rule, "*") /\ Last(rule) = "$")
      /\ MatchesPrefix(path, rule)
      => RobotsMatch(path, rule)
  BY <1>1, <1>2, RobotsMatchComplete
<1>. QED
  BY <1>3, <1>4 DEF RobotsMatchRight, path, rule

\* The matcher of robots.txt, for paths and rules of any length: robotsMatch
\* (robots_manager.cpp:228-263) never matches what the prefix match that its
\* comment promises does not; and it matches all of that, unless the path has a
\* * or the rule both a * and an end anchor.  One star to come back to is
\* enough.
THEOREM RobotsMatchRightHolds == Spec => []RobotsMatchRight
<1>1. input \in Case => RobotsMatchRight
  BY RobotsMatchIsRight
<1>. QED
  BY <1>1, InputStays, PTL

(***************************************************************************)
(* The rules on URLs.                                                      *)
(***************************************************************************)

Port == STRING \cup {""}

URL == [scheme : STRING, scheme_capitals : BOOLEAN, labels : Seq(STRING),
        capitals : BOOLEAN, port : Port, fragment : BOOLEAN, dirs : Nat, low : BOOLEAN,
        file : STRING, query : STRING]

\* The parts of the rules that look at an empty string, by name.
HasHost(url) == url.scheme # "" /\ url.labels # <<>>

NormalPort(url) == IF url.port = DefaultPort(url) THEN "" ELSE url.port

NoFile(url) == url.file = ""

NoQuery(url) == url.query = ""

LEMMA NormalizeIs ==
    ASSUME NEW url
    PROVE  NormalizeURI(url) =
             IF HasHost(url)
               THEN [url EXCEPT !.scheme_capitals = FALSE, !.capitals = FALSE,
                                !.fragment = FALSE, !.port = NormalPort(url)]
               ELSE None
<1>1. CASE HasHost(url)
  BY <1>1, Zenon DEF NormalizeURI, HasHost, NormalPort
<1>2. CASE ~HasHost(url)
  BY <1>2, Zenon DEF NormalizeURI, HasHost
<1>. QED
  BY <1>1, <1>2

LEMMA NormalPortIn ==
    ASSUME NEW url \in URL
    PROVE  NormalPort(url) \in Port
<1>1. url.port \in Port
  BY DEF URL
<1>2. CASE url.port = DefaultPort(url)
  BY <1>2, Zenon DEF NormalPort, Port
<1>3. CASE url.port # DefaultPort(url)
  BY <1>1, <1>3, Zenon DEF NormalPort
<1>. QED
  BY <1>2, <1>3

LEMMA NormalPortSame ==
    ASSUME NEW url, NEW other, DefaultPort(other) = DefaultPort(url),
           other.port \in {url.port, NormalPort(url)}
    PROVE  NormalPort(other) = NormalPort(url)
<1>1. "" # DefaultPort(url)
  BY Zenon DEF DefaultPort
<1>2. CASE other.port = url.port
  BY <1>2, Zenon DEF NormalPort
<1>3. CASE other.port = NormalPort(url)
  BY <1>1, <1>3, Zenon DEF NormalPort
<1>. QED
  BY <1>2, <1>3

LEMMA NoneIsNoURL == None \notin URL
<1>1. \A u \in URL : "labels" \in DOMAIN u
  BY DEF URL
<1>2. "labels" \notin DOMAIN None
  BY DEF None
<1>. QED
  BY <1>1, <1>2

LEMMA NormalizedIs ==
    ASSUME NEW url \in URL
    PROVE  LET normalized == NormalizeURI(url)
           IN /\ normalized # None <=> HasHost(url)
              /\ HasHost(url) =>
                   /\ normalized \in URL
                   /\ normalized = [url EXCEPT !.scheme_capitals = FALSE, !.capitals = FALSE,
                                               !.fragment = FALSE, !.port = NormalPort(url)]
                   /\ normalized.port = NormalPort(url)
<1>1. [url EXCEPT !.scheme_capitals = FALSE, !.capitals = FALSE, !.fragment = FALSE,
                  !.port = NormalPort(url)] \in URL
  BY NormalPortIn DEF URL
<1>. QED
  BY <1>1, NormalizeIs, NoneIsNoURL DEF URL

\* Capitals, fragment and a default port are no part of the normalised form.
LEMMA NormalizeSame ==
    ASSUME NEW url \in URL, NEW fragment \in BOOLEAN, NEW capitals \in BOOLEAN,
           NEW scheme_capitals \in BOOLEAN, NEW port \in {url.port, NormalPort(url)}
    PROVE  NormalizeURI([url EXCEPT !.scheme_capitals = scheme_capitals, !.capitals = capitals,
                                    !.fragment = fragment, !.port = port])
             = NormalizeURI(url)
<1> DEFINE other == [url EXCEPT !.scheme_capitals = scheme_capitals, !.capitals = capitals,
                                !.fragment = fragment, !.port = port]
<1>1. other.scheme = url.scheme /\ other.labels = url.labels /\ other.port = port
  BY DEF URL
<1>2. NormalPort(other) = NormalPort(url)
  <2> HIDE DEF other
  <2>. QED
    BY <1>1, NormalPortSame DEF DefaultPort
<1>3. [other EXCEPT !.scheme_capitals = FALSE, !.capitals = FALSE, !.fragment = FALSE,
                    !.port = NormalPort(url)]
        = [url EXCEPT !.scheme_capitals = FALSE, !.capitals = FALSE, !.fragment = FALSE,
                      !.port = NormalPort(url)]
  BY DEF URL
<1>4. HasHost(other) <=> HasHost(url)
  BY <1>1, Zenon DEF HasHost
<1> HIDE DEF other
<1>. QED
  BY <1>2, <1>3, <1>4, NormalizeIs DEF other

LEMMA NormalizeTwice ==
    ASSUME NEW url \in URL, NormalizeURI(url) # None
    PROVE  NormalizeURI(NormalizeURI(url)) = NormalizeURI(url)
<1> DEFINE n == NormalizeURI(url)
<1>1. n = [url EXCEPT !.scheme_capitals = FALSE, !.capitals = FALSE, !.fragment = FALSE,
                      !.port = NormalPort(url)]
  BY NormalizedIs DEF URL
<1> HIDE DEF n
<1>2. NormalizeURI([url EXCEPT !.scheme_capitals = FALSE, !.capitals = FALSE,
                               !.fragment = FALSE, !.port = NormalPort(url)])
        = NormalizeURI(url)
  BY NormalizeSame
<1>. QED
  BY <1>1, <1>2 DEF n

\* A reference leads somewhere if it is written in full with its scheme in
\* small letters, or relative and not empty.
Refers(kind, url) ==
    \/ kind = "absolute" /\ ~url.scheme_capitals
    \/ kind = "relative" /\ ~NothingFollows(url)

LEMMA NothingFollowsIs ==
    ASSUME NEW url
    PROVE  NothingFollows(url) <=> NoFile(url) /\ NoQuery(url)
  BY Zenon DEF NothingFollows, NoFile, NoQuery

LEMMA ResolveIs ==
    ASSUME NEW url, NEW base, NEW kind \in {"absolute", "relative"}
    PROVE  Resolve([kind |-> kind, url |-> url], base) =
             IF kind = "absolute" THEN url
             ELSE IF NoFile(url) THEN [base EXCEPT !.query = url.query]
             ELSE [url EXCEPT !.scheme = base.scheme, !.scheme_capitals = base.scheme_capitals,
                              !.labels = base.labels, !.capitals = base.capitals,
                              !.port = base.port]
<1> DEFINE ref == [kind |-> kind, url |-> url]
<1>1. ref.kind = kind /\ ref.url = url
  OBVIOUS
<1> HIDE DEF ref
<1>2. CASE kind = "absolute"
  BY <1>1, <1>2 DEF Resolve
<1>3. CASE kind = "relative" /\ NoFile(url)
  <2>1. ~(ref.url.file # "")
    BY <1>1, <1>3, Zenon DEF NoFile
  <2>. QED
    BY <1>1, <1>3, <2>1 DEF Resolve
<1>4. CASE kind = "relative" /\ ~NoFile(url)
  <2>1. ref.url.file # ""
    BY <1>1, <1>4, Zenon DEF NoFile
  <2>. QED
    BY <1>1, <1>4, <2>1 DEF Resolve
<1>. QED
  BY <1>2, <1>3, <1>4 DEF ref

\* A link that leads somewhere leads to what its normalised form says.
LEMMA ResolvedIs ==
    ASSUME NEW url \in URL, NormalizeURI(url) # None,
           NEW kind \in {"absolute", "relative"}, Refers(kind, url),
           url.scheme \in {"http", "https"}
    PROVE  LET resolved == ResolveRelativeURL([kind |-> kind, url |-> url], NormalizeURI(url))
           IN  resolved # None /\ NormalizeURI(resolved) = NormalizeURI(url)
<1> DEFINE n == NormalizeURI(url)
           ref == [kind |-> kind, url |-> url]
           full == Resolve(ref, n)
           resolved == ResolveRelativeURL(ref, n)
<1>1. n \in URL /\ n.scheme = url.scheme /\ n.labels = url.labels /\ n.capitals = FALSE
      /\ n.scheme_capitals = FALSE /\ n.fragment = FALSE /\ n.query = url.query
      /\ n.port = NormalPort(url)
      /\ n = [url EXCEPT !.scheme_capitals = FALSE, !.capitals = FALSE, !.fragment = FALSE,
                         !.port = NormalPort(url)]
  BY NormalizedIs, ZenonT(60) DEF URL
<1> HIDE DEF n
<1>2. \/ full = url /\ ~url.scheme_capitals
      \/ full = n
      \/ full = [url EXCEPT !.scheme = n.scheme, !.scheme_capitals = n.scheme_capitals,
                            !.labels = n.labels, !.capitals = n.capitals, !.port = n.port]
  <2>1. CASE kind = "absolute"
    BY <2>1, ResolveIs DEF Refers
  <2>2. CASE kind = "relative" /\ NoFile(url)
    <3>1. [n EXCEPT !.query = url.query] = n
      BY <1>1 DEF URL
    <3>. QED
      BY <2>2, <3>1, ResolveIs
  <2>3. CASE kind = "relative" /\ ~NoFile(url)
    BY <2>3, ResolveIs
  <2>. QED
    BY <2>1, <2>2, <2>3
<1>3. /\ full \in URL /\ full.scheme = url.scheme /\ ~full.scheme_capitals
      /\ \E capitals \in BOOLEAN, port \in {url.port, NormalPort(url)} :
            [full EXCEPT !.fragment = FALSE]
              = [url EXCEPT !.scheme_capitals = FALSE, !.capitals = capitals,
                            !.fragment = FALSE, !.port = port]
  <2> HIDE DEF full
  <2>1. CASE full = url /\ ~url.scheme_capitals
    <3>1. url.scheme_capitals = FALSE /\ url.capitals \in BOOLEAN
      BY <2>1 DEF URL
    <3>2. [url EXCEPT !.fragment = FALSE]
            = [url EXCEPT !.scheme_capitals = FALSE, !.capitals = url.capitals,
                          !.fragment = FALSE, !.port = url.port]
      BY <3>1 DEF URL
    <3>. QED
      BY <2>1, <3>1, <3>2
  <2>2. CASE full = n
    <3>1. [n EXCEPT !.fragment = FALSE]
            = [url EXCEPT !.scheme_capitals = FALSE, !.capitals = FALSE,
                          !.fragment = FALSE, !.port = NormalPort(url)]
      BY <1>1 DEF URL
    <3>. QED
      BY <1>1, <2>2, <3>1
  <2>3. CASE full = [url EXCEPT !.scheme = n.scheme, !.scheme_capitals = n.scheme_capitals,
                                !.labels = n.labels, !.capitals = n.capitals, !.port = n.port]
    <3>1. full \in URL /\ full.scheme = url.scheme /\ ~full.scheme_capitals
      BY <1>1, <2>3 DEF URL
    <3>2. [full EXCEPT !.fragment = FALSE]
            = [url EXCEPT !.scheme_capitals = FALSE, !.capitals = FALSE,
                          !.fragment = FALSE, !.port = NormalPort(url)]
      BY <1>1, <2>3 DEF URL
    <3>. QED
      BY <3>1, <3>2
  <2>. QED
    BY <1>2, <2>1, <2>2, <2>3
<1>4. resolved = [full EXCEPT !.fragment = FALSE]
  <2>1. ref.kind = kind /\ ref.url = url
    OBVIOUS
  <2> HIDE DEF ref
  <2>2. ref.kind = "absolute" \/ (ref.kind = "relative" /\ ~NothingFollows(ref.url))
    BY <2>1 DEF Refers
  <2> HIDE DEF full
  <2>3. full.scheme \in {"http", "https"} /\ ~full.scheme_capitals
    BY <1>3
  <2>. QED
    BY <2>2, <2>3 DEF ResolveRelativeURL, full
<1> HIDE DEF full, resolved
<1>5. resolved \in URL /\ resolved # None
  <2>1. resolved \in URL
    BY <1>3, <1>4 DEF URL
  <2>. QED
    BY <2>1, NoneIsNoURL
<1>6. NormalizeURI(resolved) = NormalizeURI(url)
  <2>1. PICK capitals \in BOOLEAN, port \in {url.port, NormalPort(url)} :
           resolved = [url EXCEPT !.scheme_capitals = FALSE, !.capitals = capitals,
                                  !.fragment = FALSE, !.port = port]
    BY <1>3, <1>4
  <2>2. FALSE \in BOOLEAN
    OBVIOUS
  <2>. QED
    BY <2>1, <2>2, NormalizeSame
<1>. QED
  BY <1>5, <1>6 DEF resolved, n, ref

\* A reference that leads nowhere is no link.
LEMMA NoLink ==
    ASSUME NEW url \in URL, NEW base, NEW kind \in {"absolute", "relative"},
           ~Refers(kind, url) \/ url.scheme \notin {"http", "https"},
           NEW same_domain, NEW seeds, base.scheme = url.scheme, base \in URL
    PROVE  ~LinkTaken([kind |-> kind, url |-> url], base, same_domain, seeds)
<1> DEFINE ref == [kind |-> kind, url |-> url]
           resolved == ResolveRelativeURL(ref, base)
<1>1. ref.kind = kind /\ ref.url = url
  OBVIOUS
<1>2. Resolve(ref, base).scheme = url.scheme
  <2>1. [base EXCEPT !.query = url.query].scheme = base.scheme
    BY DEF URL
  <2>2. [url EXCEPT !.scheme = base.scheme, !.scheme_capitals = base.scheme_capitals,
                    !.labels = base.labels, !.capitals = base.capitals,
                    !.port = base.port].scheme = base.scheme
    BY DEF URL
  <2>3. CASE kind = "absolute"
    BY <2>3, ResolveIs
  <2>4. CASE kind = "relative" /\ NoFile(url)
    <3>1. Resolve(ref, base) = [base EXCEPT !.query = url.query]
      BY <2>4, ResolveIs
    <3>. QED
      BY <2>1, <3>1
  <2>5. CASE kind = "relative" /\ ~NoFile(url)
    <3>1. Resolve(ref, base)
            = [url EXCEPT !.scheme = base.scheme, !.scheme_capitals = base.scheme_capitals,
                          !.labels = base.labels, !.capitals = base.capitals,
                          !.port = base.port]
      BY <2>5, ResolveIs
    <3>. QED
      BY <2>2, <3>1
  <2>. QED
    BY <2>3, <2>4, <2>5
<1>3. kind = "absolute" => Resolve(ref, base) = url
  BY ResolveIs
<1>4. None.scheme \notin {"http", "https"}
  BY DEF None
<1> HIDE DEF ref
<1>5. resolved = None
  BY <1>1, <1>2, <1>3, <1>4 DEF ResolveRelativeURL, Refers
<1>6. ~Accepted(None)
  BY DEF Accepted
<1> HIDE DEF resolved
<1>7. ~LinkTaken(ref, base, same_domain, seeds)
  BY <1>5, <1>6 DEF LinkTaken, resolved
<1>. QED
  BY <1>7 DEF ref

\* What becomes of a link: the link loop of the engine judges it by its
\* normalised form.
LEMMA LinkTakenIs ==
    ASSUME NEW url \in URL, NormalizeURI(url) # None,
           NEW kind \in {"absolute", "relative"}, NEW same_domain, NEW seeds
    PROVE  LET normalized == NormalizeURI(url)
           IN LinkTaken([kind |-> kind, url |-> url], normalized, same_domain, seeds)
                <=> /\ Refers(kind, url)
                    /\ Accepted(normalized)
                    /\ same_domain /\ AllowedDomains(seeds) # {}
                         => DomainAllowed(normalized, AllowedDomains(seeds))
                    /\ IsHtmlPageUrl(normalized)
<1> DEFINE n == NormalizeURI(url)
           ref == [kind |-> kind, url |-> url]
           resolved == ResolveRelativeURL(ref, n)
           found == IF resolved = None THEN None ELSE NormalizeURI(resolved)
<1>1. n \in URL /\ n.scheme = url.scheme
  BY NormalizedIs, ZenonT(60) DEF URL
<1>2. CASE Refers(kind, url) /\ url.scheme \in {"http", "https"}
  <2>1. found = n
    BY <1>2, ResolvedIs
  <2> HIDE DEF n, ref, found
  <2>2. LinkTaken(ref, n, same_domain, seeds)
          <=> /\ Accepted(found)
              /\ same_domain /\ AllowedDomains(seeds) # {}
                   => DomainAllowed(found, AllowedDomains(seeds))
              /\ IsHtmlPageUrl(found)
    BY DEF LinkTaken, found
  <2>. QED
    BY <1>2, <2>1, <2>2 DEF n, ref
<1>3. CASE ~Refers(kind, url) \/ url.scheme \notin {"http", "https"}
  <2> HIDE DEF n
  <2>1. ~LinkTaken(ref, n, same_domain, seeds)
    BY <1>1, <1>3, NoLink
  <2>2. url.scheme \notin {"http", "https"} => ~Accepted(n)
    BY <1>1 DEF Accepted
  <2>. QED
    BY <1>3, <2>1, <2>2 DEF n
<1>. QED
  BY <1>2, <1>3

LEMMA OwnDomain ==
    ASSUME NEW url \in URL, NormalizeURI(url) # None, ~url.capitals
    PROVE  DomainAllowed(NormalizeURI(url), AllowedDomains({url}))
<1> DEFINE d == [labels |-> url.labels, capitals |-> url.capitals]
<1>1. NormalizeURI(url).labels = url.labels /\ url.labels \in Seq(STRING)
  BY NormalizedIs DEF URL
<1>2. url.labels # <<>>
  <2>1. HasHost(url)
    BY NormalizedIs
  <2>. QED
    BY <2>1, Zenon DEF HasHost
<1>3. d \in AllowedDomains({url})
  BY <1>2 DEF AllowedDomains
<1>4. IsSuffix(url.labels, url.labels)
  <2> DEFINE s == Reverse(url.labels)
  <2>1. Len(s) \in Nat
    <3>1. s = [i \in 1 .. Len(url.labels) |-> url.labels[(Len(url.labels) - i) + 1]]
      BY DEF Reverse
    <3>2. s \in Seq(STRING)
      BY <1>1, <3>1
    <3>. QED
      BY <3>2
  <2> HIDE DEF s
  <2>2. IsPrefix(s, s)
    BY <2>1 DEF IsPrefix
  <2>. QED
    BY <2>2 DEF IsSuffix, s
<1>. QED
  BY <1>1, <1>3, <1>4 DEF DomainAllowed

\* A seed whose body is fetched does not end like a file that is no page.
LEMMA SeedIsHtmlPage ==
    ASSUME NEW url \in URL, SeedTaken(url), LowerExtension(url.query) \notin NonHtmlExtension
    PROVE  IsHtmlPageUrl(NormalizeURI(url))
<1> DEFINE n == NormalizeURI(url)
<1>1. n # None /\ ShouldFetchBody(ClassifyResourceType(n))
  BY DEF SeedTaken, Accepted
<1>2. n.query = url.query
  BY <1>1, NormalizedIs DEF URL
<1> HIDE DEF n
<1> DEFINE e == LowerExtension(StrippedEnd(n))
<1>3. e \notin NonHtmlExtension
  <2>1. e \in NonHtmlExtension => ClassifyResourceType(n) = "OTHER"
    <3> HIDE DEF e
    <3>1. e \in NonHtmlExtension =>
            /\ e \notin HtmlExtension /\ e \notin TextExtension
            /\ e \in ImageExtension \cup VideoExtension \cup AudioExtension
                      \cup StaticExtension \cup {".pdf"}
      BY DEF NonHtmlExtension, HtmlExtension, TextExtension, ImageExtension, StaticExtension
    <3>. QED
      BY <3>1 DEF ClassifyResourceType, e
  <2>. QED
    BY <1>1, <2>1 DEF ShouldFetchBody
<1>4. IsHtmlPageUrl(n) <=>
         LowerExtension(IF NoQuery(n) THEN StrippedEnd(n) ELSE n.query) \notin NonHtmlExtension
  BY Zenon DEF IsHtmlPageUrl, NoQuery
<1>. QED
  BY <1>2, <1>3, <1>4 DEF n

Points(condition, n) == IF condition THEN n ELSE 0

\* What priorityScore adds up before it is clamped.
Sum(url) ==
    (MAX_PRIORITY \div 2) - ((Depth(url) * MAX_PRIORITY) \div 20)
       + Points(LooksLikeHtmlPage(url), MAX_PRIORITY \div 10)
       + Points(IsRoot(url), MAX_PRIORITY \div 4)
       - Points(~NoQuery(url), MAX_PRIORITY \div 7)
       - Points(url.low, MAX_PRIORITY \div 5)

LEMMA ScoreIs ==
    ASSUME NEW url
    PROVE  PriorityScore(url)
             = IF url.file \in AssetExtension THEN 0 ELSE ClampPriority(Sum(url))
  BY Zenon DEF PriorityScore, Sum, Points, NoQuery

LEMMA SumIs ==
    ASSUME NEW url
    PROVE  Sum(url) = 50 - ((Depth(url) * 100) \div 20)
                        + Points(LooksLikeHtmlPage(url), 10) + Points(IsRoot(url), 25)
                        - Points(~NoQuery(url), 14) - Points(url.low, 20)
<1>1. /\ MAX_PRIORITY = 100 /\ 100 \div 2 = 50 /\ 100 \div 10 = 10
      /\ 100 \div 4 = 25 /\ 100 \div 7 = 14 /\ 100 \div 5 = 20
  BY DEF MAX_PRIORITY
<1>. QED
  BY <1>1 DEF Sum, Points

LEMMA IsRootIs ==
    ASSUME NEW url
    PROVE  IsRoot(url) <=> NoFile(url) \/ (url.file = "/" /\ url.dirs = 0)
  BY Zenon DEF IsRoot, NoFile

LEMMA PointsIn ==
    ASSUME NEW condition, NEW n \in Nat
    PROVE  Points(condition, n) \in Nat
  BY DEF Points

LEMMA DepthIn ==
    ASSUME NEW url \in URL
    PROVE  Depth(url) \in Nat /\ (Depth(url) * 100) \div 20 \in Int
<1>1. Depth(url) \in Nat
  <2>1. url.dirs \in Nat
    BY DEF URL
  <2>. QED
    BY <2>1 DEF Depth
<1>. QED
  BY <1>1

LEMMA SumIn ==
    ASSUME NEW url \in URL
    PROVE  Sum(url) \in Int
<1>1. /\ Points(LooksLikeHtmlPage(url), 10) \in Int /\ Points(IsRoot(url), 25) \in Int
      /\ Points(~NoQuery(url), 14) \in Int /\ Points(url.low, 20) \in Int
  BY PointsIn
<1>2. (Depth(url) * 100) \div 20 \in Int
  BY DepthIn
<1>. QED
  BY <1>1, <1>2, SumIs

LEMMA ScoreIn ==
    ASSUME NEW url \in URL
    PROVE  PriorityScore(url) \in 0 .. MAX_PRIORITY
<1>1. \A p \in Int : ClampPriority(p) \in 0 .. MAX_PRIORITY
  BY DEF ClampPriority, MAX_PRIORITY
<1>2. 0 \in 0 .. MAX_PRIORITY
  BY DEF MAX_PRIORITY
<1>. QED
  BY <1>1, <1>2, ScoreIs, SumIn

\* One directory deeper is never better, as long as the depth fits its byte.
LEMMA DeeperScore ==
    ASSUME NEW url \in URL, url.dirs < 254, ~NoFile(url)
    PROVE  PriorityScore([url EXCEPT !.dirs = @ + 1]) <= PriorityScore(url)
<1> DEFINE deeper == [url EXCEPT !.dirs = @ + 1]
<1>1. url.dirs \in Nat
  BY DEF URL
<1>2. /\ deeper.dirs = url.dirs + 1 /\ deeper.file = url.file
      /\ deeper.query = url.query /\ deeper.low = url.low
  BY DEF URL
<1>3. deeper \in URL
  <2>1. url.dirs + 1 \in Nat
    BY <1>1
  <2>. QED
    BY <2>1 DEF URL
<1> HIDE DEF deeper
<1>4. ~IsRoot(deeper)
  <2>1. NoFile(deeper) <=> NoFile(url)
    BY <1>2, Zenon DEF NoFile
  <2>. QED
    BY <1>1, <1>2, <2>1, IsRootIs
<1>5. LooksLikeHtmlPage(deeper) => LooksLikeHtmlPage(url)
  BY <1>2, <1>4 DEF LooksLikeHtmlPage
<1>6. Depth(url) <= Depth(deeper)
  <2> DEFINE k == IF url.file = "/" THEN 0 ELSE 1
  <2>1. k \in 0 .. 1
    OBVIOUS
  <2>2. Depth(deeper) = (url.dirs + 1 + k) % 256
    BY <1>2, <1>4 DEF Depth
  <2>3. Depth(url) \in {0, (url.dirs + k) % 256}
    BY DEF Depth
  <2> HIDE DEF k
  <2>4. (url.dirs + 1 + k) % 256 = url.dirs + 1 + k /\ (url.dirs + k) % 256 = url.dirs + k
    BY <1>1, <2>1
  <2>. QED
    BY <1>1, <2>1, <2>2, <2>3, <2>4
<1>7. Sum(deeper) <= Sum(url)
  <2> DEFINE d == Depth(url)
             e == Depth(deeper)
  <2>1. d \in Nat /\ e \in Nat /\ d <= e
    BY <1>3, <1>6, DepthIn
  <2> HIDE DEF d, e
  <2>2. (d * 100) \div 20 = d * 5 /\ (e * 100) \div 20 = e * 5
    BY <2>1
  <2> DEFINE rest(u) == Points(LooksLikeHtmlPage(u), 10) + Points(IsRoot(u), 25)
                          - Points(~NoQuery(u), 14) - Points(u.low, 20)
  <2>3. rest(url) \in Int /\ rest(deeper) \in Int /\ rest(deeper) <= rest(url)
    <3>1. /\ Points(~NoQuery(url), 14) \in Nat /\ Points(url.low, 20) \in Nat
          /\ Points(~NoQuery(deeper), 14) = Points(~NoQuery(url), 14)
          /\ Points(deeper.low, 20) = Points(url.low, 20)
      <4>1. NoQuery(deeper) <=> NoQuery(url)
        BY <1>2, Zenon DEF NoQuery
      <4>. QED
        BY <1>2, <4>1 DEF Points
    <3>2. /\ Points(LooksLikeHtmlPage(url), 10) \in Nat /\ Points(IsRoot(url), 25) \in Nat
          /\ Points(LooksLikeHtmlPage(deeper), 10) \in Nat /\ Points(IsRoot(deeper), 25) \in Nat
      BY PointsIn
    <3>3. /\ Points(LooksLikeHtmlPage(deeper), 10) <= Points(LooksLikeHtmlPage(url), 10)
          /\ Points(IsRoot(deeper), 25) <= Points(IsRoot(url), 25)
      BY <1>4, <1>5 DEF Points
    <3>. QED
      BY <3>1, <3>2, <3>3
  <2>4. Sum(url) = 50 - d * 5 + rest(url) /\ Sum(deeper) = 50 - e * 5 + rest(deeper)
    <3>1. /\ Points(LooksLikeHtmlPage(url), 10) \in Int /\ Points(IsRoot(url), 25) \in Int
          /\ Points(~NoQuery(url), 14) \in Int /\ Points(url.low, 20) \in Int
      BY PointsIn
    <3>2. /\ Points(LooksLikeHtmlPage(deeper), 10) \in Int /\ Points(IsRoot(deeper), 25) \in Int
          /\ Points(~NoQuery(deeper), 14) \in Int /\ Points(deeper.low, 20) \in Int
      BY PointsIn
    <3>. QED
      BY <2>1, <2>2, <3>1, <3>2, SumIs DEF d, e
  <2> HIDE DEF rest
  <2>. QED
    BY <2>1, <2>3, <2>4
<1>8. \A p, q \in Int : p <= q => ClampPriority(p) <= ClampPriority(q)
  BY DEF ClampPriority, MAX_PRIORITY
<1>9. ClampPriority(Sum(deeper)) <= ClampPriority(Sum(url))
  BY <1>3, <1>7, <1>8, SumIn
<1>10. PriorityScore(deeper) <= PriorityScore(url)
  BY <1>2, <1>9, ScoreIs
<1>. QED
  BY <1>10 DEF deeper

LEMMA UrlInputs ==
    ASSUME input \in Case, Of("url")
    PROVE  input.url \in URL
<1>1. input.url \in [scheme : STRING, scheme_capitals : BOOLEAN, labels : Seq(STRING),
                     capitals : BOOLEAN, port : STRING, fragment : BOOLEAN, dirs : Nat, low : BOOLEAN,
                     file : STRING, query : STRING]
  BY CaseAssumption DEF Of
<1>2. STRING \subseteq Port
  BY Zenon DEF Port
<1>. QED
  BY <1>1, <1>2 DEF URL

LEMMA UrlRulesAreRight ==
    ASSUME input \in Case
    PROVE  UrlRulesRight
<1> SUFFICES ASSUME Of("url") PROVE UrlRulesRight
  BY Zenon DEF UrlRulesRight
<1> DEFINE url == input.url
           n == NormalizeURI(url)
           deeper == [url EXCEPT !.dirs = @ + 1]
           Taken(kind, link, same_domain, seeds) ==
             LinkTaken([kind |-> kind, url |-> link], n, same_domain, seeds)
<1>1. url \in URL
  BY UrlInputs
<1> HIDE DEF url
<1>2. ASSUME n # None
      PROVE  /\ NormalizeURI(n) = n
             /\ SeedTaken(n) = SeedTaken(url)
             /\ Taken("relative", url, FALSE, {})
                  <=> ~NothingFollows(url) /\ Taken("absolute", n, FALSE, {})
             /\ ~url.capitals =>
                  Taken("relative", url, TRUE, {url}) = Taken("relative", url, FALSE, {})
             /\ Taken("absolute", n, FALSE, {}) <=> Accepted(n) /\ IsHtmlPageUrl(n)
             /\ Taken("absolute", url, FALSE, {})
                  <=> ~url.scheme_capitals /\ Accepted(n) /\ IsHtmlPageUrl(n)
  <2>1. NormalizeURI(n) = n
    BY <1>1, <1>2, NormalizeTwice
  <2>2. \A kind \in {"absolute", "relative"} : \A same_domain, seeds :
           Taken(kind, url, same_domain, seeds)
             <=> /\ Refers(kind, url)
                 /\ Accepted(n)
                 /\ same_domain /\ AllowedDomains(seeds) # {}
                      => DomainAllowed(n, AllowedDomains(seeds))
                 /\ IsHtmlPageUrl(n)
    BY <1>1, <1>2, LinkTakenIs, Zenon
  <2>3. ~url.capitals => DomainAllowed(n, AllowedDomains({url}))
    BY <1>1, <1>2, OwnDomain
  <2>4. SeedTaken(n) = SeedTaken(url)
    BY <2>1, Zenon DEF SeedTaken
  <2>5. n \in URL /\ n.scheme_capitals = FALSE
    BY <1>1, <1>2, NormalizedIs DEF URL
  <2> HIDE DEF n
  <2>6. Refers("absolute", n)
    BY <2>5 DEF Refers
  <2>7. Taken("absolute", n, FALSE, {}) <=> Accepted(n) /\ IsHtmlPageUrl(n)
    BY <1>2, <2>1, <2>5, <2>6, LinkTakenIs, ZenonT(60)
  <2>8. /\ Refers("relative", url) <=> ~NothingFollows(url)
        /\ Refers("absolute", url) <=> ~url.scheme_capitals
    BY DEF Refers
  <2>9. ~url.capitals => (Taken("relative", url, TRUE, {url}) <=> Taken("relative", url, FALSE, {}))
    BY <2>2, <2>3, Zenon
  <2>10. /\ Taken("relative", url, FALSE, {})
              <=> ~NothingFollows(url) /\ Accepted(n) /\ IsHtmlPageUrl(n)
         /\ Taken("absolute", url, FALSE, {})
              <=> ~url.scheme_capitals /\ Accepted(n) /\ IsHtmlPageUrl(n)
    BY <2>2, <2>8, Zenon
  <2>11. \A kind, link, same_domain, seeds : Taken(kind, link, same_domain, seeds) \in BOOLEAN
    BY Zenon DEF LinkTaken
  <2> HIDE DEF Taken
  <2>. QED
    BY <2>1, <2>4, <2>7, <2>9, <2>10, <2>11
<1>3. ASSUME SeedTaken(url), LowerExtension(url.query) \notin NonHtmlExtension
      PROVE  /\ Taken("absolute", n, FALSE, {})
             /\ Taken("absolute", url, FALSE, {}) <=> ~url.scheme_capitals
  <2>1. n # None /\ Accepted(n)
    BY <1>3 DEF SeedTaken, Accepted
  <2>2. IsHtmlPageUrl(n)
    BY <1>1, <1>3, SeedIsHtmlPage
  <2> HIDE DEF n, Taken
  <2>. QED
    BY <1>2, <2>1, <2>2
<1>4. PriorityScore(url) \in 0 .. MAX_PRIORITY
  BY <1>1, ScoreIn
<1>5. ASSUME url.dirs < 254, ~NoFile(url)
      PROVE  PriorityScore(deeper) <= PriorityScore(url)
  BY <1>1, <1>5, DeeperScore
<1> HIDE DEF n, deeper, Taken
<1>. QED
  BY <1>2, <1>3, <1>4, <1>5, Zenon DEF UrlRulesRight, NoFile, url, n, deeper, Taken

\* The rules on URLs, for every URL (process.cpp, validate.cpp, normalize.cpp
\* and the filters of engine.cpp): a normalised URL is normalised for good and
\* judged like the one it came from; a relative link that is not empty is taken
\* if its normalised form is in full, and stays in the domain of its own page's
\* seed; the normalised form of a seed may be a link unless its query ends like a
\* file, and the seed as it is written if its scheme has no capitals; the score
\* is in its range, and a directory more never makes it better while the depth
\* fits its byte.
THEOREM UrlRulesRightHolds == Spec => []UrlRulesRight
<1>1. input \in Case => UrlRulesRight
  BY UrlRulesAreRight
<1>. QED
  BY <1>1, InputStays, PTL

(***************************************************************************)
(* The parser of robots.txt.                                               *)
(***************************************************************************)

LEMMA MaxIs ==
    ASSUME NEW n \in Nat, NEW S \in SUBSET (1 .. n), S # {}
    PROVE  Max(S) \in S /\ \A x \in S : x <= Max(S)
<1> DEFINE rest == {n - x : x \in S}
<1>1. rest \in SUBSET Nat /\ rest # {}
  <2>1. \A x \in S : x \in 1 .. n /\ n - x \in Nat
    OBVIOUS
  <2>. QED
    BY <2>1
<1>2. PICK d \in rest : \A e \in rest : d <= e
  BY <1>1, LeastOf
<1>3. PICK x \in S : d = n - x
  BY <1>2
<1>4. \A y \in S : x >= y
  <2>1. ASSUME NEW y \in S PROVE x >= y
    <3>1. d <= n - y
      BY <1>2
    <3>2. x \in 1 .. n /\ y \in 1 .. n
      OBVIOUS
    <3>. QED
      BY <1>3, <3>1, <3>2
  <2>. QED
    BY <2>1
<1>5. Max(S) \in S /\ \A y \in S : Max(S) >= y
  BY <1>4 DEF Max
<1>. QED
  BY <1>5

ParserStart == [collecting |-> FALSE, global |-> FALSE, specific |-> FALSE,
          seen_specific |-> FALSE, rules |-> NoRules, global_rules |-> NoRules]

LineValues(file) == {file[i].value : i \in DOMAIN file}

RuleSets(file) == [allow : SUBSET LineValues(file), disallow : SUBSET LineValues(file)]

ParserState(file) ==
    [collecting : BOOLEAN, global : BOOLEAN, specific : BOOLEAN, seen_specific : BOOLEAN,
     rules : RuleSets(file), global_rules : RuleSets(file)]

\* The function of the fold of ExtractRobotsDirectives.
ReadFrom(file) ==
    CHOOSE read : read =
        [s \in SUBSET DOMAIN file |->
            IF s = {} THEN ParserStart ELSE ReadLine(read[s \ {Max(s)}], file[Max(s)])]

LEMMA DirectivesAre ==
    ASSUME NEW file
    PROVE  ExtractRobotsDirectives(file)
             = IF ReadFrom(file)[DOMAIN file].seen_specific
                 THEN ReadFrom(file)[DOMAIN file].rules
                 ELSE ReadFrom(file)[DOMAIN file].global_rules
  BY Zenon DEF ExtractRobotsDirectives, ReadFrom, ParserStart, FoldLeft, MapThenFoldSet

LEMMA ReadLineStays ==
    ASSUME NEW file, NEW s \in ParserState(file), NEW i \in DOMAIN file
    PROVE  ReadLine(s, file[i]) \in ParserState(file)
<1> DEFINE line == file[i]
<1>1. line.value \in LineValues(file)
  BY DEF LineValues
<1> HIDE DEF line
<1>2. \A r \in RuleSets(file) : line.kind \in {"allow", "disallow"} =>
         AddRule(r, line) \in RuleSets(file)
  BY <1>1 DEF AddRule, RuleSets
<1>3. CASE line.kind = "agent"
  BY <1>3 DEF ReadLine, ReadAgent, ParserState, line
<1>4. CASE line.kind # "agent"
  <2> DEFINE t == [s EXCEPT !.collecting = @ /\ ~EndsAgents(line)]
  <2>1. t \in ParserState(file) /\ t.rules \in RuleSets(file) /\ t.global_rules \in RuleSets(file)
    BY DEF ParserState
  <2> HIDE DEF t
  <2>2. CASE line.kind \in {"allow", "disallow"} /\ line.value # <<>>
    <3> DEFINE rules == IF s.specific THEN AddRule(t.rules, line) ELSE t.rules
               global_rules == IF s.global THEN AddRule(t.global_rules, line) ELSE t.global_rules
    <3>1. rules \in RuleSets(file) /\ global_rules \in RuleSets(file)
      BY <1>2, <2>1, <2>2
    <3>2. ReadLine(s, line) = [t EXCEPT !.rules = rules, !.global_rules = global_rules]
      BY <1>4, <2>2, Zenon DEF ReadLine, t
    <3> HIDE DEF rules, global_rules
    <3>. QED
      BY <2>1, <3>1, <3>2 DEF ParserState, line
  <2>3. CASE ~(line.kind \in {"allow", "disallow"} /\ line.value # <<>>)
    BY <1>4, <2>1, <2>3 DEF ReadLine, t, line
  <2>. QED
    BY <2>2, <2>3
<1>. QED
  BY <1>3, <1>4

ReadStep(file, before, S) == IF S = {} THEN ParserStart ELSE ReadLine(before, file[Max(S)])

LEMMA ReadFromIs ==
    ASSUME NEW file, NEW n \in Nat, DOMAIN file = 1 .. n
    PROVE  \A S \in SUBSET DOMAIN file :
              ReadFrom(file)[S] = ReadStep(file, ReadFrom(file)[S \ {Max(S)}], S)
<1> DEFINE D == SUBSET DOMAIN file
           R == ParserState(file)
           m == [S \in D |-> IF S = {} THEN 0 ELSE Max(S)]
           step == [S \in D |-> [f \in [D -> R] |-> ReadStep(file, f[S \ {Max(S)}], S)]]
<1>1. \A S \in D : S # {} => Max(S) \in S /\ \A x \in S : x <= Max(S)
  BY MaxIs
<1>2. m \in [D -> 0 .. n]
  <2>1. ASSUME NEW S \in D, S # {} PROVE Max(S) \in 0 .. n
    <3>1. Max(S) \in 1 .. n
      BY <1>1, <2>1
    <3>. QED
      BY <3>1
  <2>2. 0 \in 0 .. n
    OBVIOUS
  <2>3. \A S \in D : (IF S = {} THEN 0 ELSE Max(S)) \in 0 .. n
    <3> HIDE DEF D
    <3>. QED
      BY <2>1, <2>2, Zenon
  <2>. QED
    BY <2>3
<1>3. ParserStart \in R
  BY DEF ParserStart, ParserState, RuleSets, NoRules
<1>4. step \in [D -> [[D -> R] -> R]]
  <2>1. ASSUME NEW S \in D, NEW f \in [D -> R]
        PROVE  ReadStep(file, f[S \ {Max(S)}], S) \in R
    <3>1. f[S \ {Max(S)}] \in R
      OBVIOUS
    <3> HIDE DEF R
    <3>. QED
      BY <1>1, <1>3, <3>1, ReadLineStays DEF ReadStep, R
  <2>. QED
    BY <2>1
<1>5. ASSUME NEW S \in D, NEW f \in [D -> R], NEW g \in [D -> R],
             \A y \in D : m[y] < m[S] => f[y] = g[y]
      PROVE  step[S][f] = step[S][g]
  <2>1. CASE S = {}
    BY <2>1 DEF ReadStep
  <2>2. CASE S # {}
    <3> DEFINE T == S \ {Max(S)}
    <3>1. T \in D /\ m[T] < m[S]
      <4>1. T \in D
        OBVIOUS
      <4>2. \A x \in T : x < Max(S)
        BY <1>1, <2>2
      <4>3. T # {} => Max(T) \in T
        BY <1>1, <4>1
      <4>4. Max(S) \in 1 .. n
        BY <1>1, <2>2
      <4> HIDE DEF T
      <4>. QED
        BY <2>2, <4>1, <4>2, <4>3, <4>4
    <3>2. f[T] = g[T]
      <4> HIDE DEF T, m
      <4>. QED
        BY <1>5, <3>1
    <3>. QED
      BY <3>2
  <2>. QED
    BY <2>1, <2>2
<1>6. PICK f \in [D -> R] : \A S \in D : f[S] = step[S][f]
  <2> HIDE DEF D, R, m, step
  <2>1. \A S \in D : \A f, g \in [D -> R] :
           (\A y \in D : m[y] < m[S] => f[y] = g[y]) => step[S][f] = step[S][g]
    BY <1>5
  <2>2. Recursive(D, R, n, m, step)
    BY <1>2, <1>3, <1>4, <2>1 DEF Recursive
  <2>. QED
    BY <2>2, Recursion
<1>7. f = [S \in D |-> ReadStep(file, f[S \ {Max(S)}], S)]
  BY <1>6
<1>8. ReadFrom(file) = [S \in D |-> ReadStep(file, ReadFrom(file)[S \ {Max(S)}], S)]
  BY <1>7 DEF ReadFrom, ReadStep
<1>. QED
  BY <1>8

\* The state of the parser after the first k lines.
After(file, k) == ReadFrom(file)[1 .. k]

LEMMA AfterIs ==
    ASSUME NEW file, NEW n \in Nat, DOMAIN file = 1 .. n
    PROVE  /\ After(file, 0) = ParserStart
           /\ \A k \in 0 .. n - 1 : After(file, k + 1) = ReadLine(After(file, k), file[k + 1])
<1>1. After(file, 0) = ParserStart
  <2>1. 1 .. 0 = {} /\ {} \in SUBSET DOMAIN file
    OBVIOUS
  <2>. QED
    BY <2>1, ReadFromIs DEF After, ReadStep
<1>2. ASSUME NEW k \in 0 .. n - 1
      PROVE  After(file, k + 1) = ReadLine(After(file, k), file[k + 1])
  <2> DEFINE S == 1 .. k + 1
  <2>1. S \in SUBSET DOMAIN file /\ S # {} /\ S \in SUBSET (1 .. n)
    OBVIOUS
  <2>2. Max(S) \in S /\ \A x \in S : x <= Max(S)
    <3> HIDE DEF S
    <3>. QED
      BY <2>1, MaxIs
  <2>3. Max(S) = k + 1
    <3>1. k + 1 \in S
      OBVIOUS
    <3>2. \A x \in S : x \in Int /\ x <= k + 1
      OBVIOUS
    <3> HIDE DEF S
    <3>3. k + 1 <= Max(S) /\ Max(S) <= k + 1 /\ Max(S) \in Int
      BY <2>2, <3>1, <3>2
    <3>. QED
      BY <3>3
  <2>4. S \ {k + 1} = 1 .. k
    OBVIOUS
  <2>5. ReadFrom(file)[S] = ReadStep(file, ReadFrom(file)[S \ {Max(S)}], S)
    <3> HIDE DEF S
    <3>. QED
      BY <2>1, ReadFromIs
  <2>6. ReadFrom(file)[S] = ReadStep(file, ReadFrom(file)[1 .. k], S)
    BY <2>3, <2>4, <2>5
  <2> HIDE DEF S
  <2>7. ReadFrom(file)[S] = ReadLine(ReadFrom(file)[1 .. k], file[k + 1])
    BY <2>1, <2>3, <2>6 DEF ReadStep
  <2>. QED
    BY <2>7 DEF After, S
<1>. QED
  BY <1>1, <1>2

Agents(file) == {i \in DOMAIN file : file[i].kind = "agent"}

\* The User-agent lines of the run that ended last before line i.
Run(file, i) ==
    {a \in Agents(file) : /\ a < i
                          /\ \A j \in a .. i - 1 :
                               j \notin Agents(file) =>
                                 \A b \in Agents(file) : ~(j < b /\ b < i)}

Names(file, i, agent) == \E a \in Run(file, i) : file[a].value = agent

Chosen(file, k, kind, agent) ==
    {file[i].value : i \in {j \in 1 .. k : /\ file[j].kind = kind /\ file[j].value # <<>>
                                           /\ Names(file, j, agent)}}

ChosenRules(file, k, agent) ==
    [allow |-> Chosen(file, k, "allow", agent), disallow |-> Chosen(file, k, "disallow", agent)]

\* What the parser knows after k lines.
Parsed(file, k, s) ==
    /\ s.collecting <=> k \in Agents(file)
    /\ s.global <=> Names(file, k + 1, "*")
    /\ s.specific <=> Names(file, k + 1, "ours")
    /\ s.seen_specific <=> \E a \in Agents(file) : a <= k /\ file[a].value = "ours"
    /\ s.rules = ChosenRules(file, k, "ours")
    /\ s.global_rules = ChosenRules(file, k, "*")

LEMMA RunIs ==
    ASSUME NEW file, NEW n \in Nat, DOMAIN file = 1 .. n, NEW k \in 0 .. n - 1
    PROVE  Run(file, k + 2) = IF k + 1 \notin Agents(file) THEN Run(file, k + 1)
                              ELSE IF k \in Agents(file) THEN Run(file, k + 1) \cup {k + 1}
                              ELSE {k + 1}
<1> DEFINE A == Agents(file)
<1>1. A \subseteq 1 .. n
  BY DEF Agents
<1> HIDE DEF A
<1>2. \A a : a \in Run(file, k + 1) <=>
         /\ a \in A /\ a < k + 1
         /\ \A j \in a .. k : j \notin A => \A b \in A : ~(j < b /\ b < k + 1)
  <2>1. (k + 1) - 1 = k
    OBVIOUS
  <2>. QED
    BY <2>1 DEF Run, A
<1>3. \A a : a \in Run(file, k + 2) <=>
         /\ a \in A /\ a < k + 2
         /\ \A j \in a .. k + 1 : j \notin A => \A b \in A : ~(j < b /\ b < k + 2)
  <2>1. (k + 2) - 1 = k + 1
    OBVIOUS
  <2>. QED
    BY <2>1 DEF Run, A
<1>4. CASE k + 1 \notin A
  <2>1. ASSUME NEW a, a \in Run(file, k + 1) PROVE a \in Run(file, k + 2)
    <3>1. a \in A /\ a < k + 2 /\ a \in 1 .. n
      <4>1. a \in A /\ a < k + 1 /\ a \in 1 .. n
        BY <1>1, <1>2, <2>1
      <4>. QED
        BY <4>1
    <3>2. ASSUME NEW j \in a .. k + 1, j \notin A, NEW b \in A, j < b, b < k + 2
          PROVE  FALSE
      <4>1. b \in 1 .. n /\ b # k + 1
        BY <1>1, <1>4
      <4>2. b < k + 1 /\ j \in a .. k
        BY <3>1, <3>2, <4>1
      <4>. QED
        BY <1>2, <2>1, <3>2, <4>2
    <3>. QED
      BY <1>3, <3>1, <3>2
  <2>2. ASSUME NEW a, a \in Run(file, k + 2) PROVE a \in Run(file, k + 1)
    <3>1. a \in A /\ a \in 1 .. n /\ a # k + 1 /\ a < k + 2
      BY <1>1, <1>3, <1>4, <2>2
    <3>2. a < k + 1
      BY <3>1
    <3>3. ASSUME NEW j \in a .. k, j \notin A, NEW b \in A, j < b, b < k + 1
          PROVE  FALSE
      <4>1. b < k + 2 /\ j \in a .. k + 1
        BY <1>1, <3>1, <3>3
      <4>. QED
        BY <1>3, <2>2, <3>3, <4>1
    <3>. QED
      BY <1>2, <3>1, <3>2, <3>3
  <2>. QED
    BY <1>4, <2>1, <2>2 DEF A
<1>5. CASE k + 1 \in A /\ k \in A
  <2>1. ASSUME NEW a, a \in Run(file, k + 1) PROVE a \in Run(file, k + 2)
    <3>1. a \in A /\ a \in 1 .. n /\ a < k + 1
      BY <1>1, <1>2, <2>1
    <3>2. ASSUME NEW j \in a .. k + 1, j \notin A
          PROVE  FALSE
      <4>1. j # k + 1 /\ j # k
        BY <1>5, <3>2
      <4>2. j \in a .. k /\ j < k /\ k < k + 1
        BY <3>1, <4>1
      <4>. QED
        BY <1>2, <1>5, <2>1, <3>2, <4>2
    <3>3. a < k + 2
      BY <3>1
    <3>. QED
      BY <1>3, <3>1, <3>2, <3>3
  <2>2. k + 1 \in Run(file, k + 2)
    <3>1. \A j \in k + 1 .. k + 1 : j = k + 1
      OBVIOUS
    <3>2. k + 1 < k + 2
      OBVIOUS
    <3>. QED
      BY <1>3, <1>5, <3>1, <3>2
  <2>3. ASSUME NEW a, a \in Run(file, k + 2), a # k + 1 PROVE a \in Run(file, k + 1)
    <3>1. a \in A /\ a \in 1 .. n /\ a < k + 2
      BY <1>1, <1>3, <2>3
    <3>2. a < k + 1
      BY <2>3, <3>1
    <3>3. ASSUME NEW j \in a .. k, j \notin A, NEW b \in A, j < b, b < k + 1
          PROVE  FALSE
      <4>1. b < k + 2 /\ j \in a .. k + 1
        BY <1>1, <3>1, <3>3
      <4>. QED
        BY <1>3, <2>3, <3>3, <4>1
    <3>. QED
      BY <1>2, <3>1, <3>2, <3>3
  <2>. QED
    BY <1>5, <2>1, <2>2, <2>3 DEF A
<1>6. CASE k + 1 \in A /\ k \notin A
  <2>1. k + 1 \in Run(file, k + 2)
    <3>1. \A j \in k + 1 .. k + 1 : j = k + 1
      OBVIOUS
    <3>2. k + 1 < k + 2
      OBVIOUS
    <3>. QED
      BY <1>3, <1>6, <3>1, <3>2
  <2>2. ASSUME NEW a, a \in Run(file, k + 2), a # k + 1 PROVE FALSE
    <3>1. a \in 1 .. n /\ a < k + 2
      BY <1>1, <1>3, <2>2
    <3>2. k \in a .. k + 1 /\ k < k + 1 /\ k + 1 < k + 2
      BY <2>2, <3>1
    <3>. QED
      BY <1>3, <1>6, <2>2, <3>2
  <2>. QED
    BY <1>6, <2>1, <2>2 DEF A
<1>. QED
  BY <1>4, <1>5, <1>6 DEF A

Takes(line) == line.kind \in {"allow", "disallow"} /\ line.value # <<>>

\* A line, variable by variable.
LEMMA ReadLineIs ==
    ASSUME NEW file, NEW s \in ParserState(file), NEW line
    PROVE  LET t == ReadLine(s, line)
           IN /\ line.kind = "agent" =>
                   /\ t.collecting
                   /\ t.global <=> (s.global /\ s.collecting) \/ line.value = "*"
                   /\ t.specific <=> (s.specific /\ s.collecting) \/ line.value = "ours"
                   /\ t.seen_specific <=> s.seen_specific \/ line.value = "ours"
                   /\ t.rules = s.rules /\ t.global_rules = s.global_rules
              /\ line.kind # "agent" =>
                   /\ ~t.collecting
                   /\ (t.global <=> s.global) /\ (t.specific <=> s.specific)
                   /\ t.seen_specific <=> s.seen_specific
                   /\ t.rules = IF Takes(line) /\ s.specific
                                  THEN AddRule(s.rules, line) ELSE s.rules
                   /\ t.global_rules = IF Takes(line) /\ s.global
                                         THEN AddRule(s.global_rules, line) ELSE s.global_rules
<1>1. CASE line.kind = "agent"
  BY <1>1 DEF ReadLine, ReadAgent, AgentApplies, ParserState
<1>2. CASE line.kind # "agent" /\ Takes(line)
  BY <1>2 DEF ReadLine, EndsAgents, Takes, ParserState
<1>3. CASE line.kind # "agent" /\ ~Takes(line)
  BY <1>3 DEF ReadLine, EndsAgents, Takes, ParserState
<1>. QED
  BY <1>1, <1>2, <1>3

LEMMA ChosenIs ==
    ASSUME NEW file, NEW k \in Nat, NEW kind, NEW agent
    PROVE  Chosen(file, k + 1, kind, agent) =
             IF /\ file[k + 1].kind = kind /\ file[k + 1].value # <<>>
                /\ Names(file, k + 1, agent)
               THEN Chosen(file, k, kind, agent) \cup {file[k + 1].value}
               ELSE Chosen(file, k, kind, agent)
<1>1. 1 .. k + 1 = (1 .. k) \cup {k + 1}
  OBVIOUS
<1>. QED
  BY <1>1 DEF Chosen

LEMMA ChosenRulesAre ==
    ASSUME NEW file, NEW k \in Nat, NEW agent
    PROVE  ChosenRules(file, k + 1, agent) =
             IF Takes(file[k + 1]) /\ Names(file, k + 1, agent)
               THEN AddRule(ChosenRules(file, k, agent), file[k + 1])
               ELSE ChosenRules(file, k, agent)
<1>1. \A kind : Chosen(file, k + 1, kind, agent) =
             IF /\ file[k + 1].kind = kind /\ file[k + 1].value # <<>>
                /\ Names(file, k + 1, agent)
               THEN Chosen(file, k, kind, agent) \cup {file[k + 1].value}
               ELSE Chosen(file, k, kind, agent)
  BY ChosenIs
<1> DEFINE line == file[k + 1]
           old == ChosenRules(file, k, agent)
           new == ChosenRules(file, k + 1, agent)
<1>2. /\ old = [allow |-> Chosen(file, k, "allow", agent),
                disallow |-> Chosen(file, k, "disallow", agent)]
      /\ new = [allow |-> Chosen(file, k + 1, "allow", agent),
                disallow |-> Chosen(file, k + 1, "disallow", agent)]
  BY DEF ChosenRules
<1>3. CASE Takes(line) /\ Names(file, k + 1, agent)
  <2> DEFINE allow == Chosen(file, k, "allow", agent)
             disallow == Chosen(file, k, "disallow", agent)
             added == line.value
  <2>1. line.value # <<>>
    BY <1>3 DEF Takes
  <2>2. CASE line.kind = "allow"
    <3>1. /\ Chosen(file, k + 1, "allow", agent) = allow \cup {added}
          /\ Chosen(file, k + 1, "disallow", agent) = disallow
      BY <1>1, <1>3, <2>1, <2>2
    <3> HIDE DEF allow, disallow, added
    <3>2. new = [allow |-> allow \cup {added}, disallow |-> disallow]
      BY <1>2, <3>1
    <3>3. old = [allow |-> allow, disallow |-> disallow]
      BY <1>2 DEF allow, disallow
    <3> HIDE DEF old, new, line
    <3>4. AddRule(old, line) = [old EXCEPT !.allow = @ \cup {added}]
      BY <2>2 DEF AddRule, added
    <3>5. AddRule(old, line) = new
      BY <3>2, <3>3, <3>4
    <3>. QED
      BY <1>3, <3>5 DEF old, new, line
  <2>3. CASE line.kind = "disallow"
    <3>1. /\ Chosen(file, k + 1, "disallow", agent) = disallow \cup {added}
          /\ Chosen(file, k + 1, "allow", agent) = allow
      BY <1>1, <1>3, <2>1, <2>3
    <3> HIDE DEF allow, disallow, added
    <3>2. new = [allow |-> allow, disallow |-> disallow \cup {added}]
      BY <1>2, <3>1
    <3>3. old = [allow |-> allow, disallow |-> disallow]
      BY <1>2 DEF allow, disallow
    <3> HIDE DEF old, new, line
    <3>4. AddRule(old, line) = [old EXCEPT !.disallow = @ \cup {added}]
      BY <2>3 DEF AddRule, added
    <3>5. AddRule(old, line) = new
      BY <3>2, <3>3, <3>4
    <3>. QED
      BY <1>3, <3>5 DEF old, new, line
  <2>. QED
    BY <1>3, <2>2, <2>3 DEF Takes
<1>4. CASE ~(Takes(line) /\ Names(file, k + 1, agent))
  BY <1>1, <1>4 DEF Takes, ChosenRules
<1>. QED
  BY <1>3, <1>4

LEMMA ParsedStep ==
    ASSUME NEW file, NEW n \in Nat, DOMAIN file = 1 .. n, NEW k \in 0 .. n - 1,
           NEW s \in ParserState(file), Parsed(file, k, s)
    PROVE  Parsed(file, k + 1, ReadLine(s, file[k + 1]))
<1> DEFINE line == file[k + 1]
           t == ReadLine(s, line)
<1>1. k \in Nat /\ k + 1 \in DOMAIN file /\ (k + 1) + 1 = k + 2
  OBVIOUS
<1>2. k + 1 \in Agents(file) <=> line.kind = "agent"
  BY <1>1 DEF Agents
<1>3. \A agent : ChosenRules(file, k + 1, agent) =
         IF Takes(line) /\ Names(file, k + 1, agent)
           THEN AddRule(ChosenRules(file, k, agent), line)
           ELSE ChosenRules(file, k, agent)
  BY <1>1, ChosenRulesAre
<1>4. Agents(file) \subseteq 1 .. n
  BY DEF Agents
<1>5. CASE line.kind = "agent"
  <2>1. \A agent : Names(file, k + 2, agent) <=>
           (Names(file, k + 1, agent) /\ k \in Agents(file)) \/ line.value = agent
    <3>1. Run(file, k + 2) = IF k \in Agents(file) THEN Run(file, k + 1) \cup {k + 1}
                             ELSE {k + 1}
      BY <1>2, <1>5, RunIs
    <3>2. \A agent : Names(file, k + 2, agent) <=> \E a \in Run(file, k + 2) : file[a].value = agent
      BY DEF Names
    <3>3. \A agent : Names(file, k + 1, agent) <=> \E a \in Run(file, k + 1) : file[a].value = agent
      BY DEF Names
    <3>4. CASE k \in Agents(file)
      BY <3>1, <3>2, <3>3, <3>4
    <3>5. CASE k \notin Agents(file)
      BY <3>1, <3>2, <3>5
    <3>. QED
      BY <3>4, <3>5
  <2>2. (\E a \in Agents(file) : a <= k + 1 /\ file[a].value = "ours")
          <=> (\E a \in Agents(file) : a <= k /\ file[a].value = "ours") \/ line.value = "ours"
    <3>1. \A a \in Agents(file) : a <= k + 1 <=> a <= k \/ a = k + 1
      BY <1>4
    <3>. QED
      BY <1>2, <1>5, <3>1
  <2>3. ~Takes(line)
    BY <1>5 DEF Takes
  <2>4. /\ t.collecting
        /\ t.global <=> (s.global /\ s.collecting) \/ line.value = "*"
        /\ t.specific <=> (s.specific /\ s.collecting) \/ line.value = "ours"
        /\ t.seen_specific <=> s.seen_specific \/ line.value = "ours"
        /\ t.rules = s.rules /\ t.global_rules = s.global_rules
    BY <1>5, ReadLineIs
  <2> HIDE DEF t, line
  <2>. QED
    BY <1>1, <1>2, <1>3, <1>5, <2>1, <2>2, <2>3, <2>4 DEF Parsed, t, line
<1>6. CASE line.kind # "agent"
  <2>1. \A agent : Names(file, k + 2, agent) <=> Names(file, k + 1, agent)
    BY <1>2, <1>6, RunIs DEF Names
  <2>2. (\E a \in Agents(file) : a <= k + 1 /\ file[a].value = "ours")
          <=> \E a \in Agents(file) : a <= k /\ file[a].value = "ours"
    <3>1. \A a \in Agents(file) : a <= k + 1 <=> a <= k
      <4>1. \A a \in Agents(file) : a \in 1 .. n /\ a # k + 1
        BY <1>2, <1>4, <1>6
      <4>. QED
        BY <4>1
    <3>. QED
      BY <3>1
  <2>3. /\ ~t.collecting
        /\ (t.global <=> s.global) /\ (t.specific <=> s.specific)
        /\ t.seen_specific <=> s.seen_specific
        /\ t.rules = IF Takes(line) /\ s.specific THEN AddRule(s.rules, line) ELSE s.rules
        /\ t.global_rules = IF Takes(line) /\ s.global
                              THEN AddRule(s.global_rules, line) ELSE s.global_rules
    BY <1>6, ReadLineIs
  <2> HIDE DEF t, line
  <2>4. /\ t.rules = ChosenRules(file, k + 1, "ours")
        /\ t.global_rules = ChosenRules(file, k + 1, "*")
    BY <1>3, <2>3 DEF Parsed
  <2>. QED
    BY <1>1, <1>2, <1>6, <2>1, <2>2, <2>3, <2>4 DEF Parsed, t, line
<1>. QED
  BY <1>5, <1>6

LEMMA AllParsed ==
    ASSUME NEW file, NEW n \in Nat, DOMAIN file = 1 .. n
    PROVE  Parsed(file, n, After(file, n))
<1> DEFINE D == 0 .. n
           m == [k \in D |-> k]
           good == {k \in D : After(file, k) \in ParserState(file)
                                /\ Parsed(file, k, After(file, k))}
<1>1. 0 \in good
  <2>1. ParserStart \in ParserState(file)
    BY DEF ParserStart, ParserState, RuleSets, NoRules
  <2>2. Run(file, 1) = {} /\ 0 \notin Agents(file)
        /\ \A a \in Agents(file) : ~(a <= 0)
    BY DEF Run, Agents
  <2>3. \A agent : ChosenRules(file, 0, agent) = NoRules
    <3>1. \A kind, agent : Chosen(file, 0, kind, agent) = {}
      BY DEF Chosen
    <3>. QED
      BY <3>1 DEF ChosenRules, NoRules
  <2>4. Parsed(file, 0, ParserStart)
    <3>1. 0 + 1 = 1
      OBVIOUS
    <3>. QED
      BY <2>2, <2>3, <3>1 DEF Parsed, ParserStart, Names
  <2>. QED
    BY <2>1, <2>4, AfterIs
<1>2. ASSUME NEW k \in D, \A j \in D : m[j] < m[k] => j \in good
      PROVE  k \in good
  <2>1. CASE k = 0
    BY <1>1, <2>1
  <2>2. CASE k # 0
    <3> DEFINE j == k - 1
    <3>1. j \in 0 .. n - 1 /\ j \in D /\ j + 1 = k /\ j + 1 \in DOMAIN file /\ m[j] < m[k]
      BY <2>2
    <3>2. After(file, j) \in ParserState(file) /\ Parsed(file, j, After(file, j))
      BY <1>2, <3>1
    <3> HIDE DEF j, D
    <3>3. After(file, j + 1) = ReadLine(After(file, j), file[j + 1])
      BY <3>1, AfterIs
    <3>4. After(file, j + 1) \in ParserState(file)
      BY <3>1, <3>2, <3>3, ReadLineStays
    <3>5. Parsed(file, j + 1, After(file, j + 1))
      BY <3>1, <3>2, <3>3, ParsedStep
    <3>. QED
      BY <3>1, <3>4, <3>5
  <2>. QED
    BY <2>1, <2>2
<1>3. D \subseteq good
  <2>1. m \in [D -> Nat]
    OBVIOUS
  <2>2. \A k \in D : (\A j \in D : m[j] < m[k] => j \in good) => k \in good
    BY <1>2
  <2> HIDE DEF D, m, good
  <2>. QED
    BY <2>1, <2>2, Induction DEF Inductive
<1>4. n \in D
  OBVIOUS
<1>. QED
  BY <1>3, <1>4

LEMMA FileInputs ==
    ASSUME input \in Case, Of("file")
    PROVE  \E n \in Nat : DOMAIN input.file = 1 .. n
<1>1. \E Line : input.file \in Seq(Line)
  BY CaseAssumption DEF Of
<1>2. PICK Line : input.file \in Seq(Line)
  BY <1>1
<1>3. DOMAIN input.file = 1 .. Len(input.file) /\ Len(input.file) \in Nat
  BY <1>2
<1>. QED
  BY <1>3

LEMMA GroupsAreRight ==
    ASSUME input \in Case
    PROVE  GroupsRight
<1> SUFFICES ASSUME Of("file") PROVE GroupsRight
  BY Zenon DEF GroupsRight
<1> DEFINE file == input.file
<1>1. PICK n \in Nat : DOMAIN file = 1 .. n
  BY FileInputs
<1> HIDE DEF file
<1> DEFINE ours == \E a \in Agents(file) : file[a].value = "ours"
           agent == IF ours THEN "ours" ELSE "*"
           Rules(kind) == {file[i].value : i \in {j \in DOMAIN file :
                             file[j].kind = kind /\ file[j].value # <<>>
                               /\ Names(file, j, agent)}}
<1>2. Parsed(file, n, After(file, n))
  BY <1>1, AllParsed
<1>3. After(file, n).seen_specific <=> ours
  <2>1. \A a \in Agents(file) : a <= n
    BY <1>1 DEF Agents
  <2>. QED
    BY <1>2, <2>1 DEF Parsed
<1>4. ExtractRobotsDirectives(file) = ChosenRules(file, n, agent)
  <2>1. ReadFrom(file)[DOMAIN file] = After(file, n)
    BY <1>1 DEF After
  <2>. QED
    BY <1>2, <1>3, <2>1, DirectivesAre DEF Parsed
<1>5. ChosenRules(file, n, agent) = [allow |-> Rules("allow"), disallow |-> Rules("disallow")]
  BY <1>1 DEF ChosenRules, Chosen
<1>6. ExtractRobotsDirectives(file) = [allow |-> Rules("allow"), disallow |-> Rules("disallow")]
  BY <1>4, <1>5
<1>. QED
  BY <1>6, Zenon DEF GroupsRight, Names, Run, Agents, file

\* The parser of robots.txt, for files of any length (extractRobotsDirectives,
\* robots_manager.cpp): a rule is taken exactly when the run of User-agent lines
\* that ended last before it names our agent, or * if no line of the whole file
\* names ours.
THEOREM GroupsRightHolds == Spec => []GroupsRight
<1>1. input \in Case => GroupsRight
  BY GroupsAreRight
<1>. QED
  BY <1>1, InputStays, PTL

(***************************************************************************)
(* The edit distance.  Lev is the number in a cell of the matrix; an edit  *)
(* changes it by at most one (EditNear), and lists that differ have an     *)
(* edit that brings them nearer (Descent), so that the number in the last  *)
(* cell is the number of edits.                                            *)
(***************************************************************************)

LEMMA LeastIs ==
    ASSUME NEW x \in Nat, NEW y \in Nat
    PROVE  Least(x, y) \in Nat /\ Least(x, y) <= x /\ Least(x, y) <= y
           /\ Least(x, y) \in {x, y}
  BY DEF Least

Rows(b) == [0 .. Len(b) -> Nat]

Cell(prev, left, i, j, a, b) ==
    IF j = 0 THEN i
    ELSE Least(Least(prev[j] + 1, left + 1), prev[j - 1] + IF a[i] = b[j] THEN 0 ELSE 1)

LEMMA CellIn ==
    ASSUME NEW a, NEW b, Len(b) \in Nat, NEW prev \in Rows(b), NEW i \in Nat,
           NEW j \in 0 .. Len(b), NEW left, j # 0 => left \in Nat
    PROVE  Cell(prev, left, i, j, a, b) \in Nat
<1>1. CASE j = 0
  BY <1>1 DEF Cell
<1>2. CASE j # 0
  <2> DEFINE c == IF a[i] = b[j] THEN 0 ELSE 1
  <2>1. prev[j] + 1 \in Nat /\ left + 1 \in Nat /\ prev[j - 1] + c \in Nat
    <3>1. prev[j] \in Nat /\ prev[j - 1] \in Nat
      BY <1>2 DEF Rows
    <3>. QED
      BY <1>2, <3>1
  <2> HIDE DEF c
  <2>2. Least(Least(prev[j] + 1, left + 1), prev[j - 1] + c) \in Nat
    BY <2>1, LeastIs
  <2>. QED
    BY <1>2, <2>2 DEF Cell, c
<1>. QED
  BY <1>1, <1>2

LEMMA NextRowIs ==
    ASSUME NEW a, NEW b, Len(b) \in Nat, NEW prev \in Rows(b), NEW i \in Nat
    PROVE  /\ NextRow(prev, i, a, b) \in Rows(b)
           /\ \A j \in 0 .. Len(b) :
                NextRow(prev, i, a, b)[j] = Cell(prev, NextRow(prev, i, a, b)[j - 1], i, j, a, b)
<1> DEFINE D == 0 .. Len(b)
           R == Nat
           N == Len(b)
           m == [j \in D |-> j]
           step == [j \in D |-> [f \in [D -> R] |-> Cell(prev, f[j - 1], i, j, a, b)]]
           row == NextRow(prev, i, a, b)
<1>1. m \in [D -> 0 .. N]
  OBVIOUS
<1>2. step \in [D -> [[D -> R] -> R]]
  <2>1. ASSUME NEW j \in D, NEW f \in [D -> R]
        PROVE  Cell(prev, f[j - 1], i, j, a, b) \in R
    <3>1. j # 0 => f[j - 1] \in Nat
      OBVIOUS
    <3>. QED
      BY <3>1, CellIn
  <2>. QED
    BY <2>1
<1>3. ASSUME NEW j \in D, NEW f \in [D -> R], NEW g \in [D -> R],
             \A y \in D : m[y] < m[j] => f[y] = g[y]
      PROVE  step[j][f] = step[j][g]
  <2>1. CASE j = 0
    BY <2>1 DEF Cell
  <2>2. CASE j # 0
    <3>1. f[j - 1] = g[j - 1]
      BY <1>3, <2>2
    <3>. QED
      BY <3>1
  <2>. QED
    BY <2>1, <2>2
<1>4. PICK f \in [D -> R] : \A j \in D : f[j] = step[j][f]
  <2>1. R # {}
    OBVIOUS
  <2> HIDE DEF D, R, N, m, step
  <2>2. \A j \in D : \A f, g \in [D -> R] :
           (\A y \in D : m[y] < m[j] => f[y] = g[y]) => step[j][f] = step[j][g]
    BY <1>3
  <2>3. N \in Nat
    BY DEF N
  <2>4. Recursive(D, R, N, m, step)
    BY <1>1, <1>2, <2>1, <2>2, <2>3 DEF Recursive
  <2>. QED
    BY <2>4, Recursion
<1>5. f = [j \in D |-> Cell(prev, f[j - 1], i, j, a, b)]
  BY <1>4
<1>6. row = [j \in D |-> Cell(prev, row[j - 1], i, j, a, b)]
  BY <1>5 DEF NextRow, Cell
<1> HIDE DEF row
<1>7. \A j \in D : row[j] \in Nat
  <2> DEFINE good == {j \in D : row[j] \in Nat}
  <2>1. ASSUME NEW j \in D, \A k \in D : m[k] < m[j] => k \in good
        PROVE  row[j] \in Nat
    <3>1. j # 0 => j - 1 \in D /\ m[j - 1] < m[j]
      OBVIOUS
    <3>2. j # 0 => row[j - 1] \in Nat
      BY <2>1, <3>1
    <3>3. row[j] = Cell(prev, row[j - 1], i, j, a, b)
      BY <1>6
    <3>. QED
      BY <3>2, <3>3, CellIn
  <2>2. \A j \in D : (\A k \in D : m[k] < m[j] => k \in good) => j \in good
    BY <2>1
  <2>3. m \in [D -> Nat]
    OBVIOUS
  <2>4. D \subseteq good
    <3> HIDE DEF D, m, good
    <3>. QED
      BY <2>2, <2>3, Induction DEF Inductive
  <2>. QED
    BY <2>4
<1>8. row \in Rows(b)
  BY <1>6, <1>7 DEF Rows
<1>9. \A j \in D : row[j] = Cell(prev, row[j - 1], i, j, a, b)
  BY <1>6
<1>. QED
  BY <1>8, <1>9 DEF row

\* The rows of editDistanceAtMostTwo.
Matrix(a, b) ==
    CHOOSE row : row = [i \in 0 .. Len(a) |->
                          IF i = 0 THEN FirstRow(b) ELSE NextRow(row[i - 1], i, a, b)]

\* The distance of the first i characters of a from the first j of b.
Lev(a, b, i, j) == Matrix(a, b)[i][j]

RowStep(prev, i, a, b) == IF i = 0 THEN FirstRow(b) ELSE NextRow(prev, i, a, b)

LEMMA RowStepIn ==
    ASSUME NEW a, NEW b, Len(b) \in Nat, NEW i \in Nat, NEW prev, i # 0 => prev \in Rows(b)
    PROVE  RowStep(prev, i, a, b) \in Rows(b)
<1>1. FirstRow(b) \in Rows(b)
  BY DEF FirstRow, Rows
<1>. QED
  BY <1>1, NextRowIs DEF RowStep

LEMMA MatrixIs ==
    ASSUME NEW a, NEW b, Len(a) \in Nat, Len(b) \in Nat
    PROVE  \A i \in 0 .. Len(a) :
              /\ Matrix(a, b)[i] \in Rows(b)
              /\ Matrix(a, b)[i] = RowStep(Matrix(a, b)[i - 1], i, a, b)
<1> DEFINE D == 0 .. Len(a)
           R == Rows(b)
           N == Len(a)
           m == [i \in D |-> i]
           step == [i \in D |-> [f \in [D -> R] |-> RowStep(f[i - 1], i, a, b)]]
           row == Matrix(a, b)
<1>1. m \in [D -> 0 .. N]
  OBVIOUS
<1>2. step \in [D -> [[D -> R] -> R]]
  <2>1. ASSUME NEW i \in D, NEW f \in [D -> R]
        PROVE  RowStep(f[i - 1], i, a, b) \in R
    <3>1. i # 0 => f[i - 1] \in Rows(b)
      OBVIOUS
    <3>. QED
      BY <3>1, RowStepIn
  <2>. QED
    BY <2>1
<1>3. ASSUME NEW i \in D, NEW f \in [D -> R], NEW g \in [D -> R],
             \A y \in D : m[y] < m[i] => f[y] = g[y]
      PROVE  step[i][f] = step[i][g]
  <2>1. CASE i = 0
    BY <2>1 DEF RowStep
  <2>2. CASE i # 0
    <3>1. f[i - 1] = g[i - 1]
      BY <1>3, <2>2
    <3>. QED
      BY <3>1
  <2>. QED
    BY <2>1, <2>2
<1>4. PICK f \in [D -> R] : \A i \in D : f[i] = step[i][f]
  <2>1. R # {} /\ N \in Nat
    <3>1. FirstRow(b) \in R
      BY DEF FirstRow, Rows
    <3>. QED
      BY <3>1
  <2> HIDE DEF D, R, N, m, step
  <2>2. \A i \in D : \A f, g \in [D -> R] :
           (\A y \in D : m[y] < m[i] => f[y] = g[y]) => step[i][f] = step[i][g]
    BY <1>3
  <2>3. Recursive(D, R, N, m, step)
    BY <1>1, <1>2, <2>1, <2>2 DEF Recursive
  <2>. QED
    BY <2>3, Recursion
<1>5. f = [i \in D |-> RowStep(f[i - 1], i, a, b)]
  BY <1>4
<1>6. row = [i \in D |-> RowStep(row[i - 1], i, a, b)]
  BY <1>5 DEF Matrix, RowStep
<1> HIDE DEF row
<1>7. \A i \in D : row[i] \in Rows(b)
  <2> DEFINE good == {i \in D : row[i] \in Rows(b)}
  <2>1. ASSUME NEW i \in D, \A k \in D : m[k] < m[i] => k \in good
        PROVE  row[i] \in Rows(b)
    <3>1. i # 0 => i - 1 \in D /\ m[i - 1] < m[i]
      OBVIOUS
    <3>2. i # 0 => row[i - 1] \in Rows(b)
      BY <2>1, <3>1
    <3>3. row[i] = RowStep(row[i - 1], i, a, b)
      BY <1>6
    <3>. QED
      BY <3>2, <3>3, RowStepIn
  <2>2. \A i \in D : (\A k \in D : m[k] < m[i] => k \in good) => i \in good
    BY <2>1
  <2>3. m \in [D -> Nat]
    OBVIOUS
  <2>4. D \subseteq good
    <3> HIDE DEF D, m, good
    <3>. QED
      BY <2>2, <2>3, Induction DEF Inductive
  <2>. QED
    BY <2>4
<1>. QED
  BY <1>6, <1>7 DEF row

\* The equations of the distance.
LEMMA LevIs ==
    ASSUME NEW a, NEW b, Len(a) \in Nat, Len(b) \in Nat, NEW i \in 0 .. Len(a), NEW j \in 0 .. Len(b)
    PROVE  /\ Lev(a, b, i, j) \in Nat
           /\ i = 0 => Lev(a, b, i, j) = j
           /\ j = 0 => Lev(a, b, i, j) = i
           /\ i # 0 /\ j # 0 =>
                Lev(a, b, i, j) = Least(Least(Lev(a, b, i - 1, j) + 1, Lev(a, b, i, j - 1) + 1),
                                        Lev(a, b, i - 1, j - 1) + IF a[i] = b[j] THEN 0 ELSE 1)
<1> DEFINE M == Matrix(a, b)
<1>1. M[i] \in Rows(b) /\ M[i] = RowStep(M[i - 1], i, a, b)
  BY MatrixIs
<1>2. M[i][j] \in Nat
  BY <1>1 DEF Rows
<1>3. CASE i = 0
  <2>1. M[i][j] = j
    BY <1>1, <1>3 DEF RowStep, FirstRow
  <2>. QED
    BY <1>2, <1>3, <2>1 DEF Lev
<1>4. CASE i # 0
  <2>1. M[i - 1] \in Rows(b)
    BY <1>4, MatrixIs
  <2>2. M[i] = NextRow(M[i - 1], i, a, b)
    BY <1>1, <1>4 DEF RowStep
  <2> HIDE DEF M
  <2>3. M[i][j] = Cell(M[i - 1], M[i][j - 1], i, j, a, b)
    BY <2>1, <2>2, NextRowIs
  <2>. QED
    BY <1>2, <1>4, <2>3 DEF Cell, Lev, M
<1>. QED
  BY <1>3, <1>4

\* The same, for proofs: the distance is bounded by its three neighbours, and
\* is reached from one of them.
Reached(here, up, left, across, same) ==
    /\ here \in Nat /\ up \in Nat /\ left \in Nat /\ across \in Nat
    /\ here <= up + 1 /\ here <= left + 1 /\ here <= across + 1
    /\ same => here <= across
    /\ \/ here = up + 1
       \/ here = left + 1
       \/ same /\ here = across
       \/ ~same /\ here = across + 1

LEMMA LevStep ==
    ASSUME NEW a, NEW b, Len(a) \in Nat, Len(b) \in Nat, NEW i \in 1 .. Len(a), NEW j \in 1 .. Len(b)
    PROVE  Reached(Lev(a, b, i, j), Lev(a, b, i - 1, j), Lev(a, b, i, j - 1),
                   Lev(a, b, i - 1, j - 1), a[i] = b[j])
<1> DEFINE here == Lev(a, b, i, j)
           up == Lev(a, b, i - 1, j)
           left == Lev(a, b, i, j - 1)
           across == Lev(a, b, i - 1, j - 1)
           c == IF a[i] = b[j] THEN 0 ELSE 1
<1>1. /\ i - 1 \in 0 .. Len(a) /\ j - 1 \in 0 .. Len(b)
      /\ i \in 0 .. Len(a) /\ j \in 0 .. Len(b) /\ i # 0 /\ j # 0
  OBVIOUS
<1>2. here \in Nat /\ up \in Nat /\ left \in Nat /\ across \in Nat
  BY <1>1, LevIs
<1>3. here = Least(Least(up + 1, left + 1), across + c)
  BY <1>1, LevIs
<1>4. c \in {0, 1} /\ (a[i] = b[j] => c = 0) /\ (a[i] # b[j] => c = 1)
  OBVIOUS
<1> HIDE DEF here, up, left, across, c
<1>5. /\ up + 1 \in Nat /\ left + 1 \in Nat /\ across + c \in Nat
  BY <1>2, <1>4
<1>6. /\ here <= up + 1 /\ here <= left + 1 /\ here <= across + c
      /\ here = up + 1 \/ here = left + 1 \/ here = across + c
  BY <1>3, <1>5 DEF Least
<1>7. here <= across + 1
  BY <1>2, <1>4, <1>6
<1>8. a[i] = b[j] => here <= across
  BY <1>2, <1>4, <1>6
<1>9. \/ here = up + 1
      \/ here = left + 1
      \/ a[i] = b[j] /\ here = across
      \/ a[i] # b[j] /\ here = across + 1
  BY <1>2, <1>4, <1>6
<1>. QED
  BY <1>2, <1>6, <1>7, <1>8, <1>9 DEF here, up, left, across, Reached

\* Induction over the cells of a matrix.
LEMMA GridInduction ==
    ASSUME NEW m \in Nat, NEW n \in Nat, NEW good,
           \A i \in 0 .. m : \A j \in 0 .. n :
              (\A k \in 0 .. m : \A l \in 0 .. n : k + l < i + j => <<k, l>> \in good)
              => <<i, j>> \in good
    PROVE  \A i \in 0 .. m : \A j \in 0 .. n : <<i, j>> \in good
<1> DEFINE level == {s \in Nat : \A i \in 0 .. m : \A j \in 0 .. n : i + j = s => <<i, j>> \in good}
           same == [s \in Nat |-> s]
<1>1. ASSUME NEW s \in Nat, \A r \in Nat : same[r] < same[s] => r \in level,
             NEW i \in 0 .. m, NEW j \in 0 .. n, i + j = s
      PROVE  <<i, j>> \in good
  <2>1. ASSUME NEW k \in 0 .. m, NEW l \in 0 .. n, k + l < i + j
        PROVE  <<k, l>> \in good
    <3>1. k + l \in Nat /\ same[k + l] < same[s]
      BY <1>1, <2>1
    <3>2. k + l \in level
      BY <1>1, <3>1
    <3>. QED
      BY <3>2
  <2>. QED
    BY <2>1
<1>2. \A s \in Nat : (\A r \in Nat : same[r] < same[s] => r \in level) => s \in level
  BY <1>1
<1>3. same \in [Nat -> Nat]
  OBVIOUS
<1>4. Nat \subseteq level
  <2> HIDE DEF level, same
  <2>. QED
    BY <1>2, <1>3, Induction DEF Inductive
<1>5. \A i \in 0 .. m : \A j \in 0 .. n : i + j \in Nat
  OBVIOUS
<1>. QED
  BY <1>4, <1>5

\* Two lists differ by at least their lengths.
LEMMA LevGap ==
    ASSUME NEW a, NEW b, Len(a) \in Nat, Len(b) \in Nat
    PROVE  \A i \in 0 .. Len(a) : \A j \in 0 .. Len(b) : j <= i + Lev(a, b, i, j)
<1> DEFINE m == Len(a)
           n == Len(b)
           good == {c \in (0 .. m) \X (0 .. n) : c[2] <= c[1] + Lev(a, b, c[1], c[2])}
<1>1. ASSUME NEW i \in 0 .. m, NEW j \in 0 .. n,
             \A k \in 0 .. m : \A l \in 0 .. n : k + l < i + j => <<k, l>> \in good
      PROVE  j <= i + Lev(a, b, i, j)
  <2>1. CASE i = 0 \/ j = 0
    BY <2>1, LevIs
  <2>2. CASE i # 0 /\ j # 0
    <3>1. i \in 1 .. m /\ j \in 1 .. n
      BY <2>2
    <3>2. <<i - 1, j>> \in good /\ <<i, j - 1>> \in good /\ <<i - 1, j - 1>> \in good
      BY <1>1, <3>1
    <3> DEFINE here == Lev(a, b, i, j)
               up == Lev(a, b, i - 1, j)
               left == Lev(a, b, i, j - 1)
               across == Lev(a, b, i - 1, j - 1)
    <3>3. /\ j <= (i - 1) + up
          /\ j - 1 <= i + left
          /\ j - 1 <= (i - 1) + across
      BY <3>2
    <3>4. Reached(here, up, left, across, a[i] = b[j])
      BY <3>1, LevStep
    <3> HIDE DEF here, up, left, across
    <3>5. j <= i + here
      BY <3>1, <3>3, <3>4 DEF Reached
    <3>. QED
      BY <3>5 DEF here
  <2>. QED
    BY <2>1, <2>2
<1>2. \A i \in 0 .. m : \A j \in 0 .. n : <<i, j>> \in good
  <2>1. \A i \in 0 .. m : \A j \in 0 .. n :
           (\A k \in 0 .. m : \A l \in 0 .. n : k + l < i + j => <<k, l>> \in good)
           => <<i, j>> \in good
    BY <1>1
  <2>2. m \in Nat /\ n \in Nat
    OBVIOUS
  <2> HIDE DEF good, m, n
  <2>. QED
    BY <2>1, <2>2, GridInduction
<1>. QED
  BY <1>2

\* At distance 0 the lists are equal.
LEMMA LevZero ==
    ASSUME NEW a, NEW b, Len(a) \in Nat, Len(b) \in Nat
    PROVE  \A i \in 0 .. Len(a) : \A j \in 0 .. Len(b) :
              Lev(a, b, i, j) = 0 => i = j /\ \A t \in 1 .. i : a[t] = b[t]
<1> DEFINE m == Len(a)
           n == Len(b)
           P(i, j) == Lev(a, b, i, j) = 0 => i = j /\ \A t \in 1 .. i : a[t] = b[t]
           good == {c \in (0 .. m) \X (0 .. n) : P(c[1], c[2])}
<1>1. ASSUME NEW i \in 0 .. m, NEW j \in 0 .. n,
             \A k \in 0 .. m : \A l \in 0 .. n : k + l < i + j => <<k, l>> \in good,
             Lev(a, b, i, j) = 0
      PROVE  i = j /\ \A t \in 1 .. i : a[t] = b[t]
  <2>1. CASE i = 0 \/ j = 0
    BY <1>1, <2>1, LevIs
  <2>2. CASE i # 0 /\ j # 0
    <3>1. i \in 1 .. m /\ j \in 1 .. n
      BY <2>2
    <3>2. <<i - 1, j - 1>> \in good
      BY <1>1, <3>1
    <3>3. P(i - 1, j - 1)
      BY <3>2
    <3>4. a[i] = b[j] /\ Lev(a, b, i - 1, j - 1) = 0
      <4>1. Reached(Lev(a, b, i, j), Lev(a, b, i - 1, j), Lev(a, b, i, j - 1),
                    Lev(a, b, i - 1, j - 1), a[i] = b[j])
        BY <3>1, LevStep
      <4>. QED
        BY <1>1, <4>1 DEF Reached
    <3>5. i - 1 = j - 1 /\ \A t \in 1 .. i - 1 : a[t] = b[t]
      BY <3>3, <3>4
    <3>6. i = j
      BY <3>5
    <3>7. \A t \in 1 .. i : t = i \/ t \in 1 .. i - 1
      OBVIOUS
    <3>. QED
      BY <3>4, <3>5, <3>6, <3>7
  <2>. QED
    BY <2>1, <2>2
<1>2. \A i \in 0 .. m : \A j \in 0 .. n : <<i, j>> \in good
  <2>1. \A i \in 0 .. m : \A j \in 0 .. n :
           (\A k \in 0 .. m : \A l \in 0 .. n : k + l < i + j => <<k, l>> \in good)
           => <<i, j>> \in good
    BY <1>1, ZenonT(60)
  <2>2. m \in Nat /\ n \in Nat
    OBVIOUS
  <2> HIDE DEF good, m, n
  <2>. QED
    BY <2>1, <2>2, GridInduction
<1>. QED
  BY <1>2

LEMMA LevSame ==
    ASSUME NEW a, Len(a) \in Nat
    PROVE  \A i \in 0 .. Len(a) : Lev(a, a, i, i) = 0
<1> DEFINE D == 0 .. Len(a)
           m == [i \in D |-> i]
           good == {i \in D : Lev(a, a, i, i) = 0}
<1>1. ASSUME NEW i \in D, \A k \in D : m[k] < m[i] => k \in good
      PROVE  Lev(a, a, i, i) = 0
  <2>1. CASE i = 0
    BY <2>1, LevIs
  <2>2. CASE i # 0
    <3>1. i \in 1 .. Len(a) /\ i - 1 \in D /\ m[i - 1] < m[i]
      BY <2>2
    <3>2. Lev(a, a, i - 1, i - 1) = 0
      BY <1>1, <3>1
    <3>3. Reached(Lev(a, a, i, i), Lev(a, a, i - 1, i), Lev(a, a, i, i - 1),
                  Lev(a, a, i - 1, i - 1), a[i] = a[i])
      BY <3>1, LevStep
    <3>. QED
      BY <3>2, <3>3 DEF Reached
  <2>. QED
    BY <2>1, <2>2
<1>2. \A i \in D : (\A k \in D : m[k] < m[i] => k \in good) => i \in good
  BY <1>1
<1>3. m \in [D -> Nat]
  OBVIOUS
<1>4. D \subseteq good
  <2> HIDE DEF D, m, good
  <2>. QED
    BY <1>2, <1>3, Induction DEF Inductive
<1>. QED
  BY <1>4

LEMMA LevSymmetric ==
    ASSUME NEW a, NEW b, Len(a) \in Nat, Len(b) \in Nat
    PROVE  \A i \in 0 .. Len(a) : \A j \in 0 .. Len(b) : Lev(a, b, i, j) = Lev(b, a, j, i)
<1> DEFINE m == Len(a)
           n == Len(b)
           good == {c \in (0 .. m) \X (0 .. n) : Lev(a, b, c[1], c[2]) = Lev(b, a, c[2], c[1])}
<1>1. ASSUME NEW i \in 0 .. m, NEW j \in 0 .. n,
             \A k \in 0 .. m : \A l \in 0 .. n : k + l < i + j => <<k, l>> \in good
      PROVE  Lev(a, b, i, j) = Lev(b, a, j, i)
  <2>1. CASE i = 0 \/ j = 0
    BY <2>1, LevIs
  <2>2. CASE i # 0 /\ j # 0
    <3>1. i \in 1 .. m /\ j \in 1 .. n
      BY <2>2
    <3>2. <<i - 1, j>> \in good /\ <<i, j - 1>> \in good /\ <<i - 1, j - 1>> \in good
      BY <1>1, <3>1
    <3>3. /\ Lev(a, b, i - 1, j) = Lev(b, a, j, i - 1)
          /\ Lev(a, b, i, j - 1) = Lev(b, a, j - 1, i)
          /\ Lev(a, b, i - 1, j - 1) = Lev(b, a, j - 1, i - 1)
      BY <3>2
    <3>4. Reached(Lev(a, b, i, j), Lev(a, b, i - 1, j), Lev(a, b, i, j - 1),
                  Lev(a, b, i - 1, j - 1), a[i] = b[j])
      BY <3>1, LevStep
    <3>5. Reached(Lev(b, a, j, i), Lev(b, a, j - 1, i), Lev(b, a, j, i - 1),
                  Lev(b, a, j - 1, i - 1), b[j] = a[i])
      BY <3>1, LevStep
    <3>. QED
      BY <3>3, <3>4, <3>5 DEF Reached
  <2>. QED
    BY <2>1, <2>2
<1>2. \A i \in 0 .. m : \A j \in 0 .. n : <<i, j>> \in good
  <2>1. \A i \in 0 .. m : \A j \in 0 .. n :
           (\A k \in 0 .. m : \A l \in 0 .. n : k + l < i + j => <<k, l>> \in good)
           => <<i, j>> \in good
    BY <1>1
  <2>2. m \in Nat /\ n \in Nat
    OBVIOUS
  <2> HIDE DEF good, m, n
  <2>. QED
    BY <2>1, <2>2, GridInduction
<1>. QED
  BY <1>2

\* One character less is at most one edit nearer.
LEMMA LevDown ==
    ASSUME NEW a, NEW b, Len(a) \in Nat, Len(b) \in Nat, NEW i \in 1 .. Len(a)
    PROVE  \A j \in 0 .. Len(b) : Lev(a, b, i - 1, j) <= Lev(a, b, i, j) + 1
<1> DEFINE D == 0 .. Len(b)
           m == [j \in D |-> j]
           good == {j \in D : Lev(a, b, i - 1, j) <= Lev(a, b, i, j) + 1}
<1>1. ASSUME NEW j \in D, \A k \in D : m[k] < m[j] => k \in good
      PROVE  Lev(a, b, i - 1, j) <= Lev(a, b, i, j) + 1
  <2>0. i - 1 \in 0 .. Len(a) /\ i \in 0 .. Len(a)
    OBVIOUS
  <2>1. CASE j = 0
    BY <2>0, <2>1, LevIs
  <2>2. CASE j # 0
    <3>1. j \in 1 .. Len(b) /\ j - 1 \in D /\ m[j - 1] < m[j]
      BY <2>2
    <3>2. Lev(a, b, i - 1, j - 1) <= Lev(a, b, i, j - 1) + 1
      BY <1>1, <3>1
    <3>3. Lev(a, b, i - 1, j) <= Lev(a, b, i - 1, j - 1) + 1
      <4>1. CASE i = 1
        <5>1. Lev(a, b, i - 1, j) = j /\ Lev(a, b, i - 1, j - 1) = j - 1
          BY <2>0, <3>1, <4>1, LevIs
        <5>. QED
          BY <5>1
      <4>2. CASE i # 1
        <5>1. i - 1 \in 1 .. Len(a)
          BY <4>2
        <5>2. Reached(Lev(a, b, i - 1, j), Lev(a, b, (i - 1) - 1, j), Lev(a, b, i - 1, j - 1),
                      Lev(a, b, (i - 1) - 1, j - 1), a[i - 1] = b[j])
          BY <3>1, <5>1, LevStep
        <5>. QED
          BY <5>2 DEF Reached
      <4>. QED
        BY <4>1, <4>2
    <3> DEFINE here == Lev(a, b, i, j)
               up == Lev(a, b, i - 1, j)
               left == Lev(a, b, i, j - 1)
               across == Lev(a, b, i - 1, j - 1)
    <3>4. Reached(here, up, left, across, a[i] = b[j])
      BY <3>1, LevStep
    <3>5. across <= left + 1 /\ up <= across + 1
      BY <3>2, <3>3
    <3> HIDE DEF here, up, left, across
    <3>6. up <= here + 1
      BY <3>4, <3>5 DEF Reached
    <3>. QED
      BY <3>6 DEF here, up
  <2>. QED
    BY <2>1, <2>2
<1>2. \A j \in D : (\A k \in D : m[k] < m[j] => k \in good) => j \in good
  BY <1>1
<1>3. m \in [D -> Nat]
  OBVIOUS
<1>4. D \subseteq good
  <2> HIDE DEF D, m, good
  <2>. QED
    BY <1>2, <1>3, Induction DEF Inductive
<1>. QED
  BY <1>4

\* The distance of prefixes depends on the prefixes only.
LEMMA LevPrefix ==
    ASSUME NEW a, NEW x, NEW b, Len(a) \in Nat, Len(x) \in Nat, Len(b) \in Nat,
           NEW p \in 0 .. Len(a), p <= Len(x), \A t \in 1 .. p : a[t] = x[t]
    PROVE  \A i \in 0 .. p : \A j \in 0 .. Len(b) : Lev(a, b, i, j) = Lev(x, b, i, j)
<1> DEFINE n == Len(b)
           good == {c \in (0 .. p) \X (0 .. n) : Lev(a, b, c[1], c[2]) = Lev(x, b, c[1], c[2])}
<1>1. ASSUME NEW i \in 0 .. p, NEW j \in 0 .. n,
             \A k \in 0 .. p : \A l \in 0 .. n : k + l < i + j => <<k, l>> \in good
      PROVE  Lev(a, b, i, j) = Lev(x, b, i, j)
  <2>0. i \in 0 .. Len(a) /\ i \in 0 .. Len(x)
    OBVIOUS
  <2>1. CASE i = 0 \/ j = 0
    <3>1. i = 0 => Lev(a, b, i, j) = j /\ Lev(x, b, i, j) = j
      BY <2>0, LevIs
    <3>2. j = 0 => Lev(a, b, i, j) = i /\ Lev(x, b, i, j) = i
      BY <2>0, LevIs
    <3>. QED
      BY <2>1, <3>1, <3>2
  <2>2. CASE i # 0 /\ j # 0
    <3>1. i \in 1 .. p /\ j \in 1 .. n /\ i \in 1 .. Len(a) /\ i \in 1 .. Len(x)
      BY <2>2
    <3>2. <<i - 1, j>> \in good /\ <<i, j - 1>> \in good /\ <<i - 1, j - 1>> \in good
      BY <1>1, <3>1
    <3>3. /\ Lev(a, b, i - 1, j) = Lev(x, b, i - 1, j)
          /\ Lev(a, b, i, j - 1) = Lev(x, b, i, j - 1)
          /\ Lev(a, b, i - 1, j - 1) = Lev(x, b, i - 1, j - 1)
      BY <3>2
    <3>4. a[i] = x[i]
      BY <3>1
    <3>5. Reached(Lev(a, b, i, j), Lev(a, b, i - 1, j), Lev(a, b, i, j - 1),
                  Lev(a, b, i - 1, j - 1), a[i] = b[j])
      BY <3>1, LevStep
    <3>6. Reached(Lev(x, b, i, j), Lev(x, b, i - 1, j), Lev(x, b, i, j - 1),
                  Lev(x, b, i - 1, j - 1), x[i] = b[j])
      BY <3>1, LevStep
    <3>. QED
      BY <3>3, <3>4, <3>5, <3>6, SMTT(30) DEF Reached
  <2>. QED
    BY <2>1, <2>2
<1>2. \A i \in 0 .. p : \A j \in 0 .. n : <<i, j>> \in good
  <2>1. \A i \in 0 .. p : \A j \in 0 .. n :
           (\A k \in 0 .. p : \A l \in 0 .. n : k + l < i + j => <<k, l>> \in good)
           => <<i, j>> \in good
    BY <1>1
  <2>2. p \in Nat /\ n \in Nat
    OBVIOUS
  <2> HIDE DEF good, n
  <2>. QED
    BY <2>1, <2>2, GridInduction
<1>. QED
  BY <1>2

\* What follows places p of x and q of y is the same.
SameAfter(x, p, y, q) ==
    /\ Len(x) - p = Len(y) - q
    /\ \A t \in 1 .. Len(x) - p : x[p + t] = y[q + t]

\* Lists that go on alike stay as near to a third one as they were.
LEMMA LevAfter ==
    ASSUME NEW x, NEW y, NEW z, Len(x) \in Nat, Len(y) \in Nat, Len(z) \in Nat,
           NEW p \in 0 .. Len(x), NEW q \in 0 .. Len(y), SameAfter(x, p, y, q),
           \A j \in 0 .. Len(z) : Lev(x, z, p, j) <= Lev(y, z, q, j) + 1
    PROVE  Lev(x, z, Len(x), Len(z)) <= Lev(y, z, Len(y), Len(z)) + 1
<1> DEFINE m == Len(x) - p
           n == Len(z)
           P(t, j) == Lev(x, z, p + t, j) <= Lev(y, z, q + t, j) + 1
           good == {c \in (0 .. m) \X (0 .. n) : P(c[1], c[2])}
<1>0. m \in Nat /\ n \in Nat /\ m = Len(y) - q
  BY DEF SameAfter
<1>1. ASSUME NEW t \in 0 .. m, NEW j \in 0 .. n,
             \A k \in 0 .. m : \A l \in 0 .. n : k + l < t + j => <<k, l>> \in good
      PROVE  P(t, j)
  <2>1. CASE t = 0
    <3>1. p + t = p /\ q + t = q
      BY <2>1
    <3>. QED
      BY <3>1
  <2>2. CASE j = 0
    <3>1. p + t \in 0 .. Len(x) /\ q + t \in 0 .. Len(y)
      BY <1>0
    <3>2. p <= q + 1
      <4>1. Lev(x, z, p, 0) = p /\ Lev(y, z, q, 0) = q /\ 0 \in 0 .. Len(z)
        BY LevIs
      <4>2. Lev(x, z, p, 0) <= Lev(y, z, q, 0) + 1
        BY <4>1
      <4>. QED
        BY <4>1, <4>2
    <3>3. Lev(x, z, p + t, j) = p + t /\ Lev(y, z, q + t, j) = q + t
      BY <2>2, <3>1, LevIs
    <3>. QED
      BY <3>2, <3>3
  <2>3. CASE t # 0 /\ j # 0
    <3>1. /\ p + t \in 1 .. Len(x) /\ q + t \in 1 .. Len(y) /\ j \in 1 .. Len(z)
          /\ t \in 1 .. m /\ t - 1 \in 0 .. m /\ j - 1 \in 0 .. n
      BY <1>0, <2>3
    <3>2. <<t - 1, j>> \in good /\ <<t, j - 1>> \in good /\ <<t - 1, j - 1>> \in good
      <4>1. t - 1 + j < t + j /\ t + (j - 1) < t + j /\ t - 1 + (j - 1) < t + j
        BY <1>0, <3>1
      <4> HIDE DEF good, m, n
      <4>. QED
        BY <1>1, <3>1, <4>1
    <3>3. /\ p + (t - 1) = (p + t) - 1
          /\ q + (t - 1) = (q + t) - 1
      BY <3>1
    <3>4. P(t - 1, j) /\ P(t, j - 1) /\ P(t - 1, j - 1)
      BY <3>2
    <3> DEFINE hx == Lev(x, z, p + t, j)
               ux == Lev(x, z, (p + t) - 1, j)
               lx == Lev(x, z, p + t, j - 1)
               ax == Lev(x, z, (p + t) - 1, j - 1)
               hy == Lev(y, z, q + t, j)
               uy == Lev(y, z, (q + t) - 1, j)
               ly == Lev(y, z, q + t, j - 1)
               ay == Lev(y, z, (q + t) - 1, j - 1)
    <3>5. ux <= uy + 1 /\ lx <= ly + 1 /\ ax <= ay + 1
      BY <3>3, <3>4
    <3>6. Reached(hx, ux, lx, ax, x[p + t] = z[j])
      BY <3>1, LevStep
    <3>7. Reached(hy, uy, ly, ay, y[q + t] = z[j])
      BY <3>1, LevStep
    <3>8. x[p + t] = y[q + t]
      BY <3>1 DEF SameAfter
    <3> HIDE DEF hx, ux, lx, ax, hy, uy, ly, ay
    <3>9. hx <= hy + 1
      BY <3>5, <3>6, <3>7, <3>8 DEF Reached
    <3>. QED
      BY <3>9 DEF hx, hy
  <2>. QED
    BY <2>1, <2>2, <2>3
<1>2. \A t \in 0 .. m : \A j \in 0 .. n : <<t, j>> \in good
  <2>1. \A i \in 0 .. m : \A j \in 0 .. n :
           (\A k \in 0 .. m : \A l \in 0 .. n : k + l < i + j => <<k, l>> \in good)
           => <<i, j>> \in good
    BY <1>1
  <2> HIDE DEF good, m, n
  <2>. QED
    BY <1>0, <2>1, GridInduction
<1>3. P(m, n)
  <2>1. m \in 0 .. m /\ n \in 0 .. n
    BY <1>0
  <2>2. <<m, n>> \in good
    BY <1>2, <2>1
  <2>. QED
    BY <2>2
<1>4. p + m = Len(x) /\ q + m = Len(y)
  BY <1>0
<1>. QED
  BY <1>3, <1>4

\* Lists that end alike are as near as what comes before.
LEMMA LevDiagonal ==
    ASSUME NEW y, NEW z, Len(y) \in Nat, Len(z) \in Nat,
           NEW p \in 0 .. Len(y), NEW q \in 0 .. Len(z), SameAfter(y, p, z, q)
    PROVE  Lev(y, z, Len(y), Len(z)) <= Lev(y, z, p, q)
<1> DEFINE D == 0 .. Len(y) - p
           m == [t \in D |-> t]
           good == {t \in D : Lev(y, z, p + t, q + t) <= Lev(y, z, p, q)}
<1>0. Len(y) - p \in Nat /\ Len(y) - p = Len(z) - q
  BY DEF SameAfter
<1>1. ASSUME NEW t \in D, \A k \in D : m[k] < m[t] => k \in good
      PROVE  Lev(y, z, p + t, q + t) <= Lev(y, z, p, q)
  <2>1. CASE t = 0
    <3>1. p + t = p /\ q + t = q
      BY <2>1
    <3>2. Lev(y, z, p, q) \in Nat
      BY LevIs
    <3>. QED
      BY <3>1, <3>2
  <2>2. CASE t # 0
    <3>1. /\ p + t \in 1 .. Len(y) /\ q + t \in 1 .. Len(z) /\ t - 1 \in D /\ m[t - 1] < m[t]
          /\ t \in 1 .. Len(y) - p
      BY <1>0, <2>2
    <3>2. p + (t - 1) = (p + t) - 1 /\ q + (t - 1) = (q + t) - 1
      BY <3>1
    <3>3. Lev(y, z, (p + t) - 1, (q + t) - 1) <= Lev(y, z, p, q)
      BY <1>1, <3>1, <3>2
    <3>4. y[p + t] = z[q + t]
      BY <3>1 DEF SameAfter
    <3>5. Reached(Lev(y, z, p + t, q + t), Lev(y, z, (p + t) - 1, q + t),
                  Lev(y, z, p + t, (q + t) - 1), Lev(y, z, (p + t) - 1, (q + t) - 1),
                  y[p + t] = z[q + t])
      BY <3>1, LevStep
    <3>6. Lev(y, z, p, q) \in Nat
      BY LevIs
    <3>. QED
      BY <3>3, <3>4, <3>5, <3>6 DEF Reached
  <2>. QED
    BY <2>1, <2>2
<1>2. \A t \in D : (\A k \in D : m[k] < m[t] => k \in good) => t \in good
  BY <1>1
<1>3. m \in [D -> Nat]
  OBVIOUS
<1>4. D \subseteq good
  <2> HIDE DEF D, m, good
  <2>. QED
    BY <1>2, <1>3, Induction DEF Inductive
<1>5. Len(y) - p \in D /\ p + (Len(y) - p) = Len(y) /\ q + (Len(y) - p) = Len(z)
  BY <1>0
<1>. QED
  BY <1>4, <1>5

\* An edit keeps what comes before its place and what comes after.
LEMMA Parts ==
    ASSUME NEW x, IsText(x), NEW i \in 1 .. Len(x) + 1
    PROVE  /\ SubSeq(x, 1, i - 1) \in Seq(Char) /\ Len(SubSeq(x, 1, i - 1)) = i - 1
           /\ \A t \in 1 .. i - 1 : SubSeq(x, 1, i - 1)[t] = x[t]
           /\ SubSeq(x, i, Len(x)) \in Seq(Char) /\ Len(SubSeq(x, i, Len(x))) = Len(x) + 1 - i
           /\ \A t \in 1 .. Len(x) + 1 - i : SubSeq(x, i, Len(x))[t] = x[i + t - 1]
<1>1. Len(x) \in Nat /\ \A t \in 1 .. Len(x) : x[t] \in Char
  BY LenProperties, ElementOfSeq DEF IsText
<1>2. /\ SubSeq(x, 1, i - 1) \in Seq(Char)
      /\ Len(SubSeq(x, 1, i - 1)) = (IF 1 <= i - 1 THEN i - 1 - 1 + 1 ELSE 0)
      /\ \A t \in 1 .. i - 1 - 1 + 1 : SubSeq(x, 1, i - 1)[t] = x[1 + t - 1]
  <2>1. 1 \in Int /\ i - 1 \in Int /\ \A t \in 1 .. i - 1 : x[t] \in Char
    BY <1>1
  <2> HIDE DEF IsText
  <2>. QED
    BY <2>1, SubSeqProperties
<1>3. /\ SubSeq(x, i, Len(x)) \in Seq(Char)
      /\ Len(SubSeq(x, i, Len(x))) = (IF i <= Len(x) THEN Len(x) - i + 1 ELSE 0)
      /\ \A t \in 1 .. Len(x) - i + 1 : SubSeq(x, i, Len(x))[t] = x[i + t - 1]
  <2>1. i \in Int /\ Len(x) \in Int /\ \A t \in i .. Len(x) : x[t] \in Char
    BY <1>1
  <2>. QED
    BY <2>1, SubSeqProperties
<1>4. /\ i - 1 - 1 + 1 = i - 1 /\ Len(x) - i + 1 = Len(x) + 1 - i
      /\ \A t \in 1 .. i - 1 : 1 + t - 1 = t
  BY <1>1
<1>5. Len(SubSeq(x, 1, i - 1)) = i - 1 /\ Len(SubSeq(x, i, Len(x))) = Len(x) + 1 - i
  BY <1>1, <1>2, <1>3
<1>. QED
  BY <1>2, <1>3, <1>4, <1>5

LEMMA RemoveIs ==
    ASSUME NEW x, IsText(x), NEW i \in 1 .. Len(x)
    PROVE  LET y == RemoveAt(x, i)
           IN /\ IsText(y) /\ Len(y) = Len(x) - 1
              /\ \A t \in 1 .. i - 1 : y[t] = x[t]
              /\ SameAfter(x, i, y, i - 1)
<1> DEFINE u == SubSeq(x, 1, i - 1)
           v == SubSeq(x, i + 1, Len(x))
           y == RemoveAt(x, i)
<1>1. Len(x) \in Nat /\ i \in 1 .. Len(x) + 1 /\ i + 1 \in 1 .. Len(x) + 1
  BY LenProperties DEF IsText
<1>2. u \in Seq(Char) /\ Len(u) = i - 1 /\ \A t \in 1 .. i - 1 : u[t] = x[t]
  BY <1>1, Parts
<1>3. /\ v \in Seq(Char) /\ Len(v) = Len(x) + 1 - (i + 1)
      /\ \A t \in 1 .. Len(x) + 1 - (i + 1) : v[t] = x[i + 1 + t - 1]
  BY <1>1, Parts
<1>4. y = u \o v
  BY DEF RemoveAt
<1> HIDE DEF u, v, y
<1>5. /\ y \in Seq(Char) /\ Len(y) = Len(u) + Len(v)
      /\ \A t \in 1 .. Len(u) + Len(v) : y[t] = IF t <= Len(u) THEN u[t] ELSE v[t - Len(u)]
  BY <1>2, <1>3, <1>4, ConcatProperties
<1>6. Len(y) = Len(x) - 1
  BY <1>1, <1>2, <1>3, <1>5
<1>7. ASSUME NEW t \in 1 .. i - 1 PROVE y[t] = x[t]
  <2>1. t \in 1 .. Len(u) + Len(v) /\ t <= Len(u)
    BY <1>1, <1>2, <1>3
  <2>. QED
    BY <1>2, <1>5, <2>1
<1>8. ASSUME NEW t \in 1 .. Len(x) - i PROVE x[i + t] = y[i - 1 + t]
  <2>1. /\ i - 1 + t \in 1 .. Len(u) + Len(v) /\ ~ (i - 1 + t <= Len(u))
        /\ i - 1 + t - Len(u) = t /\ t \in 1 .. Len(x) + 1 - (i + 1)
        /\ i + 1 + t - 1 = i + t
    BY <1>1, <1>2, <1>3
  <2>2. y[i - 1 + t] = v[t]
    <3> DEFINE n == i - 1 + t
    <3>1. n \in 1 .. Len(u) + Len(v) /\ ~ (n <= Len(u)) /\ n - Len(u) = t
      BY <2>1
    <3> HIDE DEF n
    <3>2. y[n] = v[n - Len(u)]
      BY <1>5, <3>1
    <3>. QED
      BY <3>1, <3>2 DEF n
  <2>3. v[t] = x[i + t]
    BY <1>3, <2>1
  <2>. QED
    BY <2>2, <2>3
<1>9. Len(x) - i = Len(y) - (i - 1)
  BY <1>1, <1>6
<1>. QED
  BY <1>5, <1>6, <1>7, <1>8, <1>9 DEF IsText, SameAfter, y

LEMMA Single ==
    ASSUME NEW S, NEW c \in S
    PROVE  <<c>> \in Seq(S) /\ Len(<<c>>) = 1 /\ <<c>>[1] = c
  OBVIOUS

LEMMA InsertIs ==
    ASSUME NEW x, IsText(x), NEW i \in 1 .. Len(x) + 1, NEW c \in Char
    PROVE  LET y == InsertAt(x, i, c)
           IN /\ IsText(y) /\ Len(y) = Len(x) + 1
              /\ \A t \in 1 .. i - 1 : y[t] = x[t]
              /\ y[i] = c
              /\ SameAfter(x, i - 1, y, i)
<1> DEFINE u == SubSeq(x, 1, i - 1)
           v == SubSeq(x, i, Len(x))
           w == u \o <<c>>
           y == InsertAt(x, i, c)
<1>1. Len(x) \in Nat
  BY LenProperties DEF IsText
<1>2. u \in Seq(Char) /\ Len(u) = i - 1 /\ \A t \in 1 .. i - 1 : u[t] = x[t]
  BY <1>1, Parts
<1>3. /\ v \in Seq(Char) /\ Len(v) = Len(x) + 1 - i
      /\ \A t \in 1 .. Len(x) + 1 - i : v[t] = x[i + t - 1]
  BY <1>1, Parts
<1>4. y = w \o v
  BY DEF InsertAt
<1>5. <<c>> \in Seq(Char) /\ Len(<<c>>) = 1 /\ <<c>>[1] = c
  BY Single
<1> HIDE DEF u, v, y
<1>6. /\ w \in Seq(Char) /\ Len(w) = Len(u) + Len(<<c>>)
      /\ \A t \in 1 .. Len(u) + Len(<<c>>) : w[t] = IF t <= Len(u) THEN u[t] ELSE <<c>>[t - Len(u)]
  BY <1>2, <1>5, ConcatProperties
<1> HIDE DEF w
<1>7. w \in Seq(Char) /\ Len(w) = i
  BY <1>1, <1>2, <1>5, <1>6
<1>8. /\ y \in Seq(Char) /\ Len(y) = Len(w) + Len(v)
      /\ \A t \in 1 .. Len(w) + Len(v) : y[t] = IF t <= Len(w) THEN w[t] ELSE v[t - Len(w)]
  <2>1. w \in Seq(Char) /\ v \in Seq(Char)
    BY <1>3, <1>7
  <2>. QED
    BY <1>4, <2>1, ConcatProperties
<1>9. Len(y) = Len(x) + 1
  BY <1>1, <1>3, <1>7, <1>8
<1>10. ASSUME NEW t \in 1 .. i - 1 PROVE y[t] = x[t]
  <2>1. /\ t \in 1 .. Len(w) + Len(v) /\ t <= Len(w)
        /\ t \in 1 .. Len(u) + Len(<<c>>) /\ t <= Len(u)
    BY <1>1, <1>2, <1>3, <1>5, <1>7
  <2>2. y[t] = w[t] /\ w[t] = u[t]
    BY <1>6, <1>8, <2>1
  <2>. QED
    BY <1>2, <2>2
<1>11. y[i] = c
  <2>1. /\ i \in 1 .. Len(w) + Len(v) /\ i <= Len(w)
        /\ i \in 1 .. Len(u) + Len(<<c>>) /\ ~ (i <= Len(u)) /\ i - Len(u) = 1
    BY <1>1, <1>2, <1>3, <1>5, <1>7
  <2>2. y[i] = w[i] /\ w[i] = <<c>>[1]
    BY <1>6, <1>8, <2>1
  <2>. QED
    BY <1>5, <2>2
<1>12. ASSUME NEW t \in 1 .. Len(x) - (i - 1) PROVE x[i - 1 + t] = y[i + t]
  <2>1. /\ i + t \in 1 .. Len(w) + Len(v) /\ ~ (i + t <= Len(w)) /\ i + t - Len(w) = t
        /\ t \in 1 .. Len(x) + 1 - i /\ i + t - 1 = i - 1 + t
    BY <1>1, <1>3, <1>7
  <2>2. y[i + t] = v[t]
    BY <1>8, <2>1, SMTT(30)
  <2>3. v[t] = x[i - 1 + t]
    BY <1>3, <2>1
  <2>. QED
    BY <2>2, <2>3
<1>13. Len(x) - (i - 1) = Len(y) - i
  BY <1>1, <1>9
<1>. QED
  BY <1>8, <1>9, <1>10, <1>11, <1>12, <1>13 DEF IsText, SameAfter, y

Replaced(x, i, c) == [x EXCEPT ![i] = c]

LEMMA ReplaceIs ==
    ASSUME NEW x, IsText(x), NEW i \in 1 .. Len(x), NEW c \in Char
    PROVE  LET y == Replaced(x, i, c)
           IN /\ IsText(y) /\ Len(y) = Len(x)
              /\ \A t \in 1 .. i - 1 : y[t] = x[t]
              /\ y[i] = c
              /\ SameAfter(x, i, y, i)
<1> DEFINE y == Replaced(x, i, c)
<1>1. Len(x) \in Nat
  BY LenProperties DEF IsText
<1>2. /\ y \in Seq(Char) /\ Len(y) = Len(x)
      /\ \A t \in 1 .. Len(x) : y[t] = IF t = i THEN c ELSE x[t]
  <2> DEFINE n == Len(x)
  <2>1. x \in [1 .. n -> Char] /\ n \in Nat
    BY LenProperties DEF IsText
  <2> HIDE DEF n
  <2>2. y \in [1 .. n -> Char] /\ \A t \in 1 .. n : y[t] = IF t = i THEN c ELSE x[t]
    BY <2>1 DEF Replaced
  <2> HIDE DEF y
  <2>3. y \in Seq(Char) /\ Len(y) = n
    BY <2>1, <2>2
  <2>. QED
    BY <2>2, <2>3 DEF n
<1> HIDE DEF y
<1>3. \A t \in 1 .. i - 1 : t \in 1 .. Len(x) /\ t # i
  BY <1>1
<1>4. \A t \in 1 .. Len(x) - i : i + t \in 1 .. Len(x) /\ i + t # i
  BY <1>1
<1>5. y[i] = c
  BY <1>2
<1>6. \A t \in 1 .. i - 1 : y[t] = x[t]
  BY <1>2, <1>3
<1>7. SameAfter(x, i, y, i)
  BY <1>2, <1>4 DEF SameAfter
<1>. QED
  BY <1>2, <1>5, <1>6, <1>7 DEF IsText, y

Dist(x, z) == Lev(x, z, Len(x), Len(z))

\* One character more is at most one edit farther.
LEMMA LevUp ==
    ASSUME NEW a, NEW b, Len(a) \in Nat, Len(b) \in Nat, NEW i \in 1 .. Len(a), NEW j \in 0 .. Len(b)
    PROVE  Lev(a, b, i, j) <= Lev(a, b, i - 1, j) + 1
<1>0. i - 1 \in 0 .. Len(a) /\ i \in 0 .. Len(a)
  OBVIOUS
<1>1. CASE j = 0
  <2>1. Lev(a, b, i, j) = i
    BY <1>0, <1>1, LevIs
  <2>2. Lev(a, b, i - 1, j) = i - 1
    <3> DEFINE k == i - 1
    <3> HIDE DEF k
    <3>1. Lev(a, b, k, j) = k
      BY <1>0, <1>1, LevIs DEF k
    <3>. QED
      BY <3>1 DEF k
  <2>. QED
    BY <2>1, <2>2
<1>2. CASE j # 0
  <2>1. j \in 1 .. Len(b)
    BY <1>2
  <2>2. Reached(Lev(a, b, i, j), Lev(a, b, i - 1, j), Lev(a, b, i, j - 1),
                Lev(a, b, i - 1, j - 1), a[i] = b[j])
    BY <2>1, LevStep
  <2>. QED
    BY <2>2 DEF Reached
<1>. QED
  BY <1>1, <1>2

LEMMA RemoveNear ==
    ASSUME NEW x, IsText(x), NEW z, IsText(z), NEW i \in 1 .. Len(x)
    PROVE  Dist(x, z) <= Dist(RemoveAt(x, i), z) + 1
<1> DEFINE y == RemoveAt(x, i)
<1>1. /\ IsText(y) /\ Len(y) = Len(x) - 1
      /\ \A t \in 1 .. i - 1 : y[t] = x[t]
      /\ SameAfter(x, i, y, i - 1)
  BY RemoveIs
<1> HIDE DEF y
<1>2. Len(x) \in Nat /\ Len(y) \in Nat /\ Len(z) \in Nat
  BY <1>1, LenProperties DEF IsText
<1>3. i \in 0 .. Len(x) /\ i - 1 \in 0 .. Len(y) /\ i - 1 <= Len(x)
  BY <1>1, <1>2
<1>4. ASSUME NEW j \in 0 .. Len(z) PROVE Lev(x, z, i, j) <= Lev(y, z, i - 1, j) + 1
  <2>1. Lev(x, z, i, j) <= Lev(x, z, i - 1, j) + 1
    BY <1>2, LevUp
  <2>2. i - 1 \in 0 .. i - 1
    BY <1>2
  <2>3. Lev(y, z, i - 1, j) = Lev(x, z, i - 1, j)
    BY <1>1, <1>2, <1>3, <2>2, LevPrefix
  <2>. QED
    BY <2>1, <2>3
<1>. QED
  BY <1>1, <1>2, <1>3, <1>4, LevAfter DEF Dist, y

LEMMA InsertNear ==
    ASSUME NEW x, IsText(x), NEW z, IsText(z), NEW i \in 1 .. Len(x) + 1, NEW c \in Char
    PROVE  Dist(x, z) <= Dist(InsertAt(x, i, c), z) + 1
<1> DEFINE y == InsertAt(x, i, c)
<1>1. /\ IsText(y) /\ Len(y) = Len(x) + 1
      /\ \A t \in 1 .. i - 1 : y[t] = x[t]
      /\ SameAfter(x, i - 1, y, i)
  BY InsertIs
<1> HIDE DEF y
<1>2. Len(x) \in Nat /\ Len(y) \in Nat /\ Len(z) \in Nat
  BY <1>1, LenProperties DEF IsText
<1>3. i - 1 \in 0 .. Len(x) /\ i \in 0 .. Len(y) /\ i \in 1 .. Len(y) /\ i - 1 \in 0 .. Len(y)
  BY <1>1, <1>2
<1>4. ASSUME NEW j \in 0 .. Len(z) PROVE Lev(x, z, i - 1, j) <= Lev(y, z, i, j) + 1
  <2>1. Lev(y, z, i - 1, j) <= Lev(y, z, i, j) + 1
    BY <1>2, <1>3, LevDown
  <2>2. i - 1 \in 0 .. i - 1 /\ i - 1 <= Len(x)
    BY <1>2
  <2>3. Lev(y, z, i - 1, j) = Lev(x, z, i - 1, j)
    BY <1>1, <1>2, <1>3, <2>2, LevPrefix
  <2>. QED
    BY <2>1, <2>3
<1>. QED
  BY <1>1, <1>2, <1>3, <1>4, LevAfter DEF Dist, y

LEMMA ReplaceNear ==
    ASSUME NEW x, IsText(x), NEW z, IsText(z), NEW i \in 1 .. Len(x), NEW c \in Char
    PROVE  Dist(x, z) <= Dist(Replaced(x, i, c), z) + 1
<1> DEFINE y == Replaced(x, i, c)
<1>1. /\ IsText(y) /\ Len(y) = Len(x)
      /\ \A t \in 1 .. i - 1 : y[t] = x[t]
      /\ SameAfter(x, i, y, i)
  BY ReplaceIs
<1> HIDE DEF y
<1>2. Len(x) \in Nat /\ Len(y) \in Nat /\ Len(z) \in Nat
  BY <1>1, LenProperties DEF IsText
<1>3. i \in 0 .. Len(x) /\ i \in 0 .. Len(y) /\ i - 1 \in 0 .. Len(y) /\ i - 1 <= Len(x)
      /\ i \in 1 .. Len(y)
  BY <1>1, <1>2
<1> DEFINE D == 0 .. Len(z)
           m == [j \in D |-> j]
           good == {j \in D : Lev(x, z, i, j) <= Lev(y, z, i, j) + 1}
<1>4. ASSUME NEW j \in D, \A k \in D : m[k] < m[j] => k \in good
      PROVE  Lev(x, z, i, j) <= Lev(y, z, i, j) + 1
  <2>1. CASE j = 0
    <3>1. Lev(x, z, i, j) = i /\ Lev(y, z, i, j) = i
      BY <1>2, <1>3, <2>1, LevIs
    <3>. QED
      BY <3>1
  <2>2. CASE j # 0
    <3>1. j \in 1 .. Len(z) /\ j - 1 \in D /\ m[j - 1] < m[j]
      BY <2>2
    <3> DEFINE hx == Lev(x, z, i, j)
               ux == Lev(x, z, i - 1, j)
               lx == Lev(x, z, i, j - 1)
               ax == Lev(x, z, i - 1, j - 1)
               hy == Lev(y, z, i, j)
               uy == Lev(y, z, i - 1, j)
               ly == Lev(y, z, i, j - 1)
               ay == Lev(y, z, i - 1, j - 1)
    <3>2. lx <= ly + 1
      BY <1>4, <3>1
    <3>3. uy = ux /\ ay = ax
      <4>1. i - 1 \in 0 .. i - 1
        BY <1>2
      <4>2. \A k \in 0 .. i - 1 : \A l \in 0 .. Len(z) : Lev(y, z, k, l) = Lev(x, z, k, l)
        <5> DEFINE p == i - 1
        <5>1. p \in 0 .. Len(y) /\ p <= Len(x) /\ \A t \in 1 .. p : y[t] = x[t]
          BY <1>1, <1>3
        <5> HIDE DEF p, D, m, good
        <5>2. \A k \in 0 .. p : \A l \in 0 .. Len(z) : Lev(y, z, k, l) = Lev(x, z, k, l)
          BY <1>2, <5>1, LevPrefix
        <5>. QED
          BY <5>2 DEF p
      <4>. QED
        BY <3>1, <4>1, <4>2
    <3>4. Reached(hx, ux, lx, ax, x[i] = z[j])
      BY <1>2, <3>1, LevStep
    <3>5. Reached(hy, uy, ly, ay, y[i] = z[j])
      BY <1>2, <1>3, <3>1, LevStep
    <3> HIDE DEF hx, ux, lx, ax, hy, uy, ly, ay
    <3>6. hx <= hy + 1
      BY <3>2, <3>3, <3>4, <3>5 DEF Reached
    <3>. QED
      BY <3>6 DEF hx, hy
  <2>. QED
    BY <2>1, <2>2
<1>5. D \subseteq good
  <2>1. \A j \in D : (\A k \in D : m[k] < m[j] => k \in good) => j \in good
    BY <1>4
  <2>2. m \in [D -> Nat]
    BY <1>2
  <2> HIDE DEF D, m, good
  <2>. QED
    BY <2>1, <2>2, Induction DEF Inductive
<1>6. \A j \in 0 .. Len(z) : Lev(x, z, i, j) <= Lev(y, z, i, j) + 1
  BY <1>5
<1>. QED
  BY <1>1, <1>2, <1>3, <1>6, LevAfter DEF Dist, y

LEMMA EditNear ==
    ASSUME NEW x, IsText(x), NEW z, IsText(z), NEW letters \in SUBSET Char,
           NEW y \in Edits(x, letters)
    PROVE  IsText(y) /\ Dist(x, z) <= Dist(y, z) + 1
<1>0. DOMAIN x = 1 .. Len(x)
  BY LenProperties DEF IsText
<1>1. CASE \E i \in 1 .. Len(x) : y = RemoveAt(x, i)
  BY <1>1, RemoveIs, RemoveNear
<1>2. CASE \E i \in 1 .. Len(x) + 1, c \in letters : y = InsertAt(x, i, c)
  <2>1. PICK i \in 1 .. Len(x) + 1, c \in letters : y = InsertAt(x, i, c)
    BY <1>2
  <2>2. c \in Char
    OBVIOUS
  <2>. QED
    BY <2>1, <2>2, InsertIs, InsertNear
<1>3. CASE \E i \in 1 .. Len(x), c \in letters : y = Replaced(x, i, c)
  <2>1. PICK i \in 1 .. Len(x), c \in letters : y = Replaced(x, i, c)
    BY <1>3
  <2>2. c \in Char
    OBVIOUS
  <2>. QED
    BY <2>1, <2>2, ReplaceIs, ReplaceNear
<1>. QED
  BY <1>0, <1>1, <1>2, <1>3 DEF Edits, Replaced

LEMMA SameThrough ==
    ASSUME NEW x, NEW y, NEW z, Len(x) \in Nat, Len(y) \in Nat, Len(z) \in Nat,
           NEW i \in 0 .. Len(x), NEW p \in 0 .. Len(y), NEW j \in 0 .. Len(z),
           SameAfter(x, i, y, p), SameAfter(x, i, z, j)
    PROVE  SameAfter(y, p, z, j)
<1> DEFINE n == Len(x) - i
<1>1. /\ n = Len(y) - p /\ n = Len(z) - j
      /\ \A t \in 1 .. n : x[i + t] = y[p + t]
      /\ \A t \in 1 .. n : x[i + t] = z[j + t]
  BY DEF SameAfter
<1> HIDE DEF n
<1>. QED
  BY <1>1 DEF SameAfter

LEMMA SameBefore ==
    ASSUME NEW y, NEW z, Len(y) \in Nat, Len(z) \in Nat,
           NEW p \in 0 .. Len(y), NEW q \in 0 .. Len(z), p # 0, q # 0,
           SameAfter(y, p, z, q), y[p] = z[q]
    PROVE  SameAfter(y, p - 1, z, q - 1)
<1>1. Len(y) - (p - 1) = Len(z) - (q - 1)
  BY DEF SameAfter
<1>2. ASSUME NEW t \in 1 .. Len(y) - (p - 1) PROVE y[p - 1 + t] = z[q - 1 + t]
  <2>1. CASE t = 1
    <3>1. p - 1 + t = p /\ q - 1 + t = q
      BY <2>1
    <3>. QED
      BY <3>1
  <2>2. CASE t # 1
    <3>1. t - 1 \in 1 .. Len(y) - p
      BY <2>2
    <3>2. y[p + (t - 1)] = z[q + (t - 1)]
      BY <3>1 DEF SameAfter
    <3>3. p - 1 + t = p + (t - 1) /\ q - 1 + t = q + (t - 1)
      OBVIOUS
    <3>. QED
      BY <3>2, <3>3
  <2>. QED
    BY <2>1, <2>2
<1>. QED
  BY <1>1, <1>2 DEF SameAfter

\* What a step back in the matrix costs is what an edit gains.
LEMMA RemoveGains ==
    ASSUME NEW x, IsText(x), NEW z, IsText(z), NEW i \in 1 .. Len(x), NEW j \in 0 .. Len(z),
           SameAfter(x, i, z, j)
    PROVE  \E y \in Edits(x, Letters(z)) : Dist(y, z) <= Lev(x, z, i - 1, j)
<1> DEFINE y == RemoveAt(x, i)
           p == i - 1
<1>1. /\ IsText(y) /\ Len(y) = Len(x) - 1
      /\ \A t \in 1 .. p : y[t] = x[t]
      /\ SameAfter(x, i, y, p)
  BY RemoveIs
<1>2. y \in Edits(x, Letters(z))
  <2>1. i \in DOMAIN x
    BY LenProperties DEF IsText
  <2>. QED
    BY <2>1 DEF Edits
<1> HIDE DEF y
<1>3. Len(x) \in Nat /\ Len(y) \in Nat /\ Len(z) \in Nat
  BY <1>1, LenProperties DEF IsText
<1>4. i \in 0 .. Len(x) /\ p \in 0 .. Len(y) /\ p <= Len(x) /\ p \in 0 .. p
  BY <1>1, <1>3
<1> HIDE DEF p
<1>5. SameAfter(y, p, z, j)
  BY <1>1, <1>3, <1>4, SameThrough
<1>6. Dist(y, z) <= Lev(y, z, p, j)
  BY <1>3, <1>4, <1>5, LevDiagonal DEF Dist
<1>7. Lev(y, z, p, j) = Lev(x, z, p, j)
  <2>1. \A t \in 1 .. p : y[t] = x[t]
    BY <1>1
  <2>2. \A k \in 0 .. p : \A l \in 0 .. Len(z) : Lev(y, z, k, l) = Lev(x, z, k, l)
    BY <1>3, <1>4, <2>1, LevPrefix
  <2>. QED
    BY <1>4, <2>2
<1>. QED
  BY <1>2, <1>6, <1>7 DEF p

LEMMA InsertGains ==
    ASSUME NEW x, IsText(x), NEW z, IsText(z), NEW i \in 0 .. Len(x), NEW j \in 1 .. Len(z),
           SameAfter(x, i, z, j)
    PROVE  \E y \in Edits(x, Letters(z)) : Dist(y, z) <= Lev(x, z, i, j - 1)
<1> DEFINE p == i + 1
           y == InsertAt(x, p, z[j])
<1>0. Len(x) \in Nat /\ Len(z) \in Nat /\ z[j] \in Char /\ z[j] \in Letters(z)
  BY LenProperties, ElementOfSeq DEF IsText, Letters, ToSet
<1>1. p \in 1 .. Len(x) + 1 /\ p - 1 = i
  BY <1>0
<1> HIDE DEF p
<1>2. /\ IsText(y) /\ Len(y) = Len(x) + 1
      /\ \A t \in 1 .. p - 1 : y[t] = x[t]
      /\ y[p] = z[j]
      /\ SameAfter(x, p - 1, y, p)
  BY <1>0, <1>1, InsertIs
<1>3. y \in Edits(x, Letters(z))
  BY <1>0, <1>1 DEF Edits
<1> HIDE DEF y
<1>4. Len(y) \in Nat
  BY <1>0, <1>2
<1>5. p \in 0 .. Len(y) /\ p # 0 /\ j \in 0 .. Len(z) /\ j # 0 /\ i \in 0 .. Len(y) /\ i \in 0 .. i
      /\ j - 1 \in 0 .. Len(z)
  BY <1>0, <1>1, <1>2
<1>6. SameAfter(y, p, z, j)
  BY <1>0, <1>1, <1>2, <1>4, <1>5, SameThrough
<1>7. SameAfter(y, i, z, j - 1)
  <2>1. SameAfter(y, p - 1, z, j - 1)
    BY <1>0, <1>2, <1>4, <1>5, <1>6, SameBefore
  <2>. QED
    BY <1>1, <2>1
<1>8. Dist(y, z) <= Lev(y, z, i, j - 1)
  BY <1>0, <1>4, <1>5, <1>7, LevDiagonal DEF Dist
<1>9. Lev(y, z, i, j - 1) = Lev(x, z, i, j - 1)
  <2>1. i <= Len(x) /\ \A t \in 1 .. i : y[t] = x[t]
    BY <1>0, <1>1, <1>2
  <2>. QED
    BY <1>0, <1>4, <1>5, <2>1, LevPrefix, SMTT(30)
<1>. QED
  BY <1>3, <1>8, <1>9

LEMMA ReplaceGains ==
    ASSUME NEW x, IsText(x), NEW z, IsText(z), NEW i \in 1 .. Len(x), NEW j \in 1 .. Len(z),
           SameAfter(x, i, z, j)
    PROVE  \E y \in Edits(x, Letters(z)) : Dist(y, z) <= Lev(x, z, i - 1, j - 1)
<1> DEFINE p == i - 1
           y == Replaced(x, i, z[j])
<1>0. Len(x) \in Nat /\ Len(z) \in Nat /\ z[j] \in Char /\ z[j] \in Letters(z)
  BY LenProperties, ElementOfSeq DEF IsText, Letters, ToSet
<1>1. /\ IsText(y) /\ Len(y) = Len(x)
      /\ \A t \in 1 .. p : y[t] = x[t]
      /\ y[i] = z[j]
      /\ SameAfter(x, i, y, i)
  BY <1>0, ReplaceIs
<1>2. y \in Edits(x, Letters(z))
  <2>1. i \in DOMAIN x
    BY LenProperties DEF IsText
  <2>. QED
    BY <1>0, <2>1 DEF Edits, Replaced
<1> HIDE DEF y
<1>3. Len(y) \in Nat
  BY <1>0, <1>1
<1>4. /\ i \in 0 .. Len(x) /\ i \in 0 .. Len(y) /\ i # 0 /\ j \in 0 .. Len(z) /\ j # 0
      /\ p \in 0 .. Len(y) /\ p \in 0 .. p /\ p <= Len(x) /\ j - 1 \in 0 .. Len(z)
  BY <1>0, <1>1
<1>5. SameAfter(y, i, z, j)
  BY <1>0, <1>1, <1>3, <1>4, SameThrough
<1>6. SameAfter(y, p, z, j - 1)
  BY <1>0, <1>1, <1>3, <1>4, <1>5, SameBefore
<1> HIDE DEF p
<1>7. Dist(y, z) <= Lev(y, z, p, j - 1)
  BY <1>0, <1>3, <1>4, <1>6, LevDiagonal DEF Dist
<1>8. Lev(y, z, p, j - 1) = Lev(x, z, p, j - 1)
  BY <1>0, <1>1, <1>3, <1>4, LevPrefix, SMTT(30)
<1>. QED
  BY <1>2, <1>7, <1>8 DEF p

\* Lists that differ have an edit that brings them nearer.
LEMMA Descent ==
    ASSUME NEW x, IsText(x), NEW z, IsText(z)
    PROVE  \A i \in 0 .. Len(x) : \A j \in 0 .. Len(z) :
              SameAfter(x, i, z, j) /\ Lev(x, z, i, j) # 0
              => \E y \in Edits(x, Letters(z)) : Dist(y, z) <= Lev(x, z, i, j) - 1
<1> DEFINE m == Len(x)
           n == Len(z)
           Nearer(k) == \E y \in Edits(x, Letters(z)) : Dist(y, z) <= k
           P(i, j) == SameAfter(x, i, z, j) /\ Lev(x, z, i, j) # 0
                      => Nearer(Lev(x, z, i, j) - 1)
           good == {c \in (0 .. m) \X (0 .. n) : P(c[1], c[2])}
<1>0. m \in Nat /\ n \in Nat
  BY LenProperties DEF IsText
<1>1. ASSUME NEW i \in 0 .. m, NEW j \in 0 .. n,
             \A k \in 0 .. m : \A l \in 0 .. n : k + l < i + j => <<k, l>> \in good,
             SameAfter(x, i, z, j), Lev(x, z, i, j) # 0
      PROVE  Nearer(Lev(x, z, i, j) - 1)
  <2>1. CASE i = 0
    <3>1. Lev(x, z, i, j) = j /\ j \in 1 .. n
      BY <1>0, <1>1, <2>1, LevIs
    <3>2. Lev(x, z, i, j - 1) = j - 1
      <4> DEFINE l == j - 1
      <4>1. l \in 0 .. n
        BY <1>0, <3>1
      <4> HIDE DEF l
      <4>2. Lev(x, z, i, l) = l
        BY <1>0, <2>1, <4>1, LevIs
      <4>. QED
        BY <4>2 DEF l
    <3>3. Nearer(Lev(x, z, i, j - 1))
      BY <1>1, <3>1, InsertGains
    <3>. QED
      BY <3>1, <3>2, <3>3
  <2>2. CASE j = 0
    <3>1. Lev(x, z, i, j) = i /\ i \in 1 .. m
      BY <1>0, <1>1, <2>2, LevIs
    <3>2. Lev(x, z, i - 1, j) = i - 1
      <4> DEFINE k == i - 1
      <4>1. k \in 0 .. m
        BY <1>0, <3>1
      <4> HIDE DEF k
      <4>2. Lev(x, z, k, j) = k
        BY <1>0, <2>2, <4>1, LevIs
      <4>. QED
        BY <4>2 DEF k
    <3>3. Nearer(Lev(x, z, i - 1, j))
      BY <1>1, <3>1, RemoveGains
    <3>. QED
      BY <3>1, <3>2, <3>3
  <2>3. CASE i # 0 /\ j # 0
    <3> DEFINE here == Lev(x, z, i, j)
               up == Lev(x, z, i - 1, j)
               left == Lev(x, z, i, j - 1)
               across == Lev(x, z, i - 1, j - 1)
    <3>1. i \in 1 .. m /\ j \in 1 .. n
      BY <2>3
    <3>2. Reached(here, up, left, across, x[i] = z[j])
      BY <1>0, <3>1, LevStep
    <3>3. Nearer(up) /\ Nearer(left) /\ Nearer(across)
      BY <1>1, <3>1, RemoveGains, InsertGains, ReplaceGains
    <3>4. x[i] = z[j] /\ here = across => Nearer(here - 1)
      <4> SUFFICES ASSUME x[i] = z[j], here = across PROVE Nearer(here - 1)
        OBVIOUS
      <4>1. i - 1 \in 0 .. m /\ j - 1 \in 0 .. n /\ (i - 1) + (j - 1) < i + j
        BY <1>0, <3>1
      <4>2. <<i - 1, j - 1>> \in good
        BY <1>1, <4>1
      <4>3. P(i - 1, j - 1)
        BY <4>2
      <4>4. SameAfter(x, i - 1, z, j - 1)
        BY <1>0, <1>1, <2>3, SameBefore
      <4>. QED
        BY <1>1, <4>3, <4>4
    <3> HIDE DEF here, up, left, across, Nearer
    <3>5. \/ here - 1 = up
          \/ here - 1 = left
          \/ here - 1 = across
          \/ x[i] = z[j] /\ here = across
      BY <3>2 DEF Reached
    <3>6. Nearer(here - 1)
      BY <3>3, <3>4, <3>5
    <3>. QED
      BY <3>6 DEF here
  <2>. QED
    BY <2>1, <2>2, <2>3
<1>2. \A i \in 0 .. m : \A j \in 0 .. n : <<i, j>> \in good
  <2>1. \A i \in 0 .. m : \A j \in 0 .. n :
           (\A k \in 0 .. m : \A l \in 0 .. n : k + l < i + j => <<k, l>> \in good)
           => <<i, j>> \in good
    <3>1. ASSUME NEW i \in 0 .. m, NEW j \in 0 .. n,
                 \A k \in 0 .. m : \A l \in 0 .. n : k + l < i + j => <<k, l>> \in good
          PROVE  <<i, j>> \in good
      <4>1. P(i, j)
        BY <1>1, <3>1
      <4> HIDE DEF P, m, n
      <4>. QED
        BY <4>1
    <3>. QED
      BY <3>1
  <2> HIDE DEF good, m, n
  <2>. QED
    BY <1>0, <2>1, GridInduction
<1>3. ASSUME NEW i \in 0 .. m, NEW j \in 0 .. n PROVE P(i, j)
  <2>1. <<i, j>> \in good
    BY <1>2
  <2> HIDE DEF P
  <2>. QED
    BY <2>1
<1>. QED
  BY <1>3

LEMMA MinIs ==
    ASSUME NEW S \in SUBSET Nat, S # {}
    PROVE  Min(S) \in S /\ \A x \in S : Min(S) <= x
<1>1. \E n \in S : \A k \in S : n <= k
  BY LeastOf
<1>. QED
  BY <1>1 DEF Min

\* A row that ends the comparison has no distance of two or less.
LEMMA GivesUpIs ==
    ASSUME NEW b, Len(b) \in Nat, NEW row \in Rows(b), GivesUp(row)
    PROVE  \A j \in 0 .. Len(b) : row[j] > 2
<1> DEFINE S == {row[j] : j \in DOMAIN row}
<1>1. DOMAIN row = 0 .. Len(b) /\ \A j \in 0 .. Len(b) : row[j] \in Nat
  BY DEF Rows
<1>2. S \in SUBSET Nat /\ S # {}
  BY <1>1
<1>3. \A j \in 0 .. Len(b) : row[j] \in S
  BY <1>1
<1>4. Min(S) > 2
  BY DEF GivesUp, RowMin
<1> HIDE DEF S
<1>5. Min(S) \in Nat /\ \A x \in S : Min(S) <= x
  BY <1>2, MinIs
<1>. QED
  BY <1>1, <1>3, <1>4, <1>5

\* And then no later row has one.
LEMMA FarStaysFar ==
    ASSUME NEW a, NEW b, Len(a) \in Nat, Len(b) \in Nat, NEW i \in 1 .. Len(a),
           \A j \in 0 .. Len(b) : Lev(a, b, i - 1, j) > 2
    PROVE  \A j \in 0 .. Len(b) : Lev(a, b, i, j) > 2
<1> DEFINE D == 0 .. Len(b)
           m == [j \in D |-> j]
           good == {j \in D : Lev(a, b, i, j) > 2}
<1>1. ASSUME NEW j \in D, \A k \in D : m[k] < m[j] => k \in good
      PROVE  Lev(a, b, i, j) > 2
  <2>1. CASE j = 0
    <3> DEFINE k == i - 1
    <3>1. k \in 0 .. Len(a) /\ i \in 0 .. Len(a)
      OBVIOUS
    <3>2. Lev(a, b, k, j) > 2
      OBVIOUS
    <3> HIDE DEF k
    <3>3. Lev(a, b, k, j) = k /\ Lev(a, b, i, j) = i
      BY <2>1, <3>1, LevIs
    <3>4. k > 2 /\ i = k + 1
      BY <3>2, <3>3 DEF k
    <3>. QED
      BY <3>1, <3>3, <3>4
  <2>2. CASE j # 0
    <3>1. j \in 1 .. Len(b) /\ j - 1 \in D /\ m[j - 1] < m[j]
      BY <2>2
    <3> DEFINE here == Lev(a, b, i, j)
               up == Lev(a, b, i - 1, j)
               left == Lev(a, b, i, j - 1)
               across == Lev(a, b, i - 1, j - 1)
    <3>2. up > 2 /\ left > 2 /\ across > 2
      BY <1>1, <3>1
    <3>3. Reached(here, up, left, across, a[i] = b[j])
      BY <3>1, LevStep
    <3> HIDE DEF here, up, left, across
    <3>4. here > 2
      BY <3>2, <3>3 DEF Reached
    <3>. QED
      BY <3>4 DEF here
  <2>. QED
    BY <2>1, <2>2
<1>2. \A j \in D : (\A k \in D : m[k] < m[j] => k \in good) => j \in good
  BY <1>1
<1>3. m \in [D -> Nat]
  OBVIOUS
<1>4. D \subseteq good
  <2> HIDE DEF D, m, good
  <2>. QED
    BY <1>2, <1>3, Induction DEF Inductive
<1>. QED
  BY <1>4

LEMMA FarToTheEnd ==
    ASSUME NEW a, NEW b, Len(a) \in Nat, Len(b) \in Nat, NEW i \in 1 .. Len(a),
           GivesUp(Matrix(a, b)[i])
    PROVE  Lev(a, b, Len(a), Len(b)) > 2
<1> DEFINE D == i .. Len(a)
           m == [k \in D |-> k]
           Far(k) == \A j \in 0 .. Len(b) : Lev(a, b, k, j) > 2
           good == {k \in D : Far(k)}
<1>1. Far(i)
  <2>1. Matrix(a, b)[i] \in Rows(b)
    BY MatrixIs
  <2>2. \A j \in 0 .. Len(b) : Matrix(a, b)[i][j] > 2
    BY <2>1, GivesUpIs
  <2>. QED
    BY <2>2 DEF Lev
<1>2. ASSUME NEW k \in D, \A l \in D : m[l] < m[k] => l \in good
      PROVE  Far(k)
  <2>1. CASE k = i
    BY <1>1, <2>1
  <2>2. CASE k # i
    <3>1. k \in 1 .. Len(a) /\ k - 1 \in D /\ m[k - 1] < m[k]
      BY <2>2
    <3>2. Far(k - 1)
      BY <1>2, <3>1
    <3>. QED
      BY <3>1, <3>2, FarStaysFar
  <2>. QED
    BY <2>1, <2>2
<1>3. \A k \in D : (\A l \in D : m[l] < m[k] => l \in good) => k \in good
  BY <1>2
<1>4. m \in [D -> Nat]
  OBVIOUS
<1>5. D \subseteq good
  <2> HIDE DEF D, m, good
  <2>. QED
    BY <1>3, <1>4, Induction DEF Inductive
<1>6. Len(a) \in D /\ Len(b) \in 0 .. Len(b)
  OBVIOUS
<1>7. Far(Len(a))
  BY <1>5, <1>6
<1>. QED
  BY <1>6, <1>7

Shorter(left, right) == IF Len(left) <= Len(right) THEN left ELSE right

Longer(left, right) == IF Len(left) <= Len(right) THEN right ELSE left

LEMMA ComparisonIs ==
    ASSUME NEW left, NEW right
    PROVE  EditDistanceAtMostTwo(left, right) =
             LET a == Shorter(left, right)
                 b == Longer(left, right)
             IN IF left = right THEN 0
                ELSE IF Len(b) - Len(a) > 2 \/ \E i \in 1 .. Len(a) : GivesUp(Matrix(a, b)[i])
                       THEN TooFar
                ELSE Lev(a, b, Len(a), Len(b))
  BY DEF EditDistanceAtMostTwo, Shorter, Longer, Matrix, Lev

LEMMA DistIs ==
    ASSUME NEW x, IsText(x), NEW z, IsText(z)
    PROVE  /\ Dist(x, z) \in Nat
           /\ Dist(x, z) = 0 <=> x = z
           /\ Dist(x, z) = Dist(z, x)
<1>1. Len(x) \in Nat /\ Len(z) \in Nat
  BY LenProperties DEF IsText
<1>2. Dist(x, z) \in Nat
  BY <1>1, LevIs DEF Dist
<1>3. Dist(x, z) = Dist(z, x)
  BY <1>1, LevSymmetric DEF Dist
<1>4. Len(x) \in 0 .. Len(x) /\ Len(z) \in 0 .. Len(z)
  BY <1>1
<1>5. Dist(x, z) = 0 => x = z
  <2>1. Dist(x, z) = 0 => Len(x) = Len(z) /\ \A t \in 1 .. Len(x) : x[t] = z[t]
    BY <1>1, <1>4, LevZero DEF Dist
  <2>. QED
    BY <2>1, SeqEqual DEF IsText
<1>6. Dist(x, x) = 0
  BY <1>1, <1>4, LevSame DEF Dist
<1>. QED
  BY <1>2, <1>3, <1>5, <1>6

LEMMA ComparisonRight ==
    ASSUME NEW left, IsText(left), NEW right, IsText(right)
    PROVE  LET d == EditDistanceAtMostTwo(left, right)
               e == Dist(left, right)
           IN /\ d \in Nat
              /\ IF e <= 2 THEN d = e ELSE d > 2
<1> DEFINE a == Shorter(left, right)
           b == Longer(left, right)
           d == EditDistanceAtMostTwo(left, right)
           e == Dist(left, right)
           l == Lev(a, b, Len(a), Len(b))
<1>0. (a = left /\ b = right) \/ (a = right /\ b = left)
  <2>1. CASE Len(left) <= Len(right)
    BY <2>1 DEF Shorter, Longer
  <2>2. CASE ~ (Len(left) <= Len(right))
    BY <2>2 DEF Shorter, Longer
  <2>. QED
    BY <2>1, <2>2
<1>1. IsText(a) /\ IsText(b)
  BY <1>0
<1>2. Len(a) \in Nat /\ Len(b) \in Nat
  BY <1>1, LenProperties DEF IsText
<1>3. e = l /\ e \in Nat
  <2>1. e = Dist(a, b)
    BY <1>0, DistIs
  <2>. QED
    BY <2>1, DistIs DEF Dist
<1>4. left = right => e = 0
  BY DistIs
<1>5. Len(b) - Len(a) > 2 => l > 2
  <2>1. Len(a) \in 0 .. Len(a) /\ Len(b) \in 0 .. Len(b)
    BY <1>2
  <2>2. Len(b) <= Len(a) + l
    BY <1>2, <2>1, LevGap
  <2>. QED
    BY <1>2, <1>3, <2>2
<1>6. (\E i \in 1 .. Len(a) : GivesUp(Matrix(a, b)[i])) => l > 2
  BY <1>2, FarToTheEnd
<1>7. d = IF left = right THEN 0
          ELSE IF Len(b) - Len(a) > 2 \/ \E i \in 1 .. Len(a) : GivesUp(Matrix(a, b)[i])
                 THEN TooFar
          ELSE l
  BY ComparisonIs
<1> HIDE DEF d, e, l, a, b
<1>8. TooFar > 2 /\ TooFar \in Nat
  BY DEF TooFar
<1>9. d \in Nat /\ IF e <= 2 THEN d = e ELSE d > 2
  BY <1>3, <1>4, <1>5, <1>6, <1>7, <1>8
<1>. QED
  BY <1>9 DEF d, e

LEMMA DistanceRight ==
    ASSUME NEW left, IsText(left), NEW right, IsText(right)
    PROVE  Distance(left, right) = IF Dist(left, right) <= 2 THEN Dist(left, right) ELSE TooFar
<1> DEFINE letters == Letters(right)
           one == Edits(left, letters)
           two == Edited(one, letters)
           D(x) == Dist(x, right)
<1>1. letters \in SUBSET Char
  BY LenProperties, ElementOfSeq DEF IsText, Letters, ToSet
<1>2. \A x : IsText(x) => D(x) \in Nat /\ (D(x) = 0 <=> x = right)
  BY DistIs
<1>3. \A x : IsText(x) => \A y \in Edits(x, letters) : IsText(y) /\ D(x) <= D(y) + 1
  BY <1>1, EditNear
<1>4. \A x : IsText(x) /\ D(x) # 0 => \E y \in Edits(x, letters) : D(y) <= D(x) - 1
  <2>1. ASSUME NEW x, IsText(x), D(x) # 0
        PROVE  \E y \in Edits(x, letters) : D(y) <= D(x) - 1
    <3>1. Len(x) \in Nat /\ Len(right) \in Nat
      BY <2>1, LenProperties DEF IsText
    <3>2. Len(x) \in 0 .. Len(x) /\ Len(right) \in 0 .. Len(right)
      BY <3>1
    <3>3. SameAfter(x, Len(x), right, Len(right))
      BY <3>1 DEF SameAfter
    <3>. QED
      BY <2>1, <3>2, <3>3, Descent DEF Dist
  <2>. QED
    BY <2>1
<1>5. two = UNION {Edits(x, letters) : x \in one}
  BY DEF Edited
<1> HIDE DEF letters, one, two, D
<1>6. right \in one <=> \E y \in Edits(left, letters) : D(y) = 0
  BY <1>2, <1>3 DEF one
<1>7. \A x \in one : IsText(x)
  BY <1>3 DEF one
<1>8. right \in two <=> \E x \in one : \E y \in Edits(x, letters) : D(y) = 0
  BY <1>2, <1>3, <1>5, <1>7
<1>9. D(left) <= 2 /\ left # right /\ right \notin one => right \in two
  <2>1. ASSUME D(left) <= 2, left # right, right \notin one
        PROVE  right \in two
    <3>1. PICK x \in Edits(left, letters) : D(x) <= D(left) - 1
      BY <1>2, <1>4, <2>1
    <3>2. x \in one /\ IsText(x) /\ D(x) \in Nat /\ D(left) \in Nat /\ D(x) # 0
      BY <1>2, <1>3, <1>6, <3>1, <2>1 DEF one
    <3>3. PICK y \in Edits(x, letters) : D(y) <= D(x) - 1
      BY <1>4, <3>2
    <3>4. D(y) \in Nat
      BY <1>2, <1>3, <3>2
    <3>5. D(y) = 0
      BY <2>1, <3>1, <3>2, <3>3, <3>4
    <3>. QED
      BY <1>8, <3>2, <3>5
  <2>. QED
    BY <2>1
<1>10. right \in one => D(left) <= 1
  BY <1>2, <1>3, <1>6
<1>11. right \in two => D(left) <= 2
  <2>1. ASSUME right \in two PROVE D(left) <= 2
    <3>1. PICK x \in one : \E y \in Edits(x, letters) : D(y) = 0
      BY <1>8, <2>1
    <3>2. IsText(x) /\ D(x) \in Nat /\ D(x) <= 1
      BY <1>2, <1>3, <1>7, <3>1
    <3>3. D(left) \in Nat /\ D(left) <= D(x) + 1
      BY <1>2, <1>3 DEF one
    <3>. QED
      BY <3>2, <3>3
  <2>. QED
    BY <2>1
<1>12. left # right /\ D(left) <= 1 => right \in one
  <2>1. ASSUME left # right, D(left) <= 1 PROVE right \in one
    <3>1. D(left) \in Nat /\ D(left) # 0
      BY <1>2, <2>1
    <3>2. PICK y \in Edits(left, letters) : D(y) <= D(left) - 1
      BY <1>4, <3>1
    <3>3. D(y) \in Nat
      BY <1>2, <1>3, <3>2
    <3>4. D(y) = 0
      BY <2>1, <3>1, <3>2, <3>3
    <3>. QED
      BY <1>6, <3>2, <3>4
  <2>. QED
    BY <2>1
<1>13. D(left) \in Nat /\ (D(left) = 0 <=> left = right)
  BY <1>2
<1>14. Distance(left, right) = IF left = right THEN 0
                               ELSE IF right \in one THEN 1
                               ELSE IF right \in two THEN 2
                               ELSE TooFar
  BY DEF Distance, one, two, letters
<1>15. Distance(left, right) = IF D(left) <= 2 THEN D(left) ELSE TooFar
  <2>1. CASE left = right
    BY <1>13, <1>14, <2>1
  <2>2. CASE left # right /\ right \in one
    <3>1. D(left) = 1
      BY <1>10, <1>13, <2>2
    <3>. QED
      BY <1>14, <2>2, <3>1
  <2>3. CASE left # right /\ right \notin one /\ right \in two
    <3>1. D(left) = 2
      BY <1>11, <1>12, <1>13, <2>3
    <3>. QED
      BY <1>14, <2>3, <3>1
  <2>4. CASE left # right /\ right \notin one /\ right \notin two
    <3>1. ~ (D(left) <= 2)
      BY <1>9, <2>4
    <3>. QED
      BY <1>14, <2>4, <3>1
  <2>. QED
    BY <2>1, <2>2, <2>3, <2>4
<1>. QED
  BY <1>15 DEF D

LEMMA WordInputs ==
    ASSUME input \in Case, Of("words")
    PROVE  IsText(input.left) /\ IsText(input.right)
  BY CaseAssumption, TextIn, Zenon DEF Of

LEMMA EditDistanceIsRight ==
    ASSUME input \in Case
    PROVE  EditDistanceRight
<1>1. CASE ~Of("words")
  BY <1>1 DEF EditDistanceRight
<1>2. CASE Of("words")
  <2> DEFINE d == EditDistanceAtMostTwo(input.left, input.right)
             e == Dist(input.left, input.right)
             r == Distance(input.left, input.right)
  <2>1. IsText(input.left) /\ IsText(input.right)
    BY <1>2, WordInputs
  <2>2. IF e <= 2 THEN d = e ELSE d > 2
    BY <2>1, ComparisonRight
  <2>3. r = IF e <= 2 THEN e ELSE TooFar
    BY <2>1, DistanceRight
  <2>4. ~ (TooFar <= 2)
    BY DEF TooFar
  <2> HIDE DEF d, e, r
  <2>5. IF r <= 2 THEN d = r ELSE d > 2
    BY <2>2, <2>3, <2>4
  <2>. QED
    BY <2>5 DEF EditDistanceRight, d, r
<1>. QED
  BY <1>1, <1>2

\* The comparison of query_engine.cpp gives the number of edits of every two
\* words when it is at most two, and a larger number otherwise: the matrix
\* says the number of edits, and neither the test of the lengths nor the end
\* at a row that is too far hides a distance of two.
THEOREM EditDistanceRightHolds == Spec => []EditDistanceRight
<1>1. input \in Case => EditDistanceRight
  BY EditDistanceIsRight
<1>. QED
  BY <1>1, InputStays, PTL

(***************************************************************************)
(* Folds over a list.                                                      *)
(***************************************************************************)

\* The first places of a list.
Firsts(k) == 1 .. k

LEMMA FirstsIs ==
    ASSUME NEW n \in Nat, NEW k \in 0 .. n - 1
    PROVE  /\ Firsts(k + 1) \in SUBSET (1 .. n) /\ Firsts(k + 1) # {}
           /\ Max(Firsts(k + 1)) = k + 1
           /\ Firsts(k + 1) \ {k + 1} = Firsts(k)
<1> DEFINE S == Firsts(k + 1)
<1>1. S \in SUBSET (1 .. n) /\ S # {} /\ k + 1 \in S
  BY DEF Firsts
<1>2. \A x \in S : x \in Int /\ x <= k + 1
  BY DEF Firsts
<1>3. Firsts(k + 1) \ {k + 1} = Firsts(k)
  BY DEF Firsts
<1> HIDE DEF S
<1>4. Max(S) \in S /\ \A x \in S : x <= Max(S)
  BY <1>1, MaxIs
<1>5. k + 1 <= Max(S) /\ Max(S) <= k + 1 /\ Max(S) \in Int
  BY <1>1, <1>2, <1>4
<1>6. Max(S) = k + 1
  BY <1>5
<1>. QED
  BY <1>1, <1>3, <1>6 DEF S

\* One step of a fold, from the set of the elements that are still to take.
FoldStep(start, step, f, S) == IF S = {} THEN start ELSE step[Max(S)][f[S \ {Max(S)}]]

Foldable(n, R, start, step) ==
    n \in Nat /\ start \in R /\ step \in [1 .. n -> [R -> R]]

IsFoldOf(n, R, start, step, f) ==
    /\ f \in [SUBSET (1 .. n) -> R]
    /\ \A S \in SUBSET (1 .. n) :
          f[S] = IF S = {} THEN start ELSE step[Max(S)][f[S \ {Max(S)}]]

LEMMA FoldExists ==
    ASSUME NEW n, NEW R, NEW start, NEW step, Foldable(n, R, start, step)
    PROVE  \E f : IsFoldOf(n, R, start, step, f)
<1> USE DEF Foldable
<1> DEFINE D == SUBSET (1 .. n)
           m == [S \in D |-> IF S = {} THEN 0 ELSE Max(S)]
           next == [S \in D |-> [f \in [D -> R] |-> FoldStep(start, step, f, S)]]
<1>1. \A S \in D : S # {} => Max(S) \in S /\ \A x \in S : x <= Max(S)
  BY MaxIs
<1>2. m \in [D -> 0 .. n]
  <2>1. ASSUME NEW S \in D, S # {} PROVE Max(S) \in 0 .. n
    <3>1. Max(S) \in 1 .. n
      BY <1>1, <2>1
    <3>. QED
      BY <3>1
  <2>2. 0 \in 0 .. n
    OBVIOUS
  <2>3. \A S \in D : (IF S = {} THEN 0 ELSE Max(S)) \in 0 .. n
    <3> HIDE DEF D
    <3>. QED
      BY <2>1, <2>2, Zenon
  <2>. QED
    BY <2>3
<1>3. next \in [D -> [[D -> R] -> R]]
  <2>1. ASSUME NEW S \in D, NEW f \in [D -> R]
        PROVE  FoldStep(start, step, f, S) \in R
    <3>1. CASE S = {}
      BY <3>1 DEF FoldStep
    <3>2. CASE S # {}
      <4>1. S \ {Max(S)} \in D /\ Max(S) \in 1 .. n
        BY <1>1, <3>2
      <4>2. f[S \ {Max(S)}] \in R
        BY <4>1
      <4>. QED
        BY <3>2, <4>1, <4>2 DEF FoldStep
    <3>. QED
      BY <3>1, <3>2
  <2>. QED
    BY <2>1
<1>4. ASSUME NEW S \in D, NEW f \in [D -> R], NEW g \in [D -> R],
             \A y \in D : m[y] < m[S] => f[y] = g[y]
      PROVE  next[S][f] = next[S][g]
  <2>1. CASE S = {}
    BY <2>1 DEF FoldStep
  <2>2. CASE S # {}
    <3> DEFINE T == S \ {Max(S)}
    <3>1. T \in D /\ m[T] < m[S]
      <4>1. T \in D
        OBVIOUS
      <4>2. \A x \in T : x < Max(S)
        <5>1. \A x \in S : x \in 1 .. n /\ x <= Max(S) /\ Max(S) \in 1 .. n
          BY <1>1, <2>2
        <5>. QED
          BY <5>1
      <4>3. T # {} => Max(T) \in T
        BY <1>1, <4>1
      <4>4. Max(S) \in 1 .. n
        BY <1>1, <2>2
      <4>5. m[S] = Max(S)
        BY <2>2
      <4>6. m[T] = IF T = {} THEN 0 ELSE Max(T)
        BY <4>1
      <4> HIDE DEF T, m, D
      <4>7. T # {} => Max(T) < Max(S)
        BY <4>2, <4>3
      <4>8. m[T] < m[S]
        BY <4>4, <4>5, <4>6, <4>7
      <4>. QED
        BY <4>1, <4>8
    <3>2. f[T] = g[T]
      <4> HIDE DEF T, m
      <4>. QED
        BY <1>4, <3>1
    <3>. QED
      BY <3>2 DEF FoldStep
  <2>. QED
    BY <2>1, <2>2
<1>5. PICK f \in [D -> R] : \A S \in D : f[S] = next[S][f]
  <2> HIDE DEF D, m, next
  <2>1. \A S \in D : \A f, g \in [D -> R] :
           (\A y \in D : m[y] < m[S] => f[y] = g[y]) => next[S][f] = next[S][g]
    BY <1>4
  <2>2. Recursive(D, R, n, m, next)
    BY <1>2, <1>3, <2>1 DEF Recursive
  <2>. QED
    BY <2>2, Recursion
<1>. QED
  BY <1>5 DEF IsFoldOf, FoldStep

\* A fold, element by element.
FoldsTo(n, R, start, step, f) ==
    /\ f[{}] = start
    /\ \A S \in SUBSET (1 .. n) :
          S # {} /\ f[S \ {Max(S)}] \in R => f[S] = step[Max(S)][f[S \ {Max(S)}]]

LEMMA FoldRuns ==
    ASSUME NEW n, NEW R, NEW start, NEW step, Foldable(n, R, start, step),
           NEW f, FoldsTo(n, R, start, step, f)
    PROVE  /\ f[Firsts(0)] = start
           /\ f[Firsts(n)] \in R
           /\ \A k \in 0 .. n - 1 : /\ f[Firsts(k)] \in R
                                    /\ f[Firsts(k + 1)] = step[k + 1][f[Firsts(k)]]
<1> USE DEF Foldable, FoldsTo
<1>1. f[Firsts(0)] = start
  <2>1. Firsts(0) = {}
    BY DEF Firsts
  <2>. QED
    BY <2>1
<1>2. ASSUME NEW k \in 0 .. n - 1, f[Firsts(k)] \in R
      PROVE  f[Firsts(k + 1)] = step[k + 1][f[Firsts(k)]] /\ f[Firsts(k + 1)] \in R
  <2> DEFINE S == Firsts(k + 1)
  <2>1. S \in SUBSET (1 .. n) /\ S # {} /\ Max(S) = k + 1 /\ S \ {k + 1} = Firsts(k)
    BY FirstsIs
  <2>2. k + 1 \in 1 .. n
    OBVIOUS
  <2> HIDE DEF S
  <2>3. f[S] = step[k + 1][f[Firsts(k)]]
    BY <1>2, <2>1
  <2>4. step[k + 1][f[Firsts(k)]] \in R
    BY <1>2, <2>2
  <2>. QED
    BY <2>3, <2>4 DEF S
<1> DEFINE D == 0 .. n
           m == [k \in D |-> k]
           good == {k \in D : f[Firsts(k)] \in R}
<1>3. ASSUME NEW k \in D, \A l \in D : m[l] < m[k] => l \in good
      PROVE  f[Firsts(k)] \in R
  <2>1. CASE k = 0
    BY <1>1, <2>1
  <2>2. CASE k # 0
    <3> DEFINE l == k - 1
    <3>1. l \in D /\ m[l] < m[k] /\ l \in 0 .. n - 1 /\ l + 1 = k
      BY <2>2
    <3>2. f[Firsts(l)] \in R
      BY <1>3, <3>1
    <3> HIDE DEF l
    <3>3. f[Firsts(l + 1)] \in R
      BY <1>2, <3>1, <3>2
    <3>. QED
      BY <3>1, <3>3
  <2>. QED
    BY <2>1, <2>2
<1>4. D \subseteq good
  <2>1. \A k \in D : (\A l \in D : m[l] < m[k] => l \in good) => k \in good
    BY <1>3
  <2>2. m \in [D -> Nat]
    OBVIOUS
  <2> HIDE DEF D, m, good
  <2>. QED
    BY <2>1, <2>2, Induction DEF Inductive
<1>5. \A k \in 0 .. n : f[Firsts(k)] \in R
  BY <1>4
<1>. QED
  BY <1>1, <1>2, <1>5

(***************************************************************************)
(* The pages of an answer.                                                 *)
(***************************************************************************)

Document == [doc_id : Nat, hash : STRING]

DedupeStep(s, d) ==
    IF d.hash # NoHash /\ \E i \in DOMAIN s : s[i].hash = d.hash THEN s ELSE Append(s, d)

\* The function of the fold of Dedupe, by the set of the documents read.
DedupeFrom(ranked) ==
    CHOOSE f : f = [S \in SUBSET DOMAIN ranked |->
                      IF S = {} THEN <<>>
                      ELSE DedupeStep(f[S \ {Max(S)}], ranked[Max(S)])]

LEMMA DedupeIsFold ==
    ASSUME NEW ranked
    PROVE  Dedupe(ranked) = DedupeFrom(ranked)[DOMAIN ranked]
  BY Zenon DEF Dedupe, DedupeFrom, DedupeStep, FoldLeft, MapThenFoldSet

Kept(ranked, k) == DedupeFrom(ranked)[Firsts(k)]

LEMMA KeptIs ==
    ASSUME NEW ranked \in Seq(Document)
    PROVE  /\ Kept(ranked, 0) = <<>>
           /\ Dedupe(ranked) = Kept(ranked, Len(ranked))
           /\ \A k \in 0 .. Len(ranked) - 1 :
                /\ Kept(ranked, k) \in Seq(Document)
                /\ Kept(ranked, k + 1) = DedupeStep(Kept(ranked, k), ranked[k + 1])
           /\ Kept(ranked, Len(ranked)) \in Seq(Document)
<1> DEFINE n == Len(ranked)
           R == Seq(Document)
           step == [i \in 1 .. n |-> [s \in R |-> DedupeStep(s, ranked[i])]]
           g == DedupeFrom(ranked)
           start == <<>>
<1>1. n \in Nat /\ DOMAIN ranked = 1 .. n /\ \A i \in 1 .. n : ranked[i] \in Document
  BY LenProperties, ElementOfSeq
<1>2. start \in R
  OBVIOUS
<1>3. ASSUME NEW i \in 1 .. n, NEW s \in R PROVE DedupeStep(s, ranked[i]) \in R
  <2>1. ranked[i] \in Document
    BY <1>1
  <2> HIDE DEF n
  <2>. QED
    BY <2>1 DEF DedupeStep
<1>4. step \in [1 .. n -> [R -> R]]
  BY <1>3
<1>0. Foldable(n, R, start, step)
  <2> HIDE DEF n, R, step, start
  <2>. QED
    BY <1>1, <1>2, <1>4 DEF Foldable
<1>5. PICK f : IsFoldOf(n, R, start, step, f)
  <2> HIDE DEF n, R, step, start
  <2>. QED
    BY <1>0, FoldExists
<1>6. \A S \in SUBSET (1 .. n) : S # {} => Max(S) \in 1 .. n
  <2> HIDE DEF n
  <2>. QED
    BY <1>1, MaxIs
<1>7. f = [S \in SUBSET DOMAIN ranked |->
             IF S = {} THEN <<>> ELSE DedupeStep(f[S \ {Max(S)}], ranked[Max(S)])]
  <2>1. ASSUME NEW S \in SUBSET (1 .. n)
        PROVE  f[S] = IF S = {} THEN <<>> ELSE DedupeStep(f[S \ {Max(S)}], ranked[Max(S)])
    <3>1. CASE S = {}
      BY <1>5, <3>1 DEF IsFoldOf
    <3>2. CASE S # {}
      <4>1. f[S \ {Max(S)}] \in R /\ Max(S) \in 1 .. n
        BY <1>5, <1>6, <3>2 DEF IsFoldOf
      <4>2. f[S] = step[Max(S)][f[S \ {Max(S)}]]
        BY <1>5, <3>2 DEF IsFoldOf
      <4>. QED
        BY <3>2, <4>1, <4>2
    <3>. QED
      BY <3>1, <3>2
  <2>2. f \in [SUBSET (1 .. n) -> R]
    BY <1>5 DEF IsFoldOf
  <2> HIDE DEF n, R, step
  <2>. QED
    BY <1>1, <2>1, <2>2
<1>8. g = [S \in SUBSET DOMAIN ranked |->
             IF S = {} THEN <<>> ELSE DedupeStep(g[S \ {Max(S)}], ranked[Max(S)])]
  <2> HIDE DEF n, R, step
  <2>. QED
    BY <1>7 DEF DedupeFrom
<1> HIDE DEF g
<1>9. g[{}] = start
  BY <1>8
<1>10. ASSUME NEW S \in SUBSET (1 .. n), S # {}, g[S \ {Max(S)}] \in R
       PROVE  g[S] = step[Max(S)][g[S \ {Max(S)}]]
  <2>1. g[S] = DedupeStep(g[S \ {Max(S)}], ranked[Max(S)])
    BY <1>1, <1>8, <1>10
  <2>2. Max(S) \in 1 .. n
    BY <1>6, <1>10
  <2>. QED
    BY <1>10, <2>1, <2>2
<1>11. /\ g[Firsts(0)] = start
       /\ g[Firsts(n)] \in R
       /\ \A k \in 0 .. n - 1 : /\ g[Firsts(k)] \in R
                                /\ g[Firsts(k + 1)] = step[k + 1][g[Firsts(k)]]
  <2> HIDE DEF n, R, step, start
  <2>2. FoldsTo(n, R, start, step, g)
    BY <1>9, <1>10 DEF FoldsTo
  <2>. QED
    BY <1>0, <2>2, FoldRuns
<1>12. ASSUME NEW k \in 0 .. n - 1
       PROVE  step[k + 1][g[Firsts(k)]] = DedupeStep(g[Firsts(k)], ranked[k + 1])
  <2>1. k + 1 \in 1 .. n
    BY <1>1
  <2>. QED
    BY <1>11, <2>1
<1>13. Dedupe(ranked) = g[Firsts(n)]
  BY <1>1, DedupeIsFold DEF Firsts, g
<1> HIDE DEF n, R, step
<1>. QED
  BY <1>11, <1>12, <1>13 DEF Kept, n, R, g

Shown(ranked) ==
    {i \in DOMAIN ranked : \/ ranked[i].hash = NoHash
                           \/ \A j \in 1 .. i - 1 : ranked[j].hash # ranked[i].hash}

Earlier(ranked, i) == {j \in Shown(ranked) : j < i}

\* What Dedupe has kept when it has read k documents.
KeptRight(ranked, k, s) ==
    /\ s \in Seq(Document)
    /\ Len(s) = Cardinality(Earlier(ranked, k + 1))
    /\ \A i \in Earlier(ranked, k + 1) :
         /\ Cardinality(Earlier(ranked, i)) + 1 \in 1 .. Len(s)
         /\ s[Cardinality(Earlier(ranked, i)) + 1] = ranked[i]
    /\ \A m \in 1 .. Len(s) : \E i \in Earlier(ranked, k + 1) : s[m] = ranked[i]
    /\ \A i \in 1 .. k : ranked[i].hash # NoHash =>
         \E m \in 1 .. Len(s) : s[m].hash = ranked[i].hash

LEMMA EarlierFinite ==
    ASSUME NEW n \in Nat, NEW ranked, DOMAIN ranked = 1 .. n, NEW i
    PROVE  IsFiniteSet(Earlier(ranked, i)) /\ Cardinality(Earlier(ranked, i)) \in Nat
<1>1. IsFiniteSet(1 .. n)
  BY FS_Interval
<1>2. Earlier(ranked, i) \in SUBSET (1 .. n)
  BY DEF Earlier, Shown
<1>. QED
  BY <1>1, <1>2, FS_Subset, FS_CardinalityType

LEMMA KeptStep ==
    ASSUME NEW n \in Nat, NEW ranked, DOMAIN ranked = 1 .. n,
           \A i \in 1 .. n : ranked[i] \in Document,
           NEW k \in 0 .. n - 1, NEW s, KeptRight(ranked, k, s)
    PROVE  KeptRight(ranked, k + 1, DedupeStep(s, ranked[k + 1]))
<1> DEFINE q == k + 1
           d == ranked[q]
           t == DedupeStep(s, d)
           E == Earlier(ranked, q)
           F == Earlier(ranked, q + 1)
           Before(i) == Cardinality(Earlier(ranked, i))
<1>1. q \in 1 .. n /\ q \in Nat /\ d \in Document /\ \A i \in 1 .. q : i = q \/ i \in 1 .. k
  OBVIOUS
<1>2. /\ s \in Seq(Document) /\ Len(s) = Cardinality(E) /\ Len(s) \in Nat
      /\ DOMAIN s = 1 .. Len(s)
  BY LenProperties DEF KeptRight
<1>3. IsFiniteSet(E) /\ Cardinality(E) \in Nat
  BY EarlierFinite
<1>4. /\ \A i \in E : Before(i) + 1 \in 1 .. Len(s) /\ s[Before(i) + 1] = ranked[i]
      /\ \A m \in 1 .. Len(s) : \E i \in E : s[m] = ranked[i]
      /\ \A i \in 1 .. k : ranked[i].hash # NoHash =>
           \E m \in 1 .. Len(s) : s[m].hash = ranked[i].hash
  BY DEF KeptRight
<1>5. \A i \in E : i \in 1 .. n /\ i < q
  BY DEF Earlier, Shown
<1>6. \A i \in Shown(ranked) : i \in F <=> i = q \/ i \in E
  <2>1. \A i \in Shown(ranked) : i \in 1 .. n
    BY DEF Shown
  <2>2. \A i \in 1 .. n : i < q + 1 <=> i = q \/ i < q
    BY <1>1
  <2>. QED
    BY <2>1, <2>2 DEF Earlier
<1>7. E \subseteq Shown(ranked) /\ F \subseteq Shown(ranked) /\ q \notin E
  BY <1>1 DEF Earlier
<1>8. CASE q \in Shown(ranked)
  <2>1. F = E \cup {q}
    BY <1>6, <1>7, <1>8
  <2>2. Cardinality(F) = Cardinality(E) + 1
    BY <1>3, <1>7, <2>1, FS_AddElement
  <2>3. ~ (d.hash # NoHash /\ \E i \in DOMAIN s : s[i].hash = d.hash)
    <3>1. ASSUME d.hash # NoHash, NEW m \in 1 .. Len(s), s[m].hash = d.hash
          PROVE  FALSE
      <4>1. PICK i \in E : s[m] = ranked[i]
        BY <1>4
      <4>2. i \in 1 .. q - 1 /\ ranked[i].hash = ranked[q].hash
        BY <1>5, <3>1, <4>1
      <4>. QED
        BY <1>8, <3>1, <4>2 DEF Shown
    <3>. QED
      BY <1>2, <3>1
  <2>4. t = Append(s, d)
    BY <2>3 DEF DedupeStep
  <2> HIDE DEF t, E, F, Before, d, q
  <2>5. /\ t \in Seq(Document) /\ Len(t) = Len(s) + 1
        /\ \A m \in 1 .. Len(s) : t[m] = s[m]
        /\ t[Len(s) + 1] = d
    BY <1>1, <1>2, <2>4
  <2>6. Len(t) = Cardinality(F)
    BY <1>2, <2>2, <2>5
  <2>7. ASSUME NEW i \in F PROVE Before(i) + 1 \in 1 .. Len(t) /\ t[Before(i) + 1] = ranked[i]
    <3>1. CASE i = q
      <4>1. Before(i) = Len(s)
        BY <1>2, <3>1 DEF Before, E
      <4>. QED
        BY <1>2, <2>5, <3>1, <4>1 DEF d
    <3>2. CASE i \in E
      <4>1. Before(i) + 1 \in 1 .. Len(s) /\ s[Before(i) + 1] = ranked[i]
        BY <1>4, <3>2
      <4>2. Before(i) + 1 \in 1 .. Len(t)
        BY <1>2, <2>5, <4>1
      <4>3. t[Before(i) + 1] = s[Before(i) + 1]
        BY <2>5, <4>1
      <4>. QED
        BY <4>1, <4>2, <4>3
    <3>. QED
      BY <2>1, <3>1, <3>2
  <2>8. ASSUME NEW m \in 1 .. Len(t) PROVE \E i \in F : t[m] = ranked[i]
    <3>1. CASE m = Len(s) + 1
      BY <2>1, <2>5, <3>1 DEF d
    <3>2. CASE m # Len(s) + 1
      <4>1. m \in 1 .. Len(s)
        BY <1>2, <2>5, <3>2
      <4>2. PICK i \in E : s[m] = ranked[i]
        BY <1>4, <4>1
      <4>. QED
        BY <2>1, <2>5, <4>1, <4>2
    <3>. QED
      BY <3>1, <3>2
  <2>9. ASSUME NEW i \in 1 .. q, ranked[i].hash # NoHash
        PROVE  \E m \in 1 .. Len(t) : t[m].hash = ranked[i].hash
    <3>1. CASE i = q
      <4>1. Len(s) + 1 \in 1 .. Len(t)
        BY <1>2, <2>5
      <4>. QED
        BY <2>5, <3>1, <4>1 DEF d
    <3>2. CASE i \in 1 .. k
      <4>1. PICK m \in 1 .. Len(s) : s[m].hash = ranked[i].hash
        BY <1>4, <2>9, <3>2
      <4>2. m \in 1 .. Len(t) /\ t[m] = s[m]
        BY <1>2, <2>5
      <4>. QED
        BY <4>1, <4>2
    <3>. QED
      BY <1>1, <3>1, <3>2
  <2>. QED
    BY <2>5, <2>6, <2>7, <2>8, <2>9 DEF KeptRight, F, Before, t, d, q
<1>9. CASE q \notin Shown(ranked)
  <2>1. F = E
    BY <1>6, <1>7, <1>9
  <2>2. d.hash # NoHash /\ \E j \in 1 .. q - 1 : ranked[j].hash = d.hash
    BY <1>1, <1>9 DEF Shown
  <2>3. PICK m \in 1 .. Len(s) : s[m].hash = d.hash
    <3>1. PICK j \in 1 .. q - 1 : ranked[j].hash = d.hash
      BY <2>2
    <3>2. j \in 1 .. k
      OBVIOUS
    <3>. QED
      BY <1>4, <2>2, <3>1, <3>2
  <2>4. t = s
    BY <1>2, <2>2, <2>3 DEF DedupeStep
  <2> HIDE DEF t, E, F, Before, d, q
  <2>5. ASSUME NEW i \in 1 .. q, ranked[i].hash # NoHash
        PROVE  \E l \in 1 .. Len(t) : t[l].hash = ranked[i].hash
    <3>1. CASE i = q
      BY <2>3, <2>4, <3>1 DEF d
    <3>2. CASE i \in 1 .. k
      BY <1>4, <2>4, <2>5, <3>2
    <3>. QED
      BY <1>1, <3>1, <3>2
  <2>6. /\ t \in Seq(Document) /\ Len(t) = Cardinality(F)
        /\ \A i \in F : Before(i) + 1 \in 1 .. Len(t) /\ t[Before(i) + 1] = ranked[i]
        /\ \A l \in 1 .. Len(t) : \E i \in F : t[l] = ranked[i]
    BY <1>2, <1>4, <2>1, <2>4
  <2>. QED
    BY <2>5, <2>6 DEF KeptRight, F, Before, t, d, q
<1>. QED
  BY <1>8, <1>9

LEMMA AllKept ==
    ASSUME NEW ranked \in Seq(Document)
    PROVE  KeptRight(ranked, Len(ranked), Dedupe(ranked))
<1> DEFINE n == Len(ranked)
           D == 0 .. n
           m == [k \in D |-> k]
           good == {k \in D : KeptRight(ranked, k, Kept(ranked, k))}
<1>1. n \in Nat /\ DOMAIN ranked = 1 .. n /\ \A i \in 1 .. n : ranked[i] \in Document
  BY LenProperties, ElementOfSeq
<1>2. KeptRight(ranked, 0, <<>>)
  <2>1. Earlier(ranked, 0 + 1) = {}
    BY <1>1 DEF Earlier, Shown
  <2>2. Cardinality(Earlier(ranked, 0 + 1)) = 0
    BY <2>1, FS_EmptySet
  <2>3. <<>> \in Seq(Document) /\ Len(<<>>) = 0
    OBVIOUS
  <2>4. 1 .. 0 = {}
    OBVIOUS
  <2>. QED
    BY <2>1, <2>2, <2>3, <2>4 DEF KeptRight
<1>3. ASSUME NEW k \in D, \A l \in D : m[l] < m[k] => l \in good
      PROVE  KeptRight(ranked, k, Kept(ranked, k))
  <2>1. CASE k = 0
    BY <1>2, <2>1, KeptIs
  <2>2. CASE k # 0
    <3> DEFINE l == k - 1
    <3>1. l \in D /\ m[l] < m[k] /\ l \in 0 .. n - 1 /\ l + 1 = k
      BY <1>1, <2>2
    <3>2. KeptRight(ranked, l, Kept(ranked, l))
      BY <1>3, <3>1
    <3> HIDE DEF l
    <3>3. Kept(ranked, l + 1) = DedupeStep(Kept(ranked, l), ranked[l + 1])
      BY <3>1, KeptIs
    <3>4. KeptRight(ranked, l + 1, DedupeStep(Kept(ranked, l), ranked[l + 1]))
      BY <1>1, <3>1, <3>2, KeptStep
    <3>. QED
      BY <3>1, <3>3, <3>4
  <2>. QED
    BY <2>1, <2>2
<1>4. D \subseteq good
  <2>1. \A k \in D : (\A l \in D : m[l] < m[k] => l \in good) => k \in good
    BY <1>3
  <2>2. m \in [D -> Nat]
    BY <1>1
  <2> HIDE DEF D, m, good
  <2>. QED
    BY <2>1, <2>2, Induction DEF Inductive
<1>5. n \in D
  BY <1>1
<1>. QED
  BY <1>4, <1>5, KeptIs

\* The part of a list that a page shows.
Slice(s, start, limit) ==
    IF start >= Len(s) THEN <<>> ELSE SubSeq(s, start + 1, Least(Len(s), start + limit))

LEMMA SliceIs ==
    ASSUME NEW s \in Seq(Document), NEW start \in Nat, NEW limit \in Nat
    PROVE  /\ Len(Slice(s, start, limit)) = Clamp(Len(s) - start, 0, limit)
           /\ DOMAIN Slice(s, start, limit) = 1 .. Len(Slice(s, start, limit))
           /\ \A n \in DOMAIN Slice(s, start, limit) :
                start + n \in 1 .. Len(s) /\ Slice(s, start, limit)[n] = s[start + n]
<1> DEFINE l == Len(s)
           r == Slice(s, start, limit)
           last == Least(l, start + limit)
<1>1. l \in Nat
  BY LenProperties
<1>2. CASE start >= l
  <2>1. r = <<>>
    BY <1>2 DEF Slice
  <2>2. Len(r) = 0 /\ DOMAIN r = {} /\ 1 .. Len(r) = {}
    BY <2>1
  <2>3. Clamp(l - start, 0, limit) = 0
    BY <1>1, <1>2 DEF Clamp
  <2>. QED
    BY <2>2, <2>3
<1>3. CASE start < l
  <2>1. /\ last \in start .. l /\ start + 1 \in 1 .. l + 1
        /\ last - start = Clamp(l - start, 0, limit)
    BY <1>1, <1>3 DEF Least, Clamp
  <2> HIDE DEF l, last
  <2>7. ~ (start >= Len(s))
    BY <1>1, <1>3 DEF l
  <2>2. r = SubSeq(s, start + 1, last)
    BY <2>7, Zenon DEF Slice, last, l
  <2> HIDE DEF r
  <2>3. last \in (start + 1) - 1 .. l
    BY <1>1, <2>1
  <2>4. /\ r \in Seq(Document)
        /\ Len(r) = last - (start + 1) + 1
        /\ \A n \in 1 .. last - (start + 1) + 1 : r[n] = s[start + 1 + n - 1]
    BY <2>1, <2>2, <2>3, SubSeqProperties, SMTT(30) DEF l
  <2>5. Len(r) = last - start /\ DOMAIN r = 1 .. last - start
    BY <1>1, <2>1, <2>4, LenProperties
  <2>6. ASSUME NEW n \in 1 .. last - start
        PROVE  start + n \in 1 .. l /\ r[n] = s[start + n]
    <3>1. start + n \in 1 .. l /\ start + 1 + n - 1 = start + n
      BY <1>1, <2>1
    <3>2. n \in 1 .. last - (start + 1) + 1
      BY <1>1, <2>1
    <3>. QED
      BY <2>4, <3>1, <3>2
  <2>. QED
    BY <2>1, <2>5, <2>6 DEF l, r
<1>. QED
  BY <1>1, <1>2, <1>3

LEMMA PageIs ==
    ASSUME NEW ranked \in Seq(Document), NEW p \in 1 .. Len(ranked) + 1, NEW limit \in Nat
    PROVE  LET shown == Clamp(limit, 1, 100)
           IN /\ shown \in Nat /\ (p - 1) * shown \in Nat
              /\ Build(ranked, p, limit)
                   = [total |-> Len(Dedupe(ranked)),
                      results |-> Slice(Dedupe(ranked), (p - 1) * shown, shown)]
<1> DEFINE shown == Clamp(limit, 1, 100)
           before == p - 1
<1>1. shown \in Nat
  BY DEF Clamp
<1>2. Len(ranked) \in Nat
  BY LenProperties
<1>3. before \in Nat /\ ~ (p < 1)
  BY <1>2
<1>4. (p - 1) * shown \in Nat
  <2> HIDE DEF shown, before
  <2>1. before * shown \in Nat
    BY <1>1, <1>3
  <2>. QED
    BY <2>1 DEF before
<1>5. Build(ranked, p, limit)
        = [total |-> Len(Dedupe(ranked)),
           results |-> Slice(Dedupe(ranked), (p - 1) * shown, shown)]
  BY <1>3, Zenon DEF Build, Start, Slice
<1>. QED
  BY <1>1, <1>4, <1>5

PagesAreRight(ranked, limit) ==
    LET size == Clamp(limit, 1, 100)
    IN \A p \in 1 .. Len(ranked) + 1 :
         LET page == Build(ranked, p, limit)
             skipped == (p - 1) * size
         IN /\ page.total = Cardinality(Shown(ranked))
            /\ Len(page.results) = Clamp(Cardinality(Shown(ranked)) - skipped, 0, size)
            /\ \A i \in Shown(ranked) : \A n \in DOMAIN page.results :
                 Cardinality(Earlier(ranked, i)) + 1 = skipped + n
                   => page.results[n] = ranked[i]

LEMMA PagesRightForAll ==
    ASSUME NEW ranked \in Seq(Document), NEW limit \in Nat
    PROVE  PagesAreRight(ranked, limit)
<1> DEFINE size == Clamp(limit, 1, 100)
           kept == Dedupe(ranked)
           E == Shown(ranked)
<1>1. Len(ranked) \in Nat /\ DOMAIN ranked = 1 .. Len(ranked)
  BY LenProperties
<1>2. Earlier(ranked, Len(ranked) + 1) = E
  BY <1>1 DEF Earlier, Shown
<1>3. /\ kept \in Seq(Document) /\ Len(kept) = Cardinality(E)
      /\ \A i \in E : kept[Cardinality(Earlier(ranked, i)) + 1] = ranked[i]
  BY <1>2, AllKept DEF KeptRight
<1>4. ASSUME NEW p \in 1 .. Len(ranked) + 1
      PROVE  LET page == Build(ranked, p, limit)
                 skipped == (p - 1) * size
             IN /\ page.total = Cardinality(E)
                /\ Len(page.results) = Clamp(Cardinality(E) - skipped, 0, size)
                /\ \A i \in E : \A n \in DOMAIN page.results :
                     Cardinality(Earlier(ranked, i)) + 1 = skipped + n
                       => page.results[n] = ranked[i]
  <2> DEFINE page == Build(ranked, p, limit)
             skipped == (p - 1) * size
  <2>1. size \in Nat /\ skipped \in Nat
        /\ page.total = Len(kept) /\ page.results = Slice(kept, skipped, size)
    <3>1. /\ size \in Nat /\ skipped \in Nat
          /\ page = [total |-> Len(kept), results |-> Slice(kept, skipped, size)]
      BY PageIs, ZenonT(60)
    <3> HIDE DEF size, kept, page, skipped
    <3>. QED
      BY <3>1
  <2> HIDE DEF size, kept, E, page, skipped
  <2>2. /\ Len(page.results) = Clamp(Len(kept) - skipped, 0, size)
        /\ \A n \in DOMAIN page.results : page.results[n] = kept[skipped + n]
    BY <1>3, <2>1, SliceIs
  <2>3. ASSUME NEW i \in E, NEW n \in DOMAIN page.results,
               Cardinality(Earlier(ranked, i)) + 1 = skipped + n
        PROVE  page.results[n] = ranked[i]
    BY <1>3, <2>2, <2>3
  <2>4. /\ page.total = Cardinality(E)
        /\ Len(page.results) = Clamp(Cardinality(E) - skipped, 0, size)
    BY <1>3, <2>1, <2>2
  <2>. QED
    BY <2>3, <2>4 DEF page, skipped
<1>. QED
  BY <1>4, Zenon DEF PagesAreRight

LEMMA PagesAreRightOf ==
    ASSUME input \in Case
    PROVE  PagesRight
<1> SUFFICES ASSUME Of("pages") PROVE PagesRight
  BY Zenon DEF PagesRight
<1> DEFINE ranked == input.ranked
           limit == input.limit
<1>1. ranked \in Seq(Document) /\ limit \in Nat
  BY CaseAssumption, Zenon DEF Of, Document
<1> HIDE DEF ranked, limit
<1>2. PagesAreRight(ranked, limit)
  BY <1>1, PagesRightForAll
<1>. QED
  BY <1>2, Zenon DEF PagesRight, PagesAreRight, Shown, Earlier, ranked, limit

\* Every page of every answer: the total is the number of the documents that
\* are shown, and a page holds those of its places, in the order of the
\* ranking, for every ranking and every limit.
THEOREM PagesRightHolds == Spec => []PagesRight
<1>1. input \in Case => PagesRight
  BY PagesAreRightOf
<1>. QED
  BY <1>1, InputStays, PTL

(***************************************************************************)
(* The folds of a search.  A fold whose step keeps a set ends in that set; *)
(* it is shown of each fold by itself, because a lemma cannot take the     *)
(* step as a parameter.                                                    *)
(***************************************************************************)

LEMMA TopIn ==
    ASSUME NEW n \in Nat, NEW S \in SUBSET (1 .. n), S # {}
    PROVE  Max(S) \in 1 .. n
<1>1. Max(S) \in S
  BY MaxIs
<1>. QED
  BY <1>1

AddUnseenStep(s, x) ==
    IF Contains(s, x) THEN s ELSE Append(s, x)

AddUnseenFrom(tokens, new) ==
    CHOOSE f : f = [S \in SUBSET DOMAIN new |->
                      IF S = {} THEN tokens
                      ELSE AddUnseenStep(f[S \ {Max(S)}], new[Max(S)])]

LEMMA AddUnseenStays ==
    ASSUME NEW tokens, NEW new, NEW n \in Nat, DOMAIN new = 1 .. n,
           NEW R, tokens \in R,
           \A i \in 1 .. n : \A s \in R : AddUnseenStep(s, new[i]) \in R
    PROVE  AddUnseenFrom(tokens, new)[DOMAIN new] \in R
<1> DEFINE step == [i \in 1 .. n |-> [s \in R |-> AddUnseenStep(s, new[i])]]
           g == AddUnseenFrom(tokens, new)
<1>1. Foldable(n, R, tokens, step)
  BY DEF Foldable
<1>2. PICK f : IsFoldOf(n, R, tokens, step, f)
  <2> HIDE DEF step
  <2>. QED
    BY <1>1, FoldExists
<1>3. f = [S \in SUBSET DOMAIN new |->
             IF S = {} THEN tokens
             ELSE AddUnseenStep(f[S \ {Max(S)}], new[Max(S)])]
  <2>1. ASSUME NEW S \in SUBSET (1 .. n)
        PROVE  f[S] = IF S = {} THEN tokens
                      ELSE AddUnseenStep(f[S \ {Max(S)}], new[Max(S)])
    <3>1. CASE S = {}
      BY <1>2, <3>1 DEF IsFoldOf
    <3>2. CASE S # {}
      <4>1. f[S \ {Max(S)}] \in R /\ Max(S) \in 1 .. n
        BY <1>2, <3>2, TopIn DEF IsFoldOf
      <4>2. f[S] = step[Max(S)][f[S \ {Max(S)}]]
        BY <1>2, <3>2 DEF IsFoldOf
      <4>. QED
        BY <3>2, <4>1, <4>2
    <3>. QED
      BY <3>1, <3>2
  <2>2. f \in [SUBSET (1 .. n) -> R]
    BY <1>2 DEF IsFoldOf
  <2> HIDE DEF step
  <2>. QED
    BY <2>1, <2>2
<1>4. g = [S \in SUBSET DOMAIN new |->
             IF S = {} THEN tokens
             ELSE AddUnseenStep(g[S \ {Max(S)}], new[Max(S)])]
  <2> HIDE DEF step
  <2>. QED
    BY <1>3 DEF AddUnseenFrom
<1> HIDE DEF g
<1>5. ASSUME NEW S \in SUBSET (1 .. n), S # {}, g[S \ {Max(S)}] \in R
      PROVE  g[S] = step[Max(S)][g[S \ {Max(S)}]]
  <2>1. g[S] = AddUnseenStep(g[S \ {Max(S)}], new[Max(S)])
    BY <1>4, <1>5
  <2>2. Max(S) \in 1 .. n
    BY <1>5, TopIn
  <2>. QED
    BY <1>5, <2>1, <2>2
<1>6. g[Firsts(n)] \in R
  <2>1. g[{}] = tokens
    BY <1>4
  <2> HIDE DEF step
  <2>2. FoldsTo(n, R, tokens, step, g)
    BY <1>5, <2>1 DEF FoldsTo
  <2>. QED
    BY <1>1, <2>2, FoldRuns
<1>. QED
  BY <1>6 DEF Firsts, g

LEMMA AddUnseenIs ==
    ASSUME NEW tokens, NEW new
    PROVE  AddUnseen(tokens, new) = AddUnseenFrom(tokens, new)[DOMAIN new]
  BY Zenon DEF AddUnseen, AddUnseenFrom, AddUnseenStep, FoldLeft, MapThenFoldSet

WithoutStep(dropped, s, w) ==
    IF w \in dropped THEN s ELSE Append(s, w)

WithoutFrom(words, dropped) ==
    CHOOSE f : f = [S \in SUBSET DOMAIN words |->
                      IF S = {} THEN <<>>
                      ELSE WithoutStep(dropped, f[S \ {Max(S)}], words[Max(S)])]

LEMMA WithoutStays ==
    ASSUME NEW dropped, NEW words, NEW n \in Nat, DOMAIN words = 1 .. n,
           NEW R, <<>> \in R,
           \A i \in 1 .. n : \A s \in R : WithoutStep(dropped, s, words[i]) \in R
    PROVE  WithoutFrom(words, dropped)[DOMAIN words] \in R
<1> DEFINE step == [i \in 1 .. n |-> [s \in R |-> WithoutStep(dropped, s, words[i])]]
           g == WithoutFrom(words, dropped)
<1>1. Foldable(n, R, <<>>, step)
  BY DEF Foldable
<1>2. PICK f : IsFoldOf(n, R, <<>>, step, f)
  <2> HIDE DEF step
  <2>. QED
    BY <1>1, FoldExists
<1>3. f = [S \in SUBSET DOMAIN words |->
             IF S = {} THEN <<>>
             ELSE WithoutStep(dropped, f[S \ {Max(S)}], words[Max(S)])]
  <2>1. ASSUME NEW S \in SUBSET (1 .. n)
        PROVE  f[S] = IF S = {} THEN <<>>
                      ELSE WithoutStep(dropped, f[S \ {Max(S)}], words[Max(S)])
    <3>1. CASE S = {}
      BY <1>2, <3>1 DEF IsFoldOf
    <3>2. CASE S # {}
      <4>1. f[S \ {Max(S)}] \in R /\ Max(S) \in 1 .. n
        BY <1>2, <3>2, TopIn DEF IsFoldOf
      <4>2. f[S] = step[Max(S)][f[S \ {Max(S)}]]
        BY <1>2, <3>2 DEF IsFoldOf
      <4>. QED
        BY <3>2, <4>1, <4>2
    <3>. QED
      BY <3>1, <3>2
  <2>2. f \in [SUBSET (1 .. n) -> R]
    BY <1>2 DEF IsFoldOf
  <2> HIDE DEF step
  <2>. QED
    BY <2>1, <2>2
<1>4. g = [S \in SUBSET DOMAIN words |->
             IF S = {} THEN <<>>
             ELSE WithoutStep(dropped, g[S \ {Max(S)}], words[Max(S)])]
  <2> HIDE DEF step
  <2>. QED
    BY <1>3 DEF WithoutFrom
<1> HIDE DEF g
<1>5. ASSUME NEW S \in SUBSET (1 .. n), S # {}, g[S \ {Max(S)}] \in R
      PROVE  g[S] = step[Max(S)][g[S \ {Max(S)}]]
  <2>1. g[S] = WithoutStep(dropped, g[S \ {Max(S)}], words[Max(S)])
    BY <1>4, <1>5
  <2>2. Max(S) \in 1 .. n
    BY <1>5, TopIn
  <2>. QED
    BY <1>5, <2>1, <2>2
<1>6. g[Firsts(n)] \in R
  <2>1. g[{}] = <<>>
    BY <1>4
  <2> HIDE DEF step
  <2>2. FoldsTo(n, R, <<>>, step, g)
    BY <1>5, <2>1 DEF FoldsTo
  <2>. QED
    BY <1>1, <2>2, FoldRuns
<1>. QED
  BY <1>6 DEF Firsts, g

LEMMA WithoutIs ==
    ASSUME NEW words, NEW dropped
    PROVE  Without(words, dropped) = WithoutFrom(words, dropped)[DOMAIN words]
  BY Zenon DEF Without, WithoutFrom, WithoutStep, FoldLeft, MapThenFoldSet

AddBlank(s) == IF s = <<>> \/ Last(s) = " " THEN s ELSE Append(s, " ")

PlainStep(s, c) ==
    IF c \in Apostrophes THEN s
    ELSE IF c \in Blank THEN AddBlank(s)
    ELSE Append(s, Lower(c))

PlainFrom(text) ==
    CHOOSE f : f = [S \in SUBSET DOMAIN text |->
                      IF S = {} THEN <<>>
                      ELSE PlainStep(f[S \ {Max(S)}], text[Max(S)])]

LEMMA PlainStays ==
    ASSUME NEW text, NEW n \in Nat, DOMAIN text = 1 .. n,
           NEW R, <<>> \in R,
           \A i \in 1 .. n : \A s \in R : PlainStep(s, text[i]) \in R
    PROVE  PlainFrom(text)[DOMAIN text] \in R
<1> DEFINE step == [i \in 1 .. n |-> [s \in R |-> PlainStep(s, text[i])]]
           g == PlainFrom(text)
<1>1. Foldable(n, R, <<>>, step)
  BY DEF Foldable
<1>2. PICK f : IsFoldOf(n, R, <<>>, step, f)
  <2> HIDE DEF step
  <2>. QED
    BY <1>1, FoldExists
<1>3. f = [S \in SUBSET DOMAIN text |->
             IF S = {} THEN <<>>
             ELSE PlainStep(f[S \ {Max(S)}], text[Max(S)])]
  <2>1. ASSUME NEW S \in SUBSET (1 .. n)
        PROVE  f[S] = IF S = {} THEN <<>>
                      ELSE PlainStep(f[S \ {Max(S)}], text[Max(S)])
    <3>1. CASE S = {}
      BY <1>2, <3>1 DEF IsFoldOf
    <3>2. CASE S # {}
      <4>1. f[S \ {Max(S)}] \in R /\ Max(S) \in 1 .. n
        BY <1>2, <3>2, TopIn DEF IsFoldOf
      <4>2. f[S] = step[Max(S)][f[S \ {Max(S)}]]
        BY <1>2, <3>2 DEF IsFoldOf
      <4>. QED
        BY <3>2, <4>1, <4>2
    <3>. QED
      BY <3>1, <3>2
  <2>2. f \in [SUBSET (1 .. n) -> R]
    BY <1>2 DEF IsFoldOf
  <2> HIDE DEF step
  <2>. QED
    BY <2>1, <2>2
<1>4. g = [S \in SUBSET DOMAIN text |->
             IF S = {} THEN <<>>
             ELSE PlainStep(g[S \ {Max(S)}], text[Max(S)])]
  <2> HIDE DEF step
  <2>. QED
    BY <1>3 DEF PlainFrom
<1> HIDE DEF g
<1>5. ASSUME NEW S \in SUBSET (1 .. n), S # {}, g[S \ {Max(S)}] \in R
      PROVE  g[S] = step[Max(S)][g[S \ {Max(S)}]]
  <2>1. g[S] = PlainStep(g[S \ {Max(S)}], text[Max(S)])
    BY <1>4, <1>5
  <2>2. Max(S) \in 1 .. n
    BY <1>5, TopIn
  <2>. QED
    BY <1>5, <2>1, <2>2
<1>6. g[Firsts(n)] \in R
  <2>1. g[{}] = <<>>
    BY <1>4
  <2> HIDE DEF step
  <2>2. FoldsTo(n, R, <<>>, step, g)
    BY <1>5, <2>1 DEF FoldsTo
  <2>. QED
    BY <1>1, <2>2, FoldRuns
<1>. QED
  BY <1>6 DEF Firsts, g

LEMMA PlainIs ==
    ASSUME NEW text
    PROVE  Normalize(text) =
             LET end == PlainFrom(text)[DOMAIN text]
             IN IF end # <<>> /\ Last(end) = " " THEN SubSeq(end, 1, Len(end) - 1) ELSE end
  BY Zenon DEF Normalize, AddBlank, PlainFrom, PlainStep, FoldLeft, MapThenFoldSet

WordsStep(s, c) ==
    IF c = " " THEN Append(s, <<>>) ELSE [s EXCEPT ![Len(s)] = Append(@, c)]

WordsFrom(normalized) ==
    CHOOSE f : f = [S \in SUBSET DOMAIN normalized |->
                      IF S = {} THEN << <<>> >>
                      ELSE WordsStep(f[S \ {Max(S)}], normalized[Max(S)])]

LEMMA WordsStays ==
    ASSUME NEW normalized, NEW n \in Nat, DOMAIN normalized = 1 .. n,
           NEW R, << <<>> >> \in R,
           \A i \in 1 .. n : \A s \in R : WordsStep(s, normalized[i]) \in R
    PROVE  WordsFrom(normalized)[DOMAIN normalized] \in R
<1> DEFINE step == [i \in 1 .. n |-> [s \in R |-> WordsStep(s, normalized[i])]]
           g == WordsFrom(normalized)
<1>1. Foldable(n, R, << <<>> >>, step)
  BY DEF Foldable
<1>2. PICK f : IsFoldOf(n, R, << <<>> >>, step, f)
  <2> HIDE DEF step
  <2>. QED
    BY <1>1, FoldExists
<1>3. f = [S \in SUBSET DOMAIN normalized |->
             IF S = {} THEN << <<>> >>
             ELSE WordsStep(f[S \ {Max(S)}], normalized[Max(S)])]
  <2>1. ASSUME NEW S \in SUBSET (1 .. n)
        PROVE  f[S] = IF S = {} THEN << <<>> >>
                      ELSE WordsStep(f[S \ {Max(S)}], normalized[Max(S)])
    <3>1. CASE S = {}
      BY <1>2, <3>1 DEF IsFoldOf
    <3>2. CASE S # {}
      <4>1. f[S \ {Max(S)}] \in R /\ Max(S) \in 1 .. n
        BY <1>2, <3>2, TopIn DEF IsFoldOf
      <4>2. f[S] = step[Max(S)][f[S \ {Max(S)}]]
        BY <1>2, <3>2 DEF IsFoldOf
      <4>. QED
        BY <3>2, <4>1, <4>2
    <3>. QED
      BY <3>1, <3>2
  <2>2. f \in [SUBSET (1 .. n) -> R]
    BY <1>2 DEF IsFoldOf
  <2> HIDE DEF step
  <2>. QED
    BY <2>1, <2>2
<1>4. g = [S \in SUBSET DOMAIN normalized |->
             IF S = {} THEN << <<>> >>
             ELSE WordsStep(g[S \ {Max(S)}], normalized[Max(S)])]
  <2> HIDE DEF step
  <2>. QED
    BY <1>3 DEF WordsFrom
<1> HIDE DEF g
<1>5. ASSUME NEW S \in SUBSET (1 .. n), S # {}, g[S \ {Max(S)}] \in R
      PROVE  g[S] = step[Max(S)][g[S \ {Max(S)}]]
  <2>1. g[S] = WordsStep(g[S \ {Max(S)}], normalized[Max(S)])
    BY <1>4, <1>5
  <2>2. Max(S) \in 1 .. n
    BY <1>5, TopIn
  <2>. QED
    BY <1>5, <2>1, <2>2
<1>6. g[Firsts(n)] \in R
  <2>1. g[{}] = << <<>> >>
    BY <1>4
  <2> HIDE DEF step
  <2>2. FoldsTo(n, R, << <<>> >>, step, g)
    BY <1>5, <2>1 DEF FoldsTo
  <2>. QED
    BY <1>1, <2>2, FoldRuns
<1>. QED
  BY <1>6 DEF Firsts, g

LEMMA WordsIs ==
    ASSUME NEW normalized
    PROVE  Tokenize(normalized) = Without(WordsFrom(normalized)[DOMAIN normalized], {<<>>})
  BY Zenon DEF Tokenize, WordsFrom, WordsStep, FoldLeft, MapThenFoldSet

ProcessStep(s, w) == AddUnseen(s, WithSynonyms(Stem(w)))

ProcessFrom(words) ==
    CHOOSE f : f = [S \in SUBSET DOMAIN words |->
                      IF S = {} THEN <<>>
                      ELSE ProcessStep(f[S \ {Max(S)}], words[Max(S)])]

LEMMA ProcessStays ==
    ASSUME NEW words, NEW n \in Nat, DOMAIN words = 1 .. n,
           NEW R, <<>> \in R,
           \A i \in 1 .. n : \A s \in R : ProcessStep(s, words[i]) \in R
    PROVE  ProcessFrom(words)[DOMAIN words] \in R
<1> DEFINE step == [i \in 1 .. n |-> [s \in R |-> ProcessStep(s, words[i])]]
           g == ProcessFrom(words)
<1>1. Foldable(n, R, <<>>, step)
  BY DEF Foldable
<1>2. PICK f : IsFoldOf(n, R, <<>>, step, f)
  <2> HIDE DEF step
  <2>. QED
    BY <1>1, FoldExists
<1>3. f = [S \in SUBSET DOMAIN words |->
             IF S = {} THEN <<>>
             ELSE ProcessStep(f[S \ {Max(S)}], words[Max(S)])]
  <2>1. ASSUME NEW S \in SUBSET (1 .. n)
        PROVE  f[S] = IF S = {} THEN <<>>
                      ELSE ProcessStep(f[S \ {Max(S)}], words[Max(S)])
    <3>1. CASE S = {}
      BY <1>2, <3>1 DEF IsFoldOf
    <3>2. CASE S # {}
      <4>1. f[S \ {Max(S)}] \in R /\ Max(S) \in 1 .. n
        BY <1>2, <3>2, TopIn DEF IsFoldOf
      <4>2. f[S] = step[Max(S)][f[S \ {Max(S)}]]
        BY <1>2, <3>2 DEF IsFoldOf
      <4>. QED
        BY <3>2, <4>1, <4>2
    <3>. QED
      BY <3>1, <3>2
  <2>2. f \in [SUBSET (1 .. n) -> R]
    BY <1>2 DEF IsFoldOf
  <2> HIDE DEF step
  <2>. QED
    BY <2>1, <2>2
<1>4. g = [S \in SUBSET DOMAIN words |->
             IF S = {} THEN <<>>
             ELSE ProcessStep(g[S \ {Max(S)}], words[Max(S)])]
  <2> HIDE DEF step
  <2>. QED
    BY <1>3 DEF ProcessFrom
<1> HIDE DEF g
<1>5. ASSUME NEW S \in SUBSET (1 .. n), S # {}, g[S \ {Max(S)}] \in R
      PROVE  g[S] = step[Max(S)][g[S \ {Max(S)}]]
  <2>1. g[S] = ProcessStep(g[S \ {Max(S)}], words[Max(S)])
    BY <1>4, <1>5
  <2>2. Max(S) \in 1 .. n
    BY <1>5, TopIn
  <2>. QED
    BY <1>5, <2>1, <2>2
<1>6. g[Firsts(n)] \in R
  <2>1. g[{}] = <<>>
    BY <1>4
  <2> HIDE DEF step
  <2>2. FoldsTo(n, R, <<>>, step, g)
    BY <1>5, <2>1 DEF FoldsTo
  <2>. QED
    BY <1>1, <2>2, FoldRuns
<1>. QED
  BY <1>6 DEF Firsts, g

LEMMA ProcessIs ==
    ASSUME NEW text
    PROVE  LET words == Without(Tokenize(Normalize(text)), Stopwords)
           IN Process(text) = ProcessFrom(words)[DOMAIN words]
  BY Zenon DEF Process, ProcessFrom, ProcessStep, FoldLeft, MapThenFoldSet

ExpandStep(index, s, t) ==
    IF Len(t) >= 4 /\ PostingsFromToken(index, t) = {} THEN AddUnseen(s, Expansions(index, t)) ELSE s

ExpandFrom(index, tokens) ==
    CHOOSE f : f = [S \in SUBSET DOMAIN tokens |->
                      IF S = {} THEN tokens
                      ELSE ExpandStep(index, f[S \ {Max(S)}], tokens[Max(S)])]

LEMMA ExpandStays ==
    ASSUME NEW index, NEW tokens, NEW n \in Nat, DOMAIN tokens = 1 .. n,
           NEW R, tokens \in R,
           \A i \in 1 .. n : \A s \in R : ExpandStep(index, s, tokens[i]) \in R
    PROVE  ExpandFrom(index, tokens)[DOMAIN tokens] \in R
<1> DEFINE step == [i \in 1 .. n |-> [s \in R |-> ExpandStep(index, s, tokens[i])]]
           g == ExpandFrom(index, tokens)
<1>1. Foldable(n, R, tokens, step)
  BY DEF Foldable
<1>2. PICK f : IsFoldOf(n, R, tokens, step, f)
  <2> HIDE DEF step
  <2>. QED
    BY <1>1, FoldExists
<1>3. f = [S \in SUBSET DOMAIN tokens |->
             IF S = {} THEN tokens
             ELSE ExpandStep(index, f[S \ {Max(S)}], tokens[Max(S)])]
  <2>1. ASSUME NEW S \in SUBSET (1 .. n)
        PROVE  f[S] = IF S = {} THEN tokens
                      ELSE ExpandStep(index, f[S \ {Max(S)}], tokens[Max(S)])
    <3>1. CASE S = {}
      BY <1>2, <3>1 DEF IsFoldOf
    <3>2. CASE S # {}
      <4>1. f[S \ {Max(S)}] \in R /\ Max(S) \in 1 .. n
        BY <1>2, <3>2, TopIn DEF IsFoldOf
      <4>2. f[S] = step[Max(S)][f[S \ {Max(S)}]]
        BY <1>2, <3>2 DEF IsFoldOf
      <4>. QED
        BY <3>2, <4>1, <4>2
    <3>. QED
      BY <3>1, <3>2
  <2>2. f \in [SUBSET (1 .. n) -> R]
    BY <1>2 DEF IsFoldOf
  <2> HIDE DEF step
  <2>. QED
    BY <2>1, <2>2
<1>4. g = [S \in SUBSET DOMAIN tokens |->
             IF S = {} THEN tokens
             ELSE ExpandStep(index, g[S \ {Max(S)}], tokens[Max(S)])]
  <2> HIDE DEF step
  <2>. QED
    BY <1>3 DEF ExpandFrom
<1> HIDE DEF g
<1>5. ASSUME NEW S \in SUBSET (1 .. n), S # {}, g[S \ {Max(S)}] \in R
      PROVE  g[S] = step[Max(S)][g[S \ {Max(S)}]]
  <2>1. g[S] = ExpandStep(index, g[S \ {Max(S)}], tokens[Max(S)])
    BY <1>4, <1>5
  <2>2. Max(S) \in 1 .. n
    BY <1>5, TopIn
  <2>. QED
    BY <1>5, <2>1, <2>2
<1>6. g[Firsts(n)] \in R
  <2>1. g[{}] = tokens
    BY <1>4
  <2> HIDE DEF step
  <2>2. FoldsTo(n, R, tokens, step, g)
    BY <1>5, <2>1 DEF FoldsTo
  <2>. QED
    BY <1>1, <2>2, FoldRuns
<1>. QED
  BY <1>6 DEF Firsts, g

LEMMA ExpandIs ==
    ASSUME NEW index, NEW tokens
    PROVE  ExpandWithFuzzyTokens(index, tokens) = ExpandFrom(index, tokens)[DOMAIN tokens]
  BY Zenon DEF ExpandWithFuzzyTokens, ExpandFrom, ExpandStep, FoldLeft, MapThenFoldSet

(***************************************************************************)
(* The tokens of a query: sequences of texts without repeats.              *)
(***************************************************************************)

Texts == Seq(Char)

Tokens(A) == {s \in Seq(A) : \A i, j \in DOMAIN s : i # j => s[i] # s[j]}

LEMMA AddUnseenIn ==
    ASSUME NEW A, NEW tokens \in Tokens(A), NEW new \in Seq(A)
    PROVE  AddUnseen(tokens, new) \in Tokens(A)
<1> DEFINE n == Len(new)
<1>1. n \in Nat /\ DOMAIN new = 1 .. n /\ \A i \in 1 .. n : new[i] \in A
  BY LenProperties, ElementOfSeq
<1>2. ASSUME NEW x \in A, NEW s \in Tokens(A)
      PROVE  AddUnseenStep(s, x) \in Tokens(A)
  <2>1. CASE Contains(s, x)
    BY <2>1 DEF AddUnseenStep
  <2>2. CASE ~ Contains(s, x)
    <3> DEFINE t == Append(s, x)
               l == Len(s)
    <3>1. /\ s \in Seq(A) /\ l \in Nat /\ DOMAIN s = 1 .. l
          /\ \A i, j \in 1 .. l : i # j => s[i] # s[j]
      BY LenProperties DEF Tokens
    <3>2. \A i \in 1 .. l : s[i] # x
      BY <2>2 DEF Contains
    <3>3. /\ t \in Seq(A) /\ Len(t) = l + 1
          /\ \A i \in 1 .. l : t[i] = s[i]
          /\ t[l + 1] = x
      BY <3>1, AppendProperties
    <3>4. DOMAIN t = 1 .. l + 1
      BY <3>1, <3>3, LenProperties
    <3> HIDE DEF t, l
    <3>5. ASSUME NEW i \in 1 .. l + 1, NEW j \in 1 .. l + 1, i # j
          PROVE  t[i] # t[j]
      <4>1. (i = l + 1 \/ i \in 1 .. l) /\ (j = l + 1 \/ j \in 1 .. l)
        BY <3>1
      <4>. QED
        BY <3>1, <3>2, <3>3, <3>5, <4>1
    <3>6. t \in Tokens(A)
      BY <3>3, <3>4, <3>5 DEF Tokens
    <3>. QED
      BY <2>2, <3>6 DEF AddUnseenStep, t
  <2>. QED
    BY <2>1, <2>2
<1> HIDE DEF n
<1>3. \A i \in 1 .. n : \A s \in Tokens(A) : AddUnseenStep(s, new[i]) \in Tokens(A)
  BY <1>1, <1>2
<1>4. AddUnseenFrom(tokens, new)[DOMAIN new] \in Tokens(A)
  BY <1>1, <1>3, AddUnseenStays
<1>. QED
  BY <1>4, AddUnseenIs

LEMMA WithoutIn ==
    ASSUME NEW words \in Seq(Texts), NEW dropped
    PROVE  Without(words, dropped) \in Seq(Texts)
<1> DEFINE n == Len(words)
           R == Seq(Texts)
<1>1. n \in Nat /\ DOMAIN words = 1 .. n /\ \A i \in 1 .. n : words[i] \in Texts
  BY LenProperties, ElementOfSeq
<1>2. <<>> \in R
  OBVIOUS
<1>3. ASSUME NEW w \in Texts, NEW s \in R
      PROVE  WithoutStep(dropped, s, w) \in R
  <2>1. Append(s, w) \in R
    BY AppendProperties
  <2> HIDE DEF R
  <2>. QED
    BY <2>1 DEF WithoutStep
<1> HIDE DEF n, R
<1>4. \A i \in 1 .. n : \A s \in R : WithoutStep(dropped, s, words[i]) \in R
  BY <1>1, <1>3
<1>5. WithoutFrom(words, dropped)[DOMAIN words] \in R
  BY <1>1, <1>2, <1>4, WithoutStays
<1>. QED
  BY <1>5, WithoutIs DEF R

LEMMA NormalizeIn ==
    ASSUME NEW text \in Texts
    PROVE  Normalize(text) \in Texts
<1> DEFINE n == Len(text)
<1>1. n \in Nat /\ DOMAIN text = 1 .. n /\ \A i \in 1 .. n : text[i] \in Char
  BY LenProperties, ElementOfSeq DEF Texts
<1>2. <<>> \in Texts
  BY DEF Texts
<1>3. ASSUME NEW c \in Char, NEW s \in Texts
      PROVE  PlainStep(s, c) \in Texts
  <2>5. " " \in Char
    BY Zenon DEF Char
  <2>1. Append(s, " ") \in Texts
    BY <2>5, AppendProperties, Zenon DEF Texts
  <2>2. Lower(c) \in Char
    BY DEF Lower, Char
  <2>3. Append(s, Lower(c)) \in Texts
    BY <2>2, AppendProperties DEF Texts
  <2>4. AddBlank(s) \in Texts
    BY <2>1, Zenon DEF AddBlank
  <2>. QED
    BY <2>3, <2>4, Zenon DEF PlainStep
<1> HIDE DEF n
<1>4. \A i \in 1 .. n : \A s \in Texts : PlainStep(s, text[i]) \in Texts
  BY <1>1, <1>3
<1> DEFINE end == PlainFrom(text)[DOMAIN text]
<1>5. end \in Texts
  BY <1>1, <1>2, <1>4, PlainStays
<1>6. Normalize(text) = IF end # <<>> /\ Last(end) = " " THEN SubSeq(end, 1, Len(end) - 1) ELSE end
  BY PlainIs
<1> HIDE DEF end
<1>7. SubSeq(end, 1, Len(end) - 1) \in Texts
  <2> DEFINE l == Len(end)
  <2>1. l \in Nat /\ \A i \in 1 .. l : end[i] \in Char
    BY <1>5, LenProperties, ElementOfSeq DEF Texts
  <2> HIDE DEF l
  <2>2. 1 \in Int /\ l - 1 \in Int /\ \A i \in 1 .. l - 1 : end[i] \in Char
    BY <2>1
  <2>3. SubSeq(end, 1, l - 1) \in Texts
    BY <2>2, SubSeqProperties DEF Texts
  <2>. QED
    BY <2>3 DEF l
<1>. QED
  BY <1>5, <1>6, <1>7, Zenon

LEMMA TokenizeIn ==
    ASSUME NEW text \in Texts
    PROVE  Tokenize(text) \in Seq(Texts)
<1> DEFINE n == Len(text)
           R == {s \in Seq(Texts) : Len(s) # 0}
<1>1. n \in Nat /\ DOMAIN text = 1 .. n /\ \A i \in 1 .. n : text[i] \in Char
  BY LenProperties, ElementOfSeq DEF Texts
<1>2. <<>> \in Texts
  BY DEF Texts
<1>3. << <<>> >> \in R
  BY <1>2
<1>4. ASSUME NEW c \in Char, NEW s \in R
      PROVE  WordsStep(s, c) \in R
  <2> DEFINE l == Len(s)
  <2>1. s \in Seq(Texts) /\ l \in Nat /\ l \in 1 .. l
    BY LenProperties
  <2>2. Append(s, <<>>) \in R
    BY <1>2, <2>1, AppendProperties
  <2>3. s[l] \in Texts
    BY <2>1, ElementOfSeq
  <2>4. Append(s[l], c) \in Texts
    BY <2>3, AppendProperties DEF Texts
  <2> DEFINE w == Append(s[l], c)
  <2> HIDE DEF l, w
  <2>5. w \in Texts /\ l \in 1 .. Len(s)
    BY <2>1, <2>4 DEF l, w
  <2>7. [s EXCEPT ![l] = w] \in Seq(Texts) /\ Len([s EXCEPT ![l] = w]) = Len(s)
    BY <2>1, <2>5, ExceptSeq
  <2>6. [s EXCEPT ![l] = w] \in R
    BY <2>7
  <2> HIDE DEF R
  <2>. QED
    BY <2>2, <2>6, Zenon DEF WordsStep, l, w
<1> HIDE DEF n, R
<1>5. \A i \in 1 .. n : \A s \in R : WordsStep(s, text[i]) \in R
  BY <1>1, <1>4
<1>6. WordsFrom(text)[DOMAIN text] \in R
  BY <1>1, <1>3, <1>5, WordsStays
<1>7. WordsFrom(text)[DOMAIN text] \in Seq(Texts)
  BY <1>6 DEF R
<1>. QED
  BY <1>7, WordsIs, WithoutIn

LEMMA StemIn ==
    ASSUME NEW token \in Texts
    PROVE  Stem(token) \in Texts
<1> DEFINE l == Len(token)
<1>1. l \in Nat /\ \A i \in 1 .. l : token[i] \in Char
  BY LenProperties, ElementOfSeq DEF Texts
<1>2. ASSUME NEW k \in Nat PROVE Cut(token, k) \in Texts
  <2> HIDE DEF l
  <2>1. 1 \in Int /\ l - k \in Int /\ \A i \in 1 .. l - k : token[i] \in Char
    BY <1>1
  <2>2. SubSeq(token, 1, l - k) \in Texts
    BY <2>1, SubSeqProperties DEF Texts
  <2>. QED
    BY <2>2 DEF Cut, l
<1>3. Cut(token, 1) \in Texts /\ Cut(token, 2) \in Texts /\ Cut(token, 3) \in Texts
  BY <1>2
<1>4. Cut(token, 3) \o <<"y">> \in Texts
  <2>2. "y" \in Char
    BY Zenon DEF Char
  <2>1. <<"y">> \in Texts
    BY <2>2, Single DEF Texts
  <2>. QED
    BY <1>3, <2>1, ConcatProperties DEF Texts
<1>. QED
  BY <1>3, <1>4, Zenon DEF Stem

LEMMA WithSynonymsIn ==
    ASSUME NEW token \in Texts
    PROVE  WithSynonyms(token) \in Seq(Texts)
<1>1. <<token>> \in Seq(Texts) /\ <<>> \in Seq(Texts)
  OBVIOUS
<1>2. token \in DOMAIN Synonyms => Synonyms[token] \in Seq(Texts)
  <2>1. Seq(STRING) \subseteq Texts
    BY TextIn DEF Texts, IsText
  <2>2. Seq(Seq(STRING)) \subseteq Seq(Texts)
    BY <2>1, SeqMonotone
  <2>. QED
    BY <2>2, SynonymsAssumption, Zenon
<1> DEFINE more == IF token \in DOMAIN Synonyms THEN Synonyms[token] ELSE <<>>
<1>3. more \in Seq(Texts)
  BY <1>1, <1>2, Zenon
<1>4. WithSynonyms(token) = <<token>> \o more
  BY DEF WithSynonyms
<1> HIDE DEF more
<1>. QED
  BY <1>1, <1>3, <1>4, ConcatProperties

LEMMA ProcessIn ==
    ASSUME NEW text \in Texts
    PROVE  Process(text) \in Tokens(Texts)
<1> DEFINE words == Without(Tokenize(Normalize(text)), Stopwords)
           n == Len(words)
<1>1. words \in Seq(Texts)
  BY NormalizeIn, TokenizeIn, WithoutIn
<1> HIDE DEF words
<1>2. n \in Nat /\ DOMAIN words = 1 .. n /\ \A i \in 1 .. n : words[i] \in Texts
  BY <1>1, LenProperties, ElementOfSeq
<1>3. <<>> \in Tokens(Texts)
  BY DEF Tokens
<1>4. ASSUME NEW w \in Texts, NEW s \in Tokens(Texts)
      PROVE  ProcessStep(s, w) \in Tokens(Texts)
  BY StemIn, WithSynonymsIn, AddUnseenIn DEF ProcessStep
<1> HIDE DEF n
<1>5. \A i \in 1 .. n : \A s \in Tokens(Texts) : ProcessStep(s, words[i]) \in Tokens(Texts)
  BY <1>2, <1>4
<1>6. ProcessFrom(words)[DOMAIN words] \in Tokens(Texts)
  BY <1>2, <1>3, <1>5, ProcessStays
<1>. QED
  BY <1>6, ProcessIs DEF words

(***************************************************************************)
(* The index: finitely many documents, each with finitely many terms.      *)
(***************************************************************************)

LEMMA ImageFinite ==
    ASSUME NEW S, IsFiniteSet(S), NEW f, DOMAIN f = S, f = [x \in S |-> f[x]]
    PROVE  IsFiniteSet({f[x] : x \in S}) /\ Cardinality({f[x] : x \in S}) <= Cardinality(S)
<1> DEFINE T == {f[x] : x \in S}
<1>1. f \in [S -> T]
  OBVIOUS
<1>2. \A t \in T : \E x \in S : f[x] = t
  OBVIOUS
<1> HIDE DEF T
<1>3. f \in Surjection(S, T)
  BY <1>1, <1>2 DEF Surjection
<1>. QED
  BY <1>3, FS_Surjection DEF T

IndexFine(index) ==
    /\ IsFiniteSet(index)
    /\ \A d \in index : \A f \in Fields : d[f] \in Texts

LEMMA TermsIn ==
    ASSUME NEW d, \A f \in Fields : d[f] \in Texts
    PROVE  Terms(d) \subseteq Texts /\ IsFiniteSet(Terms(d))
<1> DEFINE T == [f \in Fields |-> ToSet(Process(d[f]))]
<1>1. IsFiniteSet(Fields)
  <2>1. IsFiniteSet({"body"}) /\ IsFiniteSet({"title"})
        /\ IsFiniteSet({"description"}) /\ IsFiniteSet({"url"})
    BY FS_Singleton
  <2>2. Fields = ({"body"} \cup {"title"}) \cup ({"description"} \cup {"url"})
    BY DEF Fields
  <2>. QED
    BY <2>1, <2>2, FS_Union
<1>2. ASSUME NEW f \in Fields
      PROVE  ToSet(Process(d[f])) \subseteq Texts /\ IsFiniteSet(ToSet(Process(d[f])))
  <2> DEFINE s == Process(d[f])
             n == Len(s)
  <2>1. s \in Seq(Texts)
    BY ProcessIn DEF Tokens
  <2> HIDE DEF s
  <2>2. n \in Nat /\ DOMAIN s = 1 .. n /\ s = [i \in 1 .. n |-> s[i]] /\ \A i \in 1 .. n : s[i] \in Texts
    BY <2>1, LenProperties, ElementOfSeq
  <2> HIDE DEF n
  <2>3. IsFiniteSet(1 .. n)
    BY <2>2, FS_Interval
  <2>4. IsFiniteSet({s[i] : i \in 1 .. n})
    BY <2>2, <2>3, ImageFinite
  <2>5. ToSet(s) = {s[i] : i \in 1 .. n}
    BY <2>2 DEF ToSet
  <2>. QED
    BY <2>2, <2>4, <2>5 DEF s
<1>3. DOMAIN T = Fields /\ T = [f \in Fields |-> T[f]]
  OBVIOUS
<1>4. \A f \in Fields : T[f] = ToSet(Process(d[f]))
  OBVIOUS
<1> HIDE DEF T
<1>5. IsFiniteSet({T[f] : f \in Fields})
  BY <1>1, <1>3, ImageFinite
<1>6. \A t \in {T[f] : f \in Fields} : IsFiniteSet(t)
  BY <1>2, <1>4
<1>7. IsFiniteSet(UNION {T[f] : f \in Fields})
  BY <1>5, <1>6, FS_UNION
<1>8. Terms(d) = UNION {T[f] : f \in Fields}
  BY <1>4 DEF Terms
<1>9. Terms(d) \subseteq Texts
  BY <1>2, <1>4, <1>8
<1>. QED
  BY <1>7, <1>8, <1>9

LEMMA VocabularyIn ==
    ASSUME NEW index, IndexFine(index)
    PROVE  Vocabulary(index) \subseteq Texts /\ IsFiniteSet(Vocabulary(index))
<1> DEFINE T == [d \in index |-> Terms(d)]
<1>1. IsFiniteSet(index) /\ \A d \in index : Terms(d) \subseteq Texts /\ IsFiniteSet(Terms(d))
  BY TermsIn DEF IndexFine
<1>2. DOMAIN T = index /\ T = [d \in index |-> T[d]] /\ \A d \in index : T[d] = Terms(d)
  OBVIOUS
<1> HIDE DEF T
<1>3. IsFiniteSet({T[d] : d \in index})
  BY <1>1, <1>2, ImageFinite
<1>4. IsFiniteSet(UNION {T[d] : d \in index})
  BY <1>1, <1>2, <1>3, FS_UNION
<1>5. Vocabulary(index) = UNION {T[d] : d \in index}
  BY <1>2 DEF Vocabulary
<1>. QED
  BY <1>1, <1>2, <1>4, <1>5

RowsFine(rows) ==
    /\ IsFiniteSet(rows)
    /\ \A row \in rows :
         /\ row.url \in Texts
         /\ row.parsed \subseteq [body : Texts, title : Texts, description : Texts]

LEMMA JoinedIn ==
    ASSUME NEW row, row.url \in Texts, row.parsed # {},
           row.parsed \subseteq [body : Texts, title : Texts, description : Texts]
    PROVE  \A f \in Fields : Joined(row)[f] \in Texts
<1> DEFINE parsed == Value(row.parsed, {})
           j == Joined(row)
<1>1. parsed \in row.parsed
  BY DEF Value
<1>2. parsed \in [body : Texts, title : Texts, description : Texts]
  BY <1>1
<1> HIDE DEF parsed
<1>3. parsed.body \in Texts /\ parsed.title \in Texts /\ parsed.description \in Texts
  BY <1>2
<1>4. /\ j["body"] = parsed.body /\ j["title"] = parsed.title
      /\ j["description"] = parsed.description /\ j["url"] = row.url
  BY DEF Joined, parsed
<1> HIDE DEF j
<1>5. \A f \in Fields : j[f] \in Texts
  BY <1>3, <1>4 DEF Fields
<1>. QED
  BY <1>5 DEF j

LEMMA LoadIn ==
    ASSUME NEW rows, RowsFine(rows)
    PROVE  IndexFine(Load(rows))
<1> DEFINE S == {r \in rows : r.url # <<>> /\ r.parsed # {}}
           J == [r \in S |-> Joined(r)]
<1>1. IsFiniteSet(S)
  BY FS_Subset DEF RowsFine
<1>2. DOMAIN J = S /\ J = [r \in S |-> J[r]] /\ \A r \in S : J[r] = Joined(r)
  OBVIOUS
<1>3. \A r \in S : \A f \in Fields : Joined(r)[f] \in Texts
  <2>1. \A r \in S : /\ r.url \in Texts /\ r.parsed # {}
                     /\ r.parsed \subseteq [body : Texts, title : Texts, description : Texts]
    BY DEF RowsFine
  <2> HIDE DEF S
  <2>. QED
    BY <2>1, JoinedIn
<1>4. SearchDocuments(rows) = {Joined(r) : r \in S}
  BY Zenon DEF SearchDocuments
<1> HIDE DEF S, J
<1>5. SearchDocuments(rows) = {J[r] : r \in S}
  BY <1>2, <1>4
<1>6. IsFiniteSet(SearchDocuments(rows))
  BY <1>1, <1>2, <1>5, ImageFinite
<1>7. Load(rows) \in SUBSET SearchDocuments(rows)
  BY DEF Load
<1>8. IsFiniteSet(Load(rows))
  BY <1>6, <1>7, FS_Subset
<1>9. \A d \in Load(rows) : \A f \in Fields : d[f] \in Texts
  BY <1>3, <1>4, <1>7
<1>. QED
  BY <1>8, <1>9 DEF IndexFine

(***************************************************************************)
(* The words that are tried for an unknown token: the vocabulary near it,  *)
(* in the order of the distances.                                          *)
(***************************************************************************)

\* An enumeration of a set without repeats, in the order of a measure.
Ascending(S, h, s) ==
    /\ s \in [1 .. Cardinality(S) -> S]
    /\ \A i, j \in 1 .. Cardinality(S) : i # j => s[i] # s[j]
    /\ \A i, j \in 1 .. Cardinality(S) : i < j => h[s[i]] <= h[s[j]]

LEMMA Largest ==
    ASSUME NEW S, S # {}, NEW h, \A x \in S : h[x] \in 0 .. 2
    PROVE  \E x \in S : \A y \in S : h[y] <= h[x]
<1> DEFINE T == {2 - h[x] : x \in S}
<1>1. T \in SUBSET Nat /\ T # {}
  OBVIOUS
<1>2. PICK n \in T : \A k \in T : n <= k
  <2> HIDE DEF T
  <2>. QED
    BY <1>1, LeastOf
<1>3. PICK x \in S : n = 2 - h[x]
  BY <1>2
<1>4. \A y \in S : 2 - h[x] <= 2 - h[y]
  BY <1>2, <1>3
<1>. QED
  BY <1>3, <1>4

LEMMA AscendingStep ==
    ASSUME NEW S, IsFiniteSet(S), NEW h, \A x \in S : h[x] \in 0 .. 2,
           NEW x \in S, \A y \in S : h[y] <= h[x],
           NEW r, Ascending(S \ {x}, h, r)
    PROVE  \E s : Ascending(S, h, s)
<1> DEFINE n == Cardinality(S)
           T == S \ {x}
           s == [i \in 1 .. n |-> IF i = n THEN x ELSE r[i]]
<1>1. n \in Nat /\ Cardinality(T) = n - 1
  BY FS_CardinalityType, FS_RemoveElement
<1>2. /\ \A i \in 1 .. n - 1 : r[i] \in T
      /\ \A i, j \in 1 .. n - 1 : i # j => r[i] # r[j]
      /\ \A i, j \in 1 .. n - 1 : i < j => h[r[i]] <= h[r[j]]
  BY <1>1 DEF Ascending
<1>3. \A i \in 1 .. n : i = n \/ i \in 1 .. n - 1
  BY <1>1
<1> HIDE DEF n
<1>4. \A i \in 1 .. n : s[i] = IF i = n THEN x ELSE r[i]
  OBVIOUS
<1>5. s \in [1 .. n -> S]
  BY <1>2, <1>3
<1> HIDE DEF s
<1>6. ASSUME NEW i \in 1 .. n, NEW j \in 1 .. n, i # j PROVE s[i] # s[j]
  BY <1>2, <1>3, <1>4, <1>6
<1>7. ASSUME NEW i \in 1 .. n, NEW j \in 1 .. n, i < j PROVE h[s[i]] <= h[s[j]]
  <2>1. i \in 1 .. n - 1 /\ i # n
    BY <1>1, <1>7
  <2>2. s[i] = r[i] /\ r[i] \in S
    BY <1>2, <1>4, <2>1
  <2>3. CASE j = n
    BY <1>4, <2>2, <2>3
  <2>4. CASE j \in 1 .. n - 1
    <3>1. j # n
      BY <1>1, <2>4
    <3>2. s[j] = r[j]
      BY <1>4, <3>1
    <3>. QED
      BY <1>2, <1>7, <2>1, <2>2, <2>4, <3>2
  <2>. QED
    BY <1>3, <2>3, <2>4
<1>8. Ascending(S, h, s)
  BY <1>5, <1>6, <1>7 DEF Ascending, n
<1>. QED
  BY <1>8

LEMMA AscendingExists ==
    ASSUME NEW S, IsFiniteSet(S), NEW h, \A x \in S : h[x] \in 0 .. 2
    PROVE  \E s : Ascending(S, h, s)
<1> DEFINE D == SUBSET S
           m == [T \in D |-> Cardinality(T)]
           good == {T \in D : \E s : Ascending(T, h, s)}
<1>1. \A T \in D : IsFiniteSet(T) /\ Cardinality(T) \in Nat
  BY FS_Subset, FS_CardinalityType
<1>2. ASSUME NEW T \in D, \A U \in D : m[U] < m[T] => U \in good
      PROVE  \E s : Ascending(T, h, s)
  <2>1. CASE T = {}
    <3>1. Cardinality(T) = 0 /\ 1 .. Cardinality(T) = {}
      BY <2>1, FS_EmptySet
    <3>2. Ascending(T, h, <<>>)
      BY <3>1 DEF Ascending
    <3>. QED
      BY <3>2
  <2>2. CASE T # {}
    <3>1. PICK x \in T : \A y \in T : h[y] <= h[x]
      BY <2>2, Largest
    <3> DEFINE U == T \ {x}
    <3>2. U \in D /\ Cardinality(U) = Cardinality(T) - 1
      BY <1>1, FS_RemoveElement
    <3>3. m[U] < m[T]
      BY <1>1, <3>2
    <3>4. PICK r : Ascending(U, h, r)
      <4>1. U \in good
        BY <1>2, <3>2, <3>3
      <4>. QED
        BY <4>1
    <3>. QED
      BY <1>1, <3>1, <3>4, AscendingStep
  <2>. QED
    BY <2>1, <2>2
<1>3. \A T \in D : (\A U \in D : m[U] < m[T] => U \in good) => T \in good
  BY <1>2
<1>4. m \in [D -> Nat]
  BY <1>1
<1>5. D \subseteq good
  <2> HIDE DEF D, m, good
  <2>. QED
    BY <1>3, <1>4, Induction DEF Inductive
<1>. QED
  BY <1>5

\* The words near a token, as Nearest takes them.
Close(index, token) ==
    {v \in Vocabulary(index) : v[1] = token[1] /\ EditDistanceAtMostTwo(token, v) <= 2}

LEMMA NearestExists ==
    ASSUME NEW index, IndexFine(index), NEW token \in Texts
    PROVE  Nearest(index, token) # {}
<1> DEFINE near == Close(index, token)
           h == [v \in near |-> EditDistanceAtMostTwo(token, v)]
           n == Cardinality(near)
<1>1. near \in SUBSET Vocabulary(index)
  BY DEF Close
<1>2. IsFiniteSet(near) /\ near \subseteq Texts
  BY <1>1, VocabularyIn, FS_Subset
<1>3. \A v \in near : h[v] = EditDistanceAtMostTwo(token, v)
  OBVIOUS
<1>4. ASSUME NEW v \in near PROVE h[v] \in 0 .. 2
  <2>1. IsText(token) /\ IsText(v)
    BY <1>2 DEF Texts, IsText
  <2>2. EditDistanceAtMostTwo(token, v) \in Nat
    BY <2>1, ComparisonRight
  <2>3. EditDistanceAtMostTwo(token, v) <= 2
    BY DEF Close
  <2>. QED
    BY <1>3, <2>2, <2>3
<1> HIDE DEF near, h
<1>5. PICK s : Ascending(near, h, s)
  BY <1>2, <1>4, AscendingExists
<1>6. s \in SetToSeqs(near) /\ DOMAIN s = 1 .. n
  BY <1>5 DEF Ascending, SetToSeqs
<1>7. ASSUME NEW i \in DOMAIN s, NEW j \in DOMAIN s, i < j
      PROVE  EditDistanceAtMostTwo(token, s[i]) <= EditDistanceAtMostTwo(token, s[j])
  <2>1. s[i] \in near /\ s[j] \in near /\ h[s[i]] <= h[s[j]]
    BY <1>5, <1>6, <1>7 DEF Ascending
  <2>. QED
    BY <1>3, <2>1
<1>8. s \in Nearest(index, token)
  BY <1>6, <1>7 DEF Nearest, near, Close
<1>. QED
  BY <1>8

LEMMA ExpansionsIn ==
    ASSUME NEW index, IndexFine(index), NEW token \in Texts
    PROVE  Expansions(index, token) \in Seq(Close(index, token))
<1> DEFINE near == Close(index, token)
           n == Cardinality(near)
           s == CHOOSE x \in Nearest(index, token) : TRUE
<1>1. s \in Nearest(index, token)
  BY NearestExists
<1>2. Expansions(index, token) = SubSeq(s, 1, Least(3, Len(s)))
  BY DEF Expansions, FirstThree
<1> HIDE DEF s
<1>3. s \in SetToSeqs(near)
  BY <1>1 DEF Nearest, Close
<1>4. s \in [1 .. n -> near]
  BY <1>3 DEF SetToSeqs
<1>5. n \in Nat
  <2>1. near \in SUBSET Vocabulary(index)
    BY DEF Close
  <2>. QED
    BY <2>1, VocabularyIn, FS_Subset, FS_CardinalityType
<1> HIDE DEF near, n
<1>6. s \in Seq(near) /\ Len(s) = n
  BY <1>4, <1>5
<1> DEFINE l == Least(3, n)
<1>7. l \in Int /\ l <= n
  BY <1>5 DEF Least
<1>8. \A i \in 1 .. l : s[i] \in near
  BY <1>4, <1>5, <1>7
<1> HIDE DEF l
<1>9. SubSeq(s, 1, l) \in Seq(near)
  BY <1>7, <1>8, SubSeqProperties
<1>. QED
  BY <1>2, <1>6, <1>9 DEF l, near

(***************************************************************************)
(* The tokens a search goes on with.                                       *)
(***************************************************************************)

\* The tokens of the query, and the words near one that no document holds.
Allowed(index, tokens) ==
    ToSet(tokens)
    \cup {v \in Vocabulary(index) :
            \E t \in ToSet(tokens) \ Vocabulary(index) : Distance(t, v) <= 2}

LEMMA TokensMonotone ==
    ASSUME NEW A, NEW tokens \in Tokens(A), NEW B, ToSet(tokens) \subseteq B
    PROVE  tokens \in Tokens(B)
<1> DEFINE n == Len(tokens)
<1>1. /\ n \in Nat /\ DOMAIN tokens = 1 .. n /\ tokens \in [1 .. n -> A]
      /\ \A i, j \in 1 .. n : i # j => tokens[i] # tokens[j]
  BY LenProperties DEF Tokens
<1> HIDE DEF n
<1>2. \A i \in 1 .. n : tokens[i] \in B
  BY <1>1 DEF ToSet
<1>3. tokens \in [1 .. n -> B]
  BY <1>1, <1>2
<1>4. tokens \in Seq(B)
  BY <1>1, <1>3
<1>. QED
  BY <1>1, <1>4 DEF Tokens

LEMMA CloseAllowed ==
    ASSUME NEW index, IndexFine(index), NEW tokens \in Tokens(Texts), NEW t \in ToSet(tokens),
           PostingsFromToken(index, t) = {}
    PROVE  t \in Texts /\ Close(index, t) \subseteq Allowed(index, tokens)
<1>1. t \in Texts
  BY LenProperties, ElementOfSeq DEF ToSet, Tokens
<1>2. t \notin Vocabulary(index)
  BY DEF PostingsFromToken, Vocabulary
<1>3. ASSUME NEW v \in Close(index, t) PROVE v \in Allowed(index, tokens)
  <2>1. v \in Vocabulary(index) /\ v \in Texts
    BY VocabularyIn DEF Close
  <2> DEFINE d == EditDistanceAtMostTwo(t, v)
             e == Dist(t, v)
  <2>2. IsText(t) /\ IsText(v)
    BY <1>1, <2>1 DEF Texts, IsText
  <2>3. d \in Nat /\ IF e <= 2 THEN d = e ELSE d > 2
    BY <2>2, ComparisonRight
  <2>4. d <= 2
    BY DEF Close
  <2>5. Distance(t, v) = IF e <= 2 THEN e ELSE TooFar
    BY <2>2, DistanceRight
  <2>6. e \in Nat
    BY <2>2, DistIs
  <2> HIDE DEF d, e
  <2>7. Distance(t, v) <= 2
    BY <2>3, <2>4, <2>5, <2>6
  <2>. QED
    BY <1>2, <2>1, <2>7 DEF Allowed
<1>. QED
  BY <1>1, <1>3

LEMMA ExpandIn ==
    ASSUME NEW index, IndexFine(index), NEW tokens \in Tokens(Texts)
    PROVE  ExpandWithFuzzyTokens(index, tokens) \in Tokens(Allowed(index, tokens))
<1> DEFINE n == Len(tokens)
           A == Allowed(index, tokens)
           R == Tokens(A)
<1>1. n \in Nat /\ DOMAIN tokens = 1 .. n
  BY LenProperties DEF Tokens
<1>2. tokens \in R
  BY TokensMonotone DEF Allowed
<1>3. ASSUME NEW i \in 1 .. n, NEW s \in R
      PROVE  ExpandStep(index, s, tokens[i]) \in R
  <2> DEFINE t == tokens[i]
  <2>1. t \in ToSet(tokens)
    BY <1>1 DEF ToSet
  <2> HIDE DEF A, t
  <2>2. CASE PostingsFromToken(index, t) = {}
    <3>1. t \in Texts /\ Close(index, t) \subseteq A
      BY <2>1, <2>2, CloseAllowed DEF A
    <3>2. Expansions(index, t) \in Seq(A)
      BY <3>1, ExpansionsIn, SeqMonotone
    <3>3. AddUnseen(s, Expansions(index, t)) \in R
      BY <3>2, AddUnseenIn
    <3>. QED
      BY <3>3, Zenon DEF ExpandStep, t
  <2>3. CASE PostingsFromToken(index, t) # {}
    BY <2>3, Zenon DEF ExpandStep, t
  <2>. QED
    BY <2>2, <2>3
<1> HIDE DEF n, R
<1>4. \A i \in 1 .. n : \A s \in R : ExpandStep(index, s, tokens[i]) \in R
  BY <1>3
<1>5. ExpandFrom(index, tokens)[DOMAIN tokens] \in R
  BY <1>1, <1>2, <1>4, ExpandStays
<1>. QED
  BY <1>5, ExpandIs DEF R

LEMMA EffectiveIn ==
    ASSUME NEW index, IndexFine(index), NEW tokens \in Tokens(Texts)
    PROVE  EffectiveTokens(index, tokens) \in Tokens(Allowed(index, tokens))
<1>1. tokens \in Tokens(Allowed(index, tokens))
  BY TokensMonotone DEF Allowed
<1>. QED
  BY <1>1, ExpandIn, Zenon DEF EffectiveTokens

(***************************************************************************)
(* What a search finds.                                                    *)
(***************************************************************************)

Known(index, tokens) == ToSet(tokens) \cap Vocabulary(index)

Lists(index, tokens) == {i \in DOMAIN tokens : PostingsFromToken(index, tokens[i]) # {}}

\* As many lists as known tokens, because no token is there twice.
LEMMA ListsCounted ==
    ASSUME NEW A, NEW index, NEW tokens \in Tokens(A)
    PROVE  /\ IsFiniteSet(Lists(index, tokens))
           /\ Cardinality(Lists(index, tokens)) \in Nat
           /\ Cardinality(Known(index, tokens)) = Cardinality(Lists(index, tokens))
<1> DEFINE S == Lists(index, tokens)
           T == Known(index, tokens)
           f == [i \in S |-> tokens[i]]
<1>1. IsFiniteSet(DOMAIN tokens) /\ \A i, j \in DOMAIN tokens : i # j => tokens[i] # tokens[j]
  <2>1. DOMAIN tokens = 1 .. Len(tokens) /\ Len(tokens) \in Nat
    BY LenProperties DEF Tokens
  <2>2. IsFiniteSet(DOMAIN tokens)
    BY <2>1, FS_Interval
  <2>. QED
    BY <2>2 DEF Tokens
<1>2. S \in SUBSET DOMAIN tokens
  BY DEF Lists
<1>3. IsFiniteSet(S) /\ Cardinality(S) \in Nat
  BY <1>1, <1>2, FS_Subset, FS_CardinalityType
<1>4. \A token : PostingsFromToken(index, token) # {} <=> token \in Vocabulary(index)
  BY DEF PostingsFromToken, Vocabulary
<1>5. \A i \in S : tokens[i] \in T
  BY <1>4 DEF Lists, Known, ToSet
<1>6. \A t \in T : \E i \in S : tokens[i] = t
  BY <1>4 DEF Lists, Known, ToSet
<1> HIDE DEF S, T
<1>7. f \in Surjection(S, T)
  BY <1>5, <1>6 DEF Surjection
<1>8. f \in Injection(S, T)
  BY <1>1, <1>2, <1>5 DEF Injection, IsInjective
<1>9. Cardinality(T) = Cardinality(S)
  <2> HIDE DEF f
  <2>. QED
    BY <1>3, <1>7, <1>8, FS_Surjection
<1>. QED
  BY <1>3, <1>9 DEF S, T

LEMMA MatchedCounted ==
    ASSUME NEW A, NEW index, NEW tokens \in Tokens(A), NEW d \in index
    PROVE  /\ Matched(tokens, d) \in SUBSET Lists(index, tokens)
           /\ IsFiniteSet(Matched(tokens, d))
           /\ Cardinality(Matched(tokens, d)) \in Nat
           /\ Cardinality(Matched(tokens, d)) = 0 <=> Matched(tokens, d) = {}
<1>1. Matched(tokens, d) \in SUBSET Lists(index, tokens)
  BY DEF Matched, Lists, PostingsFromToken
<1>2. IsFiniteSet(Matched(tokens, d))
  BY <1>1, ListsCounted, FS_Subset
<1>. QED
  BY <1>1, <1>2, FS_CardinalityType, FS_EmptySet

Halfway(index, tokens, d) ==
    2 * Cardinality(Matched(tokens, d)) >= Cardinality(Known(index, tokens))

LEMMA RetrieveIs ==
    ASSUME NEW A, NEW index, NEW tokens \in Tokens(A), NEW d \in index
    PROVE  /\ d \in Retrieve(index, tokens) =>
                Matched(tokens, d) # {} /\ Halfway(index, tokens, d)
           /\ d \notin Retrieve(index, tokens) /\ Matched(tokens, d) # {} =>
                ~ Halfway(index, tokens, d)
<1> DEFINE lists == Lists(index, tokens)
           n == Cardinality(lists)
           m == Cardinality(Matched(tokens, d))
<1>1. d \in Retrieve(index, tokens) <=> lists # {} /\ m >= RequiredMatches(n)
  BY DEF Retrieve, Lists
<1>2. /\ n \in Nat /\ m \in Nat /\ (m = 0 <=> Matched(tokens, d) = {})
      /\ (Matched(tokens, d) # {} => lists # {})
      /\ Cardinality(Known(index, tokens)) = n
  BY ListsCounted, MatchedCounted
<1>3. Halfway(index, tokens, d) <=> 2 * m >= n
  BY <1>2 DEF Halfway
<1>4. RequiredMatches(n) = IF n <= 2 THEN 1 ELSE (n + 1) \div 2
  BY DEF RequiredMatches
<1> HIDE DEF lists, n, m
<1>5. CASE n <= 2
  BY <1>1, <1>2, <1>3, <1>4, <1>5
<1>6. CASE n > 2
  <2> DEFINE h == (n + 1) \div 2
  <2>1. h \in Nat /\ (n + 1 = 2 * h \/ n = 2 * h)
    BY <1>2
  <2>2. RequiredMatches(n) = h
    BY <1>2, <1>4, <1>6
  <2> HIDE DEF h
  <2>. QED
    BY <1>1, <1>2, <1>3, <1>6, <2>1, <2>2
<1>. QED
  BY <1>2, <1>5, <1>6

LEMMA AdmittedIs ==
    ASSUME NEW A, NEW index, NEW tokens \in Tokens(A)
    PROVE  /\ \A d \in Admitted(index, tokens) : d \in index /\ Matched(tokens, d) # {}
           /\ (\E d \in Admitted(index, tokens) : Halfway(index, tokens, d)) =>
                \A d \in Admitted(index, tokens) : Halfway(index, tokens, d)
<1>1. Retrieve(index, tokens) \subseteq index
  BY DEF Retrieve
<1>2. CASE Retrieve(index, tokens) # {}
  <2>1. Admitted(index, tokens) = Retrieve(index, tokens)
    BY <1>2 DEF Admitted
  <2>. QED
    BY <1>1, <2>1, RetrieveIs
<1>3. CASE Retrieve(index, tokens) = {}
  <2>1. Admitted(index, tokens) = {d \in index : Matched(tokens, d) # {}}
    BY <1>3 DEF Admitted
  <2>2. \A d \in index : Matched(tokens, d) # {} => ~ Halfway(index, tokens, d)
    BY <1>3, RetrieveIs
  <2>. QED
    BY <2>1, <2>2
<1>. QED
  BY <1>2, <1>3

\* A document that holds all tokens is among the candidates.
LEMMA AllTokensFound ==
    ASSUME NEW A, NEW index, NEW tokens \in Tokens(A), NEW d \in index,
           ToSet(tokens) # {}, ToSet(tokens) \subseteq Terms(d)
    PROVE  d \in Retrieve(index, tokens)
<1> DEFINE lists == Lists(index, tokens)
           n == Cardinality(lists)
<1>1. Matched(tokens, d) = DOMAIN tokens /\ DOMAIN tokens # {}
  BY DEF Matched, ToSet
<1>2. lists \subseteq DOMAIN tokens /\ Matched(tokens, d) \subseteq lists
  BY MatchedCounted DEF Lists
<1>3. Matched(tokens, d) = lists /\ lists # {}
  BY <1>1, <1>2
<1>4. n \in Nat /\ n # 0
  BY <1>3, ListsCounted, MatchedCounted
<1>5. n >= RequiredMatches(n)
  <2> HIDE DEF n
  <2>. QED
    BY <1>4 DEF RequiredMatches
<1>. QED
  BY <1>3, <1>5 DEF Retrieve, Lists

ResultsAreRight(rows, text) ==
    LET index == Load(rows)
        tokens == EffectiveTokens(index, Process(text))
        asked == ToSet(Process(text))
        found == Search(index, text)
    IN /\ \A d \in found : \E term \in Terms(d) :
            \/ term \in asked
            \/ \E t \in asked \ Vocabulary(index) : Distance(t, term) <= 2
       /\ (\E d \in found : Halfway(index, tokens, d)) =>
             \A d \in found : Halfway(index, tokens, d)
       /\ \A d \in index : asked # {} /\ asked \subseteq Terms(d) => d \in found

LEMMA ResultsRightForAll ==
    ASSUME NEW rows, RowsFine(rows), NEW text \in Texts
    PROVE  ResultsAreRight(rows, text)
<1> DEFINE index == Load(rows)
           query == Process(text)
           tokens == EffectiveTokens(index, query)
           asked == ToSet(query)
           found == Search(index, text)
           A == Allowed(index, query)
<1>1. IndexFine(index) /\ query \in Tokens(Texts)
  BY LoadIn, ProcessIn
<1>2. tokens \in Tokens(A)
  BY <1>1, EffectiveIn
<1>3. found = IF query = <<>> THEN {} ELSE Admitted(index, tokens)
  BY DEF Search
<1>4. \A d \in found : d \in Admitted(index, tokens)
  BY <1>3
<1> HIDE DEF index, query, tokens, found
<1>5. ASSUME NEW d \in found
      PROVE  \E term \in Terms(d) :
                \/ term \in asked
                \/ \E t \in asked \ Vocabulary(index) : Distance(t, term) <= 2
  <2>1. d \in index /\ Matched(tokens, d) # {}
    BY <1>2, <1>4, AdmittedIs
  <2>2. PICK i \in DOMAIN tokens : tokens[i] \in Terms(d)
    BY <2>1 DEF Matched
  <2>3. tokens[i] \in A
    BY <1>2, LenProperties, ElementOfSeq DEF Tokens
  <2>. QED
    BY <2>2, <2>3 DEF Allowed
<1>6. (\E d \in found : Halfway(index, tokens, d)) => \A d \in found : Halfway(index, tokens, d)
  BY <1>2, <1>4, AdmittedIs
<1>7. ASSUME NEW d \in index, asked # {}, asked \subseteq Terms(d) PROVE d \in found
  <2>1. d \in Retrieve(index, query)
    BY <1>1, <1>7, AllTokensFound
  <2>2. tokens = query
    BY <2>1 DEF EffectiveTokens, tokens
  <2>3. d \in Admitted(index, query)
    BY <2>1, Zenon DEF Admitted
  <2>4. query # <<>>
    BY <1>7 DEF ToSet
  <2>. QED
    BY <1>3, <2>2, <2>3, <2>4
<1>. QED
  BY <1>5, <1>6, <1>7, Zenon DEF ResultsAreRight, index, query, tokens, found

LEMMA SearchInputs ==
    ASSUME input \in Case, Of("search")
    PROVE  RowsFine(input.rows) /\ input.text \in Texts
<1> DEFINE rows == input.rows
           text == input.text
           T == Seq(STRING)
<1>1. /\ text \in T /\ IsFiniteSet(rows)
      /\ \A row \in rows : /\ row.url \in T
                           /\ row.parsed \subseteq [body : T, title : T, description : T]
  BY CaseAssumption, Zenon DEF Of
<1>2. T \subseteq Texts
  BY TextIn DEF Texts, IsText
<1> HIDE DEF rows, text, T
<1>3. [body : T, title : T, description : T]
        \subseteq [body : Texts, title : Texts, description : Texts]
  BY <1>2
<1>4. RowsFine(rows) /\ text \in Texts
  BY <1>1, <1>2, <1>3 DEF RowsFine
<1>. QED
  BY <1>4 DEF rows, text

LEMMA ResultsAreRightOf ==
    ASSUME input \in Case
    PROVE  ResultsRight
<1> SUFFICES ASSUME Of("search") PROVE ResultsRight
  BY Zenon DEF ResultsRight
<1>1. ResultsAreRight(input.rows, input.text)
  BY SearchInputs, ResultsRightForAll
<1>. QED
  BY <1>1, Zenon DEF ResultsRight, ResultsAreRight, Halfway, Known

\* For every query, every table of synonyms and every finite index: what is
\* found holds a token of the query or a word near one that is unknown; it is
\* all by half of the known tokens, or none of it is; and a document that
\* holds all the tokens is found.
THEOREM ResultsRightHolds == Spec => []ResultsRight
<1>1. input \in Case => ResultsRight
  BY ResultsAreRightOf
<1>. QED
  BY <1>1, InputStays, PTL


(***************************************************************************)
(* Lists of lists put together.                                            *)
(***************************************************************************)

Flattened(seqs) ==
    CHOOSE f : f = [i \in 1 .. Len(seqs) |-> IF i = 1 THEN seqs[i] ELSE f[i - 1] \o seqs[i]]

\* The first k of the lists.
Upto(seqs, k) == IF k = 0 THEN <<>> ELSE Flattened(seqs)[k]

LEMMA UptoIs ==
    ASSUME NEW A, NEW seqs, NEW n \in Nat, DOMAIN seqs = 1 .. n, Len(seqs) = n,
           \A i \in 1 .. n : seqs[i] \in Seq(A)
    PROVE  /\ Upto(seqs, 0) = <<>>
           /\ \A k \in 0 .. n : Upto(seqs, k) \in Seq(A)
           /\ \A k \in 1 .. n : Upto(seqs, k) = Upto(seqs, k - 1) \o seqs[k]
<1> DEFINE D == 1 .. n
           R == Seq(A)
           m == [i \in D |-> i]
           next == [i \in D |-> [f \in [D -> R] |->
                      IF i = 1 THEN seqs[i] ELSE f[i - 1] \o seqs[i]]]
           g == Flattened(seqs)
<1>1. ASSUME NEW i \in D, NEW f \in [D -> R]
      PROVE  (IF i = 1 THEN seqs[i] ELSE f[i - 1] \o seqs[i]) \in R
  <2>1. CASE i = 1
    BY <2>1
  <2>2. CASE i # 1
    <3>1. i - 1 \in D
      BY <2>2
    <3>2. f[i - 1] \in R /\ seqs[i] \in R
      BY <3>1
    <3>3. f[i - 1] \o seqs[i] \in R
      BY <3>2, ConcatProperties
    <3>. QED
      BY <2>2, <3>3
  <2>. QED
    BY <2>1, <2>2
<1>2. next \in [D -> [[D -> R] -> R]]
  BY <1>1
<1>3. ASSUME NEW i \in D, NEW f \in [D -> R], NEW h \in [D -> R],
             \A y \in D : m[y] < m[i] => f[y] = h[y]
      PROVE  next[i][f] = next[i][h]
  <2>1. CASE i = 1
    BY <2>1
  <2>2. CASE i # 1
    <3>1. i - 1 \in D /\ m[i - 1] < m[i]
      BY <2>2
    <3>2. f[i - 1] = h[i - 1]
      BY <1>3, <3>1
    <3>. QED
      BY <2>2, <3>2
  <2>. QED
    BY <2>1, <2>2
<1>4. m \in [D -> 0 .. n]
  OBVIOUS
<1>15. R # {}
  <2>1. <<>> \in R
    OBVIOUS
  <2>. QED
    BY <2>1
<1>5. PICK f \in [D -> R] : \A i \in D : f[i] = next[i][f]
  <2> HIDE DEF D, m, next, R
  <2>1. \A i \in D : \A f, h \in [D -> R] :
           (\A y \in D : m[y] < m[i] => f[y] = h[y]) => next[i][f] = next[i][h]
    BY <1>3
  <2>2. Recursive(D, R, n, m, next)
    BY <1>2, <1>4, <1>15, <2>1 DEF Recursive
  <2>. QED
    BY <2>2, Recursion
<1>6. f = [i \in 1 .. Len(seqs) |-> IF i = 1 THEN seqs[i] ELSE f[i - 1] \o seqs[i]]
  BY <1>5
<1>7. g = [i \in 1 .. Len(seqs) |-> IF i = 1 THEN seqs[i] ELSE g[i - 1] \o seqs[i]]
  <2> HIDE DEF m, next
  <2>. QED
    BY <1>6 DEF Flattened
<1> HIDE DEF g
<1>8. \A i \in D : g[i] = IF i = 1 THEN seqs[i] ELSE g[i - 1] \o seqs[i]
  BY <1>7
<1> DEFINE good == {i \in D : g[i] \in R}
<1>9. ASSUME NEW i \in D, \A y \in D : m[y] < m[i] => y \in good
      PROVE  g[i] \in R
  <2>1. CASE i = 1
    BY <1>8, <2>1
  <2>2. CASE i # 1
    <3>1. i - 1 \in D /\ m[i - 1] < m[i]
      BY <2>2
    <3>2. g[i - 1] \in R /\ seqs[i] \in R
      BY <1>9, <3>1
    <3>3. g[i - 1] \o seqs[i] \in R
      BY <3>2, ConcatProperties
    <3>. QED
      BY <1>8, <2>2, <3>3
  <2>. QED
    BY <2>1, <2>2
<1>10. D \subseteq good
  <2>1. \A i \in D : (\A y \in D : m[y] < m[i] => y \in good) => i \in good
    BY <1>9
  <2>2. m \in [D -> Nat]
    OBVIOUS
  <2> HIDE DEF D, m, good
  <2>. QED
    BY <2>1, <2>2, Induction DEF Inductive
<1>11. Upto(seqs, 0) = <<>>
  BY DEF Upto
<1>12. ASSUME NEW k \in 1 .. n PROVE Upto(seqs, k) = g[k] /\ Upto(seqs, k) \in R
  <2>1. k # 0 /\ k \in D
    OBVIOUS
  <2>2. Upto(seqs, k) = g[k]
    BY <2>1, Zenon DEF Upto, g
  <2>. QED
    BY <1>10, <2>1, <2>2
<1>13. ASSUME NEW k \in 1 .. n PROVE Upto(seqs, k) = Upto(seqs, k - 1) \o seqs[k]
  <2>1. CASE k = 1
    <3>1. Upto(seqs, k) = seqs[k]
      BY <1>8, <1>12, <2>1
    <3>3. Upto(seqs, k - 1) = <<>>
      <4>1. k - 1 = 0
        BY <2>1
      <4>. QED
        BY <1>11, <4>1, Zenon
    <3>2. <<>> \o seqs[k] = seqs[k]
      BY ConcatEmptySeq
    <3>. QED
      BY <3>1, <3>2, <3>3
  <2>2. CASE k # 1
    <3>1. k - 1 \in 1 .. n
      BY <2>2
    <3>2. Upto(seqs, k - 1) = g[k - 1]
      BY <1>12, <3>1
    <3>. QED
      BY <1>8, <1>12, <2>2, <3>2
  <2>. QED
    BY <2>1, <2>2
<1>14. ASSUME NEW k \in 0 .. n PROVE Upto(seqs, k) \in R
  <2>1. k = 0 \/ k \in 1 .. n
    OBVIOUS
  <2>2. <<>> \in R
    OBVIOUS
  <2>. QED
    BY <1>11, <1>12, <2>1, <2>2
<1>. QED
  BY <1>11, <1>13, <1>14

LEMMA FlattenIs ==
    ASSUME NEW A, NEW seqs \in Seq(Seq(A))
    PROVE  FlattenSeq(seqs) = Upto(seqs, Len(seqs))
<1>1. CASE Len(seqs) = 0
  <2>1. seqs = <<>>
    BY <1>1
  <2>. QED
    BY <1>1, <2>1, Zenon DEF FlattenSeq, Upto
<1>2. CASE Len(seqs) # 0
  <2>1. FlattenSeq(seqs) = Flattened(seqs)[Len(seqs)]
    BY <1>2 DEF FlattenSeq, Flattened
  <2>. QED
    BY <1>2, <2>1, Zenon DEF Upto
<1>. QED
  BY <1>1, <1>2

LEMMA Climb ==
    ASSUME NEW n \in Nat, NEW good, 0 \in good, \A k \in 1 .. n : k - 1 \in good => k \in good
    PROVE  0 .. n \subseteq good
<1> DEFINE D == 0 .. n
           m == [k \in D |-> k]
<1>1. ASSUME NEW k \in D, \A l \in D : m[l] < m[k] => l \in good PROVE k \in good
  <2>1. CASE k = 0
    BY <2>1
  <2>2. CASE k # 0
    <3>1. k - 1 \in D /\ m[k - 1] < m[k] /\ k \in 1 .. n
      BY <2>2
    <3>. QED
      BY <1>1, <3>1
  <2>. QED
    BY <2>1, <2>2
<1>2. m \in [D -> Nat]
  OBVIOUS
<1>3. \A k \in D : (\A l \in D : m[l] < m[k] => l \in good) => k \in good
  BY <1>1
<1> HIDE DEF D, m
<1>4. D \subseteq good
  BY <1>2, <1>3, Induction DEF Inductive
<1>. QED
  BY <1>4 DEF D

\* A list of lists, as a function.
ListOfLists(A, seqs, n) ==
    n \in Nat /\ DOMAIN seqs = 1 .. n /\ Len(seqs) = n /\ \A i \in 1 .. n : seqs[i] \in Seq(A)

LEMMA ListsOf ==
    ASSUME NEW A, NEW seqs \in Seq(Seq(A))
    PROVE  ListOfLists(A, seqs, Len(seqs))
  BY LenProperties, ElementOfSeq DEF ListOfLists

LEMMA UptoAre ==
    ASSUME NEW A, NEW seqs, NEW n, ListOfLists(A, seqs, n)
    PROVE  /\ n \in Nat /\ Upto(seqs, 0) = <<>> /\ Len(Upto(seqs, 0)) = 0
           /\ \A k \in 0 .. n : Upto(seqs, k) \in Seq(A)
           /\ \A k \in 1 .. n : /\ Upto(seqs, k) = Upto(seqs, k - 1) \o seqs[k]
                                /\ seqs[k] \in Seq(A) /\ Upto(seqs, k - 1) \in Seq(A)
<1>1. n \in Nat /\ DOMAIN seqs = 1 .. n /\ Len(seqs) = n /\ \A i \in 1 .. n : seqs[i] \in Seq(A)
  BY DEF ListOfLists
<1>2. /\ Upto(seqs, 0) = <<>>
      /\ \A k \in 0 .. n : Upto(seqs, k) \in Seq(A)
      /\ \A k \in 1 .. n : Upto(seqs, k) = Upto(seqs, k - 1) \o seqs[k]
  BY <1>1, UptoIs
<1>3. \A k \in 1 .. n : k - 1 \in 0 .. n
  BY <1>1
<1>4. Len(<<>>) = 0
  OBVIOUS
<1>. QED
  BY <1>1, <1>2, <1>3, <1>4

LEMMA Prefixed ==
    ASSUME NEW A, NEW seqs, NEW n, ListOfLists(A, seqs, n)
    PROVE  \A m \in 0 .. n : \A k \in 0 .. m :
              /\ Len(Upto(seqs, k)) <= Len(Upto(seqs, m))
              /\ \A i \in 1 .. Len(Upto(seqs, k)) : Upto(seqs, m)[i] = Upto(seqs, k)[i]
<1> DEFINE U(k) == Upto(seqs, k)
           Good(m) == \A k \in 0 .. m :
                        /\ Len(U(k)) <= Len(U(m))
                        /\ \A i \in 1 .. Len(U(k)) : U(m)[i] = U(k)[i]
           good == {m \in 0 .. n : Good(m)}
<1>1. /\ n \in Nat /\ \A k \in 0 .. n : U(k) \in Seq(A)
      /\ \A k \in 1 .. n : U(k) = U(k - 1) \o seqs[k] /\ seqs[k] \in Seq(A)
  BY UptoAre
<1>2. \A k \in 0 .. n : Len(U(k)) \in Nat
  BY <1>1, LenProperties
<1>3. Good(0)
  <2>1. \A k \in 0 .. 0 : k = 0
    OBVIOUS
  <2>2. Len(U(0)) \in Nat
    BY <1>2
  <2>. QED
    BY <2>1, <2>2
<1>4. ASSUME NEW m \in 1 .. n, Good(m - 1) PROVE Good(m)
  <2> DEFINE l == m - 1
  <2>1. l \in 0 .. n /\ m \in 0 .. n /\ \A k \in 0 .. m : k = m \/ k \in 0 .. l
    <3>1. n \in Nat /\ l = m - 1
      BY <1>1
    <3> HIDE DEF l
    <3>. QED
      BY <3>1
  <2>2. U(m) = U(l) \o seqs[m]
    BY <1>1
  <2>5. Good(l)
    BY <1>4
  <2> HIDE DEF l, U
  <2>3. /\ Len(U(l)) <= Len(U(m))
        /\ \A i \in 1 .. Len(U(l)) : U(m)[i] = U(l)[i]
    <3>1. U(l) \in Seq(A) /\ seqs[m] \in Seq(A)
      BY <1>1, <2>1
    <3>2. Len(U(l)) \in Nat /\ Len(seqs[m]) \in Nat
      BY <3>1, LenProperties
    <3>3. Len(U(m)) = Len(U(l)) + Len(seqs[m])
      BY <2>2, <3>1, ConcatProperties
    <3>4. \A i \in 1 .. Len(U(l)) + Len(seqs[m]) :
             U(m)[i] = IF i <= Len(U(l)) THEN U(l)[i] ELSE seqs[m][i - Len(U(l))]
      BY <2>2, <3>1, ConcatProperties
    <3>. QED
      BY <3>2, <3>3, <3>4
  <2>4. ASSUME NEW k \in 0 .. m
        PROVE  /\ Len(U(k)) <= Len(U(m))
               /\ \A i \in 1 .. Len(U(k)) : U(m)[i] = U(k)[i]
    <3>1. CASE k = m
      BY <1>2, <2>1, <3>1
    <3>2. CASE k \in 0 .. l
      <4>1. /\ Len(U(k)) <= Len(U(l))
            /\ \A i \in 1 .. Len(U(k)) : U(l)[i] = U(k)[i]
        BY <2>5, <3>2
      <4>2. Len(U(k)) \in Nat /\ Len(U(l)) \in Nat /\ Len(U(m)) \in Nat
        BY <1>2, <2>1, <3>2
      <4>. QED
        BY <2>3, <4>1, <4>2
    <3>. QED
      BY <2>1, <3>1, <3>2
  <2>. QED
    BY <2>4
<1>5. \A k \in 1 .. n : k - 1 \in good => k \in good
  <2> HIDE DEF Good
  <2>. QED
    BY <1>4
<1>6. 0 \in good
  <2> HIDE DEF Good
  <2>. QED
    BY <1>1, <1>3
<1>7. 0 .. n \subseteq good
  <2> HIDE DEF good
  <2>. QED
    BY <1>1, <1>5, <1>6, Climb
<1>8. \A m \in 0 .. n : Good(m)
  <2> HIDE DEF Good
  <2>. QED
    BY <1>7
<1>. QED
  BY <1>8

\* Where the first k of the lists end in all of them.
Ends(seqs, k) == Len(Upto(seqs, k))

\* The list holds the part, behind o of its elements.
Holds(list, o, part) ==
    /\ o \in Nat /\ Len(part) \in Nat /\ Len(list) \in Nat /\ o + Len(part) <= Len(list)
    /\ \A j \in 1 .. Len(part) : list[o + j] = part[j]

LEMMA Placed ==
    ASSUME NEW A, NEW seqs, NEW n, ListOfLists(A, seqs, n), NEW k \in 1 .. n
    PROVE  /\ Holds(Upto(seqs, n), Ends(seqs, k - 1), seqs[k])
           /\ Ends(seqs, k) = Ends(seqs, k - 1) + Len(seqs[k])
<1> DEFINE u == Upto(seqs, k - 1)
           v == Upto(seqs, k)
           all == Upto(seqs, n)
<1>1. /\ n \in Nat /\ u \in Seq(A) /\ v \in Seq(A) /\ all \in Seq(A) /\ seqs[k] \in Seq(A)
      /\ v = u \o seqs[k]
  <2>0. n \in Nat
    BY UptoAre
  <2>1. n \in 0 .. n /\ k \in 0 .. n
    BY <2>0
  <2>. QED
    BY <2>1, UptoAre
<1>2. Len(u) \in Nat /\ Len(v) \in Nat /\ Len(all) \in Nat /\ Len(seqs[k]) \in Nat
  BY <1>1, LenProperties
<1>3. Len(v) <= Len(all) /\ \A i \in 1 .. Len(v) : all[i] = v[i]
  <2>1. n \in 0 .. n /\ k \in 0 .. n
    BY <1>1
  <2>. QED
    BY <2>1, Prefixed
<1> HIDE DEF u, v, all
<1>4. /\ Len(v) = Len(u) + Len(seqs[k])
      /\ \A i \in 1 .. Len(u) + Len(seqs[k]) :
            v[i] = IF i <= Len(u) THEN u[i] ELSE seqs[k][i - Len(u)]
  BY <1>1, ConcatProperties
<1>5. ASSUME NEW j \in 1 .. Len(seqs[k]) PROVE all[Len(u) + j] = seqs[k][j]
  <2>1. Len(u) + j \in 1 .. Len(u) + Len(seqs[k]) /\ ~ (Len(u) + j <= Len(u))
        /\ Len(u) + j - Len(u) = j
    BY <1>2
  <2>. QED
    BY <1>3, <1>4, <2>1
<1>. QED
  BY <1>2, <1>3, <1>4, <1>5 DEF u, v, all, Ends, Holds

LEMMA Covered ==
    ASSUME NEW A, NEW seqs, NEW n, ListOfLists(A, seqs, n), NEW p \in 1 .. Ends(seqs, n)
    PROVE  \E k \in 1 .. n : \E j \in 1 .. Len(seqs[k]) : p = Ends(seqs, k - 1) + j
<1> DEFINE L(k) == Ends(seqs, k)
           At(q, m) == \E k \in 1 .. m : \E j \in 1 .. Len(seqs[k]) : q = L(k - 1) + j
           good == {m \in 0 .. n : \A q \in 1 .. L(m) : At(q, m)}
<1>1. n \in Nat /\ L(0) = 0
  BY UptoAre DEF Ends
<1>2. ASSUME NEW k \in 1 .. n
      PROVE  /\ L(k - 1) \in Nat /\ Len(seqs[k]) \in Nat
             /\ L(k) = L(k - 1) + Len(seqs[k])
  BY Placed DEF Holds
<1>3. 0 \in good
  <2>1. 1 .. L(0) = {} /\ 0 \in 0 .. n
    BY <1>1
  <2>. QED
    BY <2>1
<1>4. ASSUME NEW m \in 1 .. n, \A q \in 1 .. L(m - 1) : At(q, m - 1), NEW q \in 1 .. L(m)
      PROVE  At(q, m)
  <2>1. L(m - 1) \in Nat /\ Len(seqs[m]) \in Nat /\ L(m) = L(m - 1) + Len(seqs[m])
    BY <1>2
  <2>2. CASE q <= L(m - 1)
    <3>0. q \in 1 .. L(m - 1)
      BY <2>1, <2>2
    <3>1. PICK k \in 1 .. m - 1 : \E j \in 1 .. Len(seqs[k]) : q = L(k - 1) + j
      BY <1>4, <3>0
    <3>2. k \in 1 .. m
      OBVIOUS
    <3>. QED
      BY <3>1, <3>2
  <2>3. CASE ~ (q <= L(m - 1))
    <3> DEFINE j == q - L(m - 1)
    <3> HIDE DEF L
    <3>1. j \in 1 .. Len(seqs[m]) /\ q = L(m - 1) + j /\ m \in 1 .. m
      BY <2>1, <2>3
    <3> HIDE DEF j
    <3>. QED
      BY <3>1
  <2>. QED
    BY <2>2, <2>3
<1>5. \A m \in 1 .. n : m - 1 \in good => m \in good
  <2>1. \A m \in 1 .. n : (\A q \in 1 .. L(m - 1) : At(q, m - 1)) => \A q \in 1 .. L(m) : At(q, m)
    BY <1>4
  <2> HIDE DEF At, L
  <2>. QED
    BY <2>1
<1>6. 0 .. n \subseteq good
  <2> HIDE DEF good
  <2>. QED
    BY <1>1, <1>3, <1>5, Climb
<1>7. n \in good
  <2> HIDE DEF good
  <2>. QED
    BY <1>1, <1>6
<1>8. \A q \in 1 .. L(n) : At(q, n)
  <2> HIDE DEF At, L
  <2>. QED
    BY <1>7
<1>. QED
  BY <1>8

\* What stands at the places of a list is put together from the end.
Gathers(A, seqs, n, h) ==
    /\ ListOfLists(A, seqs, n) /\ h \in [0 .. n -> Seq(A)]
    /\ \A k \in 1 .. n : h[k - 1] = seqs[k] \o h[k]

LEMMA Gather ==
    ASSUME NEW A, NEW seqs, NEW n, NEW h, Gathers(A, seqs, n, h)
    PROVE  h[0] = Upto(seqs, n) \o h[n]
<1> DEFINE good == {k \in 0 .. n : h[0] = Upto(seqs, k) \o h[k]}
<1>0. /\ ListOfLists(A, seqs, n) /\ h \in [0 .. n -> Seq(A)]
      /\ \A k \in 1 .. n : h[k - 1] = seqs[k] \o h[k]
  BY DEF Gathers
<1>1. /\ n \in Nat /\ Upto(seqs, 0) = <<>>
      /\ \A k \in 1 .. n : /\ Upto(seqs, k) = Upto(seqs, k - 1) \o seqs[k]
                           /\ seqs[k] \in Seq(A) /\ Upto(seqs, k - 1) \in Seq(A)
  BY <1>0, UptoAre
<1>2. 0 \in good
  <2>1. 0 \in 0 .. n
    BY <1>1
  <2>2. h[0] \in Seq(A)
    BY <1>0, <2>1
  <2>3. <<>> \o h[0] = h[0]
    BY <2>2, ConcatEmptySeq
  <2>4. Upto(seqs, 0) \o h[0] = h[0]
    BY <1>1, <2>3, Zenon
  <2>. QED
    BY <2>1, <2>4, Zenon
<1>3. ASSUME NEW k \in 1 .. n, k - 1 \in good PROVE k \in good
  <2>1. k \in 0 .. n /\ k - 1 \in 0 .. n
    BY <1>1
  <2> DEFINE u == Upto(seqs, k - 1)
             s == seqs[k]
             t == h[k]
  <2>2. u \in Seq(A) /\ s \in Seq(A) /\ t \in Seq(A)
    BY <1>0, <1>1, <2>1
  <2>3. h[0] = u \o (s \o t)
    BY <1>0, <1>3
  <2>4. Upto(seqs, k) = u \o s
    BY <1>1
  <2>6. h[0] = Upto(seqs, k) \o t
    <3> HIDE DEF u, s, t
    <3>1. (u \o s) \o t = u \o (s \o t)
      BY <2>2, ConcatAssociative
    <3>. QED
      BY <2>3, <2>4, <3>1, Zenon
  <2>. QED
    BY <2>1, <2>6
<1>4. 0 .. n \subseteq good
  <2>1. \A k \in 1 .. n : k - 1 \in good => k \in good
    BY <1>3
  <2> HIDE DEF good
  <2>. QED
    BY <1>1, <1>2, <2>1, Climb
<1>5. n \in 0 .. n
  BY <1>1
<1>. QED
  BY <1>4, <1>5

(***************************************************************************)
(* A page is read from its end.                                            *)
(***************************************************************************)

\* What a page may hold: pieces whose names and values are texts, and words.
Pieces(P) ==
    /\ \A x \in P : x.name \in Char /\ Values(x) \in Seq(Char)
    /\ \A w \in Char : Word(w) \in P

LEMMA FollowingIs ==
    ASSUME NEW P, NEW page \in Seq(P), NEW i \in 1 .. Len(page), NEW kind, NEW name
    PROVE  /\ Following(page, i, kind, name) \in SUBSET Nat
           /\ Following(page, i, kind, name) \subseteq i + 1 .. Len(page)
           /\ Following(page, i, kind, name) # {} =>
                /\ Min(Following(page, i, kind, name)) \in Following(page, i, kind, name)
                /\ \A x \in Following(page, i, kind, name) :
                     Min(Following(page, i, kind, name)) <= x
<1> DEFINE places == Following(page, i, kind, name)
<1>1. Len(page) \in Nat
  BY LenProperties
<1>2. places \in SUBSET Nat /\ places \subseteq i + 1 .. Len(page)
  BY <1>1 DEF Following
<1> HIDE DEF places
<1>3. places # {} => Min(places) \in places /\ \A x \in places : Min(places) <= x
  BY <1>2, MinIs
<1>. QED
  BY <1>2, <1>3 DEF places

LEMMA BehindIn ==
    ASSUME NEW P, NEW page \in Seq(P), NEW i \in 1 .. Len(page), NEW kind, NEW name
    PROVE  Behind(page, i, kind, name) \in i + 1 .. Len(page) + 1
<1> DEFINE places == Following(page, i, kind, name)
<1>1. Len(page) \in Nat
  BY LenProperties
<1>2. /\ places \subseteq i + 1 .. Len(page)
      /\ places # {} => Min(places) \in places
  BY FollowingIs
<1>3. Behind(page, i, kind, name) = 1 + IF places = {} THEN Len(page) ELSE Min(places)
  BY DEF Behind
<1> HIDE DEF places
<1>4. CASE places = {}
  <2>1. Behind(page, i, kind, name) = 1 + Len(page)
    BY <1>3, <1>4
  <2>. QED
    BY <1>1, <2>1
<1>5. CASE places # {}
  <2>1. Behind(page, i, kind, name) = 1 + Min(places) /\ Min(places) \in i + 1 .. Len(page)
    BY <1>2, <1>3, <1>5
  <2>. QED
    BY <1>1, <2>1
<1>. QED
  BY <1>4, <1>5

\* j is the next place after i with a piece of the kind and the name.
IsNext(page, i, kind, name, j) ==
    /\ i < j /\ page[j].kind = kind /\ page[j].name = name
    /\ \A k \in i + 1 .. j - 1 : ~ (page[k].kind = kind /\ page[k].name = name)

LEMMA NextIs ==
    ASSUME NEW P, NEW page \in Seq(P), NEW i \in 1 .. Len(page), NEW j \in 1 .. Len(page),
           NEW kind, NEW name, IsNext(page, i, kind, name, j)
    PROVE  /\ Following(page, i, kind, name) # {}
           /\ Min(Following(page, i, kind, name)) = j
           /\ Behind(page, i, kind, name) = j + 1
<1> DEFINE places == Following(page, i, kind, name)
<1>1. Len(page) \in Nat
  BY LenProperties
<1>2. /\ places \subseteq i + 1 .. Len(page)
      /\ places # {} => Min(places) \in places /\ \A x \in places : Min(places) <= x
  BY FollowingIs
<1>3. j \in places
  BY <1>1 DEF Following, IsNext
<1>4. \A x \in places : x \notin i + 1 .. j - 1
  BY DEF Following, IsNext
<1>5. Behind(page, i, kind, name) = 1 + IF places = {} THEN Len(page) ELSE Min(places)
  BY DEF Behind
<1> HIDE DEF places
<1>6. Min(places) = j
  <2>1. /\ Min(places) \in i + 1 .. Len(page) /\ Min(places) <= j
        /\ Min(places) \notin i + 1 .. j - 1
    BY <1>2, <1>3, <1>4
  <2>. QED
    BY <1>1, <2>1
<1>. QED
  BY <1>3, <1>5, <1>6 DEF places

\* The text from a place on.
CleanNext(page, i, f) ==
    IF i > Len(page) THEN <<>>
    ELSE IF page[i].kind = "open" THEN f[BehindComment(page, i)]
    ELSE IF page[i].kind \in {"tag", "end"}
           THEN f[IF page[i].name \in HiddenElement
                    THEN Behind(page, i, "end", page[i].name) ELSE i + 1]
    ELSE <<page[i].name>> \o f[i + 1]

CleanFrom(page) == CHOOSE f : f = [i \in 1 .. Len(page) + 1 |-> CleanNext(page, i, f)]

LEMMA CleanTextIs ==
    ASSUME NEW page
    PROVE  CleanText(page) = CleanFrom(page)[1]
  BY Zenon DEF CleanText, CleanFrom, CleanNext

LEMMA CleanNextIn ==
    ASSUME NEW P, NEW page \in Seq(P), Pieces(P), NEW i \in 1 .. Len(page) + 1, NEW f,
           \A y \in i + 1 .. Len(page) + 1 : f[y] \in Seq(Char)
    PROVE  /\ CleanNext(page, i, f) \in Seq(Char)
           /\ \A h : (\A y \in i + 1 .. Len(page) + 1 : f[y] = h[y])
                       => CleanNext(page, i, f) = CleanNext(page, i, h)
<1>1. Len(page) \in Nat
  BY LenProperties
<1>2. CASE i > Len(page)
  <2>1. \A h : CleanNext(page, i, h) = <<>>
    BY <1>2, Zenon DEF CleanNext
  <2>2. <<>> \in Seq(Char)
    OBVIOUS
  <2>. QED
    BY <2>1, <2>2
<1>3. CASE ~ (i > Len(page))
  <2>1. i \in 1 .. Len(page) /\ i + 1 \in i + 1 .. Len(page) + 1
    BY <1>1, <1>3
  <2> DEFINE c == BehindComment(page, i)
             e == Behind(page, i, "end", page[i].name)
  <2>2. c \in i + 1 .. Len(page) + 1 /\ e \in i + 1 .. Len(page) + 1
    BY <2>1, BehindIn DEF BehindComment
  <2>3. \A h : CleanNext(page, i, h) =
                 IF page[i].kind = "open" THEN h[c]
                 ELSE IF page[i].kind \in {"tag", "end"}
                        THEN h[IF page[i].name \in HiddenElement THEN e ELSE i + 1]
                 ELSE <<page[i].name>> \o h[i + 1]
    BY <1>3, Zenon DEF CleanNext
  <2>4. <<page[i].name>> \o f[i + 1] \in Seq(Char)
    <3>1. page[i] \in P
      BY <2>1, ElementOfSeq
    <3>2. <<page[i].name>> \in Seq(Char) /\ f[i + 1] \in Seq(Char)
      BY <2>1, <3>1 DEF Pieces
    <3>. QED
      BY <3>2, ConcatProperties
  <2> HIDE DEF c, e
  <2>5. CleanNext(page, i, f) \in Seq(Char)
    BY <2>1, <2>2, <2>3, <2>4
  <2>6. ASSUME NEW h, \A y \in i + 1 .. Len(page) + 1 : f[y] = h[y]
        PROVE  CleanNext(page, i, f) = CleanNext(page, i, h)
    <3>1. f[c] = h[c] /\ f[e] = h[e] /\ f[i + 1] = h[i + 1]
      BY <2>1, <2>2, <2>6
    <3>. QED
      BY <2>3, <3>1
  <2>. QED
    BY <2>5, <2>6
<1>. QED
  BY <1>2, <1>3

\* What is read from a list from its end: each step uses later places only.
Backward(N, R, next) ==
    /\ N \in Nat /\ R # {} /\ next \in [1 .. N -> [[1 .. N -> R] -> R]]
    /\ \A i \in 1 .. N : \A f, h \in [1 .. N -> R] :
         (\A y \in i + 1 .. N : f[y] = h[y]) => next[i][f] = next[i][h]

LEMMA BackwardExists ==
    ASSUME NEW N, NEW R, NEW next, Backward(N, R, next)
    PROVE  \E f \in [1 .. N -> R] : \A i \in 1 .. N : f[i] = next[i][f]
<1> DEFINE D == 1 .. N
           m == [i \in D |-> N - i]
<1>1. N \in Nat /\ R # {} /\ next \in [D -> [[D -> R] -> R]]
  BY DEF Backward
<1>2. m \in [D -> 0 .. N]
  BY <1>1
<1>3. ASSUME NEW i \in D, NEW f \in [D -> R], NEW h \in [D -> R],
             \A y \in D : m[y] < m[i] => f[y] = h[y]
      PROVE  next[i][f] = next[i][h]
  <2>1. \A y \in i + 1 .. N : f[y] = h[y]
    <3>1. \A y \in i + 1 .. N : y \in D /\ m[y] < m[i]
      BY <1>1
    <3>. QED
      BY <1>3, <3>1
  <2>. QED
    BY <2>1 DEF Backward
<1> HIDE DEF D, m
<1>4. Recursive(D, R, N, m, next)
  BY <1>1, <1>2, <1>3 DEF Recursive
<1>5. \E f \in [D -> R] : \A i \in D : f[i] = next[i][f]
  BY <1>4, Recursion
<1>. QED
  BY <1>5 DEF D

LEMMA BackwardIn ==
    ASSUME NEW N \in Nat, NEW good,
           \A i \in 1 .. N : (\A y \in i + 1 .. N : y \in good) => i \in good
    PROVE  1 .. N \subseteq good
<1> DEFINE D == 1 .. N
           m == [i \in D |-> N - i]
<1>1. m \in [D -> Nat]
  OBVIOUS
<1>2. ASSUME NEW i \in D, \A y \in D : m[y] < m[i] => y \in good PROVE i \in good
  <2>1. \A y \in i + 1 .. N : y \in D /\ m[y] < m[i]
    OBVIOUS
  <2>. QED
    BY <1>2, <2>1
<1>3. \A i \in D : (\A y \in D : m[y] < m[i] => y \in good) => i \in good
  BY <1>2
<1> HIDE DEF D, m
<1>4. D \subseteq good
  BY <1>1, <1>3, Induction DEF Inductive
<1>. QED
  BY <1>4 DEF D

LEMMA CleanFromIs ==
    ASSUME NEW P, NEW page \in Seq(P), Pieces(P)
    PROVE  \A i \in 1 .. Len(page) + 1 : /\ CleanFrom(page)[i] = CleanNext(page, i, CleanFrom(page))
                                         /\ CleanFrom(page)[i] \in Seq(Char)
<1> DEFINE N == Len(page) + 1
           R == Seq(Char)
           next == [i \in 1 .. N |-> [f \in [1 .. N -> R] |-> CleanNext(page, i, f)]]
           g == CleanFrom(page)
<1>1. Len(page) \in Nat /\ N \in Nat
  BY LenProperties
<1>2. ASSUME NEW i \in 1 .. N, NEW f, \A y \in i + 1 .. N : f[y] \in R
      PROVE  /\ CleanNext(page, i, f) \in R
             /\ \A h : (\A y \in i + 1 .. N : f[y] = h[y])
                         => CleanNext(page, i, f) = CleanNext(page, i, h)
  BY <1>2, CleanNextIn, Zenon
<1>3. ASSUME NEW i \in 1 .. N, NEW f \in [1 .. N -> R] PROVE \A y \in i + 1 .. N : f[y] \in R
  <2>1. \A y \in i + 1 .. N : y \in 1 .. N
    BY <1>1
  <2> HIDE DEF N, R
  <2>. QED
    BY <2>1
<1>4. <<>> \in R
  OBVIOUS
<1>5. Backward(N, R, next)
  <2> HIDE DEF N, R
  <2>1. \A i \in 1 .. N : \A f \in [1 .. N -> R] : CleanNext(page, i, f) \in R
    BY <1>2, <1>3
  <2>2. next \in [1 .. N -> [[1 .. N -> R] -> R]]
    BY <2>1
  <2>3. ASSUME NEW i \in 1 .. N, NEW f \in [1 .. N -> R], NEW h \in [1 .. N -> R],
               \A y \in i + 1 .. N : f[y] = h[y]
        PROVE  next[i][f] = next[i][h]
    <3>1. CleanNext(page, i, f) = CleanNext(page, i, h)
      BY <1>2, <1>3, <2>3
    <3>. QED
      BY <3>1
  <2> HIDE DEF next
  <2>. QED
    BY <1>1, <1>4, <2>2, <2>3 DEF Backward
<1>6. PICK f \in [1 .. N -> R] : \A i \in 1 .. N : f[i] = next[i][f]
  <2> HIDE DEF N, R, next
  <2>. QED
    BY <1>5, BackwardExists
<1>7. f = [i \in 1 .. N |-> CleanNext(page, i, f)]
  <2> HIDE DEF N, R
  <2>. QED
    BY <1>6
<1>8. g = [i \in 1 .. N |-> CleanNext(page, i, g)]
  <2> HIDE DEF next, R
  <2>. QED
    BY <1>7, Zenon DEF CleanFrom
<1> HIDE DEF g, N, R
<1>9. \A i \in 1 .. N : g[i] = CleanNext(page, i, g)
  BY <1>8
<1> DEFINE good == {i \in 1 .. N : g[i] \in R}
<1>10. 1 .. N \subseteq good
  <2>1. \A i \in 1 .. N : (\A y \in i + 1 .. N : y \in good) => i \in good
    BY <1>2, <1>9
  <2> HIDE DEF good
  <2>. QED
    BY <1>1, <2>1, BackwardIn
<1>11. \A i \in 1 .. N : g[i] \in R
  BY <1>10
<1>. QED
  BY <1>9, <1>11 DEF g, N, R

LEMMA FlattenIn ==
    ASSUME NEW A, NEW seqs \in Seq(Seq(A))
    PROVE  FlattenSeq(seqs) \in Seq(A)
<1>1. ListOfLists(A, seqs, Len(seqs))
  BY ListsOf
<1>2. Len(seqs) \in 0 .. Len(seqs)
  BY LenProperties
<1>3. Upto(seqs, Len(seqs)) \in Seq(A)
  BY <1>1, <1>2, UptoAre
<1>. QED
  BY <1>3, FlattenIs

LEMMA FlattenConcat ==
    ASSUME NEW A, NEW a \in Seq(Seq(A)), NEW b \in Seq(Seq(A))
    PROVE  FlattenSeq(a \o b) = FlattenSeq(a) \o FlattenSeq(b)
<1> DEFINE c == a \o b
           l == Len(a)
           n == Len(b)
           R == Seq(A)
           first == {k \in 0 .. l : Upto(c, k) = Upto(a, k)}
           rest == {k \in 0 .. n : Upto(c, l + k) = Upto(a, l) \o Upto(b, k)}
<1>1. /\ c \in Seq(R) /\ l \in Nat /\ n \in Nat /\ Len(c) = l + n
      /\ \A i \in 1 .. l + n : c[i] = IF i <= l THEN a[i] ELSE b[i - l]
  <2>1. a \in Seq(R) /\ b \in Seq(R)
    OBVIOUS
  <2> HIDE DEF R
  <2>. QED
    BY <2>1, ConcatProperties, LenProperties
<1> HIDE DEF c, l, n
<1>2. ListOfLists(A, a, l) /\ ListOfLists(A, b, n) /\ ListOfLists(A, c, l + n)
  <2>1. ListOfLists(A, a, Len(a)) /\ ListOfLists(A, b, Len(b)) /\ ListOfLists(A, c, Len(c))
    BY <1>1, ListsOf
  <2>. QED
    BY <1>1, <2>1 DEF l, n
<1>3. /\ Upto(a, 0) = <<>> /\ \A k \in 0 .. l : Upto(a, k) \in R
      /\ \A k \in 1 .. l : Upto(a, k) = Upto(a, k - 1) \o a[k]
  BY <1>2, UptoAre
<1>4. /\ Upto(b, 0) = <<>> /\ \A k \in 0 .. n : Upto(b, k) \in R
      /\ \A k \in 1 .. n : /\ Upto(b, k) = Upto(b, k - 1) \o b[k]
                           /\ b[k] \in R /\ Upto(b, k - 1) \in R
  BY <1>2, UptoAre
<1>5. /\ Upto(c, 0) = <<>>
      /\ \A k \in 1 .. l + n : Upto(c, k) = Upto(c, k - 1) \o c[k]
  BY <1>2, UptoAre
<1>6. 0 .. l \subseteq first
  <2>1. 0 \in first
    <3>1. 0 \in 0 .. l
      BY <1>1
    <3>2. Upto(c, 0) = Upto(a, 0)
      BY <1>3, <1>5, Zenon
    <3>. QED
      BY <3>1, <3>2
  <2>2. ASSUME NEW k \in 1 .. l, k - 1 \in first PROVE k \in first
    <3>1. k \in 0 .. l /\ k \in 1 .. l + n /\ k <= l
      BY <1>1
    <3>2. c[k] = a[k]
      BY <1>1, <3>1
    <3>3. Upto(c, k) = Upto(a, k - 1) \o a[k]
      BY <1>5, <2>2, <3>1, <3>2
    <3>. QED
      BY <1>3, <3>1, <3>3
  <2>3. \A k \in 1 .. l : k - 1 \in first => k \in first
    BY <2>2
  <2> HIDE DEF first
  <2>. QED
    BY <1>1, <2>1, <2>3, Climb
<1>7. 0 .. n \subseteq rest
  <2>1. 0 \in rest
    <3>1. 0 \in 0 .. n /\ l + 0 = l /\ l \in 0 .. l
      BY <1>1
    <3>2. Upto(c, l) = Upto(a, l) /\ Upto(a, l) \in R
      BY <1>3, <1>6, <3>1
    <3>3. Upto(a, l) \o <<>> = Upto(a, l)
      BY <3>2, ConcatEmptySeq
    <3>4. Upto(c, l + 0) = Upto(a, l) \o Upto(b, 0)
      BY <1>4, <3>1, <3>2, <3>3, Zenon
    <3>. QED
      BY <3>1, <3>4
  <2>2. ASSUME NEW k \in 1 .. n, k - 1 \in rest PROVE k \in rest
    <3> DEFINE x == Upto(a, l)
               y == Upto(b, k - 1)
               z == b[k]
    <3>1. /\ k \in 0 .. n /\ l + k \in 1 .. l + n /\ ~ (l + k <= l) /\ l + k - l = k
          /\ l + k - 1 = l + (k - 1) /\ l \in 0 .. l
      BY <1>1
    <3>2. c[l + k] = z
      BY <1>1, <3>1
    <3>3. x \in R /\ y \in R /\ z \in R
      BY <1>3, <1>4, <3>1
    <3>4. Upto(c, l + k) = Upto(c, l + k - 1) \o z
      <4> DEFINE j == l + k
      <4>1. j \in 1 .. l + n
        BY <3>1
      <4> HIDE DEF j
      <4>2. Upto(c, j) = Upto(c, j - 1) \o c[j]
        BY <1>5, <4>1
      <4>3. c[j] = z
        BY <3>2 DEF j
      <4> HIDE DEF z
      <4>4. Upto(c, j) = Upto(c, j - 1) \o z
        BY <4>2, <4>3
      <4>. QED
        BY <1>1, <4>4 DEF j
    <3>5. Upto(c, l + k - 1) = x \o y
      BY <2>2, <3>1
    <3>6. Upto(b, k) = y \o z
      BY <1>4
    <3>7. Upto(c, l + k) = x \o Upto(b, k)
      <4> HIDE DEF x, y, z
      <4>1. (x \o y) \o z = x \o (y \o z)
        BY <3>3, ConcatAssociative, SMTT(30)
      <4>. QED
        BY <3>4, <3>5, <3>6, <4>1, Zenon
    <3>. QED
      BY <3>1, <3>7
  <2>3. \A k \in 1 .. n : k - 1 \in rest => k \in rest
    BY <2>2
  <2> HIDE DEF rest
  <2>. QED
    BY <1>1, <2>1, <2>3, Climb
<1>8. Upto(c, l + n) = Upto(a, l) \o Upto(b, n)
  <2>1. n \in 0 .. n
    BY <1>1
  <2>. QED
    BY <1>7, <2>1
<1>9. FlattenSeq(c) = Upto(c, l + n) /\ FlattenSeq(a) = Upto(a, l) /\ FlattenSeq(b) = Upto(b, n)
  <2>1. FlattenSeq(c) = Upto(c, Len(c))
    BY <1>1, FlattenIs
  <2>2. FlattenSeq(a) = Upto(a, Len(a)) /\ FlattenSeq(b) = Upto(b, Len(b))
    BY FlattenIs
  <2>. QED
    BY <1>1, <2>1, <2>2 DEF l, n
<1>. QED
  BY <1>8, <1>9, Zenon DEF c

LEMMA FlattenEmpty == FlattenSeq(<<>>) = <<>>
<1>1. <<>> \in Seq(Seq({})) /\ Len(<<>>) = 0
  OBVIOUS
<1>2. FlattenSeq(<<>>) = Upto(<<>>, Len(<<>>))
  BY <1>1, FlattenIs
<1>. QED
  BY <1>1, <1>2, Zenon DEF Upto

LEMMA FlattenOne ==
    ASSUME NEW A, NEW s \in Seq(A)
    PROVE  FlattenSeq(<<s>>) = s
<1> DEFINE c == <<s>>
<1>1. c \in Seq(Seq(A)) /\ Len(c) = 1 /\ c[1] = s
  OBVIOUS
<1> HIDE DEF c
<1>2. ListOfLists(A, c, 1)
  BY <1>1, ListsOf
<1>3. /\ Upto(c, 0) = <<>>
      /\ \A k \in 1 .. 1 : Upto(c, k) = Upto(c, k - 1) \o c[k]
  BY <1>2, UptoAre
<1>4. 1 \in 1 .. 1 /\ 1 - 1 = 0
  OBVIOUS
<1>5. Upto(c, 1) = Upto(c, 0) \o s
  BY <1>1, <1>3, <1>4
<1>6. <<>> \o s = s
  BY ConcatEmptySeq
<1>7. Upto(c, 1) = s
  BY <1>3, <1>5, <1>6, Zenon
<1>8. FlattenSeq(c) = Upto(c, Len(c))
  BY <1>1, FlattenIs
<1>. QED
  BY <1>1, <1>7, <1>8 DEF c

LEMMA FlattenSingles ==
    ASSUME NEW A, NEW s \in Seq(A)
    PROVE  /\ [i \in DOMAIN s |-> <<s[i]>>] \in Seq(Seq(A))
           /\ FlattenSeq([i \in DOMAIN s |-> <<s[i]>>]) = s
<1> DEFINE c == [i \in DOMAIN s |-> <<s[i]>>]
           n == Len(s)
           U(k) == Upto(c, k)
           Good(k) == Len(U(k)) = k /\ \A i \in 1 .. k : U(k)[i] = s[i]
           good == {k \in 0 .. n : Good(k)}
<1>1. n \in Nat /\ DOMAIN s = 1 .. n /\ \A i \in 1 .. n : s[i] \in A
  BY LenProperties, ElementOfSeq
<1>2. c \in Seq(Seq(A)) /\ Len(c) = n /\ \A i \in 1 .. n : c[i] = <<s[i]>>
  <2>1. \A i \in 1 .. n : <<s[i]>> \in Seq(A)
    BY <1>1
  <2> HIDE DEF n
  <2>2. c \in [1 .. n -> Seq(A)]
    BY <1>1, <2>1
  <2>3. \A i \in 1 .. n : c[i] = <<s[i]>>
    BY <1>1
  <2> HIDE DEF c
  <2>. QED
    BY <1>1, <2>2, <2>3
<1> HIDE DEF c, n
<1>3. ListOfLists(A, c, n)
  <2>1. ListOfLists(A, c, Len(c))
    BY <1>2, ListsOf
  <2>. QED
    BY <1>2, <2>1
<1>4. /\ U(0) = <<>> /\ Len(U(0)) = 0
      /\ \A k \in 0 .. n : U(k) \in Seq(A)
      /\ \A k \in 1 .. n : U(k) = U(k - 1) \o c[k] /\ U(k - 1) \in Seq(A)
  BY <1>3, UptoAre
<1>5. 0 \in good
  BY <1>1, <1>4
<1>6. ASSUME NEW k \in 1 .. n, Good(k - 1) PROVE Good(k)
  <2> DEFINE u == U(k - 1)
             one == <<s[k]>>
  <2>1. u \in Seq(A) /\ one \in Seq(A) /\ Len(one) = 1 /\ one[1] = s[k]
    BY <1>1, <1>4
  <2>2. Len(u) = k - 1 /\ \A i \in 1 .. k - 1 : u[i] = s[i]
    BY <1>6
  <2>3. U(k) = u \o one
    BY <1>2, <1>4
  <2>5. k \in Nat /\ k >= 1
    BY <1>1
  <2> HIDE DEF u, one
  <2>4. /\ Len(u \o one) = k
        /\ \A i \in 1 .. k : (u \o one)[i] = IF i <= k - 1 THEN u[i] ELSE one[i - (k - 1)]
    <3>1. /\ Len(u \o one) = Len(u) + Len(one)
          /\ \A i \in 1 .. Len(u) + Len(one) :
               (u \o one)[i] = IF i <= Len(u) THEN u[i] ELSE one[i - Len(u)]
      BY <2>1, ConcatProperties
    <3>2. Len(u) + Len(one) = k /\ Len(u) = k - 1
      BY <2>1, <2>2, <2>5
    <3>. QED
      BY <3>1, <3>2
  <2>6. \A i \in 1 .. k : (u \o one)[i] = s[i]
    BY <2>1, <2>2, <2>4, <2>5
  <2>. QED
    BY <2>3, <2>4, <2>6
<1>7. 0 .. n \subseteq good
  <2>1. \A k \in 1 .. n : k - 1 \in good => k \in good
    <3>1. \A k \in 1 .. n : Good(k - 1) => Good(k)
      BY <1>6
    <3>2. \A k \in 1 .. n : k \in 0 .. n
      BY <1>1
    <3> HIDE DEF Good
    <3>. QED
      BY <3>1, <3>2
  <2> HIDE DEF good
  <2>. QED
    BY <1>1, <1>5, <2>1, Climb
<1>8. n \in 0 .. n
  BY <1>1
<1>9. U(n) \in Seq(A) /\ Good(n)
  BY <1>4, <1>7, <1>8
<1>10. U(n) = s
  <2> DEFINE u == U(n)
  <2>1. u \in Seq(A) /\ Len(u) = n /\ \A i \in 1 .. n : u[i] = s[i]
    BY <1>9
  <2> HIDE DEF u
  <2>2. u = s
    BY <2>1, SeqEqual DEF n
  <2>. QED
    BY <2>2 DEF u
<1>11. FlattenSeq(c) = U(n)
  <2>1. FlattenSeq(c) = Upto(c, Len(c))
    BY <1>2, FlattenIs
  <2>. QED
    BY <1>2, <2>1
<1>. QED
  BY <1>2, <1>10, <1>11 DEF c

\* The name of a link that is one piece; the names of the links.
OneName(link) == IF Len(link) = 1 THEN <<link[1].name>> ELSE <<>>

LinkNames(links) == FlattenSeq([i \in DOMAIN links |-> OneName(links[i])])

Mapped(links) == [i \in DOMAIN links |-> OneName(links[i])]

LEMMA WordIs ==
    ASSUME NEW w
    PROVE  Word(w).kind = "word" /\ Word(w).name = w /\ Values(Word(w)) = <<>>
<1> DEFINE x == Word(w)
<1>1. x.kind = "word" /\ x.name = w /\ x.attr = <<>>
  BY DEF Word
<1>2. DOMAIN x.attr = {}
  BY <1>1
<1> HIDE DEF x
<1>3. \A a : Attribute(x, a) = <<>>
  BY <1>2 DEF Attribute
<1>4. Values(x) = <<>> \o <<>> \o <<>>
  BY <1>3 DEF Values
<1>5. <<>> \o <<>> = <<>>
  BY ConcatEmptySeq, EmptySeq
<1>6. Values(x) = <<>>
  BY <1>4, <1>5, Zenon
<1>. QED
  BY <1>1, <1>6 DEF x

LEMMA SingleIn ==
    ASSUME NEW P, Pieces(P), NEW link \in Seq(P)
    PROVE  OneName(link) \in Seq(Char)
<1>1. CASE Len(link) = 1
  <2>1. link[1] \in P
    BY <1>1, ElementOfSeq
  <2>2. link[1].name \in Char
    BY <2>1 DEF Pieces
  <2>3. OneName(link) = <<link[1].name>>
    BY <1>1 DEF OneName
  <2>. QED
    BY <2>2, <2>3
<1>2. CASE Len(link) # 1
  <2>1. OneName(link) = <<>>
    BY <1>2 DEF OneName
  <2>2. <<>> \in Seq(Char)
    OBVIOUS
  <2>. QED
    BY <2>1, <2>2
<1>. QED
  BY <1>1, <1>2

LEMMA MappedIs ==
    ASSUME NEW P, Pieces(P), NEW links \in Seq(Seq(P))
    PROVE  /\ Mapped(links) \in Seq(Seq(Char))
           /\ Len(Mapped(links)) = Len(links) /\ Len(links) \in Nat
           /\ \A i \in 1 .. Len(links) : Mapped(links)[i] = OneName(links[i])
<1> DEFINE n == Len(links)
           m == Mapped(links)
<1>1. n \in Nat /\ DOMAIN links = 1 .. n /\ \A i \in 1 .. n : links[i] \in Seq(P)
  BY LenProperties, ElementOfSeq
<1>2. \A i \in 1 .. n : OneName(links[i]) \in Seq(Char)
  BY <1>1, SingleIn
<1> HIDE DEF n
<1>3. m = [i \in 1 .. n |-> OneName(links[i])]
  BY <1>1 DEF Mapped
<1>4. m \in [1 .. n -> Seq(Char)] /\ \A i \in 1 .. n : m[i] = OneName(links[i])
  BY <1>2, <1>3
<1> HIDE DEF m
<1>5. m \in Seq(Seq(Char)) /\ Len(m) = n
  BY <1>1, <1>4
<1>. QED
  BY <1>1, <1>4, <1>5 DEF m, n

LEMMA NamesIn ==
    ASSUME NEW P, Pieces(P), NEW links \in Seq(Seq(P))
    PROVE  LinkNames(links) \in Seq(Char)
<1>1. Mapped(links) \in Seq(Seq(Char))
  BY MappedIs
<1>2. FlattenSeq(Mapped(links)) \in Seq(Char)
  BY <1>1, FlattenIn
<1>. QED
  BY <1>2 DEF LinkNames, Mapped

LEMMA NamesConcat ==
    ASSUME NEW P, Pieces(P), NEW a \in Seq(Seq(P)), NEW b \in Seq(Seq(P))
    PROVE  a \o b \in Seq(Seq(P)) /\ LinkNames(a \o b) = LinkNames(a) \o LinkNames(b)
<1> DEFINE c == a \o b
           R == Seq(P)
           T == Seq(Char)
           x == Mapped(a)
           y == Mapped(b)
           z == Mapped(c)
<1>1. /\ c \in Seq(R) /\ Len(c) = Len(a) + Len(b)
      /\ \A i \in 1 .. Len(a) + Len(b) : c[i] = IF i <= Len(a) THEN a[i] ELSE b[i - Len(a)]
  <2>1. a \in Seq(R) /\ b \in Seq(R)
    OBVIOUS
  <2> HIDE DEF R
  <2>. QED
    BY <2>1, ConcatProperties
<1> HIDE DEF c
<1>2. /\ x \in Seq(T) /\ Len(x) = Len(a) /\ Len(a) \in Nat
      /\ \A i \in 1 .. Len(a) : x[i] = OneName(a[i])
  BY MappedIs
<1>3. /\ y \in Seq(T) /\ Len(y) = Len(b) /\ Len(b) \in Nat
      /\ \A i \in 1 .. Len(b) : y[i] = OneName(b[i])
  BY MappedIs
<1>4. /\ z \in Seq(T) /\ Len(z) = Len(c)
      /\ \A i \in 1 .. Len(c) : z[i] = OneName(c[i])
  BY <1>1, MappedIs
<1> HIDE DEF x, y, z, T
<1>5. /\ x \o y \in Seq(T) /\ Len(x \o y) = Len(x) + Len(y)
      /\ \A i \in 1 .. Len(x) + Len(y) : (x \o y)[i] = IF i <= Len(x) THEN x[i] ELSE y[i - Len(x)]
  <2>1. x \in Seq(T) /\ y \in Seq(T)
    BY <1>2, <1>3
  <2>. QED
    BY <2>1, ConcatProperties
<1>6. ASSUME NEW i \in 1 .. Len(c) PROVE z[i] = (x \o y)[i]
  <2>1. i \in 1 .. Len(a) + Len(b)
    BY <1>1
  <2>2. CASE i <= Len(a)
    <3>1. i \in 1 .. Len(a)
      BY <2>2
    <3>2. c[i] = a[i] /\ (x \o y)[i] = x[i]
      BY <1>1, <1>2, <1>3, <1>5, <2>1, <2>2
    <3>. QED
      BY <1>2, <1>4, <3>1, <3>2
  <2>3. CASE ~ (i <= Len(a))
    <3> DEFINE j == i - Len(a)
    <3>1. j \in 1 .. Len(b)
      BY <1>2, <1>3, <2>1, <2>3
    <3>2. c[i] = b[j] /\ (x \o y)[i] = y[j]
      BY <1>1, <1>2, <1>3, <1>5, <2>1, <2>3
    <3> HIDE DEF j
    <3>. QED
      BY <1>3, <1>4, <3>1, <3>2
  <2>. QED
    BY <2>2, <2>3
<1>7. z = x \o y
  <2> DEFINE u == x \o y
  <2>1. Len(z) = Len(u) /\ \A i \in 1 .. Len(z) : z[i] = u[i]
    BY <1>1, <1>2, <1>3, <1>4, <1>5, <1>6
  <2>2. u \in Seq(T)
    BY <1>5
  <2> HIDE DEF u
  <2>3. z = u
    BY <1>4, <2>1, <2>2, SeqEqual
  <2>. QED
    BY <2>3 DEF u
<1>8. FlattenSeq(x \o y) = FlattenSeq(x) \o FlattenSeq(y)
  BY <1>2, <1>3, FlattenConcat DEF T
<1>9. /\ LinkNames(c) = FlattenSeq(z) /\ LinkNames(a) = FlattenSeq(x) /\ LinkNames(b) = FlattenSeq(y)
  BY Zenon DEF LinkNames, Mapped, x, y, z
<1>10. LinkNames(c) = LinkNames(a) \o LinkNames(b)
  BY <1>7, <1>8, <1>9
<1>. QED
  BY <1>1, <1>10 DEF c

LEMMA NamesEmpty == LinkNames(<<>>) = <<>>
<1>1. DOMAIN <<>> = {}
  OBVIOUS
<1>2. [i \in DOMAIN <<>> |-> OneName(<<>>[i])] = <<>>
  BY <1>1
<1>. QED
  BY <1>2, FlattenEmpty, Zenon DEF LinkNames

LEMMA NamesOne ==
    ASSUME NEW P, Pieces(P), NEW link \in Seq(P)
    PROVE  LinkNames(<<link>>) = OneName(link)
<1> DEFINE c == <<link>>
           s == OneName(link)
<1>1. DOMAIN c = {1} /\ c[1] = link
  OBVIOUS
<1>2. [i \in DOMAIN c |-> OneName(c[i])] = <<s>>
  BY <1>1
<1>3. s \in Seq(Char)
  BY SingleIn
<1> HIDE DEF s, c
<1>4. FlattenSeq(<<s>>) = s
  BY <1>3, FlattenOne
<1>5. LinkNames(c) = s
  BY <1>2, <1>4, Zenon DEF LinkNames
<1>. QED
  BY <1>5 DEF c, s

LEMMA NamesOfValues ==
    ASSUME NEW P, Pieces(P), NEW values \in Seq(Char)
    PROVE  /\ [v \in DOMAIN values |-> <<Word(values[v])>>] \in Seq(Seq(P))
           /\ LinkNames([v \in DOMAIN values |-> <<Word(values[v])>>]) = values
<1> DEFINE c == [v \in DOMAIN values |-> <<Word(values[v])>>]
           n == Len(values)
<1>1. n \in Nat /\ DOMAIN values = 1 .. n /\ \A i \in 1 .. n : values[i] \in Char
  BY LenProperties, ElementOfSeq
<1>2. \A i \in 1 .. n : <<Word(values[i])>> \in Seq(P)
  BY <1>1 DEF Pieces
<1> HIDE DEF n
<1>3. c \in [1 .. n -> Seq(P)]
  BY <1>1, <1>2
<1>4. \A i \in 1 .. n : OneName(c[i]) = <<values[i]>>
  <2>1. ASSUME NEW i \in 1 .. n PROVE OneName(c[i]) = <<values[i]>>
    <3> DEFINE one == <<Word(values[i])>>
    <3>1. c[i] = one /\ Len(one) = 1 /\ one[1] = Word(values[i])
      BY <1>1
    <3>2. Word(values[i]).name = values[i]
      BY WordIs
    <3> HIDE DEF c, one
    <3>. QED
      BY <3>1, <3>2 DEF OneName
  <2>. QED
    BY <2>1
<1>5. c \in Seq(Seq(P)) /\ DOMAIN c = 1 .. n
  <2> HIDE DEF c
  <2>. QED
    BY <1>1, <1>3
<1> HIDE DEF c
<1>6. [i \in DOMAIN c |-> OneName(c[i])] = [i \in DOMAIN values |-> <<values[i]>>]
  BY <1>1, <1>4, <1>5
<1>7. FlattenSeq([i \in DOMAIN values |-> <<values[i]>>]) = values
  BY FlattenSingles
<1>8. LinkNames(c) = values
  BY <1>6, <1>7 DEF LinkNames
<1>. QED
  BY <1>5, <1>8 DEF c

LEMMA BodyIn ==
    ASSUME NEW P, NEW page \in Seq(P), NEW i \in 1 .. Len(page)
    PROVE  Body(page, i) \in Seq(P)
<1> DEFINE ends == Following(page, i, "end", page[i].name)
<1>1. Len(page) \in Nat
  BY LenProperties
<1>2. ends # {} => Min(ends) \in ends /\ ends \subseteq i + 1 .. Len(page)
  BY FollowingIs
<1>3. Body(page, i) = IF ends = {} THEN <<>> ELSE SubSeq(page, i + 1, Min(ends) - 1)
  BY DEF Body
<1> HIDE DEF ends
<1>4. CASE ends = {}
  <2>1. <<>> \in Seq(P)
    OBVIOUS
  <2>. QED
    BY <1>3, <1>4, <2>1
<1>5. CASE ends # {}
  <2> DEFINE e == Min(ends) - 1
  <2>1. e \in Int /\ i + 1 \in Int /\ e <= Len(page) /\ i + 1 \in Nat
    BY <1>1, <1>2, <1>5
  <2>2. Body(page, i) = SubSeq(page, i + 1, e)
    BY <1>3, <1>5
  <2> HIDE DEF e
  <2>3. \A k \in i + 1 .. e : page[k] \in P
    <3>1. \A k \in i + 1 .. e : k \in 1 .. Len(page)
      BY <1>1, <2>1
    <3>. QED
      BY <3>1, ElementOfSeq
  <2>4. SubSeq(page, i + 1, e) \in Seq(P)
    BY <2>1, <2>3, SubSeqProperties
  <2>. QED
    BY <2>2, <2>4
<1>. QED
  BY <1>4, <1>5

LEMMA LinksOfTagIs ==
    ASSUME NEW P, Pieces(P), NEW page \in Seq(P), NEW i \in 1 .. Len(page)
    PROVE  /\ LinksOfTag(page, i) \in Seq(Seq(P))
           /\ Values(page[i]) \in Seq(Char)
           /\ LinkNames(LinksOfTag(page, i)) =
                Values(page[i]) \o
                  OneName(IF page[i].name \in {"loc", "link"} THEN Body(page, i) ELSE <<>>)
<1> DEFINE values == Values(page[i])
           body == IF page[i].name \in {"loc", "link"} THEN Body(page, i) ELSE <<>>
           first == [v \in DOMAIN values |-> <<Word(values[v])>>]
           rest == IF body # <<>> THEN <<body>> ELSE <<>>
<1>1. page[i] \in P
  BY ElementOfSeq
<1>2. values \in Seq(Char)
  BY <1>1 DEF Pieces
<1>3. body \in Seq(P)
  <2>1. Body(page, i) \in Seq(P) /\ <<>> \in Seq(P)
    BY BodyIn
  <2>. QED
    BY <2>1
<1>4. LinksOfTag(page, i) = first \o rest
  BY DEF LinksOfTag
<1>5. first \in Seq(Seq(P)) /\ LinkNames(first) = values
  BY <1>2, NamesOfValues
<1>6. rest \in Seq(Seq(P)) /\ LinkNames(rest) = OneName(body)
  <2> HIDE DEF body
  <2>1. CASE body = <<>>
    <3>1. Len(body) = 0
      BY <2>1
    <3>2. OneName(body) = <<>>
      BY <3>1 DEF OneName
    <3>3. rest = <<>>
      BY <2>1
    <3>4. <<>> \in Seq(Seq(P))
      OBVIOUS
    <3>. QED
      BY <3>2, <3>3, <3>4, NamesEmpty
  <2>2. CASE body # <<>>
    <3>1. rest = <<body>>
      BY <2>2
    <3>2. <<body>> \in Seq(Seq(P))
      BY <1>3
    <3>3. LinkNames(<<body>>) = OneName(body)
      BY <1>3, NamesOne
    <3>. QED
      BY <3>1, <3>2, <3>3
  <2>. QED
    BY <2>1, <2>2
<1> HIDE DEF first, rest, values, body
<1>7. first \o rest \in Seq(Seq(P)) /\ LinkNames(first \o rest) = LinkNames(first) \o LinkNames(rest)
  BY <1>5, <1>6, NamesConcat
<1>8. LinksOfTag(page, i) \in Seq(Seq(P)) /\ LinkNames(LinksOfTag(page, i)) = values \o OneName(body)
  BY <1>4, <1>5, <1>6, <1>7
<1>. QED
  BY <1>2, <1>8 DEF values, body

\* The links from a place on.
LinkNext(page, i, f) ==
    IF i > Len(page) THEN <<>>
    ELSE IF page[i].kind = "open" THEN f[BehindComment(page, i)]
    ELSE IF page[i].kind \in {"tag", "end"} THEN LinksOfTag(page, i) \o f[i + 1]
    ELSE f[i + 1]

LinksFrom(page) == CHOOSE f : f = [i \in 1 .. Len(page) + 1 |-> LinkNext(page, i, f)]

LEMMA ExtractLinksIs ==
    ASSUME NEW page
    PROVE  ExtractLinks(page) = LinksFrom(page)[1]
  BY Zenon DEF ExtractLinks, LinksFrom, LinkNext

LEMMA LinkNextIn ==
    ASSUME NEW P, NEW page \in Seq(P), Pieces(P), NEW i \in 1 .. Len(page) + 1, NEW f,
           \A y \in i + 1 .. Len(page) + 1 : f[y] \in Seq(Seq(P))
    PROVE  /\ LinkNext(page, i, f) \in Seq(Seq(P))
           /\ \A h : (\A y \in i + 1 .. Len(page) + 1 : f[y] = h[y])
                       => LinkNext(page, i, f) = LinkNext(page, i, h)
<1>1. Len(page) \in Nat
  BY LenProperties
<1>2. CASE i > Len(page)
  <2>1. \A h : LinkNext(page, i, h) = <<>>
    BY <1>2, Zenon DEF LinkNext
  <2>2. <<>> \in Seq(Seq(P))
    OBVIOUS
  <2>. QED
    BY <2>1, <2>2
<1>3. CASE ~ (i > Len(page))
  <2>1. i \in 1 .. Len(page) /\ i + 1 \in i + 1 .. Len(page) + 1
    BY <1>1, <1>3
  <2> DEFINE c == BehindComment(page, i)
             t == LinksOfTag(page, i)
  <2>2. c \in i + 1 .. Len(page) + 1
    BY <2>1, BehindIn DEF BehindComment
  <2>3. \A h : LinkNext(page, i, h) =
                 IF page[i].kind = "open" THEN h[c]
                 ELSE IF page[i].kind \in {"tag", "end"} THEN t \o h[i + 1]
                 ELSE h[i + 1]
    BY <1>3, Zenon DEF LinkNext
  <2>4. t \in Seq(Seq(P))
    BY <2>1, LinksOfTagIs
  <2> HIDE DEF c, t
  <2>7. t \o f[i + 1] \in Seq(Seq(P))
    <3> DEFINE R == Seq(P)
               u == f[i + 1]
    <3>1. t \in Seq(R) /\ u \in Seq(R)
      BY <2>1, <2>4
    <3> HIDE DEF R, u
    <3>2. t \o u \in Seq(R)
      BY <3>1, ConcatProperties
    <3>. QED
      BY <3>2 DEF R, u
  <2>5. LinkNext(page, i, f) \in Seq(Seq(P))
    BY <2>1, <2>2, <2>3, <2>7
  <2>6. ASSUME NEW h, \A y \in i + 1 .. Len(page) + 1 : f[y] = h[y]
        PROVE  LinkNext(page, i, f) = LinkNext(page, i, h)
    <3>1. f[c] = h[c] /\ f[i + 1] = h[i + 1]
      BY <2>1, <2>2, <2>6
    <3>. QED
      BY <2>3, <3>1
  <2>. QED
    BY <2>5, <2>6
<1>. QED
  BY <1>2, <1>3

LEMMA LinksFromIs ==
    ASSUME NEW P, NEW page \in Seq(P), Pieces(P)
    PROVE  \A i \in 1 .. Len(page) + 1 : /\ LinksFrom(page)[i] = LinkNext(page, i, LinksFrom(page))
                                         /\ LinksFrom(page)[i] \in Seq(Seq(P))
<1> DEFINE N == Len(page) + 1
           R == Seq(Seq(P))
           next == [i \in 1 .. N |-> [f \in [1 .. N -> R] |-> LinkNext(page, i, f)]]
           g == LinksFrom(page)
<1>1. Len(page) \in Nat /\ N \in Nat
  BY LenProperties
<1>2. ASSUME NEW i \in 1 .. N, NEW f, \A y \in i + 1 .. N : f[y] \in R
      PROVE  /\ LinkNext(page, i, f) \in R
             /\ \A h : (\A y \in i + 1 .. N : f[y] = h[y])
                         => LinkNext(page, i, f) = LinkNext(page, i, h)
  <2>1. /\ i \in 1 .. Len(page) + 1
        /\ \A y \in i + 1 .. Len(page) + 1 : f[y] \in Seq(Seq(P))
    BY <1>2
  <2> DEFINE a == LinkNext(page, i, f)
             B(h) == LinkNext(page, i, h)
  <2>2. /\ a \in Seq(Seq(P))
        /\ \A h : (\A y \in i + 1 .. Len(page) + 1 : f[y] = h[y]) => a = B(h)
    BY <2>1, LinkNextIn
  <2>. QED
    BY <2>2
<1>3. ASSUME NEW i \in 1 .. N, NEW f \in [1 .. N -> R] PROVE \A y \in i + 1 .. N : f[y] \in R
  <2>1. \A y \in i + 1 .. N : y \in 1 .. N
    BY <1>1
  <2> HIDE DEF N, R
  <2>. QED
    BY <2>1
<1>4. <<>> \in R
  OBVIOUS
<1>5. Backward(N, R, next)
  <2> HIDE DEF N, R
  <2>1. \A i \in 1 .. N : \A f \in [1 .. N -> R] : LinkNext(page, i, f) \in R
    BY <1>2, <1>3
  <2>2. next \in [1 .. N -> [[1 .. N -> R] -> R]]
    BY <2>1
  <2>3. ASSUME NEW i \in 1 .. N, NEW f \in [1 .. N -> R], NEW h \in [1 .. N -> R],
               \A y \in i + 1 .. N : f[y] = h[y]
        PROVE  next[i][f] = next[i][h]
    <3>1. LinkNext(page, i, f) = LinkNext(page, i, h)
      BY <1>2, <1>3, <2>3
    <3>. QED
      BY <3>1
  <2> HIDE DEF next
  <2>. QED
    BY <1>1, <1>4, <2>2, <2>3 DEF Backward
<1>6. PICK f \in [1 .. N -> R] : \A i \in 1 .. N : f[i] = next[i][f]
  <2> HIDE DEF N, R, next
  <2>. QED
    BY <1>5, BackwardExists
<1>7. f = [i \in 1 .. N |-> LinkNext(page, i, f)]
  <2> HIDE DEF N, R
  <2>. QED
    BY <1>6
<1>8. g = [i \in 1 .. N |-> LinkNext(page, i, g)]
  <2> HIDE DEF next, R
  <2>. QED
    BY <1>7, Zenon DEF LinksFrom
<1> HIDE DEF g, N, R
<1>9. \A i \in 1 .. N : g[i] = LinkNext(page, i, g)
  BY <1>8
<1> DEFINE good == {i \in 1 .. N : g[i] \in R}
<1>10. 1 .. N \subseteq good
  <2>1. \A i \in 1 .. N : (\A y \in i + 1 .. N : y \in good) => i \in good
    BY <1>2, <1>9
  <2> HIDE DEF good
  <2>. QED
    BY <1>1, <2>1, BackwardIn
<1>11. \A i \in 1 .. N : g[i] \in R
  BY <1>10
<1>. QED
  BY <1>9, <1>11 DEF g, N, R

\* The text and the names of the links from a place on, and what one piece adds.
Text(page, i) == CleanFrom(page)[i]

Linked(page, i) == LinkNames(LinksFrom(page)[i])

LEMMA TextAndLinks ==
    ASSUME NEW P, NEW page \in Seq(P), Pieces(P)
    PROVE  /\ CleanText(page) = Text(page, 1) /\ LinkNames(ExtractLinks(page)) = Linked(page, 1)
           /\ Text(page, Len(page) + 1) = <<>> /\ Linked(page, Len(page) + 1) = <<>>
           /\ \A i \in 1 .. Len(page) + 1 : Text(page, i) \in Seq(Char) /\ Linked(page, i) \in Seq(Char)
<1> DEFINE n == Len(page) + 1
<1>1. Len(page) \in Nat /\ n \in 1 .. n /\ n > Len(page)
  BY LenProperties
<1>2. \A i \in 1 .. n : /\ CleanFrom(page)[i] = CleanNext(page, i, CleanFrom(page))
                        /\ CleanFrom(page)[i] \in Seq(Char)
  BY CleanFromIs
<1>3. \A i \in 1 .. n : /\ LinksFrom(page)[i] = LinkNext(page, i, LinksFrom(page))
                        /\ LinksFrom(page)[i] \in Seq(Seq(P))
  BY LinksFromIs
<1> HIDE DEF n
<1>4. \A i \in 1 .. n : Text(page, i) \in Seq(Char)
  BY <1>2 DEF Text
<1>5. \A i \in 1 .. n : Linked(page, i) \in Seq(Char)
  BY <1>3, NamesIn DEF Linked
<1>6. Text(page, n) = <<>>
  <2>1. CleanNext(page, n, CleanFrom(page)) = <<>>
    BY <1>1, Zenon DEF CleanNext
  <2>. QED
    BY <1>1, <1>2, <2>1 DEF Text
<1>7. Linked(page, n) = <<>>
  <2>1. LinkNext(page, n, LinksFrom(page)) = <<>>
    BY <1>1, Zenon DEF LinkNext
  <2>2. LinksFrom(page)[n] = <<>>
    BY <1>1, <1>3, <2>1
  <2>. QED
    BY <2>2, NamesEmpty DEF Linked
<1>8. CleanText(page) = Text(page, 1)
  BY CleanTextIs DEF Text
<1>9. LinkNames(ExtractLinks(page)) = Linked(page, 1)
  BY ExtractLinksIs DEF Linked
<1>. QED
  BY <1>4, <1>5, <1>6, <1>7, <1>8, <1>9 DEF n

LEMMA OpenAdds ==
    ASSUME NEW P, NEW page \in Seq(P), Pieces(P), NEW i \in 1 .. Len(page),
           page[i].kind = "open"
    PROVE  /\ Text(page, i) = Text(page, BehindComment(page, i))
           /\ Linked(page, i) = Linked(page, BehindComment(page, i))
<1>1. i \in 1 .. Len(page) + 1 /\ ~ (i > Len(page))
  <2>1. Len(page) \in Nat
    BY LenProperties
  <2>. QED
    BY <2>1
<1>2. Text(page, i) = Text(page, BehindComment(page, i))
  <2>1. CleanNext(page, i, CleanFrom(page)) = CleanFrom(page)[BehindComment(page, i)]
    BY <1>1, Zenon DEF CleanNext
  <2>. QED
    BY <1>1, <2>1, CleanFromIs DEF Text
<1>3. Linked(page, i) = Linked(page, BehindComment(page, i))
  <2>1. LinkNext(page, i, LinksFrom(page)) = LinksFrom(page)[BehindComment(page, i)]
    BY <1>1, Zenon DEF LinkNext
  <2>. QED
    BY <1>1, <2>1, LinksFromIs DEF Linked
<1>. QED
  BY <1>2, <1>3

LEMMA WordAdds ==
    ASSUME NEW P, NEW page \in Seq(P), Pieces(P), NEW i \in 1 .. Len(page),
           page[i].kind = "word"
    PROVE  /\ Text(page, i) = <<page[i].name>> \o Text(page, i + 1)
           /\ Linked(page, i) = Linked(page, i + 1)
<1>1. /\ i \in 1 .. Len(page) + 1 /\ ~ (i > Len(page))
      /\ page[i].kind # "open" /\ page[i].kind \notin {"tag", "end"}
  <2>1. Len(page) \in Nat
    BY LenProperties
  <2>. QED
    BY <2>1
<1>2. Text(page, i) = <<page[i].name>> \o Text(page, i + 1)
  <2>1. CleanNext(page, i, CleanFrom(page)) = <<page[i].name>> \o CleanFrom(page)[i + 1]
    BY <1>1, Zenon DEF CleanNext
  <2>2. CleanFrom(page)[i] = CleanNext(page, i, CleanFrom(page))
    BY <1>1, CleanFromIs
  <2>. QED
    BY <2>1, <2>2, Zenon DEF Text
<1>3. Linked(page, i) = Linked(page, i + 1)
  <2>1. LinkNext(page, i, LinksFrom(page)) = LinksFrom(page)[i + 1]
    BY <1>1, Zenon DEF LinkNext
  <2>2. LinksFrom(page)[i] = LinkNext(page, i, LinksFrom(page))
    BY <1>1, LinksFromIs
  <2>. QED
    BY <2>1, <2>2, Zenon DEF Linked
<1>. QED
  BY <1>2, <1>3

LEMMA TagAdds ==
    ASSUME NEW P, NEW page \in Seq(P), Pieces(P), NEW i \in 1 .. Len(page),
           page[i].kind \in {"tag", "end"}
    PROVE  /\ page[i].name \in HiddenElement =>
                Text(page, i) = Text(page, Behind(page, i, "end", page[i].name))
           /\ page[i].name \notin HiddenElement => Text(page, i) = Text(page, i + 1)
           /\ Linked(page, i) = LinkNames(LinksOfTag(page, i)) \o Linked(page, i + 1)
<1> DEFINE e == Behind(page, i, "end", page[i].name)
<1>1. /\ i \in 1 .. Len(page) + 1 /\ i + 1 \in 1 .. Len(page) + 1 /\ ~ (i > Len(page))
      /\ page[i].kind # "open"
  <2>1. Len(page) \in Nat
    BY LenProperties
  <2>. QED
    BY <2>1
<1>2. Text(page, i) = Text(page, IF page[i].name \in HiddenElement THEN e ELSE i + 1)
  <2>1. CleanNext(page, i, CleanFrom(page))
          = CleanFrom(page)[IF page[i].name \in HiddenElement THEN e ELSE i + 1]
    BY <1>1, Zenon DEF CleanNext
  <2>2. CleanFrom(page)[i] = CleanNext(page, i, CleanFrom(page))
    BY <1>1, CleanFromIs
  <2>. QED
    BY <2>1, <2>2, Zenon DEF Text
<1>3. Linked(page, i) = LinkNames(LinksOfTag(page, i)) \o Linked(page, i + 1)
  <2> DEFINE t == LinksOfTag(page, i)
             r == LinksFrom(page)[i + 1]
  <2>1. LinkNext(page, i, LinksFrom(page)) = t \o r
    BY <1>1, Zenon DEF LinkNext
  <2>2. LinksFrom(page)[i] = LinkNext(page, i, LinksFrom(page)) /\ r \in Seq(Seq(P))
    BY <1>1, LinksFromIs
  <2>3. t \in Seq(Seq(P))
    BY LinksOfTagIs
  <2> HIDE DEF t, r
  <2>4. LinkNames(t \o r) = LinkNames(t) \o LinkNames(r)
    BY <2>2, <2>3, NamesConcat
  <2>5. Linked(page, i) = LinkNames(t \o r)
    BY <2>1, <2>2 DEF Linked
  <2>. QED
    BY <2>4, <2>5 DEF Linked, t, r
<1>. QED
  BY <1>2, <1>3

LEMMA SingleEmpty == OneName(<<>>) = <<>>
<1>1. Len(<<>>) = 0
  OBVIOUS
<1>. QED
  BY <1>1 DEF OneName

\* A tag or an end tag without attributes.
Bare(x, name, kind) == x = [Word(name) EXCEPT !.kind = kind]

LEMMA BareTagIs ==
    ASSUME NEW x, NEW name, NEW kind, Bare(x, name, kind)
    PROVE  x.kind = kind /\ x.name = name /\ Values(x) = <<>>
<1>1. x.kind = kind /\ x.name = name /\ x.attr = <<>>
  BY DEF Word, Bare
<1>2. DOMAIN x.attr = {}
  BY <1>1
<1>3. \A a : Attribute(x, a) = <<>>
  BY <1>2 DEF Attribute
<1>4. Values(x) = <<>> \o <<>> \o <<>>
  BY <1>3 DEF Values
<1>5. <<>> \o <<>> = <<>>
  BY ConcatEmptySeq, EmptySeq
<1>6. Values(x) = <<>>
  BY <1>4, <1>5, Zenon
<1>. QED
  BY <1>1, <1>6

LEMMA PlainKind ==
    ASSUME NEW x, Plain(x)
    PROVE  /\ x.kind \in {"word", "tag", "end"}
           /\ x.kind = "word" => Values(x) = <<>>
           /\ x.kind \in {"tag", "end"} => x.name \notin Around
<1>1. CASE IsWord(x)
  <2>1. x = Word(x.name)
    BY <1>1 DEF IsWord
  <2>2. x.kind = "word" /\ Values(x) = <<>>
    BY <2>1, WordIs
  <2>. QED
    BY <2>2
<1>2. CASE x.kind \in {"tag", "end"} /\ x.name \notin Around
  BY <1>2
<1>. QED
  BY <1>1, <1>2 DEF Plain

\* A tag that is no link of a sitemap gives its values.
LEMMA ValuesAdd ==
    ASSUME NEW P, NEW page \in Seq(P), Pieces(P), NEW i \in 1 .. Len(page),
           page[i].kind \in {"tag", "end"}, page[i].name \notin {"loc", "link"}
    PROVE  Linked(page, i) = Values(page[i]) \o Linked(page, i + 1)
<1>1. Linked(page, i) = LinkNames(LinksOfTag(page, i)) \o Linked(page, i + 1)
  BY TagAdds
<1>2. /\ Values(page[i]) \in Seq(Char)
      /\ LinkNames(LinksOfTag(page, i)) =
           Values(page[i]) \o
             OneName(IF page[i].name \in {"loc", "link"} THEN Body(page, i) ELSE <<>>)
  BY LinksOfTagIs
<1>3. (IF page[i].name \in {"loc", "link"} THEN Body(page, i) ELSE <<>>) = <<>>
  OBVIOUS
<1>4. LinkNames(LinksOfTag(page, i)) = Values(page[i]) \o <<>>
  BY <1>2, <1>3, SingleEmpty, Zenon
<1>5. Values(page[i]) \o <<>> = Values(page[i])
  BY <1>2, ConcatEmptySeq
<1>. QED
  BY <1>1, <1>4, <1>5

LEMMA EmptyAdds ==
    ASSUME NEW A, NEW s \in Seq(A)
    PROVE  <<>> \o s = s /\ <<>> \in Seq(A)
  BY ConcatEmptySeq, EmptySeq

LEMMA PlainAdds ==
    ASSUME NEW P, NEW page \in Seq(P), Pieces(P), NEW i \in 1 .. Len(page), Plain(page[i])
    PROVE  Linked(page, i) = Values(page[i]) \o Linked(page, i + 1)
<1>1. CASE page[i].kind = "word"
  <2>1. Linked(page, i) = Linked(page, i + 1)
    BY <1>1, WordAdds
  <2>2. Values(page[i]) = <<>>
    BY <1>1, PlainKind
  <2>3. i + 1 \in 1 .. Len(page) + 1
    BY LenProperties
  <2>4. Linked(page, i + 1) \in Seq(Char)
    BY <2>3, TextAndLinks
  <2>5. <<>> \o Linked(page, i + 1) = Linked(page, i + 1)
    BY <2>4, EmptyAdds
  <2>. QED
    BY <2>1, <2>2, <2>5, Zenon
<1>2. CASE page[i].kind \in {"tag", "end"}
  <2>1. page[i].name \notin {"loc", "link"}
    BY <1>2, PlainKind DEF Around
  <2>. QED
    BY <1>2, <2>1, ValuesAdd
<1>. QED
  BY <1>1, <1>2, PlainKind

\* Every end of a link of a sitemap stands behind its tag and one word.
EntryEnds(page) ==
    \A p \in 1 .. Len(page) :
       page[p].kind = "end" /\ page[p].name \in {"loc", "link"} =>
          p > 2 /\ page[p - 1].kind = "word" /\ page[p - 2].kind = "tag"

LEMMA EndBody ==
    ASSUME NEW P, NEW page \in Seq(P), EntryEnds(page), NEW i \in 1 .. Len(page),
           page[i].kind = "end", page[i].name \in {"loc", "link"}
    PROVE  OneName(Body(page, i)) = <<>>
<1> DEFINE ends == Following(page, i, "end", page[i].name)
<1>1. Len(page) \in Nat
  BY LenProperties
<1>2. /\ ends \subseteq i + 1 .. Len(page)
      /\ ends # {} => Min(ends) \in ends
  BY FollowingIs
<1>3. Body(page, i) = IF ends = {} THEN <<>> ELSE SubSeq(page, i + 1, Min(ends) - 1)
  BY DEF Body
<1>4. \A e \in ends : page[e].kind = "end" /\ page[e].name = page[i].name
  BY DEF Following
<1> HIDE DEF ends
<1>5. CASE ends = {}
  BY <1>3, <1>5, SingleEmpty
<1>6. CASE ends # {}
  <2> DEFINE e == Min(ends)
             m == i + 1
             n == e - 1
  <2>1. e \in i + 1 .. Len(page) /\ page[e].kind = "end" /\ page[e].name \in {"loc", "link"}
    BY <1>2, <1>4, <1>6
  <2>2. e \in 1 .. Len(page)
    BY <1>1, <2>1
  <2>3. e > 2 /\ page[e - 1].kind = "word" /\ page[e - 2].kind = "tag"
    BY <2>1, <2>2 DEF EntryEnds
  <2>4. e # i + 2
    <3>1. e = i + 2 => e - 2 = i
      BY <1>1
    <3>. QED
      BY <2>3, <3>1
  <2>5. e # i + 1
    <3>1. e = i + 1 => e - 1 = i
      BY <1>1
    <3>. QED
      BY <2>3, <3>1
  <2>6. Body(page, i) = SubSeq(page, m, n)
    BY <1>3, <1>6
  <2>7. m \in Int /\ n \in Int /\ m <= n /\ n - m + 1 # 1 /\ m \in Nat /\ n <= Len(page)
    <3> HIDE DEF e
    <3>. QED
      BY <1>1, <2>1, <2>4, <2>5
  <2> HIDE DEF e, m, n
  <2>8. \A k \in m .. n : page[k] \in P
    <3>1. \A k \in m .. n : k \in 1 .. Len(page)
      BY <1>1, <2>7 DEF m
    <3>. QED
      BY <3>1, ElementOfSeq
  <2>9. Len(SubSeq(page, m, n)) = n - m + 1
    BY <2>7, <2>8, SubSeqProperties
  <2>10. Len(Body(page, i)) # 1
    BY <2>6, <2>7, <2>9
  <2>. QED
    BY <2>10 DEF OneName
<1>. QED
  BY <1>5, <1>6

\* A comment adds nothing.
LEMMA CommentAdds ==
    ASSUME NEW P, NEW page \in Seq(P), Pieces(P), NEW o, NEW pieces, Holds(page, o, pieces),
           NEW a \in 1 .. Len(pieces), NEW b \in 1 .. Len(pieces), Commented(pieces, a, b)
    PROVE  /\ Text(page, o + a) = Text(page, o + b + 1)
           /\ Linked(page, o + a) = Linked(page, o + b + 1)
<1>1. /\ o \in Nat /\ Len(pieces) \in Nat /\ Len(page) \in Nat /\ o + Len(pieces) <= Len(page)
      /\ \A j \in 1 .. Len(pieces) : page[o + j] = pieces[j]
  BY DEF Holds
<1>2. /\ a < b /\ pieces[a].kind = "open" /\ pieces[b].kind = "close" /\ pieces[b].name = "-->"
      /\ \A k \in a + 1 .. b - 1 : pieces[k].kind = "open" \/ Plain(pieces[k])
  BY DEF Commented
<1> DEFINE i == o + a
           l == o + b
<1>3. i \in 1 .. Len(page) /\ l \in 1 .. Len(page) /\ i < l
  BY <1>1, <1>2
<1>4. page[i] = pieces[a] /\ page[l] = pieces[b]
  BY <1>1
<1>5. ASSUME NEW k \in i + 1 .. l - 1 PROVE page[k].kind # "close"
  <2> DEFINE j == k - o
  <2>1. j \in a + 1 .. b - 1 /\ j \in 1 .. Len(pieces) /\ o + j = k
    BY <1>1
  <2>2. page[k] = pieces[j]
    BY <1>1, <2>1
  <2> HIDE DEF j, i, l
  <2>3. pieces[j].kind = "open" \/ pieces[j].kind \in {"word", "tag", "end"}
    BY <1>2, <2>1, PlainKind
  <2>. QED
    BY <2>2, <2>3
<1> HIDE DEF i, l
<1>6. IsNext(page, i, "close", "-->", l)
  BY <1>2, <1>3, <1>4, <1>5 DEF IsNext
<1>7. Behind(page, i, "close", "-->") = l + 1
  BY <1>3, <1>6, NextIs
<1>8. Text(page, i) = Text(page, l + 1) /\ Linked(page, i) = Linked(page, l + 1)
  BY <1>2, <1>3, <1>4, <1>7, OpenAdds DEF BehindComment
<1>. QED
  BY <1>8 DEF i, l

\* The page gives, between two places, the text and the links of the block.
Gives(page, o, block) ==
    LET n == Len(block.pieces)
    IN /\ block.text \in Seq(Char) /\ block.links \in Seq(Char)
       /\ Text(page, o + 1) = block.text \o Text(page, o + n + 1)
       /\ Linked(page, o + 1) = block.links \o Linked(page, o + n + 1)

\* A part of a page.
Part(P, page, o, pieces) ==
    /\ page \in Seq(P) /\ Pieces(P) /\ EntryEnds(page) /\ Holds(page, o, pieces)

LEMMA PartIs ==
    ASSUME NEW P, NEW page, NEW o, NEW pieces, Part(P, page, o, pieces)
    PROVE  /\ page \in Seq(P) /\ Pieces(P) /\ EntryEnds(page)
           /\ o \in Nat /\ Len(pieces) \in Nat /\ Len(page) \in Nat
           /\ o + Len(pieces) <= Len(page)
           /\ \A j \in 1 .. Len(pieces) :
                /\ o + j \in 1 .. Len(page) /\ page[o + j] = pieces[j]
                /\ pieces[j].name \in Char /\ Values(pieces[j]) \in Seq(Char)
           /\ \A j \in 1 .. Len(pieces) + 1 :
                Text(page, o + j) \in Seq(Char) /\ Linked(page, o + j) \in Seq(Char)
<1>1. /\ page \in Seq(P) /\ Pieces(P) /\ EntryEnds(page)
      /\ o \in Nat /\ Len(pieces) \in Nat /\ Len(page) \in Nat
      /\ o + Len(pieces) <= Len(page)
      /\ \A j \in 1 .. Len(pieces) : page[o + j] = pieces[j]
  BY DEF Part, Holds
<1>2. \A j \in 1 .. Len(pieces) : o + j \in 1 .. Len(page)
  BY <1>1
<1>3. \A j \in 1 .. Len(pieces) : pieces[j] \in P
  BY <1>1, <1>2, ElementOfSeq
<1>4. \A j \in 1 .. Len(pieces) : pieces[j].name \in Char /\ Values(pieces[j]) \in Seq(Char)
  BY <1>1, <1>3 DEF Pieces
<1>5. \A i \in 1 .. Len(page) + 1 : Text(page, i) \in Seq(Char) /\ Linked(page, i) \in Seq(Char)
  BY <1>1, TextAndLinks
<1>6. \A j \in 1 .. Len(pieces) + 1 : o + j \in 1 .. Len(page) + 1
  BY <1>1
<1>7. \A j \in 1 .. Len(pieces) + 1 :
         Text(page, o + j) \in Seq(Char) /\ Linked(page, o + j) \in Seq(Char)
  BY <1>5, <1>6
<1>. QED
  BY <1>1, <1>2, <1>4, <1>7

LEMMA PlainBlockGives ==
    ASSUME NEW P, NEW page, NEW o, NEW block, Part(P, page, o, block.pieces), PlainBlock(block)
    PROVE  Gives(page, o, block)
<1> DEFINE piece == block.pieces[1]
           i == o + 1
<1>1. Len(block.pieces) = 1 /\ Plain(piece)
  BY DEF PlainBlock
<1>2. /\ page \in Seq(P) /\ Pieces(P) /\ o \in Nat
  BY PartIs
<1>3. i \in 1 .. Len(page) /\ page[i] = piece /\ piece.name \in Char /\ Values(piece) \in Seq(Char)
  <2>1. 1 \in 1 .. Len(block.pieces)
    BY <1>1
  <2>. QED
    BY <2>1, PartIs
<1>4. Text(page, i + 1) \in Seq(Char) /\ Linked(page, i + 1) \in Seq(Char)
  <2>1. 2 \in 1 .. Len(block.pieces) + 1 /\ i + 1 = o + 2
    BY <1>1, <1>2
  <2>2. Text(page, o + 2) \in Seq(Char) /\ Linked(page, o + 2) \in Seq(Char)
    BY <2>1, PartIs
  <2>. QED
    BY <2>1, <2>2
<1>5. o + Len(block.pieces) + 1 = i + 1
  BY <1>1
<1>6. Linked(page, i) = Values(piece) \o Linked(page, i + 1)
  BY <1>1, <1>2, <1>3, PlainAdds
<1>7. CASE IsWord(piece)
  <2>1. block.text = <<piece.name>> /\ block.links = <<>>
    BY <1>7 DEF PlainBlock, Reads
  <2>2. piece = Word(piece.name)
    BY <1>7 DEF IsWord
  <2>3. piece.kind = "word" /\ Values(piece) = <<>>
    BY <2>2, WordIs
  <2>4. Text(page, i) = <<piece.name>> \o Text(page, i + 1)
    BY <1>2, <1>3, <2>3, WordAdds
  <2>5. <<piece.name>> \in Seq(Char) /\ <<>> \in Seq(Char)
    BY <1>3
  <2> HIDE DEF piece, i
  <2>. QED
    BY <1>5, <1>6, <2>1, <2>3, <2>4, <2>5 DEF Gives, i
<1>8. CASE ~ IsWord(piece)
  <2>1. /\ piece.name \notin HiddenElement /\ block.text = <<>> /\ block.links = Values(piece)
        /\ piece.kind \in {"tag", "end"}
    BY <1>1, <1>8 DEF PlainBlock, Reads, Plain
  <2>2. Text(page, i) = Text(page, i + 1)
    BY <1>2, <1>3, <2>1, TagAdds
  <2>3. <<>> \o Text(page, i + 1) = Text(page, i + 1) /\ <<>> \in Seq(Char)
    BY <1>4, EmptyAdds
  <2>4. Text(page, i) = block.text \o Text(page, i + 1)
    BY <2>1, <2>2, <2>3, Zenon
  <2> HIDE DEF piece, i
  <2>. QED
    BY <1>3, <1>5, <1>6, <2>1, <2>3, <2>4 DEF Gives, i
<1>. QED
  BY <1>7, <1>8

LEMMA CommentBlockGives ==
    ASSUME NEW P, NEW page, NEW o, NEW block, Part(P, page, o, block.pieces), CommentBlock(block)
    PROVE  Gives(page, o, block)
<1> DEFINE n == Len(block.pieces)
<1>1. /\ Commented(block.pieces, 1, n) /\ block.text = <<>> /\ block.links = <<>>
  BY DEF CommentBlock, Reads
<1>2. page \in Seq(P) /\ Pieces(P) /\ Holds(page, o, block.pieces) /\ n \in Nat /\ o \in Nat
  BY PartIs DEF Part
<1>3. 1 \in 1 .. n /\ n \in 1 .. n /\ n + 1 \in 1 .. n + 1
  BY <1>1, <1>2 DEF Commented
<1>4. Text(page, o + 1) = Text(page, o + n + 1) /\ Linked(page, o + 1) = Linked(page, o + n + 1)
  BY <1>1, <1>2, <1>3, CommentAdds, SMTT(30)
<1>5. Text(page, o + (n + 1)) \in Seq(Char) /\ Linked(page, o + (n + 1)) \in Seq(Char)
  BY <1>3, PartIs
<1>6. o + n + 1 = o + (n + 1)
  BY <1>2
<1> DEFINE t == Text(page, o + n + 1)
           l == Linked(page, o + n + 1)
<1>7. t \in Seq(Char) /\ l \in Seq(Char)
  BY <1>5, <1>6
<1> HIDE DEF t, l
<1>8. <<>> \o t = t /\ <<>> \o l = l /\ <<>> \in Seq(Char)
  BY <1>7, EmptyAdds
<1>9. Text(page, o + 1) = block.text \o t
  BY <1>1, <1>4, <1>8, Zenon DEF t
<1>10. Linked(page, o + 1) = block.links \o l
  BY <1>1, <1>4, <1>8, Zenon DEF l
<1>. QED
  BY <1>1, <1>8, <1>9, <1>10 DEF Gives, t, l

LEMMA EntryIs ==
    ASSUME NEW block, EntryBlock(block)
    PROVE  \E name \in Around :
              /\ Len(block.pieces) = 3
              /\ block.pieces[1].kind = "tag" /\ block.pieces[1].name = name
              /\ Values(block.pieces[1]) = <<>>
              /\ block.pieces[2].kind = "word" /\ IsWord(block.pieces[2])
              /\ block.pieces[3].kind = "end" /\ block.pieces[3].name = name
              /\ Values(block.pieces[3]) = <<>>
              /\ block.text = <<block.pieces[2].name>>
              /\ block.links = IF name = "title" THEN <<>> ELSE <<block.pieces[2].name>>
              /\ block.title = IF name = "title" THEN <<block.pieces[2].name>> ELSE <<>>
<1> DEFINE pieces == block.pieces
           word == <<pieces[2].name>>
<1>1. PICK name \in Around :
        /\ pieces[1] = [Word(name) EXCEPT !.kind = "tag"]
        /\ pieces[3] = [Word(name) EXCEPT !.kind = "end"]
        /\ IsWord(pieces[2])
        /\ IF name = "title" THEN Reads(block, word, <<>>, word)
                             ELSE Reads(block, word, word, <<>>)
  BY DEF EntryBlock
<1>2. Len(pieces) = 3
  BY DEF EntryBlock
<1>3. pieces[1].kind = "tag" /\ pieces[1].name = name /\ Values(pieces[1]) = <<>>
  <2>1. Bare(pieces[1], name, "tag")
    BY <1>1, Zenon DEF Bare
  <2>. QED
    BY <2>1, BareTagIs
<1>4. pieces[3].kind = "end" /\ pieces[3].name = name /\ Values(pieces[3]) = <<>>
  <2>1. Bare(pieces[3], name, "end")
    BY <1>1, Zenon DEF Bare
  <2>. QED
    BY <2>1, BareTagIs
<1>5. pieces[2].kind = "word" /\ IsWord(pieces[2])
  <2>1. pieces[2] = Word(pieces[2].name)
    BY <1>1 DEF IsWord
  <2>. QED
    BY <1>1, <2>1, WordIs
<1>6. /\ block.text = word
      /\ block.links = IF name = "title" THEN <<>> ELSE word
      /\ block.title = IF name = "title" THEN word ELSE <<>>
  <2> HIDE DEF word, pieces
  <2>. QED
    BY <1>1 DEF Reads
<1>. QED
  BY <1>2, <1>3, <1>4, <1>5, <1>6

LEMMA SubSeqOne ==
    ASSUME NEW P, NEW page, NEW j \in Int, page[j] \in P
    PROVE  SubSeq(page, j, j) = <<page[j]>>
<1> DEFINE u == SubSeq(page, j, j)
           v == <<page[j]>>
<1>1. \A m \in j .. j : page[m] \in P
  OBVIOUS
<1>2. /\ u \in Seq(P) /\ Len(u) = IF j <= j THEN j - j + 1 ELSE 0
      /\ \A m \in 1 .. j - j + 1 : u[m] = page[j + m - 1]
  BY <1>1, SubSeqProperties
<1>3. j - j + 1 = 1 /\ j <= j /\ j + 1 - 1 = j /\ 1 \in 1 .. j - j + 1
  OBVIOUS
<1> HIDE DEF u
<1>4. u[1] = page[j] /\ Len(u) = 1
  BY <1>2, <1>3
<1>5. v \in Seq(P) /\ Len(v) = 1 /\ v[1] = page[j]
  OBVIOUS
<1> HIDE DEF v
<1>6. \A m \in 1 .. Len(u) : u[m] = v[m]
  <2>1. \A m \in 1 .. 1 : m = 1
    OBVIOUS
  <2>. QED
    BY <1>4, <1>5, <2>1
<1>7. u = v
  BY <1>2, <1>4, <1>5, <1>6, SeqEqual
<1>. QED
  BY <1>7 DEF u, v

\* A title or an entry of a sitemap has its word between its tags.
LEMMA EntryBody ==
    ASSUME NEW P, NEW page, NEW o, NEW block, Part(P, page, o, block.pieces), EntryBlock(block)
    PROVE  Body(page, o + 1) = <<block.pieces[2]>>
<1> DEFINE pieces == block.pieces
           i == o + 1
           j == o + 2
           k == o + 3
<1>1. PICK name \in Around :
        /\ Len(pieces) = 3 /\ pieces[1].name = name /\ pieces[2].kind = "word"
        /\ pieces[3].kind = "end" /\ pieces[3].name = name
  BY EntryIs
<1>2. page \in Seq(P) /\ o \in Nat
  BY PartIs
<1>3. 1 \in 1 .. Len(pieces) /\ 2 \in 1 .. Len(pieces) /\ 3 \in 1 .. Len(pieces)
  BY <1>1
<1>4. /\ i \in 1 .. Len(page) /\ page[i] = pieces[1]
      /\ j \in 1 .. Len(page) /\ page[j] = pieces[2]
      /\ k \in 1 .. Len(page) /\ page[k] = pieces[3]
  <2>1. ASSUME NEW m \in 1 .. Len(pieces)
        PROVE  o + m \in 1 .. Len(page) /\ page[o + m] = pieces[m]
    BY PartIs
  <2>. QED
    BY <1>3, <2>1
<1>5. page[i].name = name /\ page[k].kind = "end" /\ page[k].name = name /\ i < k
  BY <1>1, <1>2, <1>4
<1>6. IsNext(page, i, "end", name, k)
  <2>1. \A m \in i + 1 .. k - 1 : m = j
    BY <1>2
  <2>2. page[j].kind # "end"
    BY <1>1, <1>4
  <2> HIDE DEF i, j, k
  <2>. QED
    BY <1>5, <2>1, <2>2 DEF IsNext
<1>7. i + 1 = j /\ k - 1 = j /\ j \in Int
  BY <1>2
<1> HIDE DEF i, j, k
<1>8. /\ Following(page, i, "end", name) # {}
      /\ Min(Following(page, i, "end", name)) = k
  BY <1>2, <1>4, <1>6, NextIs
<1>9. Body(page, i) = SubSeq(page, i + 1, k - 1)
  BY <1>5, <1>8 DEF Body
<1>10. page[j] \in P
  BY <1>2, <1>4, ElementOfSeq
<1>11. SubSeq(page, j, j) = <<page[j]>>
  BY <1>7, <1>10, SubSeqOne
<1>. QED
  BY <1>4, <1>7, <1>9, <1>11 DEF i

LEMMA EntryBlockGives ==
    ASSUME NEW P, NEW page, NEW o, NEW block, Part(P, page, o, block.pieces), EntryBlock(block)
    PROVE  Gives(page, o, block)
<1> DEFINE pieces == block.pieces
           word == <<pieces[2].name>>
           i == o + 1
           j == o + 2
           k == o + 3
           l == o + 4
<1>1. PICK name \in Around :
        /\ Len(pieces) = 3
        /\ pieces[1].kind = "tag" /\ pieces[1].name = name /\ Values(pieces[1]) = <<>>
        /\ pieces[2].kind = "word"
        /\ pieces[3].kind = "end" /\ pieces[3].name = name /\ Values(pieces[3]) = <<>>
        /\ block.text = word
        /\ block.links = IF name = "title" THEN <<>> ELSE word
  BY EntryIs
<1>2. /\ page \in Seq(P) /\ Pieces(P) /\ EntryEnds(page) /\ o \in Nat /\ Len(page) \in Nat
  BY PartIs
<1>3. 1 \in 1 .. Len(pieces) /\ 2 \in 1 .. Len(pieces) /\ 3 \in 1 .. Len(pieces)
  BY <1>1
<1>4. /\ i \in 1 .. Len(page) /\ page[i] = pieces[1]
      /\ j \in 1 .. Len(page) /\ page[j] = pieces[2] /\ pieces[2].name \in Char
      /\ k \in 1 .. Len(page) /\ page[k] = pieces[3]
  <2>1. ASSUME NEW m \in 1 .. Len(pieces)
        PROVE  o + m \in 1 .. Len(page) /\ page[o + m] = pieces[m] /\ pieces[m].name \in Char
    BY PartIs
  <2>. QED
    BY <1>3, <2>1
<1>5. /\ Text(page, l) \in Seq(Char) /\ Linked(page, l) \in Seq(Char)
      /\ Linked(page, j) \in Seq(Char)
  <2>1. 4 \in 1 .. Len(pieces) + 1 /\ 2 \in 1 .. Len(pieces) + 1
    BY <1>1
  <2>. QED
    BY <2>1, PartIs
<1>6. i + 1 = j /\ j + 1 = k /\ k + 1 = l /\ o + Len(pieces) + 1 = l /\ i < k /\ i \in Nat
  BY <1>1, <1>2
<1>7. name \notin HiddenElement
  BY DEF Around, HiddenElement
<1>17. word \in Seq(Char) /\ Len(word) = 1 /\ word[1] = pieces[2].name
  BY <1>4
<1> HIDE DEF i, j, k, l, pieces, word
<1>8. Text(page, i) = word \o Text(page, l)
  <2>1. Text(page, i) = Text(page, j)
    <3>1. page[i].kind \in {"tag", "end"} /\ page[i].name \notin HiddenElement
      BY <1>1, <1>4, <1>7
    <3>. QED
      BY <1>2, <1>4, <1>6, <3>1, TagAdds
  <2>2. Text(page, j) = word \o Text(page, k)
    <3>1. Text(page, j) = <<page[j].name>> \o Text(page, j + 1)
      BY <1>1, <1>2, <1>4, WordAdds
    <3>. QED
      BY <1>4, <1>6, <3>1 DEF word
  <2>3. Text(page, k) = Text(page, l)
    <3>1. page[k].kind \in {"tag", "end"} /\ page[k].name \notin HiddenElement
      BY <1>1, <1>4, <1>7
    <3>. QED
      BY <1>2, <1>4, <1>6, <3>1, TagAdds
  <2>. QED
    BY <2>1, <2>2, <2>3
<1>9. Linked(page, j) = Linked(page, k)
  BY <1>1, <1>2, <1>4, <1>6, WordAdds
<1>10. CASE name = "title"
  <2>1. Linked(page, i) = Linked(page, j)
    <3>1. page[i].kind \in {"tag", "end"} /\ page[i].name \notin {"loc", "link"}
      BY <1>1, <1>4, <1>10
    <3>2. Linked(page, i) = <<>> \o Linked(page, j)
      BY <1>1, <1>2, <1>4, <1>6, <3>1, ValuesAdd
    <3>3. <<>> \o Linked(page, j) = Linked(page, j)
      BY <1>5, EmptyAdds
    <3>. QED
      BY <3>2, <3>3, Zenon
  <2>2. Linked(page, k) = <<>> \o Linked(page, l)
    <3>1. page[k].kind \in {"tag", "end"} /\ page[k].name \notin {"loc", "link"}
      BY <1>1, <1>4, <1>10
    <3>. QED
      BY <1>1, <1>2, <1>4, <1>6, <3>1, ValuesAdd
  <2>3. block.links = <<>> /\ <<>> \in Seq(Char)
    BY <1>1, <1>10
  <2>4. Linked(page, i) = block.links \o Linked(page, l)
    BY <1>9, <2>1, <2>2, <2>3, Zenon
  <2>. QED
    BY <1>1, <1>6, <1>8, <1>17, <2>3, <2>4 DEF Gives, i, pieces
<1>11. CASE name # "title"
  <2>0. name \in {"loc", "link"}
    BY <1>11 DEF Around
  <2>1. Body(page, i) = <<page[j]>>
    BY <1>4, EntryBody DEF i, pieces
  <2>2. OneName(Body(page, i)) = word
    <3> DEFINE one == <<page[j]>>
    <3>1. Len(one) = 1 /\ one[1] = page[j] /\ page[j].name = pieces[2].name
      BY <1>4
    <3>2. OneName(one) = <<page[j].name>>
      <4> HIDE DEF one
      <4>. QED
        BY <3>1 DEF OneName
    <3>. QED
      BY <2>1, <3>1, <3>2 DEF word
  <2>3. Linked(page, i) = word \o Linked(page, j)
    <3>1. page[i].kind \in {"tag", "end"} /\ page[i].name \in {"loc", "link"}
          /\ Values(page[i]) = <<>>
      BY <1>1, <1>4, <2>0
    <3>2. Linked(page, i) = LinkNames(LinksOfTag(page, i)) \o Linked(page, j)
      BY <1>2, <1>4, <1>6, <3>1, TagAdds
    <3>3. LinkNames(LinksOfTag(page, i)) = Values(page[i]) \o
            OneName(IF page[i].name \in {"loc", "link"} THEN Body(page, i) ELSE <<>>)
      BY <1>2, <1>4, LinksOfTagIs
    <3>4. (IF page[i].name \in {"loc", "link"} THEN Body(page, i) ELSE <<>>) = Body(page, i)
      BY <3>1
    <3>5. LinkNames(LinksOfTag(page, i)) = <<>> \o word
      BY <2>2, <3>1, <3>3, <3>4, Zenon
    <3>6. <<>> \o word = word
      BY <1>17, EmptyAdds
    <3>. QED
      BY <3>2, <3>5, <3>6, Zenon
  <2>4. Linked(page, k) = Linked(page, l)
    <3>1. page[k].kind = "end" /\ page[k].name \in {"loc", "link"} /\ Values(page[k]) = <<>>
      BY <1>1, <1>4, <2>0
    <3>2. Linked(page, k) = LinkNames(LinksOfTag(page, k)) \o Linked(page, l)
      BY <1>2, <1>4, <1>6, <3>1, TagAdds
    <3>3. LinkNames(LinksOfTag(page, k)) = Values(page[k]) \o
            OneName(IF page[k].name \in {"loc", "link"} THEN Body(page, k) ELSE <<>>)
      BY <1>2, <1>4, LinksOfTagIs
    <3>4. (IF page[k].name \in {"loc", "link"} THEN Body(page, k) ELSE <<>>) = Body(page, k)
      BY <3>1
    <3>5. OneName(Body(page, k)) = <<>>
      BY <1>2, <1>4, <3>1, EndBody
    <3>6. LinkNames(LinksOfTag(page, k)) = <<>> \o <<>>
      BY <3>1, <3>3, <3>4, <3>5, Zenon
    <3>7. <<>> \o <<>> = <<>>
      BY EmptySeq, ConcatEmptySeq
    <3>8. <<>> \o Linked(page, l) = Linked(page, l)
      BY <1>5, EmptyAdds
    <3>. QED
      BY <3>2, <3>6, <3>7, <3>8, Zenon
  <2>5. block.links = word
    BY <1>1, <1>11
  <2>6. Linked(page, i) = block.links \o Linked(page, l)
    BY <1>9, <2>3, <2>4, <2>5
  <2>. QED
    BY <1>1, <1>6, <1>8, <1>17, <2>5, <2>6 DEF Gives, i, pieces
<1>. QED
  BY <1>10, <1>11

\* What the pieces of a hidden element give, without and with a comment.
Hidden(block) ==
    LET pieces == block.pieces
        n == Len(pieces)
    IN /\ n > 1 /\ pieces[1].name \in HiddenElement
       /\ pieces[1].kind = "tag" /\ IsEnd(pieces[n], pieces[1].name)
       /\ \A k \in 2 .. n - 1 : ~IsEnd(pieces[k], pieces[1].name)
       /\ block.text = <<>>

PlainInside(block) ==
    LET pieces == block.pieces
        n == Len(pieces)
    IN /\ \A k \in 2 .. n - 1 : Plain(pieces[k])
       /\ block.links = FlattenSeq([k \in 1 .. n |-> Values(pieces[k])])

CommentInside(block) ==
    LET pieces == block.pieces
        n == Len(pieces)
    IN /\ Commented(pieces, 2, n - 1)
       /\ block.links = Values(pieces[1]) \o Values(pieces[n])

LEMMA HiddenIs ==
    ASSUME NEW block, HiddenBlock(block)
    PROVE  Hidden(block) /\ (PlainInside(block) \/ CommentInside(block))
<1>1. Hidden(block)
  BY DEF HiddenBlock, Hidden, Reads
<1>2. PlainInside(block) \/ CommentInside(block)
  BY Zenon DEF HiddenBlock, PlainInside, CommentInside, Reads
<1>. QED
  BY <1>1, <1>2

LEMMA HiddenText ==
    ASSUME NEW P, NEW page, NEW o, NEW block, Part(P, page, o, block.pieces), Hidden(block)
    PROVE  /\ Text(page, o + 1) = block.text \o Text(page, o + Len(block.pieces) + 1)
           /\ block.text \in Seq(Char)
<1> DEFINE pieces == block.pieces
           n == Len(pieces)
           name == pieces[1].name
           i == o + 1
           l == o + n
           t == Text(page, l + 1)
<1>1. /\ n > 1 /\ name \in HiddenElement
      /\ pieces[1].kind = "tag" /\ IsEnd(pieces[n], name)
      /\ \A k \in 2 .. n - 1 : ~IsEnd(pieces[k], name)
      /\ block.text = <<>>
  BY DEF Hidden
<1>2. page \in Seq(P) /\ Pieces(P) /\ o \in Nat /\ n \in Nat /\ Len(page) \in Nat
  BY PartIs
<1>3. ASSUME NEW j \in 1 .. n PROVE o + j \in 1 .. Len(page) /\ page[o + j] = pieces[j]
  BY PartIs
<1>4. 1 \in 1 .. n /\ n \in 1 .. n /\ n + 1 \in 1 .. n + 1
  BY <1>1, <1>2
<1>5. /\ i \in 1 .. Len(page) /\ page[i] = pieces[1]
      /\ l \in 1 .. Len(page) /\ page[l] = pieces[n]
  BY <1>3, <1>4
<1>6. ASSUME NEW k \in i + 1 .. l - 1 PROVE ~ (page[k].kind = "end" /\ page[k].name = name)
  <2> DEFINE j == k - o
  <2>1. j \in 2 .. n - 1 /\ j \in 1 .. n /\ o + j = k
    BY <1>2
  <2>2. page[k] = pieces[j]
    BY <1>3, <2>1
  <2> HIDE DEF j, i, l, n, name, pieces
  <2>3. ~IsEnd(pieces[j], name)
    BY <1>1, <2>1
  <2>. QED
    BY <2>2, <2>3 DEF IsEnd
<1>7. i < l
  BY <1>1, <1>2
<1>8. t \in Seq(Char)
  <2>1. Text(page, o + (n + 1)) \in Seq(Char)
    BY <1>4, PartIs
  <2>2. o + (n + 1) = l + 1
    BY <1>2
  <2>. QED
    BY <2>1, <2>2
<1> HIDE DEF i, l, n, name, pieces, t
<1>9. IsNext(page, i, "end", name, l)
  BY <1>1, <1>5, <1>6, <1>7 DEF IsNext, IsEnd
<1>10. Behind(page, i, "end", name) = l + 1
  BY <1>2, <1>5, <1>9, NextIs
<1>11. Text(page, i) = t
  <2>1. page[i].kind \in {"tag", "end"} /\ page[i].name = name
    BY <1>1, <1>5 DEF name
  <2>. QED
    BY <1>1, <1>2, <1>5, <1>10, <2>1, TagAdds DEF t
<1>12. <<>> \o t = t /\ <<>> \in Seq(Char)
  BY <1>8, EmptyAdds
<1>13. Text(page, i) = block.text \o t
  BY <1>1, <1>11, <1>12, Zenon
<1>. QED
  BY <1>1, <1>12, <1>13 DEF i, l, n, pieces, t

\* The place of the first or the last piece of a block.
Edge(o, block, j, i) ==
    LET n == Len(block.pieces)
    IN j \in 1 .. n /\ (j = 1 \/ j = n) /\ i = o + j

\* The piece at a place adds the links.
Adds(page, i, links) == Linked(page, i) = links \o Linked(page, i + 1)

LEMMA HiddenEnds ==
    ASSUME NEW P, NEW page, NEW o, NEW block, Part(P, page, o, block.pieces), Hidden(block),
           NEW j, NEW i \in Nat, Edge(o, block, j, i)
    PROVE  Adds(page, i, Values(block.pieces[j]))
<1> DEFINE pieces == block.pieces
           n == Len(pieces)
<1>1. /\ n > 1 /\ pieces[1].name \in HiddenElement
      /\ pieces[1].kind = "tag" /\ IsEnd(pieces[n], pieces[1].name)
  BY DEF Hidden
<1>2. page \in Seq(P) /\ Pieces(P) /\ n \in Nat
  BY PartIs
<1>4. i \in 1 .. Len(page) /\ page[i] = pieces[j]
  <2>0. j \in 1 .. n /\ i = o + j
    BY DEF Edge
  <2>1. o + j \in 1 .. Len(page) /\ page[o + j] = pieces[j]
    BY <2>0, PartIs
  <2>. QED
    BY <2>0, <2>1
<1>5. pieces[j].kind \in {"tag", "end"} /\ pieces[j].name \in HiddenElement
  <2>1. j = 1 \/ j = n
    BY DEF Edge
  <2> HIDE DEF n, pieces
  <2>. QED
    BY <1>1, <2>1 DEF IsEnd
<1>6. pieces[j].name \notin {"loc", "link"}
  BY <1>5 DEF HiddenElement
<1> HIDE DEF pieces, n
<1>7. Linked(page, i) = Values(page[i]) \o Linked(page, i + 1)
  BY <1>2, <1>4, <1>5, <1>6, ValuesAdd
<1>. QED
  BY <1>4, <1>7 DEF Adds, pieces

LEMMA PlainInsideLinks ==
    ASSUME NEW P, NEW page, NEW o, NEW block, Part(P, page, o, block.pieces), Hidden(block),
           PlainInside(block)
    PROVE  /\ Linked(page, o + 1) = block.links \o Linked(page, o + Len(block.pieces) + 1)
           /\ block.links \in Seq(Char)
<1> DEFINE pieces == block.pieces
           n == Len(pieces)
           seqs == [k \in 1 .. n |-> Values(pieces[k])]
           h == [k \in 0 .. n |-> Linked(page, o + (k + 1))]
<1>1. /\ \A k \in 2 .. n - 1 : Plain(pieces[k])
      /\ block.links = FlattenSeq(seqs)
  BY Zenon DEF PlainInside
<1>2. page \in Seq(P) /\ Pieces(P) /\ o \in Nat /\ n \in Nat /\ Len(page) \in Nat
  BY PartIs
<1>3. ASSUME NEW j \in 1 .. n
      PROVE  /\ o + j \in 1 .. Len(page) /\ page[o + j] = pieces[j]
             /\ Values(pieces[j]) \in Seq(Char)
  BY PartIs
<1>4. ASSUME NEW k \in 0 .. n PROVE Linked(page, o + (k + 1)) \in Seq(Char)
  <2>1. k + 1 \in 1 .. n + 1
    BY <1>2
  <2>. QED
    BY <2>1, PartIs
<1>5. ASSUME NEW k \in 1 .. n
      PROVE  Linked(page, o + k) = Values(pieces[k]) \o Linked(page, o + (k + 1))
  <2>0. o + k + 1 = o + (k + 1)
    BY <1>2
  <2>1. CASE k \in {1, n}
    <3> DEFINE i == o + k
    <3>1. Edge(o, block, k, i) /\ i \in Nat
      BY <1>2, <2>1 DEF Edge
    <3> HIDE DEF i
    <3>2. Linked(page, i) = Values(pieces[k]) \o Linked(page, i + 1)
      <4>1. Adds(page, i, Values(block.pieces[k]))
        BY <3>1, HiddenEnds
      <4>. QED
        BY <4>1 DEF Adds
    <3>. QED
      BY <2>0, <3>2 DEF i
  <2>2. CASE k \notin {1, n}
    <3> DEFINE i == o + k
    <3>1. k \in 2 .. n - 1
      BY <1>2, <2>2
    <3>2. Plain(pieces[k])
      BY <1>1, <3>1
    <3>3. i \in 1 .. Len(page) /\ page[i] = pieces[k]
      BY <1>3
    <3> HIDE DEF i, pieces
    <3>4. Linked(page, i) = Values(page[i]) \o Linked(page, i + 1)
      BY <1>2, <3>2, <3>3, PlainAdds
    <3>. QED
      BY <2>0, <3>3, <3>4 DEF i
  <2>. QED
    BY <2>1, <2>2
<1> HIDE DEF n, pieces
<1>6. seqs \in [1 .. n -> Seq(Char)]
  BY <1>3
<1>7. h \in [0 .. n -> Seq(Char)]
  BY <1>4
<1>8. \A k \in 1 .. n : h[k - 1] = seqs[k] \o h[k]
  <2>1. ASSUME NEW k \in 1 .. n PROVE h[k - 1] = seqs[k] \o h[k]
    <3>1. k - 1 \in 0 .. n /\ k \in 0 .. n /\ o + ((k - 1) + 1) = o + k
      BY <1>2
    <3>2. h[k - 1] = Linked(page, o + k) /\ h[k] = Linked(page, o + (k + 1))
      BY <3>1
    <3>3. seqs[k] = Values(pieces[k])
      OBVIOUS
    <3> HIDE DEF h, seqs
    <3>. QED
      BY <1>5, <3>2, <3>3
  <2>. QED
    BY <2>1
<1>10. h[0] = Linked(page, o + 1) /\ h[n] = Linked(page, o + n + 1)
  <2>1. 0 \in 0 .. n /\ n \in 0 .. n /\ 0 + 1 = 1 /\ o + (n + 1) = o + n + 1
    BY <1>2
  <2>2. h[0] = Linked(page, o + (0 + 1)) /\ h[n] = Linked(page, o + (n + 1))
    BY <2>1
  <2> HIDE DEF h
  <2>. QED
    BY <2>1, <2>2
<1> HIDE DEF h, seqs
<1>11. seqs \in Seq(Seq(Char)) /\ Len(seqs) = n
  BY <1>2, <1>6
<1>12. ListOfLists(Char, seqs, n)
  <2>1. ListOfLists(Char, seqs, Len(seqs))
    BY <1>11, ListsOf
  <2>. QED
    BY <1>11, <2>1
<1>13. h[0] = Upto(seqs, n) \o h[n]
  <2>1. Gathers(Char, seqs, n, h)
    BY <1>7, <1>8, <1>12 DEF Gathers
  <2>. QED
    BY <2>1, Gather
<1>14. FlattenSeq(seqs) = Upto(seqs, n)
  <2>1. FlattenSeq(seqs) = Upto(seqs, Len(seqs))
    BY <1>11, FlattenIs
  <2>. QED
    BY <1>11, <2>1
<1>15. block.links \in Seq(Char)
  BY <1>1, <1>11, FlattenIn
<1>16. Linked(page, o + 1) = block.links \o Linked(page, o + n + 1)
  BY <1>1, <1>10, <1>13, <1>14
<1>. QED
  BY <1>15, <1>16 DEF n, pieces

LEMMA CommentInsideLinks ==
    ASSUME NEW P, NEW page, NEW o, NEW block, Part(P, page, o, block.pieces), Hidden(block),
           CommentInside(block)
    PROVE  /\ Linked(page, o + 1) = block.links \o Linked(page, o + Len(block.pieces) + 1)
           /\ block.links \in Seq(Char)
<1> DEFINE pieces == block.pieces
           n == Len(pieces)
           a == Values(pieces[1])
           b == Values(pieces[n])
           l == Linked(page, o + n + 1)
<1>1. Commented(pieces, 2, n - 1) /\ block.links = a \o b
  BY DEF CommentInside
<1>2. /\ page \in Seq(P) /\ Pieces(P) /\ o \in Nat /\ n \in Nat /\ Holds(page, o, pieces)
  BY PartIs DEF Part
<1>3. n > 1
  BY DEF Hidden
<1>4. 2 \in 1 .. n /\ n - 1 \in 1 .. n /\ 1 \in 1 .. n /\ n \in 1 .. n
  <2>1. 2 < n - 1
    BY <1>1 DEF Commented
  <2>. QED
    BY <1>2, <1>3, <2>1
<1>5. a \in Seq(Char) /\ b \in Seq(Char) /\ l \in Seq(Char)
  <2>1. \A j \in 1 .. n : Values(pieces[j]) \in Seq(Char)
    BY PartIs
  <2>2. n + 1 \in 1 .. n + 1 /\ o + (n + 1) = o + n + 1
    BY <1>2
  <2>3. Linked(page, o + (n + 1)) \in Seq(Char)
    BY <2>2, PartIs
  <2>. QED
    BY <1>4, <2>1, <2>2, <2>3
<1>6. Linked(page, o + 1) = a \o Linked(page, o + 2)
  <2> DEFINE i == o + 1
  <2>1. Edge(o, block, 1, i) /\ i \in Nat /\ i + 1 = o + 2
    BY <1>2, <1>4 DEF Edge
  <2> HIDE DEF i
  <2>2. Linked(page, i) = a \o Linked(page, i + 1)
    <3>1. Adds(page, i, Values(block.pieces[1]))
      BY <2>1, HiddenEnds
    <3>. QED
      BY <3>1 DEF Adds
  <2>. QED
    BY <1>2, <2>1, <2>2 DEF i
<1>7. Linked(page, o + n) = b \o l
  <2> DEFINE i == o + n
  <2>1. Edge(o, block, n, i) /\ i \in Nat /\ i + 1 = o + n + 1
    BY <1>2, <1>4 DEF Edge
  <2> HIDE DEF i, n, a, b
  <2>2. Linked(page, i) = b \o Linked(page, i + 1)
    <3>1. Linked(page, i) = Values(block.pieces[n]) \o Linked(page, i + 1)
      <4>1. Adds(page, i, Values(block.pieces[n]))
        BY <2>1, HiddenEnds
      <4>. QED
        BY <4>1 DEF Adds
    <3>. QED
      BY <3>1 DEF b
  <2>. QED
    BY <1>2, <2>1, <2>2 DEF i, l
<1>8. Linked(page, o + 2) = Linked(page, o + n)
  <2> DEFINE m == n - 1
             k == 2
  <2>1. /\ k \in 1 .. Len(pieces) /\ m \in 1 .. Len(pieces) /\ Commented(pieces, k, m)
    BY <1>1, <1>4
  <2>2. o + m + 1 = o + n /\ o + k = o + 2
    BY <1>2
  <2> HIDE DEF m, k, n, pieces
  <2>3. Linked(page, o + k) = Linked(page, o + m + 1)
    BY <1>2, <2>1, CommentAdds
  <2>. QED
    BY <2>2, <2>3
<1> HIDE DEF a, b, l
<1>9. a \o (b \o l) = (a \o b) \o l /\ a \o b \in Seq(Char)
  BY <1>5, ConcatAssociative, ConcatProperties
<1>10. Linked(page, o + 1) = (a \o b) \o l
  BY <1>6, <1>7, <1>8, <1>9, Zenon
<1>. QED
  BY <1>1, <1>9, <1>10 DEF l

\* Every block gives its text and its links.
LEMMA BlockGives ==
    ASSUME NEW P, NEW page, NEW o, NEW block, Part(P, page, o, block.pieces), WellFormed(block)
    PROVE  Gives(page, o, block)
<1>1. CASE PlainBlock(block)
  BY <1>1, PlainBlockGives
<1>2. CASE EntryBlock(block)
  BY <1>2, EntryBlockGives
<1>3. CASE CommentBlock(block)
  BY <1>3, CommentBlockGives
<1>4. CASE HiddenBlock(block)
  <2>1. Hidden(block) /\ (PlainInside(block) \/ CommentInside(block))
    BY <1>4, HiddenIs
  <2>2. /\ Text(page, o + 1) = block.text \o Text(page, o + Len(block.pieces) + 1)
        /\ block.text \in Seq(Char)
    BY <2>1, HiddenText
  <2>3. /\ Linked(page, o + 1) = block.links \o Linked(page, o + Len(block.pieces) + 1)
        /\ block.links \in Seq(Char)
    BY <2>1, PlainInsideLinks, CommentInsideLinks
  <2>. QED
    BY <2>2, <2>3 DEF Gives
<1>. QED
  BY <1>1, <1>2, <1>3, <1>4 DEF WellFormed

\* Only an entry has the tag or the end tag of a title or a link of a sitemap.
LEMMA AroundIs ==
    ASSUME NEW block, WellFormed(block), NEW j \in 1 .. Len(block.pieces),
           block.pieces[j].kind \in {"tag", "end"}, block.pieces[j].name \in Around
    PROVE  EntryBlock(block)
<1> DEFINE pieces == block.pieces
           n == Len(pieces)
           x == pieces[j]
<1>1. n \in Nat
  <2>1. pieces \in Seq(ToSet(pieces))
    BY DEF WellFormed
  <2> HIDE DEF pieces
  <2>. QED
    BY <2>1, LenProperties
<1>2. ~ Plain(x)
  BY PlainKind
<1>3. x.kind # "open" /\ x.kind # "close"
  OBVIOUS
<1>4. x.name \notin HiddenElement
  BY DEF HiddenElement, Around
<1>5. ASSUME NEW a \in Nat, NEW b \in Nat, Commented(pieces, a, b) PROVE j \notin a .. b
  <2> HIDE DEF pieces, n
  <2>1. /\ a < b /\ pieces[a].kind = "open" /\ pieces[b].kind = "close"
        /\ \A k \in a + 1 .. b - 1 : pieces[k].kind = "open" \/ Plain(pieces[k])
    BY <1>5 DEF Commented
  <2>2. j # a /\ j # b /\ j \notin a + 1 .. b - 1
    BY <1>2, <1>3, <2>1
  <2>3. j \in Int
    BY <1>1 DEF n, pieces
  <2>. QED
    BY <2>2, <2>3
<1>6. ~ PlainBlock(block)
  <2>1. ASSUME PlainBlock(block) PROVE FALSE
    <3>1. n = 1 /\ Plain(pieces[1])
      BY <2>1 DEF PlainBlock
    <3>2. j = 1
      BY <3>1
    <3>. QED
      BY <1>2, <3>1, <3>2
  <2>. QED
    BY <2>1
<1>7. ~ CommentBlock(block)
  <2>1. ASSUME CommentBlock(block) PROVE FALSE
    <3>1. Commented(pieces, 1, n)
      BY <2>1 DEF CommentBlock
    <3>. QED
      BY <1>1, <1>5, <3>1
  <2>. QED
    BY <2>1
<1>8. ~ HiddenBlock(block)
  <2>1. ASSUME HiddenBlock(block) PROVE FALSE
    <3>1. Hidden(block) /\ (PlainInside(block) \/ CommentInside(block))
      BY <2>1, HiddenIs
    <3>2. n > 1 /\ pieces[1].name \in HiddenElement /\ pieces[n].name = pieces[1].name
      BY <3>1 DEF Hidden, IsEnd
    <3> HIDE DEF n
    <3>3. j # 1 /\ j # n
      BY <1>4, <3>2
    <3>4. j \in 2 .. n - 1
      BY <1>1, <3>3 DEF n
    <3>5. ~ PlainInside(block)
      BY <1>2, <3>4 DEF PlainInside, n
    <3>6. ~ CommentInside(block)
      <4>1. n - 1 \in Nat /\ 2 \in Nat
        BY <1>1, <3>2
      <4>2. ~ Commented(pieces, 2, n - 1)
        BY <1>5, <3>4, <4>1
      <4>. QED
        BY <4>2 DEF CommentInside, n
    <3>. QED
      BY <3>1, <3>5, <3>6
  <2>. QED
    BY <2>1
<1>. QED
  BY <1>6, <1>7, <1>8 DEF WellFormed

\* What a field of the blocks gives, one after the other.
FieldLists(blocks, field) == [i \in DOMAIN blocks |-> blocks[i][field]]

\* A page of n blocks.
PageOf(P, blocks, n, page) ==
    /\ n \in Nat /\ DOMAIN blocks = 1 .. n /\ \A i \in 1 .. n : WellFormed(blocks[i])
    /\ Pieces(P) /\ ListOfLists(P, FieldLists(blocks, "pieces"), n)
    /\ page = Upto(FieldLists(blocks, "pieces"), n)

\* Where the first k blocks end.
BlocksEnd(blocks, k) == Ends(FieldLists(blocks, "pieces"), k)

LEMMA PageOfIs ==
    ASSUME NEW P, NEW blocks, NEW n, NEW page, PageOf(P, blocks, n, page)
    PROVE  /\ n \in Nat /\ page \in Seq(P) /\ Pieces(P)
           /\ BlocksEnd(blocks, 0) = 0 /\ BlocksEnd(blocks, n) = Len(page)
           /\ \A k \in 1 .. n :
                /\ WellFormed(blocks[k]) /\ Holds(page, BlocksEnd(blocks, k - 1), blocks[k].pieces)
                /\ BlocksEnd(blocks, k) = BlocksEnd(blocks, k - 1) + Len(blocks[k].pieces)
           /\ \A p \in 1 .. Len(page) : \E k \in 1 .. n : \E j \in 1 .. Len(blocks[k].pieces) :
                p = BlocksEnd(blocks, k - 1) + j
<1> DEFINE seqs == FieldLists(blocks, "pieces")
<1>1. /\ n \in Nat /\ DOMAIN blocks = 1 .. n /\ \A i \in 1 .. n : WellFormed(blocks[i])
      /\ Pieces(P) /\ ListOfLists(P, seqs, n) /\ page = Upto(seqs, n)
  BY DEF PageOf
<1>2. \A k \in 1 .. n : seqs[k] = blocks[k].pieces
  BY <1>1 DEF FieldLists
<1> HIDE DEF seqs
<1>3. n \in 0 .. n
  BY <1>1
<1>4. page \in Seq(P) /\ Len(Upto(seqs, 0)) = 0
  BY <1>1, <1>3, UptoAre
<1>5. ASSUME NEW k \in 1 .. n
      PROVE  /\ Holds(page, Ends(seqs, k - 1), blocks[k].pieces)
             /\ Ends(seqs, k) = Ends(seqs, k - 1) + Len(blocks[k].pieces)
  BY <1>1, <1>2, Placed
<1>6. Ends(seqs, n) = Len(page) /\ Ends(seqs, 0) = 0
  BY <1>1, <1>4 DEF Ends
<1>7. ASSUME NEW p \in 1 .. Len(page)
      PROVE  \E k \in 1 .. n : \E j \in 1 .. Len(blocks[k].pieces) : p = Ends(seqs, k - 1) + j
  <2>1. \E k \in 1 .. n : \E j \in 1 .. Len(seqs[k]) : p = Ends(seqs, k - 1) + j
    BY <1>1, <1>6, Covered
  <2>. QED
    BY <1>2, <2>1
<1>. QED
  BY <1>1, <1>4, <1>5, <1>6, <1>7 DEF BlocksEnd, seqs

LEMMA PageEntryEnds ==
    ASSUME NEW P, NEW blocks, NEW n, NEW page, PageOf(P, blocks, n, page)
    PROVE  EntryEnds(page)
<1>1. ASSUME NEW p \in 1 .. Len(page), page[p].kind = "end", page[p].name \in {"loc", "link"}
      PROVE  p > 2 /\ page[p - 1].kind = "word" /\ page[p - 2].kind = "tag"
  <2>1. PICK k \in 1 .. n : \E j \in 1 .. Len(blocks[k].pieces) : p = BlocksEnd(blocks, k - 1) + j
    BY PageOfIs
  <2>2. PICK j \in 1 .. Len(blocks[k].pieces) : p = BlocksEnd(blocks, k - 1) + j
    BY <2>1
  <2> DEFINE o == BlocksEnd(blocks, k - 1)
             pieces == blocks[k].pieces
  <2>3. WellFormed(blocks[k]) /\ Holds(page, o, pieces)
    BY PageOfIs
  <2> HIDE DEF o
  <2>4. o \in Nat /\ \A i \in 1 .. Len(pieces) : page[o + i] = pieces[i]
    BY <2>3 DEF Holds
  <2>5. p = o + j
    BY <2>2 DEF o
  <2>6. pieces[j].kind = "end" /\ pieces[j].name \in {"loc", "link"}
    BY <1>1, <2>4, <2>5
  <2>7. EntryBlock(blocks[k])
    <3>1. pieces[j].kind \in {"tag", "end"} /\ pieces[j].name \in Around
      BY <2>6 DEF Around
    <3>. QED
      BY <2>3, <3>1, AroundIs
  <2>8. Len(pieces) = 3 /\ pieces[1].kind = "tag" /\ pieces[2].kind = "word"
    BY <2>7, EntryIs
  <2> HIDE DEF pieces
  <2>9. j = 3
    BY <2>6, <2>8 DEF pieces
  <2>10. p - 1 = o + 2 /\ p - 2 = o + 1 /\ p > 2 /\ 1 \in 1 .. Len(pieces) /\ 2 \in 1 .. Len(pieces)
    BY <2>4, <2>5, <2>8, <2>9
  <2>. QED
    BY <2>4, <2>8, <2>10
<1>. QED
  BY <1>1 DEF EntryEnds

LEMMA PageGives ==
    ASSUME NEW P, NEW blocks, NEW n, NEW page, PageOf(P, blocks, n, page)
    PROVE  \A k \in 1 .. n : Gives(page, BlocksEnd(blocks, k - 1), blocks[k])
<1>1. ASSUME NEW k \in 1 .. n PROVE Gives(page, BlocksEnd(blocks, k - 1), blocks[k])
  <2> DEFINE o == BlocksEnd(blocks, k - 1)
             block == blocks[k]
  <2>1. page \in Seq(P) /\ Pieces(P) /\ WellFormed(block) /\ Holds(page, o, block.pieces)
    BY PageOfIs
  <2>2. EntryEnds(page)
    BY PageEntryEnds
  <2> HIDE DEF o, block
  <2>3. Gives(page, o, block)
    BY <2>1, <2>2, BlockGives DEF Part
  <2>. QED
    BY <2>3 DEF o, block
<1>. QED
  BY <1>1

LEMMA FlattenField ==
    ASSUME NEW A, NEW blocks, NEW n \in Nat, DOMAIN blocks = 1 .. n, NEW field,
           \A k \in 1 .. n : blocks[k][field] \in Seq(A)
    PROVE  /\ ListOfLists(A, FieldLists(blocks, field), n)
           /\ \A k \in 1 .. n : FieldLists(blocks, field)[k] = blocks[k][field]
           /\ FlattenSeq(FieldLists(blocks, field)) = Upto(FieldLists(blocks, field), n)
           /\ FlattenSeq(FieldLists(blocks, field)) \in Seq(A)
<1> DEFINE seqs == FieldLists(blocks, field)
<1>1. seqs \in [1 .. n -> Seq(A)] /\ \A k \in 1 .. n : seqs[k] = blocks[k][field]
  BY DEF FieldLists
<1> HIDE DEF seqs
<1>2. seqs \in Seq(Seq(A)) /\ Len(seqs) = n
  BY <1>1
<1>3. ListOfLists(A, seqs, n)
  <2>1. ListOfLists(A, seqs, Len(seqs))
    BY <1>2, ListsOf
  <2>. QED
    BY <1>2, <2>1
<1>4. FlattenSeq(seqs) = Upto(seqs, n)
  <2>1. FlattenSeq(seqs) = Upto(seqs, Len(seqs))
    BY <1>2, FlattenIs
  <2>. QED
    BY <1>2, <2>1
<1>5. FlattenSeq(seqs) \in Seq(A)
  BY <1>2, FlattenIn
<1>. QED
  BY <1>1, <1>3, <1>4, <1>5 DEF seqs

LEMMA BlocksEndIs ==
    ASSUME NEW P, NEW blocks, NEW n, NEW page, PageOf(P, blocks, n, page)
    PROVE  /\ Len(page) \in Nat
           /\ \A k \in 0 .. n : BlocksEnd(blocks, k) \in 0 .. Len(page)
           /\ \A m \in 0 .. n : \A k \in 0 .. m : BlocksEnd(blocks, k) <= BlocksEnd(blocks, m)
<1> DEFINE seqs == FieldLists(blocks, "pieces")
<1>1. n \in Nat /\ ListOfLists(P, seqs, n) /\ BlocksEnd(blocks, n) = Len(page) /\ page \in Seq(P)
  BY PageOfIs DEF PageOf
<1>2. Len(page) \in Nat
  BY <1>1, LenProperties
<1>3. \A m \in 0 .. n : \A k \in 0 .. m : BlocksEnd(blocks, k) <= BlocksEnd(blocks, m)
  <2> HIDE DEF seqs
  <2>1. \A m \in 0 .. n : \A k \in 0 .. m : Ends(seqs, k) <= Ends(seqs, m)
    BY <1>1, Prefixed DEF Ends
  <2>. QED
    BY <2>1 DEF BlocksEnd, seqs
<1>4. \A k \in 0 .. n : BlocksEnd(blocks, k) \in Nat
  <2> HIDE DEF seqs
  <2>1. \A k \in 0 .. n : Upto(seqs, k) \in Seq(P)
    BY <1>1, UptoAre
  <2>2. \A k \in 0 .. n : Len(Upto(seqs, k)) \in Nat
    BY <2>1, LenProperties
  <2>. QED
    BY <2>2 DEF BlocksEnd, Ends, seqs
<1>5. ASSUME NEW k \in 0 .. n PROVE BlocksEnd(blocks, k) \in 0 .. Len(page)
  <2>1. n \in 0 .. n
    BY <1>1
  <2>2. BlocksEnd(blocks, k) <= BlocksEnd(blocks, n)
    BY <1>3, <2>1
  <2>. QED
    BY <1>1, <1>2, <1>4, <2>2
<1>. QED
  BY <1>2, <1>3, <1>5

\* What the page gives from the end of a block on.
LEMMA PageReads ==
    ASSUME NEW P, NEW blocks, NEW n, NEW page, PageOf(P, blocks, n, page)
    PROVE  /\ CleanText(page) = FlattenSeq(FieldLists(blocks, "text"))
           /\ LinkNames(ExtractLinks(page)) = FlattenSeq(FieldLists(blocks, "links"))
<1> DEFINE texts == FieldLists(blocks, "text")
           links == FieldLists(blocks, "links")
           g == [k \in 0 .. n |-> Text(page, BlocksEnd(blocks, k) + 1)]
           h == [k \in 0 .. n |-> Linked(page, BlocksEnd(blocks, k) + 1)]
<1>1. /\ n \in Nat /\ page \in Seq(P) /\ Pieces(P) /\ DOMAIN blocks = 1 .. n
      /\ BlocksEnd(blocks, 0) = 0 /\ BlocksEnd(blocks, n) = Len(page)
      /\ \A k \in 1 .. n : BlocksEnd(blocks, k) = BlocksEnd(blocks, k - 1) + Len(blocks[k].pieces)
  BY PageOfIs DEF PageOf
<1>2. /\ Len(page) \in Nat
      /\ \A k \in 0 .. n : BlocksEnd(blocks, k) \in 0 .. Len(page)
  BY BlocksEndIs
<1>3. ASSUME NEW k \in 1 .. n
      PROVE  /\ blocks[k].text \in Seq(Char) /\ blocks[k].links \in Seq(Char)
             /\ Text(page, BlocksEnd(blocks, k - 1) + 1) = blocks[k].text \o Text(page, BlocksEnd(blocks, k) + 1)
             /\ Linked(page, BlocksEnd(blocks, k - 1) + 1)
                  = blocks[k].links \o Linked(page, BlocksEnd(blocks, k) + 1)
  <2> DEFINE o == BlocksEnd(blocks, k - 1)
             l == Len(blocks[k].pieces)
             block == blocks[k]
  <2>1. Gives(page, o, block)
    BY PageGives
  <2>2. /\ block.text \in Seq(Char) /\ block.links \in Seq(Char)
        /\ Text(page, o + 1) = block.text \o Text(page, o + l + 1)
        /\ Linked(page, o + 1) = block.links \o Linked(page, o + l + 1)
    <3> HIDE DEF o
    <3>. QED
      BY <2>1 DEF Gives
  <2>3. BlocksEnd(blocks, k) = o + l
    BY <1>1
  <2> HIDE DEF o, l, block
  <2>4. /\ Text(page, o + 1) = block.text \o Text(page, BlocksEnd(blocks, k) + 1)
        /\ Linked(page, o + 1) = block.links \o Linked(page, BlocksEnd(blocks, k) + 1)
    BY <2>2, <2>3
  <2>. QED
    BY <2>2, <2>4 DEF o, block
<1>4. /\ CleanText(page) = Text(page, 1) /\ LinkNames(ExtractLinks(page)) = Linked(page, 1)
      /\ Text(page, Len(page) + 1) = <<>> /\ Linked(page, Len(page) + 1) = <<>>
      /\ \A i \in 1 .. Len(page) + 1 : Text(page, i) \in Seq(Char) /\ Linked(page, i) \in Seq(Char)
  BY <1>1, TextAndLinks
<1>5. /\ ListOfLists(Char, texts, n) /\ \A k \in 1 .. n : texts[k] = blocks[k].text
      /\ FlattenSeq(texts) = Upto(texts, n) /\ FlattenSeq(texts) \in Seq(Char)
  <2>1. \A k \in 1 .. n : blocks[k]["text"] \in Seq(Char)
    BY <1>3
  <2>. QED
    BY <1>1, <2>1, FlattenField
<1>6. /\ ListOfLists(Char, links, n) /\ \A k \in 1 .. n : links[k] = blocks[k].links
      /\ FlattenSeq(links) = Upto(links, n) /\ FlattenSeq(links) \in Seq(Char)
  <2>1. \A k \in 1 .. n : blocks[k]["links"] \in Seq(Char)
    BY <1>3
  <2>. QED
    BY <1>1, <2>1, FlattenField
<1>7. \A k \in 0 .. n : BlocksEnd(blocks, k) + 1 \in 1 .. Len(page) + 1
  BY <1>2
<1>8. /\ \A k \in 0 .. n : g[k] = Text(page, BlocksEnd(blocks, k) + 1) /\ g[k] \in Seq(Char)
      /\ g \in [0 .. n -> Seq(Char)]
  BY <1>4, <1>7
<1>9. /\ \A k \in 0 .. n : h[k] = Linked(page, BlocksEnd(blocks, k) + 1) /\ h[k] \in Seq(Char)
      /\ h \in [0 .. n -> Seq(Char)]
  BY <1>4, <1>7
<1>10. 0 \in 0 .. n /\ n \in 0 .. n /\ \A k \in 1 .. n : k \in 0 .. n /\ k - 1 \in 0 .. n
  BY <1>1
<1>11. BlocksEnd(blocks, 0) + 1 = 1
  BY <1>1
<1> HIDE DEF g, h, texts, links
<1>12. Gathers(Char, texts, n, g)
  <2>1. ASSUME NEW k \in 1 .. n PROVE g[k - 1] = texts[k] \o g[k]
    <3>1. g[k - 1] = Text(page, BlocksEnd(blocks, k - 1) + 1) /\ g[k] = Text(page, BlocksEnd(blocks, k) + 1)
      BY <1>8, <1>10
    <3>2. texts[k] = blocks[k].text
      BY <1>5
    <3>. QED
      BY <1>3, <3>1, <3>2
  <2>. QED
    BY <1>5, <1>8, <2>1 DEF Gathers
<1>13. Gathers(Char, links, n, h)
  <2>1. ASSUME NEW k \in 1 .. n PROVE h[k - 1] = links[k] \o h[k]
    <3>1. h[k - 1] = Linked(page, BlocksEnd(blocks, k - 1) + 1) /\ h[k] = Linked(page, BlocksEnd(blocks, k) + 1)
      BY <1>9, <1>10
    <3>2. links[k] = blocks[k].links
      BY <1>6
    <3>. QED
      BY <1>3, <3>1, <3>2
  <2>. QED
    BY <1>6, <1>9, <2>1 DEF Gathers
<1>14. CleanText(page) = FlattenSeq(texts)
  <2>1. g[0] = Upto(texts, n) \o g[n]
    BY <1>12, Gather
  <2>2. g[0] = CleanText(page) /\ g[n] = <<>>
    BY <1>1, <1>4, <1>8, <1>10, <1>11
  <2>3. CleanText(page) = FlattenSeq(texts) \o <<>>
    BY <1>5, <2>1, <2>2, Zenon
  <2>4. FlattenSeq(texts) \o <<>> = FlattenSeq(texts)
    BY <1>5, ConcatEmptySeq
  <2>. QED
    BY <2>3, <2>4
<1>15. LinkNames(ExtractLinks(page)) = FlattenSeq(links)
  <2>1. h[0] = Upto(links, n) \o h[n]
    BY <1>13, Gather
  <2>2. h[0] = LinkNames(ExtractLinks(page)) /\ h[n] = <<>>
    BY <1>1, <1>4, <1>9, <1>10, <1>11
  <2>3. LinkNames(ExtractLinks(page)) = FlattenSeq(links) \o <<>>
    BY <1>6, <2>1, <2>2, Zenon
  <2>4. FlattenSeq(links) \o <<>> = FlattenSeq(links)
    BY <1>6, ConcatEmptySeq
  <2>. QED
    BY <2>3, <2>4
<1>. QED
  BY <1>14, <1>15 DEF texts, links

\* A robots tag of a block says what the page says.
LEMMA NoindexRead ==
    ASSUME NEW P, NEW blocks, NEW n, NEW page, PageOf(P, blocks, n, page),
           NEW k \in 1 .. n, blocks[k].noindex
    PROVE  ControlFlags(page).noindex
<1> DEFINE block == blocks[k]
           o == BlocksEnd(blocks, k - 1)
           i == o + 1
<1>1. WellFormed(block) /\ Holds(page, o, block.pieces) /\ page \in Seq(P)
  BY PageOfIs
<1>2. PlainBlock(block)
  BY <1>1 DEF WellFormed, EntryBlock, CommentBlock, HiddenBlock
<1> HIDE DEF o
<1>3. Len(block.pieces) = 1 /\ SaysNoindex(block.pieces[1])
  BY <1>2 DEF PlainBlock
<1>4. i \in 1 .. Len(page) /\ page[i] = block.pieces[1]
  BY <1>1, <1>3 DEF Holds
<1>5. SaysNoindex(page[i]) /\ i \in DOMAIN page
  BY <1>1, <1>3, <1>4, LenProperties
<1> HIDE DEF i, block
<1>6. MetaRobotsContains(page, "noindex")
  <2>1. i \in Metas(page, "robots")
    BY <1>5 DEF Metas, SaysNoindex
  <2>2. \E content \in ToSet(Attribute(page[i], "content")) : "noindex" \in content
    BY <1>5 DEF SaysNoindex
  <2>. QED
    BY <2>1, <2>2 DEF MetaRobotsContains
<1>. QED
  BY <1>6 DEF ControlFlags

\* Only an entry has a title.
LEMMA TitleIs ==
    ASSUME NEW block, WellFormed(block)
    PROVE  \/ block.title = <<>>
           \/ /\ EntryBlock(block) /\ block.pieces[1].name = "title"
              /\ block.title = <<block.pieces[2].name>>
<1>1. CASE PlainBlock(block)
  BY <1>1, Zenon DEF PlainBlock, Reads
<1>2. CASE EntryBlock(block)
  <2>1. PICK name \in Around :
          /\ block.pieces[1].name = name
          /\ block.title = IF name = "title" THEN <<block.pieces[2].name>> ELSE <<>>
    BY <1>2, EntryIs
  <2>. QED
    BY <1>2, <2>1
<1>3. CASE CommentBlock(block)
  BY <1>3 DEF CommentBlock, Reads
<1>4. CASE HiddenBlock(block)
  BY <1>4, Zenon DEF HiddenBlock, Reads
<1>. QED
  BY <1>1, <1>2, <1>3, <1>4 DEF WellFormed

\* A title tag of a page is the first piece of a block with a title.
LEMMA TitleTags ==
    ASSUME NEW P, NEW blocks, NEW n, NEW page, PageOf(P, blocks, n, page),
           NEW p \in 1 .. Len(page), IsTag(page[p], "title")
    PROVE  \E k \in 1 .. n : p = BlocksEnd(blocks, k - 1) + 1 /\ blocks[k].title # <<>>
<1>1. PICK k \in 1 .. n : \E j \in 1 .. Len(blocks[k].pieces) : p = BlocksEnd(blocks, k - 1) + j
  BY PageOfIs
<1>2. PICK j \in 1 .. Len(blocks[k].pieces) : p = BlocksEnd(blocks, k - 1) + j
  BY <1>1
<1> DEFINE o == BlocksEnd(blocks, k - 1)
           block == blocks[k]
           pieces == block.pieces
<1>3. WellFormed(block) /\ Holds(page, o, pieces)
  BY PageOfIs
<1> HIDE DEF o
<1>4. page[o + j] = pieces[j] /\ p = o + j
  BY <1>2, <1>3 DEF Holds, o
<1>5. pieces[j].kind = "tag" /\ pieces[j].name = "title"
  BY <1>4 DEF IsTag
<1>6. EntryBlock(block)
  BY <1>3, <1>5, AroundIs DEF Around
<1>7. PICK name \in Around :
        /\ Len(pieces) = 3 /\ pieces[1].name = name /\ pieces[2].kind = "word"
        /\ pieces[3].kind = "end"
        /\ block.title = IF name = "title" THEN <<pieces[2].name>> ELSE <<>>
  BY <1>6, EntryIs
<1>8. j = 1
  <2>1. j \in 1 .. 3
    BY <1>7
  <2> HIDE DEF pieces
  <2>. QED
    BY <1>5, <1>7, <2>1
<1>9. block.title # <<>>
  <2>1. name = "title"
    BY <1>5, <1>7, <1>8
  <2>2. block.title = <<pieces[2].name>>
    BY <1>7, <2>1
  <2>. QED
    BY <2>2
<1>. QED
  BY <1>4, <1>8, <1>9 DEF o

\* The first title of a page is that of the first block with one.
LEMMA TitleRead ==
    ASSUME NEW P, NEW blocks, NEW n, NEW page, PageOf(P, blocks, n, page),
           FlattenSeq(FieldLists(blocks, "title")) # <<>>
    PROVE  ExtractTitle(page) = <<Word(FlattenSeq(FieldLists(blocks, "title"))[1])>>
<1> DEFINE titles == FieldLists(blocks, "title")
           S == {k \in 1 .. n : blocks[k].title # <<>>}
           places == {i \in DOMAIN page : IsTag(page[i], "title")}
<1>1. /\ n \in Nat /\ page \in Seq(P) /\ Pieces(P) /\ DOMAIN blocks = 1 .. n
      /\ \A k \in 1 .. n : WellFormed(blocks[k])
  BY PageOfIs DEF PageOf
<1>2. ASSUME NEW k \in 1 .. n PROVE Part(P, page, BlocksEnd(blocks, k - 1), blocks[k].pieces)
  <2>1. page \in Seq(P) /\ Pieces(P) /\ Holds(page, BlocksEnd(blocks, k - 1), blocks[k].pieces)
    BY PageOfIs
  <2>2. EntryEnds(page)
    BY PageEntryEnds
  <2>. QED
    BY <2>1, <2>2 DEF Part
<1>3. ASSUME NEW k \in 1 .. n PROVE blocks[k].title \in Seq(Char)
  <2>1. CASE blocks[k].title = <<>>
    BY <2>1, EmptySeq
  <2>2. CASE blocks[k].title # <<>>
    <3>1. EntryBlock(blocks[k]) /\ blocks[k].title = <<blocks[k].pieces[2].name>>
      BY <1>1, <2>2, TitleIs
    <3>2. Len(blocks[k].pieces) = 3
      BY <3>1, EntryIs
    <3>3. blocks[k].pieces[2].name \in Char
      <4>1. 2 \in 1 .. Len(blocks[k].pieces)
        BY <3>2
      <4>. QED
        BY <1>2, <4>1, PartIs
    <3>. QED
      BY <3>1, <3>3
  <2>. QED
    BY <2>1, <2>2
<1>4. /\ ListOfLists(Char, titles, n) /\ \A k \in 1 .. n : titles[k] = blocks[k].title
      /\ FlattenSeq(titles) = Upto(titles, n)
  <2>1. \A k \in 1 .. n : blocks[k]["title"] \in Seq(Char)
    BY <1>3
  <2>. QED
    BY <1>1, <2>1, FlattenField
<1> HIDE DEF titles
<1>5. /\ Upto(titles, 0) = <<>>
      /\ \A k \in 1 .. n : Upto(titles, k) = Upto(titles, k - 1) \o titles[k]
  BY <1>4, UptoAre, ZenonT(60)
<1>6. ASSUME NEW m \in 0 .. n, \A k \in 1 .. m : blocks[k].title = <<>>
      PROVE  Upto(titles, m) = <<>>
  <2> DEFINE good == {k \in 0 .. m : Upto(titles, k) = <<>>}
  <2>1. 0 \in good
    BY <1>5
  <2>2. ASSUME NEW k \in 1 .. m, k - 1 \in good PROVE k \in good
    <3>1. k \in 1 .. n /\ k \in 0 .. m
      BY <1>1
    <3>2. titles[k] = <<>>
      BY <1>4, <1>6, <3>1
    <3>3. Upto(titles, k) = Upto(titles, k - 1) \o <<>>
      BY <1>5, <3>1, <3>2
    <3>4. <<>> \o <<>> = <<>>
      BY EmptySeq, ConcatEmptySeq
    <3>5. Upto(titles, k) = <<>>
      BY <2>2, <3>3, <3>4
    <3>. QED
      BY <3>1, <3>5
  <2>3. 0 .. m \subseteq good
    <3>1. \A k \in 1 .. m : k - 1 \in good => k \in good
      BY <2>2
    <3>2. m \in Nat
      BY <1>1
    <3> HIDE DEF good
    <3>. QED
      BY <2>1, <3>1, <3>2, Climb
  <2>. QED
    BY <2>3
<1>7. S # {}
  <2>1. n \in 0 .. n
    BY <1>1
  <2>2. Upto(titles, n) # <<>>
    BY <1>4 DEF titles
  <2>. QED
    BY <1>6, <2>1, <2>2
<1>8. PICK k \in S : \A m \in S : k <= m
  <2>1. S \in SUBSET Nat
    BY <1>1
  <2> HIDE DEF S
  <2>. QED
    BY <1>7, <2>1, LeastOf
<1> DEFINE block == blocks[k]
           o == BlocksEnd(blocks, k - 1)
           q == o + 1
           word == block.pieces[2].name
<1>9. k \in 1 .. n /\ k \in 0 .. n /\ k - 1 \in 0 .. n /\ block.title # <<>>
  BY <1>1
<1>10. EntryBlock(block) /\ block.pieces[1].name = "title" /\ block.title = <<word>>
  BY <1>1, <1>9, TitleIs
<1>11. Part(P, page, o, block.pieces)
  BY <1>2
<1>12. FlattenSeq(titles)[1] = word
  <2>1. Upto(titles, k - 1) = <<>>
    <3>1. \A m \in 1 .. k - 1 : m \in 1 .. n /\ ~ (k <= m)
      BY <1>1
    <3>2. \A m \in 1 .. k - 1 : blocks[m].title = <<>>
      BY <1>8, <3>1
    <3>. QED
      BY <1>6, <1>9, <3>2
  <2>2. titles[k] = <<word>>
    BY <1>4, <1>10
  <2>3. Upto(titles, k) = <<>> \o <<word>>
    <3>1. Upto(titles, k) = Upto(titles, k - 1) \o titles[k]
      BY <1>5
    <3>. QED
      BY <2>1, <2>2, <3>1, Zenon
  <2> DEFINE u == Upto(titles, k)
             v == <<word>>
  <2>4. v \in Seq(Char) /\ Len(v) = 1 /\ v[1] = word
    BY <1>3, <1>9, <1>10
  <2>5. u = v
    <3>1. <<>> \o v = v
      BY <2>4, EmptyAdds
    <3>. QED
      BY <2>3, <3>1, Zenon
  <2>6. n \in 0 .. n /\ k \in 0 .. n
    BY <1>1
  <2>7. \A i \in 1 .. Len(u) : Upto(titles, n)[i] = u[i]
    BY <1>4, <2>6, Prefixed
  <2> HIDE DEF u, v, word
  <2>8. Len(u) = 1 /\ u[1] = word
    BY <2>4, <2>5, Zenon
  <2>9. 1 \in 1 .. Len(u)
    BY <2>8
  <2>. QED
    BY <1>4, <2>7, <2>8, <2>9
<1>13. q \in places /\ Body(page, q) = <<block.pieces[2]>>
  <2>1. Len(block.pieces) = 3 /\ block.pieces[1].kind = "tag"
    BY <1>10, EntryIs
  <2>2. 1 \in 1 .. Len(block.pieces)
    BY <2>1
  <2>3. q \in 1 .. Len(page) /\ page[q] = block.pieces[1]
    BY <1>11, <2>2, PartIs
  <2>4. Body(page, q) = <<block.pieces[2]>>
    BY <1>10, <1>11, EntryBody
  <2>5. DOMAIN page = 1 .. Len(page)
    BY <1>1, LenProperties
  <2> HIDE DEF q, block
  <2>. QED
    BY <1>10, <2>1, <2>3, <2>4, <2>5 DEF IsTag
<1>14. \A p \in places : q <= p
  <2>1. ASSUME NEW p \in places PROVE q <= p
    <3>1. p \in 1 .. Len(page) /\ IsTag(page[p], "title")
      BY <1>1, LenProperties
    <3>2. PICK m \in 1 .. n : p = BlocksEnd(blocks, m - 1) + 1 /\ blocks[m].title # <<>>
      BY <3>1, TitleTags
    <3>3. k <= m
      BY <1>8, <3>2
    <3>4. k - 1 \in 0 .. m - 1 /\ m - 1 \in 0 .. n
      BY <1>1, <1>9, <3>3
    <3>5. BlocksEnd(blocks, k - 1) <= BlocksEnd(blocks, m - 1)
      BY <3>4, BlocksEndIs
    <3>6. BlocksEnd(blocks, k - 1) \in Nat /\ BlocksEnd(blocks, m - 1) \in Nat
      <4>1. Len(page) \in Nat /\ \A l \in 0 .. n : BlocksEnd(blocks, l) \in 0 .. Len(page)
        BY BlocksEndIs
      <4>. QED
        BY <1>9, <3>4, <4>1
    <3>. QED
      BY <3>2, <3>5, <3>6
  <2>. QED
    BY <2>1
<1>15. Min(places) = q
  <2>1. places \in SUBSET Nat
    BY <1>1, LenProperties
  <2> HIDE DEF places, q
  <2>2. Min(places) \in places /\ \A x \in places : Min(places) <= x
    BY <1>13, <2>1, MinIs
  <2>3. Min(places) \in Nat /\ q \in Nat
    BY <1>13, <2>1, <2>2
  <2>4. Min(places) <= q /\ q <= Min(places)
    BY <1>13, <1>14, <2>2
  <2>. QED
    BY <2>3, <2>4
<1>16. ExtractTitle(page) = <<block.pieces[2]>>
  <2>1. ExtractTitle(page) = IF places = {} THEN <<>> ELSE Body(page, Min(places))
    BY Zenon DEF ExtractTitle
  <2> HIDE DEF places, q, block
  <2>. QED
    BY <1>13, <1>15, <2>1
<1>17. block.pieces[2] = Word(word)
  <2>1. IsWord(block.pieces[2])
    BY <1>10, EntryIs
  <2>. QED
    BY <2>1 DEF IsWord
<1>. QED
  BY <1>12, <1>16, <1>17 DEF titles

\* The pieces of well formed blocks.
PiecesOf(blocks) ==
    {Word(w) : w \in Char} \cup UNION {ToSet(blocks[i].pieces) : i \in DOMAIN blocks}

LEMMA PageExists ==
    ASSUME NEW blocks, blocks \in Seq(ToSet(blocks)), \A i \in DOMAIN blocks : WellFormed(blocks[i])
    PROVE  PageOf(PiecesOf(blocks), blocks, Len(blocks), FlattenSeq(FieldLists(blocks, "pieces")))
<1> DEFINE n == Len(blocks)
           P == PiecesOf(blocks)
<1>1. n \in Nat /\ DOMAIN blocks = 1 .. n
  BY LenProperties
<1> HIDE DEF n
<1>2. ASSUME NEW k \in 1 .. n
      PROVE  /\ blocks[k].pieces \in Seq(P)
             /\ \A x \in ToSet(blocks[k].pieces) : x.name \in Char /\ Values(x) \in Seq(Char)
  <2> DEFINE pieces == blocks[k].pieces
  <2>1. WellFormed(blocks[k])
    BY <1>1
  <2>2. pieces \in Seq(ToSet(pieces))
    BY <2>1 DEF WellFormed
  <2>3. ToSet(pieces) \subseteq P
    BY <1>1 DEF PiecesOf
  <2>4. pieces \in Seq(P)
    <3> HIDE DEF pieces, P
    <3>. QED
      BY <2>2, <2>3, SeqMonotone
  <2>5. \A j \in DOMAIN pieces : pieces[j].name \in STRING /\ Values(pieces[j]) \in Seq(STRING)
    BY <2>1 DEF WellFormed
  <2>6. STRING \subseteq Char
    BY Zenon DEF Char
  <2>7. Seq(STRING) \subseteq Seq(Char)
    BY <2>6, SeqMonotone
  <2>8. ASSUME NEW x \in ToSet(pieces) PROVE x.name \in Char /\ Values(x) \in Seq(Char)
    <3>1. PICK j \in DOMAIN pieces : x = pieces[j]
      BY DEF ToSet
    <3> HIDE DEF pieces
    <3>. QED
      BY <2>5, <2>6, <2>7, <3>1
  <2>. QED
    BY <2>4, <2>8
<1>3. Pieces(P)
  <2>1. ASSUME NEW x \in P PROVE x.name \in Char /\ Values(x) \in Seq(Char)
    <3>1. CASE \E w \in Char : x = Word(w)
      <4>1. PICK w \in Char : x = Word(w)
        BY <3>1
      <4>2. x.name = w /\ Values(x) = <<>>
        BY <4>1, WordIs
      <4>. QED
        BY <4>2, EmptySeq
    <3>2. CASE \E i \in 1 .. n : x \in ToSet(blocks[i].pieces)
      BY <1>2, <3>2
    <3>. QED
      BY <1>1, <3>1, <3>2 DEF PiecesOf
  <2>2. \A w \in Char : Word(w) \in P
    BY DEF PiecesOf
  <2> HIDE DEF P
  <2>. QED
    BY <2>1, <2>2 DEF Pieces
<1> HIDE DEF P
<1>4. /\ ListOfLists(P, FieldLists(blocks, "pieces"), n)
      /\ FlattenSeq(FieldLists(blocks, "pieces")) = Upto(FieldLists(blocks, "pieces"), n)
  <2>1. \A k \in 1 .. n : blocks[k]["pieces"] \in Seq(P)
    BY <1>2
  <2>. QED
    BY <1>1, <2>1, FlattenField
<1>5. \A i \in 1 .. n : WellFormed(blocks[i])
  BY <1>1
<1>. QED
  BY <1>1, <1>3, <1>4, <1>5 DEF PageOf, n, P

\* A page of well formed blocks is read as its blocks say.
LEMMA PageRightForAll ==
    ASSUME input \in Case
    PROVE  PageRight
<1> SUFFICES ASSUME Of("page") PROVE PageRight
  BY DEF PageRight
<1> DEFINE blocks == input.blocks
           page == FlattenSeq(FieldLists(blocks, "pieces"))
           texts == FlattenSeq(FieldLists(blocks, "text"))
           names == FlattenSeq(FieldLists(blocks, "links"))
           titles == FlattenSeq(FieldLists(blocks, "title"))
           links == ExtractLinks(page)
<1>1. blocks \in Seq(ToSet(blocks)) /\ \A i \in DOMAIN blocks : WellFormed(blocks[i])
  BY CaseAssumption DEF Of
<1> HIDE DEF blocks
<1>2. PageOf(PiecesOf(blocks), blocks, Len(blocks), page)
  BY <1>1, PageExists
<1> HIDE DEF page
<1>3. CleanText(page) = texts /\ LinkNames(links) = names
  BY <1>2, PageReads
<1>4. titles # <<>> => ExtractTitle(page) = <<Word(titles[1])>>
  BY <1>2, TitleRead
<1>5. (\E i \in DOMAIN blocks : blocks[i].noindex) => ControlFlags(page).noindex
  <2>1. DOMAIN blocks = 1 .. Len(blocks)
    BY <1>1, LenProperties
  <2>. QED
    BY <1>2, <2>1, NoindexRead
<1>6. FlattenSeq([i \in DOMAIN links |->
         IF Len(links[i]) = 1 THEN <<links[i][1].name>> ELSE <<>>]) = names
  BY <1>3, Zenon DEF LinkNames, OneName
<1>. QED
  BY <1>3, <1>4, <1>5, <1>6, Zenon DEF PageRight, FieldLists, blocks, page, texts, names, titles, links

\* What the crawler reads in a page of well formed blocks is what the blocks
\* say: all the visible words, the links of one word, the first title and the
\* ban of a robots tag (ParsedContentBuilder, extractLinks, ControlFlagsBuilder).
THEOREM PageRightHolds == Spec => []PageRight
<1>1. input \in Case => PageRight
  BY PageRightForAll
<1>. QED
  BY <1>1, InputStays, PTL

=============================================================================
