--------------------------- MODULE Serving_lemmas ---------------------------
(***************************************************************************)
(* What the proofs about Serving need to know of its operators: that a     *)
(* ranking takes each entry that passes the test once and in order, that   *)
(* what is rendered determines every answer, and that a document, read     *)
(* again, says what was written.                                           *)
(***************************************************************************)
EXTENDS Serving, FiniteSetTheorems, SequenceTheorems, TLAPS

(***************************************************************************)
(* Ranks in a finite set I under a strict total order, given as a relation *)
(* R: a set of pairs.                                                      *)
(***************************************************************************)
Orders(R, I) ==
  /\ \A i \in I : <<i, i>> \notin R
  /\ \A i, j, k \in I : <<i, j>> \in R /\ <<j, k>> \in R => <<i, k>> \in R
  /\ \A i, j \in I : i # j => <<i, j>> \in R \/ <<j, i>> \in R

Below(R, I, i) == {j \in I : <<j, i>> \in R}
Rank(R, I, i) == 1 + Cardinality(Below(R, I, i))
Picked(R, I) == [k \in 1..Cardinality(I) |-> CHOOSE i \in I : Rank(R, I, i) = k]

LEMMA BelowFinite ==
  ASSUME NEW I, IsFiniteSet(I), NEW R, NEW i
  PROVE  IsFiniteSet(Below(R, I, i)) /\ Cardinality(Below(R, I, i)) \in Nat
<1>1. Below(R, I, i) \in SUBSET I
  BY DEF Below
<1>. QED  BY <1>1, FS_Subset, FS_CardinalityType

LEMMA RankRange ==
  ASSUME NEW I, IsFiniteSet(I), NEW R, Orders(R, I), NEW i \in I
  PROVE  Rank(R, I, i) \in 1..Cardinality(I)
<1>1. Below(R, I, i) \in SUBSET (I \ {i})
  BY DEF Below, Orders
<1>2. IsFiniteSet(I \ {i}) /\ Cardinality(I \ {i}) = Cardinality(I) - 1
  BY FS_RemoveElement
<1>3. Cardinality(Below(R, I, i)) <= Cardinality(I) - 1
  BY <1>1, <1>2, FS_Subset
<1>. QED  BY <1>3, BelowFinite, FS_CardinalityType DEF Rank

LEMMA RankOrder ==
  ASSUME NEW I, IsFiniteSet(I), NEW R, Orders(R, I), NEW i \in I, NEW j \in I, <<i, j>> \in R
  PROVE  Rank(R, I, i) < Rank(R, I, j)
<1> DEFINE low == Below(R, I, i)
           high == Below(R, I, j)
<1>1. low \cup {i} \in SUBSET high /\ i \notin low
  BY DEF Below, Orders
<1>2. IsFiniteSet(low) /\ Cardinality(low) \in Nat /\ IsFiniteSet(high) /\ Cardinality(high) \in Nat
  BY BelowFinite
<1>3. Rank(R, I, i) = 1 + Cardinality(low) /\ Rank(R, I, j) = 1 + Cardinality(high)
  BY DEF Rank
<1> HIDE DEF low, high
<1>4. Cardinality(low \cup {i}) = Cardinality(low) + 1
  BY <1>1, <1>2, FS_AddElement
<1>5. Cardinality(low \cup {i}) <= Cardinality(high)
  BY <1>1, <1>2, FS_Subset
<1>. QED  BY <1>2, <1>3, <1>4, <1>5

LEMMA RankUnique ==
  ASSUME NEW I, IsFiniteSet(I), NEW R, Orders(R, I),
         NEW i \in I, NEW j \in I, Rank(R, I, i) = Rank(R, I, j)
  PROVE  i = j
<1>1. Rank(R, I, i) \in Int /\ Rank(R, I, j) \in Int
  BY RankRange, FS_CardinalityType
<1>2. <<i, j>> \notin R /\ <<j, i>> \notin R
  BY <1>1, RankOrder
<1>. QED  BY <1>2 DEF Orders

LEMMA RankTaken ==
  ASSUME NEW I, IsFiniteSet(I), NEW R, Orders(R, I), NEW k \in 1..Cardinality(I)
  PROVE  \E i \in I : Rank(R, I, i) = k
<1> DEFINE n == Cardinality(I)
           rank == [i \in I |-> Rank(R, I, i)]
<1>1. n \in Nat
  BY FS_CardinalityType
<1>2. rank \in [I -> 1..n]
  BY RankRange
<1>3. \A i, j \in I : rank[i] = rank[j] => i = j
  BY RankUnique
<1>4. rank \in Injection(I, 1..n)
  BY <1>2, <1>3 DEF Injection, IsInjective
<1>5. IsFiniteSet(1..n) /\ Cardinality(1..n) = n
  <2>1. 0 \in Int /\ 1 \in Int /\ n \in Int
    BY <1>1
  <2>. QED  BY <1>1, <2>1, FS_Interval
<1>6. rank \in Surjection(I, 1..n)
  <2> HIDE DEF rank
  <2>. QED  BY <1>4, <1>5, FS_Injection
<1>7. PICK i \in I : rank[i] = k
  <2> HIDE DEF rank
  <2>. QED  BY <1>6 DEF Surjection
<1>. QED  BY <1>7

\* Picking by rank visits every member of I, in the order R.
LEMMA PickedProperties ==
  ASSUME NEW I, IsFiniteSet(I), NEW R, Orders(R, I)
  PROVE  /\ Cardinality(I) \in Nat
         /\ \A k \in 1..Cardinality(I) : Picked(R, I)[k] \in I /\ Rank(R, I, Picked(R, I)[k]) = k
         /\ \A i \in I : \E k \in 1..Cardinality(I) : Picked(R, I)[k] = i
         /\ \A k, l \in 1..Cardinality(I) : k < l => <<Picked(R, I)[k], Picked(R, I)[l]>> \in R
<1> DEFINE n == Cardinality(I)
           p == Picked(R, I)
<1>1. n \in Nat
  BY FS_CardinalityType
<1>2. ASSUME NEW k \in 1..n PROVE p[k] \in I /\ Rank(R, I, p[k]) = k
  <2>1. p[k] = CHOOSE i \in I : Rank(R, I, i) = k
    BY DEF Picked
  <2>. QED  BY <2>1, RankTaken
<1> HIDE DEF p
<1>3. ASSUME NEW i \in I PROVE \E k \in 1..n : p[k] = i
  <2>1. Rank(R, I, i) \in 1..n
    BY RankRange
  <2>. QED  BY <2>1, <1>2, RankUnique
<1>4. ASSUME NEW k \in 1..n, NEW l \in 1..n, k < l PROVE <<p[k], p[l]>> \in R
  <2>1. p[k] \in I /\ p[l] \in I /\ Rank(R, I, p[k]) = k /\ Rank(R, I, p[l]) = l
    BY <1>2
  <2>2. <<p[l], p[k]>> \notin R
    BY <2>1, <1>1, <1>4, RankOrder
  <2>3. p[k] # p[l]
    BY <2>1, <1>1, <1>4
  <2>. QED  BY <2>1, <2>2, <2>3 DEF Orders
<1>. QED  BY <1>1, <1>2, <1>3, <1>4 DEF p

-----------------------------------------------------------------------------
(***************************************************************************)
(* The two rankings of the program, by date and by score.                  *)
(***************************************************************************)
Allowed(s) == {i \in DOMAIN s : Allow(s[i])}
ByDate(s) ==
  {p \in (DOMAIN s) \X (DOMAIN s) :
     Newer(s[p[1]], s[p[2]]) \/ (~Newer(s[p[2]], s[p[1]]) /\ p[1] < p[2])}

Hits(s, q) == {i \in DOMAIN s : Found(q, s[i])}
ByScore(s, q) ==
  {p \in (DOMAIN s) \X (DOMAIN s) :
     Better(q, s[p[1]], s[p[2]]) \/ (~Better(q, s[p[2]], s[p[1]]) /\ p[1] < p[2])}

LEMMA InByDate ==
  ASSUME NEW s, NEW i \in DOMAIN s, NEW j \in DOMAIN s
  PROVE  <<i, j>> \in ByDate(s) <=>
           Newer(s[i], s[j]) \/ (~Newer(s[j], s[i]) /\ i < j)
BY DEF ByDate

LEMMA InByScore ==
  ASSUME NEW q, NEW s, NEW i \in DOMAIN s, NEW j \in DOMAIN s
  PROVE  <<i, j>> \in ByScore(s, q) <=>
           Better(q, s[i], s[j]) \/ (~Better(q, s[j], s[i]) /\ i < j)
BY DEF ByScore

LEMMA EntryNumbers ==
  ASSUME NEW e \in Entry
  PROVE  /\ DateOf(e) \in Nat /\ e.id \in Int /\ e.id # NoId
         /\ e.title \in SUBSET Word /\ Body(e) \in SUBSET Word
<1>1. /\ e.id \in Id /\ e.pub \in Nat /\ e.upd \in Nat
      /\ e.title \in SUBSET Word /\ e.content \in SUBSET Word /\ e.summary \in SUBSET Word
  BY OptionsAssumption DEF Entry
<1>. QED  BY <1>1, IdAssumption, NoIdAssumption DEF DateOf, Body

LEMMA ScoreNumber ==
  ASSUME NEW q \in Query, NEW e \in Entry
  PROVE  Score(q, e) \in Nat
<1> DEFINE hit == {t.word : t \in {u \in q : ~u.negate}}
<1>1. hit \cap e.title \in SUBSET Word /\ hit \cap Body(e) \in SUBSET Word
  BY EntryNumbers
<1> HIDE DEF hit
<1>2. Cardinality(hit \cap e.title) \in Nat /\ Cardinality(hit \cap Body(e)) \in Nat
  BY <1>1, WordAssumption, FS_Subset, FS_CardinalityType
<1>3. Score(q, e) = 3 * Cardinality(hit \cap e.title) + Cardinality(hit \cap Body(e))
  BY DEF Score, hit
<1>. QED  BY <1>2, <1>3

\* A set of places of a sequence is finite.
LEMMA PlacesFinite ==
  ASSUME NEW S, NEW s \in Seq(S), NEW I \in SUBSET DOMAIN s
  PROVE  IsFiniteSet(I) /\ Cardinality(I) \in Nat /\ I \subseteq Nat
<1>1. DOMAIN s = 1..Len(s) /\ Len(s) \in Nat
  OBVIOUS
<1>2. IsFiniteSet(1..Len(s))
  BY <1>1, FS_Interval
<1>3. IsFiniteSet(I)
  BY <1>1, <1>2, FS_Subset
<1>. QED  BY <1>1, <1>3, FS_CardinalityType

LEMMA ByDateOrders ==
  ASSUME NEW s \in Seq(Entry), NEW I \in SUBSET DOMAIN s
  PROVE  Orders(ByDate(s), I)
<1> DEFINE date(i) == DateOf(s[i])
<1>1. \A i \in DOMAIN s : date(i) \in Nat /\ i \in Nat
  <2>1. \A i \in DOMAIN s : s[i] \in Entry /\ i \in Nat
    OBVIOUS
  <2>. QED  BY <2>1, EntryNumbers
<1>2. \A i, j \in DOMAIN s :
        <<i, j>> \in ByDate(s) <=> date(i) > date(j) \/ (~(date(j) > date(i)) /\ i < j)
  BY InByDate DEF Newer
<1> HIDE DEF date
<1>. QED  BY <1>1, <1>2 DEF Orders

\* Scores, dates and names compared one after the other are an order.
LEMMA Lexicographic ==
  ASSUME NEW a1 \in Int, NEW a2 \in Int, NEW a3 \in Int,
         NEW b1 \in Int, NEW b2 \in Int, NEW b3 \in Int,
         NEW c1 \in Int, NEW c2 \in Int, NEW c3 \in Int,
         \/ a1 > b1
         \/ a1 = b1 /\ a2 > b2
         \/ a1 = b1 /\ a2 = b2 /\ a3 <= b3,
         \/ b1 > c1
         \/ b1 = c1 /\ b2 > c2
         \/ b1 = c1 /\ b2 = c2 /\ b3 <= c3
  PROVE  \/ a1 > c1
         \/ a1 = c1 /\ a2 > c2
         \/ a1 = c1 /\ a2 = c2 /\ a3 <= c3 /\ (a3 = c3 => a3 = b3)
OBVIOUS

LEMMA ByScoreOrders ==
  ASSUME NEW q \in Query, NEW s \in Seq(Entry), NEW I \in SUBSET DOMAIN s
  PROVE  Orders(ByScore(s, q), I)
<1> DEFINE date(i) == DateOf(s[i])
           score(i) == Score(q, s[i])
           name(i) == s[i].id
           before(i, j) == \/ score(i) > score(j)
                           \/ score(i) = score(j) /\ date(i) > date(j)
                           \/ /\ score(i) = score(j) /\ date(i) = date(j)
                              /\ name(i) <= name(j) /\ (name(i) = name(j) => i < j)
<1>1. \A i \in DOMAIN s : date(i) \in Int /\ score(i) \in Int /\ name(i) \in Int /\ i \in Int
  <2>1. \A i \in DOMAIN s : s[i] \in Entry /\ i \in Nat
    OBVIOUS
  <2>. QED  BY <2>1, EntryNumbers, ScoreNumber
<1>2. \A i, j \in DOMAIN s :
        <<i, j>> \in ByScore(s, q) <=> Better(q, s[i], s[j]) \/ (~Better(q, s[j], s[i]) /\ i < j)
  BY InByScore
<1>3. \A i, j \in DOMAIN s :
        Better(q, s[i], s[j]) <=>
          \/ score(i) > score(j)
          \/ score(i) = score(j) /\ date(i) > date(j)
          \/ score(i) = score(j) /\ date(i) = date(j) /\ name(i) < name(j)
  BY DEF Better
<1> HIDE DEF date, score, name
<1>4. ASSUME NEW i \in DOMAIN s, NEW j \in DOMAIN s
      PROVE  <<i, j>> \in ByScore(s, q) <=> before(i, j)
  <2>1. /\ date(i) \in Int /\ score(i) \in Int /\ name(i) \in Int
        /\ date(j) \in Int /\ score(j) \in Int /\ name(j) \in Int
    BY <1>1
  <2>. QED  BY <1>2, <1>3, <2>1
<1>5. \A i \in I : <<i, i>> \notin ByScore(s, q)
  BY <1>1, <1>4
<1>6. ASSUME NEW i \in I, NEW j \in I, NEW k \in I, before(i, j), before(j, k)
      PROVE  before(i, k)
  <2>1. /\ date(i) \in Int /\ score(i) \in Int /\ name(i) \in Int /\ i \in Int
        /\ date(j) \in Int /\ score(j) \in Int /\ name(j) \in Int /\ j \in Int
        /\ date(k) \in Int /\ score(k) \in Int /\ name(k) \in Int /\ k \in Int
    BY <1>1
  <2>2. \/ score(i) > score(k)
        \/ score(i) = score(k) /\ date(i) > date(k)
        \/ /\ score(i) = score(k) /\ date(i) = date(k)
           /\ name(i) <= name(k) /\ (name(i) = name(k) => name(i) = name(j))
    BY <1>6, <2>1, Lexicographic
  <2>. QED  BY <1>6, <2>1, <2>2
<1>7. ASSUME NEW i \in I, NEW j \in I, i # j PROVE before(i, j) \/ before(j, i)
  <2>1. /\ date(i) \in Int /\ score(i) \in Int /\ name(i) \in Int /\ i \in Int
        /\ date(j) \in Int /\ score(j) \in Int /\ name(j) \in Int /\ j \in Int
    BY <1>1
  <2>. QED  BY <1>7, <2>1
<1> HIDE DEF before
<1>. QED  BY <1>4, <1>5, <1>6, <1>7 DEF Orders

\* What is published is picked by rank among what the filters allow.
LEMMA RankedByDate ==
  ASSUME NEW s \in Seq(Entry)
  PROVE  LET I == Allowed(s)
         IN  Ranked(s, Allow, Newer) =
               [k \in 1..Cardinality(I) |-> s[Picked(ByDate(s), I)[k]]]
<1> DEFINE I == Allowed(s)
           R == ByDate(s)
           Place(i) ==
             1 + Cardinality({j \in I : Newer(s[j], s[i]) \/ (~Newer(s[i], s[j]) /\ j < i)})
<1>1. I \in SUBSET DOMAIN s
  BY DEF Allowed
<1>2. IsFiniteSet(I) /\ Orders(R, I)
  BY <1>1, PlacesFinite, ByDateOrders
<1>3. ASSUME NEW i \in I PROVE Place(i) = Rank(R, I, i)
  <2>1. {j \in I : Newer(s[j], s[i]) \/ (~Newer(s[i], s[j]) /\ j < i)} = Below(R, I, i)
    BY <1>1, InByDate DEF Below
  <2>. QED  BY <2>1 DEF Rank
<1>4. Ranked(s, Allow, Newer) =
        [k \in 1..Cardinality(I) |-> s[CHOOSE i \in I : Place(i) = k]]
  BY DEF Ranked, Allowed
<1> HIDE DEF Place, R, I
<1>5. ASSUME NEW k \in 1..Cardinality(I)
      PROVE  (CHOOSE i \in I : Place(i) = k) = Picked(R, I)[k]
  <2>1. PICK i \in I : Rank(R, I, i) = k
    BY <1>2, RankTaken
  <2>2. (CHOOSE j \in I : Place(j) = k) = i
    BY <2>1, <1>2, <1>3, RankUnique
  <2>3. Picked(R, I)[k] = i
    BY <2>1, <1>2, PickedProperties, RankUnique
  <2>. QED  BY <2>2, <2>3
<1>6. Ranked(s, Allow, Newer) = [k \in 1..Cardinality(I) |-> s[Picked(R, I)[k]]]
  BY <1>4, <1>5
<1>. QED  BY <1>6 DEF R, I

\* So is what a query finds.
LEMMA RankedByScore ==
  ASSUME NEW q \in Query, NEW s \in Seq(Entry)
  PROVE  LET I == Hits(s, q)
         IN  SearchQuery(s, q) =
               [k \in 1..Cardinality(I) |-> s[Picked(ByScore(s, q), I)[k]]]
<1> DEFINE I == Hits(s, q)
           R == ByScore(s, q)
           Place(i) ==
             1 + Cardinality({j \in I :
                   Better(q, s[j], s[i]) \/ (~Better(q, s[i], s[j]) /\ j < i)})
<1>1. I \in SUBSET DOMAIN s
  BY DEF Hits
<1>2. IsFiniteSet(I) /\ Orders(R, I)
  BY <1>1, PlacesFinite, ByScoreOrders
<1>3. ASSUME NEW i \in I PROVE Place(i) = Rank(R, I, i)
  <2>1. {j \in I : Better(q, s[j], s[i]) \/ (~Better(q, s[i], s[j]) /\ j < i)} = Below(R, I, i)
    BY <1>1, InByScore DEF Below
  <2>. QED  BY <2>1 DEF Rank
<1>4. SearchQuery(s, q) =
        [k \in 1..Cardinality(I) |-> s[CHOOSE i \in I : Place(i) = k]]
  BY DEF SearchQuery, Ranked, Hits
<1> HIDE DEF Place, R, I
<1>5. ASSUME NEW k \in 1..Cardinality(I)
      PROVE  (CHOOSE i \in I : Place(i) = k) = Picked(R, I)[k]
  <2>1. PICK i \in I : Rank(R, I, i) = k
    BY <1>2, RankTaken
  <2>2. (CHOOSE j \in I : Place(j) = k) = i
    BY <2>1, <1>2, <1>3, RankUnique
  <2>3. Picked(R, I)[k] = i
    BY <2>1, <1>2, PickedProperties, RankUnique
  <2>. QED  BY <2>2, <2>3
<1>6. SearchQuery(s, q) = [k \in 1..Cardinality(I) |-> s[Picked(R, I)[k]]]
  BY <1>4, <1>5
<1>. QED  BY <1>6 DEF R, I

\* Cutting leaves a prefix.
LEMMA CutPrefix ==
  ASSUME NEW S, NEW s \in Seq(S), NEW limit \in Nat
  PROVE  /\ Cut(s, limit) \in Seq(S)
         /\ Len(Cut(s, limit)) = IF limit > 0 /\ Len(s) > limit THEN limit ELSE Len(s)
         /\ DOMAIN Cut(s, limit) = 1..Len(Cut(s, limit))
         /\ Len(Cut(s, limit)) \in 0..Len(s)
         /\ \A k \in 1..Len(Cut(s, limit)) : Cut(s, limit)[k] = s[k]
BY DEF Cut

Ranking(s) == Ranked(s, Allow, Newer)

\* A ranking by date is in order, and has what the filters allow and only that.
LEMMA Best ==
  ASSUME NEW s \in Seq(Entry)
  PROVE  LET r == Ranking(s)
         IN  /\ r \in Seq(Entry)
             /\ \A k \in DOMAIN r : Allow(r[k])
             /\ \A k, l \in DOMAIN r : k < l => ~Newer(r[l], r[k])
             /\ \A i \in DOMAIN s : Allow(s[i]) => \E k \in DOMAIN r : r[k] = s[i]
<1> DEFINE I == Allowed(s)
           n == Cardinality(I)
           p == Picked(ByDate(s), I)
           r == Ranking(s)
<1>1. I \in SUBSET DOMAIN s /\ \A i \in DOMAIN s : i \in I <=> Allow(s[i])
  BY DEF Allowed
<1>2. IsFiniteSet(I) /\ n \in Nat /\ Orders(ByDate(s), I)
  BY <1>1, PlacesFinite, ByDateOrders
<1>3. r = [k \in 1..n |-> s[p[k]]]
  BY RankedByDate DEF Ranking
<1>4. /\ \A k \in 1..n : p[k] \in I
      /\ \A i \in I : \E k \in 1..n : p[k] = i
      /\ \A k, l \in 1..n : k < l => <<p[k], p[l]>> \in ByDate(s)
  BY <1>2, PickedProperties
<1> HIDE DEF I, n, p, r
<1>5. \A k \in 1..n : r[k] = s[p[k]] /\ r[k] \in Entry /\ p[k] \in DOMAIN s
  BY <1>1, <1>3, <1>4
<1>6. r \in Seq(Entry) /\ DOMAIN r = 1..n
  BY <1>2, <1>3, <1>5
<1>7. \A k \in DOMAIN r : Allow(r[k])
  BY <1>1, <1>4, <1>5, <1>6
<1>8. ASSUME NEW k \in 1..n, NEW l \in 1..n, k < l PROVE ~Newer(r[l], r[k])
  <2>0. p[k] \in DOMAIN s /\ p[l] \in DOMAIN s /\ <<p[k], p[l]>> \in ByDate(s)
    BY <1>4, <1>5, <1>8
  <2>1. Newer(s[p[k]], s[p[l]]) \/ ~Newer(s[p[l]], s[p[k]])
    BY <2>0, InByDate
  <2>2. DateOf(r[k]) \in Nat /\ DateOf(r[l]) \in Nat
    BY <1>5, EntryNumbers
  <2>3. r[k] = s[p[k]] /\ r[l] = s[p[l]]
    BY <1>5
  <2>. QED  BY <2>1, <2>2, <2>3 DEF Newer
<1>9. \A i \in DOMAIN s : Allow(s[i]) => \E k \in DOMAIN r : r[k] = s[i]
  BY <1>1, <1>4, <1>5, <1>6
<1>. QED  BY <1>6, <1>7, <1>8, <1>9 DEF r

-----------------------------------------------------------------------------
(***************************************************************************)
(* Documents, read again.                                                  *)
(***************************************************************************)
LEMMA Upto ==
  ASSUME NEW n \in Nat
  PROVE  IsFiniteSet(1..n) /\ Cardinality(1..n) = n
<1>1. 1 \in Int /\ n \in Int
  OBVIOUS
<1>2. Cardinality(1..n) = IF 1 > n THEN 0 ELSE n - 1 + 1
  BY <1>1, FS_Interval
<1>. QED  BY <1>1, <1>2, FS_Interval

LEMMA WrittenFields ==
  ASSUME NEW d
  PROVE  /\ Written(d).date = d /\ (Written(d).text = "" <=> d = 0)
         /\ NoDate.date = 0 /\ NoDate.text = ""
<1>1. NoDate.date = 0 /\ NoDate.text = ""
  BY DEF NoDate
<1>2. CASE d = 0
  BY <1>1, <1>2 DEF Written
<1>3. CASE d # 0
  BY <1>1, <1>3 DEF Written
<1>. QED  BY <1>2, <1>3

\* The least of some of the first three places.
LEMMA LeastPlace ==
  ASSUME NEW T \in SUBSET (1..3), NEW k \in T, \A j \in T : k <= j
  PROVE  (CHOOSE i \in T : \A j \in T : i <= j) = k
<1> DEFINE m == CHOOSE i \in T : \A j \in T : i <= j
<1>1. m \in T /\ \A j \in T : m <= j
  OBVIOUS
<1> HIDE DEF m
<1>2. m = k
  BY <1>1
<1>. QED  BY <1>2 DEF m

LEMMA RssDate ==
  ASSUME NEW d
  PROVE  FirstDate(<<Written(d), NoDate>>).date = d
<1> DEFINE dates == <<Written(d), NoDate>>
           there == {i \in DOMAIN dates : dates[i].text # ""}
<1>1. DOMAIN dates = 1..2 /\ dates[1] = Written(d) /\ dates[2] = NoDate
  OBVIOUS
<1>2. FirstDate(dates) = IF there = {} THEN NoDate
                         ELSE dates[CHOOSE i \in there : \A j \in there : i <= j]
  BY DEF FirstDate
<1> HIDE DEF dates
<1>3. \A i : i \in there <=> i = 1 /\ d # 0
  <2>1. \A i : i \in there <=> (i = 1 \/ i = 2) /\ dates[i].text # ""
    BY <1>1
  <2>2. dates[1].text = Written(d).text /\ dates[2].text = ""
    BY <1>1, WrittenFields
  <2>3. Written(d).text = "" <=> d = 0
    BY WrittenFields
  <2> HIDE DEF there
  <2>. QED  BY <2>1, <2>2, <2>3
<1> HIDE DEF there
<1>4. CASE d = 0
  BY <1>2, <1>3, <1>4, WrittenFields DEF dates
<1>5. CASE d # 0
  <2>1. (CHOOSE i \in there : \A j \in there : i <= j) = 1
    BY <1>3, <1>5, LeastPlace
  <2>2. FirstDate(dates) = Written(d)
    BY <1>1, <1>2, <1>3, <1>5, <2>1
  <2>. QED  BY <2>2, WrittenFields DEF dates
<1>. QED  BY <1>4, <1>5

LEMMA AtomDate ==
  ASSUME NEW d, NEW u
  PROVE  FirstDate(<<Written(d), NoDate, Written(u)>>).date = IF d # 0 THEN d ELSE u
<1> DEFINE dates == <<Written(d), NoDate, Written(u)>>
           there == {i \in DOMAIN dates : dates[i].text # ""}
<1>1. /\ DOMAIN dates = 1..3
      /\ dates[1] = Written(d) /\ dates[2] = NoDate /\ dates[3] = Written(u)
  OBVIOUS
<1>2. FirstDate(dates) = IF there = {} THEN NoDate
                         ELSE dates[CHOOSE i \in there : \A j \in there : i <= j]
  BY DEF FirstDate
<1> HIDE DEF dates
<1>3. \A i : i \in there <=> (i = 1 /\ d # 0) \/ (i = 3 /\ u # 0)
  <2>1. \A i : i \in there <=> (i = 1 \/ i = 2 \/ i = 3) /\ dates[i].text # ""
    BY <1>1
  <2>2. /\ dates[1].text = Written(d).text /\ dates[2].text = ""
        /\ dates[3].text = Written(u).text
    BY <1>1, WrittenFields
  <2>3. (Written(d).text = "" <=> d = 0) /\ (Written(u).text = "" <=> u = 0)
    BY WrittenFields
  <2> HIDE DEF there
  <2>. QED  BY <2>1, <2>2, <2>3
<1> HIDE DEF there
<1>4. there \in SUBSET (1..3)
  BY <1>3
<1>5. CASE d = 0 /\ u = 0
  BY <1>2, <1>3, <1>5, WrittenFields DEF dates
<1>6. CASE d = 0 /\ u # 0
  <2>1. (CHOOSE i \in there : \A j \in there : i <= j) = 3
    BY <1>3, <1>4, <1>6, LeastPlace
  <2>2. FirstDate(dates) = Written(u)
    BY <1>1, <1>2, <1>3, <1>6, <2>1
  <2>. QED  BY <1>6, <2>2, WrittenFields DEF dates
<1>7. CASE d # 0
  <2>1. (CHOOSE i \in there : \A j \in there : i <= j) = 1
    BY <1>3, <1>4, <1>7, LeastPlace
  <2>2. FirstDate(dates) = Written(d)
    BY <1>1, <1>2, <1>3, <1>7, <2>1
  <2>. QED  BY <1>7, <2>2, WrittenFields DEF dates
<1>. QED  BY <1>5, <1>6, <1>7

LEMMA AlternateLink ==
  ASSUME NEW l
  PROVE  /\ PickLink(<<>>) = NoLink
         /\ PickLink(<<[href |-> l, rel |-> "alternate"]>>) = l
<1>1. PickLink(<<>>) = NoLink
  BY DEF PickLink
<1> DEFINE links == <<[href |-> l, rel |-> "alternate"]>>
           Places(rels) == {i \in DOMAIN links : links[i].href # NoLink /\ links[i].rel \in rels}
           all == Places({links[i].rel : i \in DOMAIN links})
           best == CASE Places({"alternate"}) # {} -> Places({"alternate"})
                     [] Places({"alternate"}) = {} /\ Places({""}) # {} -> Places({""})
                     [] OTHER -> all
<1>2. DOMAIN links = {1} /\ links[1].href = l /\ links[1].rel = "alternate"
  OBVIOUS
<1>3. PickLink(links) = IF all = {} THEN NoLink
                        ELSE links[CHOOSE i \in best : \A j \in best : i <= j].href
  BY DEF PickLink
<1> HIDE DEF links
<1>4. CASE l = NoLink
  <2>1. all = {}
    BY <1>2, <1>4
  <2> HIDE DEF all
  <2>2. PickLink(links) = NoLink
    BY <1>3, <2>1
  <2>. QED  BY <1>1, <1>4, <2>2 DEF links
<1>5. CASE l # NoLink
  <2>1. all = {1} /\ Places({"alternate"}) = {1}
    BY <1>2, <1>5
  <2>2. best = {1}
    <3> HIDE DEF Places
    <3>. QED  BY <2>1
  <2> HIDE DEF all, best
  <2>3. (CHOOSE i \in best : \A j \in best : i <= j) = 1
    BY <2>2
  <2>4. PickLink(links) = l
    BY <1>2, <1>3, <2>1, <2>3
  <2>. QED  BY <1>1, <2>4 DEF links
<1>. QED  BY <1>4, <1>5

\* An entry with an id, and with a link if its id is one, comes back the same
\* in what counts; then its id is a guid.
Whole(e) == e.id # NoId /\ (e.source = "link" => e.link # NoLink)

SameEntry(e, c) ==
  /\ c.id = e.id /\ c.link = e.link /\ c.title = e.title /\ Body(c) = Body(e)
  /\ DateOf(e) # 0 => DateOf(c) = DateOf(e)

LEMMA ReadRss ==
  ASSUME NEW es, NEW u, NEW k \in DOMAIN es, Whole(es[k])
  PROVE  LET c == ReadAgain("rss", es, u)[k]
         IN  Whole(c) /\ SameEntry(es[k], c) /\ DateOf(c) = DateOf(es[k])
<1> DEFINE e == es[k]
           it == [guid |-> e.id, permalink |-> IF e.source = "link" THEN "true" ELSE "false",
                  link |-> e.link, title |-> e.title, description |-> Body(e), encoded |-> {},
                  pubDate |-> Written(DateOf(e)), dcDate |-> NoDate]
           c == ParseRssItem(it)
<1>1. ReadAgain("rss", es, u)[k] = c
  BY DEF ReadAgain, WriteRSS
<1>2. FirstDate(<<it.pubDate, it.dcDate>>).date = DateOf(e)
  BY RssDate
<1>3. /\ it.guid = e.id /\ it.link = e.link /\ it.title = e.title
      /\ it.description = Body(e) /\ it.encoded = {}
      /\ e.source # "link" => it.permalink = "false"
  OBVIOUS
<1>4. e.id # NoId /\ (e.source = "link" => e.link # NoLink)
  BY DEF Whole
<1> HIDE DEF e, it
<1>5. c.link = e.link
  BY <1>3, <1>4 DEF ParseRssItem
<1>6. c.id = e.id /\ c.source = "guid"
  BY <1>3, <1>4 DEF ParseRssItem, Identified
<1>7. c.title = e.title /\ Body(c) = Body(e)
  BY <1>3 DEF ParseRssItem, FirstText, Body
<1>8. DateOf(c) = DateOf(e)
  BY <1>2 DEF ParseRssItem, DateOf
<1> HIDE DEF c
<1>9. Whole(c) /\ SameEntry(e, c)
  BY <1>4, <1>5, <1>6, <1>7, <1>8 DEF Whole, SameEntry
<1>. QED  BY <1>1, <1>8, <1>9 DEF e

LEMMA ReadAtom ==
  ASSUME NEW es, NEW u, NEW k \in DOMAIN es, Whole(es[k])
  PROVE  LET c == ReadAgain("atom", es, u)[k]
         IN  Whole(c) /\ SameEntry(es[k], c)
<1> DEFINE e == es[k]
           ae == [id |-> e.id,
                  links |-> IF e.link = NoLink THEN <<>>
                            ELSE <<[href |-> e.link, rel |-> "alternate"]>>,
                  title |-> e.title, content |-> Body(e), summary |-> {},
                  published |-> Written(e.pub), issued |-> NoDate,
                  updated |-> Written(FirstTime(FirstTime(e.upd, e.pub), u))]
           c == ParseAtomEntry(ae)
<1>1. ReadAgain("atom", es, u)[k] = c
  BY DEF ReadAgain, WriteAtom
<1>2. FirstDate(<<ae.published, ae.issued, ae.updated>>).date =
        IF e.pub # 0 THEN e.pub ELSE FirstTime(FirstTime(e.upd, e.pub), u)
  BY AtomDate
<1>3. PickLink(ae.links) = e.link
  BY AlternateLink
<1>4. /\ ae.id = e.id /\ ae.title = e.title
      /\ ae.content = Body(e) /\ ae.summary = {}
      /\ ae.updated.date = FirstTime(FirstTime(e.upd, e.pub), u)
  BY DEF Written, NoDate
<1>5. e.id # NoId
  BY DEF Whole
<1> HIDE DEF e, ae
<1>6. c.link = e.link
  BY <1>3 DEF ParseAtomEntry
<1>7. c.id = e.id /\ c.source = "guid"
  BY <1>4, <1>5 DEF ParseAtomEntry, Identified
<1>8. c.title = e.title /\ Body(c) = Body(e)
  BY <1>4 DEF ParseAtomEntry, FirstText, Body
<1>9. c.pub = IF e.pub # 0 THEN e.pub ELSE FirstTime(FirstTime(e.upd, e.pub), u)
  BY <1>2 DEF ParseAtomEntry
<1>10. DateOf(e) # 0 => DateOf(c) = DateOf(e)
  BY <1>9 DEF DateOf, FirstTime
<1> HIDE DEF c
<1>11. Whole(c) /\ SameEntry(e, c)
  BY <1>5, <1>6, <1>7, <1>8, <1>10 DEF Whole, SameEntry
<1>. QED  BY <1>1, <1>11 DEF e

\* A document has an entry for each that was written.
LEMMA ReadDomain ==
  ASSUME NEW f \in {"rss", "atom"}, NEW es, NEW u
  PROVE  /\ DOMAIN ReadAgain(f, es, u) = DOMAIN es
         /\ ReadAgain(f, es, u) = [k \in DOMAIN es |-> ReadAgain(f, es, u)[k]]
BY DEF ReadAgain, WriteRSS, WriteAtom

LEMMA ReadLength ==
  ASSUME NEW f \in {"rss", "atom"}, NEW n \in Nat, NEW es, DOMAIN es = 1..n, NEW u
  PROVE  /\ ReadAgain(f, es, u) = [k \in 1..n |-> ReadAgain(f, es, u)[k]]
         /\ DOMAIN ReadAgain(f, es, u) = 1..n /\ Len(ReadAgain(f, es, u)) = n
<1> DEFINE c == ReadAgain(f, es, u)
<1>1. c = [k \in 1..n |-> c[k]]
  BY ReadDomain
<1> HIDE DEF c
<1>2. c \in Seq({c[k] : k \in 1..n}) /\ DOMAIN c = 1..n
  BY <1>1
<1>3. Len(c) = n
  BY <1>2
<1>. QED  BY <1>1, <1>2, <1>3 DEF c

LEMMA ReadKeeps ==
  ASSUME NEW f \in {"rss", "atom"}, NEW es, NEW u, NEW k \in DOMAIN es, Whole(es[k])
  PROVE  Whole(ReadAgain(f, es, u)[k]) /\ SameEntry(es[k], ReadAgain(f, es, u)[k])
<1>1. CASE f = "rss"
  BY <1>1, ReadRss
<1>2. CASE f = "atom"
  BY <1>2, ReadAtom
<1>. QED  BY <1>1, <1>2

\* Sorting what is in order changes nothing.
LEMMA SortedStays ==
  ASSUME NEW n \in Nat, NEW s, s = [k \in 1..n |-> s[k]],
         \A k \in 1..n : DateOf(s[k]) \in Nat,
         \A k, l \in 1..n : k < l => ~Newer(s[l], s[k])
  PROVE  Sorted(s, Newer) = s
<1> DEFINE all == {i \in DOMAIN s : TRUE}
           Earlier(i) == {j \in all : Newer(s[j], s[i]) \/ (~Newer(s[i], s[j]) /\ j < i)}
           Place(i) == 1 + Cardinality(Earlier(i))
<1>1. all = 1..n
  OBVIOUS
<1>2. Sorted(s, Newer) = [k \in 1..Cardinality(all) |-> s[CHOOSE i \in all : Place(i) = k]]
  BY DEF Sorted, Ranked
<1> HIDE DEF all
<1>3. ASSUME NEW i \in 1..n PROVE Place(i) = i
  <2>1. ~Newer(s[i], s[i])
    BY DEF Newer
  <2>2. Earlier(i) = 1..i-1
    BY <1>1, <2>1
  <2> HIDE DEF Earlier
  <2>3. i - 1 \in Nat
    OBVIOUS
  <2>4. Cardinality(1..i-1) = i - 1
    BY <2>3, Upto
  <2>. QED  BY <2>2, <2>4
<1> HIDE DEF Place
<1>4. Cardinality(all) = n
  BY <1>1, Upto
<1>5. ASSUME NEW k \in 1..n PROVE (CHOOSE i \in all : Place(i) = k) = k
  BY <1>1, <1>3
<1>. QED  BY <1>2, <1>4, <1>5

-----------------------------------------------------------------------------
(***************************************************************************)
(* What a rendered snapshot tells of its entries, and that no answer       *)
(* depends on more.  A rendering hides whether an id is a guid or a hash,  *)
(* and whether the body was the content or the summary.                    *)
(***************************************************************************)
Blurb(e) == IF e.summary = Body(e) THEN {} ELSE e.summary

Alike(e, f) ==
  /\ e.id = f.id /\ e.link = f.link /\ e.title = f.title
  /\ Body(e) = Body(f) /\ Blurb(e) = Blurb(f)
  /\ e.pub = f.pub /\ e.upd = f.upd
  /\ e.source = "link" <=> f.source = "link"

AlikeSeqs(es, fs) == DOMAIN es = DOMAIN fs /\ \A k \in DOMAIN es : Alike(es[k], fs[k])

LEMMA RenderedTells ==
  ASSUME NEW es, NEW fs, NEW u, NEW v, Rendered(es, u) = Rendered(fs, v)
  PROVE  u = v /\ AlikeSeqs(es, fs)
<1>1. /\ WriteRSS(es, u) = WriteRSS(fs, v)
      /\ WriteJSON(es, u) = WriteJSON(fs, v)
  BY DEF Rendered
<1>2. WriteRSS(es, u).updated = u /\ WriteRSS(fs, v).updated = v
  BY DEF WriteRSS
<1>3. DOMAIN WriteJSON(es, u) = DOMAIN es /\ DOMAIN WriteJSON(fs, v) = DOMAIN fs
  BY DEF WriteJSON
<1>4. DOMAIN es = DOMAIN fs
  BY <1>1, <1>3
<1>5. ASSUME NEW k \in DOMAIN es PROVE Alike(es[k], fs[k])
  <2> DEFINE Permalink(e) == IF e.source = "link" THEN "true" ELSE "false"
  <2>1. /\ WriteRSS(es, u).items[k].permalink = Permalink(es[k])
        /\ WriteRSS(fs, v).items[k].permalink = Permalink(fs[k])
    BY <1>4 DEF WriteRSS
  <2>2. es[k].source = "link" <=> fs[k].source = "link"
    BY <1>1, <2>1
  <2> DEFINE Item(e) ==
        [id |-> e.id, url |-> e.link, title |-> e.title, content |-> Body(e),
         summary |-> IF e.summary = Body(e) THEN {} ELSE e.summary,
         published |-> e.pub, modified |-> e.upd]
  <2>3. WriteJSON(es, u)[k] = Item(es[k]) /\ WriteJSON(fs, v)[k] = Item(fs[k])
    BY <1>4 DEF WriteJSON
  <2>4. Item(es[k]) = Item(fs[k])
    BY <1>1, <2>3
  <2>5. /\ es[k].id = fs[k].id /\ es[k].link = fs[k].link /\ es[k].title = fs[k].title
        /\ Body(es[k]) = Body(fs[k]) /\ Blurb(es[k]) = Blurb(fs[k])
        /\ es[k].pub = fs[k].pub /\ es[k].upd = fs[k].upd
    BY <2>4 DEF Blurb
  <2>. QED  BY <2>2, <2>5 DEF Alike
<1>. QED  BY <1>1, <1>2, <1>4, <1>5 DEF AlikeSeqs

LEMMA AlikeRendered ==
  ASSUME NEW es, NEW fs, AlikeSeqs(es, fs), NEW u
  PROVE  Rendered(es, u) = Rendered(fs, u) /\ Updated(es, u) = Updated(fs, u)
<1>1. DOMAIN es = DOMAIN fs
  BY DEF AlikeSeqs
<1>2. ASSUME NEW k \in DOMAIN es
      PROVE  /\ es[k].id = fs[k].id /\ es[k].link = fs[k].link /\ es[k].title = fs[k].title
             /\ Body(es[k]) = Body(fs[k]) /\ Blurb(es[k]) = Blurb(fs[k])
             /\ es[k].pub = fs[k].pub /\ es[k].upd = fs[k].upd
             /\ DateOf(es[k]) = DateOf(fs[k])
             /\ es[k].source = "link" <=> fs[k].source = "link"
  BY DEF AlikeSeqs, Alike, DateOf
<1>3. WriteRSS(es, u) = WriteRSS(fs, u)
  BY <1>1, <1>2 DEF WriteRSS
<1>4. WriteAtom(es, u) = WriteAtom(fs, u)
  BY <1>1, <1>2 DEF WriteAtom
<1>5. WriteJSON(es, u) = WriteJSON(fs, u)
  BY <1>1, <1>2 DEF WriteJSON, Blurb
<1>6. {DateOf(es[i]) : i \in DOMAIN es} = {DateOf(fs[i]) : i \in DOMAIN fs}
  BY <1>1, <1>2
<1>7. Updated(es, u) = Updated(fs, u)
  <2> DEFINE D == {DateOf(es[i]) : i \in DOMAIN es}
             E == {DateOf(fs[i]) : i \in DOMAIN fs}
  <2>1. Updated(es, u) = IF D \ {0} = {} THEN u
                         ELSE CHOOSE d \in D \ {0} : \A c \in D \ {0} : c <= d
    BY DEF Updated
  <2>2. Updated(fs, u) = IF E \ {0} = {} THEN u
                         ELSE CHOOSE d \in E \ {0} : \A c \in E \ {0} : c <= d
    BY DEF Updated
  <2> HIDE DEF D, E
  <2>3. D = E
    BY <1>6 DEF D, E
  <2>. QED  BY <2>1, <2>2, <2>3
<1>. QED  BY <1>3, <1>4, <1>5, <1>7 DEF Rendered

LEMMA AlikeCut ==
  ASSUME NEW es \in Seq(Entry), NEW fs \in Seq(Entry), AlikeSeqs(es, fs), NEW limit \in Nat
  PROVE  AlikeSeqs(Cut(es, limit), Cut(fs, limit))
<1>1. Len(es) = Len(fs) /\ \A k \in 1..Len(es) : Alike(es[k], fs[k])
  BY DEF AlikeSeqs
<1>2. /\ Len(Cut(es, limit)) = Len(Cut(fs, limit)) /\ Len(Cut(es, limit)) \in 0..Len(es)
      /\ DOMAIN Cut(es, limit) = 1..Len(Cut(es, limit))
      /\ DOMAIN Cut(fs, limit) = 1..Len(Cut(fs, limit))
      /\ \A k \in 1..Len(Cut(es, limit)) :
           Cut(es, limit)[k] = es[k] /\ Cut(fs, limit)[k] = fs[k]
  BY <1>1, CutPrefix
<1>. QED  BY <1>1, <1>2 DEF AlikeSeqs

\* A query finds the same, in the same order.
LEMMA AlikeSearch ==
  ASSUME NEW q \in Query, NEW es \in Seq(Entry), NEW fs \in Seq(Entry), AlikeSeqs(es, fs)
  PROVE  /\ AlikeSeqs(SearchQuery(es, q), SearchQuery(fs, q))
         /\ SearchQuery(es, q) \in Seq(Entry) /\ SearchQuery(fs, q) \in Seq(Entry)
<1> DEFINE I == Hits(es, q)
           R == ByScore(es, q)
           n == Cardinality(I)
           p == Picked(R, I)
<1>1. DOMAIN es = DOMAIN fs /\ \A k \in DOMAIN es : Alike(es[k], fs[k])
  BY DEF AlikeSeqs
<1>2. \A k \in DOMAIN es : /\ es[k].title = fs[k].title /\ Body(es[k]) = Body(fs[k])
                           /\ DateOf(es[k]) = DateOf(fs[k]) /\ es[k].id = fs[k].id
  BY <1>1 DEF Alike, DateOf
<1>3. ASSUME NEW k \in DOMAIN es
      PROVE  (Found(q, es[k]) <=> Found(q, fs[k])) /\ Score(q, es[k]) = Score(q, fs[k])
  BY <1>2 DEF Found, Score
<1>4. ASSUME NEW j \in DOMAIN es, NEW k \in DOMAIN es
      PROVE  Better(q, es[j], es[k]) <=> Better(q, fs[j], fs[k])
  BY <1>2, <1>3 DEF Better
<1>5. I = Hits(fs, q)
  BY <1>1, <1>3 DEF Hits
<1>6. R = ByScore(fs, q)
  BY <1>1, <1>4 DEF ByScore
<1>7. /\ SearchQuery(es, q) = [k \in 1..n |-> es[p[k]]]
      /\ SearchQuery(fs, q) = [k \in 1..n |-> fs[p[k]]]
  BY <1>5, <1>6, RankedByScore
<1>8. I \in SUBSET DOMAIN es
  BY DEF Hits
<1>9. n \in Nat /\ \A k \in 1..n : p[k] \in DOMAIN es
  BY <1>8, PlacesFinite, ByScoreOrders, PickedProperties
<1> HIDE DEF I, R, n, p
<1>10. \A k \in 1..n : es[p[k]] \in Entry /\ fs[p[k]] \in Entry
  BY <1>1, <1>9
<1>. QED  BY <1>1, <1>7, <1>9, <1>10 DEF AlikeSeqs

\* So two snapshots that are rendered alike answer alike.
LEMMA SavedTold ==
  ASSUME NEW s, NEW t, NEW v \in Search,
         s.entries \in Seq(Entry), t.entries \in Seq(Entry),
         AlikeSeqs(s.entries, t.entries), s.updated = t.updated
  PROVE  SavedFeed(s, v) = SavedFeed(t, v)
<1> DEFINE a == SearchQuery(s.entries, v.query)
           b == SearchQuery(t.entries, v.query)
           c == Cut(a, v.limit)
           d == Cut(b, v.limit)
<1>1. v.query \in Query /\ v.limit \in Nat
  BY DEF Search
<1>2. AlikeSeqs(a, b) /\ a \in Seq(Entry) /\ b \in Seq(Entry)
  BY <1>1, AlikeSearch
<1>3. SavedFeed(s, v) = [title |-> v.title, query |-> v.query,
                         documents |-> Rendered(c, Updated(c, s.updated))]
  BY DEF SavedFeed
<1>4. SavedFeed(t, v) = [title |-> v.title, query |-> v.query,
                         documents |-> Rendered(d, Updated(d, t.updated))]
  BY DEF SavedFeed
<1> HIDE DEF a, b
<1>5. AlikeSeqs(c, d)
  BY <1>1, <1>2, AlikeCut
<1> HIDE DEF c, d
<1>6. Updated(c, s.updated) = Updated(d, t.updated)
  BY <1>5, AlikeRendered
<1>7. Rendered(c, Updated(c, s.updated)) = Rendered(d, Updated(d, t.updated))
  BY <1>5, <1>6, AlikeRendered
<1>. QED  BY <1>3, <1>4, <1>7

LEMMA SearchTold ==
  ASSUME NEW s, NEW t,
         s.entries \in Seq(Entry), t.entries \in Seq(Entry),
         AlikeSeqs(s.entries, t.entries)
  PROVE  SearchPage(s) = SearchPage(t)
<1> DEFINE q == Asked.query
           a == SearchQuery(s.entries, q)
           b == SearchQuery(t.entries, q)
           c == Cut(a, Asked.limit)
           d == Cut(b, Asked.limit)
<1>1. q \in Query /\ Asked.limit \in Nat
  BY ConfigAssumption DEF Search
<1>2. AlikeSeqs(a, b) /\ a \in Seq(Entry) /\ b \in Seq(Entry)
  BY <1>1, AlikeSearch
<1>3. SearchPage(s) = [total |-> Len(a), indexed |-> Len(s.entries),
                       results |-> [k \in DOMAIN c |-> Hit(q, c[k])]]
  BY DEF SearchPage
<1>4. SearchPage(t) = [total |-> Len(b), indexed |-> Len(t.entries),
                       results |-> [k \in DOMAIN d |-> Hit(q, d[k])]]
  BY DEF SearchPage
<1>5. Len(s.entries) = Len(t.entries)
  BY DEF AlikeSeqs
<1> HIDE DEF a, b
<1>6. Len(a) = Len(b)
  BY <1>2 DEF AlikeSeqs
<1>7. AlikeSeqs(c, d)
  BY <1>1, <1>2, AlikeCut
<1> HIDE DEF c, d
<1>8. DOMAIN c = DOMAIN d /\ \A k \in DOMAIN c : Hit(q, c[k]) = Hit(q, d[k])
  BY <1>7 DEF AlikeSeqs, Alike, Hit, DateOf, Score
<1>. QED  BY <1>3, <1>4, <1>5, <1>6, <1>8

=============================================================================
