--------------------------- MODULE Search_proofs ---------------------------
(***************************************************************************)
(* What is proved of the index and the query language, for any alphabet,   *)
(* stop words, entries, bodies and queries: the index reads the prose of a *)
(* body, the answer to a query is the set of the entries it asks for, a    *)
(* space or a closing quote says nothing new, and the echo of a query is   *)
(* read as that query.  Tokenize, Join, Plain and New go over their input  *)
(* from left to right: each is shown to be the end of a run with one step  *)
(* per place, and what is said of it is carried along the run.             *)
(***************************************************************************)
EXTENDS Search, FiniteSetTheorems, SequenceTheorems, TLAPS

-----------------------------------------------------------------------------
(* Folds.                                                                  *)

\* A set of numbers has a least one.
LEMMA Least ==
  ASSUME NEW K, K \subseteq Nat, K # {}
  PROVE  \E m \in K : \A l \in K : m <= l
<1>1. PICK m \in K : \A y \in K : ~(<<y, m>> \in OpToRel(<, Nat))
  BY NatLessThanWellFounded, WFMin
<1>2. \A y \in K : ~(y < m)
  BY <1>1 DEF OpToRel
<1> QED BY <1>2

\* Induction, told of a set.
LEMMA Inductive ==
  ASSUME NEW n \in Nat, NEW S, 0 \in S, \A k \in 1..n : k - 1 \in S => k \in S
  PROVE  \A k \in 0..n : k \in S
<1> DEFINE K == {k \in 0..n : k \notin S}
<1> SUFFICES ASSUME K # {} PROVE FALSE
  OBVIOUS
<1>1. PICK m \in K : \A l \in K : m <= l
  <2>1. K \subseteq Nat
    OBVIOUS
  <2> HIDE DEF K
  <2> QED BY <2>1, Least
<1>2. m \in 1..n /\ m - 1 \in 0..n /\ ~(m <= m - 1)
  BY <1>1
<1>3. m - 1 \in S
  BY <1>1, <1>2
<1> QED BY <1>1, <1>2, <1>3

\* What FoldLeft makes of the places in s, with step for its operator.
Folding(step, base, seq, s, acc) ==
  IF s = {} THEN base ELSE step[<<acc, seq[Max(s)]>>]

\* The greatest of a stretch of places is its last, and of one place itself.
LEMMA MaxOf ==
  ASSUME NEW n \in Nat, NEW s \in SUBSET (1..n)
  PROVE  /\ s # {} => Max(s) \in s /\ \A x \in s : x <= Max(s)
         /\ n \in s => Max(s) = n
<1>1. ASSUME s # {} PROVE Max(s) \in s /\ \A x \in s : x <= Max(s)
  <2> DEFINE U == {m \in Nat : \A l \in s : l <= m}
  <2>1. n \in U /\ U \subseteq Nat
    OBVIOUS
  <2>2. PICK m \in U : \A l \in U : m <= l
    BY <2>1, Least
  <2>3. m \in s
    <3> SUFFICES ASSUME m \notin s PROVE FALSE
      OBVIOUS
    <3>1. PICK l \in s : TRUE
      BY <1>1
    <3>2. \A x \in s : x \in Nat /\ x >= 1 /\ x <= m /\ x # m
      BY <2>2
    <3>3. m \in Nat /\ m >= 1
      BY <2>2, <3>1, <3>2
    <3>4. m - 1 \in U
      BY <3>2, <3>3
    <3> QED BY <2>2, <3>3, <3>4
  <2>4. \A x \in s : m >= x
    BY <2>2
  <2> QED BY <2>3, <2>4 DEF Max
<1>2. ASSUME n \in s PROVE Max(s) = n
  <2> DEFINE m == Max(s)
  <2>1. m \in s /\ n <= m
    BY <1>1, <1>2
  <2> HIDE DEF m
  <2>2. m = n
    BY <2>1
  <2> QED BY <2>2 DEF m
<1> QED BY <1>1, <1>2

\* g holds what the fold makes of every set of places.
Tabulates(g, A, base, seq, step) ==
  /\ g \in [SUBSET DOMAIN seq -> A]
  /\ \A s \in SUBSET DOMAIN seq : g[s] = Folding(step, base, seq, s, g[s \ {Max(s)}])

\* What runs over a sequence place by place.
Runs(f, A, base, seq, step) ==
  /\ f \in [0..Len(seq) -> A]
  /\ f[0] = base
  /\ \A k \in 1..Len(seq) : f[k] = step[<<f[k-1], seq[k]>>]

\* The function that FoldLeft defines itself by exists.
LEMMA FoldExists ==
  ASSUME NEW A, NEW base \in A, NEW X, NEW seq \in Seq(X), NEW step \in [A \X X -> A]
  PROVE  \E g : Tabulates(g, A, base, seq, step)
<1> DEFINE n == Len(seq)
           Has(k) == \E g \in [SUBSET (1..k) -> A] :
                       \A s \in SUBSET (1..k) : g[s] = Folding(step, base, seq, s, g[s \ {Max(s)}])
           S == {k \in 0..n : Has(k)}
<1>1. n \in Nat /\ DOMAIN seq = 1..n /\ \A k \in 1..n : seq[k] \in X
  OBVIOUS
<1>2. 0 \in S
  <2> DEFINE g == [s \in SUBSET (1..0) |-> base]
  <2>1. 1..0 = {}
    OBVIOUS
  <2>2. g \in [SUBSET (1..0) -> A] /\ \A s \in SUBSET (1..0) : s = {} /\ g[s] = base
    BY <2>1
  <2> HIDE DEF g
  <2>3. \A s \in SUBSET (1..0) : g[s] = Folding(step, base, seq, s, g[s \ {Max(s)}])
    BY <2>2 DEF Folding
  <2>4. Has(0)
    BY <2>2, <2>3, Zenon
  <2> HIDE DEF Has
  <2> QED BY <1>1, <2>4
<1>3. ASSUME NEW k \in 1..n, k - 1 \in S PROVE k \in S
  <2>1. PICK g \in [SUBSET (1..k-1) -> A] :
          \A s \in SUBSET (1..k-1) : g[s] = Folding(step, base, seq, s, g[s \ {Max(s)}])
    BY <1>3
  <2> DEFINE h == [s \in SUBSET (1..k) |->
                     IF k \in s THEN step[<<g[s \ {k}], seq[k]>>] ELSE g[s]]
  <2>2. \A s \in SUBSET (1..k) : s \ {k} \in SUBSET (1..k-1) /\ (k \notin s => s \in SUBSET (1..k-1))
    BY <1>1
  <2>3. h \in [SUBSET (1..k) -> A]
    BY <1>1, <2>1, <2>2
  <2>4. ASSUME NEW s \in SUBSET (1..k) PROVE h[s] = Folding(step, base, seq, s, h[s \ {Max(s)}])
    <3>1. CASE k \in s
      <4>1. Max(s) = k
        BY <3>1, <1>1, MaxOf
      <4>2. h[s \ {k}] = g[s \ {k}]
        <5>1. s \ {k} \in SUBSET (1..k) /\ k \notin s \ {k}
          OBVIOUS
        <5> QED BY <5>1
      <4>3. h[s] = step[<<g[s \ {k}], seq[k]>>]
        BY <3>1
      <4> HIDE DEF h
      <4>4. Folding(step, base, seq, s, h[s \ {k}]) = step[<<h[s \ {k}], seq[k]>>]
        BY <3>1, <4>1 DEF Folding
      <4> QED BY <4>1, <4>2, <4>3, <4>4
    <3>2. CASE k \notin s
      <4> DEFINE r == s \ {Max(s)}
      <4>1. s \in SUBSET (1..k-1) /\ r \in SUBSET (1..k) /\ k \notin r
        BY <3>2, <2>2
      <4>2. h[s] = g[s] /\ h[r] = g[r]
        BY <3>2, <4>1
      <4> HIDE DEF h, r
      <4>3. g[s] = Folding(step, base, seq, s, g[r])
        BY <2>1, <4>1 DEF r
      <4>4. h[s] = Folding(step, base, seq, s, h[r])
        BY <4>2, <4>3, Zenon
      <4> QED BY <4>4 DEF r
    <3> QED BY <3>1, <3>2
  <2> HIDE DEF h
  <2>5. Has(k)
    BY <2>3, <2>4, Zenon
  <2> HIDE DEF Has
  <2> QED BY <2>5, <1>1
<1>4. n \in S
  <2> HIDE DEF Has, S
  <2>1. \A k \in 0..n : k \in S
    BY <1>1, <1>2, <1>3, Inductive
  <2> QED BY <1>1, <2>1
<1>5. PICK g \in [SUBSET (1..n) -> A] :
        \A s \in SUBSET (1..n) : g[s] = Folding(step, base, seq, s, g[s \ {Max(s)}])
  BY <1>4
<1>6. Tabulates(g, A, base, seq, step)
  <2> HIDE DEF n
  <2> QED BY <1>1, <1>5, Zenon DEF Tabulates
<1> QED BY <1>6

\* A fold, place by place.
Unfolds(it, A, base, seq, step) ==
  \A s \in SUBSET DOMAIN seq :
    s = {} \/ it[s \ {Max(s)}] \in A => it[s] = Folding(step, base, seq, s, it[s \ {Max(s)}])

\* f has, at the end, what the fold it makes of all the places.
Evaluates(f, it, A, base, seq, step) ==
  /\ Runs(f, A, base, seq, step)
  /\ it[DOMAIN seq] = f[Len(seq)]

\* A fold by an operator that stays in A ends where a run from place to place
\* ends.
LEMMA FoldRuns ==
  ASSUME NEW A, NEW base \in A, NEW X, NEW seq \in Seq(X), NEW step \in [A \X X -> A],
         NEW it, Unfolds(it, A, base, seq, step)
  PROVE  \E f : Evaluates(f, it, A, base, seq, step)
<1> DEFINE n == Len(seq)
           f == [k \in 0..n |-> it[1..k]]
           S == {k \in 0..n : f[k] \in A}
<1>1. n \in Nat /\ DOMAIN seq = 1..n /\ \A k \in 1..n : seq[k] \in X
  OBVIOUS
<1>2. f[0] = base
  <2>1. 1..0 = {} /\ {} \in SUBSET DOMAIN seq
    OBVIOUS
  <2>2. it[{}] = base
    BY <2>1 DEF Folding, Unfolds
  <2>3. it[1..0] = it[{}]
    BY <2>1, Zenon
  <2>4. f[0] = it[1..0]
    BY <1>1
  <2> QED BY <2>2, <2>3, <2>4
<1>3. ASSUME NEW k \in 1..n, f[k-1] \in A PROVE f[k] = step[<<f[k-1], seq[k]>>] /\ f[k] \in A
  <2>1. 1..k \in SUBSET DOMAIN seq /\ k \in 1..k /\ 1..k # {} /\ (1..k) \ {k} = 1..k-1
    <3>1. \A l : l \in (1..k) \ {k} <=> l \in 1..k-1
      BY <1>1
    <3>2. \A l \in 1..k : l \in 1..n
      BY <1>1
    <3>3. k \in 1..k
      BY <1>1
    <3> QED BY <1>1, <3>1, <3>2, <3>3
  <2>2. Max(1..k) = k
    BY <2>1, <1>1, MaxOf
  <2>3. f[k] = it[1..k] /\ f[k-1] = it[1..k-1]
    BY <1>1
  <2> HIDE DEF f
  <2>4. f[k] = step[<<f[k-1], seq[k]>>]
    <3>1. it[1..k] = Folding(step, base, seq, 1..k, it[1..k-1])
      <4> DEFINE s == 1..k
                 r == 1..k-1
      <4>1. s \in SUBSET DOMAIN seq /\ s # {} /\ s \ {Max(s)} = r /\ it[r] \in A
        BY <1>3, <2>1, <2>2, <2>3, Zenon
      <4> HIDE DEF s, r
      <4>2. it[s \ {Max(s)}] = it[r]
        BY <4>1, Zenon
      <4>3. it[s] = Folding(step, base, seq, s, it[r])
        BY <4>1, <4>2 DEF Unfolds
      <4> QED BY <4>3 DEF s, r
    <3> QED BY <2>1, <2>2, <2>3, <3>1 DEF Folding
  <2> QED BY <1>1, <1>3, <2>4
<1> HIDE DEF f
<1>4. \A k \in 0..n : f[k] \in A
  <2>1. 0 \in S
    BY <1>1, <1>2
  <2>2. ASSUME NEW k \in 1..n, k - 1 \in S PROVE k \in S
    <3>1. f[k-1] \in A
      BY <2>2
    <3>2. f[k] \in A
      BY <1>3, <3>1
    <3> QED BY <1>1, <3>2
  <2> HIDE DEF S
  <2>3. \A k \in 0..n : k \in S
    BY <1>1, <2>1, <2>2, Inductive
  <2> QED BY <2>3 DEF S
<1>5. f \in [0..n -> A] /\ it[DOMAIN seq] = f[n]
  BY <1>1, <1>4 DEF f
<1>6. \A k \in 1..n : f[k] = step[<<f[k-1], seq[k]>>]
  BY <1>1, <1>3, <1>4
<1> HIDE DEF n
<1>7. Runs(f, A, base, seq, step)
  BY <1>2, <1>5, <1>6 DEF Runs, n
<1>8. Evaluates(f, it, A, base, seq, step)
  BY <1>5, <1>7 DEF n, Evaluates
<1> QED BY <1>8
-----------------------------------------------------------------------------
(* Tokens.                                                                 *)

\* A term: letters, at least one, and not a stop word.
Word == Seq(Letters) \ ({<<>>} \cup StopWords)

\* Tokenize in the middle of a text.
Reading == [word : Seq(Letters), out : Seq(Word)]

\* Tokenize before the first character.
Unread == [word |-> <<>>, out |-> <<>>]

\* f is what the loop of Tokenize has, after every character.
Reads(f, text) ==
  /\ f \in [0..Len(text) -> Reading]
  /\ f[0] = Unread
  /\ \A k \in 1..Len(text) : f[k] = Read(f[k-1], text[k])

\* Tokenize reads its text one character after the other, and has words of
\* letters only, none of them empty.
LEMMA ReadRuns ==
  ASSUME NEW X, NEW text \in Seq(X)
  PROVE  \E f : Reads(f, text) /\ FoldLeft(Read, Unread, text) = f[Len(text)]
<1> DEFINE step == [p \in Reading \X X |-> Read(p[1], p[2])]
           Run(g) == [s \in SUBSET DOMAIN text |->
                        IF s = {} THEN Unread ELSE Read(g[s \ {Max(s)}], text[Max(s)])]
           it == CHOOSE g : g = Run(g)
<1>1. Unread \in Reading
  BY DEF Unread, Reading
<1>2. ASSUME NEW r \in Reading, NEW c \in X PROVE Read(r, c) \in Reading
  <2>1. CASE c \in Letters
    <3>1. Append(r.word, c) \in Seq(Letters)
      BY <2>1 DEF Reading
    <3>2. Read(r, c) = [r EXCEPT !.word = Append(r.word, c)]
      BY <2>1, Zenon DEF Read
    <3> QED BY <3>1, <3>2 DEF Reading
  <2>2. CASE c \notin Letters
    <3>1. Read(r, c) = Flush(r)
      BY <2>2 DEF Read
    <3>2. r.word \in StopWords \cup {<<>>} \/ r.word \in Word
      BY DEF Reading, Word
    <3>3. Flush(r).out \in Seq(Word)
      BY <3>2 DEF Reading, Flush
    <3>4. Flush(r).out \in Seq(Word) => Flush(r) \in Reading
      BY DEF Flush, Reading
    <3> QED BY <3>1, <3>3, <3>4
  <2> QED BY <2>1, <2>2
<1>3. step \in [Reading \X X -> Reading]
  BY <1>2
<1>4. DOMAIN text = 1..Len(text) /\ Len(text) \in Nat /\ \A k \in 1..Len(text) : text[k] \in X
  OBVIOUS
<1>5. ASSUME NEW s \in SUBSET DOMAIN text, s # {}, NEW g, g[s \ {Max(s)}] \in Reading
      PROVE  Folding(step, Unread, text, s, g[s \ {Max(s)}])
               = Read(g[s \ {Max(s)}], text[Max(s)])
  <2> DEFINE v == g[s \ {Max(s)}]
             c == text[Max(s)]
  <2>1. v \in Reading /\ c \in X
    BY <1>4, <1>5, MaxOf
  <2> HIDE DEF v, c
  <2>2. step[<<v, c>>] = Read(v, c)
    BY <2>1
  <2> HIDE DEF step
  <2>3. Folding(step, Unread, text, s, v) = Read(v, c)
    BY <2>2, <1>5 DEF Folding, c
  <2> QED BY <2>3 DEF v, c
<1>6. \E g : g = Run(g)
  <2>1. PICK g : Tabulates(g, Reading, Unread, text, step)
    <3> HIDE DEF step
    <3> QED BY <1>1, <1>3, FoldExists
  <2>2. ASSUME NEW s \in SUBSET DOMAIN text PROVE g[s] = Run(g)[s]
    <3>1. CASE s = {}
      <4>1. g[s] = Unread
        <5> HIDE DEF step
        <5> QED BY <2>1, <3>1 DEF Folding, Tabulates
      <4> QED BY <3>1, <4>1, Zenon
    <3>2. CASE s # {}
      <4>1. s \ {Max(s)} \in SUBSET DOMAIN text
        OBVIOUS
      <4>2. g[s \ {Max(s)}] \in Reading
        BY <2>1, <4>1, Zenon DEF Tabulates
      <4>3. g[s] = Read(g[s \ {Max(s)}], text[Max(s)])
        <5> HIDE DEF step
        <5> QED BY <2>1, <1>5, <3>2, <4>2, Zenon DEF Tabulates
      <4> QED BY <3>2, <4>3, Zenon
    <3> QED BY <3>1, <3>2
  <2>3. g = [s \in SUBSET DOMAIN text |-> g[s]]
    BY <2>1 DEF Tabulates
  <2> QED BY <2>2, <2>3, Zenon
<1>7. it = Run(it)
  <2> HIDE DEF Run
  <2> QED BY <1>6
<1>8. Unfolds(it, Reading, Unread, text, step)
  <2> SUFFICES \A s \in SUBSET DOMAIN text :
        s = {} \/ it[s \ {Max(s)}] \in Reading
          => it[s] = Folding(step, Unread, text, s, it[s \ {Max(s)}])
    BY Zenon DEF Unfolds
  <2> HIDE DEF it
  <2> TAKE s \in SUBSET DOMAIN text
  <2>1. it[s] = IF s = {} THEN Unread ELSE Read(it[s \ {Max(s)}], text[Max(s)])
    BY <1>7, Zenon
  <2> HIDE DEF step
  <2>2. CASE s = {}
    BY <2>1, <2>2 DEF Folding
  <2> QED BY <2>1, <2>2, <1>5, Zenon
<1>9. FoldLeft(Read, Unread, text) = it[DOMAIN text]
  BY Zenon DEF FoldLeft, MapThenFoldSet
<1> HIDE DEF it, step
<1>10. PICK f : Evaluates(f, it, Reading, Unread, text, step)
  BY <1>1, <1>3, <1>8, FoldRuns
<1>11. ASSUME NEW k \in 1..Len(text) PROVE f[k] = Read(f[k-1], text[k])
  <2>1. f[k-1] \in Reading /\ text[k] \in X
    BY <1>4, <1>10 DEF Evaluates, Runs
  <2> QED BY <1>10, <2>1 DEF step, Evaluates, Runs
<1>12. Reads(f, text)
  BY <1>10, <1>11 DEF Evaluates, Runs, Reads
<1> QED BY <1>9, <1>10, <1>12 DEF Evaluates

\* One more text of Join.
Glue(acc, t) == acc \o <<Space>> \o t

\* f is what Join has, after every text.
Glues(f, C, base, seq) ==
  /\ f \in [0..Len(seq) -> Seq(C)]
  /\ f[0] = base
  /\ \A k \in 1..Len(seq) : f[k] = Glue(f[k-1], seq[k])

\* Join writes its texts one after the other, each after a space.
LEMMA JoinRuns ==
  ASSUME NEW C, Space \in C, NEW base \in Seq(C), NEW seq \in Seq(Seq(C))
  PROVE  \E f : Glues(f, C, base, seq) /\ FoldLeft(LAMBDA acc, t : acc \o <<Space>> \o t, base, seq) = f[Len(seq)]
<1> DEFINE step == [p \in Seq(C) \X Seq(C) |-> Glue(p[1], p[2])]
           Run(g) == [s \in SUBSET DOMAIN seq |->
                        IF s = {} THEN base ELSE Glue(g[s \ {Max(s)}], seq[Max(s)])]
           it == CHOOSE g : g = Run(g)
<1>1. base \in Seq(C)
  OBVIOUS
<1>2. ASSUME NEW r \in Seq(C), NEW c \in Seq(C) PROVE Glue(r, c) \in Seq(C)
  BY DEF Glue
<1>3. step \in [Seq(C) \X Seq(C) -> Seq(C)]
  BY <1>2
<1>4. DOMAIN seq = 1..Len(seq) /\ Len(seq) \in Nat /\ \A k \in 1..Len(seq) : seq[k] \in Seq(C)
  OBVIOUS
<1>5. ASSUME NEW s \in SUBSET DOMAIN seq, s # {}, NEW g, g[s \ {Max(s)}] \in Seq(C)
      PROVE  Folding(step, base, seq, s, g[s \ {Max(s)}])
               = Glue(g[s \ {Max(s)}], seq[Max(s)])
  <2> DEFINE v == g[s \ {Max(s)}]
             c == seq[Max(s)]
  <2>1. v \in Seq(C) /\ c \in Seq(C)
    BY <1>4, <1>5, MaxOf
  <2> HIDE DEF v, c
  <2>2. step[<<v, c>>] = Glue(v, c)
    BY <2>1
  <2> HIDE DEF step
  <2>3. Folding(step, base, seq, s, v) = Glue(v, c)
    BY <2>2, <1>5 DEF Folding, c
  <2> QED BY <2>3 DEF v, c
<1>6. \E g : g = Run(g)
  <2>1. PICK g : Tabulates(g, Seq(C), base, seq, step)
    <3> HIDE DEF step
    <3> QED BY <1>1, <1>3, FoldExists
  <2>2. ASSUME NEW s \in SUBSET DOMAIN seq PROVE g[s] = Run(g)[s]
    <3>1. CASE s = {}
      <4>1. g[s] = base
        <5> HIDE DEF step
        <5> QED BY <2>1, <3>1 DEF Folding, Tabulates
      <4> QED BY <3>1, <4>1, Zenon
    <3>2. CASE s # {}
      <4>1. s \ {Max(s)} \in SUBSET DOMAIN seq
        OBVIOUS
      <4>2. g[s \ {Max(s)}] \in Seq(C)
        BY <2>1, <4>1, Zenon DEF Tabulates
      <4>3. g[s] = Glue(g[s \ {Max(s)}], seq[Max(s)])
        <5> HIDE DEF step
        <5> QED BY <2>1, <1>5, <3>2, <4>2, Zenon DEF Tabulates
      <4> QED BY <3>2, <4>3, Zenon
    <3> QED BY <3>1, <3>2
  <2>3. g = [s \in SUBSET DOMAIN seq |-> g[s]]
    BY <2>1 DEF Tabulates
  <2> QED BY <2>2, <2>3, Zenon
<1>7. it = Run(it)
  <2> HIDE DEF Run
  <2> QED BY <1>6
<1>8. Unfolds(it, Seq(C), base, seq, step)
  <2> SUFFICES \A s \in SUBSET DOMAIN seq :
        s = {} \/ it[s \ {Max(s)}] \in Seq(C)
          => it[s] = Folding(step, base, seq, s, it[s \ {Max(s)}])
    BY Zenon DEF Unfolds
  <2> HIDE DEF it
  <2> TAKE s \in SUBSET DOMAIN seq
  <2>1. it[s] = IF s = {} THEN base ELSE Glue(it[s \ {Max(s)}], seq[Max(s)])
    BY <1>7, Zenon
  <2> HIDE DEF step
  <2>2. CASE s = {}
    BY <2>1, <2>2 DEF Folding
  <2> QED BY <2>1, <2>2, <1>5, Zenon
<1>9. FoldLeft(LAMBDA acc, t : acc \o <<Space>> \o t, base, seq) = it[DOMAIN seq]
  BY Zenon DEF FoldLeft, MapThenFoldSet, Glue
<1> HIDE DEF it, step
<1>10. PICK f : Evaluates(f, it, Seq(C), base, seq, step)
  BY <1>1, <1>3, <1>8, FoldRuns
<1>11. ASSUME NEW k \in 1..Len(seq) PROVE f[k] = Glue(f[k-1], seq[k])
  <2>1. f[k-1] \in Seq(C) /\ seq[k] \in Seq(C)
    BY <1>4, <1>10 DEF Evaluates, Runs
  <2> QED BY <1>10, <2>1 DEF step, Evaluates, Runs
<1>12. Glues(f, C, base, seq)
  BY <1>10, <1>11 DEF Evaluates, Runs, Glues
<1> QED BY <1>9, <1>10, <1>12 DEF Evaluates
-----------------------------------------------------------------------------
(* Text.                                                                   *)

\* The breaks that may be held back while a body is read.
Pending == {0, 1} \cup {BreakLevel[Markup[t].name] : t \in Tags}

\* The elements that may be skipped.
Names == {""} \cup {Markup[t].name : t \in Tags}

\* The reader of a body, in the middle of it.
Scanning(X) ==
  [out : Seq(X \cup {Space, NewLine}), pending : Pending, space : BOOLEAN,
   depth : Int, name : Names, comment : BOOLEAN]

\* A comment is no tag: it is looked for first.
LEMMA NoTag == CommentStart \notin Tags
BY DEF Tags, CommentStart

\* A break changes what is held back and nothing else.
LEMMA BrkTyped ==
  ASSUME NEW X, NEW w \in Scanning(X), NEW level \in Pending
  PROVE  Brk(w, level) \in Scanning(X)
<1>1. Highest(w.pending, level) \in Pending
  BY Zenon DEF Highest, Scanning
<1>2. Brk(w, level) = [w EXCEPT !.pending = Highest(w.pending, level)]
  BY Zenon DEF Brk
<1> HIDE DEF Pending
<1> QED BY <1>1, <1>2 DEF Scanning

\* Writing a character keeps the reader a reader: the breaks held back are
\* written before it as spaces and line ends.
LEMMA WriteTextTyped ==
  ASSUME NEW X, NEW w \in Scanning(X), NEW c \in X
  PROVE  WriteText(w, c) \in Scanning(X)
<1> DEFINE D == X \cup {Space, NewLine}
           gap == IF w.out = <<>> THEN <<>>
                  ELSE IF w.pending = 2 THEN <<NewLine, NewLine>>
                  ELSE IF w.pending = 1 THEN <<NewLine>>
                  ELSE IF w.space THEN <<Space>> ELSE <<>>
<1>1. CASE c \in {Space, NewLine}
  <2>1. WriteText(w, c) = [w EXCEPT !.space = TRUE]
    BY <1>1, Zenon DEF WriteText
  <2> QED BY <2>1 DEF Scanning
<1>2. CASE c \notin {Space, NewLine}
  <2>1. gap \in {<<>>, <<NewLine, NewLine>>, <<NewLine>>, <<Space>>}
    BY Zenon
  <2>2. NewLine \in D /\ Space \in D /\ c \in D
    OBVIOUS
  <2>3. WriteText(w, c) = [w EXCEPT !.out = w.out \o gap \o <<c>>, !.pending = 0, !.space = FALSE]
    BY <1>2, Zenon DEF WriteText
  <2>4. w.out \in Seq(D) /\ 0 \in Pending
    BY DEF Scanning, Pending
  <2> HIDE DEF gap, D
  <2>5. <<>> \in Seq(D) /\ <<NewLine, NewLine>> \in Seq(D) /\ <<NewLine>> \in Seq(D)
        /\ <<Space>> \in Seq(D) /\ <<c>> \in Seq(D)
    BY <2>2
  <2>6. gap \in Seq(D)
    BY <2>1, <2>5, Zenon
  <2>7. w.out \o gap \o <<c>> \in Seq(D)
    BY <2>4, <2>5, <2>6
  <2> QED BY <2>3, <2>4, <2>7 DEF Scanning, D
<1> QED BY <1>1, <1>2

\* Whatever comes next in a body, the reader stays a reader.
LEMMA ScanTyped ==
  ASSUME NEW X, NEW w \in Scanning(X), NEW c \in X
  PROVE  Scan(w, c) \in Scanning(X)
<1>1. CASE w.comment
  <2>1. Scan(w, c) = [w EXCEPT !.comment = c # CommentEnd]
    BY <1>1, Zenon DEF Scan
  <2> QED BY <2>1 DEF Scanning
<1>2. CASE ~w.comment /\ c = CommentStart
  <2>1. ~w.comment
    BY <1>2
  <2>2. Scan(w, CommentStart) = [w EXCEPT !.comment = TRUE]
    BY <2>1, NoTag, Zenon DEF Scan
  <2>3. Scan(w, c) = [w EXCEPT !.comment = TRUE]
    BY <1>2, <2>2, Zenon
  <2> QED BY <2>3 DEF Scanning
<1>3. CASE ~w.comment /\ c # CommentStart /\ c \in Tags
  <2> DEFINE t == Markup[c]
  <2>1. t.name \in Names /\ BreakLevel[t.name] \in Pending /\ 1 \in Pending
    BY <1>3, Zenon DEF Names, Pending
  <2> HIDE DEF t
  <2>2. CASE w.depth > 0
    <3> DEFINE inner == [w EXCEPT !.depth = IF t.closing THEN @ - 1
                                   ELSE IF t.name \in VoidTags \/ t.selfClosed THEN @
                                   ELSE @ + 1]
    <3>1. inner \in Scanning(X)
      BY DEF Scanning
    <3> HIDE DEF inner
    <3>2. SkipElement(w, t) \in {w, inner, Brk(inner, 1)}
      BY Zenon DEF SkipElement, inner
    <3>3. Brk(inner, 1) \in Scanning(X)
      BY <2>1, <3>1, BrkTyped
    <3>4. Scan(w, c) = SkipElement(w, t)
      BY <1>3, <2>2, Zenon DEF Scan, t
    <3> QED BY <3>1, <3>2, <3>3, <3>4
  <2>3. CASE ~(w.depth > 0) /\ t.name \in DropTags /\ ~t.closing
    <3>1. Scan(w, c) = [w EXCEPT !.depth = 1, !.name = t.name]
      BY <1>3, <2>3, Zenon DEF Scan, t
    <3> DEFINE v == [w EXCEPT !.depth = 1]
    <3>2. v \in Scanning(X)
      BY DEF Scanning
    <3>3. Scan(w, c) = [v EXCEPT !.name = t.name]
      BY <3>1
    <3> HIDE DEF v
    <3> QED BY <2>1, <3>2, <3>3 DEF Scanning
  <2>4. CASE ~(w.depth > 0) /\ ~(t.name \in DropTags /\ ~t.closing)
    <3>1. Scan(w, c) = Brk(w, BreakLevel[t.name])
      BY <1>3, <2>4, Zenon DEF Scan, t
    <3> QED BY <2>1, <3>1, BrkTyped
  <2> QED BY <2>2, <2>3, <2>4
<1>4. CASE ~w.comment /\ c # CommentStart /\ c \notin Tags
  <2>1. Scan(w, c) = IF w.depth > 0 THEN w ELSE WriteText(w, c)
    BY <1>4, Zenon DEF Scan
  <2>2. WriteText(w, c) \in Scanning(X)
    BY WriteTextTyped
  <2> QED BY <2>1, <2>2
<1> QED BY <1>1, <1>2, <1>3, <1>4

\* f is the reader after every piece of a body.
Scans(f, X, html) ==
  /\ f \in [0..Len(html) -> Scanning(X)]
  /\ f[0] = Reader
  /\ \A k \in 1..Len(html) : f[k] = Scan(f[k-1], html[k])

\* Plain reads a body one piece after the other.
LEMMA ScanRuns ==
  ASSUME NEW X, NEW html \in Seq(X)
  PROVE  \E f : Scans(f, X, html) /\ FoldLeft(Scan, Reader, html) = f[Len(html)]
<1> DEFINE step == [p \in Scanning(X) \X X |-> Scan(p[1], p[2])]
           Run(g) == [s \in SUBSET DOMAIN html |->
                        IF s = {} THEN Reader ELSE Scan(g[s \ {Max(s)}], html[Max(s)])]
           it == CHOOSE g : g = Run(g)
<1>1. Reader \in Scanning(X)
  BY DEF Reader, Scanning, Pending, Names
<1>2. ASSUME NEW r \in Scanning(X), NEW c \in X PROVE Scan(r, c) \in Scanning(X)
  BY ScanTyped
<1>3. step \in [Scanning(X) \X X -> Scanning(X)]
  BY <1>2
<1>4. DOMAIN html = 1..Len(html) /\ Len(html) \in Nat /\ \A k \in 1..Len(html) : html[k] \in X
  OBVIOUS
<1>5. ASSUME NEW s \in SUBSET DOMAIN html, s # {}, NEW g, g[s \ {Max(s)}] \in Scanning(X)
      PROVE  Folding(step, Reader, html, s, g[s \ {Max(s)}])
               = Scan(g[s \ {Max(s)}], html[Max(s)])
  <2> DEFINE v == g[s \ {Max(s)}]
             c == html[Max(s)]
  <2>1. v \in Scanning(X) /\ c \in X
    BY <1>4, <1>5, MaxOf
  <2> HIDE DEF v, c
  <2>2. step[<<v, c>>] = Scan(v, c)
    BY <2>1
  <2> HIDE DEF step
  <2>3. Folding(step, Reader, html, s, v) = Scan(v, c)
    BY <2>2, <1>5 DEF Folding, c
  <2> QED BY <2>3 DEF v, c
<1>6. \E g : g = Run(g)
  <2>1. PICK g : Tabulates(g, Scanning(X), Reader, html, step)
    <3> HIDE DEF step
    <3> QED BY <1>1, <1>3, FoldExists
  <2>2. ASSUME NEW s \in SUBSET DOMAIN html PROVE g[s] = Run(g)[s]
    <3>1. CASE s = {}
      <4>1. g[s] = Reader
        <5> HIDE DEF step
        <5> QED BY <2>1, <3>1 DEF Folding, Tabulates
      <4> QED BY <3>1, <4>1, Zenon
    <3>2. CASE s # {}
      <4>1. s \ {Max(s)} \in SUBSET DOMAIN html
        OBVIOUS
      <4>2. g[s \ {Max(s)}] \in Scanning(X)
        BY <2>1, <4>1, Zenon DEF Tabulates
      <4>3. g[s] = Scan(g[s \ {Max(s)}], html[Max(s)])
        <5> HIDE DEF step
        <5> QED BY <2>1, <1>5, <3>2, <4>2, Zenon DEF Tabulates
      <4> QED BY <3>2, <4>3, Zenon
    <3> QED BY <3>1, <3>2
  <2>3. g = [s \in SUBSET DOMAIN html |-> g[s]]
    BY <2>1 DEF Tabulates
  <2> QED BY <2>2, <2>3, Zenon
<1>7. it = Run(it)
  <2> HIDE DEF Run
  <2> QED BY <1>6
<1>8. Unfolds(it, Scanning(X), Reader, html, step)
  <2> SUFFICES \A s \in SUBSET DOMAIN html :
        s = {} \/ it[s \ {Max(s)}] \in Scanning(X)
          => it[s] = Folding(step, Reader, html, s, it[s \ {Max(s)}])
    BY Zenon DEF Unfolds
  <2> HIDE DEF it
  <2> TAKE s \in SUBSET DOMAIN html
  <2>1. it[s] = IF s = {} THEN Reader ELSE Scan(it[s \ {Max(s)}], html[Max(s)])
    BY <1>7, Zenon
  <2> HIDE DEF step
  <2>2. CASE s = {}
    BY <2>1, <2>2 DEF Folding
  <2> QED BY <2>1, <2>2, <1>5, Zenon
<1>9. FoldLeft(Scan, Reader, html) = it[DOMAIN html]
  BY Zenon DEF FoldLeft, MapThenFoldSet
<1> HIDE DEF it, step
<1>10. PICK f : Evaluates(f, it, Scanning(X), Reader, html, step)
  BY <1>1, <1>3, <1>8, FoldRuns
<1>11. ASSUME NEW k \in 1..Len(html) PROVE f[k] = Scan(f[k-1], html[k])
  <2>1. f[k-1] \in Scanning(X) /\ html[k] \in X
    BY <1>4, <1>10 DEF Evaluates, Runs
  <2> QED BY <1>10, <2>1 DEF step, Evaluates, Runs
<1>12. Scans(f, X, html)
  BY <1>10, <1>11 DEF Evaluates, Runs, Scans
<1> QED BY <1>9, <1>10, <1>12 DEF Evaluates
-----------------------------------------------------------------------------
(* The index, by its types.                                                *)

\* The characters of a haystack.
Char == Letters \cup {Space}

\* An entry as New is given it.
Document == [title : Seq(STRING), labels : Seq(STRING), body : Seq(STRING)]

\* What New builds: a haystack for every document, postings for some words.
Index == [tokens : Seq(Seq(Char)), postings : UNION {[W -> Seq(Nat)] : W \in SUBSET Word}]

\* The index of no documents.
Bare == [tokens |-> <<>>, postings |-> <<>>]

\* Tokenize gives words, of any text.
LEMMA TokenizeTyped ==
  ASSUME NEW X, NEW text \in Seq(X)
  PROVE  Tokenize(text) \in Seq(Word)
<1>1. PICK f : Reads(f, text) /\ FoldLeft(Read, Unread, text) = f[Len(text)]
  BY ReadRuns
<1> DEFINE r == f[Len(text)]
<1>2. r \in Reading
  BY <1>1 DEF Reads
<1> HIDE DEF r
<1>3. Flush(r).out = IF r.word \in StopWords \cup {<<>>} THEN r.out ELSE Append(r.out, r.word)
  BY DEF Flush
<1>4. r.out \in Seq(Word) /\ (r.word \notin StopWords \cup {<<>>} => r.word \in Word)
  BY <1>2 DEF Reading, Word
<1>5. Flush(r).out \in Seq(Word)
  BY <1>3, <1>4
<1>6. Tokenize(text) = Flush(r).out
  BY <1>1, Zenon DEF Tokenize, Unread, r
<1> QED BY <1>5, <1>6

\* Joined words are letters and spaces.
LEMMA JoinTyped ==
  ASSUME NEW C, Space \in C, NEW texts \in Seq(Seq(C))
  PROVE  Join(texts) \in Seq(C)
<1>1. CASE texts = <<>>
  <2>1. Join(texts) = <<>>
    BY <1>1, Zenon DEF Join
  <2> QED BY <2>1
<1>2. CASE texts # <<>>
  <2> DEFINE base == Head(texts)
             seq == Tail(texts)
  <2>1. base \in Seq(C) /\ seq \in Seq(Seq(C))
    BY <1>2
  <2>2. Join(texts) = FoldLeft(LAMBDA acc, t : acc \o <<Space>> \o t, base, seq)
    BY <1>2, Zenon DEF Join
  <2> HIDE DEF base, seq
  <2>3. PICK f : Glues(f, C, base, seq) /\ FoldLeft(LAMBDA acc, t : acc \o <<Space>> \o t, base, seq) = f[Len(seq)]
    BY <2>1, JoinRuns
  <2>4. Len(seq) \in 0..Len(seq)
    BY <2>1
  <2>5. f[Len(seq)] \in Seq(C)
    BY <2>3, <2>4, Zenon DEF Glues
  <2> QED BY <2>2, <2>3, <2>5, Zenon
<1> QED BY <1>1, <1>2

\* Plain gives a text, of any body.
LEMMA PlainTyped ==
  ASSUME NEW X, NEW html \in Seq(X)
  PROVE  Plain(html) \in Seq(X \cup {Space, NewLine})
<1>1. PICK f : Scans(f, X, html) /\ FoldLeft(Scan, Reader, html) = f[Len(html)]
  BY ScanRuns
<1>2. f[Len(html)] \in Scanning(X)
  BY <1>1 DEF Scans
<1>3. f[Len(html)].out \in Seq(X \cup {Space, NewLine})
  BY <1>2 DEF Scanning
<1> QED BY <1>1, <1>3, Zenon DEF Plain

\* The words of a document and those of its phrases are words.
LEMMA DocumentTyped ==
  ASSUME NEW d \in Document
  PROVE  /\ Phrasing(d) \in Seq(Word)
         /\ Words(d) \in SUBSET Word
         /\ Join(Phrasing(d)) \in Seq(Char)
<1>1. d.title \in Seq(STRING) /\ d.labels \in Seq(STRING) /\ d.body \in Seq(STRING)
  BY DEF Document
<1>2. Tokenize(d.title) \in Seq(Word) /\ Tokenize(d.labels) \in Seq(Word)
  BY <1>1, TokenizeTyped
<1>3. Tokenize(Plain(d.body)) \in Seq(Word)
  BY <1>1, PlainTyped, TokenizeTyped
<1>4. Phrasing(d) \in Seq(Word)
  BY <1>2, <1>3 DEF Phrasing
<1>5. Words(d) \in SUBSET Word
  <2> DEFINE a == Phrasing(d)
             b == Tokenize(d.labels)
  <2>1. a \in Seq(Word) /\ b \in Seq(Word)
    BY <1>2, <1>4
  <2>2. Words(d) = ToSet(a) \cup ToSet(b)
    BY Zenon DEF Words
  <2> HIDE DEF a, b
  <2> QED BY <2>1, <2>2 DEF ToSet
<1>6. Phrasing(d) \in Seq(Seq(Char))
  BY <1>4, SeqMonotonic DEF Word, Char
<1>7. Join(Phrasing(d)) \in Seq(Char)
  <2>1. Space \in Char
    BY DEF Char
  <2> QED BY <1>6, <2>1, JoinTyped
<1> QED BY <1>4, <1>5, <1>7

\* The empty index is one.
LEMMA BareTyped == Bare \in Index
<1>1. <<>> \in [{} -> Seq(Nat)]
  OBVIOUS
<1>2. {} \in SUBSET Word
  OBVIOUS
<1>3. <<>> \in UNION {[W -> Seq(Nat)] : W \in SUBSET Word}
  BY <1>1, <1>2, Zenon
<1>4. <<>> \in Seq(Seq(Char))
  OBVIOUS
<1> QED BY <1>3, <1>4, Zenon DEF Bare, Index

\* A document more, and the index is one: postings stay lists of numbers.
LEMMA AddTyped ==
  ASSUME NEW idx \in Index, NEW d \in Document
  PROVE  AddDocument(idx, d) \in Index
<1> DEFINE D == DOMAIN idx.postings
           W == Words(d)
           j == Join(Phrasing(d))
           p == [w \in D \cup W |->
                   IF w \in W THEN Append(PostingsOf(idx, w), Len(idx.tokens) + 1)
                   ELSE idx.postings[w]]
<1>1. W \in SUBSET Word /\ j \in Seq(Char)
  BY DocumentTyped
<1>2. D \in SUBSET Word /\ idx.postings \in [D -> Seq(Nat)] /\ idx.tokens \in Seq(Seq(Char))
  BY DEF Index
<1>3. ASSUME NEW w PROVE PostingsOf(idx, w) \in Seq(Nat)
  BY <1>2 DEF PostingsOf
<1>4. p \in [D \cup W -> Seq(Nat)]
  <2>1. ASSUME NEW w \in D \cup W PROVE p[w] \in Seq(Nat)
    <3>1. Append(PostingsOf(idx, w), Len(idx.tokens) + 1) \in Seq(Nat)
      BY <1>2, <1>3
    <3>2. w \notin W => idx.postings[w] \in Seq(Nat)
      BY <1>2
    <3> QED BY <3>1, <3>2
  <2> QED BY <2>1
<1>5. AddDocument(idx, d) = [tokens |-> Append(idx.tokens, j), postings |-> p]
  BY Zenon DEF AddDocument
<1> HIDE DEF p, D, W, j
<1>6. p \in UNION {[V -> Seq(Nat)] : V \in SUBSET Word}
  <2>1. D \cup W \in SUBSET Word
    BY <1>1, <1>2
  <2> QED BY <1>4, <2>1, Zenon
<1>7. Append(idx.tokens, j) \in Seq(Seq(Char))
  BY <1>1, <1>2
<1>8. Append(idx.tokens, j) \in Seq(Seq(Char)) /\ p \in UNION {[V -> Seq(Nat)] : V \in SUBSET Word}
        => [tokens |-> Append(idx.tokens, j), postings |-> p] \in Index
  BY Zenon DEF Index
<1> QED BY <1>5, <1>6, <1>7, <1>8, Zenon

\* f is the index after every document.
Builds(f, entries) ==
  /\ f \in [0..Len(entries) -> Index]
  /\ f[0] = Bare
  /\ \A k \in 1..Len(entries) : f[k] = AddDocument(f[k-1], entries[k])

\* New adds the documents one after the other.
LEMMA NewRuns ==
  ASSUME NEW entries \in Seq(Document)
  PROVE  \E f : Builds(f, entries) /\ FoldLeft(AddDocument, Bare, entries) = f[Len(entries)]
<1> DEFINE step == [p \in Index \X Document |-> AddDocument(p[1], p[2])]
           Run(g) == [s \in SUBSET DOMAIN entries |->
                        IF s = {} THEN Bare ELSE AddDocument(g[s \ {Max(s)}], entries[Max(s)])]
           it == CHOOSE g : g = Run(g)
<1>1. Bare \in Index
  BY BareTyped
<1>2. ASSUME NEW r \in Index, NEW c \in Document PROVE AddDocument(r, c) \in Index
  BY AddTyped
<1>3. step \in [Index \X Document -> Index]
  BY <1>2
<1>4. DOMAIN entries = 1..Len(entries) /\ Len(entries) \in Nat /\ \A k \in 1..Len(entries) : entries[k] \in Document
  OBVIOUS
<1>5. ASSUME NEW s \in SUBSET DOMAIN entries, s # {}, NEW g, g[s \ {Max(s)}] \in Index
      PROVE  Folding(step, Bare, entries, s, g[s \ {Max(s)}])
               = AddDocument(g[s \ {Max(s)}], entries[Max(s)])
  <2> DEFINE v == g[s \ {Max(s)}]
             c == entries[Max(s)]
  <2>1. v \in Index /\ c \in Document
    BY <1>4, <1>5, MaxOf
  <2> HIDE DEF v, c
  <2>2. step[<<v, c>>] = AddDocument(v, c)
    BY <2>1
  <2> HIDE DEF step
  <2>3. Folding(step, Bare, entries, s, v) = AddDocument(v, c)
    BY <2>2, <1>5 DEF Folding, c
  <2> QED BY <2>3 DEF v, c
<1>6. \E g : g = Run(g)
  <2>1. PICK g : Tabulates(g, Index, Bare, entries, step)
    <3> HIDE DEF step
    <3> QED BY <1>1, <1>3, FoldExists
  <2>2. ASSUME NEW s \in SUBSET DOMAIN entries PROVE g[s] = Run(g)[s]
    <3>1. CASE s = {}
      <4>1. g[s] = Bare
        <5> HIDE DEF step
        <5> QED BY <2>1, <3>1 DEF Folding, Tabulates
      <4> QED BY <3>1, <4>1, Zenon
    <3>2. CASE s # {}
      <4>1. s \ {Max(s)} \in SUBSET DOMAIN entries
        OBVIOUS
      <4>2. g[s \ {Max(s)}] \in Index
        BY <2>1, <4>1, Zenon DEF Tabulates
      <4>3. g[s] = AddDocument(g[s \ {Max(s)}], entries[Max(s)])
        <5> HIDE DEF step
        <5> QED BY <2>1, <1>5, <3>2, <4>2, Zenon DEF Tabulates
      <4> QED BY <3>2, <4>3, Zenon
    <3> QED BY <3>1, <3>2
  <2>3. g = [s \in SUBSET DOMAIN entries |-> g[s]]
    BY <2>1 DEF Tabulates
  <2> QED BY <2>2, <2>3, Zenon
<1>7. it = Run(it)
  <2> HIDE DEF Run
  <2> QED BY <1>6
<1>8. Unfolds(it, Index, Bare, entries, step)
  <2> SUFFICES \A s \in SUBSET DOMAIN entries :
        s = {} \/ it[s \ {Max(s)}] \in Index
          => it[s] = Folding(step, Bare, entries, s, it[s \ {Max(s)}])
    BY Zenon DEF Unfolds
  <2> HIDE DEF it
  <2> TAKE s \in SUBSET DOMAIN entries
  <2>1. it[s] = IF s = {} THEN Bare ELSE AddDocument(it[s \ {Max(s)}], entries[Max(s)])
    BY <1>7, Zenon
  <2> HIDE DEF step
  <2>2. CASE s = {}
    BY <2>1, <2>2 DEF Folding
  <2> QED BY <2>1, <2>2, <1>5, Zenon
<1>9. FoldLeft(AddDocument, Bare, entries) = it[DOMAIN entries]
  BY Zenon DEF FoldLeft, MapThenFoldSet
<1> HIDE DEF it, step
<1>10. PICK f : Evaluates(f, it, Index, Bare, entries, step)
  BY <1>1, <1>3, <1>8, FoldRuns
<1>11. ASSUME NEW k \in 1..Len(entries) PROVE f[k] = AddDocument(f[k-1], entries[k])
  <2>1. f[k-1] \in Index /\ entries[k] \in Document
    BY <1>4, <1>10 DEF Evaluates, Runs
  <2> QED BY <1>10, <2>1 DEF step, Evaluates, Runs
<1>12. Builds(f, entries)
  BY <1>10, <1>11 DEF Evaluates, Runs, Builds
<1> QED BY <1>9, <1>10, <1>12 DEF Evaluates
-----------------------------------------------------------------------------
(* The index, by what it holds.                                            *)

\* post lists the numbers of S in increasing order.
Lists(post, S) ==
  /\ post \in Seq(Nat)
  /\ \A i \in 1..Len(post) : post[i] \in S
  /\ \A x \in S : \E i \in 1..Len(post) : post[i] = x
  /\ \A i, j \in 1..Len(post) : i < j => post[i] < post[j]

\* The first k documents that have the word w.
Holding(entries, k, w) == {d \in 1..k : w \in Words(entries[d])}

\* idx is right about the first k documents.
Indexed(idx, entries, k) ==
  /\ idx \in Index
  /\ Len(idx.tokens) = k
  /\ \A d \in 1..k : idx.tokens[d] = Join(Phrasing(entries[d]))
  /\ \A w : Lists(PostingsOf(idx, w), Holding(entries, k, w))

\* A list of some of the first numbers, with the next one appended, is in order.
LEMMA ListsMore ==
  ASSUME NEW k \in Nat \ {0}, NEW S \in SUBSET (1..k-1), NEW post, Lists(post, S)
  PROVE  Lists(Append(post, k), S \cup {k})
<1>1. post \in Seq(Nat) /\ Len(post) \in Nat
  BY DEF Lists
<1> DEFINE n == Len(post)
           q == Append(post, k)
<1>2. q \in Seq(Nat) /\ Len(q) = n + 1 /\ q[n + 1] = k /\ \A i \in 1..n : q[i] = post[i]
  BY <1>1
<1>3. n \in Nat
  BY <1>1
<1>4. /\ \A i \in 1..n : post[i] \in S
      /\ \A x \in S : \E i \in 1..n : post[i] = x
      /\ \A i, j \in 1..n : i < j => post[i] < post[j]
  BY DEF Lists
<1> HIDE DEF q, n
<1>5. \A i \in 1..n+1 : q[i] \in S \cup {k}
  BY <1>2, <1>3, <1>4
<1>6. \A x \in S \cup {k} : \E i \in 1..n+1 : q[i] = x
  <2> TAKE x \in S \cup {k}
  <2>1. CASE x = k
    BY <1>2, <1>3, <2>1
  <2>2. CASE x \in S
    <3>1. PICK i \in 1..n : post[i] = x
      BY <1>4, <2>2
    <3>2. i \in 1..n+1 /\ q[i] = x
      BY <1>2, <1>3, <3>1
    <3> QED BY <3>2
  <2> QED BY <2>1, <2>2
<1>7. \A i, j \in 1..n+1 : i < j => q[i] < q[j]
  <2> SUFFICES ASSUME NEW i \in 1..n+1, NEW j \in 1..n+1, i < j PROVE q[i] < q[j]
    OBVIOUS
  <2>1. i \in 1..n /\ q[i] = post[i]
    BY <1>2, <1>3
  <2>2. CASE j = n + 1
    <3>1. q[j] = k /\ post[i] \in 1..k-1
      BY <1>2, <1>4, <2>1, <2>2
    <3> QED BY <2>1, <3>1
  <2>3. CASE j \in 1..n
    BY <1>2, <1>4, <2>1, <2>3
  <2> QED BY <1>3, <2>2, <2>3
<1> QED BY <1>2, <1>5, <1>6, <1>7 DEF Lists, q

\* The empty index is right about no documents.
LEMMA BareIndexed ==
  ASSUME NEW entries
  PROVE  Indexed(Bare, entries, 0)
<1>1. Bare.tokens = <<>> /\ Bare.postings = <<>>
  BY DEF Bare
<1>2. Len(<<>>) = 0 /\ 1..0 = {}
  OBVIOUS
<1>3. ASSUME NEW w PROVE Lists(PostingsOf(Bare, w), Holding(entries, 0, w))
  <2>1. PostingsOf(Bare, w) = <<>>
    <3>1. w \notin DOMAIN Bare.postings
      BY <1>1
    <3> QED BY <3>1, Zenon DEF PostingsOf
  <2>2. Holding(entries, 0, w) = {}
    BY <1>2 DEF Holding
  <2>3. Lists(<<>>, {})
    BY DEF Lists
  <2> QED BY <2>1, <2>2, <2>3, Zenon
<1>4. Len(Bare.tokens) = 0
  BY <1>1
<1>5. \A d \in 1..0 : Bare.tokens[d] = Join(Phrasing(entries[d]))
  BY <1>2, Zenon
<1> QED BY <1>3, <1>4, <1>5, BareTyped, Zenon DEF Indexed

\* AddDocument keeps the index right: the postings of the words the document
\* has grow by its number, the others stay.
LEMMA AddIndexed ==
  ASSUME NEW entries \in Seq(Document), NEW k \in 1..Len(entries),
         NEW idx, Indexed(idx, entries, k - 1)
  PROVE  Indexed(AddDocument(idx, entries[k]), entries, k)
<1> DEFINE d == entries[k]
           D == DOMAIN idx.postings
           W == Words(d)
           j == Join(Phrasing(d))
           p == [w \in D \cup W |->
                   IF w \in W THEN Append(PostingsOf(idx, w), Len(idx.tokens) + 1)
                   ELSE idx.postings[w]]
           new == AddDocument(idx, d)
<1>1. k \in Nat \ {0} /\ k - 1 \in Nat /\ d \in Document /\ (k - 1) + 1 = k
  OBVIOUS
<1>2. idx \in Index /\ Len(idx.tokens) = k - 1 /\ idx.tokens \in Seq(Seq(Char))
      /\ j \in Seq(Char)
  BY <1>1, DocumentTyped DEF Indexed, Index
<1>3. new.tokens = Append(idx.tokens, j) /\ new.postings = p
  BY DEF AddDocument
<1>4. new \in Index
  BY <1>1, <1>2, AddTyped
<1>5. Len(new.tokens) = k
  BY <1>1, <1>2, <1>3
<1>6. ASSUME NEW e \in 1..k PROVE new.tokens[e] = Join(Phrasing(entries[e]))
  <2> HIDE DEF new, j
  <2>1. CASE e = k
    <3>1. new.tokens[k] = j
      BY <1>1, <1>2, <1>3
    <3> QED BY <2>1, <3>1 DEF j
  <2>2. CASE e # k
    <3>1. e \in 1..k-1
      BY <1>1, <2>2
    <3>2. new.tokens[e] = idx.tokens[e]
      BY <1>1, <1>2, <1>3, <3>1
    <3> QED BY <3>1, <3>2 DEF Indexed
  <2> QED BY <2>1, <2>2
<1>7. ASSUME NEW w PROVE Lists(PostingsOf(new, w), Holding(entries, k, w))
  <2> HIDE DEF new
  <2> DEFINE S == Holding(entries, k - 1, w)
  <2>1. Lists(PostingsOf(idx, w), S)
    BY DEF Indexed
  <2>2. S \in SUBSET (1..k-1)
    BY DEF Holding
  <2>3. CASE w \in W
    <3>1. PostingsOf(new, w) = Append(PostingsOf(idx, w), k)
      <4>1. w \in DOMAIN new.postings /\ new.postings[w] = Append(PostingsOf(idx, w), Len(idx.tokens) + 1)
        BY <1>3, <2>3, Zenon
      <4>2. Len(idx.tokens) + 1 = k
        BY <1>1, <1>2
      <4> QED BY <4>1, <4>2, Zenon DEF PostingsOf
    <3>2. Holding(entries, k, w) = S \cup {k}
      <4> HIDE DEF W
      <4>1. w \in Words(entries[k])
        BY <2>3 DEF W
      <4> QED BY <1>1, <4>1 DEF Holding
    <3> HIDE DEF S
    <3>3. Lists(Append(PostingsOf(idx, w), k), S \cup {k})
      BY <1>1, <2>1, <2>2, ListsMore
    <3> QED BY <3>1, <3>2, <3>3, Zenon
  <2>4. CASE w \notin W
    <3>1. PostingsOf(new, w) = PostingsOf(idx, w)
      <4>1. DOMAIN new.postings = D \cup W /\ (w \in D => new.postings[w] = idx.postings[w])
        BY <1>3, <2>4, Zenon
      <4> QED BY <2>4, <4>1, Zenon DEF PostingsOf
    <3>2. Holding(entries, k, w) = S
      <4> HIDE DEF W
      <4>1. w \notin Words(entries[k])
        BY <2>4 DEF W
      <4> QED BY <1>1, <4>1 DEF Holding
    <3> QED BY <2>1, <3>1, <3>2, Zenon
  <2> QED BY <2>3, <2>4
<1> HIDE DEF new
<1> QED BY <1>4, <1>5, <1>6, <1>7, Zenon DEF Indexed, new

\* The index holds what the documents say, term by term.
LEMMA NewIndexed ==
  ASSUME NEW entries \in Seq(Document)
  PROVE  Indexed(New(entries), entries, Len(entries))
<1> DEFINE n == Len(entries)
<1>1. PICK f : Builds(f, entries) /\ FoldLeft(AddDocument, Bare, entries) = f[Len(entries)]
  BY NewRuns
<1> DEFINE S == {k \in 0..n : Indexed(f[k], entries, k)}
<1>2. n \in Nat
  OBVIOUS
<1>3. 0 \in S
  <2>1. Indexed(f[0], entries, 0)
    BY <1>1, BareIndexed, Zenon DEF Builds
  <2> QED BY <1>2, <2>1
<1>4. ASSUME NEW k \in 1..n, k - 1 \in S PROVE k \in S
  <2>1. Indexed(f[k-1], entries, k-1)
    BY <1>4
  <2>2. Indexed(AddDocument(f[k-1], entries[k]), entries, k)
    BY <2>1, AddIndexed
  <2>3. f[k] = AddDocument(f[k-1], entries[k])
    BY <1>1 DEF Builds
  <2> QED BY <1>2, <2>2, <2>3
<1> HIDE DEF S, n
<1>5. \A k \in 0..n : k \in S
  BY <1>2, <1>3, <1>4, Inductive
<1>6. Indexed(f[n], entries, n)
  BY <1>2, <1>5 DEF S
<1>7. New(entries) = f[n]
  BY <1>1, Zenon DEF New, Bare, n
<1> QED BY <1>6, <1>7 DEF n
-----------------------------------------------------------------------------
(* The search of the postings.                                             *)

\* m parts the places of post between lo and hi: d comes after the ones before
\* it and not after the others.
Cut(post, d, lo, hi, m) ==
  /\ m \in lo..hi
  /\ \A i \in lo+1..m : post[i] < d
  /\ \A i \in m+1..hi : post[i] >= d

\* The postings of a term, as the search of them needs them.
Rising(post) == \A i, j \in 1..Len(post) : i < j => post[i] < post[j]

\* There is a place that parts the postings.
LEMMA CutExists ==
  ASSUME NEW post \in Seq(Nat), Rising(post), NEW d \in Nat,
         NEW lo \in 0..Len(post), NEW hi \in 0..Len(post), lo <= hi
  PROVE  \E m : Cut(post, d, lo, hi, m)
<1> DEFINE K == {m \in lo..hi : \A i \in m+1..hi : post[i] >= d}
<1>1. hi \in K /\ K \subseteq Nat
  OBVIOUS
<1> HIDE DEF K
<1>2. PICK m \in K : \A l \in K : m <= l
  BY <1>1, Least
<1>3. m \in lo..hi /\ \A i \in m+1..hi : post[i] >= d
  BY DEF K
<1>4. ASSUME NEW i \in lo+1..m PROVE post[i] < d
  <2>1. m - 1 \in lo..hi /\ m \in 1..Len(post) /\ i \in 1..Len(post) /\ i <= m
    BY <1>3
  <2>2. m - 1 \notin K
    BY <1>2, <2>1
  <2>3. PICK j \in m..hi : ~(post[j] >= d)
    BY <2>1, <2>2 DEF K
  <2>4. j = m
    <3>1. j \notin m+1..hi
      BY <1>3, <2>3
    <3> QED BY <1>3, <3>1
  <2>5. post[m] < d /\ post[m] \in Nat /\ post[i] \in Nat
    BY <2>1, <2>3, <2>4
  <2>6. i < m => post[i] < post[m]
    BY <2>1 DEF Rising
  <2> QED BY <2>1, <2>5, <2>6
<1> QED BY <1>3, <1>4 DEF Cut

\* And only one.
LEMMA CutUnique ==
  ASSUME NEW post \in Seq(Nat), NEW d \in Nat,
         NEW lo \in 0..Len(post), NEW hi \in 0..Len(post),
         NEW m, Cut(post, d, lo, hi, m), NEW l, Cut(post, d, lo, hi, l)
  PROVE  m = l
<1>1. ASSUME NEW a \in lo..hi, NEW b \in lo..hi, a < b,
             \A i \in lo+1..b : post[i] < d, \A i \in a+1..hi : post[i] >= d
      PROVE  FALSE
  <2>1. a + 1 \in lo+1..b /\ a + 1 \in a+1..hi /\ a + 1 \in 1..Len(post)
    BY <1>1
  <2>2. post[a+1] < d /\ post[a+1] >= d /\ post[a+1] \in Nat
    BY <1>1, <2>1
  <2> QED BY <2>2
<1>2. m \in lo..hi /\ l \in lo..hi
  BY DEF Cut
<1>3. ~(m < l)
  BY <1>1, <1>2 DEF Cut
<1>4. ~(l < m)
  BY <1>1, <1>2 DEF Cut
<1> QED BY <1>2, <1>3, <1>4

\* Where the middle is on the right side, the cut is in the left half, and the
\* other way round; both halves are shorter.
LEMMA Halves ==
  ASSUME NEW post \in Seq(Nat), Rising(post), NEW d \in Nat,
         NEW lo \in 0..Len(post), NEW hi \in 0..Len(post), lo < hi,
         NEW mid, mid = (lo + hi) \div 2
  PROVE  /\ mid \in lo..hi-1 /\ mid \in 0..Len(post) /\ mid + 1 \in 0..Len(post)
         /\ post[mid + 1] >= d =>
              \A m : Cut(post, d, lo, mid, m) => Cut(post, d, lo, hi, m)
         /\ ~(post[mid + 1] >= d) =>
              \A m : Cut(post, d, mid + 1, hi, m) => Cut(post, d, lo, hi, m)
<1>1. mid \in lo..hi-1
  OBVIOUS
<1>2. mid \in 0..Len(post) /\ mid + 1 \in 0..Len(post) /\ mid + 1 \in 1..Len(post)
  BY <1>1
<1>3. \A i \in 1..Len(post) : post[i] \in Nat
  OBVIOUS
<1>4. ASSUME post[mid + 1] >= d, NEW m, Cut(post, d, lo, mid, m)
      PROVE  Cut(post, d, lo, hi, m)
  <2>1. m \in lo..mid /\ (\A i \in lo+1..m : post[i] < d) /\ \A i \in m+1..mid : post[i] >= d
    BY <1>4 DEF Cut
  <2>2. ASSUME NEW i \in m+1..hi PROVE post[i] >= d
    <3>1. CASE i <= mid
      BY <2>1, <3>1, <1>1
    <3>2. CASE i > mid
      <4>1. i \in 1..Len(post) /\ (i = mid + 1 \/ mid + 1 < i)
        BY <1>1, <2>1, <3>2
      <4>2. post[i] \in Nat /\ post[mid + 1] \in Nat
        BY <1>2, <1>3, <4>1, Zenon
      <4>3. mid + 1 < i => post[mid + 1] < post[i]
        BY <1>2, <4>1 DEF Rising
      <4> QED BY <1>4, <4>1, <4>2, <4>3
    <3> QED BY <1>1, <2>1, <3>1, <3>2
  <2>3. m \in lo..hi
    BY <1>1, <2>1
  <2> QED BY <2>1, <2>2, <2>3 DEF Cut
<1>5. ASSUME ~(post[mid + 1] >= d), NEW m, Cut(post, d, mid + 1, hi, m)
      PROVE  Cut(post, d, lo, hi, m)
  <2>1. /\ m \in mid+1..hi
        /\ \A i \in (mid+1)+1..m : post[i] < d
        /\ \A i \in m+1..hi : post[i] >= d
    BY <1>5 DEF Cut
  <2>2. ASSUME NEW i \in lo+1..m PROVE post[i] < d
    <3>1. CASE i > mid + 1
      <4>1. i \in (mid+1)+1..m
        BY <1>1, <2>1, <3>1
      <4> QED BY <2>1, <4>1
    <3>2. CASE i <= mid + 1
      <4>1. i \in 1..Len(post) /\ (i = mid + 1 \/ i < mid + 1)
        BY <1>1, <2>1, <3>2
      <4>2. post[i] \in Nat /\ post[mid + 1] \in Nat
        BY <1>2, <1>3, <4>1, Zenon
      <4>3. i < mid + 1 => post[i] < post[mid + 1]
        BY <1>2, <4>1 DEF Rising
      <4> QED BY <1>5, <4>1, <4>2, <4>3
    <3> QED BY <1>1, <2>1, <3>1, <3>2
  <2>3. m \in lo..hi
    BY <1>1, <2>1
  <2> QED BY <2>1, <2>2, <2>3 DEF Cut
<1> QED BY <1>1, <1>2, <1>4, <1>5

\* b is what HoldsTerm defines its search by.
Bisects(b, post, d) ==
  LET n == Len(post)
  IN  b = [span \in (0..n) \X (0..n) |->
            LET lo == span[1]
                hi == span[2]
                mid == (lo + hi) \div 2
            IN  IF lo >= hi THEN lo
                ELSE IF post[mid + 1] >= d THEN b[<<lo, mid>>] ELSE b[<<mid + 1, hi>>]]

\* The search comes to an end between any two places: the function exists.
LEMMA BisectExists ==
  ASSUME NEW post \in Seq(Nat), Rising(post), NEW d \in Nat
  PROVE  \E b : Bisects(b, post, d)
<1> DEFINE n == Len(post)
           b == [span \in (0..n) \X (0..n) |->
                   IF span[1] >= span[2] THEN span[1]
                   ELSE CHOOSE m : Cut(post, d, span[1], span[2], m)]
           Body(lo, hi) ==
             IF lo >= hi THEN lo
             ELSE LET mid == (lo + hi) \div 2
                  IN  IF post[mid + 1] >= d THEN b[<<lo, mid>>] ELSE b[<<mid + 1, hi>>]
<1>1. n \in Nat
  OBVIOUS
<1>2. ASSUME NEW lo \in 0..n, NEW hi \in 0..n, lo <= hi PROVE Cut(post, d, lo, hi, b[<<lo, hi>>])
  <2>1. CASE lo = hi
    <3>1. b[<<lo, hi>>] = lo
      BY <2>1
    <3>2. Cut(post, d, lo, hi, lo)
      BY <2>1, <1>1 DEF Cut
    <3> QED BY <3>1, <3>2, Zenon
  <2>2. CASE lo < hi
    <3>1. b[<<lo, hi>>] = CHOOSE m : Cut(post, d, lo, hi, m)
      BY <2>2
    <3>2. \E m : Cut(post, d, lo, hi, m)
      BY <2>2, CutExists
    <3> QED BY <3>1, <3>2, Zenon
  <2> QED BY <1>2, <2>1, <2>2
<1>3. ASSUME NEW lo \in 0..n, NEW hi \in 0..n PROVE b[<<lo, hi>>] = Body(lo, hi)
  <2>1. CASE lo >= hi
    BY <2>1
  <2>2. CASE lo < hi
    <3> DEFINE mid == (lo + hi) \div 2
    <3>1. /\ mid \in 0..n /\ mid + 1 \in 0..n /\ lo <= mid /\ mid + 1 <= hi
          /\ post[mid + 1] >= d =>
               \A m : Cut(post, d, lo, mid, m) => Cut(post, d, lo, hi, m)
          /\ ~(post[mid + 1] >= d) =>
               \A m : Cut(post, d, mid + 1, hi, m) => Cut(post, d, lo, hi, m)
      <4> HIDE DEF mid
      <4>1. mid = (lo + hi) \div 2
        BY DEF mid
      <4>2. /\ mid \in lo..hi-1 /\ mid \in 0..Len(post) /\ mid + 1 \in 0..Len(post)
            /\ post[mid + 1] >= d =>
                 \A m : Cut(post, d, lo, mid, m) => Cut(post, d, lo, hi, m)
            /\ ~(post[mid + 1] >= d) =>
                 \A m : Cut(post, d, mid + 1, hi, m) => Cut(post, d, lo, hi, m)
        BY <2>2, <4>1, Halves
      <4> QED BY <4>2
    <3>2. Body(lo, hi) = IF post[mid + 1] >= d THEN b[<<lo, mid>>] ELSE b[<<mid + 1, hi>>]
      BY <2>2
    <3> HIDE DEF b, mid, Body
    <3>3. Cut(post, d, lo, hi, b[<<lo, hi>>])
      BY <1>2, <2>2
    <3>4. Cut(post, d, lo, hi, Body(lo, hi))
      <4>1. CASE post[mid + 1] >= d
        <5>1. Cut(post, d, lo, mid, b[<<lo, mid>>])
          BY <1>2, <3>1
        <5> QED BY <3>1, <3>2, <4>1, <5>1, Zenon
      <4>2. CASE ~(post[mid + 1] >= d)
        <5>1. Cut(post, d, mid + 1, hi, b[<<mid + 1, hi>>])
          BY <1>2, <3>1
        <5> QED BY <3>1, <3>2, <4>2, <5>1, Zenon
      <4> QED BY <4>1, <4>2
    <3> HIDE DEF n
    <3>5. lo \in 0..Len(post) /\ hi \in 0..Len(post)
      BY DEF n
    <3> QED BY <3>3, <3>4, <3>5, CutUnique
  <2> QED BY <2>1, <2>2
<1>4. b = [span \in (0..n) \X (0..n) |-> b[span]]
  OBVIOUS
<1>5. b = [span \in (0..n) \X (0..n) |-> Body(span[1], span[2])]
  <2> HIDE DEF b, Body
  <2>1. ASSUME NEW span \in (0..n) \X (0..n) PROVE b[span] = Body(span[1], span[2])
    <3>1. span[1] \in 0..n /\ span[2] \in 0..n /\ span = <<span[1], span[2]>>
      OBVIOUS
    <3> QED BY <1>3, <3>1, Zenon
  <2> QED BY <1>4, <2>1, Zenon
<1>6. Bisects(b, post, d)
  <2> HIDE DEF b
  <2> QED BY <1>5, Zenon DEF Bisects
<1> QED BY <1>6

\* It ends at the cut.
LEMMA BisectCuts ==
  ASSUME NEW post \in Seq(Nat), Rising(post), NEW d \in Nat, NEW b, Bisects(b, post, d)
  PROVE  Cut(post, d, 0, Len(post), b[<<0, Len(post)>>])
<1> DEFINE n == Len(post)
           Good(k) == \A lo, hi \in 0..n : lo <= hi /\ hi - lo <= k => Cut(post, d, lo, hi, b[<<lo, hi>>])
           S == {k \in 0..n : Good(k)}
<1>1. n \in Nat
  OBVIOUS
<1>2. \A lo, hi \in 0..n : b[<<lo, hi>>] =
        IF lo >= hi THEN lo
        ELSE LET mid == (lo + hi) \div 2
             IN  IF post[mid + 1] >= d THEN b[<<lo, mid>>] ELSE b[<<mid + 1, hi>>]
  BY DEF Bisects
<1>3. ASSUME NEW lo \in 0..n PROVE Cut(post, d, lo, lo, b[<<lo, lo>>])
  <2>1. b[<<lo, lo>>] = lo
    <3>1. lo >= lo
      BY <1>1
    <3> QED BY <1>2, <3>1, Zenon
  <2>2. Cut(post, d, lo, lo, lo)
    BY DEF Cut
  <2> QED BY <2>1, <2>2, Zenon
<1>4. Good(0)
  <2> SUFFICES ASSUME NEW lo \in 0..n, NEW hi \in 0..n, lo <= hi /\ hi - lo <= 0
               PROVE  Cut(post, d, lo, hi, b[<<lo, hi>>])
    OBVIOUS
  <2>1. lo = hi
    OBVIOUS
  <2> QED BY <1>3, <2>1, Zenon
<1>5. ASSUME NEW k \in 1..n, Good(k - 1) PROVE Good(k)
  <2> SUFFICES ASSUME NEW lo \in 0..n, NEW hi \in 0..n, lo <= hi /\ hi - lo <= k
               PROVE  Cut(post, d, lo, hi, b[<<lo, hi>>])
    OBVIOUS
  <2>1. CASE lo = hi
    BY <1>3, <2>1, Zenon
  <2>2. CASE lo < hi
    <3>1. PICK mid : mid = (lo + hi) \div 2
      OBVIOUS
    <3>2. b[<<lo, hi>>] = IF post[mid + 1] >= d THEN b[<<lo, mid>>] ELSE b[<<mid + 1, hi>>]
      BY <1>2, <2>2, <3>1
    <3>3. /\ mid \in lo..hi-1 /\ mid \in 0..Len(post) /\ mid + 1 \in 0..Len(post)
          /\ post[mid + 1] >= d =>
               \A m : Cut(post, d, lo, mid, m) => Cut(post, d, lo, hi, m)
          /\ ~(post[mid + 1] >= d) =>
               \A m : Cut(post, d, mid + 1, hi, m) => Cut(post, d, lo, hi, m)
      BY <2>2, <3>1, Halves
    <3> HIDE <3>1
    <3>4. CASE post[mid + 1] >= d
      <4>1. lo <= mid /\ mid - lo <= k - 1 /\ mid \in 0..n
        BY <3>3, <1>1
      <4>2. Cut(post, d, lo, mid, b[<<lo, mid>>])
        BY <1>5, <4>1
      <4> QED BY <3>2, <3>3, <3>4, <4>2, Zenon
    <3>5. CASE ~(post[mid + 1] >= d)
      <4>1. mid + 1 <= hi /\ hi - (mid + 1) <= k - 1 /\ mid + 1 \in 0..n
        BY <3>3, <1>1
      <4>2. Cut(post, d, mid + 1, hi, b[<<mid + 1, hi>>])
        BY <1>5, <4>1
      <4> QED BY <3>2, <3>3, <3>5, <4>2, Zenon
    <3> QED BY <3>4, <3>5
  <2> QED BY <2>1, <2>2
<1> HIDE DEF Good
<1>6. 0 \in S /\ \A k \in 1..n : k - 1 \in S => k \in S
  BY <1>1, <1>4, <1>5
<1> HIDE DEF S
<1>7. \A k \in 0..n : k \in S
  BY <1>1, <1>6, Inductive
<1>8. Good(n)
  BY <1>1, <1>7 DEF S
<1> QED BY <1>1, <1>8 DEF Good

\* The bisected postings of a term hold the documents that have it.
LEMMA HoldsTermRight ==
  ASSUME NEW idx, NEW d \in Nat, NEW w, NEW S, Lists(PostingsOf(idx, w), S)
  PROVE  HoldsTerm(idx, d, w) <=> d \in S
<1> DEFINE post == PostingsOf(idx, w)
           n == Len(post)
           b == CHOOSE b : Bisects(b, post, d)
           i == b[<<0, n>>]
<1>1. post \in Seq(Nat) /\ Rising(post) /\ n \in Nat
  BY DEF Lists, Rising
<1>2. HoldsTerm(idx, d, w) <=> i < n /\ post[i + 1] = d
  BY DEF HoldsTerm, Bisects
<1> HIDE DEF post
<1>3. Bisects(b, post, d)
  <2>1. \E c : Bisects(c, post, d)
    BY <1>1, BisectExists
  <2> QED BY <2>1
<1>4. Cut(post, d, 0, n, i)
  <2> HIDE DEF b
  <2> QED BY <1>1, <1>3, BisectCuts
<1> HIDE DEF b, i
<1>5. /\ i \in 0..n
      /\ \A j \in 1..i : post[j] < d
      /\ \A j \in i+1..n : post[j] >= d
  BY <1>4 DEF Cut
<1>6. ASSUME i < n /\ post[i + 1] = d PROVE d \in S
  <2>1. i + 1 \in 1..Len(post)
    BY <1>1, <1>5, <1>6
  <2> QED BY <1>6, <2>1 DEF Lists, post
<1>7. ASSUME d \in S PROVE i < n /\ post[i + 1] = d
  <2>1. PICK x \in 1..n : post[x] = d
    BY <1>7 DEF Lists, post
  <2>2. ~(post[x] < d)
    BY <2>1
  <2>3. ~(x \in 1..i)
    BY <1>5, <2>2
  <2>4. i + 1 <= x /\ i < n /\ i + 1 \in 1..n
    BY <1>1, <1>5, <2>3
  <2>5. post[i + 1] >= d /\ post[i + 1] \in Nat
    BY <1>1, <1>5, <2>4
  <2>6. i + 1 < x => post[i + 1] < post[x]
    BY <1>1, <2>4 DEF Rising
  <2> QED BY <1>5, <2>1, <2>4, <2>5, <2>6
<1> QED BY <1>2, <1>6, <1>7
-----------------------------------------------------------------------------
(* Joined words.                                                           *)

\* text is the first n texts of ts, each between the blanks at two places of p.
Laid(text, ts, n, p) ==
  /\ p \in [1..n+1 -> 1..Len(text)]
  /\ p[1] = 1 /\ p[n+1] = Len(text)
  /\ \A k \in 1..n : p[k+1] = p[k] + Len(ts[k]) + 1
  /\ \A k \in 1..n+1 : text[p[k]] = Space
  /\ \A k \in 1..n : \A j \in 1..Len(ts[k]) : text[p[k] + j] = ts[k][j]
  /\ \A i \in 1..Len(text) : \/ \E k \in 1..n+1 : i = p[k]
                             \/ \E k \in 1..n : \E j \in 1..Len(ts[k]) : i = p[k] + j

\* A place inside a word is a place of the text.
LEMMA Between ==
  ASSUME NEW l \in Nat, NEW m \in Nat, NEW x \in 1..l, x + m + 1 \in 1..l, NEW j \in 1..m
  PROVE  x + j \in 1..l
OBVIOUS

\* A text with a space after it.
LEMMA OneMore ==
  ASSUME NEW C, Space \in C, NEW u \in Seq(C)
  PROVE  /\ Len(u \o <<Space>>) = Len(u) + 1
         /\ (u \o <<Space>>)[Len(u) + 1] = Space
         /\ \A i \in 1..Len(u) : (u \o <<Space>>)[i] = u[i]
<1>1. Len(<<Space>>) = 1 /\ <<Space>>[1] = Space /\ <<Space>> \in Seq(C) /\ Len(u) \in Nat
  OBVIOUS
<1> QED BY <1>1

\* No words: one space.
LEMMA LaidNone ==
  ASSUME NEW ts
  PROVE  \E p : Laid(<<Space>>, ts, 0, p)
<1> DEFINE p == [k \in 1..1 |-> 1]
<1>1. Len(<<Space>>) = 1 /\ <<Space>>[1] = Space
  OBVIOUS
<1>2. p \in [1..1 -> 1..1] /\ p[1] = 1
  OBVIOUS
<1> HIDE DEF p
<1>3. \A i \in 1..1 : \E k \in 1..1 : i = p[k]
  BY <1>2
<1>4. Laid(<<Space>>, ts, 0, p)
  BY <1>1, <1>2, <1>3 DEF Laid
<1> QED BY <1>4

\* One word more and the space after it.
LEMMA LaidMore ==
  ASSUME NEW C, Space \in C, NEW ts \in Seq(Seq(C)), NEW n \in 1..Len(ts),
         NEW text \in Seq(C), NEW p, Laid(text, ts, n - 1, p)
  PROVE  \E q : Laid(text \o ts[n] \o <<Space>>, ts, n, q)
<1> DEFINE t == ts[n]
           c == Len(t)
           l == Len(text)
           new == text \o t \o <<Space>>
           q == [k \in 1..n+1 |-> IF k <= n THEN p[k] ELSE l + c + 1]
<1>1. n \in Nat \ {0} /\ l \in Nat /\ c \in Nat /\ (n - 1) + 1 = n
      /\ t \in Seq(C)
  OBVIOUS
<1>2. /\ p \in [1..n -> 1..l]
      /\ p[1] = 1 /\ p[n] = l
      /\ \A k \in 1..n-1 : p[k+1] = p[k] + Len(ts[k]) + 1
      /\ \A k \in 1..n : text[p[k]] = Space
      /\ \A k \in 1..n-1 : \A j \in 1..Len(ts[k]) : text[p[k] + j] = ts[k][j]
      /\ \A i \in 1..l : \/ \E k \in 1..n : i = p[k]
                         \/ \E k \in 1..n-1 : \E j \in 1..Len(ts[k]) : i = p[k] + j
  BY <1>1, Zenon DEF Laid
<1>3. /\ Len(new) = l + c + 1
      /\ \A i \in 1..l : new[i] = text[i]
      /\ \A j \in 1..c : new[l + j] = t[j]
      /\ new[l + c + 1] = Space
  <2> HIDE DEF t
  <2>1. new \in Seq(C) /\ text \in Seq(C) /\ t \in Seq(C) /\ <<Space>> \in Seq(C)
    BY <1>1
  <2> DEFINE u == text \o t
  <2>2. Len(u) = l + c /\ u \in Seq(C) /\ new = u \o <<Space>>
    BY <2>1
  <2>3. \A i \in 1..l : u[i] = text[i]
    BY <2>1
  <2>4. \A j \in 1..c : u[l + j] = t[j]
    BY <2>1
  <2> HIDE DEF u, new, l, c
  <2>5. Len(new) = l + c + 1 /\ new[l + c + 1] = Space
        /\ \A i \in 1..l+c : new[i] = u[i]
    <3>1. Len(u) = l + c /\ Len(new) = Len(u) + 1 /\ new[Len(u) + 1] = Space
          /\ \A i \in 1..Len(u) : new[i] = u[i]
      BY <2>1, <2>2, OneMore
    <3> QED BY <3>1, Zenon
  <2>6. \A i \in 1..l : new[i] = text[i]
    BY <1>1, <2>3, <2>5
  <2>7. \A j \in 1..c : new[l + j] = t[j]
    BY <1>1, <2>4, <2>5
  <2> QED BY <2>5, <2>6, <2>7
<1> HIDE DEF new, l, c, t
<1>4. q \in [1..n+1 -> 1..l+c+1] /\ (\A k \in 1..n : q[k] = p[k]) /\ q[n + 1] = l + c + 1
  <2>1. n \in Nat \ {0} /\ l \in Nat /\ c \in Nat
    BY <1>1
  <2>2. p \in [1..n -> 1..l]
    BY <1>2
  <2> QED BY <2>1, <2>2
<1> HIDE DEF q
<1>5. \A k \in 1..n : q[k+1] = q[k] + Len(ts[k]) + 1
  <2> TAKE k \in 1..n
  <2>1. CASE k = n
    BY <1>1, <1>2, <1>4, <2>1 DEF c, t
  <2>2. CASE k # n
    <3>1. k \in 1..n-1 /\ k + 1 \in 1..n
      BY <1>1, <2>2
    <3> QED BY <1>2, <1>4, <3>1
  <2> QED BY <2>1, <2>2
<1>6. \A k \in 1..n+1 : new[q[k]] = Space
  <2> TAKE k \in 1..n+1
  <2>1. CASE k = n + 1
    BY <1>3, <1>4, <2>1
  <2>2. CASE k # n + 1
    <3>1. k \in 1..n
      BY <1>1, <2>2
    <3>2. q[k] = p[k] /\ p[k] \in 1..l /\ text[p[k]] = Space
      BY <1>2, <1>4, <3>1
    <3> QED BY <1>3, <3>2
  <2> QED BY <2>1, <2>2
<1>7. \A k \in 1..n : \A j \in 1..Len(ts[k]) : new[q[k] + j] = ts[k][j]
  <2> TAKE k \in 1..n
  <2> TAKE j \in 1..Len(ts[k])
  <2>1. CASE k = n
    <3>1. q[k] = l
      BY <1>1, <1>2, <1>4, <2>1
    <3> QED BY <1>3, <2>1, <3>1 DEF c, t
  <2>2. CASE k # n
    <3>1. k \in 1..n-1 /\ k + 1 \in 1..n /\ k \in 1..n
      BY <1>1, <2>2
    <3>2. q[k] = p[k] /\ p[k] \in 1..l /\ p[k+1] \in 1..l /\ p[k+1] = p[k] + Len(ts[k]) + 1
      BY <1>2, <1>4, <3>1
    <3>3. Len(ts[k]) \in Nat
      BY <3>1
    <3>4. p[k] + j \in 1..l
      <4>1. PICK m \in Nat : m = Len(ts[k])
        BY <3>3
      <4>2. PICK x \in 1..l : x = p[k] /\ x + m + 1 \in 1..l
        BY <3>2, <4>1
      <4>3. x + j \in 1..l
        <5>1. j \in 1..m
          BY <4>1
        <5>2. l \in Nat
          BY <1>1
        <5> QED BY <4>1, <4>2, <5>1, <5>2, Between
      <4> QED BY <4>2, <4>3
    <3>5. text[p[k] + j] = ts[k][j]
      BY <1>2, <3>1
    <3>6. new[p[k] + j] = text[p[k] + j]
      BY <1>3, <3>4, Zenon
    <3> QED BY <3>2, <3>5, <3>6, Zenon
  <2> QED BY <2>1, <2>2
<1>8. ASSUME NEW i \in 1..l+c+1
      PROVE  \/ \E k \in 1..n+1 : i = q[k]
             \/ \E k \in 1..n : \E j \in 1..Len(ts[k]) : i = q[k] + j
  <2>1. CASE i <= l
    <3>1. i \in 1..l
      BY <1>1, <2>1
    <3>2. CASE \E k \in 1..n : i = p[k]
      <4>1. PICK k \in 1..n : i = p[k]
        BY <3>2
      <4>2. k \in 1..n+1 /\ i = q[k]
        BY <1>1, <1>4, <4>1
      <4> QED BY <4>2
    <3>3. CASE \E k \in 1..n-1 : \E j \in 1..Len(ts[k]) : i = p[k] + j
      <4>1. PICK k \in 1..n-1 : \E j \in 1..Len(ts[k]) : i = p[k] + j
        BY <3>3
      <4>2. k \in 1..n /\ q[k] = p[k]
        BY <1>1, <1>4
      <4> QED BY <4>1, <4>2
    <3> QED BY <1>2, <3>1, <3>2, <3>3
  <2>2. CASE i = l + c + 1
    <3>1. n + 1 \in 1..n+1 /\ i = q[n + 1]
      BY <1>1, <1>4, <2>2
    <3> QED BY <3>1
  <2>3. CASE i > l /\ i # l + c + 1
    <3>1. i - l \in 1..c /\ i = l + (i - l)
      BY <1>1, <2>3
    <3>2. n \in 1..n /\ q[n] = l
      BY <1>1, <1>2, <1>4
    <3>3. \E j \in 1..Len(ts[n]) : i = q[n] + j
      BY <3>1, <3>2 DEF c, t
    <3> QED BY <3>2, <3>3
  <2> QED BY <1>1, <2>1, <2>2, <2>3
<1>9. q[1] = 1
  BY <1>1, <1>2, <1>4
<1>10. Laid(new, ts, n, q)
  BY <1>3, <1>4, <1>5, <1>6, <1>7, <1>8, <1>9 DEF Laid
<1> QED BY <1>10 DEF new, t

\* Texts may be put together in any order.
Regrouped(x, y, z) == x \o (y \o z) = (x \o y) \o z

\* For any three texts.
LEMMA Regroup ==
  ASSUME NEW C
  PROVE  \A x, y, z \in Seq(C) : Regrouped(x, y, z)
BY DEF Regrouped

\* The joined words with a blank before and after.
LEMMA JoinLaid ==
  ASSUME NEW C, Space \in C, NEW ts \in Seq(Seq(C)), ts # <<>>
  PROVE  \E p : Laid(Spaced(Join(ts)), ts, Len(ts), p)
<1> DEFINE base == Head(ts)
           seq == Tail(ts)
           n == Len(seq)
<1>1. /\ n \in Nat /\ Len(ts) = n + 1 /\ base = ts[1]
      /\ \A k \in 1..n : seq[k] = ts[k + 1]
  OBVIOUS
<1>2. base \in Seq(C) /\ seq \in Seq(Seq(C))
  OBVIOUS
<1>3. Join(ts) = FoldLeft(LAMBDA acc, t : acc \o <<Space>> \o t, base, seq)
  BY Zenon DEF Join
<1> HIDE DEF base, seq
<1>4. PICK f : Glues(f, C, base, seq)
               /\ FoldLeft(LAMBDA acc, t : acc \o <<Space>> \o t, base, seq) = f[Len(seq)]
  BY <1>2, JoinRuns
<1> DEFINE Good(k) == \E p : Laid(Spaced(f[k]), ts, k + 1, p)
           S == {k \in 0..n : Good(k)}
<1>5. ASSUME NEW k \in 0..n PROVE f[k] \in Seq(C)
  BY <1>4 DEF Glues
<1>6. 0 \in S
  <2>1. PICK p : Laid(<<Space>>, ts, 0, p)
    BY LaidNone
  <2>2. 1 \in 1..Len(ts) /\ <<Space>> \in Seq(C) /\ 1 - 1 = 0
    BY <1>1, <1>2
  <2>3. \E q : Laid(<<Space>> \o ts[1] \o <<Space>>, ts, 1, q)
    BY <2>1, <2>2, LaidMore
  <2>4. f[0] = ts[1]
    BY <1>1, <1>4 DEF Glues
  <2>5. Good(0)
    BY <2>3, <2>4 DEF Spaced
  <2> HIDE DEF Good
  <2> QED BY <1>1, <2>5
<1>7. ASSUME NEW k \in 1..n, k - 1 \in S PROVE k \in S
  <2>1. PICK p : Laid(Spaced(f[k-1]), ts, k, p)
    <3>1. Good(k - 1)
      BY <1>7
    <3>2. (k - 1) + 1 = k
      BY <1>1
    <3> QED BY <3>1, <3>2
  <2>2. /\ k + 1 \in 1..Len(ts) /\ (k + 1) - 1 = k /\ k - 1 \in 0..n
        /\ ts[k + 1] \in Seq(C) /\ <<Space>> \in Seq(C) /\ f[k-1] \in Seq(C)
    <3>1. k + 1 \in 1..Len(ts) /\ (k + 1) - 1 = k /\ k - 1 \in 0..n
      BY <1>1
    <3> QED BY <1>2, <1>5, <3>1
  <2> DEFINE a == f[k-1]
             t == ts[k+1]
  <2>3. Spaced(f[k]) = Spaced(a) \o t \o <<Space>>
    <3>1. f[k] = a \o <<Space>> \o t
      BY <1>1, <1>4 DEF Glues, Glue
    <3> HIDE DEF a, t
    <3>2. a \in Seq(C) /\ t \in Seq(C) /\ <<Space>> \in Seq(C)
      BY <2>2 DEF a, t
    <3>3. PICK u \in Seq(C), v \in Seq(C) : u = <<Space>> /\ v = a \o u
      <4>1. a \o <<Space>> \in Seq(C)
        BY <3>2, ConcatProperties
      <4> QED BY <3>2, <4>1, Zenon
    <3>4. Regrouped(u, v, t) /\ Regrouped(u, a, u)
      BY <3>2, Regroup, Zenon
    <3>5. u \o (v \o t) = (u \o v) \o t
      BY <3>4, Zenon DEF Regrouped
    <3>6. u \o v = (u \o a) \o u
      BY <3>3, <3>4, Zenon DEF Regrouped
    <3>7. Spaced(f[k]) = (u \o (v \o t)) \o u
      BY <3>1, <3>3, Zenon DEF Spaced
    <3>8. Spaced(a) = (u \o a) \o u
      BY <3>3, Zenon DEF Spaced
    <3> QED BY <3>3, <3>5, <3>6, <3>7, <3>8, Zenon
  <2>4. Spaced(a) \in Seq(C)
    BY <2>2 DEF Spaced
  <2> HIDE DEF a
  <2>5. \E q : Laid(Spaced(a) \o ts[k+1] \o <<Space>>, ts, k + 1, q)
    <3>1. Laid(Spaced(a), ts, (k + 1) - 1, p)
      BY <2>1, <2>2, Zenon DEF a
    <3> QED BY <2>2, <2>4, <3>1, LaidMore
  <2>6. Good(k)
    BY <2>3, <2>5, Zenon
  <2> HIDE DEF Good
  <2> QED BY <1>1, <2>6
<1> HIDE DEF S, n
<1>8. \A k \in 0..n : k \in S
  BY <1>1, <1>6, <1>7, Inductive
<1>9. Good(n)
  <2>1. n \in S
    BY <1>1, <1>8
  <2> HIDE DEF Good
  <2> QED BY <2>1 DEF S
<1>10. Join(ts) = f[n] /\ Len(ts) = n + 1
  BY <1>1, <1>3, <1>4 DEF n
<1> QED BY <1>9, <1>10, Zenon

\* The words of a are found in b after the first k.
FoundAfter(k, a, b) == \A j \in 1..Len(a) : b[k + j] = a[j]

\* The characters of needle are found in hay after the first k.
SeenAfter(k, needle, hay) == \A i \in 1..Len(needle) : hay[k + i] = needle[i]

\* No word has a space in it.
LEMMA NoBlank ==
  ASSUME NEW ts \in Seq(Word), NEW k \in 1..Len(ts), NEW j \in 1..Len(ts[k])
  PROVE  ts[k][j] # Space
<1>1. ts[k] \in Seq(Letters)
  BY DEF Word
<1>2. ts[k][j] \in Letters
  BY <1>1
<1> QED BY <1>2, SearchAssumption DEF Space

\* Numbers that the next proofs need.
LEMMA Numbers ==
  ASSUME NEW la \in Nat, NEW m \in 1..la, NEW u \in Nat, m + u + 1 \in 1..la,
         NEW k \in Nat, NEW lb \in Nat, k + la <= lb
  PROVE  /\ k + m < lb
         /\ \A v \in Nat : v < u => m + (v + 1) \in 1..la
OBVIOUS

\* The order in which places are counted does not matter.
LEMMA Shift == \A k, m, u \in Nat : k + (m + u + 1) = (k + m) + (u + 1)
OBVIOUS

\* Where the blank before a word of needle is seen, the word is found.
LEMMA WordSeen ==
  ASSUME NEW a \in Seq(Word), NEW needle, NEW p, Laid(needle, a, Len(a), p),
         NEW b \in Seq(Word), NEW hay, NEW q, Laid(hay, b, Len(b), q),
         Len(needle) \in Nat, Len(hay) \in Nat,
         NEW k \in Nat, k + Len(needle) <= Len(hay), SeenAfter(k, needle, hay),
         NEW j \in 1..Len(a), NEW y \in 1..Len(b)+1, q[y] = k + p[j]
  PROVE  y \in 1..Len(b) /\ b[y] = a[j] /\ q[y + 1] = k + p[j + 1]
<1> DEFINE na == Len(a)
           nb == Len(b)
           la == Len(needle)
           lb == Len(hay)
<1>1. na \in Nat /\ nb \in Nat /\ la \in Nat /\ lb \in Nat /\ k + la <= lb
  OBVIOUS
<1>2. /\ p \in [1..na+1 -> 1..la]
      /\ p[na+1] = la
      /\ \A x \in 1..na : p[x+1] = p[x] + Len(a[x]) + 1
      /\ \A x \in 1..na+1 : needle[p[x]] = Space
      /\ \A x \in 1..na : \A i \in 1..Len(a[x]) : needle[p[x] + i] = a[x][i]
  BY Zenon DEF Laid
<1>3. /\ q \in [1..nb+1 -> 1..lb]
      /\ q[nb+1] = lb
      /\ \A x \in 1..nb : q[x+1] = q[x] + Len(b[x]) + 1
      /\ \A x \in 1..nb+1 : hay[q[x]] = Space
      /\ \A x \in 1..nb : \A i \in 1..Len(b[x]) : hay[q[x] + i] = b[x][i]
  BY Zenon DEF Laid
<1>4. \A i \in 1..la : hay[k + i] = needle[i]
  BY Zenon DEF SeenAfter
<1> HIDE DEF na, nb, la, lb
<1>5. j \in 1..na /\ y \in 1..nb+1
  BY DEF na, nb
<1>6. p[j] \in 1..la /\ p[j+1] \in 1..la /\ j + 1 \in 1..na+1 /\ needle[p[j+1]] = Space
  <2>1. j \in 1..na+1 /\ j + 1 \in 1..na+1
    BY <1>1, <1>5
  <2>2. p[j] \in 1..la /\ p[j+1] \in 1..la
    BY <1>2, <2>1
  <2> QED BY <1>2, <2>1, <2>2, Zenon
<1>7. a[j] \in Seq(Letters) /\ Len(a[j]) \in Nat
  BY DEF Word
<1>8. PICK m \in 1..la, u \in Nat : /\ m = p[j] /\ u = Len(a[j])
                                     /\ p[j+1] = m + u + 1 /\ m + u + 1 \in 1..la
  <2>1. p[j+1] = p[j] + Len(a[j]) + 1
    BY <1>2, <1>5, Zenon
  <2> QED BY <1>6, <1>7, <2>1, Zenon
<1>9. PICK l \in 1..lb : l = q[y] /\ l = k + m
  BY <1>3, <1>5, <1>8
<1>10. y \in 1..nb
  <2>1. k + m < lb
    BY <1>1, <1>8, Numbers
  <2>2. y # nb + 1
    <3>1. q[y] = l /\ l = k + m /\ q[nb + 1] = lb
      BY <1>3, <1>9
    <3>2. k + m # lb
      BY <1>1, <2>1
    <3> QED BY <3>1, <3>2, Zenon
  <2> QED BY <1>1, <1>5, <2>2
<1>11. b[y] \in Seq(Letters) /\ Len(b[y]) \in Nat
  <2>1. b[y] \in Word
    BY <1>10 DEF nb
  <2> QED BY <2>1 DEF Word
<1>12. y + 1 \in 1..nb+1 /\ q[y+1] \in 1..lb /\ hay[q[y+1]] = Space
  BY <1>1, <1>3, <1>10
<1>13. PICK v \in Nat : v = Len(b[y]) /\ q[y+1] = l + v + 1
  BY <1>3, <1>9, <1>10, <1>11
<1>14. ASSUME u < v PROVE FALSE
  <2>1. u + 1 \in 1..v
    BY <1>14
  <2>2. hay[l + (u + 1)] = b[y][u + 1]
    BY <1>3, <1>9, <1>10, <1>13, <2>1
  <2>3. b[y][u + 1] # Space
    BY <1>10, <1>13, <2>1, NoBlank DEF nb
  <2>4. hay[k + (m + u + 1)] = Space
    BY <1>4, <1>6, <1>8
  <2>5. k + (m + u + 1) = l + (u + 1)
    <3>1. k + (m + u + 1) = (k + m) + (u + 1)
      <4>1. m \in Nat
        BY <1>1
      <4> QED BY <4>1, Shift
    <3> QED BY <1>9, <3>1, Zenon
  <2> QED BY <2>2, <2>3, <2>4, <2>5, Zenon
<1>15. ASSUME v < u PROVE FALSE
  <2>1. v + 1 \in 1..u
    BY <1>15
  <2>2. needle[m + (v + 1)] = a[j][v + 1]
    BY <1>2, <1>5, <1>8, <2>1
  <2>3. a[j][v + 1] # Space
    BY <1>5, <1>8, <2>1, NoBlank DEF na
  <2>4. m + (v + 1) \in 1..la
    BY <1>1, <1>8, <1>15, Numbers
  <2>5. hay[k + (m + (v + 1))] = needle[m + (v + 1)]
    BY <1>4, <2>4
  <2>6. k + (m + (v + 1)) = l + v + 1
    BY <1>9
  <2> QED BY <1>12, <1>13, <2>2, <2>3, <2>5, <2>6, Zenon
<1>16. u = v /\ q[y+1] = k + p[j+1]
  <2>1. u = v
    BY <1>14, <1>15
  <2>2. l + v + 1 = k + (m + u + 1)
    BY <1>9, <2>1
  <2> QED BY <1>8, <1>13, <2>1, <2>2, Zenon
<1>17. ASSUME NEW i \in 1..u PROVE b[y][i] = a[j][i]
  <2>1. hay[l + i] = b[y][i]
    BY <1>3, <1>9, <1>10, <1>13, <1>16
  <2>2. needle[m + i] = a[j][i]
    BY <1>2, <1>5, <1>8
  <2>3. m + i \in 1..la
    BY <1>1, <1>8, Between
  <2>4. hay[k + (m + i)] = needle[m + i]
    BY <1>4, <2>3
  <2>5. k + (m + i) = l + i
    BY <1>9
  <2> QED BY <2>1, <2>2, <2>4, <2>5, Zenon
<1>18. b[y] = a[j]
  BY <1>7, <1>8, <1>11, <1>13, <1>16, <1>17, SeqEqual
<1> QED BY <1>10, <1>16, <1>18 DEF nb

\* What is seen of the joined words is found word by word.
LEMMA SeenIsFound ==
  ASSUME NEW a \in Seq(Word), a # <<>>, NEW needle, NEW p, Laid(needle, a, Len(a), p),
         NEW b \in Seq(Word), NEW hay, NEW q, Laid(hay, b, Len(b), q),
         Len(needle) \in Nat, Len(hay) \in Nat,
         NEW k \in Nat, k + Len(needle) <= Len(hay), SeenAfter(k, needle, hay)
  PROVE  \E x \in 0 .. Len(b) - Len(a) : FoundAfter(x, a, b)
<1> DEFINE na == Len(a)
           nb == Len(b)
<1>1. na \in Nat /\ na >= 1 /\ nb \in Nat
  OBVIOUS
<1>2. /\ p \in [1..na+1 -> 1..Len(needle)] /\ p[1] = 1
      /\ \A x \in 1..na+1 : needle[p[x]] = Space
  BY Zenon DEF Laid
<1>3. PICK y \in 1..nb+1 : k + 1 = q[y]
  <2>1. 1 \in 1..na+1 /\ 1 \in 1..Len(needle) /\ k + 1 \in 1..Len(hay)
    BY <1>1, <1>2
  <2>2. hay[k + 1] = Space
    BY <1>2, <2>1, Zenon DEF SeenAfter
  <2>3. \/ \E y \in 1..nb+1 : k + 1 = q[y]
        \/ \E y \in 1..nb : \E j \in 1..Len(b[y]) : k + 1 = q[y] + j
    BY <2>1, Zenon DEF Laid
  <2>4. ASSUME NEW y \in 1..nb, NEW j \in 1..Len(b[y]), k + 1 = q[y] + j PROVE FALSE
    <3>1. hay[q[y] + j] = b[y][j]
      BY <2>4, Zenon DEF Laid
    <3>2. b[y][j] # Space
      BY <2>4, NoBlank
    <3> QED BY <2>2, <2>4, <3>1, <3>2, Zenon
  <2> QED BY <2>3, <2>4
<1> DEFINE x == y - 1
           Good(j) == /\ x + j \in 0..nb
                      /\ q[x + j + 1] = k + p[j + 1]
                      /\ j > 0 => b[x + j] = a[j]
           S == {j \in 0..na : Good(j)}
<1>4. x \in 0..nb /\ x + 1 = y
  BY <1>1
<1>5. 0 \in S
  <2> HIDE DEF x
  <2>1. x + 0 \in 0..nb /\ x + 0 + 1 = y /\ 0 + 1 = 1
    BY <1>1, <1>4
  <2>2. q[x + 0 + 1] = k + p[0 + 1]
    BY <1>2, <1>3, <2>1, Zenon
  <2> QED BY <1>1, <2>1, <2>2
<1> HIDE DEF x
<1>6. ASSUME NEW j \in 1..na, j - 1 \in S PROVE j \in S
  <2>1. x + (j - 1) \in 0..nb /\ q[x + (j - 1) + 1] = k + p[(j - 1) + 1]
    BY <1>6
  <2>2. x + (j - 1) + 1 = x + j /\ (j - 1) + 1 = j /\ x + j \in 1..nb+1
    BY <1>1, <1>4, <2>1
  <2>3. q[x + j] = k + p[j]
    BY <2>1, <2>2, Zenon
  <2>4. /\ x + j \in 1..Len(b) /\ b[x + j] = a[j]
        /\ q[x + j + 1] = k + p[j + 1]
    <3>1. PICK z \in 1..Len(b)+1 : z = x + j
      BY <2>2
    <3>2. q[z] = k + p[j]
      BY <2>3, <3>1, Zenon
    <3>3. z \in 1..Len(b) /\ b[z] = a[j] /\ q[z + 1] = k + p[j + 1]
      <4>1. j \in 1..Len(a)
        OBVIOUS
      <4> HIDE DEF na, nb
      <4> QED BY <3>2, <4>1, WordSeen
    <3> QED BY <3>1, <3>3, Zenon
  <2> QED BY <1>1, <2>4
<1> HIDE DEF S
<1>7. \A j \in 0..na : j \in S
  BY <1>1, <1>5, <1>6, Inductive
<1>8. FoundAfter(x, a, b)
  <2> SUFFICES ASSUME NEW j \in 1..na PROVE b[x + j] = a[j]
    BY DEF FoundAfter
  <2> QED BY <1>1, <1>7 DEF S
<1>9. x \in 0..nb-na
  <2>1. x + na \in 0..nb
    BY <1>1, <1>7 DEF S
  <2> QED BY <1>1, <1>4, <2>1
<1> QED BY <1>8, <1>9

\* And what is found word by word is seen.
LEMMA FoundIsSeen ==
  ASSUME NEW a \in Seq(Word), a # <<>>, NEW needle, NEW p, Laid(needle, a, Len(a), p),
         NEW b \in Seq(Word), NEW hay, NEW q, Laid(hay, b, Len(b), q),
         Len(needle) \in Nat, Len(hay) \in Nat,
         NEW x \in 0 .. Len(b) - Len(a), FoundAfter(x, a, b)
  PROVE  \E k \in 0 .. Len(hay) - Len(needle) : SeenAfter(k, needle, hay)
<1> DEFINE na == Len(a)
           nb == Len(b)
           la == Len(needle)
           lb == Len(hay)
           k == q[x + 1] - 1
           Good(j) == q[x + j + 1] = k + p[j + 1]
           S == {j \in 0..na : Good(j)}
<1>1. na \in Nat /\ na >= 1 /\ nb \in Nat /\ la \in Nat /\ lb \in Nat /\ x \in Nat /\ x + na <= nb
  OBVIOUS
<1>2. /\ p \in [1..na+1 -> 1..la]
      /\ p[1] = 1 /\ p[na+1] = la
      /\ \A i \in 1..na : p[i+1] = p[i] + Len(a[i]) + 1
      /\ \A i \in 1..na+1 : needle[p[i]] = Space
      /\ \A y \in 1..na : \A i \in 1..Len(a[y]) : needle[p[y] + i] = a[y][i]
      /\ \A i \in 1..la : \/ \E y \in 1..na+1 : i = p[y]
                          \/ \E y \in 1..na : \E j \in 1..Len(a[y]) : i = p[y] + j
  BY Zenon DEF Laid
<1>3. /\ q \in [1..nb+1 -> 1..lb]
      /\ \A i \in 1..nb : q[i+1] = q[i] + Len(b[i]) + 1
      /\ \A i \in 1..nb+1 : hay[q[i]] = Space
      /\ \A y \in 1..nb : \A i \in 1..Len(b[y]) : hay[q[y] + i] = b[y][i]
  BY Zenon DEF Laid
<1>4. \A j \in 1..na : b[x + j] = a[j] /\ x + j \in 1..nb /\ Len(a[j]) \in Nat
  <2> TAKE j \in 1..na
  <2>1. b[x + j] = a[j]
    BY DEF FoundAfter
  <2>2. x + j \in 1..nb
    BY <1>1
  <2>3. a[j] \in Seq(Letters)
    BY DEF Word
  <2> QED BY <2>1, <2>2, <2>3
<1> HIDE DEF na, nb, la, lb
<1>5. q[x + 1] \in 1..lb /\ k \in Nat /\ q[x + 1] = k + 1
  BY <1>1, <1>3
<1> HIDE DEF k
<1>6. 0 \in S
  BY <1>1, <1>2, <1>5
<1>7. ASSUME NEW j \in 1..na, j - 1 \in S PROVE j \in S
  <2>1. q[x + (j - 1) + 1] = k + p[(j - 1) + 1]
    BY <1>7
  <2>2. x + (j - 1) + 1 = x + j /\ (j - 1) + 1 = j /\ j \in 0..na /\ j \in 1..na+1 /\ j + 1 \in 1..na+1
    BY <1>1
  <2>3. q[x + j] = k + p[j]
    BY <2>1, <2>2, Zenon
  <2>4. p[j + 1] = p[j] + Len(a[j]) + 1 /\ p[j] \in 1..la
    BY <1>2, <2>2
  <2>5. q[x + j + 1] = q[x + j] + Len(a[j]) + 1
    BY <1>3, <1>4
  <2>6. q[x + j + 1] = k + p[j + 1]
    <3>1. PICK m \in 1..la, u \in Nat : m = p[j] /\ u = Len(a[j])
      BY <1>4, <2>4
    <3>2. q[x + j + 1] = k + m + u + 1 /\ p[j + 1] = m + u + 1
      BY <1>4, <2>3, <2>4, <2>5, <3>1, Zenon
    <3>3. k + m + u + 1 = k + (m + u + 1)
      BY <1>5
    <3> QED BY <3>2, <3>3, Zenon
  <2> QED BY <2>2, <2>6
<1> HIDE DEF S
<1>8. \A j \in 0..na : j \in S
  BY <1>1, <1>6, <1>7, Inductive
<1>9. ASSUME NEW j \in 1..na+1
      PROVE  q[x + j] = k + p[j] /\ x + j \in 1..nb+1 /\ p[j] \in 1..la
  <2>1. j - 1 \in 0..na
    BY <1>1
  <2>2. Good(j - 1)
    BY <1>8, <2>1 DEF S
  <2>3. x + (j - 1) + 1 = x + j /\ (j - 1) + 1 = j /\ x + j \in 1..nb+1
    BY <1>1
  <2>4. q[x + j] = k + p[j]
    BY <2>2, <2>3, Zenon
  <2> QED BY <1>2, <2>3, <2>4
<1>10. k \in 0..lb-la
  <2>1. na + 1 \in 1..na+1
    BY <1>1
  <2>2. q[x + (na + 1)] = k + la /\ x + (na + 1) \in 1..nb+1
    BY <1>2, <1>9, <2>1
  <2>3. k + la \in 1..lb
    BY <1>3, <2>2
  <2> QED BY <1>1, <1>5, <2>3
<1>11. ASSUME NEW i \in 1..la PROVE hay[k + i] = needle[i]
  <2>1. ASSUME NEW y \in 1..na+1, i = p[y] PROVE hay[k + i] = needle[i]
    <3>1. q[x + y] = k + i /\ x + y \in 1..nb+1
      BY <1>9, <2>1
    <3>2. hay[q[x + y]] = Space
      BY <1>3, <3>1
    <3> QED BY <1>2, <2>1, <3>1, <3>2, Zenon
  <2>2. ASSUME NEW y \in 1..na, NEW j \in 1..Len(a[y]), i = p[y] + j
        PROVE  hay[k + i] = needle[i]
    <3>1. y \in 1..na+1
      BY <1>1
    <3>2. q[x + y] = k + p[y] /\ p[y] \in 1..la /\ x + y \in 1..nb /\ b[x + y] = a[y]
      BY <1>4, <1>9, <3>1
    <3>3. needle[p[y] + j] = a[y][j]
      BY <1>2
    <3>4. j \in 1..Len(b[x + y])
      BY <3>2, Zenon
    <3>5. hay[q[x + y] + j] = b[x + y][j]
      BY <1>3, <3>2, <3>4
    <3>6. k + i = q[x + y] + j
      <4>1. PICK m \in 1..la, u \in Nat : m = p[y] /\ u = Len(a[y])
        BY <1>4, <3>2
      <4>2. j \in 1..u /\ i = m + j /\ q[x + y] = k + m
        BY <2>2, <3>2, <4>1, Zenon
      <4>3. k + (m + j) = (k + m) + j
        BY <1>5, <4>2
      <4> QED BY <4>2, <4>3, Zenon
    <3> QED BY <2>2, <3>2, <3>3, <3>5, <3>6, Zenon
  <2> QED BY <1>2, <2>1, <2>2
<1>12. SeenAfter(k, needle, hay)
  BY <1>11 DEF SeenAfter, la
<1> QED BY <1>10, <1>12 DEF la, lb

\* Occurs, said character by character.
LEMMA OccursSeen ==
  ASSUME NEW needle \in Seq(Char), NEW hay \in Seq(Char)
  PROVE  Occurs(needle, hay)
           <=> \E k \in 0 .. Len(hay) - Len(needle) : SeenAfter(k, needle, hay)
<1> DEFINE la == Len(needle)
           lb == Len(hay)
<1>1. la \in Nat /\ lb \in Nat
  OBVIOUS
<1>2. ASSUME NEW k \in 0 .. lb - la
      PROVE  SubSeq(hay, k + 1, k + la) = needle <=> SeenAfter(k, needle, hay)
  <2> DEFINE u == SubSeq(hay, k + 1, k + la)
  <2>1. u \in Seq(Char) /\ Len(u) = la /\ \A i \in 1..la : u[i] = hay[k + i]
    <3>1. k + 1 \in Int /\ k + la \in Int /\ k + la <= lb /\ k >= 0
      BY <1>1
    <3>2. \A i \in k+1..k+la : hay[i] \in Char
      BY <1>1, <3>1
    <3>3. /\ u \in Seq(Char)
          /\ Len(u) = IF k + 1 <= k + la THEN (k + la) - (k + 1) + 1 ELSE 0
          /\ \A i \in 1..(k + la) - (k + 1) + 1 : u[i] = hay[(k + 1) + i - 1]
      <4> HIDE DEF la
      <4> QED BY <3>1, <3>2, SubSeqProperties
    <3>4. (k + la) - (k + 1) + 1 = la /\ \A i \in 1..la : (k + 1) + i - 1 = k + i
      BY <1>1
    <3> HIDE DEF u
    <3>5. Len(u) = la
      BY <1>1, <3>3
    <3>6. ASSUME NEW i \in 1..la PROVE u[i] = hay[k + i]
      <4>1. u[i] = hay[(k + 1) + i - 1]
        BY <3>3, <3>4, Zenon
      <4> QED BY <3>4, <4>1, Zenon
    <3> QED BY <3>3, <3>5, <3>6
  <2> HIDE DEF u
  <2>2. ASSUME u = needle PROVE SeenAfter(k, needle, hay)
    BY <2>1, <2>2 DEF SeenAfter
  <2>3. ASSUME SeenAfter(k, needle, hay) PROVE u = needle
    <3>1. \A i \in 1..Len(u) : u[i] = needle[i]
      BY <2>1, <2>3 DEF SeenAfter
    <3> QED BY <2>1, <3>1, SeqEqual
  <2> QED BY <2>2, <2>3 DEF u
<1> QED BY <1>2, Zenon DEF Occurs

\* A phrase is in the joined words where it is in the words.
LEMMA HasPhraseRight ==
  ASSUME NEW idx, NEW d, NEW b \in Seq(Word), idx.tokens[d] = Join(b),
         NEW a \in Seq(Word), a # <<>>
  PROVE  HasPhrase(idx, d, a) <=> \E x \in 0 .. Len(b) - Len(a) : FoundAfter(x, a, b)
<1> DEFINE needle == Spaced(Join(a))
           hay == Spaced(Join(b))
<1>1. Word \subseteq Seq(Char) /\ Space \in Char
  BY SeqMonotonic DEF Word, Char
<1>2. a \in Seq(Seq(Char)) /\ b \in Seq(Seq(Char))
  BY <1>1, SeqMonotonic
<1>3. Join(a) \in Seq(Char) /\ Join(b) \in Seq(Char)
  BY <1>1, <1>2, JoinTyped
<1>4. needle \in Seq(Char) /\ hay \in Seq(Char)
  BY <1>1, <1>3 DEF Spaced
<1>5. HasPhrase(idx, d, a) <=> Occurs(needle, hay)
  BY Zenon DEF HasPhrase
<1>6. PICK p : Laid(needle, a, Len(a), p)
  BY <1>1, <1>2, JoinLaid
<1>7. CASE b = <<>>
  <2>1. Len(hay) = 2
    <3>1. Join(b) = <<>>
      BY <1>7, Zenon DEF Join
    <3>2. hay = <<Space>> \o <<>> \o <<Space>>
      BY <3>1, Zenon DEF Spaced
    <3> HIDE DEF hay
    <3> QED BY <3>2
  <2> HIDE DEF needle, hay
  <2>2. Len(needle) >= 3 /\ Len(needle) \in Nat
    <3>1. 1 \in 1..Len(a) /\ Len(a) \in Nat /\ 2 \in 1..Len(a)+1
      OBVIOUS
    <3>2. Len(a[1]) \in Nat /\ Len(a[1]) >= 1
      BY <3>1 DEF Word
    <3>3. p[1 + 1] = p[1] + Len(a[1]) + 1 /\ p[1] = 1
      BY <1>6, <3>1, Zenon DEF Laid
    <3>4. p[2] \in 1..Len(needle)
      BY <1>6, <3>1, Zenon DEF Laid
    <3> QED BY <1>4, <3>2, <3>3, <3>4
  <2>3. ~ Occurs(needle, hay)
    BY <2>1, <2>2 DEF Occurs
  <2>4. ~ \E x \in 0 .. Len(b) - Len(a) : FoundAfter(x, a, b)
    <3>1. Len(b) = 0 /\ Len(a) \in Nat /\ Len(a) > 0
      BY <1>7
    <3> QED BY <3>1
  <2> QED BY <1>5, <2>3, <2>4
<1>8. CASE b # <<>>
  <2>1. PICK q : Laid(hay, b, Len(b), q)
    BY <1>1, <1>2, <1>8, JoinLaid
  <2> HIDE DEF needle, hay
  <2>2. Len(needle) \in Nat /\ Len(hay) \in Nat
    BY <1>4
  <2>3. ASSUME NEW k \in 0 .. Len(hay) - Len(needle), SeenAfter(k, needle, hay)
        PROVE  \E x \in 0 .. Len(b) - Len(a) : FoundAfter(x, a, b)
    <3>1. k \in Nat /\ k + Len(needle) <= Len(hay)
      BY <2>2
    <3> QED BY <1>6, <2>1, <2>2, <2>3, <3>1, SeenIsFound
  <2>4. ASSUME NEW x \in 0 .. Len(b) - Len(a), FoundAfter(x, a, b)
        PROVE  \E k \in 0 .. Len(hay) - Len(needle) : SeenAfter(k, needle, hay)
    BY <1>6, <2>1, <2>2, <2>4, FoundIsSeen
  <2> QED BY <1>4, <1>5, <2>3, <2>4, OccursSeen
<1> QED BY <1>7, <1>8
-----------------------------------------------------------------------------
(* The query language.                                                     *)

\* What Find returns: a place at or after i with a character of S, or the end,
\* and no character of S on the way.
LEMMA FindTyped ==
  ASSUME NEW q, Len(q) \in Nat, NEW i \in Nat, NEW S
  PROVE  /\ Find(q, i, S) \in Nat
         /\ Find(q, i, S) <= Len(q) + 1
         /\ Find(q, i, S) <= Len(q) => Find(q, i, S) >= i /\ q[Find(q, i, S)] \in S
         /\ \A k \in Nat : i <= k /\ k < Find(q, i, S) => q[k] \notin S \/ k > Len(q)
<1> DEFINE n == Len(q)
           K == {j \in i..n : q[j] \in S}
           f == Find(q, i, S)
<1>1. n \in Nat /\ K \subseteq Nat
  OBVIOUS
<1>2. CASE K = {}
  <2>1. f = n + 1
    BY <1>2 DEF Find
  <2>2. \A j \in i..n : q[j] \notin S
    BY <1>2
  <2> HIDE DEF f, K
  <2> QED BY <1>1, <2>1, <2>2 DEF f
<1>3. CASE K # {}
  <2>1. PICK m \in K : \A l \in K : m <= l
    <3> HIDE DEF K
    <3> QED BY <1>1, <1>3, Least
  <2>2. m \in i..n /\ q[m] \in S /\ \A k \in i..m-1 : q[k] \notin S
    <3>1. m \in i..n /\ q[m] \in S
      OBVIOUS
    <3>2. ASSUME NEW k \in i..m-1, q[k] \in S PROVE FALSE
      <4>1. k \in K /\ ~(m <= k)
        BY <3>1, <3>2
      <4> QED BY <2>1, <4>1
    <3> QED BY <3>1, <3>2
  <2>3. f = CHOOSE j \in i..n : q[j] \in S /\ \A k \in i..j-1 : q[k] \notin S
    BY <2>2, Zenon DEF Find
  <2>4. f \in i..n /\ q[f] \in S /\ \A k \in i..f-1 : q[k] \notin S
    <3> HIDE DEF f, K
    <3> QED BY <2>2, <2>3, Zenon
  <2> HIDE DEF f, K
  <2>5. ASSUME NEW k \in Nat, i <= k, k < f PROVE q[k] \notin S
    BY <2>4, <2>5, <1>1
  <2> QED BY <1>1, <2>4, <2>5 DEF f
<1> QED BY <1>2, <1>3

\* A recursion that only looks ahead.
LooksAhead(g, A, m, stops, base, next, step) ==
  /\ g \in [1..m -> A]
  /\ \A i \in 1..m : g[i] = IF i \in stops THEN base ELSE step[<<i, g[next[i]]>>]

\* What only looks ahead exists.
LEMMA LooksAheadExists ==
  ASSUME NEW m \in Nat, NEW A, NEW base \in A, NEW stops, NEW next,
         \A i \in 1..m : i \notin stops => next[i] \in i+1..m,
         NEW step \in [(1..m) \X A -> A]
  PROVE  \E g : LooksAhead(g, A, m, stops, base, next, step)
<1> DEFINE Val(g, i) == IF i \in stops THEN base ELSE step[<<i, g[next[i]]>>]
           Good(k) == \E g \in [1..m -> A] : \A i \in m-k+1..m : g[i] = Val(g, i)
           S == {k \in 0..m : Good(k)}
<1>1. ASSUME NEW g \in [1..m -> A], NEW i \in 1..m PROVE Val(g, i) \in A
  <2>1. CASE i \in stops
    BY <2>1
  <2>2. CASE i \notin stops
    <3>1. next[i] \in 1..m
      BY <2>2
    <3> QED BY <2>2, <3>1
  <2> QED BY <2>1, <2>2
<1>2. 0 \in S
  <2> DEFINE g == [i \in 1..m |-> base]
  <2>1. g \in [1..m -> A] /\ m-0+1..m = {}
    OBVIOUS
  <2>2. \A i \in m-0+1..m : g[i] = Val(g, i)
    BY <2>1, Zenon
  <2>3. Good(0)
    BY <2>1, <2>2, Zenon
  <2> HIDE DEF Good
  <2> QED BY <2>3
<1>3. ASSUME NEW k \in 1..m, k - 1 \in S PROVE k \in S
  <2>1. PICK g \in [1..m -> A] : \A i \in m-(k-1)+1..m : g[i] = Val(g, i)
    BY <1>3
  <2> DEFINE j == m-k+1
             h == [i \in 1..m |-> IF i = j THEN Val(g, j) ELSE g[i]]
  <2>2. j \in 1..m
    OBVIOUS
  <2> HIDE DEF j
  <2>3. Val(g, j) \in A
    BY <1>1, <2>2
  <2>4. h \in [1..m -> A] /\ h[j] = Val(g, j) /\ \A i \in 1..m : i # j => h[i] = g[i]
    <3> HIDE DEF Val
    <3> QED BY <2>2, <2>3
  <2> HIDE DEF h
  <2>5. ASSUME NEW i \in j..m PROVE h[i] = Val(h, i)
    <3>1. i \in 1..m
      BY <2>2
    <3>2. Val(h, i) = Val(g, i)
      <4>1. CASE i \in stops
        BY <4>1
      <4>2. CASE i \notin stops
        <5>1. next[i] \in 1..m /\ next[i] # j
          BY <2>2, <3>1, <4>2
        <5>2. h[next[i]] = g[next[i]]
          BY <2>4, <5>1
        <5> QED BY <4>2, <5>2, Zenon
      <4> QED BY <4>1, <4>2
    <3>3. h[i] = Val(g, i)
      <4> HIDE DEF Val
      <4>1. CASE i = j
        BY <2>4, <4>1
      <4>2. CASE i # j
        <5>1. i \in m-(k-1)+1..m
          BY <2>2, <4>2 DEF j
        <5> QED BY <2>1, <2>4, <3>1, <4>2, <5>1
      <4> QED BY <4>1, <4>2
    <3> QED BY <3>2, <3>3, Zenon
  <2>6. Good(k)
    <3> HIDE DEF Val
    <3> QED BY <2>4, <2>5 DEF j
  <2> HIDE DEF Good
  <2> QED BY <2>6
<1> HIDE DEF S
<1>4. \A k \in 0..m : k \in S
  BY <1>2, <1>3, Inductive
<1>5. PICK g \in [1..m -> A] : \A i \in m-m+1..m : g[i] = Val(g, i)
  <2>1. m \in S
    BY <1>4
  <2>2. Good(m)
    <3> HIDE DEF Good
    <3> QED BY <2>1 DEF S
  <2> QED BY <2>2, Zenon
<1>6. \A i \in 1..m : g[i] = Val(g, i)
  BY <1>5
<1>7. LooksAhead(g, A, m, stops, base, next, step)
  BY <1>5, <1>6, Zenon DEF LooksAhead
<1> QED BY <1>7

\* What looks ahead stays in the set its steps stay in.
LEMMA LooksAheadTyped ==
  ASSUME NEW m \in Nat, NEW A, NEW stops, NEW next,
         \A i \in 1..m : i \notin stops => next[i] \in i+1..m,
         NEW g, \A i \in 1..m : i \in stops \/ g[next[i]] \in A => g[i] \in A
  PROVE  \A i \in 1..m : g[i] \in A
<1> DEFINE S == {k \in 0..m : \A i \in m-k+1..m : g[i] \in A}
<1>1. 0 \in S
  OBVIOUS
<1>2. ASSUME NEW k \in 1..m, k - 1 \in S PROVE k \in S
  <2>1. \A i \in m-(k-1)+1..m : g[i] \in A
    BY <1>2
  <2>2. ASSUME NEW i \in m-k+1..m PROVE g[i] \in A
    <3>1. i \in 1..m /\ \A l \in i+1..m : l \in m-(k-1)+1..m
      OBVIOUS
    <3>2. i \notin stops => next[i] \in i+1..m
      BY <3>1
    <3> QED BY <2>1, <3>1, <3>2
  <2> QED BY <2>2
<1> HIDE DEF S
<1>3. m \in S
  <2>1. \A k \in 0..m : k \in S
    BY <1>1, <1>2, Inductive
  <2> QED BY <2>1
<1> QED BY <1>3 DEF S

\* The piece of a query that ParseQuery reads from place i on.
PieceStart(q, i) == Find(q, i, Keys \ {Space})
PieceSign(q, i) ==
  IF PieceStart(q, i) <= Len(q) /\ q[PieceStart(q, i)] \in Signs THEN q[PieceStart(q, i)] ELSE ""
PieceFirst(q, i) == IF PieceSign(q, i) = "" THEN PieceStart(q, i) ELSE PieceStart(q, i) + 1
PieceQuoted(q, i) == q[PieceFirst(q, i)] = Quote
PieceEnd(q, i) ==
  IF PieceQuoted(q, i) THEN Find(q, PieceFirst(q, i) + 1, {Quote})
  ELSE Find(q, PieceFirst(q, i), {Space})
PieceNext(q, i) == IF PieceQuoted(q, i) THEN PieceEnd(q, i) + 1 ELSE PieceEnd(q, i)
PieceWords(q, i) == Tokenize(SubSeq(q, PieceFirst(q, i), PieceEnd(q, i) - 1))

\* A query with nothing in it.
Nothing == [terms |-> <<>>, phrases |-> <<>>]

\* A piece without quotes asks for every word in it.
WithTerms(rest, found, sign) ==
  [rest EXCEPT !.terms =
     [k \in DOMAIN found |-> [word |-> found[k],
                              require |-> sign = "+",
                              negate |-> sign = "-"]] \o @]

\* A piece in quotes is one phrase.
WithPhrase(rest, found, sign) ==
  [rest EXCEPT !.phrases =
     IF found = <<>> THEN @ ELSE <<[terms |-> found, negate |-> sign = "-"]>> \o @]

\* What one more piece adds.
WithPiece(q, i, rest) ==
  IF ~PieceQuoted(q, i) THEN WithTerms(rest, PieceWords(q, i), PieceSign(q, i))
  ELSE WithPhrase(rest, PieceWords(q, i), PieceSign(q, i))

\* g is what ParseQuery defines itself by.
Parses(g, q) ==
  g = [i \in 1 .. Len(q) + 2 |->
         IF PieceFirst(q, i) > Len(q) THEN Nothing
         ELSE WithPiece(q, i, g[PieceNext(q, i)])]

\* ParseQuery, said with the names of its parts.
LEMMA ParseQueryIs ==
  ASSUME NEW q
  PROVE  ParseQuery(q) = (CHOOSE g : Parses(g, q))[1]
BY Zenon DEF ParseQuery, Parses, WithPiece, WithPhrase, WithTerms, Nothing, PieceWords,
             PieceNext, PieceEnd, PieceQuoted, PieceFirst, PieceSign, PieceStart

\* What a query may ask for.
Term == {t \in [word : Word, require : BOOLEAN, negate : BOOLEAN] : ~(t.require /\ t.negate)}
Phrase == [terms : Seq(Word) \ {<<>>}, negate : BOOLEAN]
Query == [terms : Seq(Term), phrases : Seq(Phrase)]

\* Numbers that the next proof needs.
LEMMA AheadNumbers ==
  ASSUME NEW n \in Nat, NEW i \in Nat, NEW b \in Nat, NEW e \in Nat, NEW nx,
         b <= n, b >= i, e <= n + 1,
         (e <= n => e >= b + 1) \/ ((e <= n => e >= b) /\ (e # b \/ b > i)),
         nx = e \/ nx = e + 1
  PROVE  /\ b \in i..n
         /\ e \in b+1..n+1 \/ (e \in b..n+1 /\ b > i)
         /\ e \in Nat
         /\ nx \in i+1..n+2
<1>1. e >= b + 1 \/ (e >= b /\ b > i)
  <2>1. CASE e = n + 1
    BY <2>1
  <2>2. CASE e <= n
    BY <2>2
  <2> QED BY <2>1, <2>2
<1>2. nx = e \/ nx = e + 1
  OBVIOUS
<1> QED BY <1>1, <1>2

\* Every piece ends behind where it begins, so that parseQuery gets on: no
\* text a reader types holds it up.
LEMMA PieceAhead ==
  ASSUME NEW q \in Seq(Keys), NEW i \in 1 .. Len(q) + 2, ~(PieceFirst(q, i) > Len(q))
  PROVE  /\ PieceFirst(q, i) \in i .. Len(q)
         /\ PieceEnd(q, i) \in PieceFirst(q, i) + 1 .. Len(q) + 1
            \/ (PieceEnd(q, i) \in PieceFirst(q, i) .. Len(q) + 1 /\ PieceFirst(q, i) > i)
         /\ PieceEnd(q, i) \in Nat
         /\ PieceNext(q, i) \in i + 1 .. Len(q) + 2
<1> DEFINE n == Len(q)
           s == PieceStart(q, i)
           b == PieceFirst(q, i)
           e == PieceEnd(q, i)
           nx == PieceNext(q, i)
<1>1. n \in Nat /\ i \in Nat
  OBVIOUS
<1>2. s \in Nat /\ s <= n + 1 /\ (s <= n => s >= i /\ q[s] \in Keys \ {Space})
  BY <1>1, FindTyped DEF PieceStart
<1>3. b = s \/ b = s + 1
  BY DEF PieceFirst
<1>4. b = s + 1 => s <= n
  <2>1. PieceSign(q, i) # "" => s <= n
    BY DEF PieceSign
  <2>2. b = s + 1 => PieceSign(q, i) # ""
    <3> HIDE DEF s
    <3>1. s + 1 # s
      BY <1>2
    <3> QED BY <3>1, Zenon DEF PieceFirst, s
  <2> QED BY <2>1, <2>2
<1> HIDE DEF s
<1>5. b \in Nat /\ b <= n /\ s <= n /\ b >= i /\ (b = s \/ b > i)
  <2> HIDE DEF b
  <2>1. ~(b > n)
    BY DEF b
  <2> QED BY <1>1, <1>2, <1>3, <1>4, <2>1
<1>6. /\ e \in Nat /\ e <= n + 1
      /\ (e <= n => e >= b + 1) \/ ((e <= n => e >= b) /\ (e # b \/ b > i))
  <2>1. CASE PieceQuoted(q, i)
    <3>1. e = Find(q, b + 1, {Quote})
      BY <2>1 DEF PieceEnd
    <3> HIDE DEF b, e
    <3>2. e \in Nat /\ e <= n + 1 /\ (e <= n => e >= b + 1)
      BY <1>1, <1>5, <3>1, FindTyped
    <3> HIDE DEF n
    <3> QED BY <3>2, Zenon
  <2>2. CASE ~PieceQuoted(q, i)
    <3>1. e = Find(q, b, {Space})
      BY <2>2 DEF PieceEnd
    <3> HIDE DEF b, e
    <3>2. e \in Nat /\ e <= n + 1 /\ (e <= n => e >= b /\ q[e] \in {Space})
      BY <1>1, <1>5, <3>1, FindTyped
    <3>3. b = s => q[b] # Space
      BY <1>2, <1>5
    <3>4. b = s => e # b
      BY <1>5, <3>2, <3>3
    <3> HIDE DEF n
    <3> QED BY <1>5, <3>2, <3>4, Zenon
  <2> QED BY <2>1, <2>2
<1>7. nx = e \/ nx = e + 1
  BY DEF PieceNext
<1> HIDE DEF b, e, nx, n
<1>8. /\ b \in i..n
      /\ e \in b+1..n+1 \/ (e \in b..n+1 /\ b > i)
      /\ e \in Nat
      /\ nx \in i+1..n+2
  BY <1>1, <1>5, <1>6, <1>7, AheadNumbers
<1> QED BY <1>8 DEF b, e, nx, n

\* A query with one piece more is a query.
LEMMA PieceTyped ==
  ASSUME NEW q \in Seq(Keys), NEW i \in 1 .. Len(q) + 2, ~(PieceFirst(q, i) > Len(q)),
         NEW rest \in Query
  PROVE  WithPiece(q, i, rest) \in Query
<1> DEFINE found == PieceWords(q, i)
           sign == PieceSign(q, i)
           b == PieceFirst(q, i)
           e == PieceEnd(q, i)
<1>1. b \in Nat /\ e \in Nat /\ b >= 1 /\ e <= Len(q) + 1
  BY PieceAhead
<1>2. found \in Seq(Word)
  <2>1. found = Tokenize(SubSeq(q, b, e - 1))
    BY DEF PieceWords
  <2> HIDE DEF b, e
  <2>2. b \in Int /\ e - 1 \in Int /\ \A j \in b..e-1 : q[j] \in Keys
    BY <1>1
  <2>3. SubSeq(q, b, e - 1) \in Seq(Keys)
    BY <2>2, SubSeqProperties
  <2> QED BY <2>1, <2>3, TokenizeTyped
<1> HIDE DEF found, sign
<1>3. rest.terms \in Seq(Term) /\ rest.phrases \in Seq(Phrase)
  BY DEF Query
<1>4. WithTerms(rest, found, sign) \in Query
  <2> DEFINE new == [k \in DOMAIN found |-> [word |-> found[k], require |-> sign = "+",
                                              negate |-> sign = "-"]]
  <2>1. new \in Seq(Term)
    <3>1. \A k \in 1..Len(found) : found[k] \in Word
      BY <1>2
    <3>2. \A k \in 1..Len(found) : [word |-> found[k], require |-> sign = "+",
                                    negate |-> sign = "-"] \in Term
      BY <3>1 DEF Term
    <3>3. DOMAIN found = 1..Len(found) /\ Len(found) \in Nat
      BY <1>2
    <3>4. new \in [1..Len(found) -> Term]
      BY <3>2, <3>3
    <3> HIDE DEF new
    <3> QED BY <3>3, <3>4
  <2>2. WithTerms(rest, found, sign) = [rest EXCEPT !.terms = new \o rest.terms]
    BY Zenon DEF WithTerms
  <2> HIDE DEF new
  <2>3. new \o rest.terms \in Seq(Term)
    BY <1>3, <2>1
  <2> QED BY <2>2, <2>3 DEF Query
<1>5. WithPhrase(rest, found, sign) \in Query
  <2> DEFINE ph == [terms |-> found, negate |-> sign = "-"]
  <2>1. CASE found = <<>>
    <3>1. WithPhrase(rest, found, sign) = [rest EXCEPT !.phrases = rest.phrases]
      BY <2>1, Zenon DEF WithPhrase
    <3> QED BY <1>3, <3>1 DEF Query
  <2>2. CASE found # <<>>
    <3>1. ph \in Phrase
      BY <1>2, <2>2 DEF Phrase
    <3>2. WithPhrase(rest, found, sign) = [rest EXCEPT !.phrases = <<ph>> \o rest.phrases]
      BY <2>2, Zenon DEF WithPhrase
    <3> HIDE DEF ph
    <3>3. <<ph>> \o rest.phrases \in Seq(Phrase)
      BY <1>3, <3>1
    <3> QED BY <3>2, <3>3 DEF Query
  <2> QED BY <2>1, <2>2
<1> QED BY <1>4, <1>5, Zenon DEF WithPiece, found, sign

\* parseQuery comes to the end of any text that is typed.
LEMMA ParseExists ==
  ASSUME NEW q \in Seq(Keys)
  PROVE  \E g : Parses(g, q)
<1> DEFINE m == Len(q) + 2
           stops == {i \in 1..m : PieceFirst(q, i) > Len(q)}
           next == [i \in 1..m |-> PieceNext(q, i)]
           step == [p \in (1..m) \X Query |->
                      IF p[1] \in stops THEN Nothing ELSE WithPiece(q, p[1], p[2])]
<1>1. m \in Nat
  OBVIOUS
<1>2. Nothing \in Query
  BY DEF Nothing, Query
<1>3. \A i \in 1..m : i \notin stops => next[i] \in i+1..m
  BY PieceAhead
<1>4. step \in [(1..m) \X Query -> Query]
  BY <1>2, PieceTyped
<1>5. PICK g : LooksAhead(g, Query, m, stops, Nothing, next, step)
  <2> HIDE DEF m, stops, next, step
  <2> QED BY <1>1, <1>2, <1>3, <1>4, LooksAheadExists
<1>6. g \in [1..m -> Query]
      /\ \A i \in 1..m : g[i] = IF i \in stops THEN Nothing ELSE step[<<i, g[next[i]]>>]
  BY <1>5, Zenon DEF LooksAhead
<1>7. ASSUME NEW i \in 1..m
      PROVE  g[i] = IF PieceFirst(q, i) > Len(q) THEN Nothing
                    ELSE WithPiece(q, i, g[PieceNext(q, i)])
  <2>1. CASE i \in stops
    <3>1. g[i] = Nothing
      BY <1>6, <2>1, Zenon
    <3> QED BY <2>1, <3>1
  <2>2. CASE i \notin stops
    <3>1. g[i] = step[<<i, g[next[i]]>>] /\ next[i] = PieceNext(q, i)
      BY <1>6, <2>2, Zenon
    <3>2. next[i] \in 1..m
      BY <1>1, <1>3, <2>2
    <3>3. g[next[i]] \in Query
      BY <1>6, <3>2, Zenon
    <3>4. step[<<i, g[next[i]]>>] = WithPiece(q, i, g[next[i]])
      <4> DEFINE v == g[next[i]]
      <4> HIDE DEF v
      <4>1. v \in Query
        BY <3>3 DEF v
      <4>2. step[<<i, v>>] = WithPiece(q, i, v)
        BY <2>2, <4>1
      <4> QED BY <4>2 DEF v
    <3>5. ~(PieceFirst(q, i) > Len(q))
      BY <2>2
    <3> HIDE DEF step, next, stops
    <3> QED BY <3>1, <3>4, <3>5, Zenon
  <2> QED BY <2>1, <2>2
<1>8. g = [i \in 1..m |-> g[i]]
  BY <1>6
<1>9. Parses(g, q)
  BY <1>7, <1>8, Zenon DEF Parses
<1> QED BY <1>9

\* What is understood of a text: terms of letters, and phrases with a term.
LEMMA ParseTyped ==
  ASSUME NEW q \in Seq(Keys)
  PROVE  ParseQuery(q) \in Query
<1> DEFINE m == Len(q) + 2
           g == CHOOSE g : Parses(g, q)
           stops == {i \in 1..m : PieceFirst(q, i) > Len(q)}
           next == [i \in 1..m |-> PieceNext(q, i)]
<1>1. m \in Nat /\ 1 \in 1..m
  OBVIOUS
<1>2. Parses(g, q)
  BY ParseExists
<1> HIDE DEF g
<1>3. \A i \in 1..m : g[i] = IF PieceFirst(q, i) > Len(q) THEN Nothing
                             ELSE WithPiece(q, i, g[PieceNext(q, i)])
  BY <1>2 DEF Parses
<1>4. \A i \in 1..m : i \notin stops => next[i] \in i+1..m
  BY PieceAhead
<1>5. ASSUME NEW i \in 1..m, i \in stops \/ g[next[i]] \in Query PROVE g[i] \in Query
  <2>1. CASE i \in stops
    <3>1. g[i] = Nothing
      BY <1>3, <2>1
    <3> QED BY <3>1 DEF Nothing, Query
  <2>2. CASE i \notin stops
    <3>1. ~(PieceFirst(q, i) > Len(q)) /\ g[PieceNext(q, i)] \in Query
      BY <1>5, <2>2
    <3>2. g[i] = WithPiece(q, i, g[PieceNext(q, i)])
      BY <1>3, <3>1, Zenon
    <3> QED BY <3>1, <3>2, PieceTyped
  <2> QED BY <2>1, <2>2
<1>6. \A i \in 1..m : g[i] \in Query
  <2> HIDE DEF m, stops, next
  <2> QED BY <1>1, <1>4, <1>5, LooksAheadTyped
<1>7. ParseQuery(q) = g[1]
  BY ParseQueryIs DEF g
<1> QED BY <1>1, <1>6, <1>7
-----------------------------------------------------------------------------
(* The answer.                                                             *)

\* The terms of a phrase are next to each other in a document.
Says(ph, d) ==
  \E k \in 0 .. Len(Phrasing(d)) - Len(ph.terms) :
    \A j \in DOMAIN ph.terms : Phrasing(d)[k + j] = ph.terms[j]

\* AsksFor, said of the places of the query.
LEMMA AsksForIs ==
  ASSUME NEW q, NEW d
  PROVE  AsksFor(q, d) <=>
           /\ \A k \in DOMAIN q.terms :
                /\ q.terms[k].require => q.terms[k].word \in Words(d)
                /\ q.terms[k].negate => q.terms[k].word \notin Words(d)
           /\ \A k \in DOMAIN q.phrases : ~q.phrases[k].negate <=> Says(q.phrases[k], d)
           /\ \/ \E k \in DOMAIN q.terms :
                   ~q.terms[k].negate /\ q.terms[k].word \in Words(d)
              \/ \E k \in DOMAIN q.phrases : ~q.phrases[k].negate
<1> DEFINE word == {q.terms[k] : k \in DOMAIN q.terms}
           phrase == {q.phrases[k] : k \in DOMAIN q.phrases}
           Fits(t) == /\ t.require => t.word \in Words(d)
                      /\ t.negate => t.word \notin Words(d)
           Wanted(t) == ~t.negate /\ t.word \in Words(d)
           Agrees(ph) == ~ph.negate <=> Says(ph, d)
<1>1. AsksFor(q, d) <=> /\ \A t \in word : Fits(t)
                        /\ \A ph \in phrase : Agrees(ph)
                        /\ (\E t \in word : Wanted(t)) \/ (\E ph \in phrase : ~ph.negate)
  BY Zenon DEF AsksFor, Says
<1>2. /\ \A k \in DOMAIN q.terms : q.terms[k] \in word
      /\ \A t \in word : \E k \in DOMAIN q.terms : t = q.terms[k]
      /\ \A k \in DOMAIN q.phrases : q.phrases[k] \in phrase
      /\ \A ph \in phrase : \E k \in DOMAIN q.phrases : ph = q.phrases[k]
  OBVIOUS
<1> HIDE DEF word, phrase, Fits, Wanted, Agrees
<1>3. (\A t \in word : Fits(t)) <=> \A k \in DOMAIN q.terms : Fits(q.terms[k])
  BY <1>2, Zenon
<1>4. (\A ph \in phrase : Agrees(ph)) <=> \A k \in DOMAIN q.phrases : Agrees(q.phrases[k])
  BY <1>2, Zenon
<1>5. (\E t \in word : Wanted(t)) <=> \E k \in DOMAIN q.terms : Wanted(q.terms[k])
  BY <1>2, Zenon
<1>6. (\E ph \in phrase : ~ph.negate) <=> \E k \in DOMAIN q.phrases : ~q.phrases[k].negate
  BY <1>2, Zenon
<1>7. AsksFor(q, d) <=> /\ \A k \in DOMAIN q.terms : Fits(q.terms[k])
                        /\ \A k \in DOMAIN q.phrases : Agrees(q.phrases[k])
                        /\ \/ \E k \in DOMAIN q.terms : Wanted(q.terms[k])
                           \/ \E k \in DOMAIN q.phrases : ~q.phrases[k].negate
  BY <1>1, <1>3, <1>4, <1>5, <1>6, Zenon
<1> QED BY <1>7, Zenon DEF Fits, Wanted, Agrees

\* In an index of the documents, what a query finds is what it asks for.
LEMMA SearchRight ==
  ASSUME NEW entries \in Seq(Document), NEW idx, Indexed(idx, entries, Len(entries)),
         NEW q \in Query
  PROVE  SearchQuery(idx, q) = {d \in DOMAIN entries : AsksFor(q, entries[d])}
<1> DEFINE n == Len(entries)
           W(d) == Words(entries[d])
<1>1. n \in Nat /\ DOMAIN entries = 1..n /\ \A d \in 1..n : entries[d] \in Document
  OBVIOUS
<1>2. /\ idx \in Index /\ Len(idx.tokens) = n
      /\ \A d \in 1..n : idx.tokens[d] = Join(Phrasing(entries[d]))
      /\ \A w : Lists(PostingsOf(idx, w), Holding(entries, n, w))
  BY Zenon DEF Indexed
<1>3. DOMAIN idx.tokens = 1..n
  BY <1>2 DEF Index
<1>4. /\ q.terms \in Seq(Term) /\ q.phrases \in Seq(Phrase)
      /\ \A k \in DOMAIN q.terms : q.terms[k].negate \in BOOLEAN /\ q.terms[k].require \in BOOLEAN
      /\ \A k \in DOMAIN q.phrases : /\ q.phrases[k].negate \in BOOLEAN
                                     /\ q.phrases[k].terms \in Seq(Word)
                                     /\ q.phrases[k].terms # <<>>
  <2>1. q.terms \in Seq(Term) /\ q.phrases \in Seq(Phrase)
    BY DEF Query
  <2>2. \A k \in DOMAIN q.terms : q.terms[k] \in Term
    BY <2>1
  <2>3. \A k \in DOMAIN q.phrases : q.phrases[k] \in Phrase
    BY <2>1
  <2>4. \A k \in DOMAIN q.terms : q.terms[k].negate \in BOOLEAN /\ q.terms[k].require \in BOOLEAN
    BY <2>2 DEF Term
  <2>5. \A k \in DOMAIN q.phrases : /\ q.phrases[k].negate \in BOOLEAN
                                    /\ q.phrases[k].terms \in Seq(Word)
                                    /\ q.phrases[k].terms # <<>>
    BY <2>3 DEF Phrase
  <2> QED BY <2>1, <2>4, <2>5
<1> HIDE DEF n
<1>5. ASSUME NEW d \in 1..n, NEW w PROVE HoldsTerm(idx, d, w) <=> w \in W(d)
  <2>1. d \in Nat
    BY <1>1
  <2>2. HoldsTerm(idx, d, w) <=> d \in Holding(entries, n, w)
    BY <1>2, <2>1, HoldsTermRight
  <2> QED BY <2>2 DEF Holding
<1>6. ASSUME NEW d \in 1..n, NEW k \in DOMAIN q.phrases
      PROVE  HasPhrase(idx, d, q.phrases[k].terms) <=> Says(q.phrases[k], entries[d])
  <2> DEFINE a == q.phrases[k].terms
             b == Phrasing(entries[d])
  <2>1. a \in Seq(Word) /\ a # <<>>
    BY <1>4
  <2>2. b \in Seq(Word)
    BY <1>1, DocumentTyped
  <2>3. idx.tokens[d] = Join(b)
    BY <1>2
  <2>4. Says(q.phrases[k], entries[d])
          <=> \E x \in 0 .. Len(b) - Len(a) : \A j \in DOMAIN a : b[x + j] = a[j]
    BY Zenon DEF Says
  <2> HIDE DEF a, b
  <2>5. HasPhrase(idx, d, a) <=> \E x \in 0 .. Len(b) - Len(a) : FoundAfter(x, a, b)
    BY <2>1, <2>2, <2>3, HasPhraseRight
  <2>6. DOMAIN a = 1..Len(a)
    BY <2>1
  <2>7. (\E x \in 0 .. Len(b) - Len(a) : FoundAfter(x, a, b))
          <=> \E x \in 0 .. Len(b) - Len(a) : \A j \in DOMAIN a : b[x + j] = a[j]
    BY <2>6, Zenon DEF FoundAfter
  <2> QED BY <2>4, <2>5, <2>7, Zenon DEF a
<1>7. ASSUME NEW d, NEW w PROVE d \in ToSet(PostingsOf(idx, w)) <=> d \in 1..n /\ w \in W(d)
  <2> DEFINE post == PostingsOf(idx, w)
  <2>1. Lists(post, Holding(entries, n, w))
    BY <1>2, Zenon
  <2> HIDE DEF post
  <2>2. d \in ToSet(post) <=> d \in Holding(entries, n, w)
    <3>1. DOMAIN post = 1..Len(post)
      BY <2>1 DEF Lists
    <3> QED BY <2>1, <3>1, Zenon DEF Lists, ToSet
  <2> QED BY <2>2, Zenon DEF Holding, post
<1>8. ASSUME NEW d
      PROVE  d \in Scored(idx, q) <=>
               /\ d \in 1..n
               /\ \/ \E k \in DOMAIN q.terms :
                       ~q.terms[k].negate /\ q.terms[k].word \in W(d)
                  \/ \E k \in DOMAIN q.phrases :
                       ~q.phrases[k].negate /\ HasPhrase(idx, d, q.phrases[k].terms)
  <2> DEFINE wanted == {j \in DOMAIN q.terms : ~q.terms[j].negate}
  <2> DEFINE byPhrase == {e \in DOMAIN idx.tokens :
                           \E k \in DOMAIN q.phrases :
                             ~q.phrases[k].negate /\ HasPhrase(idx, e, q.phrases[k].terms)}
  <2> DEFINE byTerm == UNION {ToSet(PostingsOf(idx, q.terms[k].word)) : k \in wanted}
  <2>1. Scored(idx, q) = byTerm \cup byPhrase
    BY Zenon DEF Scored
  <2>2. d \in Scored(idx, q) <=>
          \/ d \in UNION {ToSet(PostingsOf(idx, q.terms[k].word)) : k \in wanted}
          \/ /\ d \in DOMAIN idx.tokens
             /\ \E k \in DOMAIN q.phrases :
                  ~q.phrases[k].negate /\ HasPhrase(idx, d, q.phrases[k].terms)
    <3>1. d \in byPhrase <=>
            /\ d \in DOMAIN idx.tokens
            /\ \E k \in DOMAIN q.phrases :
                 ~q.phrases[k].negate /\ HasPhrase(idx, d, q.phrases[k].terms)
      OBVIOUS
    <3> HIDE DEF byTerm, byPhrase
    <3>2. d \in Scored(idx, q) <=> d \in byTerm \/ d \in byPhrase
      BY <2>1
    <3> QED BY <3>1, <3>2, Zenon DEF byTerm
  <2>3. d \in UNION {ToSet(PostingsOf(idx, q.terms[k].word)) : k \in wanted}
          <=> \E k \in wanted : d \in ToSet(PostingsOf(idx, q.terms[k].word))
    OBVIOUS
  <2>4. (\E k \in wanted : d \in ToSet(PostingsOf(idx, q.terms[k].word)))
          <=> d \in 1..n /\ \E k \in DOMAIN q.terms :
                               ~q.terms[k].negate /\ q.terms[k].word \in W(d)
    <3> HIDE DEF W
    <3> QED BY <1>7, Zenon
  <2> HIDE DEF wanted, W
  <2> QED BY <1>3, <2>2, <2>3, <2>4, Zenon
<1>9. ASSUME NEW d \in 1..n
      PROVE  Satisfies(idx, d, q) <=>
               /\ \A k \in DOMAIN q.terms :
                    /\ q.terms[k].require => q.terms[k].word \in W(d)
                    /\ q.terms[k].negate => q.terms[k].word \notin W(d)
               /\ \A k \in DOMAIN q.phrases :
                    ~q.phrases[k].negate <=> Says(q.phrases[k], entries[d])
  <2>1. \A k \in DOMAIN q.terms : HoldsTerm(idx, d, q.terms[k].word) <=> q.terms[k].word \in W(d)
    BY <1>5
  <2>2. \A k \in DOMAIN q.phrases :
          (HasPhrase(idx, d, q.phrases[k].terms) # q.phrases[k].negate)
            <=> (~q.phrases[k].negate <=> Says(q.phrases[k], entries[d]))
    <3> TAKE k \in DOMAIN q.phrases
    <3>1. HasPhrase(idx, d, q.phrases[k].terms) <=> Says(q.phrases[k], entries[d])
      BY <1>6
    <3>2. q.phrases[k].negate \in BOOLEAN
      BY <1>4
    <3>3. HasPhrase(idx, d, q.phrases[k].terms) \in BOOLEAN
      BY Zenon DEF HasPhrase, Occurs
    <3> QED BY <3>1, <3>2, <3>3
  <2> QED BY <2>1, <2>2, Zenon DEF Satisfies
<1>10. ASSUME NEW d
       PROVE  d \in SearchQuery(idx, q) <=> d \in 1..n /\ AsksFor(q, entries[d])
  <2>1. CASE Empty(q)
    <3>1. d \notin SearchQuery(idx, q)
      BY <2>1, Zenon DEF SearchQuery
    <3>2. DOMAIN q.terms = {} /\ DOMAIN q.phrases = {}
      BY <2>1 DEF Empty
    <3>3. ~AsksFor(q, entries[d])
      BY <3>2, AsksForIs, Zenon
    <3> QED BY <3>1, <3>3
  <2>2. CASE ~Empty(q)
    <3>1. d \in SearchQuery(idx, q) <=> d \in Scored(idx, q) /\ Satisfies(idx, d, q)
      BY <2>2, Zenon DEF SearchQuery
    <3>2. CASE d \in 1..n
      <4>1. \A k \in DOMAIN q.phrases :
              HasPhrase(idx, d, q.phrases[k].terms) <=> Says(q.phrases[k], entries[d])
        BY <1>6, <3>2
      <4> HIDE DEF W
      <4>2. AsksFor(q, entries[d]) <=>
           /\ \A k \in DOMAIN q.terms :
                /\ q.terms[k].require => q.terms[k].word \in W(d)
                /\ q.terms[k].negate => q.terms[k].word \notin W(d)
           /\ \A k \in DOMAIN q.phrases : ~q.phrases[k].negate <=> Says(q.phrases[k], entries[d])
           /\ \/ \E k \in DOMAIN q.terms :
                   ~q.terms[k].negate /\ q.terms[k].word \in W(d)
              \/ \E k \in DOMAIN q.phrases : ~q.phrases[k].negate
        BY AsksForIs, Zenon DEF W
      <4> QED BY <1>8, <1>9, <3>1, <3>2, <4>1, <4>2, Zenon
    <3>3. CASE d \notin 1..n
      BY <1>8, <3>1, <3>3, Zenon
    <3> QED BY <3>2, <3>3
  <2> QED BY <2>1, <2>2
<1> QED BY <1>1, <1>10, Zenon

-----------------------------------------------------------------------------
(* The prose of a body.                                                    *)

\* Tokenize in the middle of a text, after all that was read so far.
ReadAll(text) == FoldLeft(Read, Unread, text)

\* Of no text, of one character more.
LEMMA ReadAllSteps ==
  ASSUME NEW X, NEW text \in Seq(X)
  PROVE  /\ ReadAll(text) \in Reading
         /\ ReadAll(<<>>) = Unread
         /\ \A c \in X : ReadAll(Append(text, c)) = Read(ReadAll(text), c)
<1>1. ReadAll(text) \in Reading
  <2>1. PICK f : Reads(f, text) /\ FoldLeft(Read, Unread, text) = f[Len(text)]
    BY ReadRuns
  <2>2. Len(text) \in 0..Len(text)
    OBVIOUS
  <2> QED BY <2>1, <2>2 DEF Reads, ReadAll
<1>2. ReadAll(<<>>) = Unread
  <2>1. <<>> \in Seq(X) /\ Len(<<>>) = 0
    OBVIOUS
  <2>2. PICK f : Reads(f, <<>>) /\ FoldLeft(Read, Unread, <<>>) = f[Len(<<>>)]
    BY <2>1, ReadRuns
  <2> QED BY <2>1, <2>2, Zenon DEF Reads, ReadAll
<1>3. ASSUME NEW c \in X PROVE ReadAll(Append(text, c)) = Read(ReadAll(text), c)
  <2> DEFINE more == Append(text, c)
             n == Len(text)
  <2>1. /\ more \in Seq(X) /\ n \in Nat /\ Len(more) = n + 1 /\ more[n + 1] = c
        /\ \A k \in 1..n : more[k] = text[k]
    OBVIOUS
  <2> HIDE DEF more
  <2>2. PICK f : Reads(f, text) /\ FoldLeft(Read, Unread, text) = f[Len(text)]
    BY ReadRuns
  <2>3. PICK g : Reads(g, more) /\ FoldLeft(Read, Unread, more) = g[Len(more)]
    BY <2>1, ReadRuns
  <2> DEFINE S == {k \in 0..n : f[k] = g[k]}
  <2>4. 0 \in S
    <3>1. f[0] = Unread /\ g[0] = Unread
      BY <2>2, <2>3 DEF Reads
    <3> QED BY <2>1, <3>1
  <2>5. ASSUME NEW k \in 1..n, k - 1 \in S PROVE k \in S
    <3>1. f[k] = Read(f[k-1], text[k])
      BY <2>2, Zenon DEF Reads
    <3>2. k \in 1..Len(more)
      BY <2>1
    <3>3. g[k] = Read(g[k-1], more[k])
      BY <2>3, <3>2, Zenon DEF Reads
    <3>4. f[k-1] = g[k-1] /\ more[k] = text[k]
      BY <2>1, <2>5
    <3>5. f[k] = g[k]
      BY <3>1, <3>3, <3>4, Zenon
    <3> QED BY <3>5
  <2> HIDE DEF S
  <2>6. \A k \in 0..n : k \in S
    BY <2>1, <2>4, <2>5, Inductive
  <2>7. f[n] = g[n]
    BY <2>1, <2>6 DEF S
  <2>8. n + 1 \in 1..Len(more) /\ (n + 1) - 1 = n
    BY <2>1
  <2>9. g[n + 1] = Read(g[(n + 1) - 1], more[n + 1])
    BY <2>3, <2>8, Zenon DEF Reads
  <2> QED BY <2>1, <2>2, <2>3, <2>7, <2>8, <2>9, Zenon DEF ReadAll, more
<1> QED BY <1>1, <1>2, <1>3

\* What Tokenize makes of it.
LEMMA TokenizeIs == \A text : Tokenize(text) = Flush(ReadAll(text)).out
BY Zenon DEF Tokenize, ReadAll, Unread

\* Only letters make a word, and a word that is flushed is gone.
LEMMA Flushing ==
  /\ \A c : c \notin Letters => \A acc : Read(acc, c) = Flush(acc)
  /\ \A acc : Flush(Flush(acc)) = Flush(acc)
  /\ Flush(Unread) = Unread
<1>1. ASSUME NEW c, c \notin Letters, NEW acc PROVE Read(acc, c) = Flush(acc)
  BY <1>1 DEF Read
<1>2. ASSUME NEW acc PROVE Flush(Flush(acc)) = Flush(acc)
  BY DEF Flush
<1>3. Flush(Unread) = Unread
  BY DEF Flush, Unread
<1> QED BY <1>1, <1>2, <1>3

\* No blank is a letter.
LEMMA BlanksPart == Space \notin Letters /\ NewLine \notin Letters
BY SearchAssumption DEF Space, NewLine

\* Where Tokenize is in the text of a reader, who holds back the blanks: past
\* the word already, if a blank or a dropped element came.
Past(w) == w.pending > 0 \/ w.space \/ w.depth > 0
Position(w) == IF Past(w) THEN Flush(ReadAll(w.out)) ELSE ReadAll(w.out)

\* The blanks that are written before the next character.
Gap(w) == IF w.out = <<>> THEN <<>>
          ELSE IF w.pending = 2 THEN <<NewLine, NewLine>>
          ELSE IF w.pending = 1 THEN <<NewLine>>
          ELSE IF w.space THEN <<Space>> ELSE <<>>

\* What may be held back: nothing, a line end, or two.
LEMMA PendingIs == Pending = {0, 1, 2}
<1>1. \A t \in Tags : Markup[t].name \in {"p", "li", "b", "nav", "embed"}
  BY DEF Tags, Markup
<1>2. \A x \in {"p", "li", "b", "nav", "embed"} : BreakLevel[x] \in {0, 1, 2}
  BY DEF BreakLevel
<1>3. "<p>" \in Tags /\ Markup["<p>"].name = "p" /\ BreakLevel["p"] = 2
  BY DEF Tags, Markup, BreakLevel
<1> QED BY <1>1, <1>2, <1>3 DEF Pending

\* What is written before the next character is what is still to be read.
LEMMA GapReads ==
  ASSUME NEW X, NEW w \in Scanning(X), ~(w.depth > 0)
  PROVE  /\ w.out \o Gap(w) \in Seq(X \cup {Space, NewLine})
         /\ ReadAll(w.out \o Gap(w)) = Position(w)
<1> DEFINE C == X \cup {Space, NewLine}
           acc == ReadAll(w.out)
<1>1. w.out \in Seq(C) /\ w.pending \in {0, 1, 2} /\ w.space \in BOOLEAN
  BY PendingIs DEF Scanning
<1>2. Space \in C /\ NewLine \in C
  OBVIOUS
<1> HIDE DEF C
<1>3. \A c \in {Space, NewLine} : ReadAll(Append(w.out, c)) = Flush(acc)
  <2> TAKE c \in {Space, NewLine}
  <2>1. c \in C /\ c \notin Letters
    BY <1>2, BlanksPart
  <2>2. ReadAll(Append(w.out, c)) = Read(acc, c)
    BY <1>1, <2>1, ReadAllSteps
  <2> QED BY <2>1, <2>2, Flushing, Zenon
<1>4. ReadAll(Append(Append(w.out, NewLine), NewLine)) = Flush(acc)
  <2>1. Append(w.out, NewLine) \in Seq(C)
    BY <1>1, <1>2
  <2>2. ReadAll(Append(Append(w.out, NewLine), NewLine)) = Read(ReadAll(Append(w.out, NewLine)), NewLine)
    BY <1>2, <2>1, ReadAllSteps
  <2>3. ReadAll(Append(w.out, NewLine)) = Flush(acc)
    BY <1>3
  <2> QED BY <2>2, <2>3, BlanksPart, Flushing, Zenon
<1>5. CASE w.out = <<>>
  <2>1. Gap(w) = <<>> /\ w.out \o <<>> = w.out
    BY <1>1, <1>5 DEF Gap
  <2>2. acc = Unread
    BY <1>5, <1>1, ReadAllSteps
  <2>3. Position(w) = acc
    BY <2>2, Flushing, Zenon DEF Position
  <2> QED BY <1>1, <2>1, <2>3, Zenon DEF C
<1>6. CASE w.out # <<>> /\ w.pending = 2
  <2>1. Gap(w) = <<NewLine, NewLine>> /\ Past(w)
    BY <1>6 DEF Gap, Past
  <2>2. w.out \o <<NewLine, NewLine>> = Append(Append(w.out, NewLine), NewLine)
    BY <1>1
  <2>3. Append(Append(w.out, NewLine), NewLine) \in Seq(C)
    BY <1>1, <1>2
  <2> QED BY <2>1, <2>2, <2>3, <1>4, Zenon DEF Position, C
<1>7. CASE w.out # <<>> /\ w.pending = 1
  <2>1. Gap(w) = <<NewLine>> /\ Past(w)
    BY <1>7 DEF Gap, Past
  <2>2. w.out \o <<NewLine>> = Append(w.out, NewLine)
    BY <1>1
  <2>3. Append(w.out, NewLine) \in Seq(C)
    BY <1>1, <1>2
  <2>4. ReadAll(Append(w.out, NewLine)) = Flush(acc)
    BY <1>3
  <2> QED BY <2>1, <2>2, <2>3, <2>4, Zenon DEF Position, C
<1>8. CASE w.out # <<>> /\ w.pending = 0 /\ w.space
  <2>1. Gap(w) = <<Space>> /\ Past(w)
    BY <1>8 DEF Gap, Past
  <2>2. w.out \o <<Space>> = Append(w.out, Space)
    BY <1>1
  <2>3. Append(w.out, Space) \in Seq(C)
    BY <1>1, <1>2
  <2>4. ReadAll(Append(w.out, Space)) = Flush(acc)
    BY <1>3
  <2> QED BY <2>1, <2>2, <2>3, <2>4, Zenon DEF Position, C
<1>9. CASE w.out # <<>> /\ w.pending = 0 /\ ~w.space
  <2>1. Gap(w) = <<>> /\ ~Past(w)
    BY <1>9 DEF Gap, Past
  <2>2. w.out \o <<>> = w.out
    BY <1>1
  <2> QED BY <1>1, <2>1, <2>2, Zenon DEF Position, C
<1> QED BY <1>1, <1>5, <1>6, <1>7, <1>8, <1>9

\* What writing a character does to it: the same as reading it.
LEMMA WritingReads ==
  ASSUME NEW X, NEW w \in Scanning(X), ~(w.depth > 0), NEW c \in X
  PROVE  Position(WriteText(w, c)) = Read(Position(w), c)
<1> DEFINE acc == ReadAll(w.out)
           v == WriteText(w, c)
<1>1. CASE c \in {Space, NewLine}
  <2>1. v = [w EXCEPT !.space = TRUE]
    BY <1>1, Zenon DEF WriteText
  <2>2. v.space /\ v.out = w.out
    BY <2>1 DEF Scanning
  <2>3. Position(v) = Flush(acc)
    BY <2>2, Zenon DEF Position, Past
  <2>4. Read(Position(w), c) = Flush(Position(w))
    BY <1>1, BlanksPart, Flushing, Zenon
  <2>5. Flush(Position(w)) = Flush(acc)
    BY Flushing, Zenon DEF Position
  <2> QED BY <2>3, <2>4, <2>5, Zenon
<1>2. CASE c \notin {Space, NewLine}
  <2>1. v = [w EXCEPT !.out = @ \o Gap(w) \o <<c>>, !.pending = 0, !.space = FALSE]
    BY <1>2, Zenon DEF WriteText, Gap
  <2>2. /\ v.out = (w.out \o Gap(w)) \o <<c>>
        /\ v.pending = 0 /\ v.space = FALSE /\ v.depth = w.depth
    BY <2>1 DEF Scanning
  <2>3. PICK u \in Seq(X \cup {Space, NewLine}) : /\ u = w.out \o Gap(w)
                                                   /\ ReadAll(u) = Position(w)
    BY GapReads
  <2>4. u \o <<c>> = Append(u, c)
    OBVIOUS
  <2>5. ReadAll(Append(u, c)) = Read(Position(w), c)
    <3>1. c \in X \cup {Space, NewLine}
      OBVIOUS
    <3>2. ReadAll(Append(u, c)) = Read(ReadAll(u), c)
      BY <3>1, ReadAllSteps
    <3> QED BY <2>3, <3>2, Zenon
  <2>6. ~Past(v)
    BY <2>2 DEF Past
  <2> QED BY <2>2, <2>3, <2>4, <2>5, <2>6, Zenon DEF Position
<1> QED BY <1>1, <1>2

\* A comment is open after the first k places.
CommentOpen(html, k) ==
  \E i \in 1 .. k : /\ html[i] = CommentStart
                    /\ \A j \in i .. k : html[j] # CommentEnd

\* A comment begins with its start and ends after its end.
LEMMA CommentSteps ==
  ASSUME NEW html, NEW k \in Nat \ {0}
  PROVE  /\ ~CommentOpen(html, 0)
         /\ InComment(html, k) <=> CommentOpen(html, k - 1) \/ html[k] = CommentStart
         /\ CommentOpen(html, k) <=> InComment(html, k) /\ html[k] # CommentEnd
<1>1. ~CommentOpen(html, 0)
  BY DEF CommentOpen
<1>2. ASSUME InComment(html, k) PROVE CommentOpen(html, k - 1) \/ html[k] = CommentStart
  <2>1. PICK i \in 1..k : html[i] = CommentStart /\ \A j \in i..k-1 : html[j] # CommentEnd
    BY <1>2, Zenon DEF InComment
  <2>2. CASE i = k
    BY <2>1, <2>2
  <2>3. CASE i # k
    <3>1. i \in 1..k-1
      BY <2>3
    <3> QED BY <2>1, <3>1, Zenon DEF CommentOpen
  <2> QED BY <2>2, <2>3
<1>3. ASSUME CommentOpen(html, k - 1) \/ html[k] = CommentStart PROVE InComment(html, k)
  <2>1. CASE html[k] = CommentStart
    <3>1. k \in 1..k /\ k..k-1 = {}
      OBVIOUS
    <3> QED BY <2>1, <3>1, Zenon DEF InComment
  <2>2. CASE CommentOpen(html, k - 1)
    <3>1. PICK i \in 1..k-1 : html[i] = CommentStart /\ \A j \in i..k-1 : html[j] # CommentEnd
      BY <2>2, Zenon DEF CommentOpen
    <3>2. i \in 1..k
      OBVIOUS
    <3> QED BY <3>1, <3>2, Zenon DEF InComment
  <2> QED BY <1>3, <2>1, <2>2
<1>4. ASSUME InComment(html, k), html[k] # CommentEnd PROVE CommentOpen(html, k)
  <2>1. PICK i \in 1..k : html[i] = CommentStart /\ \A j \in i..k-1 : html[j] # CommentEnd
    BY <1>4, Zenon DEF InComment
  <2>2. \A j \in i..k : html[j] # CommentEnd
    BY <1>4, <2>1
  <2> QED BY <2>1, <2>2, Zenon DEF CommentOpen
<1>5. ASSUME CommentOpen(html, k) PROVE InComment(html, k) /\ html[k] # CommentEnd
  <2>1. PICK i \in 1..k : html[i] = CommentStart /\ \A j \in i..k : html[j] # CommentEnd
    BY <1>5, Zenon DEF CommentOpen
  <2>2. html[k] # CommentEnd /\ \A j \in i..k-1 : html[j] # CommentEnd
    BY <2>1
  <2> QED BY <2>1, <2>2, Zenon DEF InComment
<1> QED BY <1>1, <1>2, <1>3, <1>4, <1>5

\* A tag of an element called name, outside of comments, that ends it or that
\* begins it; the one at i begins it, whatever it looks like.
Ends(html, name, j) ==
  /\ html[j] \in Tags /\ Markup[html[j]].name = name
  /\ Markup[html[j]].closing /\ ~InComment(html, j)
Begins(html, name, i, j) ==
  /\ html[j] \in Tags /\ Markup[html[j]].name = name
  /\ ~Markup[html[j]].closing /\ ~InComment(html, j)
  /\ j = i \/ (~Markup[html[j]].selfClosed /\ name \notin VoidTags)

\* How many more began than ended in the places from i to j.
Opened(html, i, j) == {x \in i .. j : Begins(html, Markup[html[i]].name, i, x)}
Closed(html, i, j) == {x \in i .. j : Ends(html, Markup[html[i]].name, x)}
Balance(html, i, j) == Cardinality(Opened(html, i, j)) - Cardinality(Closed(html, i, j))

\* An element is open as long as the balance of its tags is positive.
LEMMA CoversIs ==
  ASSUME NEW html, NEW i \in Nat, NEW k \in Nat
  PROVE  Covers(html, i, k) <=> \A j \in i .. k : Balance(html, i, j) > 0
<1> DEFINE name == Markup[html[i]].name
           opens == {j \in i .. k : /\ html[j] \in Tags /\ Markup[html[j]].name = name
                                    /\ ~Markup[html[j]].closing /\ ~InComment(html, j)
                                    /\ \/ j = i
                                       \/ ~Markup[html[j]].selfClosed /\ name \notin VoidTags}
           closes == {j \in i .. k : /\ html[j] \in Tags /\ Markup[html[j]].name = name
                                     /\ Markup[html[j]].closing /\ ~InComment(html, j)}
<1>1. Covers(html, i, k) <=>
        \A j \in i..k : Cardinality({x \in opens : x <= j}) > Cardinality({x \in closes : x <= j})
  BY Zenon DEF Covers
<1>2. ASSUME NEW j \in i..k
      PROVE  /\ {x \in opens : x <= j} = Opened(html, i, j)
             /\ {x \in closes : x <= j} = Closed(html, i, j)
  <2>1. opens = {x \in i..k : Begins(html, name, i, x)} /\ closes = {x \in i..k : Ends(html, name, x)}
    BY Zenon DEF Begins, Ends
  <2> HIDE DEF opens, closes, name
  <2>2. {x \in opens : x <= j} = {x \in i..j : Begins(html, name, i, x)}
    BY <2>1
  <2>3. {x \in closes : x <= j} = {x \in i..j : Ends(html, name, x)}
    BY <2>1
  <2> QED BY <2>2, <2>3, Zenon DEF Opened, Closed, name
<1> HIDE DEF opens, closes
<1>3. ASSUME NEW j \in i..k
      PROVE  /\ Cardinality(Opened(html, i, j)) \in Nat /\ Cardinality(Closed(html, i, j)) \in Nat
  <2>1. IsFiniteSet(i..j)
    BY FS_Interval
  <2>2. Opened(html, i, j) \in SUBSET (i..j) /\ Closed(html, i, j) \in SUBSET (i..j)
    BY DEF Opened, Closed
  <2> QED BY <2>1, <2>2, FS_Subset, FS_CardinalityType
<1>4. ASSUME NEW j \in i..k
      PROVE  Cardinality({x \in opens : x <= j}) > Cardinality({x \in closes : x <= j})
               <=> Balance(html, i, j) > 0
  <2>1. Cardinality(Opened(html, i, j)) > Cardinality(Closed(html, i, j))
          <=> Balance(html, i, j) > 0
    BY <1>3 DEF Balance
  <2> QED BY <1>2, <2>1, Zenon
<1> QED BY <1>1, <1>4

\* What the place j does to the balance.
LEMMA BalanceSteps ==
  ASSUME NEW html, NEW i \in Nat, NEW j \in Nat, i <= j
  PROVE  /\ Begins(html, Markup[html[i]].name, i, i) => Balance(html, i, i) = 1
         /\ Balance(html, i, j) \in Int
         /\ LET name == Markup[html[i]].name
            IN  Balance(html, i, j + 1) =
                  IF Ends(html, name, j + 1) THEN Balance(html, i, j) - 1
                  ELSE IF Begins(html, name, i, j + 1) THEN Balance(html, i, j) + 1
                  ELSE Balance(html, i, j)
<1> DEFINE name == Markup[html[i]].name
<1>1. /\ IsFiniteSet(Opened(html, i, j)) /\ IsFiniteSet(Closed(html, i, j))
      /\ Cardinality(Opened(html, i, j)) \in Nat /\ Cardinality(Closed(html, i, j)) \in Nat
  <2>1. IsFiniteSet(i..j)
    BY FS_Interval
  <2>2. Opened(html, i, j) \in SUBSET (i..j) /\ Closed(html, i, j) \in SUBSET (i..j)
    BY DEF Opened, Closed
  <2> QED BY <2>1, <2>2, FS_Subset, FS_CardinalityType
<1>2. ~(Ends(html, name, j + 1) /\ Begins(html, name, i, j + 1))
  BY DEF Ends, Begins
<1>3. j + 1 \notin Opened(html, i, j) /\ j + 1 \notin Closed(html, i, j)
  BY DEF Opened, Closed
<1>4. /\ Cardinality(Opened(html, i, j) \cup {j + 1}) = Cardinality(Opened(html, i, j)) + 1
      /\ Cardinality(Closed(html, i, j) \cup {j + 1}) = Cardinality(Closed(html, i, j)) + 1
  BY <1>1, <1>3, FS_AddElement
<1>5. /\ Opened(html, i, j + 1) = IF Begins(html, name, i, j + 1)
                                  THEN Opened(html, i, j) \cup {j + 1} ELSE Opened(html, i, j)
      /\ Closed(html, i, j + 1) = IF Ends(html, name, j + 1)
                                  THEN Closed(html, i, j) \cup {j + 1} ELSE Closed(html, i, j)
  <2>1. i..j+1 = (i..j) \cup {j + 1}
    OBVIOUS
  <2> QED BY <2>1, Zenon DEF Opened, Closed
<1>6. ASSUME Begins(html, name, i, i) PROVE Balance(html, i, i) = 1
  <2>1. i..i = {i} /\ ~Ends(html, name, i)
    BY <1>6 DEF Begins, Ends
  <2>2. Opened(html, i, i) = {i} /\ Closed(html, i, i) = {}
    BY <1>6, <2>1, Zenon DEF Opened, Closed
  <2> QED BY <2>2, FS_Singleton, FS_EmptySet DEF Balance
<1>7. Balance(html, i, j) \in Int
  BY <1>1 DEF Balance
<1> HIDE DEF name
<1>8. Balance(html, i, j + 1) =
        IF Ends(html, name, j + 1) THEN Balance(html, i, j) - 1
        ELSE IF Begins(html, name, i, j + 1) THEN Balance(html, i, j) + 1
        ELSE Balance(html, i, j)
  BY <1>1, <1>2, <1>4, <1>5 DEF Balance
<1> QED BY <1>6, <1>7, <1>8 DEF name

\* The element a tag is of is closed by it, opened once more, or neither.
Tagged(w, t) ==
  IF t.name # w.name THEN w.depth
  ELSE IF t.closing THEN w.depth - 1
  ELSE IF t.name \in VoidTags \/ t.selfClosed THEN w.depth
  ELSE w.depth + 1

\* What one more character does to a reader.
Scanned(w, c) ==
  LET v == Scan(w, c)
      t == Markup[c]
      hidden == w.comment \/ c = CommentStart
  IN  /\ v.comment <=> hidden /\ c # CommentEnd
      /\ hidden => /\ v.out = w.out /\ v.pending = w.pending /\ v.space = w.space
                   /\ v.depth = w.depth /\ v.name = w.name
      /\ ~hidden /\ c \notin Tags => v = IF w.depth > 0 THEN w ELSE WriteText(w, c)
      /\ ~hidden /\ c \in Tags /\ w.depth > 0 =>
           /\ v.out = w.out /\ v.name = w.name /\ v.depth = Tagged(w, t)
           /\ v.depth > 0 \/ v.pending > 0
      /\ ~hidden /\ c \in Tags /\ ~(w.depth > 0) =>
           IF t.name \in DropTags /\ ~t.closing
           THEN v.out = w.out /\ v.depth = 1 /\ v.name = t.name
           ELSE v = Brk(w, BreakLevel[t.name])

\* A reader leaves a dropped element with a break, and every other tag is a
\* break of its level; what is skipped leaves no trace.
LEMMA ScanCases ==
  ASSUME NEW X, NEW w \in Scanning(X), NEW c \in X
  PROVE  Scanned(w, c)
<1> DEFINE v == Scan(w, c)
           t == Markup[c]
           hidden == w.comment \/ c = CommentStart
<1>1. CommentStart # CommentEnd /\ CommentStart \notin Tags
  BY NoTag DEF CommentStart, CommentEnd
<1>2. w.comment \in BOOLEAN /\ w.depth \in Int /\ w.pending \in {0, 1, 2}
  BY PendingIs DEF Scanning
<1>3. ASSUME w.comment
      PROVE  v = [w EXCEPT !.comment = c # CommentEnd]
  BY <1>3, Zenon DEF Scan
<1>4. ASSUME ~w.comment, c = CommentStart
      PROVE  v = [w EXCEPT !.comment = TRUE]
  <2>1. Scan(w, CommentStart) = [w EXCEPT !.comment = TRUE]
    BY <1>4, <1>1, Zenon DEF Scan
  <2> QED BY <1>4, <2>1, Zenon
<1>5. ASSUME ~w.comment, c # CommentStart, c \notin Tags
      PROVE  v = IF w.depth > 0 THEN w ELSE WriteText(w, c)
  BY <1>5, Zenon DEF Scan
<1>6. ASSUME ~w.comment, c # CommentStart, c \in Tags
      PROVE  v = IF w.depth > 0 THEN SkipElement(w, t)
                 ELSE IF t.name \in DropTags /\ ~t.closing
                 THEN [w EXCEPT !.depth = 1, !.name = t.name]
                 ELSE Brk(w, BreakLevel[t.name])
  BY <1>6, Zenon DEF Scan
<1> HIDE DEF v
<1>7. ASSUME hidden
      PROVE  /\ v.comment <=> c # CommentEnd
             /\ v.out = w.out /\ v.pending = w.pending /\ v.space = w.space
             /\ v.depth = w.depth /\ v.name = w.name
  <2>1. CASE w.comment
    BY <1>3, <2>1 DEF Scanning
  <2>2. CASE ~w.comment
    BY <1>1, <1>4, <1>7, <2>2 DEF Scanning
  <2> QED BY <2>1, <2>2
<1>8. ASSUME ~hidden, c \in Tags, w.depth > 0
      PROVE  /\ v.out = w.out /\ v.name = w.name /\ v.depth = Tagged(w, t)
             /\ v.depth > 0 \/ v.pending > 0
             /\ v.comment = w.comment
  <2> DEFINE d == IF t.closing THEN w.depth - 1
                  ELSE IF t.name \in VoidTags \/ t.selfClosed THEN w.depth
                  ELSE w.depth + 1
             inner == [w EXCEPT !.depth = d]
  <2>1. v = SkipElement(w, t)
    BY <1>6, <1>8
  <2>2. SkipElement(w, t) =
          IF t.name # w.name THEN w ELSE IF inner.depth = 0 THEN Brk(inner, 1) ELSE inner
    BY Zenon DEF SkipElement
  <2>3. d \in Int /\ d >= 0
    BY <1>2, <1>8
  <2> HIDE DEF d
  <2>4. /\ inner \in Scanning(X) /\ inner.depth = d /\ inner.out = w.out /\ inner.name = w.name
        /\ inner.comment = w.comment /\ inner.pending = w.pending
    BY <2>3 DEF Scanning
  <2> HIDE DEF inner
  <2>5. CASE t.name # w.name
    BY <1>8, <2>1, <2>2, <2>5 DEF Tagged
  <2>6. CASE t.name = w.name /\ d = 0
    <3>1. v = Brk(inner, 1)
      BY <2>1, <2>2, <2>4, <2>6
    <3>2. /\ v.out = w.out /\ v.name = w.name /\ v.depth = d /\ v.comment = w.comment
          /\ v.pending = Highest(w.pending, 1)
      BY <2>4, <3>1 DEF Scanning, Brk
    <3>3. Highest(w.pending, 1) > 0
      BY <1>2 DEF Highest
    <3> QED BY <2>6, <3>2, <3>3 DEF Tagged, d
  <2>7. CASE t.name = w.name /\ d # 0
    <3>1. v = inner
      BY <2>1, <2>2, <2>4, <2>7
    <3>2. Tagged(w, t) = d
      BY <2>7, Zenon DEF Tagged, d
    <3>3. d > 0
      BY <2>3, <2>7
    <3> QED BY <2>4, <3>1, <3>2, <3>3, Zenon
  <2> QED BY <2>5, <2>6, <2>7
<1>9. ASSUME ~hidden, c \in Tags, ~(w.depth > 0)
      PROVE  /\ IF t.name \in DropTags /\ ~t.closing
                THEN v.out = w.out /\ v.depth = 1 /\ v.name = t.name
                ELSE v = Brk(w, BreakLevel[t.name])
             /\ v.comment = w.comment
  <2>1. CASE t.name \in DropTags /\ ~t.closing
    <3>1. v = [w EXCEPT !.depth = 1, !.name = t.name]
      BY <1>6, <1>9, <2>1
    <3> QED BY <2>1, <3>1 DEF Scanning
  <2>2. CASE ~(t.name \in DropTags /\ ~t.closing)
    <3>1. v = Brk(w, BreakLevel[t.name])
      BY <1>6, <1>9, <2>2
    <3> QED BY <2>2, <3>1 DEF Scanning, Brk
  <2> QED BY <2>1, <2>2
<1>10. ASSUME ~hidden, c \notin Tags
       PROVE  /\ v = IF w.depth > 0 THEN w ELSE WriteText(w, c)
              /\ v.comment = w.comment
  <2>1. WriteText(w, c).comment = w.comment
    BY Zenon DEF WriteText, Scanning
  <2> QED BY <1>5, <1>10, <2>1
<1>11. v.comment <=> hidden /\ c # CommentEnd
  BY <1>2, <1>7, <1>8, <1>9, <1>10
<1> HIDE DEF hidden
<1> QED BY <1>7, <1>8, <1>9, <1>10, <1>11, Zenon DEF v, hidden, Scanned

\* A dropped element may be opened at i.
Starts(html, i) ==
  /\ html[i] \in Tags /\ ~InComment(html, i)
  /\ Markup[html[i]].name \in DropTags /\ ~Markup[html[i]].closing

\* The element opened at i is the one the reader f skips after k places.
Skips(f, html, i, k) ==
  Starts(html, i) /\ ~(f[i-1].depth > 0) /\ Covers(html, i, k)

\* What the reader f knows after k places: whether it is in a comment, and how
\* deep it is in the element it skips.
Tracks(f, html, k) ==
  /\ f[k].comment <=> CommentOpen(html, k)
  /\ \A i \in 1..k : Skips(f, html, i, k) =>
       /\ f[k].depth = Balance(html, i, k) /\ f[k].depth > 0
       /\ f[k].name = Markup[html[i]].name
  /\ f[k].depth > 0 => \E i \in 1..k : Skips(f, html, i, k)

\* Covering more is covering less, and the balance of the last place.
LEMMA CoversMore ==
  ASSUME NEW html, NEW i \in Nat, NEW k \in Nat, i < k
  PROVE  Covers(html, i, k) <=> Covers(html, i, k - 1) /\ Balance(html, i, k) > 0
<1>1. k - 1 \in Nat /\ \A j \in i..k : j \in i..k-1 \/ j = k
  OBVIOUS
<1>2. \A j \in i..k-1 : j \in i..k
  OBVIOUS
<1>3. k \in i..k
  OBVIOUS
<1>4. Covers(html, i, k) <=> \A j \in i .. k : Balance(html, i, j) > 0
  BY CoversIs
<1>5. Covers(html, i, k - 1) <=> \A j \in i .. k - 1 : Balance(html, i, j) > 0
  BY <1>1, CoversIs
<1> QED BY <1>1, <1>2, <1>3, <1>4, <1>5, Zenon

\* One more place, and the reader knows as much: a dropped element that is open
\* is the one it skips, at the depth its tags add up to.
LEMMA TracksMore ==
  ASSUME NEW X, NEW html \in Seq(X), NEW f, Scans(f, X, html),
         NEW k \in 1..Len(html), Tracks(f, html, k - 1)
  PROVE  Tracks(f, html, k)
<1> DEFINE w == f[k-1]
           v == f[k]
           c == html[k]
           t == Markup[c]
           hidden == w.comment \/ c = CommentStart
<1>1. k \in Nat \ {0} /\ k - 1 \in 0..Len(html) /\ k - 1 \in Nat
  OBVIOUS
<1>2. w \in Scanning(X) /\ c \in X
  BY <1>1 DEF Scans
<1>3. v = Scan(w, c)
  BY Zenon DEF Scans
<1>4. InComment(html, k) <=> hidden
  BY <1>1, CommentSteps, Zenon DEF Tracks
<1> HIDE DEF w, v, c
<1>5. /\ v.comment <=> hidden /\ c # CommentEnd
      /\ hidden => v.depth = w.depth /\ v.name = w.name
      /\ ~hidden /\ c \notin Tags => v = IF w.depth > 0 THEN w ELSE WriteText(w, c)
      /\ ~hidden /\ c \in Tags /\ w.depth > 0 =>
           v.name = w.name /\ v.depth = Tagged(w, t)
      /\ ~hidden /\ c \in Tags /\ ~(w.depth > 0) =>
           IF t.name \in DropTags /\ ~t.closing
           THEN v.depth = 1 /\ v.name = t.name
           ELSE v = Brk(w, BreakLevel[t.name])
  <2>1. Scanned(w, c)
    BY <1>2, ScanCases
  <2> QED BY <1>3, <2>1, Zenon DEF Scanned
<1>6. w.depth \in Int /\ v.depth \in Int
  <2>1. v \in Scanning(X)
    BY <1>2, <1>3, ScanTyped
  <2> QED BY <1>2, <2>1 DEF Scanning
<1>7. v.comment <=> CommentOpen(html, k)
  BY <1>1, <1>4, <1>5, CommentSteps, Zenon DEF c
\* Outside of an element the reader is in one only at its start.
<1>8. ASSUME ~(w.depth > 0)
      PROVE  /\ v.depth > 0 <=> Starts(html, k)
             /\ Starts(html, k) => v.depth = 1 /\ v.name = Markup[html[k]].name
  <2>1. Starts(html, k) <=> ~hidden /\ c \in Tags /\ t.name \in DropTags /\ ~t.closing
    BY <1>4, Zenon DEF Starts, c
  <2>2. CASE Starts(html, k)
    <3>1. v.depth = 1 /\ v.name = t.name
      BY <1>5, <1>8, <2>1, <2>2
    <3> QED BY <2>2, <3>1 DEF c
  <2>3. CASE ~Starts(html, k)
    <3>1. v.depth = w.depth
      <4>1. \A level : Brk(w, level).depth = w.depth
        BY <1>2 DEF Brk, Scanning
      <4>2. WriteText(w, c).depth = w.depth
        BY <1>2, Zenon DEF WriteText, Scanning
      <4> QED BY <1>5, <1>8, <2>1, <2>3, <4>1, <4>2
    <3> QED BY <1>8, <2>3, <3>1
  <2> QED BY <2>2, <2>3
\* Inside, it keeps the balance of the tags of the element.
<1>9. ASSUME w.depth > 0, NEW i \in 1..k-1, w.depth = Balance(html, i, k - 1),
             w.name = Markup[html[i]].name
      PROVE  v.depth = Balance(html, i, k) /\ v.name = w.name
  <2> DEFINE name == Markup[html[i]].name
  <2>1. Balance(html, i, k) = IF Ends(html, name, k) THEN w.depth - 1
                              ELSE IF Begins(html, name, i, k) THEN w.depth + 1 ELSE w.depth
    <3>1. i \in Nat /\ i <= k - 1 /\ (k - 1) + 1 = k
      BY <1>1
    <3>2. Balance(html, i, (k - 1) + 1) =
            IF Ends(html, name, (k - 1) + 1) THEN Balance(html, i, k - 1) - 1
            ELSE IF Begins(html, name, i, (k - 1) + 1) THEN Balance(html, i, k - 1) + 1
            ELSE Balance(html, i, k - 1)
      BY <1>1, <3>1, BalanceSteps, Zenon
    <3> QED BY <1>9, <3>1, <3>2, Zenon
  <2>2. Ends(html, name, k) <=> c \in Tags /\ ~hidden /\ t.name = w.name /\ t.closing
    BY <1>4, <1>9, Zenon DEF Ends, c
  <2>3. k # i
    OBVIOUS
  <2>4. Begins(html, name, i, k) <=>
          /\ c \in Tags /\ ~hidden /\ t.name = w.name /\ ~t.closing
          /\ ~t.selfClosed /\ t.name \notin VoidTags
    BY <1>4, <1>9, <2>3, Zenon DEF Begins, c
  <2> HIDE DEF name
  <2>5. CASE hidden \/ c \notin Tags
    <3>1. v.depth = w.depth /\ v.name = w.name
      BY <1>5, <1>9, <2>5
    <3> QED BY <2>1, <2>2, <2>4, <2>5, <3>1
  <2>6. CASE ~hidden /\ c \in Tags
    <3>1. v.depth = Tagged(w, t) /\ v.name = w.name
      BY <1>5, <1>9, <2>6
    <3>2. Tagged(w, t) = Balance(html, i, k)
      <4> HIDE DEF t
      <4> QED BY <2>1, <2>2, <2>4, <2>6 DEF Tagged
    <3> QED BY <3>1, <3>2
  <2> QED BY <2>5, <2>6
<1>10. ASSUME NEW i \in 1..k-1
       PROVE  Skips(f, html, i, k) <=> Skips(f, html, i, k - 1) /\ Balance(html, i, k) > 0
  <2>1. i \in Nat /\ k \in Nat /\ i < k
    OBVIOUS
  <2>2. Covers(html, i, k) <=> Covers(html, i, k - 1) /\ Balance(html, i, k) > 0
    BY <2>1, CoversMore
  <2> QED BY <2>2, Zenon DEF Skips
<1>11. ASSUME NEW i \in 1..k-1, Skips(f, html, i, k - 1)
       PROVE  v.depth = Balance(html, i, k) /\ v.name = Markup[html[i]].name
  <2>1. w.depth = Balance(html, i, k - 1) /\ w.depth > 0 /\ w.name = Markup[html[i]].name
    BY <1>11, Zenon DEF Tracks, w
  <2> QED BY <1>9, <2>1
<1>12. Skips(f, html, k, k) <=> Starts(html, k) /\ ~(w.depth > 0)
  <2>1. Covers(html, k, k) <=> \A j \in k..k : Balance(html, k, j) > 0
    BY <1>1, CoversIs
  <2>2. Starts(html, k) => Begins(html, Markup[html[k]].name, k, k)
    BY Zenon DEF Starts, Begins
  <2>3. Starts(html, k) => Balance(html, k, k) = 1
    <3>1. k \in Nat /\ k <= k
      OBVIOUS
    <3> QED BY <2>2, <3>1, BalanceSteps, Zenon
  <2>4. Starts(html, k) => Covers(html, k, k)
    BY <2>1, <2>3
  <2> QED BY <2>4, Zenon DEF Skips, w
<1>13. ASSUME NEW i \in 1..k, Skips(f, html, i, k)
       PROVE  /\ v.depth = Balance(html, i, k) /\ v.depth > 0
              /\ v.name = Markup[html[i]].name
  <2>1. CASE i = k
    <3>1. Starts(html, k) /\ ~(w.depth > 0)
      BY <1>12, <1>13, <2>1
    <3>2. Begins(html, Markup[html[k]].name, k, k)
      BY <3>1, Zenon DEF Starts, Begins
    <3>3. Balance(html, k, k) = 1
      <4>1. k \in Nat /\ k <= k
        OBVIOUS
      <4> QED BY <3>2, <4>1, BalanceSteps, Zenon
    <3> QED BY <1>8, <2>1, <3>1, <3>3
  <2>2. CASE i # k
    <3>1. i \in 1..k-1
      BY <2>2
    <3>2. Skips(f, html, i, k - 1) /\ Balance(html, i, k) > 0
      BY <1>10, <1>13, <3>1
    <3> QED BY <1>11, <3>1, <3>2
  <2> QED BY <2>1, <2>2
<1>14. ASSUME v.depth > 0 PROVE \E i \in 1..k : Skips(f, html, i, k)
  <2>1. CASE ~(w.depth > 0)
    <3>1. Skips(f, html, k, k)
      BY <1>8, <1>12, <1>14, <2>1
    <3> QED BY <3>1
  <2>2. CASE w.depth > 0
    <3>1. PICK i \in 1..k-1 : Skips(f, html, i, k - 1)
      BY <2>2, Zenon DEF Tracks, w
    <3>2. Skips(f, html, i, k)
      BY <1>10, <1>11, <1>14, <3>1
    <3> QED BY <3>2
  <2> QED BY <2>1, <2>2
<1> QED BY <1>7, <1>13, <1>14, Zenon DEF Tracks, v

\* So it does after every place of a body.
LEMMA TracksAll ==
  ASSUME NEW X, NEW html \in Seq(X), NEW f, Scans(f, X, html)
  PROVE  \A k \in 0..Len(html) : Tracks(f, html, k)
<1> DEFINE S == {k \in 0..Len(html) : Tracks(f, html, k)}
<1>1. Len(html) \in Nat
  OBVIOUS
<1>2. 0 \in S
  <2>1. f[0].depth = 0 /\ f[0].comment = FALSE
    <3>1. f[0] = Reader
      BY Zenon DEF Scans
    <3>2. Reader.depth = 0 /\ Reader.comment = FALSE
      BY DEF Reader
    <3> QED BY <3>1, <3>2, Zenon
  <2>2. ~CommentOpen(html, 0)
    BY DEF CommentOpen
  <2>3. 1..0 = {} /\ ~(f[0].depth > 0)
    BY <2>1
  <2>4. Tracks(f, html, 0)
    BY <2>1, <2>2, <2>3, Zenon DEF Tracks
  <2> QED BY <1>1, <2>4
<1>3. ASSUME NEW k \in 1..Len(html), k - 1 \in S PROVE k \in S
  <2>1. Tracks(f, html, k)
    BY <1>3, TracksMore
  <2> QED BY <2>1
<1> HIDE DEF S
<1>4. \A k \in 0..Len(html) : k \in S
  BY <1>1, <1>2, <1>3, Inductive
<1> QED BY <1>4 DEF S

\* g is what Prose defines the dropped places by.
Drops(g, html) ==
  g = [k \in 0 .. Len(html) |->
         \E i \in 1 .. k : Starts(html, i) /\ ~g[i - 1] /\ Covers(html, i, k)]

\* What Prose keeps of the place k.
Kept(html, g, k) ==
  CASE InComment(html, k) -> <<>>
    [] ~InComment(html, k) /\ (g[k] \/ g[k - 1]) -> <<Space>>
    [] OTHER -> IF html[k] \notin Tags THEN <<html[k]>>
                ELSE IF BreakLevel[Markup[html[k]].name] > 0 THEN <<Space>> ELSE <<>>

\* Prose, said with the names of its parts.
LEMMA ProseIs ==
  ASSUME NEW html
  PROVE  Prose(html) =
           FlattenSeq([k \in DOMAIN html |-> Kept(html, CHOOSE g : Drops(g, html), k)])
BY Zenon DEF Prose, Kept, Drops, Starts

\* The places Prose drops are those where the reader skips an element.
LEMMA DropsAre ==
  ASSUME NEW X, NEW html \in Seq(X), NEW f, Scans(f, X, html)
  PROVE  \A k \in 0..Len(html) : (CHOOSE g : Drops(g, html))[k] <=> f[k].depth > 0
<1> DEFINE n == Len(html)
           h == [k \in 0..n |-> IF f[k].depth > 0 THEN TRUE ELSE FALSE]
<1>1. n \in Nat
  OBVIOUS
<1>2. Drops(h, html)
  <2>1. ASSUME NEW k \in 0..n
        PROVE  (IF f[k].depth > 0 THEN TRUE ELSE FALSE)
                 = \E i \in 1..k : Starts(html, i) /\ ~h[i - 1] /\ Covers(html, i, k)
    <3>1. \A i \in 1..k : h[i - 1] <=> f[i - 1].depth > 0
      <4> TAKE i \in 1..k
      <4>1. i - 1 \in 0..n
        BY <1>1
      <4> QED BY <4>1, Zenon
    <3>2. Tracks(f, html, k)
      BY TracksAll
    <3> HIDE DEF h
    <3>3. (\E i \in 1..k : Starts(html, i) /\ ~h[i - 1] /\ Covers(html, i, k))
            <=> \E i \in 1..k : Skips(f, html, i, k)
      BY <3>1, Zenon DEF Skips
    <3> QED BY <3>2, <3>3, Zenon DEF Tracks
  <2>2. h = [k \in 0..n |-> \E i \in 1..k : Starts(html, i) /\ ~h[i - 1] /\ Covers(html, i, k)]
    BY <2>1, Zenon
  <2> QED BY <2>2, Zenon DEF Drops
<1> DEFINE d == CHOOSE g : Drops(g, html)
<1>3. Drops(d, html)
  BY <1>2, Zenon
<1> HIDE DEF d
<1>4. \A k \in 0..n : d[k] <=> \E i \in 1..k : Starts(html, i) /\ ~d[i - 1] /\ Covers(html, i, k)
  BY <1>3, Zenon DEF Drops
<1>5. \A k \in 0..n : h[k] <=> \E i \in 1..k : Starts(html, i) /\ ~h[i - 1] /\ Covers(html, i, k)
  BY <1>2, Zenon DEF Drops
<1> DEFINE S == {k \in 0..n : \A j \in 0..k : d[j] <=> h[j]}
<1> HIDE DEF h
<1>6. 0 \in S
  <2>1. 1..0 = {} /\ 0 \in 0..n /\ \A j \in 0..0 : j = 0
    BY <1>1
  <2>2. d[0] <=> h[0]
    BY <1>4, <1>5, <2>1, Zenon
  <2> QED BY <2>1, <2>2
<1>7. ASSUME NEW k \in 1..n, k - 1 \in S PROVE k \in S
  <2>1. \A i \in 1..k : i - 1 \in 0..k-1 /\ (d[i - 1] <=> h[i - 1])
    BY <1>7
  <2>2. k \in 0..n
    BY <1>1
  <2>3. d[k] <=> h[k]
    BY <1>4, <1>5, <2>1, <2>2, Zenon
  <2>4. \A j \in 0..k : j = k \/ j \in 0..k-1
    OBVIOUS
  <2> QED BY <1>7, <2>2, <2>3, <2>4
<1> HIDE DEF S
<1>8. \A k \in 0..n : k \in S
  BY <1>1, <1>6, <1>7, Inductive
<1>9. ASSUME NEW k \in 0..n PROVE d[k] <=> f[k].depth > 0
  <2>1. k \in 0..k
    BY <1>1
  <2>2. d[k] <=> h[k]
    BY <1>8, <2>1 DEF S
  <2>3. h[k] <=> f[k].depth > 0
    BY DEF h
  <2> QED BY <2>2, <2>3
<1> QED BY <1>9 DEF d

\* f is what FlattenSeq has, after every sequence.
Flattens(f, C, seqs) ==
  /\ f \in [0..Len(seqs) -> Seq(C)]
  /\ f[0] = <<>>
  /\ \A k \in 1..Len(seqs) : f[k] = f[k-1] \o seqs[k]

\* FlattenSeq puts its sequences together one after the other.
LEMMA FlattenRuns ==
  ASSUME NEW C, NEW seqs \in Seq(Seq(C))
  PROVE  \E f : Flattens(f, C, seqs) /\ FlattenSeq(seqs) = f[Len(seqs)]
<1> DEFINE n == Len(seqs)
           A == Seq(C)
           step == [p \in A \X A |-> p[1] \o p[2]]
<1>1. n \in Nat /\ DOMAIN seqs = 1..n /\ \A k \in 1..n : seqs[k] \in A
  OBVIOUS
<1>2. step \in [A \X A -> A] /\ <<>> \in A
  OBVIOUS
<1>3. PICK g : Tabulates(g, A, <<>>, seqs, step)
  <2> HIDE DEF step, A
  <2>1. seqs \in Seq(A)
    BY DEF A
  <2> QED BY <1>2, <2>1, FoldExists
<1>4. PICK f : Evaluates(f, g, A, <<>>, seqs, step)
  <2> HIDE DEF step, A
  <2>1. seqs \in Seq(A)
    BY DEF A
  <2>2. Unfolds(g, A, <<>>, seqs, step)
    BY <1>3, Zenon DEF Unfolds, Tabulates
  <2> QED BY <1>2, <2>1, <2>2, FoldRuns
<1>5. f \in [0..n -> A] /\ f[0] = <<>> /\ \A k \in 1..n : f[k] = step[<<f[k-1], seqs[k]>>]
  BY <1>4, Zenon DEF Evaluates, Runs
<1>6. \A k \in 1..n : f[k-1] \in A /\ f[k] = f[k-1] \o seqs[k]
  <2> TAKE k \in 1..n
  <2>1. f[k-1] \in A
    <3>1. k - 1 \in 0..n
      BY <1>1
    <3> QED BY <1>5, <3>1, Zenon
  <2> QED BY <1>1, <1>5, <2>1
<1>7. Flattens(f, C, seqs)
  BY <1>5, <1>6, Zenon DEF Flattens
<1>8. FlattenSeq(seqs) = f[n]
  <2>1. CASE n = 0
    <3>1. seqs = <<>>
      BY <2>1
    <3>2. FlattenSeq(seqs) = seqs
      BY <2>1, Zenon DEF FlattenSeq
    <3> QED BY <1>5, <2>1, <3>1, <3>2, Zenon
  <2>2. CASE n # 0
    <3> DEFINE Flat(fl) == [i \in 1..n |-> IF i = 1 THEN seqs[i] ELSE fl[i-1] \o seqs[i]]
               it == CHOOSE fl : fl = Flat(fl)
               known == [i \in 1..n |-> f[i]]
    <3>1. FlattenSeq(seqs) = it[n]
      BY <2>2, Zenon DEF FlattenSeq
    <3>2. known = Flat(known)
      <4>1. ASSUME NEW i \in 1..n
            PROVE  f[i] = IF i = 1 THEN seqs[i] ELSE known[i-1] \o seqs[i]
        <5>1. CASE i = 1
          <6>1. f[i-1] = <<>>
            BY <1>5, <5>1
          <6>2. <<>> \o seqs[i] = seqs[i]
            BY <1>1
          <6> QED BY <1>6, <5>1, <6>1, <6>2
        <5>2. CASE i # 1
          <6>1. i - 1 \in 1..n
            BY <1>1, <5>2
          <6>2. known[i-1] = f[i-1]
            BY <6>1
          <6> HIDE DEF known
          <6> QED BY <1>6, <5>2, <6>2, Zenon
        <5> QED BY <5>1, <5>2
      <4>2. [i \in 1..n |-> f[i]]
              = [i \in 1..n |-> IF i = 1 THEN seqs[i] ELSE known[i-1] \o seqs[i]]
        BY <4>1, Zenon
      <4> QED BY <4>2, Zenon
    <3> HIDE DEF known
    <3>3. it = Flat(it)
      <4> HIDE DEF Flat
      <4> QED BY <3>2
    <3> HIDE DEF it
    <3> DEFINE S == {k \in 0..n : k = 0 \/ it[k] = f[k]}
    <3>4. 0 \in S
      BY <1>1
    <3>5. ASSUME NEW k \in 1..n, k - 1 \in S PROVE k \in S
      <4>1. it[k] = IF k = 1 THEN seqs[k] ELSE it[k-1] \o seqs[k]
        BY <3>3, Zenon
      <4>2. CASE k = 1
        <5>1. f[k-1] = <<>>
          BY <1>5, <4>2
        <5>2. <<>> \o seqs[k] = seqs[k]
          BY <1>1
        <5>3. it[k] = f[k]
          BY <1>6, <4>1, <4>2, <5>1, <5>2
        <5> QED BY <5>3
      <4>3. CASE k # 1
        <5>1. it[k-1] = f[k-1]
          BY <3>5, <4>3
        <5>2. it[k] = f[k]
          BY <1>6, <4>1, <4>3, <5>1, Zenon
        <5> QED BY <5>2
      <4> QED BY <4>2, <4>3
    <3> HIDE DEF S
    <3>6. \A k \in 0..n : k \in S
      BY <1>1, <3>4, <3>5, Inductive
    <3>7. it[n] = f[n]
      BY <1>1, <2>2, <3>6 DEF S
    <3> QED BY <3>1, <3>7
  <2> QED BY <2>1, <2>2
<1> QED BY <1>7, <1>8

\* One step of the reader of a body and of the reader of its prose.
LEMMA KeepingReads ==
  ASSUME NEW X, NEW html \in Seq(X), NEW f, Scans(f, X, html), NEW k \in 1..Len(html),
         NEW g, g[k] <=> f[k].depth > 0, g[k-1] <=> f[k-1].depth > 0,
         NEW before \in Seq(X \cup {Space}), ReadAll(before) = Position(f[k-1])
  PROVE  /\ Kept(html, g, k) \in Seq(X \cup {Space})
         /\ ReadAll(before \o Kept(html, g, k)) = Position(f[k])
<1> DEFINE C == X \cup {Space}
           w == f[k-1]
           v == f[k]
           c == html[k]
           t == Markup[c]
           hidden == w.comment \/ c = CommentStart
<1>1. k \in Nat \ {0} /\ k - 1 \in 0..Len(html) /\ k - 1 \in Nat
  OBVIOUS
<1>2. w \in Scanning(X) /\ c \in X
  <2>1. w \in Scanning(X)
    BY <1>1, Zenon DEF Scans
  <2> QED BY <2>1
<1>3. v = Scan(w, c)
  BY Zenon DEF Scans
<1>4. InComment(html, k) <=> hidden
  <2>1. Tracks(f, html, k - 1)
    BY <1>1, TracksAll
  <2> QED BY <1>1, <2>1, CommentSteps, Zenon DEF Tracks
<1>5. (g[k] <=> v.depth > 0) /\ (g[k-1] <=> w.depth > 0)
  OBVIOUS
<1> HIDE DEF w, v, C
<1>6. /\ hidden => /\ v.out = w.out /\ v.pending = w.pending /\ v.space = w.space
                   /\ v.depth = w.depth
      /\ ~hidden /\ c \notin Tags => v = IF w.depth > 0 THEN w ELSE WriteText(w, c)
      /\ ~hidden /\ c \in Tags /\ w.depth > 0 => v.out = w.out /\ (v.depth > 0 \/ v.pending > 0)
      /\ ~hidden /\ c \in Tags /\ ~(w.depth > 0) =>
           IF t.name \in DropTags /\ ~t.closing THEN v.out = w.out /\ v.depth = 1
           ELSE v = Brk(w, BreakLevel[t.name])
  <2>1. Scanned(w, c)
    BY <1>2, ScanCases
  <2> QED BY <1>3, <2>1, Zenon DEF Scanned
<1>7. ReadAll(before) = Position(w) /\ Space \in C /\ c \in C /\ before \in Seq(C)
  BY <1>2 DEF w, C
<1>8. before \o <<>> = before /\ \A x \in C : before \o <<x>> = Append(before, x)
  BY <1>7
<1>9. \A x \in C : ReadAll(before \o <<x>>) = Read(Position(w), x)
  <2> TAKE x \in C
  <2>1. ReadAll(Append(before, x)) = Read(ReadAll(before), x)
    BY <1>7, ReadAllSteps
  <2> QED BY <1>7, <1>8, <2>1, Zenon
\* A blank, however long, leaves the word before it.
<1>10. ReadAll(before \o <<Space>>) = Flush(ReadAll(w.out))
  <2>1. Read(Position(w), Space) = Flush(Position(w))
    BY BlanksPart, Flushing, Zenon
  <2>2. Flush(Position(w)) = Flush(ReadAll(w.out))
    BY Flushing, Zenon DEF Position
  <2> QED BY <1>7, <1>9, <2>1, <2>2, Zenon
<1>11. /\ <<>> \in Seq(C) /\ <<Space>> \in Seq(C) /\ <<c>> \in Seq(C)
  BY <1>7
<1>12. w.pending \in {0, 1, 2}
  BY <1>2, PendingIs DEF Scanning
<1> HIDE DEF c, hidden
<1>13. CASE hidden
  <2>1. Kept(html, g, k) = <<>>
    BY <1>4, <1>13, Zenon DEF Kept
  <2>2. Position(v) = Position(w)
    BY <1>6, <1>13, Zenon DEF Position, Past
  <2> QED BY <1>7, <1>8, <1>11, <2>1, <2>2, Zenon DEF C, w, v
<1>14. CASE ~hidden /\ (w.depth > 0 \/ v.depth > 0)
  <2>1. Kept(html, g, k) = <<Space>>
    BY <1>4, <1>5, <1>14, Zenon DEF Kept
  <2>2. v.out = w.out /\ Past(v)
    <3>1. CASE w.depth > 0
      <4>1. CASE c \in Tags
        BY <1>6, <1>14, <3>1, <4>1 DEF Past
      <4>2. CASE c \notin Tags
        <5>1. v = w
          BY <1>6, <1>14, <3>1, <4>2
        <5> QED BY <3>1, <5>1 DEF Past
      <4> QED BY <4>1, <4>2
    <3>2. CASE ~(w.depth > 0) /\ v.depth > 0
      <4>1. v.out = w.out
        <5>1. v.out = w.out \/ \E level : v = Brk(w, level) \/ v = WriteText(w, c)
          BY <1>6, <1>14, <3>2, Zenon
        <5>2. \A level : Brk(w, level).depth = w.depth
          BY <1>2 DEF Brk, Scanning
        <5>3. WriteText(w, c).depth = w.depth
          BY <1>2, Zenon DEF WriteText, Scanning
        <5> QED BY <3>2, <5>1, <5>2, <5>3, Zenon
      <4> QED BY <3>2, <4>1 DEF Past
    <3> QED BY <1>14, <3>1, <3>2
  <2>3. Position(v) = Flush(ReadAll(w.out))
    BY <2>2, Zenon DEF Position
  <2> QED BY <1>10, <1>11, <2>1, <2>3, Zenon DEF C, w, v
<1>15. CASE ~hidden /\ ~(w.depth > 0) /\ ~(v.depth > 0) /\ c \notin Tags
  <2>1. Kept(html, g, k) = <<c>>
    BY <1>4, <1>5, <1>15, Zenon DEF Kept, c
  <2>2. v = WriteText(w, c)
    BY <1>6, <1>15
  <2>3. Position(v) = Read(Position(w), c)
    BY <1>2, <1>15, <2>2, WritingReads
  <2> QED BY <1>7, <1>9, <1>11, <2>1, <2>3, Zenon DEF C, w, v
<1>16. CASE ~hidden /\ ~(w.depth > 0) /\ ~(v.depth > 0) /\ c \in Tags
  <2> DEFINE level == BreakLevel[t.name]
  <2>1. Kept(html, g, k) = IF level > 0 THEN <<Space>> ELSE <<>>
    BY <1>4, <1>5, <1>16, Zenon DEF Kept, c
  <2>2. v = Brk(w, level)
    BY <1>6, <1>16
  <2>3. level \in {0, 1, 2}
    <3>1. level \in Pending
      BY <1>16 DEF Pending
    <3> QED BY <3>1, PendingIs
  <2> HIDE DEF level
  <2>4. /\ v.out = w.out /\ v.space = w.space /\ v.depth = w.depth
        /\ v.pending = Highest(w.pending, level)
    BY <1>2, <2>2 DEF Brk, Scanning
  <2>5. CASE level > 0
    <3>1. Past(v)
      BY <1>12, <2>3, <2>4, <2>5 DEF Past, Highest
    <3>2. Position(v) = Flush(ReadAll(w.out))
      BY <2>4, <3>1, Zenon DEF Position
    <3> QED BY <1>10, <1>11, <2>1, <2>5, <3>2, Zenon DEF C, w, v
  <2>6. CASE ~(level > 0)
    <3>1. v.pending = w.pending
      BY <1>12, <2>3, <2>4, <2>6 DEF Highest
    <3>2. Position(v) = Position(w)
      BY <2>4, <3>1, Zenon DEF Position, Past
    <3> QED BY <1>7, <1>8, <1>11, <2>1, <2>6, <3>2, Zenon DEF C, w, v
  <2> QED BY <2>5, <2>6
<1> QED BY <1>13, <1>14, <1>15, <1>16

\* The words of the plain text of a body are the words of its prose.
LEMMA PlainReadsProse ==
  ASSUME NEW X, NEW html \in Seq(X)
  PROVE  Tokenize(Plain(html)) = Tokenize(Prose(html))
<1> DEFINE n == Len(html)
           C == X \cup {Space}
           g == CHOOSE d : Drops(d, html)
           kept == [k \in DOMAIN html |-> Kept(html, g, k)]
<1>1. n \in Nat /\ DOMAIN html = 1..n
  OBVIOUS
<1>2. PICK f : Scans(f, X, html) /\ FoldLeft(Scan, Reader, html) = f[n]
  BY ScanRuns
<1>3. \A k \in 0..n : g[k] <=> f[k].depth > 0
  BY <1>2, DropsAre
<1> HIDE DEF g
<1>4. \A k \in 1..n : Kept(html, g, k) \in Seq(C)
  <2> TAKE k \in 1..n
  <2>1. <<>> \in Seq(C) /\ <<Space>> \in Seq(C) /\ <<html[k]>> \in Seq(C)
    BY <1>1
  <2> HIDE DEF C
  <2> QED BY <2>1, Zenon DEF Kept
<1>5. kept \in Seq(Seq(C)) /\ Len(kept) = n /\ \A k \in 1..n : kept[k] = Kept(html, g, k)
  <2> HIDE DEF C
  <2> QED BY <1>1, <1>4
<1> HIDE DEF kept
<1>6. PICK p : Flattens(p, C, kept) /\ FlattenSeq(kept) = p[n]
  BY <1>5, FlattenRuns
<1> HIDE DEF C
<1> DEFINE S == {k \in 0..n : ReadAll(p[k]) = Position(f[k])}
<1>7. 0 \in S
  <2>1. f[0] = Reader
    BY <1>2, Zenon DEF Scans
  <2>2. Reader.out = <<>> /\ Reader.pending = 0 /\ Reader.space = FALSE /\ Reader.depth = 0
    BY DEF Reader
  <2>3. ~Past(Reader)
    BY <2>2 DEF Past
  <2>4. p[0] = <<>>
    BY <1>6, Zenon DEF Flattens
  <2>5. ReadAll(p[0]) = Position(f[0])
    BY <2>1, <2>2, <2>3, <2>4, Zenon DEF Position
  <2> QED BY <1>1, <2>5
<1>8. ASSUME NEW k \in 1..n, k - 1 \in S PROVE k \in S
  <2>1. k - 1 \in 0..n /\ k \in 0..n
    BY <1>1
  <2>2. p[k-1] \in Seq(C) /\ p[k] = p[k-1] \o Kept(html, g, k)
    BY <1>5, <1>6, <2>1, Zenon DEF Flattens
  <2>3. ReadAll(p[k-1]) = Position(f[k-1])
    BY <1>8
  <2>4. (g[k] <=> f[k].depth > 0) /\ (g[k-1] <=> f[k-1].depth > 0)
    BY <1>3, <2>1
  <2> HIDE DEF S
  <2>5. ReadAll(p[k-1] \o Kept(html, g, k)) = Position(f[k])
    <3>1. PICK b \in Seq(X \cup {Space}) : b = p[k-1]
      BY <2>2, Zenon DEF C
    <3>2. ReadAll(b) = Position(f[k-1])
      BY <2>3, <3>1, Zenon
    <3>3. Scans(f, X, html) /\ k \in 1..Len(html)
      BY <1>2
    <3>4. ReadAll(b \o Kept(html, g, k)) = Position(f[k])
      <4> HIDE DEF n
      <4> QED BY <2>4, <3>2, <3>3, KeepingReads
    <3> QED BY <3>1, <3>4, Zenon
  <2> QED BY <2>1, <2>2, <2>5, Zenon DEF S
<1> HIDE DEF S
<1>9. \A k \in 0..n : k \in S
  BY <1>1, <1>7, <1>8, Inductive
<1>10. ReadAll(p[n]) = Position(f[n])
  BY <1>1, <1>9 DEF S
<1>11. Flush(Position(f[n])) = Flush(ReadAll(f[n].out))
  BY Flushing, Zenon DEF Position
<1>12. Plain(html) = f[n].out /\ Prose(html) = p[n]
  <2>1. Prose(html) = FlattenSeq(kept)
    BY ProseIs, Zenon DEF kept, g
  <2> QED BY <1>2, <1>6, <2>1, Zenon DEF Plain
<1> QED BY <1>10, <1>11, <1>12, TokenizeIs, Zenon

-----------------------------------------------------------------------------
(* Typing on.                                                              *)

\* Two places that are the first of the same kind are one.
LEMMA FirstIsOne ==
  ASSUME NEW n \in Nat, NEW i \in Nat, NEW f \in Nat, NEW h \in Nat, NEW In, f <= n + 1, h <= n + 2,
         f <= n => f >= i /\ f \in In,
         h <= n + 1 => h >= i /\ h \in In,
         \A k \in Nat : i <= k /\ k < f => k \notin In \/ k > n,
         \A k \in Nat : i <= k /\ k < h => k \notin In \/ k > n + 1
  PROVE  /\ f <= n => h = f
         /\ ~(f <= n) => f = n + 1 /\ h = IF n + 1 \in In /\ i <= n + 1 THEN n + 1 ELSE n + 2
<1>1. ASSUME f <= n PROVE h = f
  <2>1. ~(h < f)
    <3> SUFFICES ASSUME h < f PROVE FALSE
      OBVIOUS
    <3>1. h <= n + 1 /\ ~(h > n)
      BY <1>1
    <3> QED BY <3>1
  <2>2. ~(f < h)
    <3> SUFFICES ASSUME f < h PROVE FALSE
      OBVIOUS
    <3>1. f >= i /\ f \in In /\ ~(f > n + 1)
      BY <1>1
    <3> QED BY <3>1
  <2> QED BY <2>1, <2>2
<1>2. ASSUME ~(f <= n) PROVE f = n + 1 /\ h = IF n + 1 \in In /\ i <= n + 1 THEN n + 1 ELSE n + 2
  <2>1. f = n + 1
    BY <1>2
  <2>2. ~(h <= n)
    <3> SUFFICES ASSUME h <= n PROVE FALSE
      OBVIOUS
    <3>1. h <= n + 1 /\ ~(h > n) /\ h < f
      BY <2>1
    <3> QED BY <3>1
  <2>3. CASE n + 1 \in In /\ i <= n + 1
    <3>1. ~(n + 1 < h)
      BY <2>3
    <3> QED BY <2>1, <2>2, <2>3, <3>1
  <2>4. CASE ~(n + 1 \in In /\ i <= n + 1)
    <3>1. h # n + 1
      BY <2>4
    <3> QED BY <2>1, <2>2, <2>4, <3>1
  <2> QED BY <2>3, <2>4
<1> QED BY <1>1, <1>2

\* Where Find stops in a text with one key more: where it did, unless it had
\* come to the end.
LEMMA FindMore ==
  ASSUME NEW q \in Seq(Keys), NEW c \in Keys, NEW i \in Nat, i >= 1, NEW S
  PROVE  /\ Find(q, i, S) \in Nat
         /\ Find(q, i, S) <= Len(q) => Find(Append(q, c), i, S) = Find(q, i, S)
         /\ ~(Find(q, i, S) <= Len(q)) =>
              /\ Find(q, i, S) = Len(q) + 1
              /\ Find(Append(q, c), i, S) =
                   IF c \in S /\ i <= Len(q) + 1 THEN Len(q) + 1 ELSE Len(q) + 2
<1> DEFINE n == Len(q)
           r == Append(q, c)
           f == Find(q, i, S)
           h == Find(r, i, S)
           In == {k \in 1..n+1 : r[k] \in S}
<1>1. /\ n \in Nat /\ Len(r) = n + 1 /\ r[n + 1] = c
      /\ \A k \in 1..n : r[k] = q[k]
  OBVIOUS
<1>2. /\ f \in Nat /\ f <= n + 1 /\ (f <= n => f >= i /\ q[f] \in S)
      /\ \A k \in Nat : i <= k /\ k < f => q[k] \notin S \/ k > n
  BY <1>1, FindTyped
<1> HIDE DEF r
<1>3. /\ h \in Nat /\ h <= n + 2 /\ (h <= n + 1 => h >= i /\ r[h] \in S)
      /\ \A k \in Nat : i <= k /\ k < h => r[k] \notin S \/ k > n + 1
  <2>1. Len(r) \in Nat /\ Len(r) + 1 = n + 2
    BY <1>1
  <2> HIDE DEF n
  <2> QED BY <1>1, <2>1, FindTyped
<1> HIDE DEF f, h
<1>4. f <= n => f >= i /\ f \in In
  BY <1>1, <1>2
<1>5. h <= n + 1 => h >= i /\ h \in In
  BY <1>1, <1>3
<1>6. \A k \in Nat : i <= k /\ k < f => k \notin In \/ k > n
  BY <1>1, <1>2
<1>7. \A k \in Nat : i <= k /\ k < h => k \notin In \/ k > n + 1
  BY <1>1, <1>3
<1>8. n + 1 \in In <=> c \in S
  BY <1>1
<1> HIDE DEF n, In
<1>9. /\ f <= n => h = f
      /\ ~(f <= n) => f = n + 1 /\ h = IF n + 1 \in In /\ i <= n + 1 THEN n + 1 ELSE n + 2
  BY <1>1, <1>2, <1>3, <1>4, <1>5, <1>6, <1>7, FirstIsOne
<1> QED BY <1>2, <1>8, <1>9 DEF f, h, r, n

\* What f has at a, every step up to b keeps.
Carries(f, x, a, b) == f[a] = x /\ \A k \in a+1..b : f[k-1] = x => f[k] = x

\* What a step keeps stays along a stretch.
LEMMA Stretch ==
  ASSUME NEW f, NEW x, NEW a \in Nat, NEW b \in Nat, Carries(f, x, a, b)
  PROVE  \A k \in a..b : f[k] = x
<1> DEFINE K == {k \in a..b : f[k] # x}
<1> SUFFICES ASSUME K # {} PROVE FALSE
  OBVIOUS
<1>1. PICK k \in K : \A l \in K : k <= l
  <2>1. K \subseteq Nat
    OBVIOUS
  <2> HIDE DEF K
  <2> QED BY <2>1, Least
<1>2. k \in a..b /\ f[k] # x
  OBVIOUS
<1>3. k # a
  BY <1>2 DEF Carries
<1>4. k \in a+1..b /\ k - 1 \in a..b /\ ~(k <= k - 1)
  BY <1>2, <1>3
<1>5. f[k-1] = x
  BY <1>1, <1>4
<1> QED BY <1>2, <1>4, <1>5 DEF Carries

\* A space at the end of a text makes no word and parts none.
LEMMA SpaceReads ==
  ASSUME NEW text \in Seq(Keys)
  PROVE  Tokenize(Append(text, Space)) = Tokenize(text)
<1>1. Space \in Keys /\ Space \notin Letters
  BY BlanksPart DEF Keys
<1>2. ReadAll(Append(text, Space)) = Read(ReadAll(text), Space)
  BY <1>1, ReadAllSteps
<1>3. Read(ReadAll(text), Space) = Flush(ReadAll(text))
  BY <1>1, Flushing
<1>4. Flush(Flush(ReadAll(text))) = Flush(ReadAll(text))
  BY Flushing
<1> QED BY <1>2, <1>3, <1>4, TokenizeIs, Zenon

\* A stretch of a text that ends before its last key.
LEMMA SubSeqMore ==
  ASSUME NEW q \in Seq(Keys), NEW c \in Keys, NEW b \in Nat, b >= 1, b <= Len(q) + 1
  PROVE  /\ \A e \in Nat : e <= Len(q) => SubSeq(Append(q, c), b, e) = SubSeq(q, b, e)
         /\ SubSeq(q, b, Len(q)) \in Seq(Keys)
         /\ SubSeq(Append(q, c), b, Len(q) + 1) = Append(SubSeq(q, b, Len(q)), c)
<1> DEFINE n == Len(q)
           r == Append(q, c)
<1>1. /\ n \in Nat /\ Len(r) = n + 1 /\ r[n + 1] = c /\ r \in Seq(Keys)
      /\ \A k \in 1..n : r[k] = q[k]
  OBVIOUS
<1> HIDE DEF r
<1>2. ASSUME NEW e \in Nat, e <= n PROVE SubSeq(r, b, e) = SubSeq(q, b, e)
  BY <1>1, <1>2
<1>3. SubSeq(q, b, n) \in Seq(Keys)
  BY <1>1
<1>4. SubSeq(r, b, n + 1) = Append(SubSeq(q, b, n), c)
  BY <1>1, <1>3
<1> QED BY <1>2, <1>3, <1>4 DEF n, r

\* The pieces of a text with one key more: the first of a piece.
LEMMA FirstMore ==
  ASSUME NEW q \in Seq(Keys), NEW c \in Keys, NEW i \in 1 .. Len(q) + 2,
         ~(PieceFirst(q, i) > Len(q))
  PROVE  /\ PieceFirst(Append(q, c), i) = PieceFirst(q, i)
         /\ PieceSign(Append(q, c), i) = PieceSign(q, i)
         /\ PieceQuoted(Append(q, c), i) = PieceQuoted(q, i)
<1> DEFINE n == Len(q)
           r == Append(q, c)
           s == PieceStart(q, i)
           b == PieceFirst(q, i)
<1>1. /\ n \in Nat /\ Len(r) = n + 1 /\ r \in Seq(Keys) /\ i \in Nat /\ i >= 1
      /\ \A k \in 1..n : r[k] = q[k]
  OBVIOUS
<1>2. s \in Nat /\ (s <= n => PieceStart(r, i) = s /\ s >= i)
  <2>1. s \in Nat /\ (s <= n => PieceStart(r, i) = s)
    BY <1>1, FindMore DEF PieceStart
  <2>2. s <= n => s >= i
    BY <1>1, FindTyped DEF PieceStart
  <2> QED BY <2>1, <2>2
<1>3. b \in i..n
  BY PieceAhead
<1> HIDE DEF r
<1>4. s <= n
  <2>1. b = s \/ b = s + 1
    BY DEF PieceFirst
  <2> HIDE DEF s, b
  <2> QED BY <1>1, <1>2, <1>3, <2>1
<1>5. s \in 1..n
  BY <1>1, <1>2, <1>4
<1>6. s <= Len(r) /\ r[s] = q[s] /\ PieceStart(r, i) = s
  BY <1>1, <1>2, <1>5
<1>7. PieceSign(r, i) = PieceSign(q, i)
  BY <1>4, <1>6, Zenon DEF PieceSign
<1>8. PieceFirst(r, i) = b
  BY <1>6, <1>7, Zenon DEF PieceFirst
<1>9. r[b] = q[b]
  BY <1>1, <1>3
<1>10. PieceQuoted(r, i) = PieceQuoted(q, i)
  BY <1>8, <1>9, Zenon DEF PieceQuoted
<1> QED BY <1>7, <1>8, <1>10 DEF r

\* There is no piece behind a text.
LEMMA NoneBehind ==
  ASSUME NEW q \in Seq(Keys), NEW i \in Nat, i > Len(q)
  PROVE  PieceFirst(q, i) = Len(q) + 1
<1> DEFINE s == PieceStart(q, i)
<1>1. s \in Nat /\ s <= Len(q) + 1 /\ (s <= Len(q) => s >= i)
  BY FindTyped DEF PieceStart
<1> HIDE DEF s
<1>2. s = Len(q) + 1 /\ ~(s <= Len(q))
  BY <1>1
<1>3. PieceSign(q, i) = ""
  BY <1>2, Zenon DEF PieceSign, s
<1> QED BY <1>2, <1>3, Zenon DEF PieceFirst, s

\* A piece that ends in the text is the same with one key more, and so is a
\* word that a space ends.
LEMMA EndMore ==
  ASSUME NEW q \in Seq(Keys), NEW c \in Keys, NEW i \in 1 .. Len(q) + 2,
         ~(PieceFirst(q, i) > Len(q)),
         PieceEnd(q, i) <= Len(q) \/ (c = Space /\ ~PieceQuoted(q, i))
                                  \/ (c = Quote /\ PieceQuoted(q, i)),
         NEW rest
  PROVE  /\ PieceNext(Append(q, c), i) = PieceNext(q, i)
         /\ WithPiece(Append(q, c), i, rest) = WithPiece(q, i, rest)
<1> DEFINE n == Len(q)
           r == Append(q, c)
           b == PieceFirst(q, i)
           e == PieceEnd(q, i)
<1>1. n \in Nat /\ i \in Nat /\ i >= 1
  OBVIOUS
<1>2. b \in i..n /\ e \in Nat
  BY PieceAhead
<1>3. PieceFirst(r, i) = b /\ PieceSign(r, i) = PieceSign(q, i) /\ PieceQuoted(r, i) = PieceQuoted(q, i)
  BY FirstMore
<1> HIDE DEF r
<1>4. PieceEnd(r, i) = e /\ e <= n + 1
  <2>1. CASE PieceQuoted(q, i)
    <3>1. e = Find(q, b + 1, {Quote}) /\ PieceEnd(r, i) = Find(r, b + 1, {Quote})
      BY <1>3, <2>1, Zenon DEF PieceEnd
    <3>2. b + 1 \in Nat /\ b + 1 >= 1 /\ b + 1 <= n + 1 /\ (e <= n \/ c \in {Quote})
      <4>1. c = Space => c # Quote
        BY DEF Space, Quote
      <4>2. e <= n \/ c \in {Quote}
        BY <2>1, <4>1
      <4> HIDE DEF b, e
      <4> QED BY <1>1, <1>2, <4>2
    <3> HIDE DEF b, e
    <3> QED BY <3>1, <3>2, FindMore DEF r
  <2>2. CASE ~PieceQuoted(q, i)
    <3>1. e = Find(q, b, {Space}) /\ PieceEnd(r, i) = Find(r, b, {Space})
      BY <1>3, <2>2, Zenon DEF PieceEnd
    <3>2. b \in Nat /\ b >= 1 /\ b <= n + 1 /\ (e <= n \/ c \in {Space})
      <4>1. e <= n \/ c \in {Space}
        BY <2>2
      <4> HIDE DEF b, e
      <4> QED BY <1>1, <1>2, <4>1
    <3> HIDE DEF b, e
    <3> QED BY <3>1, <3>2, FindMore DEF r
  <2> QED BY <2>1, <2>2
<1>5. PieceNext(r, i) = PieceNext(q, i)
  BY <1>3, <1>4, Zenon DEF PieceNext
<1>6. SubSeq(r, b, e - 1) = SubSeq(q, b, e - 1)
  <2> HIDE DEF b, e
  <2>1. CASE e = 0
    <3>1. b > e - 1
      BY <1>1, <1>2, <2>1
    <3>2. \A t : b > e - 1 => SubSeq(t, b, e - 1) = <<>>
      BY <1>2
    <3> QED BY <3>1, <3>2
  <2>2. CASE e # 0
    <3> DEFINE d == e - 1
    <3>1. d \in Nat /\ d <= n /\ b \in Nat /\ b >= 1 /\ b <= n + 1
      BY <1>1, <1>2, <1>4, <2>2
    <3> HIDE DEF d
    <3>2. SubSeq(r, b, d) = SubSeq(q, b, d)
      BY <3>1, SubSeqMore DEF r
    <3> QED BY <3>2 DEF d
  <2> QED BY <2>1, <2>2
<1>7. PieceWords(r, i) = PieceWords(q, i)
  BY <1>3, <1>4, <1>6, Zenon DEF PieceWords
<1>8. WithPiece(r, i, rest) = WithPiece(q, i, rest)
  BY <1>3, <1>7, Zenon DEF WithPiece
<1> QED BY <1>5, <1>8 DEF r

\* ParseQuery from one place on, as it looks ahead.
LEMMA ParseSteps ==
  ASSUME NEW q \in Seq(Keys)
  PROVE  \E g : /\ ParseQuery(q) = g[1]
                /\ \A i \in 1 .. Len(q) + 2 :
                     g[i] = IF PieceFirst(q, i) > Len(q) THEN Nothing
                            ELSE WithPiece(q, i, g[PieceNext(q, i)])
<1> DEFINE g == CHOOSE g : Parses(g, q)
<1>1. Parses(g, q)
  BY ParseExists
<1>2. ParseQuery(q) = g[1]
  BY ParseQueryIs
<1> HIDE DEF g
<1>3. \A i \in 1 .. Len(q) + 2 :
        g[i] = IF PieceFirst(q, i) > Len(q) THEN Nothing
               ELSE WithPiece(q, i, g[PieceNext(q, i)])
  BY <1>1 DEF Parses
<1> QED BY <1>2, <1>3

\* What a space at the end of a text does to its last phrase, left open.
LEMMA OpenMore ==
  ASSUME NEW q \in Seq(Keys), NEW i \in 1 .. Len(q) + 2, ~(PieceFirst(q, i) > Len(q)),
         PieceQuoted(q, i), ~(PieceEnd(q, i) <= Len(q)), NEW rest
  PROVE  /\ PieceNext(q, i) = Len(q) + 2
         /\ PieceNext(Append(q, Space), i) = Len(q) + 3
         /\ WithPiece(Append(q, Space), i, rest) = WithPiece(q, i, rest)
<1> DEFINE n == Len(q)
           r == Append(q, Space)
           b == PieceFirst(q, i)
           e == PieceEnd(q, i)
<1>1. n \in Nat /\ i \in Nat /\ i >= 1 /\ Space \in Keys /\ Space \notin {Quote}
  <2>1. Space \in Keys
    BY DEF Keys
  <2>2. Space \notin {Quote}
    BY DEF Space, Quote
  <2> QED BY <2>1, <2>2
<1>2. b \in i..n
  BY PieceAhead
<1>3. PieceFirst(r, i) = b /\ PieceSign(r, i) = PieceSign(q, i) /\ PieceQuoted(r, i) = PieceQuoted(q, i)
  BY <1>1, FirstMore
<1>4. e = n + 1 /\ PieceEnd(r, i) = n + 2
  <2>1. e = Find(q, b + 1, {Quote}) /\ PieceEnd(r, i) = Find(r, b + 1, {Quote})
    BY <1>3, Zenon DEF PieceEnd
  <2>2. b + 1 \in Nat /\ b + 1 >= 1
    <3> HIDE DEF b
    <3> QED BY <1>1, <1>2
  <2>3. ~(e <= n)
    OBVIOUS
  <2> HIDE DEF b, e
  <2> QED BY <1>1, <2>1, <2>2, <2>3, FindMore
<1> HIDE DEF r
<1>5. PieceNext(q, i) = n + 2 /\ PieceNext(r, i) = n + 3
  <2>1. PieceNext(q, i) = e + 1 /\ PieceNext(r, i) = PieceEnd(r, i) + 1
    BY <1>3, Zenon DEF PieceNext
  <2> HIDE DEF e
  <2> QED BY <1>1, <1>4, <2>1
<1>6. /\ SubSeq(r, b, n + 1) = Append(SubSeq(q, b, n), Space)
      /\ SubSeq(q, b, n) \in Seq(Keys)
  <2>1. b \in Nat /\ b >= 1 /\ b <= n + 1
    <3> HIDE DEF b
    <3> QED BY <1>1, <1>2
  <2> HIDE DEF b
  <2> QED BY <1>1, <2>1, SubSeqMore DEF r
<1>7. PieceWords(r, i) = PieceWords(q, i)
  <2>1. e - 1 = n /\ PieceEnd(r, i) - 1 = n + 1
    <3> HIDE DEF e
    <3> QED BY <1>1, <1>4
  <2>2. PieceWords(r, i) = Tokenize(SubSeq(r, b, n + 1))
    BY <1>3, <2>1, Zenon DEF PieceWords
  <2>3. PieceWords(q, i) = Tokenize(SubSeq(q, b, n))
    BY <2>1, Zenon DEF PieceWords
  <2> HIDE DEF b, n
  <2> QED BY <1>6, <2>2, <2>3, SpaceReads, Zenon
<1>8. WithPiece(r, i, rest) = WithPiece(q, i, rest)
  BY <1>3, <1>7, Zenon DEF WithPiece
<1> QED BY <1>5, <1>8 DEF r


\* Nothing begins at the end of a text with a space more, not even behind a
\* sign.
LEMMA NoneMore ==
  ASSUME NEW q \in Seq(Keys), NEW i \in 1 .. Len(q) + 2, PieceFirst(q, i) > Len(q),
         NEW h,
         \A j \in 1 .. Len(q) + 3 :
           h[j] = IF PieceFirst(Append(q, Space), j) > Len(q) + 1 THEN Nothing
                  ELSE WithPiece(Append(q, Space), j, h[PieceNext(Append(q, Space), j)])
  PROVE  h[i] = Nothing
<1> DEFINE n == Len(q)
           r == Append(q, Space)
           s == PieceStart(q, i)
           Some == Keys \ {Space}
<1>1. /\ n \in Nat /\ i \in Nat /\ i >= 1 /\ i <= n + 2 /\ Space \notin Some /\ Space \in {Space}
      /\ Len(r) = n + 1 /\ r \in Seq(Keys) /\ r[n + 1] = Space /\ Space \in Keys
      /\ \A k \in 1..n : r[k] = q[k]
  <2>1. Space \in Keys
    BY DEF Keys
  <2> QED BY <2>1
<1>2. /\ s \in Nat /\ (s <= n => PieceStart(r, i) = s /\ s >= i)
      /\ ~(s <= n) => s = n + 1 /\ PieceStart(r, i) = n + 2
  <2>1. s \in Nat /\ (s <= n => PieceStart(r, i) = s)
                  /\ (~(s <= n) => s = n + 1 /\ PieceStart(r, i) = n + 2)
    <3> HIDE DEF r, Some
    <3>1. s = Find(q, i, Some) /\ PieceStart(r, i) = Find(r, i, Some)
      BY DEF PieceStart, Some
    <3> HIDE DEF s
    <3> QED BY <1>1, <3>1, FindMore DEF r
  <2>2. s <= n => s >= i
    BY <1>1, FindTyped DEF PieceStart
  <2> QED BY <2>1, <2>2
<1> HIDE DEF r, Some
<1>3. ASSUME NEW j \in 1..n+3, PieceStart(r, j) = n + 2 PROVE h[j] = Nothing
  <2>1. ~(n + 2 <= Len(r)) /\ n + 2 > n + 1
    BY <1>1
  <2>2. PieceSign(r, j) = ""
    BY <1>3, <2>1, Zenon DEF PieceSign
  <2>3. PieceFirst(r, j) > n + 1
    BY <1>3, <2>1, <2>2, Zenon DEF PieceFirst
  <2> QED BY <2>3 DEF r
<1>4. CASE ~(s <= n)
  <2>1. i \in 1..n+3
    BY <1>1
  <2> HIDE DEF s, n
  <2> QED BY <1>2, <1>3, <1>4, <2>1
<1>5. CASE s <= n
  <2>1. PieceFirst(q, i) = s \/ PieceFirst(q, i) = s + 1
    BY DEF PieceFirst
  <2>2. s = n /\ PieceFirst(q, i) = s + 1 /\ s \in 1..n
    <3> HIDE DEF s
    <3> QED BY <1>1, <1>2, <1>5, <2>1
  <2>3. PieceSign(q, i) # ""
    <3>1. s # s + 1
      BY <1>2
    <3> QED BY <2>2, <3>1, Zenon DEF PieceFirst
  <2>4. PieceStart(r, i) = s /\ s <= Len(r) /\ r[s] = q[s]
    BY <1>1, <1>2, <2>2
  <2>5. PieceSign(r, i) = PieceSign(q, i)
    BY <1>5, <2>4, Zenon DEF PieceSign
  <2>6. PieceFirst(r, i) = n + 1
    BY <2>2, <2>3, <2>4, <2>5, Zenon DEF PieceFirst
  <2>7. ~PieceQuoted(r, i)
    <3>1. Space # Quote
      BY DEF Space, Quote
    <3> QED BY <1>1, <2>6, <3>1, Zenon DEF PieceQuoted
  <2> HIDE DEF s
  <2>8. PieceEnd(r, i) = n + 1
    <3>1. PieceEnd(r, i) = Find(r, n + 1, {Space})
      BY <2>6, <2>7, Zenon DEF PieceEnd
    <3>2. Find(q, n + 1, {Space}) = n + 1
      <4> DEFINE f == Find(q, n + 1, {Space})
      <4>1. f \in Nat /\ f <= n + 1 /\ (f <= n => f >= n + 1)
        <5>1. n + 1 \in Nat
          BY <1>1
        <5> QED BY <5>1, FindTyped
      <4> HIDE DEF f
      <4>2. f = n + 1
        BY <1>1, <4>1
      <4> QED BY <4>2 DEF f
    <3>3. n + 1 \in Nat /\ n + 1 >= 1 /\ ~(n + 1 <= n) /\ n + 1 <= n + 1
      BY <1>1
    <3>4. Find(r, n + 1, {Space}) = n + 1
      <4> DEFINE l == n + 1
      <4> HIDE DEF l
      <4>1. Find(r, l, {Space}) = IF Space \in {Space} /\ l <= Len(q) + 1 THEN Len(q) + 1 ELSE Len(q) + 2
        BY <1>1, <3>2, <3>3, FindMore DEF l, r
      <4> QED BY <3>3, <4>1 DEF l
    <3> QED BY <3>1, <3>4
  <2>9. PieceWords(r, i) = <<>>
    <3>1. (n + 1) - 1 = n /\ n + 1 > n
      BY <1>1
    <3>2. SubSeq(r, n + 1, n) = <<>>
      BY <1>1, <3>1
    <3>3. Tokenize(<<>>) = <<>>
      <4>1. <<>> \in Seq(Keys)
        OBVIOUS
      <4>2. ReadAll(<<>>) = Unread
        BY <4>1, ReadAllSteps
      <4>3. Flush(Unread).out = <<>>
        BY Flushing DEF Unread
      <4> QED BY <4>2, <4>3, TokenizeIs, Zenon
    <3> QED BY <2>6, <2>8, <3>1, <3>2, <3>3, Zenon DEF PieceWords
  <2>10. PieceNext(r, i) = n + 1
    BY <2>7, <2>8, Zenon DEF PieceNext
  <2>11. h[n + 1] = Nothing
    <3>1. n + 1 \in 1..n+3 /\ n + 1 \in Nat /\ n + 1 >= 1 /\ n + 1 > n
      BY <1>1
    <3>2. PieceStart(r, n + 1) = n + 2
      <4> DEFINE f == Find(q, n + 1, Some)
      <4>1. f \in Nat /\ f <= n + 1 /\ (f <= n => f >= n + 1)
        BY <3>1, FindTyped
      <4>2. ~(f <= n)
        <5> HIDE DEF f
        <5> QED BY <1>1, <4>1
      <4>3. Find(Append(q, Space), n + 1, Some) = n + 2
        <5> DEFINE l == n + 1
        <5>1. l \in Nat /\ l >= 1 /\ ~(Find(q, l, Some) <= n)
          BY <3>1, <4>2
        <5> HIDE DEF l
        <5>2. Find(Append(q, Space), l, Some)
                = IF Space \in Some /\ l <= Len(q) + 1 THEN Len(q) + 1 ELSE Len(q) + 2
          BY <1>1, <5>1, FindMore
        <5>3. Find(Append(q, Space), l, Some) = n + 2
          BY <1>1, <5>2
        <5> QED BY <5>3 DEF l
      <4> QED BY <4>3 DEF PieceStart, r, Some
    <3> QED BY <1>3, <3>1, <3>2
  <2>12. WithPiece(r, i, Nothing) = Nothing
    <3>1. WithPiece(r, i, Nothing) = WithTerms(Nothing, <<>>, PieceSign(r, i))
      BY <2>7, <2>9, Zenon DEF WithPiece
    <3>2. WithTerms(Nothing, <<>>, PieceSign(r, i)) = Nothing
      BY DEF WithTerms, Nothing
    <3> QED BY <3>1, <3>2
  <2>13. h[i] = WithPiece(r, i, h[PieceNext(r, i)])
    <3>1. i \in 1..n+3 /\ ~(n + 1 > n + 1)
      BY <1>1
    <3>2. h[i] = IF PieceFirst(r, i) > n + 1 THEN Nothing ELSE WithPiece(r, i, h[PieceNext(r, i)])
      BY <3>1 DEF r
    <3> QED BY <2>6, <3>1, <3>2
  <2> QED BY <2>10, <2>11, <2>12, <2>13, Zenon
<1> QED BY <1>4, <1>5

\* A space at the end changes nothing of what is understood.
LEMMA SpaceMeansNothing ==
  ASSUME NEW q \in Seq(Keys)
  PROVE  ParseQuery(Append(q, Space)) = ParseQuery(q)
<1> DEFINE n == Len(q)
           r == Append(q, Space)
           m == n + 2
           stops == {i \in 1..m : PieceFirst(q, i) > n}
           next == [i \in 1..m |-> PieceNext(q, i)]
<1>1. /\ n \in Nat /\ m \in Nat /\ Space \in Keys /\ Len(r) = n + 1 /\ r \in Seq(Keys)
  <2>1. Space \in Keys
    BY DEF Keys
  <2> QED BY <2>1
<1>2. PICK g : /\ ParseQuery(q) = g[1]
               /\ \A i \in 1..m : g[i] = IF PieceFirst(q, i) > n THEN Nothing
                                         ELSE WithPiece(q, i, g[PieceNext(q, i)])
  BY ParseSteps
<1> HIDE DEF r
<1>3. PICK h : /\ ParseQuery(r) = h[1]
               /\ \A i \in 1..n+3 : h[i] = IF PieceFirst(r, i) > n + 1 THEN Nothing
                                           ELSE WithPiece(r, i, h[PieceNext(r, i)])
  <2>1. n + 1 + 2 = n + 3
    BY <1>1
  <2> HIDE DEF n
  <2> QED BY <1>1, <2>1, ParseSteps
<1> DEFINE G == [i \in 1..m |-> h[i] = g[i]]
<1>4. \A i \in 1..m : i \notin stops => next[i] \in i+1..m
  BY PieceAhead
<1>5. ASSUME NEW i \in 1..m, i \in stops \/ G[next[i]] \in {TRUE} PROVE G[i] \in {TRUE}
  <2>1. CASE PieceFirst(q, i) > n
    <3>1. g[i] = Nothing
      BY <1>2, <2>1
    <3>2. h[i] = Nothing
      BY <1>3, <2>1, NoneMore DEF r
    <3> QED BY <3>1, <3>2
  <2>2. CASE ~(PieceFirst(q, i) > n)
    <3>1. next[i] = PieceNext(q, i) /\ next[i] \in 1..m
      BY <1>1, <1>4, <2>2
    <3>2. h[PieceNext(q, i)] = g[PieceNext(q, i)]
      BY <1>5, <2>2, <3>1
    <3>3. PieceFirst(r, i) = PieceFirst(q, i)
      BY <1>1, <2>2, FirstMore DEF r
    <3>4. i \in 1..n+3 /\ ~(PieceFirst(r, i) > n + 1)
      <4>1. PieceFirst(q, i) \in i..n
        BY <2>2, PieceAhead
      <4> QED BY <1>1, <3>3, <4>1
    <3>5. h[i] = WithPiece(r, i, h[PieceNext(r, i)]) /\ g[i] = WithPiece(q, i, g[PieceNext(q, i)])
      BY <1>2, <1>3, <2>2, <3>4, Zenon
    <3>6. CASE PieceEnd(q, i) <= n \/ ~PieceQuoted(q, i)
      <4>1. /\ PieceNext(r, i) = PieceNext(q, i)
            /\ WithPiece(r, i, g[PieceNext(q, i)]) = WithPiece(q, i, g[PieceNext(q, i)])
        BY <1>1, <2>2, <3>6, EndMore DEF r
      <4>2. h[i] = g[i]
        BY <3>2, <3>5, <4>1, Zenon
      <4> QED BY <4>2
    <3>7. CASE ~(PieceEnd(q, i) <= n) /\ PieceQuoted(q, i)
      <4>1. PieceNext(q, i) = n + 2 /\ PieceNext(r, i) = n + 3
            /\ WithPiece(r, i, Nothing) = WithPiece(q, i, Nothing)
        BY <2>2, <3>7, OpenMore DEF r
      <4>2. g[n + 2] = Nothing
        <5>1. PieceFirst(q, n + 2) = n + 1
          <6>1. n + 2 \in Nat /\ n + 2 > n
            BY <1>1
          <6> QED BY <6>1, NoneBehind
        <5>2. n + 2 \in 1..m /\ n + 1 > n
          BY <1>1
        <5> QED BY <1>2, <5>1, <5>2
      <4>3. h[n + 3] = Nothing
        <5>1. PieceFirst(r, n + 3) = n + 1 + 1
          <6>1. n + 3 \in Nat /\ n + 3 > n + 1
            BY <1>1
          <6> QED BY <1>1, <6>1, NoneBehind
        <5>2. n + 3 \in 1..n+3 /\ n + 1 + 1 > n + 1
          BY <1>1
        <5> QED BY <1>3, <5>1, <5>2
      <4>4. h[i] = g[i]
        BY <3>5, <4>1, <4>2, <4>3, Zenon
      <4> QED BY <4>4
    <3> QED BY <3>6, <3>7
  <2> QED BY <2>1, <2>2
<1>6. \A i \in 1..m : G[i] \in {TRUE}
  <2> HIDE DEF m, stops, next, G
  <2> QED BY <1>1, <1>4, <1>5, LooksAheadTyped
<1>7. h[1] = g[1]
  <2>1. 1 \in 1..m
    BY <1>1
  <2>2. G[1] \in {TRUE}
    BY <1>6, <2>1
  <2> QED BY <2>1, <2>2
<1> QED BY <1>2, <1>3, <1>7 DEF r

\* f is the history mode, after every key of q.
Modes(f, q) ==
  f[0] = "gap" /\ \A k \in 1 .. Len(q) : f[k] = After(f[k-1], q[k])

\* What each key does, where it matters.
LEMMA AfterCases ==
  /\ \A key : After("gap", Space) = "gap"
  /\ \A m : m # "phrase" => After(m, Space) = "gap"
  /\ \A m : m # "phrase" /\ m # "word" => After(m, Quote) = "phrase"
  /\ \A key : After("phrase", key) = IF key = Quote THEN "gap" ELSE "phrase"
  /\ \A key : key \in Signs => After("gap", key) = "sign"
  /\ \A key : key # Space => After("word", key) = "word"
  /\ \A key : key # Space /\ key # Quote => After("sign", key) = "word"
  /\ \A key : key # Space /\ key # Quote /\ key \notin Signs => After("gap", key) = "word"
<1> USE DEF After, Space, Quote, Signs
<1>1. \A m : m # "phrase" => After(m, Space) = "gap"
  OBVIOUS
<1>2. \A key : After("gap", Space) = "gap"
  OBVIOUS
<1>3. \A m : m # "phrase" /\ m # "word" => After(m, Quote) = "phrase"
  OBVIOUS
<1>4. \A key : After("phrase", key) = IF key = Quote THEN "gap" ELSE "phrase"
  OBVIOUS
<1>5. \A key : key \in Signs => After("gap", key) = "sign"
  OBVIOUS
<1>6. \A key : key # Space => After("word", key) = "word"
  OBVIOUS
<1>7. \A key : key # Space /\ key # Quote => After("sign", key) = "word"
  OBVIOUS
<1>8. \A key : key # Space /\ key # Quote /\ key \notin Signs => After("gap", key) = "word"
  OBVIOUS
<1> QED BY <1>2, <1>1, <1>3, <1>4, <1>5, <1>6, <1>7, <1>8

\* Where a piece may begin.
Ready(f, q, i) ==
  \/ i - 1 \in 0 .. Len(q) /\ f[i - 1] = "gap"
  \/ i \in 1 .. Len(q) /\ q[i] = Space /\ f[i - 1] # "phrase"

\* If a text ends within a phrase, every piece of it begins before its end, is
\* a phrase if it ends with the text, and is followed by one.
LEMMA PieceInPhrase ==
  ASSUME NEW q \in Seq(Keys), NEW f, Modes(f, q), f[Len(q)] = "phrase",
         NEW i \in 1 .. Len(q) + 2, Ready(f, q, i)
  PROVE  /\ ~(PieceFirst(q, i) > Len(q))
         /\ ~PieceQuoted(q, i) => PieceEnd(q, i) <= Len(q)
         /\ PieceEnd(q, i) <= Len(q) => Ready(f, q, PieceNext(q, i))
<1> DEFINE n == Len(q)
           s == PieceStart(q, i)
           sign == PieceSign(q, i)
           b == PieceFirst(q, i)
           e == PieceEnd(q, i)
<1>1. /\ n \in Nat /\ i \in Nat /\ i >= 1 /\ f[0] = "gap" /\ f[n] = "phrase"
      /\ \A k \in 1..n : f[k] = After(f[k-1], q[k]) /\ q[k] \in Keys
  BY DEF Modes
<1>2. i <= n
  <2>1. i - 1 # n
    <3> SUFFICES ASSUME i - 1 = n PROVE FALSE
      OBVIOUS
    <3>1. ~(i <= n)
      BY <1>1
    <3> QED BY <1>1, <3>1 DEF Ready
  <2>2. i - 1 \in 0..n \/ i \in 1..n
    BY DEF Ready
  <2> QED BY <1>1, <2>1, <2>2
<1>3. /\ s \in Nat /\ s <= n + 1 /\ (s <= n => s >= i /\ q[s] \in Keys \ {Space})
      /\ \A k \in Nat : i <= k /\ k < s => q[k] \notin Keys \ {Space} \/ k > n
  BY <1>1, FindTyped DEF PieceStart
<1> HIDE DEF s
<1>4. s >= i
  BY <1>1, <1>2, <1>3
<1>5. f[s-1] = "gap"
  <2>1. CASE s = i
    <3>1. q[i] # Space
      BY <1>2, <1>3, <2>1
    <3> QED BY <2>1, <3>1 DEF Ready
  <2>2. CASE s # i
    <3>1. i \in 1..n /\ i - 1 \in Nat /\ s - 1 \in Nat /\ s - 1 \in i..s-1
      BY <1>1, <1>2, <1>3, <1>4, <2>2
    <3>2. \A k \in i..s-1 : k \in 1..n /\ q[k] = Space
      BY <1>1, <1>3
    <3>3. i \in i..s-1
      BY <1>3, <1>4, <2>2
    <3>4. f[i] = "gap"
      <4>1. f[i] = After(f[i-1], Space)
        BY <1>1, <3>1, <3>2, <3>3
      <4>2. f[i-1] # "phrase"
        BY DEF Ready
      <4> QED BY <4>1, <4>2, AfterCases
    <3>5. ASSUME NEW k \in i+1..s-1, f[k-1] = "gap" PROVE f[k] = "gap"
      <4>1. k \in 1..n /\ q[k] = Space
        BY <1>1, <1>3, <3>2
      <4>2. f[k] = After("gap", Space)
        BY <1>1, <3>5, <4>1
      <4> QED BY <4>2, AfterCases
    <3>6. \A k \in i..s-1 : f[k] = "gap"
      <4>1. Carries(f, "gap", i, s - 1)
        BY <3>4, <3>5, Zenon DEF Carries
      <4> QED BY <1>1, <3>1, <4>1, Stretch
    <3> QED BY <3>1, <3>6
  <2> QED BY <2>1, <2>2
<1>6. s <= n
  <2> SUFFICES ASSUME s = n + 1 PROVE FALSE
    BY <1>1, <1>3
  <2>1. s - 1 = n
    BY <1>1
  <2> QED BY <1>1, <1>5, <2>1
<1>7. s \in 1..n /\ q[s] \in Keys /\ q[s] # Space /\ f[s] = After("gap", q[s])
  BY <1>1, <1>3, <1>4, <1>5, <1>6
<1>8. /\ b = s \/ b = s + 1
      /\ b = s => q[b] \notin Signs /\ f[b-1] = "gap" /\ q[b] # Space
      /\ b = s + 1 => f[b-1] = "sign"
      /\ b \in 1..n
  <2>1. CASE q[s] \in Signs
    <3>1. sign = q[s] /\ sign # ""
      BY <1>6, <2>1, Zenon DEF PieceSign, s, Signs
    <3>2. b = s + 1
      BY <3>1, Zenon DEF PieceFirst, s
    <3>3. f[s] = "sign"
      BY <1>7, <2>1, AfterCases
    <3>4. s # n
      BY <1>1, <3>3
    <3>5. b - 1 = s /\ b # s /\ b \in 1..n
      BY <1>1, <1>7, <3>2, <3>4
    <3> QED BY <3>2, <3>3, <3>5
  <2>2. CASE q[s] \notin Signs
    <3>1. sign = ""
      BY <2>2, Zenon DEF PieceSign, s
    <3>2. b = s
      BY <3>1, Zenon DEF PieceFirst, s
    <3>3. b # s + 1
      BY <1>3, <3>2
    <3> QED BY <1>5, <1>7, <2>2, <3>2, <3>3
  <2> QED BY <2>1, <2>2
<1> HIDE DEF b, sign
<1>9. ~(b > n) /\ b \in Nat /\ b - 1 \in 0..n
  BY <1>1, <1>8
<1>10. e \in Nat /\ e <= n + 1
  <2>1. CASE PieceQuoted(q, i)
    <3>1. e = Find(q, b + 1, {Quote}) /\ b + 1 \in Nat
      BY <1>9, <2>1 DEF PieceEnd, b
    <3> QED BY <1>1, <3>1, FindTyped
  <2>2. CASE ~PieceQuoted(q, i)
    <3>1. e = Find(q, b, {Space})
      BY <2>2 DEF PieceEnd, b
    <3> QED BY <1>1, <1>9, <3>1, FindTyped
  <2> QED BY <2>1, <2>2
<1>11. ASSUME PieceQuoted(q, i), e <= n PROVE Ready(f, q, PieceNext(q, i))
  <2>1. e = Find(q, b + 1, {Quote}) /\ b + 1 \in Nat
    BY <1>9, <1>11 DEF PieceEnd, b
  <2>2. /\ e >= b + 1 /\ q[e] = Quote
        /\ \A k \in Nat : b + 1 <= k /\ k < e => q[k] # Quote \/ k > n
    BY <1>1, <1>11, <2>1, FindTyped
  <2> HIDE DEF e
  <2>3. f[b] = "phrase"
    <3>1. q[b] = Quote
      BY <1>11 DEF PieceQuoted, b
    <3>2. f[b] = After(f[b-1], Quote)
      BY <1>1, <1>8, <3>1
    <3>3. f[b-1] # "phrase" /\ f[b-1] # "word"
      BY <1>8
    <3> QED BY <3>2, <3>3, AfterCases
  <2>4. e - 1 \in Nat /\ e - 1 \in b..e-1
    BY <1>9, <1>10, <2>2
  <2>5. ASSUME NEW k \in b+1..e-1, f[k-1] = "phrase" PROVE f[k] = "phrase"
    <3>1. k \in 1..n /\ q[k] # Quote
      BY <1>9, <1>10, <1>11, <2>2
    <3>2. f[k] = After("phrase", q[k])
      BY <1>1, <2>5, <3>1
    <3> QED BY <3>1, <3>2, AfterCases
  <2>6. \A k \in b..e-1 : f[k] = "phrase"
    <3> DEFINE in == "phrase"
    <3>1. Carries(f, in, b, e - 1)
      BY <2>3, <2>5, Zenon DEF Carries
    <3> HIDE DEF in
    <3>2. \A k \in b..e-1 : f[k] = in
      BY <1>9, <2>4, <3>1, Stretch
    <3> QED BY <3>2 DEF in
  <2>7. f[e] = "gap"
    <3>1. f[e-1] = "phrase"
      BY <2>4, <2>6
    <3>2. e \in 1..n
      BY <1>9, <1>10, <1>11, <2>2
    <3>3. f[e] = After("phrase", Quote)
      BY <1>1, <2>2, <3>1, <3>2
    <3> QED BY <3>3, AfterCases
  <2>8. PieceNext(q, i) = e + 1
    BY <1>11, Zenon DEF PieceNext, e
  <2>9. e + 1 - 1 = e /\ e \in 0..n
    BY <1>10, <1>11
  <2> QED BY <2>7, <2>8, <2>9 DEF Ready
<1>12. ASSUME ~PieceQuoted(q, i) PROVE e <= n /\ Ready(f, q, PieceNext(q, i))
  <2>1. e = Find(q, b, {Space})
    BY <1>12 DEF PieceEnd, b
  <2>2. /\ e <= n => e >= b /\ q[e] = Space
        /\ \A k \in Nat : b <= k /\ k < e => q[k] # Space \/ k > n
    BY <1>1, <1>9, <2>1, FindTyped
  <2> HIDE DEF e
  <2>3. q[b] # Quote
    BY <1>12 DEF PieceQuoted, b
  <2>4. PieceNext(q, i) = e
    BY <1>12, Zenon DEF PieceNext, e
  <2>5. CASE q[b] = Space
    <3>1. ~(b < e)
      BY <1>9, <2>2, <2>5
    <3>2. e <= n /\ e = b
      BY <1>9, <1>10, <2>2, <3>1
    <3>3. f[b-1] # "phrase"
      BY <1>8
    <3> QED BY <1>8, <2>4, <2>5, <3>2, <3>3 DEF Ready
  <2>6. CASE q[b] # Space
    <3>1. f[b] = "word"
      <4>1. f[b] = After(f[b-1], q[b])
        BY <1>1, <1>8
      <4>2. f[b-1] = "sign" \/ (f[b-1] = "gap" /\ q[b] \notin Signs)
        BY <1>8
      <4> QED BY <2>3, <2>6, <4>1, <4>2, AfterCases
    <3>2. e >= b + 1
      <4>1. e # b
        BY <1>9, <2>2, <2>6
      <4> QED BY <1>9, <1>10, <2>2, <4>1
    <3>3. e - 1 \in Nat /\ e - 1 \in b..e-1
      BY <1>9, <1>10, <3>2
    <3>4. ASSUME NEW k \in b+1..e-1, f[k-1] = "word" PROVE f[k] = "word"
      <4>1. k \in 1..n /\ q[k] # Space
        BY <1>9, <1>10, <2>2
      <4>2. f[k] = After("word", q[k])
        BY <1>1, <3>4, <4>1
      <4> QED BY <4>1, <4>2, AfterCases
    <3>5. \A k \in b..e-1 : f[k] = "word"
      <4>1. Carries(f, "word", b, e - 1)
        BY <3>1, <3>4, Zenon DEF Carries
      <4> QED BY <1>9, <3>3, <4>1, Stretch
    <3>6. f[e-1] = "word"
      BY <3>3, <3>5
    <3>7. e <= n
      <4> SUFFICES ASSUME e = n + 1 PROVE FALSE
        BY <1>1, <1>10
      <4>1. e - 1 = n
        BY <1>1
      <4> QED BY <1>1, <3>6, <4>1
    <3>8. e \in 1..n /\ q[e] = Space
      BY <1>9, <1>10, <2>2, <3>2, <3>7
    <3> QED BY <2>4, <3>6, <3>7, <3>8 DEF Ready
  <2> QED BY <2>5, <2>6
<1> QED BY <1>9, <1>11, <1>12 DEF b, e

\* The quote that closes a phrase changes nothing of what is understood.
LEMMA ClosingMeansNothing ==
  ASSUME NEW q \in Seq(Keys), NEW f, Modes(f, q), f[Len(q)] = "phrase"
  PROVE  ParseQuery(Append(q, Quote)) = ParseQuery(q)
<1> DEFINE n == Len(q)
           r == Append(q, Quote)
           m == n + 2
           stops == {i \in 1..m : PieceFirst(q, i) > n}
           next == [i \in 1..m |-> PieceNext(q, i)]
<1>1. /\ n \in Nat /\ m \in Nat /\ Quote \in Keys /\ Len(r) = n + 1 /\ r \in Seq(Keys)
  <2>1. Quote \in Keys
    BY DEF Keys
  <2> QED BY <2>1
<1>2. PICK g : /\ ParseQuery(q) = g[1]
               /\ \A i \in 1..m : g[i] = IF PieceFirst(q, i) > n THEN Nothing
                                         ELSE WithPiece(q, i, g[PieceNext(q, i)])
  BY ParseSteps
<1> HIDE DEF r
<1>3. PICK h : /\ ParseQuery(r) = h[1]
               /\ \A i \in 1..n+3 : h[i] = IF PieceFirst(r, i) > n + 1 THEN Nothing
                                           ELSE WithPiece(r, i, h[PieceNext(r, i)])
  <2>1. n + 1 + 2 = n + 3
    BY <1>1
  <2> HIDE DEF n
  <2> QED BY <1>1, <2>1, ParseSteps
<1>4. \A i \in 1..m : i \notin stops => next[i] \in i+1..m
  BY PieceAhead
<1> DEFINE G == [i \in 1..m |-> Ready(f, q, i) => h[i] = g[i]]
<1>5. ASSUME NEW i \in 1..m, i \in stops \/ G[next[i]] \in {TRUE} PROVE G[i] \in {TRUE}
  <2> SUFFICES ASSUME Ready(f, q, i) PROVE h[i] = g[i]
    OBVIOUS
  <2>1. /\ ~(PieceFirst(q, i) > n)
        /\ ~PieceQuoted(q, i) => PieceEnd(q, i) <= n
        /\ PieceEnd(q, i) <= n => Ready(f, q, PieceNext(q, i))
    BY PieceInPhrase
  <2>2. next[i] = PieceNext(q, i) /\ next[i] \in 1..m
    BY <1>1, <1>4, <2>1
  <2>3. PieceFirst(r, i) = PieceFirst(q, i)
    BY <1>1, <2>1, FirstMore DEF r
  <2>4. i \in 1..n+3 /\ ~(PieceFirst(r, i) > n + 1)
    <3>1. PieceFirst(q, i) \in i..n
      BY <2>1, PieceAhead
    <3> QED BY <1>1, <2>3, <3>1
  <2>5. h[i] = WithPiece(r, i, h[PieceNext(r, i)]) /\ g[i] = WithPiece(q, i, g[PieceNext(q, i)])
    BY <1>2, <1>3, <2>1, <2>4, Zenon
  <2>6. /\ PieceNext(r, i) = PieceNext(q, i)
        /\ WithPiece(r, i, g[PieceNext(q, i)]) = WithPiece(q, i, g[PieceNext(q, i)])
    BY <1>1, <2>1, EndMore DEF r
  <2>7. h[PieceNext(q, i)] = g[PieceNext(q, i)]
    <3>1. CASE PieceEnd(q, i) <= n
      BY <1>5, <2>1, <2>2, <3>1
    <3>2. CASE ~(PieceEnd(q, i) <= n)
      <4>1. PieceNext(q, i) = n + 2
        <5>1. PieceQuoted(q, i)
          BY <2>1, <3>2
        <5>2. PieceEnd(q, i) \in Nat /\ PieceEnd(q, i) <= n + 1
          BY <2>1, PieceAhead
        <5>3. PieceNext(q, i) = PieceEnd(q, i) + 1
          BY <5>1 DEF PieceNext
        <5> QED BY <1>1, <3>2, <5>2, <5>3
      <4>2. g[n + 2] = Nothing
        <5>1. PieceFirst(q, n + 2) = n + 1
          <6>1. n + 2 \in Nat /\ n + 2 > n
            BY <1>1
          <6> QED BY <6>1, NoneBehind
        <5>2. n + 2 \in 1..m /\ n + 1 > n
          BY <1>1
        <5> QED BY <1>2, <5>1, <5>2
      <4>3. h[n + 2] = Nothing
        <5>1. PieceFirst(r, n + 2) = n + 1 + 1
          <6>1. n + 2 \in Nat /\ n + 2 > n + 1
            BY <1>1
          <6> QED BY <1>1, <6>1, NoneBehind
        <5>2. n + 2 \in 1..n+3 /\ n + 1 + 1 > n + 1
          BY <1>1
        <5> QED BY <1>3, <5>1, <5>2
      <4> QED BY <4>1, <4>2, <4>3
    <3> QED BY <3>1, <3>2
  <2> QED BY <2>5, <2>6, <2>7, Zenon
<1>6. \A i \in 1..m : G[i] \in {TRUE}
  <2> HIDE DEF m, stops, next, G
  <2> QED BY <1>1, <1>4, <1>5, LooksAheadTyped
<1>7. h[1] = g[1]
  <2>1. 1 \in 1..m
    BY <1>1
  <2>2. G[1] \in {TRUE}
    BY <1>6, <2>1
  <2>3. Ready(f, q, 1)
    BY <1>1 DEF Ready, Modes
  <2> QED BY <2>1, <2>2, <2>3
<1> QED BY <1>2, <1>3, <1>7 DEF r

-----------------------------------------------------------------------------
(* The echo.                                                               *)

\* A first place with a character of S is what Find returns.
LEMMA FindIs ==
  ASSUME NEW q, Len(q) \in Nat, NEW i \in Nat, NEW S, NEW f \in Nat, i <= f, f <= Len(q) + 1,
         \A k \in Nat : i <= k /\ k < f => q[k] \notin S,
         f <= Len(q) => q[f] \in S
  PROVE  Find(q, i, S) = f
<1> DEFINE h == Find(q, i, S)
<1>1. /\ h \in Nat /\ h <= Len(q) + 1
      /\ h <= Len(q) => h >= i /\ q[h] \in S
      /\ \A k \in Nat : i <= k /\ k < h => q[k] \notin S \/ k > Len(q)
  BY FindTyped
<1> HIDE DEF h
<1>2. ~(h < f)
  BY <1>1
<1>3. ~(f < h)
  BY <1>1
<1>4. h = f
  BY <1>1, <1>2, <1>3
<1> QED BY <1>4 DEF h

\* A part of a text, character by character.
LEMMA SubSeqIs ==
  ASSUME NEW X, NEW q \in Seq(X), NEW w \in Seq(X), NEW b \in Nat, b >= 1,
         b + Len(w) <= Len(q) + 1,
         \A j \in 1 .. Len(w) : q[b + j - 1] = w[j]
  PROVE  SubSeq(q, b, b + Len(w) - 1) = w
<1> DEFINE l == Len(w)
           u == SubSeq(q, b, b + l - 1)
<1>1. l \in Nat /\ DOMAIN w = 1..l /\ w \in Seq(X)
  OBVIOUS
<1> HIDE DEF l
<1>2. \A j \in b .. b + l - 1 : q[j] \in X
  <2>1. \A j \in b .. b + l - 1 : j \in 1..Len(q)
    BY <1>1 DEF l
  <2> QED BY <2>1
<1>3. u \in Seq(X) /\ Len(u) = l /\ \A j \in 1..l : u[j] = q[b + j - 1]
  BY <1>1, <1>2
<1> HIDE DEF u
<1>4. \A j \in 1..l : u[j] = w[j]
  BY <1>3 DEF l
<1>5. u = w
  BY <1>1, <1>3, <1>4 DEF l
<1> QED BY <1>5 DEF u, l

\* Letters are read into the word.
LEMMA ReadWord ==
  ASSUME NEW X, Letters \subseteq X, NEW text \in Seq(X), NEW w \in Seq(Letters),
         NEW r \in Reading, r = ReadAll(text)
  PROVE  ReadAll(text \o w) = [word |-> r.word \o w, out |-> r.out]
<1> DEFINE n == Len(w)
           u(k) == SubSeq(w, 1, k)
           Good(k) == ReadAll(text \o u(k)) = [word |-> r.word \o u(k), out |-> r.out]
           S == {k \in 0..n : Good(k)}
<1>1. n \in Nat /\ \A k \in 1..n : w[k] \in Letters
  OBVIOUS
<1>2. r.word \in Seq(Letters) /\ r = [word |-> r.word, out |-> r.out]
  BY DEF Reading
<1>3. 0 \in S
  <2>1. u(0) = <<>>
    OBVIOUS
  <2>2. text \o <<>> = text /\ r.word \o <<>> = r.word
    BY <1>2
  <2>3. Good(0)
    BY <1>2, <2>1, <2>2, Zenon
  <2> HIDE DEF Good
  <2> QED BY <1>1, <2>3
<1>4. ASSUME NEW k \in 1..n, k - 1 \in S PROVE k \in S
  <2> DEFINE v == u(k - 1)
  <2>1. Good(k - 1)
    BY <1>4
  <2>2. v \in Seq(Letters) /\ u(k) = Append(v, w[k]) /\ w[k] \in Letters
    BY <1>1
  <2> HIDE DEF v
  <2>3. v \in Seq(X) /\ w[k] \in X
    BY <2>2, SeqMonotonic
  <2>4. text \o Append(v, w[k]) = Append(text \o v, w[k]) /\ text \o v \in Seq(X)
    BY <2>3
  <2>5. r.word \o Append(v, w[k]) = Append(r.word \o v, w[k])
    BY <1>2, <2>2
  <2>6. ReadAll(text \o v) = [word |-> r.word \o v, out |-> r.out]
    BY <2>1, Zenon DEF v
  <2>7. ReadAll(Append(text \o v, w[k])) = Read(ReadAll(text \o v), w[k])
    BY <2>3, <2>4, ReadAllSteps
  <2>8. Read([word |-> r.word \o v, out |-> r.out], w[k])
          = [word |-> Append(r.word \o v, w[k]), out |-> r.out]
    BY <2>2 DEF Read
  <2>9. Good(k)
    BY <2>2, <2>4, <2>5, <2>6, <2>7, <2>8, Zenon
  <2> HIDE DEF Good
  <2> QED BY <1>1, <2>9
<1> HIDE DEF S
<1>5. n \in S
  <2>1. \A k \in 0..n : k \in S
    BY <1>1, <1>3, <1>4, Inductive
  <2> QED BY <1>1, <2>1
<1>6. Good(n)
  <2> HIDE DEF Good
  <2> QED BY <1>5 DEF S
<1>7. u(n) = w
  OBVIOUS
<1> QED BY <1>6, <1>7, Zenon

\* A word is read as itself.
LEMMA WordReads ==
  ASSUME NEW w \in Word
  PROVE  Tokenize(w) = <<w>>
<1>1. w \in Seq(Letters) /\ w \notin StopWords \cup {<<>>}
  BY DEF Word
<1>2. ReadAll(<<>>) = Unread /\ <<>> \in Seq(Letters)
  <2>1. <<>> \in Seq(Letters)
    OBVIOUS
  <2> QED BY <2>1, ReadAllSteps
<1>3. Unread \in Reading
  BY DEF Unread, Reading
<1>4. ReadAll(<<>> \o w) = [word |-> Unread.word \o w, out |-> Unread.out]
  BY <1>1, <1>2, <1>3, ReadWord
<1>5. <<>> \o w = w
  BY <1>1
<1>6. Unread.word = <<>> /\ Unread.out = <<>>
  BY DEF Unread
<1>7. ReadAll(w) = [word |-> w, out |-> <<>>]
  BY <1>4, <1>5, <1>6, Zenon
<1>8. Flush([word |-> w, out |-> <<>>]).out = Append(<<>>, w)
  BY <1>1 DEF Flush
<1>9. Append(<<>>, w) = <<w>>
  OBVIOUS
<1> QED BY <1>7, <1>8, <1>9, TokenizeIs, Zenon

\* Joined words are read as these words.
LEMMA JoinReads ==
  ASSUME NEW ts \in Seq(Word), ts # <<>>
  PROVE  Tokenize(Join(ts)) = ts
<1> DEFINE base == Head(ts)
           seq == Tail(ts)
           n == Len(seq)
<1>1. /\ n \in Nat /\ Len(ts) = n + 1 /\ base = ts[1]
      /\ \A k \in 1..n : seq[k] = ts[k + 1]
      /\ \A k \in 1..n+1 : ts[k] \in Word
  OBVIOUS
<1>2. /\ Space \in Char /\ Letters \subseteq Char /\ Word \subseteq Seq(Char)
      /\ base \in Seq(Char) /\ seq \in Seq(Seq(Char))
  <2>1. Space \in Char /\ Letters \subseteq Char
    BY DEF Char
  <2>2. Word \subseteq Seq(Char)
    BY <2>1, SeqMonotonic DEF Word
  <2>3. ts \in Seq(Seq(Char))
    BY <2>2, SeqMonotonic
  <2> QED BY <2>1, <2>2, <2>3
<1>3. Join(ts) = FoldLeft(LAMBDA acc, t : acc \o <<Space>> \o t, base, seq)
  BY Zenon DEF Join
<1> HIDE DEF base, seq
<1>4. PICK f : Glues(f, Char, base, seq)
               /\ FoldLeft(LAMBDA acc, t : acc \o <<Space>> \o t, base, seq) = f[Len(seq)]
  BY <1>2, JoinRuns
<1> DEFINE Good(k) == ReadAll(f[k]) = [word |-> ts[k+1], out |-> SubSeq(ts, 1, k)]
           S == {k \in 0..n : Good(k)}
<1>5. ASSUME NEW k \in 0..n PROVE f[k] \in Seq(Char)
  BY <1>4 DEF Glues
<1>6. 0 \in S
  <2>1. f[0] = ts[1]
    BY <1>1, <1>4 DEF Glues
  <2>2. ts[1] \in Seq(Letters)
    BY <1>1 DEF Word
  <2>3. ReadAll(<<>>) = Unread /\ <<>> \in Seq(Letters)
    <3>1. <<>> \in Seq(Letters)
      OBVIOUS
    <3> QED BY <3>1, ReadAllSteps
  <2>4. Unread \in Reading
    BY DEF Unread, Reading
  <2>5. ReadAll(<<>> \o ts[1]) = [word |-> Unread.word \o ts[1], out |-> Unread.out]
    BY <2>2, <2>3, <2>4, ReadWord
  <2>6. <<>> \o ts[1] = ts[1]
    BY <2>2
  <2>7. Unread.word = <<>> /\ Unread.out = <<>>
    BY DEF Unread
  <2>8. SubSeq(ts, 1, 0) = <<>> /\ 0 + 1 = 1
    OBVIOUS
  <2>9. Good(0)
    BY <2>1, <2>5, <2>6, <2>7, <2>8, Zenon
  <2> HIDE DEF Good
  <2> QED BY <1>1, <2>9
<1>7. ASSUME NEW k \in 1..n, k - 1 \in S PROVE k \in S
  <2> DEFINE a == f[k-1]
             t == ts[k+1]
             x == SubSeq(ts, 1, k - 1)
             old == [word |-> ts[k], out |-> x]
             mid == [word |-> <<>>, out |-> SubSeq(ts, 1, k)]
  <2>1. ReadAll(a) = old
    <3>1. Good(k - 1)
      BY <1>7
    <3>2. (k - 1) + 1 = k
      BY <1>1
    <3> QED BY <3>1, <3>2, Zenon
  <2>2. a \in Seq(Char) /\ t \in Word /\ ts[k] \in Word
    <3>1. k - 1 \in 0..n /\ k \in 1..n+1 /\ k + 1 \in 1..n+1
      BY <1>1
    <3> QED BY <1>1, <1>5, <3>1
  <2>3. f[k] = a \o <<Space>> \o t
    BY <1>1, <1>4 DEF Glues, Glue
  <2>4. x \in Seq(Word) /\ Append(x, ts[k]) = SubSeq(ts, 1, k) /\ SubSeq(ts, 1, k) \in Seq(Word)
    <3>1. k \in 1..Len(ts) /\ k - 1 \in 0..Len(ts)
      BY <1>1
    <3> QED BY <3>1
  <2>5. Flush(old) = mid
    <3>1. ts[k] \notin StopWords \cup {<<>>}
      BY <2>2 DEF Word
    <3>2. Flush(old) = [word |-> <<>>, out |-> Append(x, ts[k])]
      BY <3>1 DEF Flush
    <3> HIDE DEF old, x
    <3> QED BY <2>4, <3>2, Zenon
  <2>6. mid \in Reading
    BY <2>4 DEF Reading
  <2> HIDE DEF a, t, x, old
  <2>7. ReadAll(Append(a, Space)) = mid
    <3>1. ReadAll(Append(a, Space)) = Read(ReadAll(a), Space)
      BY <1>2, <2>2, ReadAllSteps
    <3>2. Read(old, Space) = Flush(old)
      BY BlanksPart, Flushing
    <3> QED BY <2>1, <2>5, <3>1, <3>2, Zenon
  <2>8. Append(a, Space) \in Seq(Char) /\ a \o <<Space>> = Append(a, Space)
    BY <1>2, <2>2
  <2>9. mid.word = <<>> /\ mid.out = SubSeq(ts, 1, k)
    OBVIOUS
  <2> HIDE DEF mid
  <2>10. ReadAll(Append(a, Space) \o t) = [word |-> mid.word \o t, out |-> mid.out]
    <3>1. t \in Seq(Letters)
      BY <2>2 DEF Word
    <3> QED BY <1>2, <2>6, <2>7, <2>8, <3>1, ReadWord
  <2>11. <<>> \o t = t
    BY <2>2 DEF Word
  <2>12. Good(k)
    BY <2>3, <2>8, <2>9, <2>10, <2>11, Zenon DEF t
  <2> HIDE DEF Good
  <2> QED BY <1>1, <2>12
<1> HIDE DEF S, n
<1>8. Good(n)
  <2>1. \A k \in 0..n : k \in S
    BY <1>1, <1>6, <1>7, Inductive
  <2>2. n \in S
    BY <1>1, <2>1
  <2> HIDE DEF Good
  <2> QED BY <2>2 DEF S
<1>9. ReadAll(Join(ts)) = [word |-> ts[n+1], out |-> SubSeq(ts, 1, n)]
  BY <1>3, <1>4, <1>8, Zenon DEF n
<1>10. Flush([word |-> ts[n+1], out |-> SubSeq(ts, 1, n)]).out = Append(SubSeq(ts, 1, n), ts[n+1])
  <2>1. ts[n+1] \notin StopWords \cup {<<>>}
    <3>1. n + 1 \in 1..n+1
      BY <1>1
    <3>2. ts[n+1] \in Word
      BY <1>1, <3>1
    <3> QED BY <3>2 DEF Word
  <2> QED BY <2>1 DEF Flush
<1>11. Append(SubSeq(ts, 1, n), ts[n+1]) = ts
  BY <1>1
<1> QED BY <1>9, <1>10, <1>11, TokenizeIs, Zenon

\* The quote before a phrase makes no word and parts none.
LEMMA QuoteReads ==
  ASSUME NEW w \in Seq(Char)
  PROVE  Tokenize(<<Quote>> \o w) = Tokenize(w)
<1> DEFINE n == Len(w)
           u == <<Quote>> \o w
<1>1. /\ n \in Nat /\ w \in Seq(Keys) /\ u \in Seq(Keys) /\ Len(u) = n + 1 /\ u[1] = Quote
      /\ \A k \in 1..n : u[k + 1] = w[k]
  <2>1. Char \subseteq Keys /\ Quote \in Keys
    BY DEF Keys, Char
  <2>2. w \in Seq(Keys)
    BY <2>1, SeqMonotonic
  <2> QED BY <2>1, <2>2
<1> HIDE DEF u, n
<1>2. PICK f : Reads(f, w) /\ FoldLeft(Read, Unread, w) = f[Len(w)]
  BY <1>1, ReadRuns
<1>3. PICK g : Reads(g, u) /\ FoldLeft(Read, Unread, u) = g[Len(u)]
  BY <1>1, ReadRuns
<1>4. /\ f[0] = Unread /\ \A k \in 1..n : f[k] = Read(f[k-1], w[k])
      /\ g[0] = Unread /\ \A k \in 1..n+1 : g[k] = Read(g[k-1], u[k])
  BY <1>1, <1>2, <1>3 DEF Reads, n
<1> DEFINE S == {k \in 0..n : g[k + 1] = f[k]}
<1>5. 0 \in S
  <2>1. 1 \in 1..n+1 /\ 1 - 1 = 0
    BY <1>1
  <2>2. g[1] = Read(Unread, Quote)
    BY <1>1, <1>4, <2>1
  <2>3. Quote \notin Letters
    BY SearchAssumption DEF Quote
  <2>4. Read(Unread, Quote) = Unread
    BY <2>3, Flushing
  <2> QED BY <1>1, <1>4, <2>2, <2>4
<1>6. ASSUME NEW k \in 1..n, k - 1 \in S PROVE k \in S
  <2>1. g[(k - 1) + 1] = f[k - 1] /\ (k - 1) + 1 = k /\ (k + 1) - 1 = k /\ k + 1 \in 1..n+1
    BY <1>1, <1>6
  <2>2. g[k + 1] = Read(g[(k + 1) - 1], u[k + 1])
    BY <1>4, <2>1
  <2>3. g[k + 1] = Read(f[k - 1], w[k])
    BY <1>1, <2>1, <2>2
  <2> QED BY <1>1, <1>4, <2>3
<1> HIDE DEF S
<1>7. g[n + 1] = f[n]
  <2>1. \A k \in 0..n : k \in S
    BY <1>1, <1>5, <1>6, Inductive
  <2>2. n \in S
    BY <1>1, <2>1
  <2> QED BY <2>2 DEF S
<1>8. ReadAll(u) = ReadAll(w)
  BY <1>1, <1>2, <1>3, <1>7, Zenon DEF ReadAll, n
<1> QED BY <1>8, TokenizeIs, Zenon DEF u

\* What ParseQuery has for a sign, and for none.
Unsigned == ""
AnySign == Signs \cup {Unsigned}

\* The sign before a piece, as the key it is.
SignKeys(sign) == IF sign = Unsigned THEN <<>> ELSE <<sign>>

\* At i of q there is the sign, if there is one, and behind it b.
SignAt(q, i, sign, b) == b = i + Len(SignKeys(sign)) /\ (sign # Unsigned => q[i] = sign)

\* At i of q there is a word with its sign, which ends with q or a space.
TermAt(q, i, sign, w, b) ==
  /\ SignAt(q, i, sign, b)
  /\ b + Len(w) <= Len(q) + 1
  /\ \A j \in 1 .. Len(w) : q[b + j - 1] = w[j]
  /\ b + Len(w) <= Len(q) => q[b + Len(w)] = Space

\* At i of q there is a text in quotes with its sign.
PhraseAt(q, i, sign, w, b) ==
  /\ SignAt(q, i, sign, b)
  /\ b + Len(w) + 1 <= Len(q)
  /\ q[b] = Quote /\ q[b + Len(w) + 1] = Quote
  /\ \A j \in 1 .. Len(w) : q[b + j] = w[j]

\* Where the keys of a piece begin there is no other sign and no blank.
LEMMA PieceAt ==
  ASSUME NEW q \in Seq(Keys), NEW i \in 1 .. Len(q), NEW sign \in AnySign,
         NEW b \in 1 .. Len(q), SignAt(q, i, sign, b), q[b] # Space, q[b] \notin Signs
  PROVE  PieceFirst(q, i) = b /\ PieceSign(q, i) = sign
<1>1. Len(q) \in Nat /\ i \in Nat /\ i >= 1 /\ \A k \in 1..Len(q) : q[k] \in Keys
  OBVIOUS
<1>2. Space \notin Signs /\ Unsigned \notin Signs /\ (sign = Unsigned \/ sign \in Signs)
  <2>1. Space \notin Signs
    BY DEF Space, Signs
  <2>2. Unsigned \notin Signs
    BY Zenon DEF Unsigned, Signs
  <2> QED BY <2>1, <2>2 DEF AnySign
<1>3. b = (IF sign = Unsigned THEN i ELSE i + 1) /\ (sign # Unsigned => q[i] = sign)
  <2>1. Len(SignKeys(sign)) = IF sign = Unsigned THEN 0 ELSE 1
    BY DEF SignKeys
  <2> QED BY <1>1, <2>1 DEF SignAt
<1>4. q[i] \in Keys \ {Space}
  BY <1>1, <1>2, <1>3
<1>5. PieceStart(q, i) = i
  <2>1. \A k \in Nat : i <= k /\ k < i => q[k] \notin Keys \ {Space}
    BY <1>1
  <2>2. i <= Len(q) + 1 /\ i <= i
    BY <1>1
  <2> QED BY <1>1, <1>4, <2>1, <2>2, FindIs DEF PieceStart
<1>6. PieceSign(q, i) = sign
  <2>1. i <= Len(q)
    BY <1>1
  <2>2. PieceSign(q, i) = IF q[i] \in Signs THEN q[i] ELSE Unsigned
    BY <1>5, <2>1, Zenon DEF PieceSign, Unsigned
  <2> QED BY <1>2, <1>3, <2>2
<1>7. PieceFirst(q, i) = b
  BY <1>3, <1>5, <1>6, Zenon DEF PieceFirst, Unsigned
<1> QED BY <1>6, <1>7

\* A word with its sign, at a place of a text and a space behind it, is one
\* piece.
LEMMA TermPiece ==
  ASSUME NEW q \in Seq(Keys), NEW i \in 1 .. Len(q), NEW sign \in AnySign,
         NEW w \in Word, NEW b \in 1 .. Len(q), TermAt(q, i, sign, w, b), NEW rest,
         NEW found, found = <<w>>
  PROVE  /\ ~(PieceFirst(q, i) > Len(q))
         /\ PieceNext(q, i) = b + Len(w)
         /\ WithPiece(q, i, rest) = WithTerms(rest, found, sign)
<1> DEFINE l == Len(w)
           n == Len(q)
           e == b + l
<1>1. /\ n \in Nat /\ l \in Nat /\ l >= 1 /\ w \in Seq(Letters)
      /\ \A j \in 1..l : w[j] \in Letters
  BY DEF Word
<1>2. b \in Nat /\ b >= 1 /\ b <= n /\ e \in Nat /\ e >= b
  <2> HIDE DEF l
  <2> QED BY <1>1
<1>3. /\ SignAt(q, i, sign, b)
      /\ e <= n + 1
      /\ \A j \in 1..l : q[b + j - 1] = w[j]
      /\ e <= n => q[e] = Space
  BY Zenon DEF TermAt
<1> HIDE DEF l, n, e
<1>4. Letters \cap {Space, Quote} = {} /\ Letters \cap Signs = {}
  BY SearchAssumption DEF Space, Quote, Signs
<1>5. \A k \in Nat : b <= k /\ k < e => q[k] \in Letters
  <2> TAKE k \in Nat
  <2> HAVE b <= k /\ k < e
  <2>1. k - b + 1 \in 1..l /\ b + (k - b + 1) - 1 = k
    BY <1>1, <1>2 DEF e
  <2>2. q[b + (k - b + 1) - 1] = w[k - b + 1]
    BY <1>3, <2>1
  <2> QED BY <1>1, <2>1, <2>2
<1>6. q[b] \in Letters
  <2>1. b < e
    BY <1>1, <1>2 DEF e
  <2> QED BY <1>2, <1>5, <2>1
<1>7. PieceFirst(q, i) = b /\ PieceSign(q, i) = sign
  <2>1. q[b] # Space /\ q[b] \notin Signs
    BY <1>4, <1>6
  <2> QED BY <1>3, <2>1, PieceAt
<1>8. ~PieceQuoted(q, i)
  BY <1>4, <1>6, <1>7 DEF PieceQuoted
<1>9. PieceEnd(q, i) = e
  <2>1. PieceEnd(q, i) = Find(q, b, {Space})
    BY <1>7, <1>8, Zenon DEF PieceEnd
  <2>2. \A k \in Nat : b <= k /\ k < e => q[k] \notin {Space}
    BY <1>4, <1>5
  <2>3. e <= n => q[e] \in {Space}
    BY <1>3
  <2> QED BY <1>3, <1>1, <1>2, <2>1, <2>2, <2>3, FindIs DEF n
<1>10. PieceNext(q, i) = e
  BY <1>8, <1>9, Zenon DEF PieceNext
<1>11. PieceWords(q, i) = <<w>>
  <2>1. w \in Seq(Keys)
    <3>1. Letters \subseteq Keys
      BY DEF Keys
    <3> QED BY <1>1, <3>1, SeqMonotonic
  <2>2. SubSeq(q, b, b + l - 1) = w
    BY <1>3, <1>2, <2>1, SubSeqIs DEF e, l, n
  <2>3. PieceWords(q, i) = Tokenize(SubSeq(q, b, e - 1))
    BY <1>7, <1>9, Zenon DEF PieceWords
  <2>4. e - 1 = b + l - 1
    BY <1>1, <1>2 DEF e
  <2> QED BY <2>2, <2>3, <2>4, WordReads, Zenon
<1>12. WithPiece(q, i, rest) = WithTerms(rest, found, sign)
  BY <1>7, <1>8, <1>11, Zenon DEF WithPiece
<1>13. ~(PieceFirst(q, i) > n)
  BY <1>1, <1>2, <1>7
<1> QED BY <1>10, <1>12, <1>13 DEF e, l, n

\* So is a text in quotes with its sign.
LEMMA PhrasePiece ==
  ASSUME NEW q \in Seq(Keys), NEW i \in 1 .. Len(q), NEW sign \in AnySign,
         NEW w \in Seq(Char), NEW b \in 1 .. Len(q), PhraseAt(q, i, sign, w, b), NEW rest
  PROVE  /\ ~(PieceFirst(q, i) > Len(q))
         /\ PieceNext(q, i) = b + Len(w) + 2
         /\ WithPiece(q, i, rest) = WithPhrase(rest, Tokenize(w), sign)
<1> DEFINE l == Len(w)
           n == Len(q)
           e == b + l + 1
<1>1. n \in Nat /\ l \in Nat /\ \A j \in 1..l : w[j] \in Char
  OBVIOUS
<1>2. b \in Nat /\ b >= 1 /\ b <= n /\ e \in Nat /\ e >= b + 1 /\ e = b + l + 1
  <2> HIDE DEF l
  <2> QED BY <1>1
<1>3. /\ SignAt(q, i, sign, b)
      /\ e <= n
      /\ q[b] = Quote /\ q[e] = Quote
      /\ \A j \in 1..l : q[b + j] = w[j]
  BY Zenon DEF PhraseAt
<1> HIDE DEF l, n, e
<1>4. Quote \notin Char /\ Quote # Space /\ Quote \notin Signs
  BY SearchAssumption DEF Space, Quote, Signs, Char
<1>5. \A k \in Nat : b + 1 <= k /\ k < e => q[k] \in Char
  <2> TAKE k \in Nat
  <2> HAVE b + 1 <= k /\ k < e
  <2>1. k - b \in 1..l /\ b + (k - b) = k
    BY <1>1, <1>2
  <2>2. q[b + (k - b)] = w[k - b]
    BY <1>3, <2>1
  <2> QED BY <1>1, <2>1, <2>2
<1>6. PieceFirst(q, i) = b /\ PieceSign(q, i) = sign
  <2>1. q[b] # Space /\ q[b] \notin Signs
    BY <1>3, <1>4
  <2> QED BY <1>3, <2>1, PieceAt
<1>7. PieceQuoted(q, i)
  BY <1>3, <1>6 DEF PieceQuoted
<1>8. PieceEnd(q, i) = e
  <2>1. PieceEnd(q, i) = Find(q, b + 1, {Quote})
    BY <1>6, <1>7, Zenon DEF PieceEnd
  <2>2. \A k \in Nat : b + 1 <= k /\ k < e => q[k] \notin {Quote}
    BY <1>4, <1>5
  <2>3. q[e] \in {Quote}
    BY <1>3
  <2>4. e <= n + 1 /\ b + 1 \in Nat
    BY <1>3, <1>1, <1>2
  <2> QED BY <1>1, <1>2, <2>1, <2>2, <2>3, <2>4, FindIs DEF n
<1>9. PieceNext(q, i) = b + l + 2
  <2>1. PieceNext(q, i) = e + 1
    BY <1>7, <1>8, Zenon DEF PieceNext
  <2> QED BY <1>1, <1>2, <2>1
<1>10. PieceWords(q, i) = Tokenize(w)
  <2> DEFINE u == <<Quote>> \o w
  <2>1. w \in Seq(Keys) /\ Quote \in Keys
    <3>1. Char \subseteq Keys /\ Quote \in Keys
      BY DEF Keys, Char
    <3> QED BY <3>1, SeqMonotonic
  <2>2. u \in Seq(Keys) /\ Len(u) = l + 1 /\ u[1] = Quote /\ \A j \in 1..l : u[j + 1] = w[j]
    BY <2>1 DEF l
  <2> HIDE DEF u
  <2>3. \A j \in 1..l+1 : q[b + j - 1] = u[j]
    <3> TAKE j \in 1..l+1
    <3>1. CASE j = 1
      BY <1>3, <1>2, <2>2, <3>1
    <3>2. CASE j # 1
      <4>1. j - 1 \in 1..l /\ b + (j - 1) = b + j - 1 /\ (j - 1) + 1 = j
        BY <1>1, <1>2, <3>2
      <4>2. q[b + (j - 1)] = w[j - 1] /\ u[(j - 1) + 1] = w[j - 1]
        BY <1>3, <2>2, <4>1
      <4> QED BY <4>1, <4>2
    <3> QED BY <3>1, <3>2
  <2>4. b + (l + 1) <= n + 1 /\ b + (l + 1) - 1 = e - 1
    <3>1. e <= n
      BY <1>3, Zenon
    <3> QED BY <1>1, <1>2, <3>1
  <2>5. SubSeq(q, b, b + Len(u) - 1) = u
    <3>1. b + Len(u) <= Len(q) + 1 /\ \A j \in 1..Len(u) : q[b + j - 1] = u[j]
      BY <2>2, <2>3, <2>4 DEF n
    <3> QED BY <1>2, <2>2, <3>1, SubSeqIs
  <2>6. PieceWords(q, i) = Tokenize(SubSeq(q, b, e - 1))
    BY <1>6, <1>8, Zenon DEF PieceWords
  <2>7. Tokenize(u) = Tokenize(w)
    BY QuoteReads DEF u
  <2> QED BY <2>2, <2>4, <2>5, <2>6, <2>7, Zenon
<1>11. WithPiece(q, i, rest) = WithPhrase(rest, Tokenize(w), sign)
  BY <1>6, <1>7, <1>10, Zenon DEF WithPiece
<1>12. ~(PieceFirst(q, i) > n)
  BY <1>1, <1>2, <1>6
<1> QED BY <1>9, <1>11, <1>12 DEF l, n

\* From a space on the same is read as from behind it.
LEMMA SkipsSpace ==
  ASSUME NEW q \in Seq(Keys), NEW i \in 1 .. Len(q), q[i] = Space
  PROVE  /\ PieceFirst(q, i) = PieceFirst(q, i + 1)
         /\ PieceNext(q, i) = PieceNext(q, i + 1)
         /\ \A rest : WithPiece(q, i, rest) = WithPiece(q, i + 1, rest)
<1> DEFINE n == Len(q)
           Some == Keys \ {Space}
           f == Find(q, i + 1, Some)
<1>1. n \in Nat /\ i \in Nat /\ i <= n /\ Space \notin Some
  OBVIOUS
<1>2. PieceStart(q, i) = PieceStart(q, i + 1)
  <2> HIDE DEF Some
  <2>1. /\ f \in Nat /\ f <= n + 1 /\ (f <= n => f >= i + 1 /\ q[f] \in Some)
        /\ \A k \in Nat : i + 1 <= k /\ k < f => q[k] \notin Some \/ k > n
    BY <1>1, FindTyped
  <2> HIDE DEF f
  <2>2. i <= f
    BY <1>1, <2>1
  <2>3. \A k \in Nat : i <= k /\ k < f => q[k] \notin Some
    <3> TAKE k \in Nat
    <3> HAVE i <= k /\ k < f
    <3>1. CASE k = i
      BY <1>1, <3>1
    <3>2. CASE k # i
      BY <1>1, <2>1, <3>2
    <3> QED BY <3>1, <3>2
  <2>4. Find(q, i, Some) = f
    BY <1>1, <2>1, <2>2, <2>3, FindIs
  <2> QED BY <2>4 DEF PieceStart, Some, f
<1>3. PieceSign(q, i) = PieceSign(q, i + 1)
  BY <1>2, Zenon DEF PieceSign
<1>4. PieceFirst(q, i) = PieceFirst(q, i + 1)
  BY <1>2, <1>3, Zenon DEF PieceFirst
<1>5. PieceQuoted(q, i) = PieceQuoted(q, i + 1)
  BY <1>4, Zenon DEF PieceQuoted
<1>6. PieceEnd(q, i) = PieceEnd(q, i + 1)
  BY <1>4, <1>5, Zenon DEF PieceEnd
<1>7. PieceNext(q, i) = PieceNext(q, i + 1)
  BY <1>5, <1>6, Zenon DEF PieceNext
<1>8. PieceWords(q, i) = PieceWords(q, i + 1)
  BY <1>4, <1>6, Zenon DEF PieceWords
<1>9. \A rest : WithPiece(q, i, rest) = WithPiece(q, i + 1, rest)
  BY <1>3, <1>5, <1>8, Zenon DEF WithPiece
<1> QED BY <1>4, <1>7, <1>9

\* The texts of ts follow each other in text, one space between, the k-th from
\* p[k] on.
Placed(text, ts, p) ==
  /\ p \in [1 .. Len(ts) + 1 -> Nat \ {0}]
  /\ p[1] = 1 /\ p[Len(ts) + 1] = Len(text) + 2
  /\ \A k \in 1 .. Len(ts) : /\ p[k+1] = p[k] + Len(ts[k]) + 1
                             /\ p[k+1] <= Len(text) + 2
                             /\ \A j \in 1 .. Len(ts[k]) : text[p[k] + j - 1] = ts[k][j]
  /\ \A k \in 2 .. Len(ts) : text[p[k] - 1] = Space

\* Numbers that the next proof needs.
LEMMA PlacedNumbers ==
  ASSUME NEW n \in Nat, NEW l \in Nat, NEW x \in 1..n+2, x + l + 1 \in 1..n+2
  PROVE  /\ \A j \in 1..l : x + j - 1 \in 1..n /\ (x + j - 1) + 1 = x + j
         /\ x >= 2 => x - 1 \in 1..n /\ (x - 1) + 1 = x
         /\ x + l + 1 >= 2
OBVIOUS

\* So are joined texts.
LEMMA JoinPlaced ==
  ASSUME NEW C, Space \in C, NEW ts \in Seq(Seq(C)), ts # <<>>
  PROVE  \E p : Placed(Join(ts), ts, p)
<1> DEFINE text == Join(ts)
           n == Len(text)
           N == Len(ts)
           L == Spaced(text)
<1>1. text \in Seq(C) /\ n \in Nat /\ N \in Nat /\ \A k \in 1..N : Len(ts[k]) \in Nat
  <2>1. text \in Seq(C)
    BY JoinTyped
  <2> QED BY <2>1
<1>2. PICK p : Laid(L, ts, N, p)
  BY JoinLaid
<1> HIDE DEF text
<1>3. Len(L) = n + 2 /\ \A i \in 1..n : L[i + 1] = text[i]
  BY <1>1 DEF Spaced
<1> HIDE DEF L, n, N
<1>4. /\ p \in [1..N+1 -> 1..n+2]
      /\ p[1] = 1 /\ p[N+1] = n + 2
      /\ \A k \in 1..N : p[k+1] = p[k] + Len(ts[k]) + 1
      /\ \A k \in 1..N+1 : L[p[k]] = Space
      /\ \A k \in 1..N : \A j \in 1..Len(ts[k]) : L[p[k] + j] = ts[k][j]
  BY <1>2, <1>3, Zenon DEF Laid
<1>5. ASSUME NEW k \in 1..N
      PROVE  /\ p[k+1] <= n + 2
             /\ \A j \in 1..Len(ts[k]) : text[p[k] + j - 1] = ts[k][j]
             /\ k >= 2 => text[p[k] - 1] = Space
  <2>1. PICK l \in Nat : l = Len(ts[k])
    BY <1>1
  <2>2. k \in 1..N+1 /\ k + 1 \in 1..N+1
    BY <1>1
  <2>3. PICK x \in 1..n+2 : x = p[k] /\ x + l + 1 = p[k+1] /\ x + l + 1 \in 1..n+2
    <3>1. p[k] \in 1..n+2 /\ p[k+1] \in 1..n+2
      BY <1>4, <2>2
    <3>2. p[k+1] = p[k] + l + 1
      BY <1>4, <2>1
    <3> QED BY <3>1, <3>2
  <2>4. /\ \A j \in 1..l : x + j - 1 \in 1..n /\ (x + j - 1) + 1 = x + j
        /\ x >= 2 => x - 1 \in 1..n /\ (x - 1) + 1 = x
    BY <1>1, <2>3, PlacedNumbers
  <2>5. ASSUME NEW j \in 1..l PROVE text[x + j - 1] = ts[k][j]
    <3>1. L[x + j] = ts[k][j]
      BY <1>4, <2>1, <2>3
    <3>2. L[(x + j - 1) + 1] = text[x + j - 1]
      BY <1>3, <2>4
    <3> QED BY <2>4, <3>1, <3>2
  <2>6. ASSUME k >= 2 PROVE text[x - 1] = Space
    <3>1. x >= 2
      <4>1. k - 1 \in 1..N /\ (k - 1) + 1 = k /\ k - 1 \in 1..N+1
        BY <1>1, <2>6
      <4>2. PICK m \in Nat : m = Len(ts[k - 1])
        BY <1>1, <4>1
      <4>3. PICK y \in 1..n+2 : y = p[k - 1]
        BY <1>4, <4>1
      <4>4. x = y + m + 1
        BY <1>4, <2>3, <4>1, <4>2, <4>3
      <4> QED BY <1>1, <4>2, <4>3, <4>4
    <3>2. L[(x - 1) + 1] = text[x - 1]
      BY <1>3, <2>4, <3>1
    <3>3. L[x] = Space
      BY <1>4, <2>2, <2>3
    <3> QED BY <2>4, <3>1, <3>2, <3>3
  <2>7. p[k+1] <= n + 2
    BY <1>1, <2>3
  <2> QED BY <2>1, <2>3, <2>5, <2>6, <2>7
<1>6. p \in [1..N+1 -> Nat \ {0}]
  <2>1. \A i \in 1..n+2 : i \in Nat \ {0}
    BY <1>1
  <2> QED BY <1>4, <2>1
<1>7. \A k \in 2..N : text[p[k] - 1] = Space
  BY <1>1, <1>5
<1>8. Placed(text, ts, p)
  BY <1>4, <1>5, <1>6, <1>7, Zenon DEF Placed, n, N
<1> QED BY <1>8 DEF text

\* ab is two texts put together, place by place.
Together(ab, a, b) ==
  /\ Len(ab) = Len(a) + Len(b)
  /\ \A i \in 1 .. Len(a) : ab[i] = a[i]
  /\ \A j \in 1 .. Len(b) : ab[Len(a) + j] = b[j]

\* It is, for any two texts.
LEMMA PutTogether ==
  ASSUME NEW C, NEW a \in Seq(C), NEW b \in Seq(C)
  PROVE  a \o b \in Seq(C) /\ Together(a \o b, a, b)
BY DEF Together

\* The signs of the echo, and the texts it is joined from.
TermSign(t) == IF t.require THEN "+" ELSE IF t.negate THEN "-" ELSE Unsigned
PhraseSign(ph) == IF ph.negate THEN "-" ELSE Unsigned
TermEcho(t) == Prefix(t.require, t.negate) \o t.word
PhraseEcho(ph) == Prefix(FALSE, ph.negate) \o <<Quote>> \o Join(ph.terms) \o <<Quote>>
Echoes(q) == [k \in DOMAIN q.terms |-> TermEcho(q.terms[k])]
               \o [k \in DOMAIN q.phrases |-> PhraseEcho(q.phrases[k])]

\* The echo is these texts, joined.
LEMMA StringIs == \A q : String(q) = Join(Echoes(q))
BY Zenon DEF String, Echoes, TermEcho, PhraseEcho

\* A sign in the echo of a term or a phrase is the sign that was read.
LEMMA PrefixIs ==
  /\ \A t \in Term : TermSign(t) \in AnySign /\ Prefix(t.require, t.negate) = SignKeys(TermSign(t))
  /\ \A ph \in Phrase : PhraseSign(ph) \in AnySign /\ Prefix(FALSE, ph.negate) = SignKeys(PhraseSign(ph))
<1>1. "+" \in AnySign /\ "-" \in AnySign /\ Unsigned \in AnySign
  BY Zenon DEF AnySign, Signs
<1>2. "+" # Unsigned /\ "-" # Unsigned
  BY Zenon DEF Unsigned
<1>3. SignKeys("+") = <<"+">> /\ SignKeys("-") = <<"-">> /\ SignKeys(Unsigned) = <<>>
  BY <1>2, Zenon DEF SignKeys
<1>4. ASSUME NEW require, NEW negate
      PROVE  Prefix(require, negate) = SignKeys(IF require THEN "+" ELSE IF negate THEN "-" ELSE Unsigned)
  BY <1>3, Zenon DEF Prefix
<1>5. \A t \in Term : TermSign(t) \in AnySign /\ Prefix(t.require, t.negate) = SignKeys(TermSign(t))
  BY <1>1, <1>4, Zenon DEF TermSign
<1>6. ASSUME NEW ph \in Phrase
      PROVE  PhraseSign(ph) \in AnySign /\ Prefix(FALSE, ph.negate) = SignKeys(PhraseSign(ph))
  <2>1. Prefix(FALSE, ph.negate) = IF ph.negate THEN <<"-">> ELSE <<>>
    BY Zenon DEF Prefix
  <2> QED BY <1>1, <1>3, <2>1, Zenon DEF PhraseSign
<1> QED BY <1>5, <1>6

\* The key of a sign, if there is one.
LEMMA SignKeysAre ==
  ASSUME NEW sign \in AnySign
  PROVE  /\ SignKeys(sign) \in Seq(Keys)
         /\ Len(SignKeys(sign)) \in {0, 1}
         /\ sign # Unsigned => Len(SignKeys(sign)) = 1 /\ SignKeys(sign)[1] = sign
<1>1. sign # Unsigned => sign \in Keys
  BY DEF AnySign, Keys
<1> QED BY <1>1 DEF SignKeys

\* The texts of the echo, key by key: a sign of c keys and a word, or a text
\* in quotes.
TermKeys(text, sign, c, w) ==
  /\ Len(text) = c + Len(w)
  /\ sign # Unsigned => text[1] = sign
  /\ \A j \in 1 .. Len(w) : text[c + j] = w[j]

PhraseKeys(text, sign, c, w) ==
  /\ Len(text) = c + Len(w) + 2
  /\ sign # Unsigned => text[1] = sign
  /\ text[c + 1] = Quote
  /\ \A j \in 1 .. Len(w) : text[c + 1 + j] = w[j]
  /\ text[c + Len(w) + 2] = Quote

\* What is echoed of a term.
LEMMA TermEchoIs ==
  ASSUME NEW t \in Term, NEW c, c = Len(SignKeys(TermSign(t)))
  PROVE  TermEcho(t) \in Seq(Keys) /\ TermKeys(TermEcho(t), TermSign(t), c, t.word)
<1> DEFINE a == SignKeys(TermSign(t))
           w == t.word
<1>1. TermEcho(t) = a \o w
  BY PrefixIs, Zenon DEF TermEcho
<1>2. a \in Seq(Keys) /\ c \in {0, 1} /\ c = Len(a)
      /\ (TermSign(t) # Unsigned => c = 1 /\ a[1] = TermSign(t))
  <2>1. TermSign(t) \in AnySign
    BY PrefixIs
  <2> QED BY <2>1, SignKeysAre
<1>3. w \in Seq(Keys)
  <2>1. w \in Seq(Letters)
    BY DEF Term, Word
  <2>2. Letters \subseteq Keys
    BY DEF Keys
  <2> QED BY <2>1, <2>2, SeqMonotonic
<1> HIDE DEF a, w
<1>4. /\ a \o w \in Seq(Keys) /\ Len(a \o w) = Len(a) + Len(w)
      /\ \A i \in 1 .. Len(a) : (a \o w)[i] = a[i]
      /\ \A j \in 1 .. Len(w) : (a \o w)[Len(a) + j] = w[j]
  BY <1>2, <1>3, PutTogether DEF Together
<1>5. a \o w \in Seq(Keys) /\ Len(a \o w) = c + Len(w)
  BY <1>2, <1>4
<1>6. c = 1 => (a \o w)[1] = a[1]
  <2>1. c = 1 => 1 \in 1..Len(a)
    BY <1>2
  <2> QED BY <1>4, <2>1
<1>7. \A j \in 1..Len(w) : (a \o w)[c + j] = w[j]
  BY <1>2, <1>4
<1> QED BY <1>1, <1>2, <1>5, <1>6, <1>7 DEF w, TermKeys

\* What is echoed of a phrase.
LEMMA PhraseEchoIs ==
  ASSUME NEW ph \in Phrase, NEW c, c = Len(SignKeys(PhraseSign(ph))), NEW w, w = Join(ph.terms)
  PROVE  /\ w \in Seq(Char)
         /\ PhraseEcho(ph) \in Seq(Keys)
         /\ PhraseKeys(PhraseEcho(ph), PhraseSign(ph), c, w)
<1> DEFINE a == SignKeys(PhraseSign(ph))
           u == <<Quote>>
           v == a \o u
           x == v \o w
<1>1. PhraseEcho(ph) = x \o u
  BY PrefixIs, Zenon DEF PhraseEcho
<1>2. a \in Seq(Keys) /\ c \in {0, 1} /\ c = Len(a)
      /\ (PhraseSign(ph) # Unsigned => c = 1 /\ a[1] = PhraseSign(ph))
  <2>1. PhraseSign(ph) \in AnySign
    BY PrefixIs
  <2> QED BY <2>1, SignKeysAre
<1>3. w \in Seq(Char)
  <2>1. Word \subseteq Seq(Char) /\ Space \in Char
    BY SeqMonotonic DEF Word, Char
  <2>2. ph.terms \in Seq(Seq(Char))
    BY <2>1, SeqMonotonic DEF Phrase
  <2> QED BY <2>1, <2>2, JoinTyped
<1>4. w \in Seq(Keys) /\ u \in Seq(Keys) /\ Len(u) = 1 /\ u[1] = Quote
  <2>1. Char \subseteq Keys /\ Quote \in Keys
    BY DEF Keys, Char
  <2> QED BY <1>3, <2>1, SeqMonotonic
<1> HIDE DEF a, u
<1>5. v \in Seq(Keys) /\ Len(v) = c + 1 /\ v[c + 1] = Quote /\ (c = 1 => v[1] = a[1])
  <2>1. v \in Seq(Keys) /\ Together(v, a, u)
    BY <1>2, <1>4, PutTogether
  <2>2. /\ Len(v) = Len(a) + Len(u)
        /\ \A i \in 1 .. Len(a) : v[i] = a[i]
        /\ \A j \in 1 .. Len(u) : v[Len(a) + j] = u[j]
    BY <2>1, Zenon DEF Together
  <2>3. 1 \in 1..Len(u) /\ (c = 1 => 1 \in 1..Len(a))
    BY <1>2, <1>4
  <2> QED BY <1>2, <1>4, <2>1, <2>2, <2>3
<1> HIDE DEF v
<1>6. /\ x \in Seq(Keys) /\ Len(x) = c + 1 + Len(w)
      /\ \A j \in 1..c+1 : x[j] = v[j]
      /\ \A j \in 1..Len(w) : x[c + 1 + j] = w[j]
  <2>1. x \in Seq(Keys) /\ Together(x, v, w)
    BY <1>4, <1>5, PutTogether
  <2>2. /\ Len(x) = Len(v) + Len(w)
        /\ \A i \in 1 .. Len(v) : x[i] = v[i]
        /\ \A j \in 1 .. Len(w) : x[Len(v) + j] = w[j]
    BY <2>1, Zenon DEF Together
  <2> QED BY <1>5, <2>1, <2>2, Zenon
<1> HIDE DEF x
<1>7. Len(w) \in Nat /\ c \in Nat /\ 1 \in 1..c+1 /\ c + 1 \in 1..c+1
  BY <1>2, <1>4
<1>8. /\ x \o u \in Seq(Keys) /\ Len(x \o u) = c + Len(w) + 2
      /\ \A j \in 1..c+1+Len(w) : (x \o u)[j] = x[j]
      /\ (x \o u)[c + Len(w) + 2] = Quote
  <2>1. x \o u \in Seq(Keys) /\ Together(x \o u, x, u)
    BY <1>4, <1>6, PutTogether
  <2>2. /\ Len(x \o u) = Len(x) + Len(u)
        /\ \A i \in 1 .. Len(x) : (x \o u)[i] = x[i]
        /\ \A j \in 1 .. Len(u) : (x \o u)[Len(x) + j] = u[j]
    BY <2>1, Zenon DEF Together
  <2>3. Len(x) + 1 = c + Len(w) + 2 /\ 1 \in 1..Len(u)
    BY <1>4, <1>6, <1>7
  <2>4. \A j \in 1..c+1+Len(w) : (x \o u)[j] = x[j]
    BY <1>6, <2>2, Zenon
  <2> QED BY <1>4, <2>1, <2>2, <2>3, <2>4
<1>9. \A j \in 1..Len(w) : c + 1 + j \in 1..c+1+Len(w)
  BY <1>7
<1>10. 1 \in 1..c+1+Len(w) /\ c + 1 \in 1..c+1+Len(w)
  BY <1>7
<1>11. PhraseSign(ph) # Unsigned => (x \o u)[1] = PhraseSign(ph)
  BY <1>2, <1>5, <1>6, <1>7, <1>8, <1>10
<1>12. (x \o u)[c + 1] = Quote
  BY <1>5, <1>6, <1>7, <1>8, <1>10
<1>13. \A j \in 1..Len(w) : (x \o u)[c + 1 + j] = w[j]
  BY <1>6, <1>8, <1>9
<1>14. PhraseKeys(x \o u, PhraseSign(ph), c, w)
  BY <1>8, <1>11, <1>12, <1>13 DEF PhraseKeys
<1> QED BY <1>1, <1>3, <1>8, <1>14, Zenon

\* Numbers that the next proofs need.
LEMMA EchoNumbers ==
  ASSUME NEW n \in Nat, NEW i \in Nat \ {0}, NEW c \in {0, 1}, NEW l \in Nat, NEW x,
         x = i + (c + l) + 1, x <= n + 2
  PROVE  /\ (i + c) + l = x - 1 /\ (i + c) + l <= n + 1
         /\ l >= 1 => i \in 1..n /\ i + c \in 1..n
         /\ \A j \in 1..l : c + j \in 1..c+l /\ (i + c) + j - 1 = i + (c + j) - 1
         /\ c = 1 => 1 \in 1..c+l /\ i + 1 - 1 = i
OBVIOUS

\* The k-th of the texts that follow each other in q is one piece of it, which
\* makes more of the rest.
PlacedPiece(q, p, k, rest, more) ==
  /\ p[k] \in 1 .. Len(q)
  /\ ~(PieceFirst(q, p[k]) > Len(q))
  /\ PieceNext(q, p[k]) = p[k+1] - 1
  /\ WithPiece(q, p[k], rest) = more

\* A term of the echo is read back.
LEMMA TermPlaced ==
  ASSUME NEW q \in Seq(Keys), NEW ts, Len(ts) \in Nat, NEW p, Placed(q, ts, p),
         NEW k \in 1 .. Len(ts), NEW t \in Term, ts[k] = TermEcho(t), NEW rest
  PROVE  PlacedPiece(q, p, k, rest, WithTerms(rest, <<t.word>>, TermSign(t)))
<1> DEFINE n == Len(q)
           N == Len(ts)
           sign == TermSign(t)
           w == t.word
           l == Len(w)
<1>1. n \in Nat /\ N \in Nat /\ w \in Word /\ l \in Nat /\ l >= 1 /\ sign \in AnySign
  <2>1. w \in Word
    BY DEF Term
  <2>2. l \in Nat /\ l >= 1
    BY <2>1 DEF Word
  <2>3. sign \in AnySign
    BY PrefixIs
  <2> QED BY <2>1, <2>2, <2>3
<1>2. PICK c \in {0, 1} : c = Len(SignKeys(sign)) /\ (sign # Unsigned => c = 1)
  BY <1>1, SignKeysAre
<1>3. /\ Len(ts[k]) = c + l
      /\ sign # Unsigned => ts[k][1] = sign
      /\ \A j \in 1..l : ts[k][c + j] = w[j]
  <2>1. TermKeys(ts[k], sign, c, w)
    BY <1>2, TermEchoIs
  <2> QED BY <2>1, Zenon DEF TermKeys
<1>4. PICK i \in Nat \ {0} : i = p[k]
  <2>1. k \in 1..N+1
    BY <1>1
  <2> QED BY <2>1 DEF Placed
<1>5. PICK x : x = p[k+1]
  OBVIOUS
<1> HIDE DEF sign, w, l, n, N
<1>6. /\ x = i + (c + l) + 1 /\ x <= n + 2
      /\ \A j \in 1..c+l : q[i + j - 1] = ts[k][j]
  BY <1>3, <1>4, <1>5 DEF Placed, n
<1>7. /\ (i + c) + l = x - 1 /\ (i + c) + l <= n + 1
      /\ i \in 1..n /\ i + c \in 1..n
      /\ \A j \in 1..l : c + j \in 1..c+l /\ (i + c) + j - 1 = i + (c + j) - 1
      /\ c = 1 => 1 \in 1..c+l /\ i + 1 - 1 = i
  BY <1>1, <1>6, EchoNumbers
<1>8. ASSUME (i + c) + l <= n PROVE q[(i + c) + l] = Space
  <2>1. x - 1 <= n /\ x # n + 2
    BY <1>1, <1>7, <1>8
  <2>2. k # N
    BY <1>5, <2>1 DEF Placed, n, N
  <2>3. k + 1 \in 2..N
    BY <1>1, <2>2 DEF N
  <2>4. q[p[k+1] - 1] = Space
    BY <2>3 DEF Placed, N
  <2> QED BY <1>5, <1>7, <2>4
<1>9. ASSUME NEW j \in 1..l PROVE q[(i + c) + j - 1] = w[j]
  <2>1. q[i + (c + j) - 1] = ts[k][c + j]
    BY <1>6, <1>7
  <2> QED BY <1>3, <1>7, <2>1
<1>10. sign # Unsigned => q[i] = sign
  <2> SUFFICES ASSUME sign # Unsigned PROVE q[i] = sign
    OBVIOUS
  <2>1. q[i + 1 - 1] = ts[k][1] /\ i + 1 - 1 = i
    BY <1>2, <1>6, <1>7
  <2> QED BY <1>3, <2>1
<1> DEFINE b == i + c
           found == <<w>>
<1>11. TermAt(q, i, sign, w, b)
  BY <1>2, <1>7, <1>8, <1>9, <1>10 DEF TermAt, SignAt, n, l
<1>12. b \in 1..n /\ b + l = x - 1
  BY <1>7
<1> HIDE DEF b
<1>13. /\ ~(PieceFirst(q, i) > n)
       /\ PieceNext(q, i) = b + l
       /\ WithPiece(q, i, rest) = WithTerms(rest, found, sign)
  <2>1. found = <<w>>
    BY Zenon
  <2> HIDE DEF found
  <2>2. i \in 1..Len(q) /\ b \in 1..Len(q)
    BY <1>7, <1>12 DEF n
  <2>3. w \in Word /\ sign \in AnySign
    BY <1>1
  <2>4. /\ ~(PieceFirst(q, i) > Len(q))
        /\ PieceNext(q, i) = b + Len(w)
        /\ WithPiece(q, i, rest) = WithTerms(rest, found, sign)
    BY <1>11, <2>1, <2>2, <2>3, TermPiece
  <2> QED BY <2>4 DEF n, l
<1> HIDE DEF found
<1>14. WithPiece(q, p[k], rest) = WithTerms(rest, <<t.word>>, TermSign(t))
  BY <1>4, <1>13, Zenon DEF found, w, sign
<1>15. p[k] \in 1..n /\ ~(PieceFirst(q, p[k]) > n) /\ PieceNext(q, p[k]) = p[k+1] - 1
  BY <1>4, <1>5, <1>7, <1>12, <1>13
<1> QED BY <1>14, <1>15, Zenon DEF n, PlacedPiece

\* Numbers that the next proof needs.
LEMMA PhraseNumbers ==
  ASSUME NEW n \in Nat, NEW i \in Nat \ {0}, NEW c \in {0, 1}, NEW l \in Nat, NEW x,
         x = i + (c + l + 2) + 1, x <= n + 2
  PROVE  /\ (i + c) + l + 2 = x - 1 /\ (i + c) + l + 1 <= n
         /\ i \in 1..n /\ i + c \in 1..n
         /\ \A j \in 1..l : c + 1 + j \in 1..c+l+2 /\ (i + c) + j = i + (c + 1 + j) - 1
         /\ 1 \in 1..c+l+2 /\ i + 1 - 1 = i
         /\ c + 1 \in 1..c+l+2 /\ i + (c + 1) - 1 = i + c
         /\ c + l + 2 \in 1..c+l+2 /\ i + (c + l + 2) - 1 = (i + c) + l + 1
OBVIOUS

\* A phrase of the echo is read back.
LEMMA PhrasePlaced ==
  ASSUME NEW q \in Seq(Keys), NEW ts, Len(ts) \in Nat, NEW p, Placed(q, ts, p),
         NEW k \in 1 .. Len(ts), NEW ph \in Phrase, ts[k] = PhraseEcho(ph), NEW rest
  PROVE  PlacedPiece(q, p, k, rest, WithPhrase(rest, ph.terms, PhraseSign(ph)))
<1> DEFINE n == Len(q)
           sign == PhraseSign(ph)
           w == Join(ph.terms)
           l == Len(w)
<1>1. n \in Nat /\ sign \in AnySign
  <2>1. sign \in AnySign
    BY PrefixIs, Zenon
  <2> HIDE DEF sign
  <2> QED BY <2>1
<1>2. PICK c \in {0, 1} : c = Len(SignKeys(sign)) /\ (sign # Unsigned => c = 1)
  BY <1>1, SignKeysAre
<1>3. /\ w \in Seq(Char)
      /\ Len(ts[k]) = c + l + 2
      /\ sign # Unsigned => ts[k][1] = sign
      /\ ts[k][c + 1] = Quote
      /\ \A j \in 1..l : ts[k][c + 1 + j] = w[j]
      /\ ts[k][c + l + 2] = Quote
  <2>1. w \in Seq(Char) /\ PhraseKeys(ts[k], sign, c, w)
    BY <1>2, PhraseEchoIs
  <2> QED BY <2>1, Zenon DEF PhraseKeys
<1>4. PICK i \in Nat \ {0} : i = p[k]
  <2>1. k \in 1..Len(ts)+1
    OBVIOUS
  <2> QED BY <2>1 DEF Placed
<1>5. PICK x : x = p[k+1]
  OBVIOUS
<1>6. Tokenize(w) = ph.terms
  <2>1. ph.terms \in Seq(Word) /\ ph.terms # <<>>
    BY DEF Phrase
  <2> QED BY <2>1, JoinReads
<1> HIDE DEF sign, w, l, n
<1>7. l \in Nat
  BY <1>3 DEF l
<1>8. /\ x = i + (c + l + 2) + 1 /\ x <= n + 2
      /\ \A j \in 1..c+l+2 : q[i + j - 1] = ts[k][j]
  BY <1>3, <1>4, <1>5 DEF Placed, n
<1>9. /\ (i + c) + l + 2 = x - 1 /\ (i + c) + l + 1 <= n
      /\ i \in 1..n /\ i + c \in 1..n
      /\ \A j \in 1..l : c + 1 + j \in 1..c+l+2 /\ (i + c) + j = i + (c + 1 + j) - 1
      /\ 1 \in 1..c+l+2 /\ i + 1 - 1 = i
      /\ c + 1 \in 1..c+l+2 /\ i + (c + 1) - 1 = i + c
      /\ c + l + 2 \in 1..c+l+2 /\ i + (c + l + 2) - 1 = (i + c) + l + 1
  BY <1>1, <1>7, <1>8, PhraseNumbers
<1>10. ASSUME NEW j \in 1..l PROVE q[(i + c) + j] = w[j]
  <2>1. q[i + (c + 1 + j) - 1] = ts[k][c + 1 + j]
    BY <1>8, <1>9
  <2> QED BY <1>3, <1>9, <2>1
<1>11. sign # Unsigned => q[i] = sign
  <2>1. q[i + 1 - 1] = ts[k][1] /\ i + 1 - 1 = i
    BY <1>8, <1>9
  <2> QED BY <1>3, <2>1
<1>12. q[i + c] = Quote /\ q[(i + c) + l + 1] = Quote
  <2>1. q[i + (c + 1) - 1] = ts[k][c + 1]
    BY <1>8, <1>9
  <2>2. q[i + (c + l + 2) - 1] = ts[k][c + l + 2]
    BY <1>8, <1>9
  <2> QED BY <1>3, <1>9, <2>1, <2>2
<1> DEFINE b == i + c
<1>13. PhraseAt(q, i, sign, w, b)
  BY <1>2, <1>9, <1>10, <1>11, <1>12 DEF PhraseAt, SignAt, n, l
<1>14. b \in 1..n /\ b + l + 2 = x - 1
  BY <1>9
<1> HIDE DEF b
<1>15. /\ ~(PieceFirst(q, i) > n)
       /\ PieceNext(q, i) = b + l + 2
       /\ WithPiece(q, i, rest) = WithPhrase(rest, Tokenize(w), sign)
  <2>1. i \in 1..Len(q) /\ b \in 1..Len(q)
    BY <1>9, <1>14 DEF n
  <2>2. w \in Seq(Char) /\ sign \in AnySign
    BY <1>1, <1>3
  <2>3. /\ ~(PieceFirst(q, i) > Len(q))
        /\ PieceNext(q, i) = b + Len(w) + 2
        /\ WithPiece(q, i, rest) = WithPhrase(rest, Tokenize(w), sign)
    BY <1>13, <2>1, <2>2, PhrasePiece
  <2> QED BY <2>3 DEF n, l
<1>16. p[k] \in 1..n /\ ~(PieceFirst(q, p[k]) > n) /\ PieceNext(q, p[k]) = p[k+1] - 1
  BY <1>4, <1>5, <1>9, <1>14, <1>15
<1>17. WithPiece(q, p[k], rest) = WithPhrase(rest, ph.terms, PhraseSign(ph))
  BY <1>4, <1>6, <1>15, Zenon DEF sign
<1> QED BY <1>16, <1>17, Zenon DEF n, PlacedPiece

\* A query with other terms, or other phrases.
LEMMA Exchanged ==
  ASSUME NEW r, NEW a, NEW b, NEW c, r = [terms |-> a, phrases |-> b]
  PROVE  /\ [r EXCEPT !.terms = c] = [terms |-> c, phrases |-> b]
         /\ [r EXCEPT !.phrases = c] = [terms |-> a, phrases |-> c]
OBVIOUS

\* A query from its k-th text on.
Rest(q, k) ==
  [terms |-> SubSeq(q.terms, k, Len(q.terms)),
   phrases |-> SubSeq(q.phrases, IF k <= Len(q.terms) THEN 1 ELSE k - Len(q.terms),
                      Len(q.phrases))]

\* A sequence from one place on.
LEMMA TailIs ==
  ASSUME NEW X, NEW s \in Seq(X), NEW k \in 1 .. Len(s)
  PROVE  <<s[k]>> \o SubSeq(s, k + 1, Len(s)) = SubSeq(s, k, Len(s))
<1> DEFINE u == SubSeq(s, k + 1, Len(s))
           v == SubSeq(s, k, Len(s))
           m == Len(s) - k
           h == <<s[k]>>
<1>1. m \in Nat /\ s[k] \in X /\ Len(s) \in Nat
  OBVIOUS
<1>2. u \in Seq(X) /\ Len(u) = m /\ \A j \in 1..m : u[j] = s[k + j]
  OBVIOUS
<1>3. v \in Seq(X) /\ Len(v) = m + 1 /\ \A j \in 1..m+1 : v[j] = s[k + j - 1]
  OBVIOUS
<1>4. h \in Seq(X) /\ Len(h) = 1 /\ h[1] = s[k]
  BY <1>1
<1> HIDE DEF u, v, m, h
<1>5. h \o u \in Seq(X) /\ Together(h \o u, h, u)
  BY <1>2, <1>4, PutTogether
<1>6. Len(h \o u) = m + 1
  BY <1>1, <1>2, <1>4, <1>5 DEF Together
<1>7. ASSUME NEW j \in 1..m+1 PROVE (h \o u)[j] = v[j]
  <2>1. CASE j = 1
    <3>1. (h \o u)[1] = h[1]
      BY <1>4, <1>5 DEF Together
    <3> QED BY <1>1, <1>3, <1>4, <2>1, <3>1
  <2>2. CASE j # 1
    <3>1. j - 1 \in 1..m /\ 1 + (j - 1) = j /\ k + (j - 1) = k + j - 1
      BY <1>1, <2>2
    <3>2. (h \o u)[1 + (j - 1)] = u[j - 1]
      BY <1>2, <1>4, <1>5, <3>1 DEF Together
    <3> QED BY <1>2, <1>3, <3>1, <3>2
  <2> QED BY <2>1, <2>2
<1>8. h \o u = v
  <2>1. Len(h \o u) = Len(v) /\ \A j \in 1 .. Len(h \o u) : (h \o u)[j] = v[j]
    BY <1>3, <1>6, <1>7
  <2> QED BY <1>3, <1>5, <2>1, SeqEqual
<1> QED BY <1>8 DEF h, u, v

\* From the first on it is the query, from behind the last on nothing.
LEMMA RestEnds ==
  ASSUME NEW q \in Query
  PROVE  Rest(q, 1) = q /\ Rest(q, Len(q.terms) + Len(q.phrases) + 1) = Nothing
<1> DEFINE T == Len(q.terms)
           P == Len(q.phrases)
<1>1. q.terms \in Seq(Term) /\ q.phrases \in Seq(Phrase)
      /\ q = [terms |-> q.terms, phrases |-> q.phrases]
  BY DEF Query
<1>2. \A m : Rest(q, m) = [terms |-> SubSeq(q.terms, m, T),
                            phrases |-> SubSeq(q.phrases, IF m <= T THEN 1 ELSE m - T, P)]
  BY Zenon DEF Rest
<1>3. T \in Nat /\ P \in Nat
  BY <1>1
<1>4. Rest(q, 1) = q
  <2>1. SubSeq(q.terms, 1, T) = q.terms /\ SubSeq(q.phrases, 1, P) = q.phrases
    BY <1>1
  <2>2. (IF 1 <= T THEN 1 ELSE 1 - T) = 1
    BY <1>3
  <2> QED BY <1>2, <1>1, <2>1, <2>2, Zenon
<1>5. Rest(q, T + P + 1) = Nothing
  <2> HIDE DEF T, P
  <2>1. PICK m \in Nat : m = T + P + 1
    BY <1>3
  <2>2. SubSeq(q.terms, m, T) = <<>>
    BY <1>1, <1>3, <2>1
  <2>3. (IF m <= T THEN 1 ELSE m - T) = P + 1
    BY <1>3, <2>1
  <2>4. SubSeq(q.phrases, P + 1, P) = <<>>
    BY <1>1, <1>3
  <2> QED BY <1>2, <2>1, <2>2, <2>3, <2>4, Zenon DEF Nothing
<1> QED BY <1>4, <1>5

\* Its texts one by one.
LEMMA RestTerm ==
  ASSUME NEW q \in Query, NEW k \in 1 .. Len(q.terms)
  PROVE  WithTerms(Rest(q, k + 1), <<q.terms[k].word>>, TermSign(q.terms[k])) = Rest(q, k)
<1> DEFINE T == Len(q.terms)
           P == Len(q.phrases)
           t == q.terms[k]
           sign == TermSign(t)
           found == <<t.word>>
           new == [j \in DOMAIN found |-> [word |-> found[j], require |-> sign = "+",
                                            negate |-> sign = "-"]]
<1>1. \A m : Rest(q, m) = [terms |-> SubSeq(q.terms, m, T),
                            phrases |-> SubSeq(q.phrases, IF m <= T THEN 1 ELSE m - T, P)]
  BY Zenon DEF Rest
<1>2. q.terms \in Seq(Term) /\ T \in Nat /\ t \in Term
  <2>1. q.terms \in Seq(Term)
    BY DEF Query
  <2> QED BY <2>1
<1>3. t = [word |-> t.word, require |-> sign = "+", negate |-> sign = "-"]
  <2>1. t = [word |-> t.word, require |-> t.require, negate |-> t.negate]
        /\ t.require \in BOOLEAN /\ t.negate \in BOOLEAN /\ ~(t.require /\ t.negate)
    BY <1>2 DEF Term
  <2>2. "+" # "-" /\ "+" # Unsigned /\ "-" # Unsigned
    BY Zenon DEF Unsigned
  <2>3. (sign = "+") = t.require
    BY <2>1, <2>2, Zenon DEF TermSign
  <2>4. (sign = "-") = t.negate
    BY <2>1, <2>2, Zenon DEF TermSign
  <2> HIDE DEF sign, t
  <2> QED BY <2>1, <2>3, <2>4, Zenon
<1> HIDE DEF t, sign
<1>4. new = <<t>>
  <2>1. DOMAIN found = {1} /\ found[1] = t.word
    OBVIOUS
  <2> HIDE DEF found
  <2>2. new = [j \in {1} |-> t]
    BY <1>3, <2>1, Zenon
  <2>3. [j \in {1} |-> t] = <<t>>
    OBVIOUS
  <2> QED BY <2>2, <2>3
<1>5. WithTerms(Rest(q, k + 1), found, sign)
        = [Rest(q, k + 1) EXCEPT !.terms = new \o Rest(q, k + 1).terms]
  BY Zenon DEF WithTerms
<1> HIDE DEF new
<1>6. /\ (IF k + 1 <= T THEN 1 ELSE k + 1 - T) = 1
      /\ (IF k <= T THEN 1 ELSE k - T) = 1
  BY <1>2
<1>7. Rest(q, k) = [terms |-> SubSeq(q.terms, k, T), phrases |-> SubSeq(q.phrases, 1, P)]
  BY <1>6, <1>1, Zenon
<1>8. Rest(q, k + 1) = [terms |-> SubSeq(q.terms, k + 1, T), phrases |-> SubSeq(q.phrases, 1, P)]
  <2>1. PICK m : m = k + 1
    OBVIOUS
  <2>2. (IF m <= T THEN 1 ELSE m - T) = 1
    BY <1>6, <2>1
  <2>3. Rest(q, m) = [terms |-> SubSeq(q.terms, m, T), phrases |-> SubSeq(q.phrases, 1, P)]
    BY <1>1, <2>2, Zenon
  <2> QED BY <2>1, <2>3, Zenon
<1>9. <<t>> \o SubSeq(q.terms, k + 1, T) = SubSeq(q.terms, k, T)
  BY <1>2, TailIs DEF t
<1> HIDE DEF T, P, found
<1>10. WithTerms(Rest(q, k + 1), found, sign) = Rest(q, k)
  <2>1. PICK a : a = SubSeq(q.terms, k + 1, T)
    OBVIOUS
  <2>2. PICK b : b = SubSeq(q.phrases, 1, P)
    OBVIOUS
  <2>3. PICK c : c = SubSeq(q.terms, k, T)
    OBVIOUS
  <2>4. PICK r : r = Rest(q, k + 1)
    OBVIOUS
  <2>5. r = [terms |-> a, phrases |-> b]
    BY <1>8, <2>1, <2>2, <2>4, Zenon
  <2>6. [r EXCEPT !.terms = c] = [terms |-> c, phrases |-> b]
    BY <2>5, Exchanged
  <2>7. new \o r.terms = c
    <3>1. r.terms = a
      BY <2>5
    <3> QED BY <1>4, <1>9, <2>1, <2>3, <3>1, Zenon
  <2> QED BY <1>5, <1>7, <2>2, <2>3, <2>4, <2>6, <2>7, Zenon
<1> QED BY <1>10 DEF t, sign, found

\* And its phrases.
LEMMA RestPhrase ==
  ASSUME NEW q \in Query, NEW j \in 1 .. Len(q.phrases)
  PROVE  WithPhrase(Rest(q, Len(q.terms) + j + 1), q.phrases[j].terms, PhraseSign(q.phrases[j]))
           = Rest(q, Len(q.terms) + j)
<1> DEFINE T == Len(q.terms)
           P == Len(q.phrases)
           ph == q.phrases[j]
           sign == PhraseSign(ph)
           k == T + j
<1>1. \A m : Rest(q, m) = [terms |-> SubSeq(q.terms, m, T),
                            phrases |-> SubSeq(q.phrases, IF m <= T THEN 1 ELSE m - T, P)]
  BY Zenon DEF Rest
<1>2. q.terms \in Seq(Term) /\ T \in Nat /\ q.phrases \in Seq(Phrase) /\ P \in Nat /\ ph \in Phrase
  <2>1. q.terms \in Seq(Term) /\ q.phrases \in Seq(Phrase)
    BY DEF Query
  <2> QED BY <2>1
<1>3. ph = [terms |-> ph.terms, negate |-> sign = "-"] /\ ph.terms # <<>>
  <2>1. ph = [terms |-> ph.terms, negate |-> ph.negate] /\ ph.negate \in BOOLEAN /\ ph.terms # <<>>
    BY <1>2 DEF Phrase
  <2>2. "-" # Unsigned
    BY Zenon DEF Unsigned
  <2>3. (sign = "-") = ph.negate
    BY <2>1, <2>2, Zenon DEF PhraseSign
  <2> HIDE DEF sign, ph
  <2> QED BY <2>1, <2>3, Zenon
<1> HIDE DEF ph, sign
<1>4. WithPhrase(Rest(q, k + 1), ph.terms, sign)
        = [Rest(q, k + 1) EXCEPT !.phrases = <<ph>> \o Rest(q, k + 1).phrases]
  BY <1>3, Zenon DEF WithPhrase
<1>5. /\ (IF k + 1 <= T THEN 1 ELSE k + 1 - T) = j + 1
      /\ (IF k <= T THEN 1 ELSE k - T) = j
  BY <1>2
<1>6. SubSeq(q.terms, k, T) = <<>> /\ SubSeq(q.terms, k + 1, T) = <<>>
  BY <1>2
<1>7. Rest(q, k) = [terms |-> <<>>, phrases |-> SubSeq(q.phrases, j, P)]
  BY <1>5, <1>6, <1>1, Zenon
<1>8. Rest(q, k + 1) = [terms |-> <<>>, phrases |-> SubSeq(q.phrases, j + 1, P)]
  <2>1. PICK m : m = k + 1
    OBVIOUS
  <2>2. (IF m <= T THEN 1 ELSE m - T) = j + 1 /\ SubSeq(q.terms, m, T) = <<>>
    BY <1>5, <1>6, <2>1
  <2>3. Rest(q, m) = [terms |-> <<>>, phrases |-> SubSeq(q.phrases, j + 1, P)]
    BY <1>1, <2>2, Zenon
  <2> QED BY <2>1, <2>3, Zenon
<1>9. <<ph>> \o SubSeq(q.phrases, j + 1, P) = SubSeq(q.phrases, j, P)
  BY <1>2, TailIs DEF ph
<1> HIDE DEF k, P
<1>10. WithPhrase(Rest(q, k + 1), ph.terms, sign) = Rest(q, k)
  <2>1. PICK a : a = SubSeq(q.phrases, j + 1, P)
    OBVIOUS
  <2>2. PICK c : c = SubSeq(q.phrases, j, P)
    OBVIOUS
  <2>3. PICK r : r = Rest(q, k + 1)
    OBVIOUS
  <2>4. PICK none : none = <<>>
    OBVIOUS
  <2>5. r = [terms |-> none, phrases |-> a]
    BY <1>8, <2>1, <2>3, <2>4, Zenon
  <2>6. [r EXCEPT !.phrases = c] = [terms |-> none, phrases |-> c]
    BY <2>5, Exchanged
  <2>7. <<ph>> \o r.phrases = c
    <3>1. r.phrases = a
      BY <2>5
    <3> QED BY <1>9, <2>1, <2>2, <3>1, Zenon
  <2> QED BY <1>4, <1>7, <2>2, <2>3, <2>4, <2>6, <2>7, Zenon
<1> QED BY <1>10 DEF ph, sign, k

\* Induction from the last place to the first.
LEMMA Backwards ==
  ASSUME NEW n \in Nat, NEW S, n + 1 \in S, \A k \in 1..n : k + 1 \in S => k \in S
  PROVE  1 \in S
<1> DEFINE U == {j \in 0..n : (n + 1) - j \in S}
<1>1. 0 \in U
  OBVIOUS
<1>2. ASSUME NEW k \in 1..n, k - 1 \in U PROVE k \in U
  <2>1. (n + 1) - (k - 1) \in S
    BY <1>2
  <2>2. (n + 1) - (k - 1) = ((n + 1) - k) + 1 /\ (n + 1) - k \in 1..n
    OBVIOUS
  <2>3. (n + 1) - k \in S
    BY <2>1, <2>2
  <2> QED BY <2>3
<1> HIDE DEF U
<1>3. n \in U
  <2>1. \A k \in 0..n : k \in U
    BY <1>1, <1>2, Inductive
  <2> QED BY <2>1
<1>4. (n + 1) - n = 1
  OBVIOUS
<1> QED BY <1>3, <1>4 DEF U

\* The texts of the echo, one by one.
LEMMA EchoesAre ==
  ASSUME NEW q \in Query
  PROVE  /\ Echoes(q) \in Seq(Seq(Keys))
         /\ Len(Echoes(q)) = Len(q.terms) + Len(q.phrases) /\ Len(Echoes(q)) \in Nat
         /\ \A k \in 1 .. Len(q.terms) : Echoes(q)[k] = TermEcho(q.terms[k])
         /\ \A j \in 1 .. Len(q.phrases) :
              Echoes(q)[Len(q.terms) + j] = PhraseEcho(q.phrases[j])
<1> DEFINE a == [k \in DOMAIN q.terms |-> TermEcho(q.terms[k])]
           b == [k \in DOMAIN q.phrases |-> PhraseEcho(q.phrases[k])]
           T == Len(q.terms)
           P == Len(q.phrases)
<1>1. /\ T \in Nat /\ P \in Nat /\ DOMAIN q.terms = 1..T /\ DOMAIN q.phrases = 1..P
      /\ \A k \in 1..T : q.terms[k] \in Term
      /\ \A k \in 1..P : q.phrases[k] \in Phrase
  <2>1. q.terms \in Seq(Term) /\ q.phrases \in Seq(Phrase)
    BY DEF Query
  <2> QED BY <2>1
<1>2. \A t \in Term : TermEcho(t) \in Seq(Keys)
  BY TermEchoIs
<1>3. \A ph \in Phrase : PhraseEcho(ph) \in Seq(Keys)
  BY PhraseEchoIs
<1>4. a \in Seq(Seq(Keys)) /\ Len(a) = T /\ \A k \in 1..T : a[k] = TermEcho(q.terms[k])
  <2>1. a = [k \in 1..T |-> TermEcho(q.terms[k])]
    BY <1>1, Zenon
  <2> HIDE DEF a, T
  <2>2. \A k \in 1..T : TermEcho(q.terms[k]) \in Seq(Keys)
    BY <1>1, <1>2, Zenon
  <2> QED BY <1>1, <2>1, <2>2
<1>5. b \in Seq(Seq(Keys)) /\ Len(b) = P /\ \A k \in 1..P : b[k] = PhraseEcho(q.phrases[k])
  <2>1. b = [k \in 1..P |-> PhraseEcho(q.phrases[k])]
    BY <1>1, Zenon
  <2> HIDE DEF b, P
  <2>2. \A k \in 1..P : PhraseEcho(q.phrases[k]) \in Seq(Keys)
    BY <1>1, <1>3, Zenon
  <2> QED BY <1>1, <2>1, <2>2
<1>6. Echoes(q) = a \o b
  BY Zenon DEF Echoes
<1> HIDE DEF a, b
<1>7. a \o b \in Seq(Seq(Keys)) /\ Together(a \o b, a, b)
  BY <1>4, <1>5, PutTogether
<1>8. /\ Len(a \o b) = Len(a) + Len(b)
      /\ \A i \in 1 .. Len(a) : (a \o b)[i] = a[i]
      /\ \A j \in 1 .. Len(b) : (a \o b)[Len(a) + j] = b[j]
  BY <1>7, Zenon DEF Together
<1> HIDE DEF T, P
<1>9. /\ Len(a \o b) = T + P
      /\ \A k \in 1..T : (a \o b)[k] = TermEcho(q.terms[k])
      /\ \A j \in 1..P : (a \o b)[T + j] = PhraseEcho(q.phrases[j])
  BY <1>4, <1>5, <1>8, Zenon
<1>10. Len(a \o b) \in Nat
  BY <1>7
<1> QED BY <1>6, <1>7, <1>9, <1>10, Zenon DEF T, P

\* From a text of the echo on, its query is read if the rest of it is read from
\* the next on.
LEMMA EchoStep ==
  ASSUME NEW q \in Query, NEW text \in Seq(Keys), NEW p, Placed(text, Echoes(q), p),
         NEW k \in 1 .. Len(Echoes(q)), NEW rest, rest = Rest(q, k + 1)
  PROVE  /\ p[k] \in 1 .. Len(text)
         /\ ~(PieceFirst(text, p[k]) > Len(text))
         /\ PieceNext(text, p[k]) = p[k+1] - 1
         /\ WithPiece(text, p[k], rest) = Rest(q, k)
<1> DEFINE T == Len(q.terms)
           P == Len(q.phrases)
<1>1. PICK ts : ts = Echoes(q)
  OBVIOUS
<1>2. /\ T \in Nat /\ P \in Nat /\ Len(ts) = T + P
      /\ \A i \in 1..T : q.terms[i] \in Term
      /\ \A i \in 1..P : q.phrases[i] \in Phrase
  <2>1. q.terms \in Seq(Term) /\ q.phrases \in Seq(Phrase)
    BY DEF Query
  <2>2. Len(ts) = T + P
    BY <1>1, EchoesAre, Zenon
  <2> QED BY <2>1, <2>2
<1>3. /\ \A i \in 1..T : ts[i] = TermEcho(q.terms[i])
      /\ \A j \in 1..P : ts[T + j] = PhraseEcho(q.phrases[j])
  BY <1>1, EchoesAre, Zenon
<1>4. Placed(text, ts, p) /\ k \in 1..Len(ts)
  BY <1>1, Zenon
<1> HIDE DEF T, P
<1>5. Len(ts) \in Nat /\ (k \in 1..T \/ (k - T \in 1..P /\ k = T + (k - T)))
  BY <1>2, <1>4
<1>6. CASE k \in 1..T
  <2>1. PICK t \in Term : t = q.terms[k] /\ ts[k] = TermEcho(t)
    BY <1>2, <1>3, <1>6
  <2>2. /\ p[k] \in 1 .. Len(text)
        /\ ~(PieceFirst(text, p[k]) > Len(text))
        /\ PieceNext(text, p[k]) = p[k+1] - 1
        /\ WithPiece(text, p[k], rest) = WithTerms(rest, <<t.word>>, TermSign(t))
    <3>1. PlacedPiece(text, p, k, rest, WithTerms(rest, <<t.word>>, TermSign(t)))
      BY <1>4, <1>5, <2>1, TermPlaced
    <3> QED BY <3>1, Zenon DEF PlacedPiece
  <2>3. WithTerms(Rest(q, k + 1), <<q.terms[k].word>>, TermSign(q.terms[k])) = Rest(q, k)
    BY <1>6, RestTerm DEF T
  <2>4. WithTerms(rest, <<t.word>>, TermSign(t)) = Rest(q, k)
    BY <2>1, <2>3, Zenon
  <2> QED BY <2>2, <2>4
<1>7. CASE k - T \in 1..P /\ k = T + (k - T)
  <2>1. PICK j \in 1..P : k = T + j
    BY <1>7
  <2>2. PICK ph \in Phrase : ph = q.phrases[j] /\ ts[k] = PhraseEcho(ph)
    BY <1>2, <1>3, <2>1
  <2>3. /\ p[k] \in 1 .. Len(text)
        /\ ~(PieceFirst(text, p[k]) > Len(text))
        /\ PieceNext(text, p[k]) = p[k+1] - 1
        /\ WithPiece(text, p[k], rest) = WithPhrase(rest, ph.terms, PhraseSign(ph))
    <3>1. PlacedPiece(text, p, k, rest, WithPhrase(rest, ph.terms, PhraseSign(ph)))
      BY <1>4, <1>5, <2>2, PhrasePlaced
    <3> QED BY <3>1, Zenon DEF PlacedPiece
  <2>4. WithPhrase(Rest(q, T + j + 1), q.phrases[j].terms, PhraseSign(q.phrases[j]))
          = Rest(q, T + j)
    BY RestPhrase DEF T, P
  <2>5. WithPhrase(rest, ph.terms, PhraseSign(ph)) = Rest(q, k)
    BY <2>1, <2>2, <2>4, Zenon
  <2> QED BY <2>3, <2>5
<1> QED BY <1>5, <1>6, <1>7

\* The echo of a query is read as the query.
LEMMA EchoReads ==
  ASSUME NEW q \in Query
  PROVE  ParseQuery(String(q)) = q
<1>1. PICK ts, text : ts = Echoes(q) /\ text = String(q)
  OBVIOUS
<1> DEFINE N == Len(ts)
           n == Len(text)
<1>2. /\ ts \in Seq(Seq(Keys)) /\ N \in Nat /\ text = Join(ts) /\ text \in Seq(Keys)
      /\ n \in Nat /\ N = Len(q.terms) + Len(q.phrases)
  <2>1. ts \in Seq(Seq(Keys)) /\ N = Len(q.terms) + Len(q.phrases)
    BY <1>1, EchoesAre, Zenon
  <2>2. text = Join(ts)
    BY <1>1, StringIs, Zenon
  <2>3. Space \in Keys
    BY DEF Keys
  <2>4. text \in Seq(Keys)
    BY <2>1, <2>2, <2>3, JoinTyped
  <2>5. N \in Nat
    BY <1>1, EchoesAre, Zenon
  <2>6. n \in Nat
    BY <2>4
  <2> QED BY <2>1, <2>2, <2>4, <2>5, <2>6
<1>3. Rest(q, 1) = q /\ Rest(q, N + 1) = Nothing
  BY <1>2, RestEnds
<1>4. PICK g : /\ ParseQuery(text) = g[1]
               /\ \A i \in 1..n+2 : g[i] = IF PieceFirst(text, i) > n THEN Nothing
                                           ELSE WithPiece(text, i, g[PieceNext(text, i)])
  BY <1>2, ParseSteps
<1> HIDE DEF n, N
<1>5. ASSUME NEW i \in 1..n+2, i > n PROVE g[i] = Nothing
  <2>1. PieceFirst(text, i) = n + 1
    BY <1>2, <1>5, NoneBehind DEF n
  <2>2. PieceFirst(text, i) > n
    BY <1>2, <2>1
  <2> QED BY <1>4, <2>2
<1>6. \A k \in 1..N : Len(ts[k]) \in Nat
  <2>1. ts \in Seq(Seq(Keys))
    BY <1>2
  <2> QED BY <2>1 DEF N
<1>7. CASE ts = <<>>
  <2>1. text = <<>> /\ N = 0
    <3>1. text = <<>>
      BY <1>2, <1>7, Zenon DEF Join
    <3> QED BY <1>7, <3>1 DEF N
  <2>2. n = 0 /\ 1 \in 1..n+2 /\ 1 > n
    BY <2>1 DEF n
  <2>3. g[1] = Nothing
    BY <1>5, <2>2
  <2>4. N + 1 = 1
    BY <2>1
  <2>5. g[1] = q
    BY <1>3, <2>3, <2>4, Zenon
  <2> QED BY <1>1, <1>4, <2>5
<1>8. CASE ts # <<>>
  <2>1. PICK p : Placed(text, ts, p)
    <3>1. Space \in Keys
      BY DEF Keys
    <3> QED BY <1>2, <1>8, <3>1, JoinPlaced
  <2>2. /\ p \in [1 .. N + 1 -> Nat \ {0}] /\ p[1] = 1 /\ p[N + 1] = n + 2
        /\ \A k \in 2..N : text[p[k] - 1] = Space
    BY <2>1 DEF Placed, n, N
  <2> DEFINE S == {k \in 1..N+1 : g[p[k]] = Rest(q, k)}
  <2>3. N \in Nat /\ n \in Nat
    BY <1>2, Zenon
  <2>4. N + 1 \in S
    <3>1. n + 2 \in 1..n+2 /\ n + 2 > n /\ N + 1 \in 1..N+1
      BY <2>3
    <3>2. g[n + 2] = Nothing
      BY <1>5, <3>1
    <3>3. g[p[N + 1]] = Rest(q, N + 1)
      BY <1>3, <2>2, <3>2, Zenon
    <3> QED BY <3>1, <3>3
  <2>5. ASSUME NEW k \in 1..N, k + 1 \in S PROVE k \in S
    <3>1. g[p[k+1]] = Rest(q, k + 1)
      BY <2>5
    <3> HIDE DEF S
    <3>2. PICK rest : rest = Rest(q, k + 1)
      OBVIOUS
    <3>3. /\ p[k] \in 1..n
          /\ ~(PieceFirst(text, p[k]) > n)
          /\ PieceNext(text, p[k]) = p[k+1] - 1
          /\ WithPiece(text, p[k], rest) = Rest(q, k)
      <4>1. k \in 1..Len(Echoes(q)) /\ Placed(text, Echoes(q), p) /\ text \in Seq(Keys)
        BY <1>1, <1>2, <2>1, Zenon DEF N
      <4> QED BY <3>2, <4>1, EchoStep DEF n
    <3>4. g[p[k+1]] = rest
      BY <3>1, <3>2
    <3>5. g[p[k+1] - 1] = rest
      <4>1. CASE k = N
        <5>1. p[k+1] - 1 = n + 1 /\ p[k+1] = n + 2
          BY <2>3, <2>2, <4>1
        <5>2. n + 1 \in 1..n+2 /\ n + 1 > n /\ n + 2 \in 1..n+2 /\ n + 2 > n
          BY <2>3
        <5> QED BY <1>5, <3>4, <5>1, <5>2
      <4>2. CASE k # N
        <5>1. k + 1 \in 1..N /\ k + 1 \in 2..N
          BY <2>3, <4>2
        <5>2. PICK i \in 1..n : i = p[k+1]
          <6>1. p[k+1] \in 1..n
            BY <1>2, <2>1, <5>1, <1>1, EchoStep DEF N, n
          <6> QED BY <6>1
        <5>3. text[i - 1] = Space
          BY <2>2, <5>1, <5>2
        <5>4. i - 1 \in 1..n /\ (i - 1) + 1 = i /\ i \in 1..n+2 /\ i - 1 \in 1..n+2
          <6>1. p[k+1] = p[k] + Len(ts[k]) + 1
            BY <2>1 DEF Placed, N
          <6>2. Len(ts[k]) \in Nat
            BY <1>6
          <6> QED BY <2>3, <3>3, <5>2, <6>1, <6>2
        <5>5. /\ PieceFirst(text, i - 1) = PieceFirst(text, i)
              /\ PieceNext(text, i - 1) = PieceNext(text, i)
              /\ \A r : WithPiece(text, i - 1, r) = WithPiece(text, i, r)
          <6>1. PICK h \in 1..n : h = i - 1 /\ h + 1 = i
            BY <5>4
          <6> QED BY <1>2, <5>3, <6>1, SkipsSpace DEF n
        <5>6. g[i - 1] = g[i]
          BY <1>4, <5>4, <5>5
        <5> QED BY <3>4, <5>2, <5>6
      <4> QED BY <4>1, <4>2
    <3>6. p[k] \in 1..n+2
      BY <2>3, <3>3
    <3>7. g[p[k]] = Rest(q, k)
      BY <1>4, <3>3, <3>5, <3>6
    <3> QED BY <2>3, <3>7 DEF S
  <2> HIDE DEF S
  <2>6. 1 \in S
    BY <2>3, <2>4, <2>5, Backwards
  <2>7. g[1] = q
    BY <1>3, <2>2, <2>6 DEF S
  <2> QED BY <1>1, <1>4, <2>7
<1> QED BY <1>7, <1>8

-----------------------------------------------------------------------------
(* The specification.                                                      *)

\* The pieces of a body.
Written == Tags \cup {CommentStart, CommentEnd, "x"}

\* The index is the one New built, over documents of the collection, which no
\* step changes; what is typed is keys and what is written pieces of a body.
IInv == /\ docs \in Collections
        /\ index = New(docs)
        /\ typed \in Seq(Keys)
        /\ body \in Seq(Written)

\* Neither typing nor writing changes the documents or the index over them.
LEMMA SearchInvariance == Spec => []IInv
<1>1. Init => IInv
  BY DEF Init, IInv
<1>2. IInv /\ [Next]_vars => IInv'
  <2> SUFFICES ASSUME IInv, [Next]_vars PROVE IInv'
    OBVIOUS
  <2>1. ASSUME NEW key \in Keys, Type(key) PROVE IInv'
    <3>1. Append(typed, key) \in Seq(Keys)
      BY DEF IInv
    <3> QED BY <2>1, <3>1, Zenon DEF Type, IInv
  <2>2. ASSUME NEW ch \in Written, WriteBody(ch) PROVE IInv'
    <3>1. Append(body, ch) \in Seq(Written)
      BY DEF IInv
    <3> QED BY <2>2, <3>1, Zenon DEF WriteBody, IInv
  <2>3. CASE UNCHANGED vars
    BY <2>3, Zenon DEF vars, IInv
  <2> QED BY <2>1, <2>2, <2>3, Zenon DEF Next, Written
<1> QED BY <1>1, <1>2, PTL DEF Spec

\* /search answers with the entries the query asks for and no others (search.go,
\* query.go): postings, bisection and padded haystack together mean what AsksFor
\* says of the words of an entry, for every collection, any alphabet and stop
\* words, and every text that is typed, however long.
THEOREM SearchFinds == Spec => []FindsWhatIsAskedFor
<1>1. IInv => FindsWhatIsAskedFor
  <2> SUFFICES ASSUME IInv PROVE FindsWhatIsAskedFor
    OBVIOUS
  <2>1. docs \in Seq(Document)
    BY CollectionsAssumption, Zenon DEF IInv, Document
  <2>2. Indexed(index, docs, Len(docs))
    BY <2>1, NewIndexed, Zenon DEF IInv
  <2>3. Parsed \in Query
    BY ParseTyped DEF IInv, Parsed
  <2>4. SearchQuery(index, Parsed) = {d \in DOMAIN docs : AsksFor(Parsed, docs[d])}
    BY <2>1, <2>2, <2>3, SearchRight
  <2> QED BY <2>4, Zenon DEF FindsWhatIsAskedFor, Found, Parsed
<1> QED BY <1>1, SearchInvariance, PTL

\* The index reads of a body the words that a reader sees (extract.go), however
\* long the body and however deep and broken the elements in it: no counter of
\* nested tags, no comment and no deferred blank ever lets a word in or out, or
\* joins two or parts one.
THEOREM IndexReads == Spec => []IndexReadsProse
<1>1. IInv => IndexReadsProse
  <2> SUFFICES ASSUME IInv PROVE IndexReadsProse
    OBVIOUS
  <2>1. body \in Seq(Written)
    BY DEF IInv
  <2>2. Tokenize(Plain(body)) = Tokenize(Prose(body))
    BY <2>1, PlainReadsProse
  <2> QED BY <2>2 DEF IndexReadsProse
<1> QED BY <1>1, SearchInvariance, PTL

\* mode is where the keys typed so far have led.
ModeRuns == \E f : Modes(f, typed) /\ mode = f[Len(typed)]

\* The history is what the box of the specification keeps of what was typed.
LEMMA ModeInvariance == Spec => []ModeRuns
<1>1. Init => ModeRuns
  <2> SUFFICES ASSUME Init PROVE ModeRuns
    OBVIOUS
  <2> DEFINE f == [k \in 0..0 |-> "gap"]
  <2>1. typed = <<>> /\ mode = "gap" /\ Len(<<>>) = 0 /\ f[0] = "gap" /\ 1..0 = {}
    BY DEF Init
  <2> HIDE DEF f
  <2>2. Modes(f, typed) /\ mode = f[Len(typed)]
    BY <2>1 DEF Modes
  <2> QED BY <2>2 DEF ModeRuns
<1>2. IInv /\ ModeRuns /\ [Next]_vars => ModeRuns'
  <2> SUFFICES ASSUME IInv, ModeRuns, [Next]_vars PROVE ModeRuns'
    OBVIOUS
  <2>1. ASSUME NEW key \in Keys, Type(key) PROVE ModeRuns'
    <3>1. PICK f : Modes(f, typed) /\ mode = f[Len(typed)]
      BY DEF ModeRuns
    <3> DEFINE n == Len(typed)
               r == Append(typed, key)
               g == [k \in 0..n+1 |-> IF k = n + 1 THEN After(mode, key) ELSE f[k]]
    <3>2. /\ typed' = r /\ mode' = After(mode, key) /\ n \in Nat
          /\ Len(r) = n + 1 /\ r[n + 1] = key /\ \A k \in 1..n : r[k] = typed[k]
      BY <2>1 DEF Type, IInv
    <3>3. g[n + 1] = After(mode, key) /\ \A k \in 0..n : g[k] = f[k]
      BY <3>2
    <3> HIDE DEF g, r
    <3>4. g[0] = "gap"
      BY <3>1, <3>2, <3>3 DEF Modes
    <3>5. ASSUME NEW k \in 1..n+1 PROVE g[k] = After(g[k-1], r[k])
      <4>1. CASE k = n + 1
        <5>1. g[k-1] = f[n]
          BY <3>2, <3>3, <4>1
        <5> QED BY <3>1, <3>2, <3>3, <4>1, <5>1
      <4>2. CASE k # n + 1
        <5>1. k \in 1..n /\ k \in 0..n /\ k - 1 \in 0..n
          BY <3>2, <4>2
        <5>2. f[k] = After(f[k-1], typed[k])
          BY <3>1, <5>1 DEF Modes
        <5> QED BY <3>2, <3>3, <5>1, <5>2
      <4> QED BY <4>1, <4>2
    <3>6. Modes(g, r) /\ After(mode, key) = g[Len(r)]
      <4> HIDE DEF n
      <4> QED BY <3>2, <3>3, <3>4, <3>5 DEF Modes
    <3>7. Modes(g, typed') /\ mode' = g[Len(typed')]
      BY <3>2, <3>6, Zenon
    <3> QED BY <3>7, Zenon DEF ModeRuns
  <2>2. ASSUME NEW ch \in Written, WriteBody(ch) PROVE ModeRuns'
    <3>1. typed' = typed /\ mode' = mode
      BY <2>2 DEF WriteBody
    <3> QED BY <3>1, Zenon DEF ModeRuns
  <2>3. CASE UNCHANGED vars
    <3>1. typed' = typed /\ mode' = mode
      BY <2>3 DEF vars
    <3> QED BY <3>1, Zenon DEF ModeRuns
  <2> QED BY <2>1, <2>2, <2>3, Zenon DEF Next, Written
<1> QED BY <1>1, <1>2, SearchInvariance, PTL DEF Spec

\* A reader who has typed a space more, or the quote that closes a phrase, has
\* said nothing new (query.go, ParseQuery): a phrase still open is already the
\* phrase it will be, whatever else was typed and wherever its quotes and signs
\* are.
THEOREM TypingOn == Spec => HalfTypedIsWhole
<1> DEFINE Half == typed' \in {Append(typed, Space)}
                     \cup (IF mode = "phrase" THEN {Append(typed, Quote)} ELSE {})
                   => ParseQuery(typed') = ParseQuery(typed)
<1>1. IInv /\ ModeRuns => Half
  <2> SUFFICES ASSUME IInv, ModeRuns,
                      typed' \in {Append(typed, Space)}
                        \cup (IF mode = "phrase" THEN {Append(typed, Quote)} ELSE {})
               PROVE  ParseQuery(typed') = ParseQuery(typed)
    OBVIOUS
  <2>1. typed \in Seq(Keys)
    BY DEF IInv
  <2>2. CASE typed' = Append(typed, Space)
    BY <2>1, <2>2, SpaceMeansNothing
  <2>3. CASE typed' = Append(typed, Quote) /\ mode = "phrase"
    <3>1. PICK f : Modes(f, typed) /\ mode = f[Len(typed)]
      BY DEF ModeRuns
    <3> QED BY <2>1, <2>3, <3>1, ClosingMeansNothing
  <2>4. typed' = Append(typed, Space) \/ (typed' = Append(typed, Quote) /\ mode = "phrase")
    OBVIOUS
  <2> QED BY <2>2, <2>3, <2>4
<1>2. IInv /\ ModeRuns /\ [Next]_vars => [Half]_vars
  BY <1>1
<1> QED BY <1>2, SearchInvariance, ModeInvariance, PTL DEF Spec, HalfTypedIsWhole

\* Whatever was typed, the echo of what was understood is understood as the
\* same (query.go, String and ParseQuery): no sign, quote, stop word or phrase
\* left open makes two queries with one echo, so the entity tag of /search,
\* which is a hash of the echo, tells them apart.
THEOREM EchoReadsBack == Spec => []EchoMeansTheSame
<1>1. IInv => EchoMeansTheSame
  <2> SUFFICES ASSUME IInv PROVE EchoMeansTheSame
    OBVIOUS
  <2>1. Parsed \in Query
    BY ParseTyped DEF IInv, Parsed
  <2>2. ParseQuery(String(Parsed)) = Parsed
    BY <2>1, EchoReads
  <2> QED BY <2>2, Zenon DEF EchoMeansTheSame
<1> QED BY <1>1, SearchInvariance, PTL
=============================================================================
