---------------------------- MODULE CountersProofs ----------------------------
(***************************************************************************)
(* Proofs about Counters: for any samples, any sizes of the rings and any  *)
(* number of collections, the rings hold the newest samples and the Stats  *)
(* describe the samples they took.                                         *)
(***************************************************************************)
EXTENDS Counters, WellFoundedInduction, TLAPS

(* s are Stats that took n samples, those of the set T.                    *)
StatsOf(s, T, n) ==
  /\ s \in [min : Int, max : Int, average : Int, samples_count : Nat]
  /\ n \in Nat /\ s.samples_count = n /\ T \subseteq Sample
  /\ T = {} <=> n = 0
  /\ s.min \in T \cup {INTMAX_MAX} /\ \A t \in T : s.min <= t
  /\ s.max \in T \cup {0} /\ s.max >= 0 /\ \A t \in T : s.max >= t
  /\ n = 0 => s.average = 0
  /\ n # 0 => \E lo, hi \in T : /\ \A t \in T : lo <= t /\ t <= hi
                                /\ lo <= s.average /\ s.average <= hi

-----------------------------------------------------------------------------
(* Numbers and sequences.                                                  *)

(* Induction over the numbers up to m, with the set of those that have the *)
(* property.                                                               *)
LEMMA UpTo ==
  ASSUME NEW m \in Nat, NEW S, 0 \in S, \A k \in 0 .. m - 1 : k \in S => k + 1 \in S
  PROVE  \A k \in 0 .. m : k \in S
<1> SUFFICES ASSUME NEW j \in 0 .. m, j \notin S PROVE FALSE
  OBVIOUS
<1> DEFINE T == {k \in 0 .. m : k \notin S}
<1>1. T \subseteq Nat /\ T # {}
  OBVIOUS
<1>2. PICK n \in T : \A p \in T : <<p, n>> \notin OpToRel(<, Nat)
  BY <1>1, NatLessThanWellFounded, WFMin
<1>3. \A p \in T : n <= p
  <2> SUFFICES ASSUME NEW p \in T PROVE n <= p
    OBVIOUS
  <2>1. <<p, n>> \notin {ss \in Nat \X Nat : ss[1] < ss[2]}
    BY <1>2 DEF OpToRel
  <2>2. p \in Nat /\ n \in Nat
    BY <1>1
  <2> QED BY <2>1, <2>2
<1>4. n \in 0 .. m /\ n \notin S /\ n # 0
  OBVIOUS
<1>5. n - 1 \in 0 .. m - 1 /\ (n - 1) + 1 = n /\ n - 1 \in 0 .. m /\ ~(n <= n - 1)
  BY <1>4
<1>6. n - 1 \in S
  BY <1>3, <1>5
<1> QED BY <1>4, <1>5, <1>6

LEMMA Bounds == INTMAX_MAX \in Nat /\ \A t \in Sample : t \in Int /\ -INTMAX_MAX <= t /\ t <= INTMAX_MAX
BY CountersAssumption

LEMMA QuotientBetween ==
  ASSUME NEW a \in Int, NEW b \in Nat \ {0}
  PROVE  /\ Quotient(a, b) \in Int
         /\ a >= 0 => 0 <= Quotient(a, b) /\ Quotient(a, b) <= a
         /\ a < 0 => a <= Quotient(a, b) /\ Quotient(a, b) <= 0
<1>1. ASSUME NEW c \in Nat PROVE c \div b \in Int /\ 0 <= c \div b /\ c \div b <= c
  OBVIOUS
<1>2. CASE a >= 0
  BY <1>1, <1>2 DEF Quotient
<1>3. CASE a < 0
  <2>1. -a \in Nat
    BY <1>3
  <2>2. (-a) \div b \in Int /\ 0 <= (-a) \div b /\ (-a) \div b <= -a
    BY <1>1, <2>1
  <2> QED BY <1>3, <2>2 DEF Quotient
<1> QED BY <1>2, <1>3

-----------------------------------------------------------------------------
(* The Stats.                                                              *)

LEMMA NewStatsOf == StatsOf(NewStats, {}, 0)
BY Bounds DEF StatsOf, NewStats

(* One more sample: a truncated step leaves the average between the least  *)
(* and the greatest.                                                       *)
LEMMA TakeOne ==
  ASSUME NEW s, NEW T, NEW n, StatsOf(s, T, n), NEW t \in Sample
  PROVE  StatsOf(Take(s, t), T \cup {t}, n + 1)
<1> DEFINE r == Take(s, t)
           d == Quotient(t - s.average, n + 1)
<1>1. /\ s \in [min : Int, max : Int, average : Int, samples_count : Nat]
      /\ n \in Nat /\ s.samples_count = n /\ T \subseteq Sample /\ t \in Int
      /\ \A u \in T : u \in Int
  BY Bounds DEF StatsOf
<1>2. s.average \in Int /\ s.min \in Int /\ s.max \in Int
  BY <1>1
<1>3. /\ d \in Int
      /\ t - s.average >= 0 => 0 <= d /\ d <= t - s.average
      /\ t - s.average < 0 => t - s.average <= d /\ d <= 0
  BY <1>1, <1>2, QuotientBetween
<1>4. /\ r.min = IF t < s.min THEN t ELSE s.min
      /\ r.max = IF t > s.max THEN t ELSE s.max
      /\ r.average = s.average + d /\ r.samples_count = n + 1
      /\ r = [min |-> r.min, max |-> r.max, average |-> r.average, samples_count |-> r.samples_count]
  BY <1>1 DEF Take
<1> HIDE DEF r, d
<1>5. r \in [min : Int, max : Int, average : Int, samples_count : Nat]
  BY <1>1, <1>2, <1>3, <1>4
<1>6. r.min \in (T \cup {t}) \cup {INTMAX_MAX} /\ \A u \in T \cup {t} : r.min <= u
  BY <1>1, <1>2, <1>4 DEF StatsOf
<1>7. r.max \in (T \cup {t}) \cup {0} /\ r.max >= 0 /\ \A u \in T \cup {t} : r.max >= u
  BY <1>1, <1>2, <1>4 DEF StatsOf
<1>8. \E lo, hi \in T \cup {t} : /\ \A u \in T \cup {t} : lo <= u /\ u <= hi
                                 /\ lo <= r.average /\ r.average <= hi
  <2>1. CASE n = 0
    <3>1. T = {} /\ s.average = 0
      BY <2>1 DEF StatsOf
    <3>2. d = t
      <4>1. t - s.average = t /\ n + 1 = 1
        BY <1>1, <2>1, <3>1
      <4>2. Quotient(t, 1) = t
        BY <1>1 DEF Quotient
      <4> QED BY <4>1, <4>2 DEF d
    <3> QED BY <1>1, <1>4, <3>1, <3>2
  <2>2. CASE n # 0
    <3>1. PICK lo, hi \in T : /\ \A u \in T : lo <= u /\ u <= hi
                              /\ lo <= s.average /\ s.average <= hi
      BY <2>2 DEF StatsOf
    <3> DEFINE l == IF t < lo THEN t ELSE lo
               h == IF t > hi THEN t ELSE hi
    <3>2. lo \in Int /\ hi \in Int
      BY <1>1
    <3>3. l \in T \cup {t} /\ h \in T \cup {t} /\ \A u \in T \cup {t} : l <= u /\ u <= h
      BY <1>1, <3>1, <3>2
    <3>4. l <= r.average /\ r.average <= h
      BY <1>1, <1>2, <1>3, <1>4, <3>1, <3>2
    <3> QED BY <3>3, <3>4
  <2> QED BY <2>1, <2>2
<1> QED BY <1>1, <1>4, <1>5, <1>6, <1>7, <1>8 DEF StatsOf, r

(* TakeAll is defined for every sequence.                                  *)
LEMMA TakeAllSteps ==
  ASSUME NEW s, NEW q \in Seq(Sample)
  PROVE  \E f : /\ f[0] = s /\ TakeAll(s, q) = f[Len(q)]
                /\ \A k \in 0 .. Len(q) - 1 : f[k + 1] = Take(f[k], q[k + 1])
<1> DEFINE Step(g, m) == [k \in 0 .. m |-> IF k = 0 THEN s ELSE Take(g[k - 1], q[k])]
           S == {m \in Nat : \E g : g = Step(g, m)}
           taken == CHOOSE g : g = Step(g, Len(q))
<1>1. 0 \in S
  <2> DEFINE g == [k \in 0 .. 0 |-> s]
  <2>1. g = Step(g, 0)
    OBVIOUS
  <2> QED BY <2>1
<1>2. ASSUME NEW m \in Nat, m \in S PROVE m + 1 \in S
  <2>1. PICK g : g = Step(g, m)
    BY <1>2
  <2> DEFINE h == [k \in 0 .. m + 1 |-> IF k = m + 1 THEN Take(g[m], q[m + 1]) ELSE g[k]]
  <2>2. ASSUME NEW k \in 0 .. m + 1 PROVE h[k] = IF k = 0 THEN s ELSE Take(h[k - 1], q[k])
    <3>1. CASE k = m + 1
      <4>1. k # 0 /\ k - 1 = m /\ m \in 0 .. m + 1 /\ m # m + 1
        BY <3>1
      <4>2. h[m] = g[m] /\ h[k] = Take(g[m], q[k])
        BY <3>1, <4>1
      <4> QED BY <4>1, <4>2
    <3>2. CASE k # m + 1
      <4>1. k \in 0 .. m
        BY <3>2
      <4>2. g[k] = IF k = 0 THEN s ELSE Take(g[k - 1], q[k])
        BY <2>1, <4>1
      <4>3. k # 0 => k - 1 \in 0 .. m + 1 /\ k - 1 # m + 1
        BY <4>1
      <4>4. h[k] = g[k] /\ (k # 0 => h[k - 1] = g[k - 1])
        BY <3>2, <4>3
      <4> QED BY <4>2, <4>4
    <3> QED BY <3>1, <3>2
  <2>3. h = Step(h, m + 1)
    <3>1. h = [k \in 0 .. m + 1 |-> h[k]]
      OBVIOUS
    <3> HIDE DEF h
    <3> QED BY <2>2, <3>1
  <2>4. \E e : e = Step(e, m + 1)
    <3> HIDE DEF h
    <3> QED BY <2>3
  <2>5. m + 1 \in Nat
    OBVIOUS
  <2> QED BY <2>4, <2>5
<1>3. Len(q) \in Nat
  OBVIOUS
<1>4. Len(q) \in S
  <2> HIDE DEF S
  <2>1. \A k \in 0 .. Len(q) - 1 : k \in S => k + 1 \in S
    BY <1>2, <1>3
  <2>2. \A k \in 0 .. Len(q) : k \in S
    BY <1>1, <1>3, <2>1, UpTo
  <2> QED BY <1>3, <2>2
<1>5. taken = Step(taken, Len(q))
  BY <1>4
<1>6. TakeAll(s, q) = taken[Len(q)]
  BY DEF TakeAll
<1> HIDE DEF taken
<1>7. taken[0] = s
  BY <1>3, <1>5
<1>8. ASSUME NEW k \in 0 .. Len(q) - 1 PROVE taken[k + 1] = Take(taken[k], q[k + 1])
  <2>1. k + 1 \in 0 .. Len(q) /\ k + 1 # 0 /\ (k + 1) - 1 = k
    BY <1>3
  <2> QED BY <1>5, <2>1
<1> QED BY <1>6, <1>7, <1>8

LEMMA TakeAllOf ==
  ASSUME NEW s, NEW T, NEW n, StatsOf(s, T, n), NEW q \in Seq(Sample)
  PROVE  StatsOf(TakeAll(s, q), T \cup Range(q), n + Len(q))
<1>1. PICK f : /\ f[0] = s /\ TakeAll(s, q) = f[Len(q)]
               /\ \A k \in 0 .. Len(q) - 1 : f[k + 1] = Take(f[k], q[k + 1])
  BY TakeAllSteps
<1> DEFINE U(k) == T \cup {q[i] : i \in 1 .. k}
           S == {k \in Nat : StatsOf(f[k], U(k), n + k)}
<1>2. n \in Nat /\ Len(q) \in Nat /\ DOMAIN q = 1 .. Len(q)
  BY DEF StatsOf
<1>3. 0 \in S
  <2>1. U(0) = T /\ n + 0 = n
    BY <1>2
  <2> QED BY <1>1, <2>1
<1>4. ASSUME NEW k \in 0 .. Len(q) - 1, k \in S PROVE k + 1 \in S
  <2>1. k \in Nat /\ k + 1 \in Nat /\ (n + k) + 1 = n + (k + 1) /\ k + 1 \in 1 .. Len(q)
    BY <1>2
  <2>2. q[k + 1] \in Sample
    BY <2>1
  <2>3. U(k) \cup {q[k + 1]} = U(k + 1)
    <3>1. 1 .. k + 1 = (1 .. k) \cup {k + 1}
      BY <2>1
    <3> QED BY <3>1
  <2>4. StatsOf(Take(f[k], q[k + 1]), U(k) \cup {q[k + 1]}, (n + k) + 1)
    BY <1>4, <2>2, TakeOne
  <2> QED BY <1>1, <2>1, <2>3, <2>4
<1>5. Len(q) \in S
  <2> HIDE DEF S
  <2>1. \A k \in 0 .. Len(q) : k \in S
    BY <1>2, <1>3, <1>4, UpTo
  <2> QED BY <1>2, <2>1
<1>6. U(Len(q)) = T \cup Range(q)
  BY <1>2 DEF Range
<1> QED BY <1>1, <1>5, <1>6
-----------------------------------------------------------------------------
(* The ring.                                                               *)

(* A ring with array `first` holds the newest samples of a.                *)
Holds(first, pos, full, a) ==
  /\ pos \in 0 .. Len(first)
  /\ full = TRUE =>
       /\ Len(a) > Len(first) /\ pos > 0
       /\ \A i \in 1 .. pos : first[i] = a[Len(a) - pos + i]
       /\ \A i \in pos + 1 .. Len(first) : first[i] = a[Len(a) - pos - Len(first) + i]
  /\ full # TRUE => Len(a) = pos /\ \A i \in 1 .. pos : first[i] = a[i]

LEMMA SubSeqFacts ==
  ASSUME NEW S, NEW q \in Seq(S), NEW i \in Nat \ {0}, NEW j \in Nat, i <= j + 1, j <= Len(q)
  PROVE  /\ SubSeq(q, i, j) \in Seq(S) /\ Len(SubSeq(q, i, j)) = j - i + 1
         /\ \A k \in 1 .. j - i + 1 : SubSeq(q, i, j)[k] = q[i + k - 1]
OBVIOUS

LEMMA UpdateFacts ==
  ASSUME NEW S, NEW q \in Seq(S), NEW i \in 1 .. Len(q), NEW x \in S
  PROVE  /\ [q EXCEPT ![i] = x] \in Seq(S) /\ Len([q EXCEPT ![i] = x]) = Len(q)
         /\ \A j \in 1 .. Len(q) : [q EXCEPT ![i] = x][j] = IF j = i THEN x ELSE q[j]
OBVIOUS

LEMMA AppendFacts ==
  ASSUME NEW S, NEW q \in Seq(S), NEW x \in S
  PROVE  /\ Append(q, x) \in Seq(S) /\ Len(Append(q, x)) = Len(q) + 1
         /\ Append(q, x)[Len(q) + 1] = x /\ \A j \in 1 .. Len(q) : Append(q, x)[j] = q[j]
OBVIOUS

LEMMA SeqEqual ==
  ASSUME NEW S, NEW T, NEW p \in Seq(S), NEW q \in Seq(T), Len(p) = Len(q),
         \A k \in 1 .. Len(p) : p[k] = q[k]
  PROVE  p = q
OBVIOUS

(* A write overwrites the oldest sample, or takes a place never used.      *)
Stored(first, pos, full, t, p, first2, full2) ==
  /\ p = IF pos = Len(first) THEN 0 ELSE pos
  /\ first2 = [first EXCEPT ![p + 1] = t]
  /\ full2 = TRUE <=> full = TRUE \/ pos = Len(first)

LEMMA StoreHolds ==
  ASSUME NEW S, NEW first \in Seq(S), NEW m \in Nat \ {0}, Len(first) = m,
         NEW pos, NEW full, NEW a \in Seq(Sample), NEW t \in Sample, t \in S,
         Holds(first, pos, full, a),
         NEW p, NEW f2, NEW full2, Stored(first, pos, full, t, p, f2, full2)
  PROVE  f2 \in Seq(S) /\ Len(f2) = m /\ Holds(f2, p + 1, full2, Append(a, t))
<1> DEFINE l == Len(a)
           b == Append(a, t)
<1>1. pos \in 0 .. m /\ p \in 0 .. m - 1 /\ p + 1 \in 1 .. m /\ p + 1 \in 1 .. Len(first)
  BY DEF Holds, Stored
<1>2. f2 \in Seq(S) /\ Len(f2) = m /\ \A j \in 1 .. m : f2[j] = IF j = p + 1 THEN t ELSE first[j]
  BY <1>1, UpdateFacts DEF Stored
<1>3. l \in Nat /\ Len(b) = l + 1 /\ b[l + 1] = t /\ \A j \in 1 .. l : b[j] = a[j]
  BY AppendFacts
<1>4. CASE pos # m
  <2>1. p = pos /\ pos < m
    BY <1>1, <1>4 DEF Stored
  <2>2. CASE full = TRUE
    <3>1. /\ l > m /\ pos > 0
          /\ \A i \in 1 .. pos : first[i] = a[l - pos + i]
          /\ \A i \in pos + 1 .. m : first[i] = a[l - pos - m + i]
      BY <2>2 DEF Holds
    <3> HIDE DEF l, b
    <3>5. /\ pos \in Nat /\ m \in Nat /\ l \in Nat /\ p = pos
          /\ pos > 0 /\ pos < m /\ l > m /\ Len(b) = l + 1
      BY <1>1, <1>3, <2>1, <3>1
    <3>2. ASSUME NEW i \in 1 .. p + 1 PROVE f2[i] = b[Len(b) - (p + 1) + i]
      <4>1. CASE i = p + 1
        <5>1. Len(b) - (p + 1) + i = l + 1 /\ i \in 1 .. m
          BY <3>5, <4>1
        <5> QED BY <1>2, <1>3, <4>1, <5>1
      <4>2. CASE i # p + 1
        <5>1. /\ i \in 1 .. pos /\ i \in 1 .. m /\ l - pos + i \in 1 .. l
              /\ Len(b) - (p + 1) + i = l - pos + i
          BY <3>5, <4>2
        <5> QED BY <1>2, <1>3, <3>1, <4>2, <5>1
      <4> QED BY <4>1, <4>2
    <3>3. ASSUME NEW i \in (p + 1) + 1 .. m PROVE f2[i] = b[Len(b) - (p + 1) - m + i]
      <4>1. /\ i \in pos + 1 .. m /\ i \in 1 .. m /\ i # p + 1
            /\ l - pos - m + i \in 1 .. l /\ Len(b) - (p + 1) - m + i = l - pos - m + i
        BY <3>5
      <4> QED BY <1>2, <1>3, <3>1, <4>1
    <3>4. Len(b) > m /\ p + 1 > 0 /\ p + 1 \in 0 .. m
      BY <1>1, <1>3, <3>1
    <3>6. full2 = TRUE
      BY <2>2 DEF Stored
    <3>7. p + 1 \in 0 .. Len(f2) /\ Len(b) > Len(f2) /\ p + 1 > 0
      BY <1>2, <3>4
    <3>8. \A i \in (p + 1) + 1 .. Len(f2) : f2[i] = b[Len(b) - (p + 1) - Len(f2) + i]
      BY <1>2, <3>3
    <3>9. \A i \in 1 .. p + 1 : f2[i] = b[Len(b) - (p + 1) + i]
      BY <3>2
    <3>10. Holds(f2, p + 1, full2, b)
      BY <3>6, <3>7, <3>8, <3>9 DEF Holds
    <3> QED BY <1>2, <3>10 DEF b
  <2>3. CASE full # TRUE
    <3>1. l = pos /\ \A i \in 1 .. pos : first[i] = a[i]
      BY <2>3 DEF Holds
    <3> HIDE DEF l, b
    <3>2. ASSUME NEW i \in 1 .. p + 1 PROVE f2[i] = b[i]
      <4>1. i \in 1 .. m /\ (i # p + 1 => i \in 1 .. l)
        BY <1>1, <1>3, <2>1, <3>1
      <4> QED BY <1>2, <1>3, <2>1, <3>1, <4>1
    <3>3. p + 1 \in 0 .. m /\ l + 1 = p + 1
      BY <1>1, <2>1, <3>1
    <3>4. full2 # TRUE
      BY <1>4, <2>3 DEF Stored
    <3>5. Holds(f2, p + 1, full2, b)
      BY <1>2, <1>3, <3>2, <3>3, <3>4 DEF Holds
    <3> QED BY <1>2, <3>5 DEF b
  <2> QED BY <2>2, <2>3
<1>5. CASE pos = m
  <2>1. p = 0 /\ p + 1 = 1 /\ 1 \in 0 .. m
    BY <1>5 DEF Stored
  <2>2. l >= m /\ \A i \in 1 .. m : first[i] = a[l - m + i]
    <3>1. CASE full = TRUE
      BY <1>5, <3>1 DEF Holds
    <3>2. CASE full # TRUE
      <4>1. l = m /\ \A i \in 1 .. m : first[i] = a[i]
        BY <1>5, <3>2 DEF Holds
      <4> HIDE DEF l
      <4>2. \A i \in 1 .. m : l - m + i = i
        BY <4>1
      <4> QED BY <4>1, <4>2
    <3> QED BY <3>1, <3>2
  <2> HIDE DEF l, b
  <2>3. ASSUME NEW i \in 1 .. 1 PROVE f2[i] = b[(l + 1) - 1 + i]
    <3>1. i = 1 /\ (l + 1) - 1 + i = l + 1 /\ i \in 1 .. m
      BY <1>3
    <3> QED BY <1>2, <1>3, <2>1, <3>1
  <2>4. ASSUME NEW i \in 1 + 1 .. m PROVE f2[i] = b[(l + 1) - 1 - m + i]
    <3>1. /\ i \in 1 .. m /\ i # 1 /\ l - m + i \in 1 .. l
          /\ (l + 1) - 1 - m + i = l - m + i
      BY <1>3, <2>2
    <3> QED BY <1>2, <1>3, <2>1, <2>2, <3>1
  <2>5. l + 1 > m /\ 1 > 0
    BY <1>3, <2>2
  <2>6. full2 = TRUE
    BY <1>5 DEF Stored
  <2>7. p + 1 \in 0 .. Len(f2) /\ Len(b) > Len(f2) /\ p + 1 > 0
    BY <1>2, <1>3, <2>1, <2>5
  <2>8. \A i \in (p + 1) + 1 .. Len(f2) : f2[i] = b[Len(b) - (p + 1) - Len(f2) + i]
    BY <1>2, <1>3, <2>1, <2>4
  <2>9. \A i \in 1 .. p + 1 : f2[i] = b[Len(b) - (p + 1) + i]
    BY <1>3, <2>1, <2>3
  <2>10. Holds(f2, p + 1, full2, b)
    BY <2>6, <2>7, <2>8, <2>9 DEF Holds
  <2> QED BY <1>2, <2>10 DEF b
<1> QED BY <1>2, <1>4, <1>5

LEMMA NewestFacts ==
  ASSUME NEW a \in Seq(Sample), NEW m \in Nat \ {0}
  PROVE  /\ Newest(a, m) \in Seq(Sample)
         /\ Len(a) > m => /\ Len(Newest(a, m)) = m
                          /\ \A k \in 1 .. m : Newest(a, m)[k] = a[Len(a) - m + k]
         /\ Len(a) <= m => Newest(a, m) = a
<1>1. Len(a) \in Nat
  OBVIOUS
<1>2. CASE Len(a) > m
  <2> DEFINE i == Len(a) - m + 1
  <2>1. /\ i \in Nat \ {0} /\ i <= Len(a) + 1 /\ Len(a) - i + 1 = m
        /\ \A k \in 1 .. m : i + k - 1 = Len(a) - m + k
    BY <1>1, <1>2
  <2>2. Newest(a, m) = SubSeq(a, i, Len(a))
    BY <1>2 DEF Newest
  <2> HIDE DEF i
  <2> QED BY <1>1, <1>2, <2>1, <2>2, SubSeqFacts
<1>3. CASE Len(a) <= m
  <2>0. ~(Len(a) > m)
    BY <1>1, <1>3
  <2>1. Newest(a, m) = SubSeq(a, 1, Len(a))
    BY <2>0 DEF Newest
  <2>2. SubSeq(a, 1, Len(a)) = a
    OBVIOUS
  <2> QED BY <2>0, <2>1, <2>2
<1> QED BY <1>1, <1>2, <1>3

(* From the oldest round to the newest, the ring reads as they came.       *)
InOrder(first, pos, full, a) ==
  /\ full = TRUE =>
       SubSeq(first, pos + 1, Len(first)) \o SubSeq(first, 1, pos) = Newest(a, Len(first))
  /\ full # TRUE => <<>> \o SubSeq(first, 1, pos) = Newest(a, Len(first))

LEMMA RingOrder ==
  ASSUME NEW S, NEW first \in Seq(S), NEW m \in Nat \ {0}, Len(first) = m,
         NEW pos, NEW full, NEW a \in Seq(Sample), Holds(first, pos, full, a)
  PROVE  InOrder(first, pos, full, a)
<1> DEFINE l == Len(a)
           n == Newest(a, m)
           o == SubSeq(first, pos + 1, m)
           y == SubSeq(first, 1, pos)
<1>1. pos \in 0 .. m /\ l \in Nat /\ n \in Seq(Sample)
  BY NewestFacts DEF Holds
<1>2. y \in Seq(S) /\ Len(y) = pos /\ \A k \in 1 .. pos : y[k] = first[k]
  <2>1. pos \in Nat /\ 1 <= pos + 1 /\ pos <= Len(first) /\ pos - 1 + 1 = pos
        /\ \A k \in 1 .. pos : 1 + k - 1 = k
    BY <1>1
  <2> HIDE DEF l, n, o
  <2> QED BY <2>1, SubSeqFacts
<1>3. CASE full = TRUE
  <2>1. /\ l > m /\ pos > 0
        /\ \A i \in 1 .. pos : first[i] = a[l - pos + i]
        /\ \A i \in pos + 1 .. m : first[i] = a[l - pos - m + i]
    BY <1>3 DEF Holds
  <2>2. o \in Seq(S) /\ Len(o) = m - pos /\ \A k \in 1 .. m - pos : o[k] = first[pos + k]
    <3>1. pos + 1 \in Nat \ {0} /\ pos + 1 <= m + 1 /\ m <= Len(first) /\ m - (pos + 1) + 1 = m - pos
          /\ \A k \in 1 .. m - pos : (pos + 1) + k - 1 = pos + k
      BY <1>1
    <3> HIDE DEF l, n, y
    <3> QED BY <3>1, SubSeqFacts
  <2>3. Len(n) = m /\ \A k \in 1 .. m : n[k] = a[l - m + k]
    BY <2>1, NewestFacts
  <2> HIDE DEF l, n, o, y
  <2>4. o \o y \in Seq(S) /\ Len(o \o y) = m
        /\ \A k \in 1 .. m : (o \o y)[k] = IF k <= m - pos THEN o[k] ELSE y[k - (m - pos)]
    BY <1>1, <1>2, <2>2
  <2>5. ASSUME NEW k \in 1 .. m PROVE (o \o y)[k] = n[k]
    <3>1. CASE k <= m - pos
      <4>1. /\ k \in 1 .. m - pos /\ pos + k \in pos + 1 .. m
            /\ l - pos - m + (pos + k) = l - m + k
        BY <1>1, <3>1
      <4> QED BY <2>1, <2>2, <2>3, <2>4, <3>1, <4>1
    <3>2. CASE ~(k <= m - pos)
      <4>1. k - (m - pos) \in 1 .. pos /\ l - pos + (k - (m - pos)) = l - m + k
        BY <1>1, <3>2
      <4> QED BY <1>2, <2>1, <2>3, <2>4, <3>2, <4>1
    <3> QED BY <3>1, <3>2
  <2>6. o \o y = n
    <3>1. n \in Seq(Sample) /\ o \o y \in Seq(S) /\ Len(n) = m /\ Len(o \o y) = m
      BY <1>1, <2>3, <2>4
    <3> QED BY <2>5, <3>1, SeqEqual
  <2> QED BY <1>3, <2>6 DEF InOrder, o, y, n
<1>4. CASE full # TRUE
  <2>1. l = pos /\ \A i \in 1 .. pos : first[i] = a[i]
    BY <1>4 DEF Holds
  <2>2. n = a
    <3>1. Len(a) <= m
      BY <1>1, <2>1
    <3> QED BY <3>1, NewestFacts
  <2> HIDE DEF l, n, o, y
  <2>3. <<>> \o y = y
    BY <1>2
  <2>4. y = a
    <3>1. Len(a) = pos
      BY <2>1 DEF l
    <3> QED BY <1>2, <2>1, <3>1, SeqEqual
  <2> QED BY <1>4, <2>2, <2>3, <2>4 DEF InOrder, o, y, n
<1> QED BY <1>3, <1>4

(* updateStats goes through the newest samples, in the order of the array. *)
LEMMA KeptIs ==
  ASSUME NEW S, NEW first \in Seq(S), NEW m \in Nat \ {0}, Len(first) = m,
         NEW pos, NEW full, NEW a \in Seq(Sample), Holds(first, pos, full, a),
         NEW c, c.first = first, c.current_pos = pos, c.full_flag = full
  PROVE  /\ Kept(c) \in Seq(Sample) /\ Len(Kept(c)) = Len(Newest(a, m))
         /\ Range(Kept(c)) = Range(Newest(a, m))
<1> DEFINE l == Len(a)
           n == Newest(a, m)
<1>1. pos \in 0 .. m /\ l \in Nat /\ n \in Seq(Sample) /\ DOMAIN first = 1 .. m
  BY NewestFacts DEF Holds
<1>2. CASE full = TRUE
  <2>1. /\ l > m /\ pos > 0
        /\ \A i \in 1 .. pos : first[i] = a[l - pos + i]
        /\ \A i \in pos + 1 .. m : first[i] = a[l - pos - m + i]
    BY <1>2 DEF Holds
  <2>2. Len(n) = m /\ \A k \in 1 .. m : n[k] = a[l - m + k]
    BY <2>1, NewestFacts
  <2>3. Kept(c) = first
    BY <1>2 DEF Kept
  <2>4. \A k \in 1 .. l : a[k] \in Sample
    OBVIOUS
  <2> HIDE DEF l, n
  <2>5. ASSUME NEW i \in 1 .. m PROVE first[i] \in Sample /\ \E k \in 1 .. m : first[i] = n[k]
    <3>1. CASE i <= pos
      <4>1. /\ i \in 1 .. pos /\ i + (m - pos) \in 1 .. m /\ l - pos + i \in 1 .. l
            /\ l - m + (i + (m - pos)) = l - pos + i
        BY <1>1, <2>1, <3>1
      <4> QED BY <2>1, <2>2, <2>4, <4>1
    <3>2. CASE ~(i <= pos)
      <4>1. /\ i \in pos + 1 .. m /\ i - pos \in 1 .. m /\ l - pos - m + i \in 1 .. l
            /\ l - m + (i - pos) = l - pos - m + i
        BY <1>1, <2>1, <3>2
      <4> QED BY <2>1, <2>2, <2>4, <4>1
    <3> QED BY <3>1, <3>2
  <2>6. ASSUME NEW k \in 1 .. m PROVE \E i \in 1 .. m : n[k] = first[i]
    <3>1. CASE k <= m - pos
      <4>1. k + pos \in pos + 1 .. m /\ k + pos \in 1 .. m /\ l - pos - m + (k + pos) = l - m + k
        BY <1>1, <3>1
      <4> QED BY <2>1, <2>2, <4>1
    <3>2. CASE ~(k <= m - pos)
      <4>1. /\ k - (m - pos) \in 1 .. pos /\ k - (m - pos) \in 1 .. m
            /\ l - pos + (k - (m - pos)) = l - m + k
        BY <1>1, <3>2
      <4> QED BY <2>1, <2>2, <4>1
    <3> QED BY <3>1, <3>2
  <2>7. first \in Seq(Sample) /\ Len(first) = m
    <3>1. first \in [1 .. m -> Sample]
      BY <1>1, <2>5
    <3> QED BY <3>1
  <2>8. Range(first) = Range(n)
    <3>1. DOMAIN n = 1 .. m
      BY <1>1, <2>2
    <3>2. Range(first) = {first[i] : i \in 1 .. m} /\ Range(n) = {n[k] : k \in 1 .. m}
      BY <1>1, <3>1 DEF Range
    <3>3. \A i \in 1 .. m : first[i] \in Range(n)
      BY <2>5, <3>2
    <3>4. \A k \in 1 .. m : n[k] \in Range(first)
      BY <2>6, <3>2
    <3>5. Range(first) \subseteq Range(n)
      BY <3>2, <3>3
    <3>6. Range(n) \subseteq Range(first)
      BY <3>2, <3>4
    <3> QED BY <3>5, <3>6
  <2> QED BY <2>2, <2>3, <2>7, <2>8 DEF n
<1>3. CASE full # TRUE
  <2>1. l = pos
    BY <1>3 DEF Holds
  <2>2. Kept(c) = SubSeq(first, 1, pos)
    BY <1>3 DEF Kept
  <2>3. n = a
    <3>1. Len(a) <= m
      BY <1>1, <2>1
    <3> QED BY <3>1, NewestFacts
  <2>4. <<>> \o SubSeq(first, 1, pos) = n
    <3>1. InOrder(first, pos, full, a)
      BY RingOrder
    <3> QED BY <1>3, <3>1 DEF InOrder
  <2>5. SubSeq(first, 1, pos) \in Seq(S)
    <3>1. pos \in Nat /\ 1 \in Nat \ {0} /\ 1 <= pos + 1 /\ pos <= Len(first)
      BY <1>1
    <3> QED BY <3>1, SubSeqFacts
  <2> HIDE DEF l, n
  <2>6. <<>> \o SubSeq(first, 1, pos) = SubSeq(first, 1, pos)
    BY <2>5
  <2> QED BY <2>2, <2>3, <2>4, <2>6 DEF n
<1> QED BY <1>2, <1>3
-----------------------------------------------------------------------------
(* The collections.                                                        *)

Collection ==
  [stats : [min : Int, max : Int, average : Int, samples_count : Nat],
   first : Seq(Sample \cup {0}), current_pos : Nat, full_flag : BOOLEAN]

(* What is true of a collection, the samples it counted and those added.   *)
CollOk(c, took, new) ==
  /\ c \in Collection /\ Len(c.first) \in MaxSamples
  /\ took \in Seq(Sample) /\ new \in Seq(Sample)
  /\ Holds(c.first, c.current_pos, c.full_flag, new)
  /\ StatsOf(c.stats, Range(took), Len(took))

CountersInv ==
  /\ kind \in Kind
  /\ collections_vec \in Seq(Collection)
  /\ counted \in Seq(Seq(Sample)) /\ added \in Seq(Seq(Sample))
  /\ Len(counted) = Len(collections_vec) /\ Len(added) = Len(collections_vec)
  /\ \A n \in 1 .. Len(collections_vec) : CollOk(collections_vec[n], counted[n], added[n])

LEMMA RangeAppend ==
  ASSUME NEW q \in Seq(Sample), NEW t \in Sample
  PROVE  Range(Append(q, t)) = Range(q) \cup {t}
<1>1. Len(q) \in Nat /\ DOMAIN q = 1 .. Len(q) /\ DOMAIN Append(q, t) = 1 .. Len(q) + 1
  OBVIOUS
<1>2. Range(q) = {q[k] : k \in 1 .. Len(q)}
      /\ Range(Append(q, t)) = {Append(q, t)[k] : k \in 1 .. Len(q) + 1}
  BY <1>1 DEF Range
<1>3. 1 .. Len(q) + 1 = (1 .. Len(q)) \cup {Len(q) + 1}
  BY <1>1
<1> QED BY <1>1, <1>2, <1>3, AppendFacts

LEMMA RangeConcat ==
  ASSUME NEW p \in Seq(Sample), NEW q \in Seq(Sample)
  PROVE  /\ p \o q \in Seq(Sample) /\ Len(p \o q) = Len(p) + Len(q)
         /\ Range(p \o q) = Range(p) \cup Range(q)
<1> DEFINE r == p \o q
           l == Len(p)
           m == Len(q)
<1>1. /\ r \in Seq(Sample) /\ Len(r) = l + m /\ DOMAIN r = 1 .. l + m
      /\ l \in Nat /\ m \in Nat /\ DOMAIN p = 1 .. l /\ DOMAIN q = 1 .. m
  OBVIOUS
<1>2. \A k \in 1 .. l + m : r[k] = IF k <= l THEN p[k] ELSE q[k - l]
  OBVIOUS
<1> HIDE DEF r, l, m
<1>3. /\ Range(r) = {r[k] : k \in 1 .. l + m}
      /\ Range(p) = {p[k] : k \in 1 .. l} /\ Range(q) = {q[k] : k \in 1 .. m}
  BY <1>1 DEF Range
<1>4. ASSUME NEW k \in 1 .. l + m PROVE r[k] \in Range(p) \cup Range(q)
  <2>1. CASE k <= l
    BY <1>1, <1>2, <1>3, <2>1
  <2>2. CASE ~(k <= l)
    <3>1. k - l \in 1 .. m
      BY <1>1, <2>2
    <3> QED BY <1>2, <1>3, <2>2, <3>1
  <2> QED BY <2>1, <2>2
<1>5. ASSUME NEW k \in 1 .. l PROVE p[k] \in Range(r)
  <2>1. k \in 1 .. l + m /\ k <= l
    BY <1>1
  <2> QED BY <1>2, <1>3, <2>1
<1>6. ASSUME NEW k \in 1 .. m PROVE q[k] \in Range(r)
  <2>1. k + l \in 1 .. l + m /\ ~(k + l <= l) /\ (k + l) - l = k
    BY <1>1
  <2> QED BY <1>2, <1>3, <2>1
<1>7. Range(r) = Range(p) \cup Range(q)
  <2>1. Range(r) \subseteq Range(p) \cup Range(q)
    BY <1>3, <1>4
  <2>2. Range(p) \subseteq Range(r) /\ Range(q) \subseteq Range(r)
    BY <1>3, <1>5, <1>6
  <2> QED BY <2>1, <2>2
<1> QED BY <1>1, <1>7 DEF r, l, m

LEMMA NewCollection ==
  ASSUME NEW m \in MaxSamples, NEW c,
         c = [stats |-> NewStats, first |-> [i \in 1 .. m |-> 0], current_pos |-> 0, full_flag |-> FALSE]
  PROVE  CollOk(c, <<>>, <<>>)
<1>1. m \in Nat \ {0}
  BY CountersAssumption
<1> DEFINE f == [i \in 1 .. m |-> 0]
<1>2. f \in Seq(Sample \cup {0}) /\ Len(f) = m
  BY <1>1
<1>3. NewStats \in [min : Int, max : Int, average : Int, samples_count : Nat]
  BY NewStatsOf DEF StatsOf
<1> HIDE DEF f
<1>4. c = [stats |-> NewStats, first |-> f, current_pos |-> 0, full_flag |-> FALSE]
  BY DEF f
<1>5. c \in Collection /\ c.first = f /\ c.current_pos = 0 /\ c.full_flag = FALSE /\ c.stats = NewStats
  BY <1>2, <1>3, <1>4 DEF Collection
<1>6. <<>> \in Seq(Sample) /\ Len(<<>>) = 0 /\ Range(<<>>) = {}
  BY DEF Range
<1>7. Holds(f, 0, FALSE, <<>>)
  BY <1>1, <1>2, <1>6 DEF Holds
<1> QED BY <1>2, <1>5, <1>6, <1>7, NewStatsOf DEF CollOk

LEMMA PlainSample ==
  ASSUME NEW c, NEW took, NEW new, CollOk(c, took, new), NEW t \in Sample
  PROVE  CollOk([c EXCEPT !.stats = Take(@, t)], Append(took, t), new)
<1> DEFINE d == [c EXCEPT !.stats = Take(@, t)]
<1>1. c \in Collection /\ took \in Seq(Sample) /\ StatsOf(c.stats, Range(took), Len(took))
  BY DEF CollOk
<1>2. StatsOf(Take(c.stats, t), Range(took) \cup {t}, Len(took) + 1)
  BY <1>1, TakeOne
<1>3. Take(c.stats, t) \in [min : Int, max : Int, average : Int, samples_count : Nat]
  BY <1>2 DEF StatsOf
<1>4. d \in Collection /\ d.stats = Take(c.stats, t)
      /\ d.first = c.first /\ d.current_pos = c.current_pos /\ d.full_flag = c.full_flag
  <2> HIDE DEF d
  <2>1. d = [c EXCEPT !.stats = Take(c.stats, t)]
    BY DEF d
  <2> QED BY <1>1, <1>3, <2>1 DEF Collection
<1>5. Append(took, t) \in Seq(Sample) /\ Len(Append(took, t)) = Len(took) + 1
      /\ Range(Append(took, t)) = Range(took) \cup {t}
  BY <1>1, AppendFacts, RangeAppend
<1> HIDE DEF d
<1>6. CollOk(d, Append(took, t), new)
  BY <1>2, <1>4, <1>5 DEF CollOk
<1> QED BY <1>6 DEF d

LEMMA RingSample ==
  ASSUME NEW c, NEW took, NEW new, CollOk(c, took, new), NEW t \in Sample
  PROVE  CollOk(Store(c, t), took, Append(new, t))
<1> DEFINE m == Len(c.first)
           p == IF c.current_pos = m THEN 0 ELSE c.current_pos
           f == [c.first EXCEPT ![p + 1] = t]
           full == c.full_flag \/ c.current_pos = m
           d == Store(c, t)
<1>1. /\ c \in Collection /\ took \in Seq(Sample) /\ new \in Seq(Sample) /\ m \in MaxSamples
      /\ Holds(c.first, c.current_pos, c.full_flag, new) /\ StatsOf(c.stats, Range(took), Len(took))
  BY DEF CollOk
<1>2. /\ c.first \in Seq(Sample \cup {0}) /\ m \in Nat \ {0} /\ c.full_flag \in BOOLEAN
      /\ c.current_pos \in Nat
  BY <1>1, CountersAssumption DEF Collection
<1>3. d = [c EXCEPT !.first = f, !.current_pos = p + 1, !.full_flag = full]
  BY DEF Store
<1>4. full \in BOOLEAN /\ (full = TRUE <=> c.full_flag = TRUE \/ c.current_pos = m)
  BY <1>2
<1>5. p + 1 \in Nat
  BY <1>2
<1>6. f \in Seq(Sample \cup {0}) /\ Len(f) = m /\ Holds(f, p + 1, full, Append(new, t))
  <2>1. Stored(c.first, c.current_pos, c.full_flag, t, p, f, full) /\ t \in Sample \cup {0}
    BY <1>4 DEF Stored
  <2>2. Len(c.first) = m
    OBVIOUS
  <2> HIDE DEF full, f, p, d, m
  <2> QED BY <1>1, <1>2, <2>1, <2>2, StoreHolds
<1> HIDE DEF full, f, p, d, m
<1>7. d \in Collection /\ d.stats = c.stats /\ d.first = f /\ d.current_pos = p + 1 /\ d.full_flag = full
  BY <1>1, <1>3, <1>4, <1>5, <1>6 DEF Collection
<1>8. Append(new, t) \in Seq(Sample)
  BY <1>1, AppendFacts
<1>9. CollOk(d, took, Append(new, t))
  BY <1>1, <1>6, <1>7, <1>8 DEF CollOk
<1> QED BY <1>9 DEF d

LEMMA RingUpdate ==
  ASSUME NEW c, NEW took, NEW new, CollOk(c, took, new)
  PROVE  CollOk([c EXCEPT !.stats = TakeAll(c.stats, Kept(c)), !.full_flag = FALSE,
                          !.current_pos = 0],
                took \o Newest(new, Len(c.first)), <<>>)
<1>1. PICK m, s, k, w : m = Len(c.first) /\ k = Kept(c) /\ s = TakeAll(c.stats, k) /\ w = Newest(new, m)
  OBVIOUS
<1>2. /\ c \in Collection /\ took \in Seq(Sample) /\ new \in Seq(Sample) /\ m \in MaxSamples
      /\ Holds(c.first, c.current_pos, c.full_flag, new) /\ StatsOf(c.stats, Range(took), Len(took))
  BY <1>1 DEF CollOk
<1>3. c.first \in Seq(Sample \cup {0}) /\ m \in Nat \ {0}
  BY <1>2, CountersAssumption DEF Collection
<1>4. k \in Seq(Sample) /\ Len(k) = Len(w) /\ Range(k) = Range(w) /\ w \in Seq(Sample)
  <2>1. m = Len(c.first)
    BY <1>1
  <2>2. /\ Kept(c) \in Seq(Sample) /\ Len(Kept(c)) = Len(Newest(new, m))
        /\ Range(Kept(c)) = Range(Newest(new, m))
    BY <1>2, <1>3, <2>1, KeptIs
  <2>3. Newest(new, m) \in Seq(Sample)
    BY <1>2, <1>3, NewestFacts
  <2> QED BY <1>1, <2>2, <2>3
<1>5. StatsOf(s, Range(took) \cup Range(k), Len(took) + Len(k))
  BY <1>1, <1>2, <1>4, TakeAllOf
<1>6. s \in [min : Int, max : Int, average : Int, samples_count : Nat]
  BY <1>5 DEF StatsOf
<1>7. PICK d : d = [c EXCEPT !.stats = s, !.full_flag = FALSE, !.current_pos = 0]
  OBVIOUS
<1>8. d \in Collection /\ d.stats = s /\ d.first = c.first /\ d.current_pos = 0 /\ d.full_flag = FALSE
  <2>1. d = [stats |-> s, first |-> c.first, current_pos |-> 0, full_flag |-> FALSE]
    BY <1>2, <1>7 DEF Collection
  <2>2. d.stats = s /\ d.first = c.first /\ d.current_pos = 0 /\ d.full_flag = FALSE
    BY <2>1
  <2>3. d \in Collection
    BY <1>3, <1>6, <2>1 DEF Collection
  <2> QED BY <2>2, <2>3
<1>9. <<>> \in Seq(Sample) /\ Len(<<>>) = 0
  OBVIOUS
<1>10. Holds(c.first, 0, FALSE, <<>>)
  BY <1>1, <1>3, <1>9 DEF Holds
<1>11. /\ took \o w \in Seq(Sample) /\ Len(took \o w) = Len(took) + Len(w)
       /\ Range(took \o w) = Range(took) \cup Range(w)
  BY <1>2, <1>4, RangeConcat
<1>12. CollOk(d, took \o w, <<>>)
  BY <1>1, <1>2, <1>4, <1>5, <1>8, <1>9, <1>10, <1>11 DEF CollOk
<1> QED BY <1>1, <1>7, <1>12

LEMMA StatsReset ==
  ASSUME NEW c, NEW took, NEW new, CollOk(c, took, new), NEW d, d = [c EXCEPT !.stats = NewStats]
  PROVE  CollOk(d, <<>>, new)
<1>1. NewStats \in [min : Int, max : Int, average : Int, samples_count : Nat]
  BY NewStatsOf DEF StatsOf
<1>2. d \in Collection /\ d.stats = NewStats /\ d.first = c.first
      /\ d.current_pos = c.current_pos /\ d.full_flag = c.full_flag
  BY <1>1 DEF CollOk, Collection
<1>3. <<>> \in Seq(Sample) /\ Len(<<>>) = 0 /\ Range(<<>>) = {}
  BY DEF Range
<1> QED BY <1>2, <1>3, NewStatsOf DEF CollOk
-----------------------------------------------------------------------------
(* The invariant is inductive.                                             *)

LEMMA CountersInit == Init => CountersInv
<1> SUFFICES ASSUME Init PROVE CountersInv
  OBVIOUS
<1>1. /\ <<>> \in Seq(Collection) /\ <<>> \in Seq(Seq(Sample))
      /\ Len(<<>>) = 0 /\ 1 .. 0 = {}
  OBVIOUS
<1> QED BY <1>1 DEF Init, CountersInv

(* A step that changes the collection n.                                   *)
LEMMA OneChanges ==
  ASSUME CountersInv, NEW n \in 1 .. Len(collections_vec), NEW c, NEW took, NEW new,
         CollOk(c, took, new), kind' = kind,
         collections_vec' = [collections_vec EXCEPT ![n] = c],
         counted' = [counted EXCEPT ![n] = took], added' = [added EXCEPT ![n] = new]
  PROVE  CountersInv'
<1>1. c \in Collection /\ took \in Seq(Sample) /\ new \in Seq(Sample)
  BY DEF CollOk
<1>2. /\ n \in 1 .. Len(counted) /\ n \in 1 .. Len(added) /\ collections_vec \in Seq(Collection)
      /\ counted \in Seq(Seq(Sample)) /\ added \in Seq(Seq(Sample))
      /\ Len(counted) = Len(collections_vec) /\ Len(added) = Len(collections_vec)
  BY DEF CountersInv
<1>3. /\ collections_vec' \in Seq(Collection) /\ Len(collections_vec') = Len(collections_vec)
      /\ \A j \in 1 .. Len(collections_vec) :
           collections_vec'[j] = IF j = n THEN c ELSE collections_vec[j]
  BY <1>1, <1>2, UpdateFacts
<1>4. /\ counted' \in Seq(Seq(Sample)) /\ Len(counted') = Len(counted)
      /\ \A j \in 1 .. Len(counted) : counted'[j] = IF j = n THEN took ELSE counted[j]
  BY <1>1, <1>2, UpdateFacts
<1>5. /\ added' \in Seq(Seq(Sample)) /\ Len(added') = Len(added)
      /\ \A j \in 1 .. Len(added) : added'[j] = IF j = n THEN new ELSE added[j]
  BY <1>1, <1>2, UpdateFacts
<1>6. ASSUME NEW j \in 1 .. Len(collections_vec)
      PROVE  CollOk(collections_vec'[j], counted'[j], added'[j])
  <2>1. CollOk(collections_vec[j], counted[j], added[j])
    BY DEF CountersInv
  <2> QED BY <1>2, <1>3, <1>4, <1>5, <2>1
<1> QED BY <1>2, <1>3, <1>4, <1>5, <1>6 DEF CountersInv

(* A component that a step leaves alone is one given its own value.        *)
LEMMA SelfUpdate ==
  ASSUME NEW S, NEW q \in Seq(S), NEW n \in 1 .. Len(q)
  PROVE  q = [q EXCEPT ![n] = q[n]]
OBVIOUS

LEMMA AddCollectionKeeps ==
  ASSUME CountersInv, NEW m \in MaxSamples, AddCollection(m)
  PROVE  CountersInv'
<1>1. PICK c : c = [stats |-> NewStats, first |-> [i \in 1 .. m |-> 0],
                    current_pos |-> 0, full_flag |-> FALSE]
  OBVIOUS
<1>2. /\ collections_vec \in Seq(Collection) /\ counted \in Seq(Seq(Sample))
      /\ added \in Seq(Seq(Sample)) /\ kind \in Kind
      /\ Len(counted) = Len(collections_vec) /\ Len(added) = Len(collections_vec)
  BY DEF CountersInv
<1>3. /\ collections_vec' = Append(collections_vec, c) /\ counted' = Append(counted, <<>>)
      /\ added' = Append(added, <<>>) /\ kind' = kind
  BY <1>1 DEF AddCollection
<1>4. CollOk(c, <<>>, <<>>)
  BY <1>1, NewCollection
<1>5. c \in Collection /\ <<>> \in Seq(Sample)
  BY <1>4 DEF CollOk
<1> DEFINE l == Len(collections_vec)
<1>6. /\ collections_vec' \in Seq(Collection) /\ Len(collections_vec') = l + 1
      /\ collections_vec'[l + 1] = c /\ \A j \in 1 .. l : collections_vec'[j] = collections_vec[j]
  BY <1>2, <1>3, <1>5, AppendFacts
<1>7. /\ counted' \in Seq(Seq(Sample)) /\ Len(counted') = l + 1
      /\ counted'[l + 1] = <<>> /\ \A j \in 1 .. l : counted'[j] = counted[j]
  BY <1>2, <1>3, <1>5, AppendFacts
<1>8. /\ added' \in Seq(Seq(Sample)) /\ Len(added') = l + 1
      /\ added'[l + 1] = <<>> /\ \A j \in 1 .. l : added'[j] = added[j]
  BY <1>2, <1>3, <1>5, AppendFacts
<1>9. l \in Nat /\ \A j \in 1 .. l + 1 : j = l + 1 \/ j \in 1 .. l
  BY <1>2
<1>10. \A j \in 1 .. l : CollOk(collections_vec[j], counted[j], added[j])
  BY DEF CountersInv
<1> HIDE DEF l
<1>11. ASSUME NEW j \in 1 .. l + 1
       PROVE  CollOk(collections_vec'[j], counted'[j], added'[j])
  BY <1>4, <1>6, <1>7, <1>8, <1>9, <1>10
<1> QED BY <1>2, <1>3, <1>6, <1>7, <1>8, <1>11 DEF CountersInv

LEMMA ResetKeeps ==
  ASSUME CountersInv, NEW S, Reset(S)
  PROVE  CountersInv'
<1> DEFINE l == Len(collections_vec)
<1>1. /\ collections_vec \in Seq(Collection) /\ counted \in Seq(Seq(Sample)) /\ l \in Nat
      /\ added \in Seq(Seq(Sample)) /\ kind \in Kind /\ Len(counted) = l /\ Len(added) = l
      /\ DOMAIN collections_vec = 1 .. l /\ DOMAIN counted = 1 .. l
  BY DEF CountersInv
<1>2. /\ collections_vec' = [n \in 1 .. l |-> IF n \in S THEN [collections_vec[n] EXCEPT !.stats = NewStats]
                                              ELSE collections_vec[n]]
      /\ counted' = [n \in 1 .. l |-> IF n \in S THEN <<>> ELSE counted[n]]
      /\ kind' = kind /\ added' = added
  BY <1>1 DEF Reset
<1>3. \A n \in 1 .. l : CollOk(collections_vec[n], counted[n], added[n])
  BY DEF CountersInv
<1> HIDE DEF l
<1>4. ASSUME NEW n \in 1 .. l PROVE CollOk(collections_vec'[n], counted'[n], added'[n])
  <2>1. CASE n \in S
    <3>1. PICK d : d = [collections_vec[n] EXCEPT !.stats = NewStats]
      OBVIOUS
    <3>2. CollOk(d, <<>>, added[n])
      BY <1>3, <3>1, StatsReset
    <3>3. collections_vec'[n] = d /\ counted'[n] = <<>> /\ added'[n] = added[n]
      BY <1>2, <2>1, <3>1
    <3> QED BY <3>2, <3>3
  <2>2. CASE n \notin S
    BY <1>2, <1>3, <2>2
  <2> QED BY <2>1, <2>2
<1>5. \A n \in 1 .. l : collections_vec'[n] \in Collection /\ counted'[n] \in Seq(Sample)
  BY <1>4 DEF CollOk
<1>6. /\ collections_vec' \in Seq(Collection) /\ Len(collections_vec') = l
      /\ counted' \in Seq(Seq(Sample)) /\ Len(counted') = l
  <2>1. collections_vec' \in [1 .. l -> Collection] /\ counted' \in [1 .. l -> Seq(Sample)]
    BY <1>2, <1>5
  <2> QED BY <1>1, <2>1
<1> QED BY <1>1, <1>2, <1>4, <1>6 DEF CountersInv

LEMMA CountersNext == CountersInv /\ [Next]_vars => CountersInv'
<1> SUFFICES ASSUME CountersInv, [Next]_vars PROVE CountersInv'
  OBVIOUS
<1>1. CASE UNCHANGED vars
  BY <1>1 DEF vars, CountersInv
<1>2. /\ collections_vec \in Seq(Collection) /\ DOMAIN collections_vec = 1 .. Len(collections_vec)
      /\ counted \in Seq(Seq(Sample)) /\ added \in Seq(Seq(Sample))
      /\ Len(counted) = Len(collections_vec) /\ Len(added) = Len(collections_vec)
      /\ \A n \in 1 .. Len(collections_vec) : CollOk(collections_vec[n], counted[n], added[n])
  BY DEF CountersInv
<1>3. ASSUME NEW n \in 1 .. Len(collections_vec), NEW t \in Sample, AddSample(n, t)
      PROVE  CountersInv'
  <2>1. PICK c, took : c = [collections_vec[n] EXCEPT !.stats = Take(@, t)]
                       /\ took = Append(counted[n], t)
    OBVIOUS
  <2>2. CollOk(c, took, added[n])
    BY <1>2, <2>1, PlainSample
  <2>3. /\ collections_vec' = [collections_vec EXCEPT ![n] = c] /\ kind' = kind
        /\ counted' = [counted EXCEPT ![n] = took] /\ added' = added
    BY <1>3, <2>1 DEF AddSample
  <2>4. added = [added EXCEPT ![n] = added[n]]
    BY <1>2, SelfUpdate
  <2> QED BY <2>2, <2>3, <2>4, OneChanges
<1>4. ASSUME NEW n \in 1 .. Len(collections_vec), NEW t \in Sample, AddSampleCircular(n, t)
      PROVE  CountersInv'
  <2>1. PICK c, new : c = Store(collections_vec[n], t) /\ new = Append(added[n], t)
    OBVIOUS
  <2>2. CollOk(c, counted[n], new)
    BY <1>2, <2>1, RingSample
  <2>3. /\ collections_vec' = [collections_vec EXCEPT ![n] = c] /\ kind' = kind
        /\ counted' = counted /\ added' = [added EXCEPT ![n] = new]
    BY <1>4, <2>1 DEF AddSampleCircular
  <2>4. counted = [counted EXCEPT ![n] = counted[n]]
    BY <1>2, SelfUpdate
  <2> QED BY <2>2, <2>3, <2>4, OneChanges
<1>5. ASSUME NEW n \in 1 .. Len(collections_vec), UpdateStats(n)
      PROVE  CountersInv'
  <2>1. PICK b, took : b = collections_vec[n] /\ took = counted[n] \o Newest(added[n], Len(b.first))
    OBVIOUS
  <2>2. PICK c : c = [b EXCEPT !.stats = TakeAll(b.stats, Kept(b)), !.full_flag = FALSE,
                               !.current_pos = 0]
    OBVIOUS
  <2>3. CollOk(c, took, <<>>)
    BY <1>2, <2>1, <2>2, RingUpdate
  <2>4. /\ collections_vec' = [collections_vec EXCEPT ![n] = c] /\ kind' = kind
        /\ counted' = [counted EXCEPT ![n] = took] /\ added' = [added EXCEPT ![n] = <<>>]
    BY <1>5, <2>1, <2>2 DEF UpdateStats
  <2> QED BY <2>3, <2>4, OneChanges
<1>6. CASE Next
  BY <1>2, <1>3, <1>4, <1>5, <1>6, AddCollectionKeeps, ResetKeeps DEF Next
<1> QED BY <1>1, <1>6

-----------------------------------------------------------------------------
(* What the invariant says.                                                *)

LEMMA MinIs ==
  ASSUME NEW S \in SUBSET Int, NEW x \in S, \A y \in S : x <= y
  PROVE  Min(S) = x
<1>1. \A y \in S : y \in Int
  OBVIOUS
<1>2. \E y \in S : \A z \in S : y <= z
  OBVIOUS
<1>3. Min(S) \in S /\ \A z \in S : Min(S) <= z
  BY <1>2 DEF Min
<1>4. PICK m : m = Min(S)
  OBVIOUS
<1>5. m \in Int /\ x \in Int /\ m <= x /\ x <= m
  BY <1>1, <1>3, <1>4
<1>6. m = x
  BY <1>5
<1> QED BY <1>4, <1>6

LEMMA MaxIs ==
  ASSUME NEW S \in SUBSET Int, NEW x \in S, \A y \in S : x >= y
  PROVE  Max(S) = x
<1>1. \A y \in S : y \in Int
  OBVIOUS
<1>2. \E y \in S : \A z \in S : y >= z
  OBVIOUS
<1>3. Max(S) \in S /\ \A z \in S : Max(S) >= z
  BY <1>2 DEF Max
<1>4. PICK m : m = Max(S)
  OBVIOUS
<1>5. m \in Int /\ x \in Int /\ m >= x /\ x >= m
  BY <1>1, <1>3, <1>4
<1>6. m = x
  BY <1>5
<1> QED BY <1>4, <1>6

LEMMA CollectionTyped ==
  ASSUME NEW c, NEW took, NEW new, CollOk(c, took, new)
  PROVE  /\ Len(c.first) \in MaxSamples /\ Range(c.first) \subseteq Sample \cup {0}
         /\ c.current_pos \in 0 .. Len(c.first) /\ c.full_flag \in BOOLEAN
         /\ {c.stats.min, c.stats.max, c.stats.average} \subseteq -INTMAX_MAX .. INTMAX_MAX
         /\ c.stats.samples_count \in Nat
<1>1. /\ c \in Collection /\ Len(c.first) \in MaxSamples /\ c.current_pos \in 0 .. Len(c.first)
      /\ StatsOf(c.stats, Range(took), Len(took))
  BY DEF CollOk, Holds
<1>2. c.first \in Seq(Sample \cup {0}) /\ c.full_flag \in BOOLEAN
  BY <1>1 DEF Collection
<1>3. Range(c.first) \subseteq Sample \cup {0}
  <2>1. \A i \in DOMAIN c.first : c.first[i] \in Sample \cup {0}
    BY <1>2
  <2> QED BY <2>1 DEF Range
<1>4. \A t \in Range(took) : t \in -INTMAX_MAX .. INTMAX_MAX
  BY <1>1, Bounds DEF StatsOf
<1>5. INTMAX_MAX \in -INTMAX_MAX .. INTMAX_MAX /\ 0 \in -INTMAX_MAX .. INTMAX_MAX
  BY Bounds
<1>6. c.stats.min \in -INTMAX_MAX .. INTMAX_MAX /\ c.stats.max \in -INTMAX_MAX .. INTMAX_MAX
      /\ c.stats.samples_count \in Nat /\ c.stats.average \in Int
  BY <1>1, <1>4, <1>5 DEF StatsOf
<1>7. c.stats.average \in -INTMAX_MAX .. INTMAX_MAX
  <2>1. CASE Len(took) = 0
    BY <1>1, <1>5, <2>1 DEF StatsOf
  <2>2. CASE Len(took) # 0
    <3>1. PICK lo, hi \in Range(took) : lo <= c.stats.average /\ c.stats.average <= hi
      BY <1>1, <2>2 DEF StatsOf
    <3>2. lo \in -INTMAX_MAX .. INTMAX_MAX /\ hi \in -INTMAX_MAX .. INTMAX_MAX
      BY <1>4
    <3> QED BY <1>6, <3>1, <3>2, Bounds
  <2> QED BY <2>1, <2>2
<1> QED BY <1>1, <1>2, <1>3, <1>6, <1>7

LEMMA CountersTyped == CountersInv => TypeOK
<1> SUFFICES ASSUME CountersInv PROVE TypeOK
  OBVIOUS
<1>1. DOMAIN collections_vec = 1 .. Len(collections_vec)
  BY DEF CountersInv
<1>2. \A n \in DOMAIN collections_vec : CollOk(collections_vec[n], counted[n], added[n])
  BY <1>1 DEF CountersInv
<1>3. ASSUME NEW n \in DOMAIN collections_vec
      PROVE  LET c == collections_vec[n]
             IN  /\ Len(c.first) \in MaxSamples /\ Range(c.first) \subseteq Sample \cup {0}
                 /\ c.current_pos \in 0 .. Len(c.first) /\ c.full_flag \in BOOLEAN
                 /\ {c.stats.min, c.stats.max, c.stats.average} \subseteq -INTMAX_MAX .. INTMAX_MAX
                 /\ c.stats.samples_count \in Nat
  BY <1>2, CollectionTyped
<1> QED BY <1>3 DEF CountersInv, TypeOK

LEMMA RingsHold == CountersInv => RingKeepsNewest
<1> SUFFICES ASSUME CountersInv, NEW n \in DOMAIN collections_vec
             PROVE  LET c == collections_vec[n]
                        older == IF c.full_flag THEN SubSeq(c.first, c.current_pos + 1, Len(c.first))
                                 ELSE <<>>
                    IN  older \o SubSeq(c.first, 1, c.current_pos) = Newest(added[n], Len(c.first))
  BY DEF RingKeepsNewest
<1>1. PICK c, new : c = collections_vec[n] /\ new = added[n]
  OBVIOUS
<1>2. CollOk(c, counted[n], new)
  <2>1. DOMAIN collections_vec = 1 .. Len(collections_vec)
    BY DEF CountersInv
  <2> QED BY <1>1, <2>1 DEF CountersInv
<1>3. /\ c.first \in Seq(Sample \cup {0}) /\ c.full_flag \in BOOLEAN /\ Len(c.first) \in Nat \ {0}
      /\ new \in Seq(Sample) /\ Holds(c.first, c.current_pos, c.full_flag, new)
  BY <1>2, CountersAssumption DEF CollOk, Collection
<1>4. PICK first, pos, full : first = c.first /\ pos = c.current_pos /\ full = c.full_flag
  OBVIOUS
<1>5. InOrder(first, pos, full, new)
  BY <1>3, <1>4, RingOrder
<1>6. (IF full THEN SubSeq(first, pos + 1, Len(first)) ELSE <<>>) \o SubSeq(first, 1, pos)
        = Newest(new, Len(first))
  <2>1. CASE full = TRUE
    BY <1>5, <2>1 DEF InOrder
  <2>2. CASE full = FALSE
    BY <1>5, <2>2 DEF InOrder
  <2> QED BY <1>3, <1>4, <2>1, <2>2
<1> QED BY <1>1, <1>4, <1>6

(* Stats of the samples that a sequence took.                              *)
LEMMA StatsAre ==
  ASSUME NEW s, NEW took, NEW n, StatsOf(s, took, n)
  PROVE  /\ s.samples_count = n
         /\ s.min = Min(took \cup {INTMAX_MAX}) /\ s.max = Max(took \cup {0})
         /\ took # {} => s.average \in Min(took) .. Max(took)
<1>1. /\ s.samples_count = n /\ s.average \in Int /\ took \in SUBSET Int
      /\ \A t \in took : t <= INTMAX_MAX
  BY Bounds DEF StatsOf
<1>2. s.min = Min(took \cup {INTMAX_MAX})
  <2>1. s.min \in took \cup {INTMAX_MAX} /\ \A t \in took : s.min <= t
    BY DEF StatsOf
  <2>2. INTMAX_MAX \in Int /\ INTMAX_MAX <= INTMAX_MAX
    BY Bounds
  <2>3. s.min <= INTMAX_MAX
    BY <1>1, <2>1, <2>2
  <2>4. \A t \in took \cup {INTMAX_MAX} : t \in Int /\ s.min <= t
    <3>1. \A t \in took : t \in Int
      BY <1>1
    <3> QED BY <2>1, <2>2, <2>3, <3>1
  <2>5. took \cup {INTMAX_MAX} \in SUBSET Int
    BY <2>4
  <2> QED BY <2>1, <2>4, <2>5, MinIs
<1>3. s.max = Max(took \cup {0})
  <2>1. s.max \in took \cup {0} /\ s.max >= 0 /\ \A t \in took : s.max >= t
    BY DEF StatsOf
  <2>2. took \cup {0} \in SUBSET Int /\ \A t \in took \cup {0} : s.max >= t
    BY <1>1, <2>1
  <2> QED BY <2>1, <2>2, MaxIs
<1>4. ASSUME took # {} PROVE s.average \in Min(took) .. Max(took)
  <2>1. PICK lo, hi \in took : /\ \A t \in took : lo <= t /\ t <= hi
                               /\ lo <= s.average /\ s.average <= hi
    BY <1>4 DEF StatsOf
  <2>2. lo \in Int /\ hi \in Int /\ \A t \in took : hi >= t
    BY <1>1, <2>1
  <2>3. Min(took) = lo
    BY <1>1, <2>1, MinIs
  <2>4. Max(took) = hi
    BY <1>1, <2>2, MaxIs
  <2> QED BY <1>1, <2>1, <2>2, <2>3, <2>4
<1> QED BY <1>1, <1>2, <1>3, <1>4

LEMMA StatsDescribe == CountersInv => StatsDescribeSamples
<1> SUFFICES ASSUME CountersInv, NEW n \in DOMAIN collections_vec
             PROVE  LET s == collections_vec[n].stats
                        took == Range(counted[n])
                    IN  /\ s.samples_count = Len(counted[n])
                        /\ s.min = Min(took \cup {INTMAX_MAX}) /\ s.max = Max(took \cup {0})
                        /\ took # {} => s.average \in Min(took) .. Max(took)
  BY DEF StatsDescribeSamples
<1>1. StatsOf(collections_vec[n].stats, Range(counted[n]), Len(counted[n]))
  <2>1. DOMAIN collections_vec = 1 .. Len(collections_vec)
    BY DEF CountersInv
  <2> QED BY <2>1 DEF CountersInv, CollOk
<1> QED BY <1>1, StatsAre

(* For any samples, any sizes of the rings and any number of collections:  *)
(* between two calls of updateStats a ring holds the newest samples, and   *)
(* the Stats of each collection describe exactly the samples it took,      *)
(* although add keeps none and updateStats reads the array in place.       *)
THEOREM CountersCorrect == Spec => [](TypeOK /\ RingKeepsNewest /\ StatsDescribeSamples)
<1>1. Init => CountersInv
  BY CountersInit
<1>2. CountersInv /\ [Next]_vars => CountersInv'
  BY CountersNext
<1>3. CountersInv => TypeOK /\ RingKeepsNewest /\ StatsDescribeSamples
  BY CountersTyped, RingsHold, StatsDescribe
<1> QED BY <1>1, <1>2, <1>3, PTL DEF Spec
=============================================================================
