--------------------------- MODULE CrawlerProofs ---------------------------
(* TypeOK, CleanCrawlAgrees and CrawlsMoveForward for every value of the   *)
(* constants of Crawler.                                                   *)
(*                                                                         *)
(* Versions: Below orders them, so that the highest of a finite set is one *)
(* that none is above, and versions of the same width are ordered as the   *)
(* numbers they mean.  Clean crawls: every delivery on the share is on its *)
(* way to the registry, in todo, then in taken, and at last in the rows.   *)
(* Undisturbed crawls: whoever derives a status sees a version above, and  *)
(* so does every other crawl; what differs from that is a reviewer's.      *)
EXTENDS Crawler, FiniteSetTheorems, SequenceTheorems, NaturalsInduction,
        WellFoundedInduction, TLAPS

-----------------------------------------------------------------------------
(* Induction over the natural numbers, for a set in place of a predicate   *)

LEMMA LeastElement ==
    ASSUME NEW S \in SUBSET Nat, S # {}
    PROVE  \E n \in S : \A m \in S : n <= m
<1> DEFINE R == {ss \in Nat \X Nat : ss[1] < ss[2]}
<1>1. IsWellFoundedOn(R, Nat)
  BY NatLessThanWellFounded DEF OpToRel
<1>2. \A m, n \in S : <<m, n>> \in R <=> m < n
  OBVIOUS
<1> HIDE DEF R
<1>3. PICK n \in S : \A m \in S : ~ (<<m, n>> \in R)
  BY <1>1, WFMin
<1>4. \A m \in S : ~ (m < n)
  BY <1>2, <1>3
<1> QED  BY <1>4

LEMMA SetInduction ==
    ASSUME NEW S \in SUBSET Nat, 0 \in S, \A n \in S : n + 1 \in S
    PROVE  S = Nat
<1> SUFFICES ASSUME Nat \ S # {}  PROVE FALSE
  OBVIOUS
<1>1. PICK n \in Nat \ S : \A m \in Nat \ S : n <= m
  BY LeastElement
<1>2. n # 0 /\ n - 1 \in Nat
  BY <1>1
<1>3. n - 1 \in S
  BY <1>1, <1>2
<1>4. (n - 1) + 1 = n
  BY <1>1
<1> QED  BY <1>1, <1>3, <1>4

-----------------------------------------------------------------------------
(* Versions                                                                *)

\* v and w have the same first n digits.
SameUpTo(v, w, n) == \A j \in 1..n : j <= Len(v) /\ j <= Len(w) /\ v[j] = w[j]

LEMMA DigitsType ==
    ASSUME NEW v \in Digits
    PROVE  /\ Len(v) \in Nat \ {0}
           /\ \A j \in 1..Len(v) : v[j] \in 0..9
  BY EmptySeq, ElementOfSeq, LenProperties DEF Digits

LEMMA BelowUnfolds ==
    ASSUME NEW v \in Digits, NEW w \in Digits
    PROVE  Below(v, w) <=> \E i \in 1..Len(w) : /\ SameUpTo(v, w, i - 1)
                                                /\ i > Len(v) \/ v[i] < w[i]
<1>1. \A i \in 1..Len(w) : \A j \in 1..(i - 1) : j <= Len(w)
  BY DigitsType
<1> QED  BY <1>1 DEF Below, SameUpTo

LEMMA BelowIrreflexive ==
    ASSUME NEW v \in Digits
    PROVE  ~Below(v, v)
  BY DigitsType DEF Below

LEMMA BelowTransitive ==
    ASSUME NEW u \in Digits, NEW v \in Digits, NEW w \in Digits,
           Below(u, v), Below(v, w)
    PROVE  Below(u, w)
<1>1. PICK i \in 1..Len(v) : /\ SameUpTo(u, v, i - 1)
                             /\ i > Len(u) \/ u[i] < v[i]
  BY BelowUnfolds
<1>2. PICK k \in 1..Len(w) : /\ SameUpTo(v, w, k - 1)
                             /\ k > Len(v) \/ v[k] < w[k]
  BY BelowUnfolds
<1>3. SUFFICES \E m \in 1..Len(w) : /\ SameUpTo(u, w, m - 1)
                                    /\ m > Len(u) \/ u[m] < w[m]
  BY BelowUnfolds
<1>0. /\ Len(u) \in Nat /\ Len(v) \in Nat /\ Len(w) \in Nat
      /\ \A j \in 1..Len(u) : u[j] \in Nat
      /\ \A j \in 1..Len(v) : v[j] \in Nat
      /\ \A j \in 1..Len(w) : w[j] \in Nat
  <2>1. /\ Len(u) \in Nat
        /\ \A j \in 1..Len(u) : u[j] \in Nat
    BY DigitsType, SMTT(30)
  <2>2. /\ Len(v) \in Nat
        /\ \A j \in 1..Len(v) : v[j] \in Nat
    BY DigitsType, SMTT(30)
  <2>3. /\ Len(w) \in Nat
        /\ \A j \in 1..Len(w) : w[j] \in Nat
    BY DigitsType, SMTT(30)
  <2> QED  BY <2>1, <2>2, <2>3
<1>4. /\ i \in Nat /\ k \in Nat /\ Len(u) \in Nat /\ Len(v) \in Nat /\ Len(w) \in Nat
      /\ \A j \in 1..Len(u) : u[j] \in Nat
      /\ \A j \in 1..Len(v) : v[j] \in Nat
      /\ \A j \in 1..Len(w) : w[j] \in Nat
  BY <1>0
<1>5. CASE i < k
  <2>1. i <= Len(w) /\ v[i] = w[i]
    BY <1>2, <1>4, <1>5 DEF SameUpTo
  <2>2. SameUpTo(u, w, i - 1)
    BY <1>1, <1>2, <1>4, <1>5 DEF SameUpTo
  <2>3. i > Len(u) \/ u[i] < w[i]
    BY <1>1, <2>1
  <2> QED  BY <2>1, <2>2, <2>3, <1>4
<1>6. CASE i = k
  <2>1. SameUpTo(u, w, i - 1)
    BY <1>1, <1>2, <1>4, <1>6 DEF SameUpTo
  <2>2. i > Len(u) \/ u[i] < w[i]
    BY <1>1, <1>2, <1>4, <1>6
  <2> QED  BY <2>1, <2>2, <1>4, <1>6
<1>7. CASE k < i
  <2>1. k <= Len(u) /\ k <= Len(v) /\ u[k] = v[k]
    BY <1>1, <1>4, <1>7 DEF SameUpTo
  <2>2. SameUpTo(u, w, k - 1)
    BY <1>1, <1>2, <1>4, <1>7 DEF SameUpTo
  <2>3. u[k] < w[k]
    BY <1>2, <1>4, <2>1
  <2> QED  BY <2>2, <2>3, <1>4
<1> QED  BY <1>4, <1>5, <1>6, <1>7

LEMMA BelowTotal ==
    ASSUME NEW v \in Digits, NEW w \in Digits
    PROVE  v = w \/ Below(v, w) \/ Below(w, v)
<1> DEFINE D == {i \in Nat \ {0} : \/ i <= Len(v) /\ i <= Len(w) /\ v[i] # w[i]
                                   \/ i <= Len(v) /\ i > Len(w)
                                   \/ i > Len(v) /\ i <= Len(w)}
<1>1. /\ Len(v) \in Nat /\ Len(w) \in Nat
      /\ \A j \in 1..Len(v) : v[j] \in Nat
      /\ \A j \in 1..Len(w) : w[j] \in Nat
  BY DigitsType
<1>2. CASE D = {}
  <2>1. Len(v) = Len(w)
    <3>1. CASE Len(v) < Len(w)
      <4>1. Len(w) \in D
        BY <1>1, <3>1
      <4> QED  BY <4>1, <1>2
    <3>2. CASE Len(w) < Len(v)
      <4>1. Len(v) \in D
        BY <1>1, <3>2
      <4> QED  BY <4>1, <1>2
    <3> QED  BY <1>1, <3>1, <3>2
  <2>2. \A i \in 1..Len(v) : v[i] = w[i]
    <3> TAKE i \in 1..Len(v)
    <3>1. i \notin D
      BY <1>2
    <3> QED  BY <3>1, <2>1, <1>1
  <2>3. v \in Seq(0..9) /\ w \in Seq(0..9)
    BY DEF Digits
  <2> QED  BY <2>1, <2>2, <2>3, SeqEqual
<1>3. CASE D # {}
  <2>1. PICK n \in D : \A m \in D : n <= m
    <3>1. D \in SUBSET Nat
      OBVIOUS
    <3> HIDE DEF D
    <3> QED  BY <3>1, <1>3, LeastElement
  <2>2. \A j \in 1..(n - 1) : j <= Len(v) /\ j <= Len(w) /\ v[j] = w[j]
    <3> TAKE j \in 1..(n - 1)
    <3>1. j \notin D
      BY <2>1
    <3>2. n <= Len(v) \/ n <= Len(w)
      OBVIOUS
    <3> QED  BY <3>1, <3>2, <1>1
  <2>3. SameUpTo(v, w, n - 1) /\ SameUpTo(w, v, n - 1)
    BY <2>2 DEF SameUpTo
  <2>4. CASE n <= Len(v) /\ n <= Len(w) /\ v[n] # w[n]
    <3>1. v[n] < w[n] \/ w[n] < v[n]
      BY <1>1, <2>4
    <3> QED  BY <1>1, <2>3, <2>4, <3>1, BelowUnfolds
  <2>5. CASE n <= Len(v) /\ n > Len(w)
    BY <1>1, <2>3, <2>5, BelowUnfolds
  <2>6. CASE n > Len(v) /\ n <= Len(w)
    BY <1>1, <2>3, <2>6, BelowUnfolds
  <2> QED  BY <2>4, <2>5, <2>6
<1> QED  BY <1>2, <1>3

-----------------------------------------------------------------------------
(* The number that a version means                                         *)

LEMMA NumberUnfolds ==
    ASSUME NEW v \in Digits
    PROVE  \E f \in [0..Len(v) -> Nat] :
              /\ f[0] = 0
              /\ \A n \in 1..Len(v) : f[n] = 10 * f[n - 1] + v[n]
              /\ Number(v) = f[Len(v)]
<1> DEFINE upTo[n \in 0..Len(v)] == IF n = 0 THEN 0 ELSE 10 * upTo[n - 1] + v[n]
<1>1. Number(v) = upTo[Len(v)]
  BY DEF Number
<1>2. Len(v) \in Nat /\ \A j \in 1..Len(v) : v[j] \in Nat
  BY DigitsType
<1> DEFINE Fits(f, k) == \A n \in 0..k :
                            f[n] = IF n = 0 THEN 0 ELSE 10 * f[n - 1] + v[n]
<1> DEFINE S == {k \in Nat : k <= Len(v) => \E f \in [0..k -> Nat] : Fits(f, k)}
<1>3. 0 \in S
  <2>1. [n \in 0..0 |-> 0] \in [0..0 -> Nat] /\ Fits([n \in 0..0 |-> 0], 0)
    OBVIOUS
  <2> QED  BY <2>1
<1>4. \A k \in S : k + 1 \in S
  <2> SUFFICES ASSUME NEW k \in Nat, k + 1 <= Len(v),
                      k <= Len(v) => \E f \in [0..k -> Nat] : Fits(f, k)
               PROVE  \E f \in [0..(k + 1) -> Nat] : Fits(f, k + 1)
    <3> DEFINE Has(k) == k <= Len(v) => \E f \in [0..k -> Nat] : Fits(f, k)
    <3>1. ASSUME NEW k \in S  PROVE k + 1 \in S
      <4>1. k \in Nat /\ Has(k)
        OBVIOUS
      <4>2. Has(k + 1)
        BY <4>1
      <4>3. k + 1 \in Nat
        BY <4>1
      <4> HIDE DEF Has
      <4>4. S = {m \in Nat : Has(m)}
        BY DEF Has
      <4> QED  BY <4>2, <4>3, <4>4
    <3> QED  BY <3>1
  <2>1. k \in Nat /\ k <= Len(v)
    BY <1>2
  <2>2. PICK f \in [0..k -> Nat] : Fits(f, k)
    BY <2>1
  <2> DEFINE g == [n \in 0..(k + 1) |-> IF n <= k THEN f[n] ELSE 10 * f[k] + v[k + 1]]
  <2>3. v[k + 1] \in Nat /\ f[k] \in Nat
    BY <1>2, <2>1
  <2>4. g \in [0..(k + 1) -> Nat]
    BY <2>1, <2>3
  <2>5. \A n \in 0..k : g[n] = f[n]
    BY <2>1
  <2>6. g[k + 1] = 10 * f[k] + v[k + 1]
    BY <2>1
  <2>7. Fits(g, k + 1)
    <3> SUFFICES ASSUME NEW n \in 0..(k + 1)
                 PROVE  g[n] = IF n = 0 THEN 0 ELSE 10 * g[n - 1] + v[n]
      OBVIOUS
    <3> HIDE DEF g
    <3>1. CASE n \in 0..k
      <4>1. f[n] = IF n = 0 THEN 0 ELSE 10 * f[n - 1] + v[n]
        BY <2>2, <3>1
      <4>2. n # 0 => n - 1 \in 0..k
        BY <3>1, <2>1
      <4> QED  BY <4>1, <4>2, <3>1, <2>5
    <3>2. CASE n = k + 1
      <4>1. n # 0 /\ n - 1 = k /\ k \in 0..k
        BY <3>2, <2>1
      <4> QED  BY <4>1, <3>2, <2>5, <2>6
    <3> QED  BY <3>1, <3>2, <2>1
  <2> HIDE DEF g
  <2> QED  BY <2>4, <2>7
<1>5. Len(v) \in S
  <2>1. S \in SUBSET Nat
    OBVIOUS
  <2> HIDE DEF S
  <2> QED  BY <2>1, <1>2, <1>3, <1>4, SetInduction
<1>6. PICK f \in [0..Len(v) -> Nat] : Fits(f, Len(v))
  BY <1>2, <1>5
<1>7. f = [n \in 0..Len(v) |-> IF n = 0 THEN 0 ELSE 10 * f[n - 1] + v[n]]
  BY <1>6
<1>8. upTo = [n \in 0..Len(v) |-> IF n = 0 THEN 0 ELSE 10 * upTo[n - 1] + v[n]]
  BY <1>7
<1> HIDE DEF upTo
<1>9. upTo \in [0..Len(v) -> Nat]
  <2> DEFINE T == {k \in Nat : k <= Len(v) => upTo[k] \in Nat}
  <2>1. 0 \in T
    BY <1>2, <1>8
  <2>2. \A k \in T : k + 1 \in T
    <3> SUFFICES ASSUME NEW k \in T, k + 1 <= Len(v)  PROVE upTo[k + 1] \in Nat
      OBVIOUS
    <3>1. k \in Nat /\ upTo[k] \in Nat /\ v[k + 1] \in Nat
      BY <1>2
    <3>2. upTo[k + 1] = 10 * upTo[k] + v[k + 1]
      <4>1. k + 1 \in 0..Len(v) /\ k + 1 # 0 /\ (k + 1) - 1 = k
        BY <1>2
      <4>2. \A n \in 0..Len(v) :
               upTo[n] = IF n = 0 THEN 0 ELSE 10 * upTo[n - 1] + v[n]
        BY <1>8
      <4> QED  BY <4>1, <4>2
    <3> QED  BY <3>1, <3>2
  <2>3. T = Nat
    <3>1. T \in SUBSET Nat
      OBVIOUS
    <3> HIDE DEF T
    <3> QED  BY <3>1, <2>1, <2>2, SetInduction
  <2>4. \A k \in 0..Len(v) : upTo[k] \in Nat
    BY <2>3, <1>2
  <2>5. upTo = [n \in 0..Len(v) |-> upTo[n]]
    BY <1>8
  <2> QED  BY <2>4, <2>5
<1>10. \A n \in 0..Len(v) : upTo[n] = IF n = 0 THEN 0 ELSE 10 * upTo[n - 1] + v[n]
  BY <1>8
<1>11. \A n \in 1..Len(v) : upTo[n] = 10 * upTo[n - 1] + v[n]
  BY <1>10, <1>2
<1>12. upTo[0] = 0
  BY <1>10, <1>2
<1> QED  BY <1>1, <1>9, <1>11, <1>12

LEMMA OneMore ==
    ASSUME NEW a \in Nat, NEW b \in Nat, NEW c \in 0..9, NEW d \in 0..9
    PROVE  /\ a + 1 <= b => 10 * a + c + 1 <= 10 * b + d
           /\ a = b /\ c < d => 10 * a + c + 1 <= 10 * b + d
  OBVIOUS

LEMMA BelowIsLess ==
    ASSUME NEW v \in Digits, NEW w \in Digits, Len(v) = Len(w), Below(v, w)
    PROVE  Number(v) < Number(w)
<1>1. PICK i \in 1..Len(w) : /\ SameUpTo(v, w, i - 1)
                             /\ i > Len(v) \/ v[i] < w[i]
  BY BelowUnfolds
<1>2. /\ Len(v) \in Nat
      /\ \A j \in 1..Len(v) : v[j] \in 0..9 /\ w[j] \in 0..9
  BY DigitsType
<1>3. PICK f \in [0..Len(v) -> Nat] :
         /\ f[0] = 0
         /\ \A n \in 1..Len(v) : f[n] = 10 * f[n - 1] + v[n]
         /\ Number(v) = f[Len(v)]
  BY NumberUnfolds
<1>4. PICK g \in [0..Len(v) -> Nat] :
         /\ g[0] = 0
         /\ \A n \in 1..Len(v) : g[n] = 10 * g[n - 1] + w[n]
         /\ Number(w) = g[Len(v)]
  BY NumberUnfolds
<1> DEFINE Ahead(n) == (n < i => f[n] = g[n]) /\ (n >= i => f[n] + 1 <= g[n])
<1> DEFINE S == {n \in Nat : n <= Len(v) => Ahead(n)}
<1>5. 0 \in S
  BY <1>3, <1>4
<1>6. \A n \in S : n + 1 \in S
  <2> SUFFICES ASSUME NEW n \in S, n + 1 <= Len(v)  PROVE Ahead(n + 1)
    OBVIOUS
  <2>1. n \in Nat /\ Ahead(n) /\ n + 1 \in 1..Len(v)
    BY <1>2
  <2>a. n \in 0..Len(v) /\ n + 1 \in 0..Len(v)
    BY <1>2, <2>1
  <2>b. f[n] \in Nat /\ g[n] \in Nat /\ f[n + 1] \in Nat /\ g[n + 1] \in Nat
    BY <2>a
  <2>c. v[n + 1] \in 0..9 /\ w[n + 1] \in 0..9
    BY <1>2, <2>1
  <2>2. /\ f[n] \in Nat /\ g[n] \in Nat /\ f[n + 1] \in Nat /\ g[n + 1] \in Nat
        /\ v[n + 1] \in 0..9 /\ w[n + 1] \in 0..9
    BY <2>b, <2>c
  <2>3. f[n + 1] = 10 * f[n] + v[n + 1] /\ g[n + 1] = 10 * g[n] + w[n + 1]
    <3>1. (n + 1) - 1 = n
      BY <2>1
    <3> QED  BY <3>1, <2>1, <1>3, <1>4
  <2>4. CASE n + 1 < i
    <3>1. v[n + 1] = w[n + 1]
      BY <1>1, <2>1, <2>4 DEF SameUpTo
    <3>2. f[n] = g[n]
      BY <2>1, <2>4
    <3> QED  BY <2>1, <2>3, <2>4, <3>1, <3>2
  <2>5. CASE n + 1 = i
    <3>1. v[n + 1] < w[n + 1]
      BY <1>1, <1>2, <2>5
    <3>2. f[n] = g[n]
      BY <2>1, <2>5
    <3>3. 10 * f[n] + v[n + 1] + 1 <= 10 * g[n] + w[n + 1]
      BY <2>2, <3>1, <3>2, OneMore
    <3> QED  BY <2>1, <2>2, <2>3, <2>5, <3>3
  <2>6. CASE n + 1 > i
    <3>1. f[n] + 1 <= g[n]
      BY <2>1, <2>6
    <3>2. 10 * f[n] + v[n + 1] + 1 <= 10 * g[n] + w[n + 1]
      BY <2>2, <3>1, OneMore
    <3> QED  BY <2>1, <2>2, <2>3, <2>6, <3>2
  <2> QED  BY <2>1, <2>4, <2>5, <2>6
<1>7. Len(v) \in S
  <2>1. S \in SUBSET Nat
    OBVIOUS
  <2> HIDE DEF S
  <2> QED  BY <2>1, <1>2, <1>5, <1>6, SetInduction
<1>8. f[Len(v)] + 1 <= g[Len(v)]
  BY <1>2, <1>7
<1>9. f[Len(v)] \in Nat /\ g[Len(v)] \in Nat
  BY <1>2
<1> QED  BY <1>3, <1>4, <1>8, <1>9

\* Of two versions of one width, the one that is below is the one that means
\* the lesser number.
THEOREM BelowComparesNumbers ==
    ASSUME NEW v \in Digits, NEW w \in Digits, Len(v) = Len(w)
    PROVE  Below(v, w) <=> Number(v) < Number(w)
<1>1. Number(v) \in Nat /\ Number(w) \in Nat
  BY NumberUnfolds, DigitsType
<1>2. Below(w, v) => Number(w) < Number(v)
  BY BelowIsLess
<1>3. Below(v, w) => Number(v) < Number(w)
  BY BelowIsLess
<1> QED  BY <1>1, <1>2, <1>3, BelowTotal

-----------------------------------------------------------------------------
(* The highest version of a group                                          *)

\* Of finitely many deliveries some have a version that none is above.
LEMMA SomeIsHighest ==
    ASSUME NEW ds, IsFiniteSet(ds), ds # {},
           \A d \in ds : Version(d) \in Digits
    PROVE  \E d \in ds : \A e \in ds : ~Below(Version(d), Version(e))
<1> DEFINE Outdoing(d) == {e \in ds : Below(Version(d), Version(e))}
<1> DEFINE T == {Outdoing(d) : d \in ds}
<1>1. T \subseteq FiniteSubsetsOf(ds) /\ T # {}
  <2>1. \A d \in ds : Outdoing(d) \in SUBSET ds
    OBVIOUS
  <2> HIDE DEF Outdoing
  <2>2. \A d \in ds : IsFiniteSet(Outdoing(d))
    BY <2>1, FS_Subset
  <2> QED  BY <2>1, <2>2 DEF FiniteSubsetsOf
<1>2. PICK U \in T : \A V \in T : ~ (<<V, U>> \in StrictSubsetOrdering(ds))
  <2> HIDE DEF T
  <2>1. IsWellFoundedOn(StrictSubsetOrdering(ds), FiniteSubsetsOf(ds))
    BY FS_StrictSubsetOrderingWellFounded
  <2> QED  BY <1>1, <2>1, WFMin
<1>3. PICK d \in ds : U = Outdoing(d)
  BY <1>2
<1>4. ASSUME NEW e \in ds, Below(Version(d), Version(e))  PROVE FALSE
  <2>1. Outdoing(e) \in SUBSET ds /\ Outdoing(d) \in SUBSET ds
    OBVIOUS
  <2>2. Outdoing(e) \subseteq Outdoing(d)
    BY <1>4, BelowTransitive
  <2>3. e \in Outdoing(d) /\ e \notin Outdoing(e)
    BY <1>4, BelowIrreflexive
  <2>4. Outdoing(e) \in T
    OBVIOUS
  <2> HIDE DEF Outdoing, T
  <2>5. <<Outdoing(e), Outdoing(d)>> \in StrictSubsetOrdering(ds)
    BY <2>1, <2>2, <2>3 DEF StrictSubsetOrdering
  <2> QED  BY <1>2, <1>3, <2>4, <2>5
<1> QED  BY <1>4

\* A delivery does not have the highest version of its group just if there
\* is a version above its own.
LEMMA NotHighest ==
    ASSUME NEW ds, IsFiniteSet(ds), NEW d \in ds,
           \A e \in ds : Version(e) \in Digits
    PROVE  Version(d) # Highest(ds) <=> \E e \in ds : Below(Version(d), Version(e))
<1> DEFINE versions == {Version(e) : e \in ds}
<1> DEFINE Top(v) == v \in versions /\ \A w \in versions : ~Below(v, w)
<1>1. \E v \in versions : Top(v)
  BY SomeIsHighest
<1>2. Highest(ds) = CHOOSE v \in versions : \A w \in versions : ~Below(v, w)
  BY DEF Highest
<1>3. Top(Highest(ds))
  BY <1>1, <1>2
<1>4. PICK e \in ds : Highest(ds) = Version(e)
  BY <1>3
<1>5. \A x \in ds : ~Below(Version(e), Version(x))
  BY <1>3, <1>4
<1>6. Version(d) = Version(e) \/ Below(Version(d), Version(e))
  BY <1>5, BelowTotal
<1> QED  BY <1>4, <1>5, <1>6

-----------------------------------------------------------------------------
(* Paths                                                                   *)

LEMMA PathIsSeq ==
    ASSUME NEW p \in Path
    PROVE  p \in Seq(STRING) /\ Len(p) \in 1..7 /\ p[1] \in Root
  BY PathAssumption

LEMMA Prefix ==
    ASSUME NEW p \in Seq(STRING), NEW n \in 1..Len(p)
    PROVE  /\ SubSeq(p, 1, n) \in Seq(STRING)
           /\ Len(SubSeq(p, 1, n)) = n
           /\ \A i \in 1..n : SubSeq(p, 1, n)[i] = p[i]
  BY SubSeqProperties, ElementOfSeq, LenProperties

LEMMA PrefixOfPrefix ==
    ASSUME NEW p \in Seq(STRING), NEW n \in 1..Len(p), NEW m \in 1..n
    PROVE  SubSeq(SubSeq(p, 1, n), 1, m) = SubSeq(p, 1, m)
<1> DEFINE q == SubSeq(p, 1, n)
<1>1. q \in Seq(STRING) /\ Len(q) = n /\ \A i \in 1..n : q[i] = p[i]
  BY Prefix
<1> HIDE DEF q
<1>2. m \in 1..Len(q) /\ m \in 1..Len(p)
  BY <1>1, LenProperties
<1>3. /\ SubSeq(q, 1, m) \in Seq(STRING) /\ Len(SubSeq(q, 1, m)) = m
      /\ \A i \in 1..m : SubSeq(q, 1, m)[i] = q[i]
  BY <1>1, <1>2, Prefix
<1>4. /\ SubSeq(p, 1, m) \in Seq(STRING) /\ Len(SubSeq(p, 1, m)) = m
      /\ \A i \in 1..m : SubSeq(p, 1, m)[i] = p[i]
  BY <1>2, Prefix
<1>5. \A i \in 1..m : SubSeq(q, 1, m)[i] = SubSeq(p, 1, m)[i]
  BY <1>1, <1>3, <1>4
<1>6. SubSeq(q, 1, m) = SubSeq(p, 1, m)
  BY <1>3, <1>4, <1>5, SeqEqual
<1> QED  BY <1>6 DEF q

LEMMA PrefixAppended ==
    ASSUME NEW p \in Seq(STRING), NEW n \in 1..Len(p), n < Len(p)
    PROVE  Append(SubSeq(p, 1, n), p[n + 1]) = SubSeq(p, 1, n + 1)
<1>1. n + 1 \in 1..Len(p) /\ p[n + 1] \in STRING
  BY LenProperties, ElementOfSeq
<1> DEFINE q == SubSeq(p, 1, n)
           r == SubSeq(p, 1, n + 1)
<1>2. q \in Seq(STRING) /\ Len(q) = n /\ \A i \in 1..n : q[i] = p[i]
  BY Prefix
<1>3. r \in Seq(STRING) /\ Len(r) = n + 1 /\ \A i \in 1..(n + 1) : r[i] = p[i]
  BY <1>1, Prefix
<1> HIDE DEF q, r
<1>4. /\ Append(q, p[n + 1]) \in Seq(STRING)
      /\ Len(Append(q, p[n + 1])) = n + 1
      /\ \A i \in 1..n : Append(q, p[n + 1])[i] = q[i]
      /\ Append(q, p[n + 1])[n + 1] = p[n + 1]
  BY <1>1, <1>2, AppendProperties
<1>5. \A i \in 1..(n + 1) : Append(q, p[n + 1])[i] = r[i]
  BY <1>1, <1>2, <1>3, <1>4
<1>6. Append(q, p[n + 1]) = r
  BY <1>3, <1>4, <1>5, SeqEqual
<1> QED  BY <1>6 DEF q, r

LEMMA Appended ==
    ASSUME NEW p \in Seq(STRING), NEW n \in STRING
    PROVE  /\ Append(p, n) \in Seq(STRING)
           /\ Len(Append(p, n)) = Len(p) + 1
           /\ \A i \in 1..Len(p) : Append(p, n)[i] = p[i]
           /\ Append(p, n)[Len(p) + 1] = n
<1>1. Append(p, n) \in Seq(STRING)
  BY AppendProperties
<1>2. Len(Append(p, n)) = Len(p) + 1
  BY AppendProperties
<1>3. \A i \in 1..Len(p) : Append(p, n)[i] = p[i]
  BY AppendProperties
<1>4. Append(p, n)[Len(p) + 1] = n
  BY AppendProperties
<1> QED  BY <1>1, <1>2, <1>3, <1>4

\* The directories above an entry are its directory and those above that.
LEMMA EntriesType ==
    ASSUME tree \subseteq Path, NEW d \in Seq(STRING), Len(d) > 0, NEW p \in Entries(d)
    PROVE  /\ p \in tree /\ p \in Path /\ p \in Seq(STRING)
           /\ Len(p) = Len(d) + 1
           /\ \A i \in 1..Len(d) : p[i] = d[i]
           /\ Last(p) = p[Len(d) + 1]
<1>1. /\ p \in tree /\ p \in Path /\ p \in Seq(STRING)
      /\ Len(p) = Len(d) + 1 /\ SubSeq(p, 1, Len(p) - 1) = d
  BY PathIsSeq DEF Entries, Front
<1>2. Len(d) \in 1..Len(p) /\ Len(p) - 1 = Len(d)
  BY <1>1, LenProperties
<1>3. \A i \in 1..Len(d) : SubSeq(p, 1, Len(d))[i] = p[i]
  BY <1>1, <1>2, Prefix
<1> QED  BY <1>1, <1>2, <1>3 DEF Last

TreeClosed == \A p \in tree : \A n \in 1..Len(p) : SubSeq(p, 1, n) \in tree

LEMMA NextOnPath ==
    ASSUME tree \subseteq Path, TreeClosed,
           NEW p \in tree, NEW n \in 1..Len(p), n < Len(p)
    PROVE  SubSeq(p, 1, n + 1) \in Entries(SubSeq(p, 1, n))
<1>1. p \in Seq(STRING) /\ Len(p) \in Nat /\ n + 1 \in 1..Len(p)
  BY PathIsSeq
<1> DEFINE q == SubSeq(p, 1, n + 1)
<1>2. q \in tree
  BY <1>1 DEF TreeClosed
<1>3. q \in Seq(STRING) /\ Len(q) = n + 1
  BY <1>1, Prefix
<1>4. n \in 1..(n + 1) /\ Len(q) - 1 = n
  BY <1>1, <1>3
<1>5. SubSeq(q, 1, n) = SubSeq(p, 1, n)
  BY <1>1, <1>4, PrefixOfPrefix
<1>6. Front(q) = SubSeq(p, 1, n)
  BY <1>4, <1>5 DEF Front
<1>7. Len(SubSeq(p, 1, n)) = n
  BY <1>1, Prefix
<1> QED  BY <1>2, <1>3, <1>6, <1>7 DEF Entries

-----------------------------------------------------------------------------
(* What a crawl has in hand.                                               *)

\* The walk lists d on its way to the terminal directories.
OnTheWay(d) == /\ Len(d) \in {1, 3, 4, 5} /\ d[1] \in Root
               /\ Len(d) > 1 => d[3] = Target[d[1]] /\ d[2] \notin Exclusions

\* The walk takes p for a candidate when it finds it.
Reached(p) == /\ Len(p) = 6 /\ p[1] \in Root /\ Terminal(p) \in ValidTerminals
              /\ p[3] = Target[p[1]] /\ p[2] \notin Exclusions

\* p is wanted as long as it is on the share.
Deliverable(p) == /\ Len(p) \in {6, 7} /\ p[1] \in Root
                  /\ p[3] = Target[p[1]] /\ p[2] \notin Exclusions
                  /\ IsDelivery(p)
                  /\ Len(p) = 7 => p[7] \in DOMAIN SubDirs[Lexicon(p)]

Mapped(p) == DirMap[Lexicon(p)][Terminal(p)]

\* What crawl c has in hand fits the pass it is in.
InHand(c) ==
    /\ phase[c] # "walk" => found[c] = {}
    /\ phase[c] \notin {"parse", "post"} => taken[c] = {}
    /\ phase[c] \notin {"walk", "parse"} => todo[c] = {}
    /\ phase[c] # "post" => tries[c] = 0
    /\ phase[c] = "walk" => \A d \in todo[c] : OnTheWay(d)
    /\ \A p \in found[c] : Reached(p)
    /\ phase[c] = "parse" =>
          \A p \in todo[c] : \/ p \in Path /\ Reached(p)
                             \/ Len(p) = 7 /\ Deliverable(p)
    /\ \A d \in taken[c] :
          /\ Deliverable(d.path) /\ d.lexicon = LexiconOf(d.path)
          /\ phase[c] = "parse" => d.status = Mapped(d.path)

CrawlInv == TypeOK /\ TreeClosed /\ \A c \in Crawl : InHand(c)

\* What listing d adds.
LEMMA ListingFinds ==
    ASSUME tree \subseteq Path, NEW d \in Seq(STRING), OnTheWay(d)
    PROVE  /\ \A e \in Descend(d) : e \in Seq(STRING) /\ OnTheWay(e)
           /\ \A p \in Candidates(d) : p \in tree /\ Reached(p)
<1>1. /\ Len(d) \in {1, 3, 4, 5} /\ d[1] \in Root
      /\ Len(d) > 1 => d[3] = Target[d[1]] /\ d[2] \notin Exclusions
  BY DEF OnTheWay
<1>2. \A p \in Entries(d) :
         /\ p \in tree /\ p \in Seq(STRING) /\ Len(p) = Len(d) + 1
         /\ \A i \in 1..Len(d) : p[i] = d[i]
         /\ Last(p) = p[Len(d) + 1]
  BY <1>1, EntriesType
<1>3. ASSUME NEW e \in Descend(d)  PROVE e \in Seq(STRING) /\ OnTheWay(e)
  <2>1. CASE Len(d) = 1
    <3>1. PICK p \in Entries(d) : /\ Last(p) \notin Exclusions
                                  /\ e = Append(p, Target[d[1]])
      BY <1>3, <2>1 DEF Descend
    <3>2. p \in Seq(STRING) /\ Len(p) = 2 /\ p[1] = d[1] /\ p[2] \notin Exclusions
      BY <1>2, <2>1, <3>1
    <3>3. Target[d[1]] \in STRING
      BY <1>1, NameAssumption
    <3>4. /\ e \in Seq(STRING) /\ Len(e) = 3
          /\ e[1] = p[1] /\ e[2] = p[2] /\ e[3] = Target[d[1]]
      <4> DEFINE n == Target[d[1]]
      <4> HIDE DEF n
      <4>1. /\ Append(p, n) \in Seq(STRING)
            /\ Len(Append(p, n)) = Len(p) + 1
            /\ \A i \in 1..Len(p) : Append(p, n)[i] = p[i]
            /\ Append(p, n)[Len(p) + 1] = n
        BY <3>2, <3>3, Appended DEF n
      <4>2. 1 \in 1..Len(p) /\ 2 \in 1..Len(p) /\ Len(p) + 1 = 3
        BY <3>2
      <4>3. e = Append(p, n) /\ n = Target[d[1]]
        BY <3>1 DEF n
      <4> QED  BY <4>1, <4>2, <4>3
    <3> QED  BY <1>1, <3>2, <3>4 DEF OnTheWay
  <2>2. CASE Len(d) \in {3, 4}
    <3>1. e \in Entries(d)
      BY <1>3, <2>2 DEF Descend
    <3>2. /\ e \in Seq(STRING) /\ Len(e) \in {4, 5}
          /\ e[1] = d[1] /\ e[2] = d[2] /\ e[3] = d[3]
      <4>1. PICK k \in {3, 4} : Len(d) = k
        BY <2>2
      <4>2. 1 \in 1..k /\ 2 \in 1..k /\ 3 \in 1..k /\ k + 1 \in {4, 5}
        OBVIOUS
      <4>3. e \in Seq(STRING) /\ Len(e) = k + 1 /\ \A i \in 1..k : e[i] = d[i]
        BY <1>2, <3>1, <4>1
      <4> QED  BY <4>2, <4>3
    <3> QED  BY <1>1, <2>2, <3>2 DEF OnTheWay
  <2>3. CASE Len(d) = 5
    BY <1>3, <2>3 DEF Descend
  <2> QED  BY <1>1, <2>1, <2>2, <2>3
<1>4. ASSUME NEW p \in Candidates(d)  PROVE p \in tree /\ Reached(p)
  <2>1. Len(d) = 5 /\ p \in Entries(d) /\ Terminal(p) \in ValidTerminals
    BY <1>4 DEF Candidates
  <2>2. /\ p \in tree /\ Len(p) = 6
        /\ p[1] = d[1] /\ p[2] = d[2] /\ p[3] = d[3]
    BY <1>2, <2>1
  <2> QED  BY <1>1, <2>1, <2>2 DEF Reached
<1> QED  BY <1>3, <1>4

\* What a terminal directory says, a sub-directory of it says too.
SaysTheSame(p, q) == p[1] = q[1] /\ p[5] = q[5] /\ p[6] = q[6]

LEMMA SameWords ==
    ASSUME NEW p, NEW q, SaysTheSame(p, q)
    PROVE  /\ Lexicon(p) = Lexicon(q) /\ Terminal(p) = Terminal(q) /\ Says(p) = Says(q)
           /\ Matches(p) = Matches(q) /\ IsDelivery(p) = IsDelivery(q)
           /\ Mapped(p) = Mapped(q)
  BY DEF SaysTheSame, Lexicon, Terminal, Says, VersionDir, Matches, IsDelivery, Mapped

\* The entry n of a terminal directory.
LEMMA SubPath ==
    ASSUME NEW p \in Seq(STRING), Len(p) = 6, NEW n \in STRING
    PROVE  /\ Append(p, n) \in Seq(STRING) /\ Len(Append(p, n)) = 7
           /\ \A i \in 1..6 : Append(p, n)[i] = p[i]
           /\ Append(p, n)[7] = n
           /\ SaysTheSame(Append(p, n), p)
<1>1. /\ Append(p, n) \in Seq(STRING) /\ Len(Append(p, n)) = 7
      /\ \A i \in 1..6 : Append(p, n)[i] = p[i]
      /\ Append(p, n)[7] = n
  <2>1. /\ Append(p, n) \in Seq(STRING) /\ Len(Append(p, n)) = Len(p) + 1
        /\ \A i \in 1..Len(p) : Append(p, n)[i] = p[i]
        /\ Append(p, n)[Len(p) + 1] = n
    BY Appended
  <2>2. Len(p) + 1 = 7
    OBVIOUS
  <2> QED  BY <2>1, <2>2
<1>2. 1 \in 1..6 /\ 5 \in 1..6 /\ 6 \in 1..6
  OBVIOUS
<1>3. Append(p, n)[1] = p[1] /\ Append(p, n)[5] = p[5] /\ Append(p, n)[6] = p[6]
  BY <1>1, <1>2
<1> QED  BY <1>1, <1>3 DEF SaysTheSame

LEMMA ParentOfSub ==
    ASSUME NEW p \in Seq(STRING), Len(p) = 7
    PROVE  /\ Parent(p) \in Seq(STRING) /\ Len(Parent(p)) = 6
           /\ \A i \in 1..6 : Parent(p)[i] = p[i]
           /\ SaysTheSame(Parent(p), p)
           /\ p = Append(Parent(p), p[7])
<1>1. /\ Parent(p) \in Seq(STRING) /\ Len(Parent(p)) = 6
      /\ \A i \in 1..6 : Parent(p)[i] = p[i]
  <2>1. 6 \in 1..Len(p)
    OBVIOUS
  <2>2. /\ SubSeq(p, 1, 6) \in Seq(STRING) /\ Len(SubSeq(p, 1, 6)) = 6
        /\ \A i \in 1..6 : SubSeq(p, 1, 6)[i] = p[i]
    BY <2>1, Prefix
  <2> QED  BY <2>2 DEF Parent
<1>2. Append(Parent(p), p[7]) = SubSeq(p, 1, 7)
  BY PrefixAppended DEF Parent
<1>3. SubSeq(p, 1, 7) = p
  BY SubSeqFull
<1> QED  BY <1>1, <1>2, <1>3 DEF SaysTheSame

\* A delivery's lexicon and status exist.
LEMMA DeliverableType ==
    ASSUME NEW p \in Path, Deliverable(p)
    PROVE  /\ Lexicon(p) \in LexiconId /\ Mapped(p) \in Status
           /\ LexiconOf(p) \in LexiconId
           /\ Says(p).version \in Digits
<1>1. Lexicon(p) \in LexiconId
  BY CrawlLexiconAssumption DEF Deliverable, Lexicon
<1>2. Matches(p)
  BY DEF Deliverable, IsDelivery
<1>3. Mapped(p) \in Status
  BY <1>1, <1>2, CrawlLexiconAssumption DEF Matches, Mapped
<1>4. LexiconOf(p) \in LexiconId
  BY <1>1, CrawlLexiconAssumption DEF Deliverable, LexiconOf
<1>5. Says(p).version \in Digits
  BY <1>2, NameAssumption DEF Matches, Says
<1> QED  BY <1>1, <1>3, <1>4, <1>5

-----------------------------------------------------------------------------
(* CrawlInv is inductive                                                   *)

LEMMA InitHolds == Init => CrawlInv
<1> SUFFICES ASSUME Init  PROVE CrawlInv
  OBVIOUS
<1>1. TypeOK
  <2>1. tree \in SUBSET Path
    BY PathAssumption DEF Init
  <2>2. /\ 0 \in 0..(MaxAttempts - 1)
        /\ 0 \in 0..MaxChanges /\ 0 \in 0..MaxFaults /\ 0 \in 0..MaxPatches
    BY CrawlBoundAssumption
  <2>3. /\ phase \in [Crawl -> {"idle", "walk", "parse", "post", "done"}]
        /\ todo \in [Crawl -> SUBSET Seq(STRING)]
        /\ found \in [Crawl -> SUBSET Path]
        /\ taken \in [Crawl -> SUBSET Delivered]
        /\ clean \in [Crawl -> BOOLEAN] /\ disturbed \in BOOLEAN
    BY DEF Init
  <2>4. /\ current \in [Crawl -> Delivered \cup {NoDelivery}]
        /\ tries \in [Crawl -> 0..(MaxAttempts - 1)]
        /\ \A c \in Crawl : tries[c] > 0 => current[c] \in taken[c]
    BY <2>2 DEF Init
  <2>5. /\ rows \in [Path -> [lexicon : LexiconId, status : Status] \cup {NoDelivery}]
        /\ manifests \subseteq Path /\ errors \subseteq Path
        /\ loaded \subseteq LexiconId /\ patched \subseteq Path
    BY CrawlLexiconAssumption DEF Init
  <2>6. changes \in 0..MaxChanges /\ faults \in 0..MaxFaults /\ patches \in 0..MaxPatches
    BY <2>2 DEF Init
  <2> QED  BY <2>1, <2>3, <2>4, <2>5, <2>6 DEF TypeOK
<1>2. TreeClosed
  BY PathAssumption DEF Init, TreeClosed
<1>3. \A c \in Crawl : InHand(c)
  BY DEF Init, InHand
<1> QED  BY <1>1, <1>2, <1>3 DEF CrawlInv

\* What one crawl has in hand is not another's affair.
LEMMA OthersKeep ==
    ASSUME NEW d \in Crawl, InHand(d),
           phase'[d] = phase[d], todo'[d] = todo[d], found'[d] = found[d],
           taken'[d] = taken[d], tries'[d] = tries[d]
    PROVE  InHand(d)'
  BY DEF InHand

LEMMA EmptyHand ==
    ASSUME NEW d \in Crawl, todo'[d] = {}, found'[d] = {}, taken'[d] = {}, tries'[d] = 0
    PROVE  InHand(d)'
  BY DEF InHand

\* A part of the share that is closed under prefixes stays so when paths
\* inside p are taken away, and when the paths above q come.
LEMMA ClosedBelow ==
    ASSUME NEW t, t \subseteq Path, NEW p \in Path,
           \A e \in t : \A n \in 1..Len(e) : SubSeq(e, 1, n) \in t,
           NEW e \in t \ Inside(p), NEW n \in 1..Len(e)
    PROVE  SubSeq(e, 1, n) \in t \ Inside(p)
<1>1. e \in Seq(STRING) /\ e \in Path /\ Len(e) \in Nat
  BY PathIsSeq
<1>2. SubSeq(e, 1, n) \in t /\ Len(SubSeq(e, 1, n)) = n
  BY <1>1, Prefix
<1>3. ASSUME p \in Above(SubSeq(e, 1, n))  PROVE FALSE
  <2>1. PICK m \in 1..n : p = SubSeq(SubSeq(e, 1, n), 1, m)
    BY <1>2, <1>3 DEF Above
  <2>2. p = SubSeq(e, 1, m) /\ m \in 1..Len(e)
    BY <1>1, <2>1, PrefixOfPrefix
  <2>3. p \in Above(e)
    BY <2>2 DEF Above
  <2> QED  BY <1>1, <2>3 DEF Inside
<1> QED  BY <1>2, <1>3 DEF Inside

LEMMA ClosedAbove ==
    ASSUME NEW q \in Path, NEW e \in Above(q)
    PROVE  /\ e \in Path
           /\ \A n \in 1..Len(e) : SubSeq(e, 1, n) \in Above(q)
<1>1. q \in Seq(STRING) /\ Len(q) \in Nat
  BY PathIsSeq
<1>2. PICK m \in 1..Len(q) : e = SubSeq(q, 1, m)
  BY DEF Above
<1>3. e \in Path
  BY <1>2, PathAssumption
<1>4. Len(e) = m
  BY <1>1, <1>2, Prefix
<1>5. \A n \in 1..Len(e) : SubSeq(e, 1, n) = SubSeq(q, 1, n) /\ n \in 1..Len(q)
  BY <1>1, <1>2, <1>4, PrefixOfPrefix
<1> QED  BY <1>3, <1>5 DEF Above

LEMMA ShareKeeps == CrawlInv /\ ShareStep => CrawlInv'
<1> SUFFICES ASSUME CrawlInv, ShareStep  PROVE CrawlInv'
  OBVIOUS
<1> USE DEF CrawlInv
<1>1. tree \subseteq Path /\ TreeClosed
  BY DEF TypeOK
<1>2. ASSUME NEW dirs, dirs \subseteq Path, Becomes(dirs),
             \A e \in dirs : \A n \in 1..Len(e) : SubSeq(e, 1, n) \in dirs
      PROVE  CrawlInv'
  <2>1. TypeOK'
    <3>1. changes' \in 0..MaxChanges
      <4>1. changes \in 0..MaxChanges /\ changes < MaxChanges /\ changes' = changes + 1
        BY <1>2 DEF TypeOK, ShareStep, Becomes
      <4> QED  BY <4>1, CrawlBoundAssumption
    <3>2. disturbed' \in BOOLEAN /\ clean' \in [Crawl -> BOOLEAN]
      BY <1>2 DEF Becomes, TypeOK
    <3> QED  BY <1>2, <3>1, <3>2 DEF TypeOK, Becomes, crawlVars, diskVars, tableVars
  <2>2. TreeClosed'
    BY <1>2 DEF TreeClosed, Becomes
  <2>3. \A c \in Crawl : InHand(c)'
    BY <1>2, OthersKeep DEF Becomes, crawlVars
  <2> QED  BY <2>1, <2>2, <2>3
<1>3. ASSUME NEW p \in Unsettled, Appears(p)  PROVE CrawlInv'
  <2>1. p \in Path
    BY PathAssumption
  <2>2. \A e \in tree \cup Above(p) : e \in Path
    BY <1>1, <2>1, ClosedAbove
  <2>3. \A e \in tree \cup Above(p) : \A n \in 1..Len(e) :
           SubSeq(e, 1, n) \in tree \cup Above(p)
    BY <1>1, <2>1, ClosedAbove DEF TreeClosed
  <2>4. Becomes(tree \cup Above(p))
    BY <1>3 DEF Appears
  <2> DEFINE dirs == tree \cup Above(p)
  <2>5. /\ dirs \subseteq Path /\ Becomes(dirs)
        /\ \A e \in dirs : \A n \in 1..Len(e) : SubSeq(e, 1, n) \in dirs
    BY <2>2, <2>3, <2>4
  <2> HIDE DEF dirs
  <2> QED  BY <1>2, <2>5
<1>4. ASSUME NEW p \in Unsettled, Vanishes(p)  PROVE CrawlInv'
  <2> DEFINE dirs == tree \ Inside(p)
  <2>1. p \in Path
    BY PathAssumption
  <2>2. dirs \subseteq Path /\ Becomes(dirs)
    BY <1>1, <1>4 DEF Vanishes
  <2>3. \A e \in dirs : \A n \in 1..Len(e) : SubSeq(e, 1, n) \in dirs
    BY <1>1, <2>1, ClosedBelow DEF TreeClosed
  <2> HIDE DEF dirs
  <2> QED  BY <1>2, <2>2, <2>3
<1>5. ASSUME NEW p \in Unsettled, NEW q \in Unsettled, Renamed(p, q)  PROVE CrawlInv'
  <2>1. p \in Path /\ q \in Path /\ p \in Seq(STRING) /\ q \in Seq(STRING)
    BY PathAssumption
  <2> DEFINE left == tree \ Inside(p)
             moved == {d \in Path : /\ q \in Above(d)
                                    /\ p \o SubSeq(d, 7, Len(d)) \in tree}
             dirs == left \cup Above(q) \cup moved
  <2>2. Becomes(dirs) /\ Len(q) = 6
    BY <1>5 DEF Renamed
  <2>3. dirs \subseteq Path
    BY <1>1, <2>1, ClosedAbove
  <2>4. \A e \in left : \A n \in 1..Len(e) : SubSeq(e, 1, n) \in left
    BY <1>1, <2>1, ClosedBelow DEF TreeClosed
  <2>5. \A e \in Above(q) : \A n \in 1..Len(e) : SubSeq(e, 1, n) \in Above(q)
    BY <2>1, ClosedAbove
  <2>6. ASSUME NEW e \in moved, NEW n \in 1..Len(e)
        PROVE  SubSeq(e, 1, n) \in Above(q) \cup moved
    <3>1. e \in Seq(STRING) /\ Len(e) \in 1..7 /\ q \in Above(e)
      BY PathIsSeq
    <3>2. PICK m \in 1..Len(e) : q = SubSeq(e, 1, m)
      BY <3>1 DEF Above
    <3>3. m = 6
      BY <2>2, <3>1, <3>2, Prefix
    <3>4. CASE n <= 6
      <4>1. SubSeq(q, 1, n) = SubSeq(e, 1, n) /\ n \in 1..Len(q)
        BY <2>2, <3>1, <3>2, <3>3, <3>4, PrefixOfPrefix
      <4> QED  BY <4>1 DEF Above
    <3>5. CASE n > 6
      <4>1. PICK k \in 1..7 : Len(e) = k
        BY <3>1
      <4>2. n \in 1..k
        BY <4>1
      <4>3. n = Len(e)
        BY <4>1, <4>2, <3>5
      <4>4. SubSeq(e, 1, Len(e)) = e
        BY <3>1, SubSeqFull
      <4> QED  BY <4>3, <4>4
    <3> QED  BY <3>1, <3>4, <3>5
  <2> HIDE DEF left, moved
  <2>7. \A e \in dirs : \A n \in 1..Len(e) : SubSeq(e, 1, n) \in dirs
    BY <2>4, <2>5, <2>6
  <2> HIDE DEF dirs
  <2> QED  BY <1>2, <2>2, <2>3, <2>7
<1> QED  BY <1>3, <1>4, <1>5 DEF ShareStep

LEMMA FaultsBounded ==
    ASSUME faults \in 0..MaxFaults, Fault
    PROVE  faults' \in 0..MaxFaults
  BY CrawlBoundAssumption DEF Fault

\* What is left when crawl c has given up or has been killed.
LEMMA AbandonKeeps ==
    ASSUME CrawlInv, NEW c \in Crawl, Abandon(c)
    PROVE  /\ phase' \in [Crawl -> {"idle", "walk", "parse", "post", "done"}]
           /\ todo' \in [Crawl -> SUBSET Seq(STRING)]
           /\ found' \in [Crawl -> SUBSET Path]
           /\ taken' \in [Crawl -> SUBSET Delivered]
           /\ current' \in [Crawl -> Delivered \cup {NoDelivery}]
           /\ tries' \in [Crawl -> 0..(MaxAttempts - 1)]
           /\ \A d \in Crawl : tries'[d] > 0 => current'[d] \in taken'[d]
           /\ \A d \in Crawl : InHand(d)'
<1> USE DEF CrawlInv
<1>1. /\ phase' \in [Crawl -> {"idle", "walk", "parse", "post", "done"}]
      /\ todo' \in [Crawl -> SUBSET Seq(STRING)]
      /\ found' \in [Crawl -> SUBSET Path]
      /\ taken' \in [Crawl -> SUBSET Delivered]
      /\ current' \in [Crawl -> Delivered \cup {NoDelivery}]
  BY DEF TypeOK, Abandon
<1>2. 0 \in 0..(MaxAttempts - 1)
  BY CrawlBoundAssumption
<1>3. tries' \in [Crawl -> 0..(MaxAttempts - 1)]
  BY <1>2 DEF TypeOK, Abandon
<1>4. \A d \in Crawl : tries'[d] > 0 => current'[d] \in taken'[d]
  <2> TAKE d \in Crawl
  <2>1. CASE d = c
    BY <2>1 DEF TypeOK, Abandon
  <2>2. CASE d # c
    BY <2>2 DEF TypeOK, Abandon
  <2> QED  BY <2>1, <2>2
<1>5. ASSUME NEW d \in Crawl  PROVE InHand(d)'
  <2>1. CASE d = c
    <3>1. todo'[d] = {} /\ found'[d] = {} /\ taken'[d] = {} /\ tries'[d] = 0
      BY <2>1 DEF TypeOK, Abandon
    <3> QED  BY <3>1, EmptyHand
  <2>2. CASE d # c
    <3>1. /\ phase'[d] = phase[d] /\ todo'[d] = todo[d] /\ found'[d] = found[d]
          /\ taken'[d] = taken[d] /\ tries'[d] = tries[d]
      BY <2>2 DEF TypeOK, Abandon
    <3> QED  BY <3>1, OthersKeep
  <2> QED  BY <2>1, <2>2
<1> QED  BY <1>1, <1>3, <1>4, <1>5

LEMMA DieKeeps ==
    ASSUME CrawlInv, NEW c \in Crawl, Die(c)
    PROVE  CrawlInv'
<1>1. faults' \in 0..MaxFaults
  BY FaultsBounded DEF CrawlInv, TypeOK, Die
<1>2. Abandon(c)
  BY DEF Die
<1>3. TypeOK'
  BY <1>1, <1>2, AbandonKeeps
     DEF CrawlInv, TypeOK, Die, shareVars, diskVars, tableVars, histVars
<1>4. TreeClosed'
  BY DEF CrawlInv, TreeClosed, Die, shareVars
<1> QED  BY <1>2, <1>3, <1>4, AbandonKeeps DEF CrawlInv

LEMMA BeginKeeps ==
    ASSUME CrawlInv, NEW c \in Crawl, Begin(c)
    PROVE  CrawlInv'
<1> USE DEF CrawlInv
<1>1. {d \in tree : Len(d) = 1} \in SUBSET Seq(STRING)
  BY PathIsSeq DEF TypeOK
<1>2. /\ clean' \in [Crawl -> BOOLEAN] /\ disturbed' \in BOOLEAN
  <2>1. (\A d \in Running : clean[d]) \in BOOLEAN
    OBVIOUS
  <2>2. clean' = [clean EXCEPT ![c] = \A d \in Running : clean[d]]
    BY DEF Begin
  <2>3. disturbed' \in BOOLEAN
    BY DEF Begin, TypeOK
  <2> QED  BY <2>1, <2>2, <2>3 DEF TypeOK
<1>3. TypeOK'
  BY <1>1, <1>2 DEF TypeOK, Begin, shareVars, diskVars, tableVars
<1>4. TreeClosed'
  BY DEF TreeClosed, Begin, shareVars
<1>5. ASSUME NEW d \in Crawl  PROVE InHand(d)'
  <2>1. CASE d = c
    <3>1. /\ phase'[c] = "walk" /\ todo'[c] = {e \in tree : Len(e) = 1}
          /\ found'[c] = {} /\ taken'[c] = {} /\ tries'[c] = 0
      BY SMTT(40) DEF TypeOK, Begin, InHand
    <3>2. \A e \in todo'[c] : OnTheWay(e)
      <4> TAKE e \in todo'[c]
      <4>1. Len(e) = 1 /\ e[1] \in Root
        BY <3>1, PathIsSeq DEF TypeOK
      <4> QED  BY <4>1 DEF OnTheWay
    <3> QED  BY <2>1, <3>1, <3>2 DEF InHand
  <2>2. CASE d # c
    <3>1. /\ phase'[d] = phase[d] /\ todo'[d] = todo[d] /\ found'[d] = found[d]
          /\ taken'[d] = taken[d] /\ tries'[d] = tries[d]
      BY <2>2 DEF TypeOK, Begin
    <3> QED  BY <3>1, OthersKeep
  <2> QED  BY <2>1, <2>2
<1> QED  BY <1>3, <1>4, <1>5

LEMMA ScanKeeps ==
    ASSUME CrawlInv, NEW c \in Crawl, Scan(c)
    PROVE  CrawlInv'
<1> USE DEF CrawlInv
<1>1. PICK d \in todo[c] :
         /\ todo' = [todo EXCEPT ![c] = (todo[c] \ {d}) \cup Descend(d)]
         /\ found' = [found EXCEPT ![c] = found[c] \cup Candidates(d)]
  BY DEF Scan, Deepest
<1>2. d \in Seq(STRING) /\ OnTheWay(d) /\ tree \subseteq Path /\ phase[c] = "walk"
  BY DEF TypeOK, InHand, Scan
<1>3. /\ \A e \in Descend(d) : e \in Seq(STRING) /\ OnTheWay(e)
      /\ \A p \in Candidates(d) : p \in tree /\ Reached(p)
  BY <1>2, ListingFinds
<1>4. TypeOK'
  <2>1. todo' \in [Crawl -> SUBSET Seq(STRING)] /\ found' \in [Crawl -> SUBSET Path]
    BY <1>1, <1>2, <1>3 DEF TypeOK
  <2> QED  BY <2>1 DEF TypeOK, Scan, shareVars, diskVars, tableVars, histVars
<1>5. TreeClosed'
  BY DEF TreeClosed, Scan, shareVars
<1>6. ASSUME NEW e \in Crawl  PROVE InHand(e)'
  <2>1. CASE e = c
    <3>1. /\ phase'[c] = "walk" /\ todo'[c] = (todo[c] \ {d}) \cup Descend(d)
          /\ found'[c] = found[c] \cup Candidates(d)
          /\ taken'[c] = taken[c] /\ tries'[c] = tries[c]
      BY <1>1, <1>2 DEF TypeOK, Scan
    <3> QED  BY <1>2, <1>3, <2>1, <3>1 DEF InHand
  <2>2. CASE e # c
    <3>1. /\ phase'[e] = phase[e] /\ todo'[e] = todo[e] /\ found'[e] = found[e]
          /\ taken'[e] = taken[e] /\ tries'[e] = tries[e]
      BY <2>2, <1>1 DEF TypeOK, Scan
    <3> QED  BY <3>1, OthersKeep
  <2> QED  BY <2>1, <2>2
<1> QED  BY <1>4, <1>5, <1>6

LEMMA ScanFailsKeeps ==
    ASSUME CrawlInv, NEW c \in Crawl, ScanFails(c)
    PROVE  CrawlInv'
<1> USE DEF CrawlInv
<1>1. PICK d \in todo[c] : todo' = [todo EXCEPT ![c] = todo[c] \ {d}]
  BY DEF ScanFails, Deepest
<1>2. faults' \in 0..MaxFaults
  BY FaultsBounded DEF TypeOK, ScanFails
<1>3. TypeOK'
  <2>1. todo' \in [Crawl -> SUBSET Seq(STRING)]
    BY <1>1 DEF TypeOK
  <2>2. clean' \in [Crawl -> BOOLEAN] /\ disturbed' \in BOOLEAN
    BY DEF ScanFails
  <2> QED  BY <1>2, <2>1, <2>2 DEF TypeOK, ScanFails, shareVars, diskVars, tableVars
<1>4. TreeClosed'
  BY DEF TreeClosed, ScanFails, shareVars
<1>5. ASSUME NEW e \in Crawl  PROVE InHand(e)'
  <2>1. /\ todo'[e] \subseteq todo[e]
        /\ phase'[e] = phase[e] /\ found'[e] = found[e]
        /\ taken'[e] = taken[e] /\ tries'[e] = tries[e]
    BY <1>1 DEF TypeOK, ScanFails
  <2> QED  BY <2>1 DEF InHand
<1> QED  BY <1>3, <1>4, <1>5

LEMMA WalkEndsKeeps ==
    ASSUME CrawlInv, NEW c \in Crawl, WalkEnds(c)
    PROVE  CrawlInv'
<1> USE DEF CrawlInv
<1>1. \A p \in found[c] : p \in Seq(STRING)
  BY PathIsSeq DEF TypeOK
<1>2. TypeOK'
  <2>1. todo' \in [Crawl -> SUBSET Seq(STRING)] /\ found' \in [Crawl -> SUBSET Path]
    BY <1>1 DEF TypeOK, WalkEnds
  <2> QED  BY <2>1 DEF TypeOK, WalkEnds, shareVars, diskVars, tableVars, histVars
<1>3. TreeClosed'
  BY DEF TreeClosed, WalkEnds, shareVars
<1>4. ASSUME NEW d \in Crawl  PROVE InHand(d)'
  <2>1. CASE d = c
    <3>1. /\ phase'[c] = "parse" /\ todo'[c] = found[c] /\ found'[c] = {}
          /\ taken'[c] = {} /\ tries'[c] = 0
          /\ \A p \in found[c] : p \in Path /\ Reached(p)
      BY SMTT(30) DEF TypeOK, WalkEnds, InHand
    <3>2. /\ \A p \in todo'[c] : p \in Path /\ Reached(p)
          /\ \A e \in taken'[c] : FALSE
          /\ \A p \in found'[c] : FALSE
      BY <3>1
    <3>3. InHand(c)'
      BY <3>1, <3>2 DEF InHand
    <3> QED  BY <2>1, <3>3
  <2>2. CASE d # c
    <3>1. /\ phase'[d] = phase[d] /\ todo'[d] = todo[d] /\ found'[d] = found[d]
          /\ taken'[d] = taken[d] /\ tries'[d] = tries[d]
      BY <2>2 DEF TypeOK, WalkEnds
    <3> QED  BY <3>1, OthersKeep
  <2> QED  BY <2>1, <2>2
<1> QED  BY <1>2, <1>3, <1>4

\* Looking at p without taking it.
LEMMA LeavingKeeps ==
    ASSUME CrawlInv, NEW c \in Crawl, NEW p,
           todo' = [todo EXCEPT ![c] = todo[c] \ {p}],
           errors' \subseteq Path,
           UNCHANGED <<shareVars, phase, found, taken, current, tries, manifests,
                       tableVars, histVars, faults>>
    PROVE  CrawlInv'
<1> USE DEF CrawlInv, shareVars, tableVars, histVars
<1>1. TypeOK'
  <2>1. todo' \in [Crawl -> SUBSET Seq(STRING)]
    BY DEF TypeOK
  <2> QED  BY <2>1 DEF TypeOK
<1>2. TreeClosed'
  BY DEF TreeClosed
<1>3. ASSUME NEW d \in Crawl  PROVE InHand(d)'
  <2>1. /\ todo'[d] \subseteq todo[d]
        /\ phase'[d] = phase[d] /\ found'[d] = found[d]
        /\ taken'[d] = taken[d] /\ tries'[d] = tries[d]
    BY DEF TypeOK
  <2> QED  BY <2>1 DEF InHand
<1> QED  BY <1>1, <1>2, <1>3

LEMMA RejectsKeeps ==
    ASSUME CrawlInv, NEW c \in Crawl, NEW p \in todo[c], Rejects(c, p) \/ NoSub(c, p)
    PROVE  CrawlInv'
<1>1. CASE Rejects(c, p)
  <2>1. p \in Path /\ errors \subseteq Path
    <3>1. phase[c] = "parse" /\ Len(p) = 6
      BY <1>1 DEF Rejects, LooksAt
    <3>2. p \in Path \/ Len(p) = 7
      BY <3>1 DEF CrawlInv, InHand
    <3> QED  BY <3>1, <3>2 DEF CrawlInv, TypeOK
  <2>2. /\ todo' = [todo EXCEPT ![c] = todo[c] \ {p}]
        /\ errors' \subseteq Path
        /\ UNCHANGED <<shareVars, phase, found, taken, current, tries, manifests,
                       tableVars, histVars, faults>>
    BY <1>1, <2>1 DEF Rejects
  <2> QED  BY <2>2, LeavingKeeps
<1>2. CASE NoSub(c, p)
  <2>1. /\ todo' = [todo EXCEPT ![c] = todo[c] \ {p}]
        /\ errors' \subseteq Path
        /\ UNCHANGED <<shareVars, phase, found, taken, current, tries, manifests,
                       tableVars, histVars, faults>>
    BY <1>2 DEF NoSub, CrawlInv, TypeOK, diskVars
  <2> QED  BY <2>1, LeavingKeeps
<1> QED  BY <1>1, <1>2

\* Taking p.
LEMMA TakingKeeps ==
    ASSUME CrawlInv, NEW c \in Crawl, phase[c] = "parse", NEW p \in tree,
           Deliverable(p), NEW subs, Take(c, p, LexiconOf(p), subs),
           \A q \in subs : q \in Seq(STRING) /\ Len(q) = 7 /\ Deliverable(q)
    PROVE  CrawlInv'
<1> USE DEF CrawlInv, shareVars, tableVars, histVars
<1> DEFINE r == [path |-> p, lexicon |-> LexiconOf(p), status |-> Mapped(p)]
<1>1. /\ taken' = [taken EXCEPT ![c] = taken[c] \cup {r}]
      /\ todo' = [todo EXCEPT ![c] = (todo[c] \ {p}) \cup subs]
      /\ manifests' = manifests \cup {p}
      /\ UNCHANGED <<shareVars, phase, found, current, tries, errors,
                     tableVars, histVars, faults>>
  BY DEF Take, Mapped
<1>2. p \in Path
  BY DEF TypeOK
<1>3. LexiconOf(p) \in LexiconId /\ Mapped(p) \in Status
  BY <1>2, DeliverableType
<1>4. r \in Delivered
  BY <1>2, <1>3 DEF Delivered
<1>5. r.path = p /\ r.lexicon = LexiconOf(p) /\ r.status = Mapped(p)
  OBVIOUS
<1> HIDE DEF r
<1>6. /\ todo' \in [Crawl -> SUBSET Seq(STRING)]
      /\ taken' \in [Crawl -> SUBSET Delivered]
      /\ manifests' \subseteq Path
  BY <1>1, <1>2, <1>4 DEF TypeOK
<1>7. \A d \in Crawl : taken[d] \subseteq taken'[d] /\ tries'[d] = tries[d]
                       /\ current'[d] = current[d]
  BY <1>1 DEF TypeOK
<1>8. TypeOK'
  BY <1>1, <1>6, <1>7 DEF TypeOK
<1>9. TreeClosed'
  BY <1>1 DEF TreeClosed
<1>10. ASSUME NEW d \in Crawl  PROVE InHand(d)'
  <2>1. CASE d = c
    <3>1. /\ phase'[c] = "parse" /\ todo'[c] = (todo[c] \ {p}) \cup subs
          /\ found'[c] = {} /\ tries'[c] = 0
          /\ taken'[c] = taken[c] \cup {r}
      BY ZenonT(60), <1>1 DEF TypeOK, InHand
    <3>2. \A q \in todo'[c] : \/ q \in Path /\ Reached(q)
                              \/ Len(q) = 7 /\ Deliverable(q)
      BY <3>1 DEF InHand
    <3>3. \A e \in taken'[c] : /\ Deliverable(e.path) /\ e.lexicon = LexiconOf(e.path)
                               /\ e.status = Mapped(e.path)
      BY <3>1, <1>5 DEF InHand
    <3>4. InHand(c)'
      BY <3>1, <3>2, <3>3 DEF InHand
    <3> QED  BY <2>1, <3>4
  <2>2. CASE d # c
    <3>1. /\ phase'[d] = phase[d] /\ todo'[d] = todo[d] /\ found'[d] = found[d]
          /\ taken'[d] = taken[d] /\ tries'[d] = tries[d]
      BY <2>2, <1>1 DEF TypeOK
    <3> QED  BY <3>1, OthersKeep
  <2> QED  BY <2>1, <2>2
<1> QED  BY <1>8, <1>9, <1>10

\* A candidate that is a delivery is wanted, and so are its sub-deliveries.
LEMMA ReachedDelivery ==
    ASSUME NEW p, Reached(p), IsDelivery(p)
    PROVE  Deliverable(p) /\ LexiconOf(p) = Lexicon(p)
  BY DEF Reached, Deliverable, LexiconOf

LEMMA SubsDeliverable ==
    ASSUME NEW p \in Path, Deliverable(p), Len(p) = 6,
           NEW n \in DOMAIN SubDirs[Lexicon(p)]
    PROVE  /\ Append(p, n) \in Seq(STRING) /\ Len(Append(p, n)) = 7
           /\ Deliverable(Append(p, n))
<1>1. Lexicon(p) \in LexiconId /\ p \in Seq(STRING)
  BY DeliverableType, PathIsSeq
<1>2. n \in STRING
  BY <1>1, CrawlLexiconAssumption
<1> DEFINE q == Append(p, n)
<1>3. /\ q \in Seq(STRING) /\ Len(q) = 7
      /\ \A i \in 1..6 : q[i] = p[i]
      /\ q[7] = n /\ SaysTheSame(q, p)
  BY <1>1, <1>2, SubPath
<1> HIDE DEF q
<1>4. Lexicon(q) = Lexicon(p) /\ IsDelivery(q) = IsDelivery(p)
  BY <1>3, SameWords
<1>5. q[1] = p[1] /\ q[2] = p[2] /\ q[3] = p[3]
  BY <1>3
<1>6. Deliverable(q)
  BY <1>3, <1>4, <1>5 DEF Deliverable
<1> QED  BY <1>3, <1>6 DEF q

LEMMA TakesKeeps ==
    ASSUME CrawlInv, NEW c \in Crawl, NEW p \in todo[c], Takes(c, p)
    PROVE  CrawlInv'
<1>1. /\ phase[c] = "parse" /\ Len(p) = 6 /\ IsDelivery(p) /\ p \in tree /\ p \in Path
  BY DEF Takes, LooksAt, CrawlInv, TypeOK
<1>2. Reached(p)
  BY <1>1 DEF CrawlInv, InHand
<1>3. Deliverable(p) /\ LexiconOf(p) = Lexicon(p)
  BY <1>1, <1>2, ReachedDelivery
<1> DEFINE subs == {Append(p, n) : n \in DOMAIN SubDirs[Lexicon(p)]}
<1>4. Take(c, p, LexiconOf(p), subs)
  BY <1>3 DEF Takes
<1>5. \A q \in subs : q \in Seq(STRING) /\ Len(q) = 7 /\ Deliverable(q)
  BY <1>1, <1>3, SubsDeliverable
<1> HIDE DEF subs
<1> QED  BY <1>1, <1>3, <1>4, <1>5, TakingKeeps

LEMMA TakesSubKeeps ==
    ASSUME CrawlInv, NEW c \in Crawl, NEW p \in todo[c], TakesSub(c, p)
    PROVE  CrawlInv'
<1>1. phase[c] = "parse" /\ Len(p) = 7 /\ p \in tree
  BY DEF TakesSub, LooksAt
<1>2. Deliverable(p)
  BY <1>1 DEF CrawlInv, InHand, Reached
<1>3. LexiconOf(p) = SubDirs[Lexicon(p)][p[7]]
  BY <1>1 DEF LexiconOf
<1>4. Take(c, p, LexiconOf(p), {})
  BY <1>3 DEF TakesSub
<1> QED  BY <1>1, <1>2, <1>4, TakingKeeps

LEMMA GivesUpKeeps ==
    ASSUME CrawlInv, NEW c \in Crawl, NEW d, TakeRaises(c, d) \/ PostRefused(c, d)
    PROVE  CrawlInv'
<1>1. /\ Abandon(c)
      /\ UNCHANGED <<shareVars, diskVars, tableVars, histVars, faults>>
  BY DEF TakeRaises, PostRefused
<1>2. TypeOK'
  BY <1>1, AbandonKeeps
     DEF CrawlInv, TypeOK, shareVars, diskVars, tableVars, histVars
<1>3. TreeClosed'
  BY <1>1 DEF CrawlInv, TreeClosed, shareVars
<1> QED  BY <1>1, <1>2, <1>3, AbandonKeeps DEF CrawlInv

\* derive changes statuses only.
LEMMA DerivedType ==
    ASSUME NEW ds, NEW d \in Delivered
    PROVE  /\ Derived(ds, d) \in Delivered
           /\ Derived(ds, d).path = d.path /\ Derived(ds, d).lexicon = d.lexicon
<1>1. "failed" \in Status
  BY HookAssumption
<1> QED  BY <1>1 DEF Derived, Delivered

LEMMA DeriveKeeps ==
    ASSUME CrawlInv, NEW c \in Crawl, Derive(c)
    PROVE  CrawlInv'
<1> USE DEF CrawlInv
<1> DEFINE ds == {Derived(taken[c], d) : d \in taken[c]}
<1>1. taken' = [taken EXCEPT ![c] = ds]
  BY DEF Derive
<1>2. ds \in SUBSET Delivered
  BY DerivedType DEF TypeOK
<1>3. ASSUME NEW e \in ds
      PROVE  \E d \in taken[c] : e.path = d.path /\ e.lexicon = d.lexicon
  <2>1. PICK d \in taken[c] : e = Derived(taken[c], d)
    OBVIOUS
  <2>2. d \in Delivered
    BY DEF TypeOK
  <2>3. e.path = d.path /\ e.lexicon = d.lexicon
    BY <2>1, <2>2, DerivedType
  <2> QED  BY <2>3
<1> HIDE DEF ds
<1>4. tries[c] = 0
  BY DEF Derive, InHand
<1>5. TypeOK'
  <2>1. taken' \in [Crawl -> SUBSET Delivered]
    BY <1>1, <1>2 DEF TypeOK
  <2>2. \A d \in Crawl : tries'[d] > 0 => current'[d] \in taken'[d]
    BY <1>1, <1>4 DEF TypeOK, Derive
  <2> QED  BY <2>1, <2>2 DEF TypeOK, Derive, shareVars, diskVars, tableVars, histVars
<1>6. TreeClosed'
  BY DEF TreeClosed, Derive, shareVars
<1>7. ASSUME NEW d \in Crawl  PROVE InHand(d)'
  <2>1. CASE d = c
    <3>1. /\ phase'[c] = "post" /\ todo'[c] = {} /\ found'[c] = {}
          /\ taken'[c] = ds /\ tries'[c] = 0
      BY ZenonT(60), <1>1 DEF TypeOK, Derive, InHand
    <3>2. \A e \in ds : Deliverable(e.path) /\ e.lexicon = LexiconOf(e.path)
      BY <1>3 DEF InHand
    <3>3. InHand(c)'
      BY <3>1, <3>2 DEF InHand
    <3> QED  BY <2>1, <3>3
  <2>2. CASE d # c
    <3>1. /\ phase'[d] = phase[d] /\ todo'[d] = todo[d] /\ found'[d] = found[d]
          /\ taken'[d] = taken[d] /\ tries'[d] = tries[d]
      BY <2>2, <1>1 DEF TypeOK, Derive
    <3> QED  BY <3>1, OthersKeep
  <2> QED  BY <2>1, <2>2
<1> QED  BY <1>5, <1>6, <1>7

LEMMA TableKeeps ==
    ASSUME rows \in [Path -> [lexicon : LexiconId, status : Status] \cup {NoDelivery}],
           patched \subseteq Path, NEW d \in Delivered,
           UNCHANGED <<rows, patched>> \/ Upsert(d)
    PROVE  /\ rows' \in [Path -> [lexicon : LexiconId, status : Status] \cup {NoDelivery}]
           /\ patched' \subseteq Path
<1>1. [lexicon |-> d.lexicon, status |-> d.status] \in [lexicon : LexiconId, status : Status]
  BY DEF Delivered
<1> QED  BY <1>1 DEF Upsert

LEMMA PostAnsweredKeeps ==
    ASSUME CrawlInv, NEW c \in Crawl, NEW d \in taken[c], PostAnswered(c, d)
    PROVE  CrawlInv'
<1> USE DEF CrawlInv
<1>1. d \in Delivered
  BY DEF TypeOK
<1>2. TypeOK'
  <2>1. /\ rows' \in [Path -> [lexicon : LexiconId, status : Status] \cup {NoDelivery}]
        /\ patched' \subseteq Path
    BY <1>1, TableKeeps DEF TypeOK, PostAnswered
  <2>2. 0 \in 0..(MaxAttempts - 1)
    BY CrawlBoundAssumption
  <2>3. /\ taken' \in [Crawl -> SUBSET Delivered]
        /\ current' \in [Crawl -> Delivered \cup {NoDelivery}]
        /\ tries' \in [Crawl -> 0..(MaxAttempts - 1)]
    BY <2>2 DEF TypeOK, PostAnswered
  <2>4. \A e \in Crawl : tries'[e] > 0 => current'[e] \in taken'[e]
    <3> TAKE e \in Crawl
    <3>1. CASE e = c
      BY <3>1 DEF TypeOK, PostAnswered
    <3>2. CASE e # c
      BY <3>2 DEF TypeOK, PostAnswered
    <3> QED  BY <3>1, <3>2
  <2> QED  BY <2>1, <2>3, <2>4 DEF TypeOK, PostAnswered, shareVars, diskVars, histVars
<1>3. TreeClosed'
  BY DEF TreeClosed, PostAnswered, shareVars
<1>4. ASSUME NEW e \in Crawl  PROVE InHand(e)'
  <2>1. CASE e = c
    <3>1. /\ phase'[c] = "post" /\ todo'[c] = {} /\ found'[c] = {} /\ tries'[c] = 0
          /\ taken'[c] \subseteq taken[c]
      BY SMTT(40) DEF TypeOK, PostAnswered, Posts, InHand
    <3>2. \A r \in taken'[c] : Deliverable(r.path) /\ r.lexicon = LexiconOf(r.path)
      BY <3>1 DEF InHand
    <3>3. InHand(c)'
      BY <3>1, <3>2 DEF InHand
    <3> QED  BY <2>1, <3>3
  <2>2. CASE e # c
    <3>1. /\ phase'[e] = phase[e] /\ todo'[e] = todo[e] /\ found'[e] = found[e]
          /\ taken'[e] = taken[e] /\ tries'[e] = tries[e]
      BY <2>2 DEF TypeOK, PostAnswered
    <3> QED  BY <3>1, OthersKeep
  <2> QED  BY <2>1, <2>2
<1> QED  BY <1>2, <1>3, <1>4

LEMMA PostFailsKeeps ==
    ASSUME CrawlInv, NEW c \in Crawl, NEW d \in taken[c], PostFails(c, d)
    PROVE  CrawlInv'
<1> USE DEF CrawlInv
<1>1. d \in Delivered
  BY DEF TypeOK
<1>2. /\ rows' \in [Path -> [lexicon : LexiconId, status : Status] \cup {NoDelivery}]
      /\ patched' \subseteq Path
  BY <1>1, TableKeeps DEF TypeOK, PostFails
<1>3. faults' \in 0..MaxFaults
  BY FaultsBounded DEF TypeOK, PostFails
<1>4. TreeClosed'
  BY DEF TreeClosed, PostFails, shareVars
<1>5. CASE tries[c] + 1 < MaxAttempts
  <2>1. /\ tries' = [tries EXCEPT ![c] = tries[c] + 1]
        /\ current' = [current EXCEPT ![c] = d]
        /\ UNCHANGED <<phase, todo, found, taken>>
    BY <1>5 DEF PostFails
  <2>2. tries[c] + 1 \in 0..(MaxAttempts - 1)
    <3>1. tries[c] \in 0..(MaxAttempts - 1)
      BY DEF TypeOK
    <3> QED  BY <1>5, <3>1, CrawlBoundAssumption
  <2>3. /\ current' \in [Crawl -> Delivered \cup {NoDelivery}]
        /\ tries' \in [Crawl -> 0..(MaxAttempts - 1)]
    BY <1>1, <2>1, <2>2 DEF TypeOK
  <2>4. \A e \in Crawl : tries'[e] > 0 => current'[e] \in taken'[e]
    <3> TAKE e \in Crawl
    <3>1. CASE e = c
      BY <2>1, <3>1 DEF TypeOK
    <3>2. CASE e # c
      BY <2>1, <3>2 DEF TypeOK
    <3> QED  BY <3>1, <3>2
  <2>5. TypeOK'
    BY <1>2, <1>3, <2>1, <2>3, <2>4
       DEF TypeOK, PostFails, shareVars, diskVars, histVars
  <2>6. ASSUME NEW e \in Crawl  PROVE InHand(e)'
    <3>1. CASE e = c
      <4>1. phase[c] = "post"
        BY DEF PostFails, Posts
      <4> QED  BY <2>1, <3>1, <4>1 DEF InHand
    <3>2. CASE e # c
      <4>1. /\ phase'[e] = phase[e] /\ todo'[e] = todo[e] /\ found'[e] = found[e]
            /\ taken'[e] = taken[e] /\ tries'[e] = tries[e]
        BY <2>1, <3>2 DEF TypeOK
      <4> QED  BY <4>1, OthersKeep
    <3> QED  BY <3>1, <3>2
  <2> QED  BY <1>4, <2>5, <2>6
<1>6. CASE ~(tries[c] + 1 < MaxAttempts)
  <2>1. Abandon(c)
    BY <1>6 DEF PostFails
  <2>2. TypeOK'
    BY <1>2, <1>3, <2>1, AbandonKeeps
       DEF TypeOK, PostFails, shareVars, diskVars, histVars
  <2> QED  BY <1>4, <2>1, <2>2, AbandonKeeps
<1> QED  BY <1>5, <1>6

LEMMA CrawlEndsKeeps ==
    ASSUME CrawlInv, NEW c \in Crawl, CrawlEnds(c)
    PROVE  CrawlInv'
<1> USE DEF CrawlInv
<1>1. tries[c] = 0
  <2>1. tries[c] \in 0..(MaxAttempts - 1) /\ ~(tries[c] > 0)
    BY DEF TypeOK, CrawlEnds
  <2> QED  BY <2>1, CrawlBoundAssumption
<1>2. TypeOK'
  BY DEF TypeOK, CrawlEnds, shareVars, diskVars, tableVars, histVars
<1>3. TreeClosed'
  BY DEF TreeClosed, CrawlEnds, shareVars
<1>4. ASSUME NEW d \in Crawl  PROVE InHand(d)'
  <2>1. CASE d = c
    <3>1. todo'[d] = {} /\ found'[d] = {} /\ taken'[d] = {} /\ tries'[d] = 0
      BY <1>1, <2>1 DEF TypeOK, CrawlEnds, InHand
    <3> QED  BY <3>1, EmptyHand
  <2>2. CASE d # c
    <3>1. /\ phase'[d] = phase[d] /\ todo'[d] = todo[d] /\ found'[d] = found[d]
          /\ taken'[d] = taken[d] /\ tries'[d] = tries[d]
      BY <2>2 DEF TypeOK, CrawlEnds
    <3> QED  BY <3>1, OthersKeep
  <2> QED  BY <2>1, <2>2
<1> QED  BY <1>2, <1>3, <1>4

LEMMA RestartKeeps == CrawlInv /\ RegistryRestart => CrawlInv'
<1> SUFFICES ASSUME CrawlInv, RegistryRestart  PROVE CrawlInv'
  OBVIOUS
<1>1. faults' \in 0..MaxFaults /\ loaded' \subseteq LexiconId
  BY FaultsBounded, CrawlLexiconAssumption DEF CrawlInv, TypeOK, RegistryRestart
<1>2. TypeOK' /\ TreeClosed' /\ \A c \in Crawl : InHand(c)'
  BY <1>1 DEF CrawlInv, TypeOK, TreeClosed, InHand, RegistryRestart,
              shareVars, crawlVars, diskVars, histVars
<1> QED  BY <1>2 DEF CrawlInv

LEMMA PatchKeeps ==
    ASSUME CrawlInv, NEW p \in Path, NEW s \in Status, Patch(p, s)
    PROVE  CrawlInv'
<1> USE DEF CrawlInv
<1>1. patches' \in 0..MaxPatches
  <2>1. patches \in 0..MaxPatches /\ patches < MaxPatches /\ patches' = patches + 1
    BY DEF TypeOK, Patch
  <2> QED  BY <2>1, CrawlBoundAssumption
<1>2. rows' \in [Path -> [lexicon : LexiconId, status : Status] \cup {NoDelivery}]
  <2>1. rows[p] \in [lexicon : LexiconId, status : Status]
    BY DEF TypeOK, Patch, Known
  <2>2. [rows[p] EXCEPT !.status = s] \in [lexicon : LexiconId, status : Status]
    BY <2>1
  <2>3. rows' = [rows EXCEPT ![p] = [rows[p] EXCEPT !.status = s]]
    BY DEF Patch
  <2> QED  BY <2>2, <2>3 DEF TypeOK
<1>3. TypeOK'
  BY <1>1, <1>2 DEF TypeOK, Patch, shareVars, crawlVars, diskVars, histVars
<1>4. TreeClosed' /\ \A c \in Crawl : InHand(c)'
  BY DEF TreeClosed, InHand, Patch, shareVars, crawlVars
<1> QED  BY <1>3, <1>4

LEMMA StutterKeeps == CrawlInv /\ UNCHANGED vars => CrawlInv'
  BY DEF CrawlInv, TypeOK, TreeClosed, InHand, vars, shareVars, crawlVars, diskVars,
         tableVars, histVars

LEMMA CrawlInvStep == CrawlInv /\ [Next]_vars => CrawlInv'
<1> SUFFICES ASSUME CrawlInv, [Next]_vars  PROVE CrawlInv'
  OBVIOUS
<1>1. ASSUME NEW c \in Crawl, CrawlStep(c)  PROVE CrawlInv'
  BY <1>1, ScanKeeps, WalkEndsKeeps, RejectsKeeps, TakesKeeps, GivesUpKeeps,
     TakesSubKeeps, DeriveKeeps, PostAnsweredKeeps, CrawlEndsKeeps
     DEF CrawlStep, ParseStep, PostStep
<1>2. ASSUME NEW c \in Crawl, NEW d \in taken[c], PostFails(c, d)  PROVE CrawlInv'
  BY <1>2, PostFailsKeeps
<1> QED  BY <1>1, <1>2, ShareKeeps, RestartKeeps, PatchKeeps, StutterKeeps, BeginKeeps,
            ScanFailsKeeps, DieKeeps DEF Next

LEMMA CrawlInvHolds == Spec => []CrawlInv
  BY InitHolds, CrawlInvStep, PTL DEF Spec

\* Crawls, the tables and the share keep their types; a POST that is
\* attempted again is one of a delivery that is still to be posted.
THEOREM TypeOKHolds == Spec => []TypeOK
<1>1. CrawlInv => TypeOK
  BY DEF CrawlInv
<1> QED  BY <1>1, CrawlInvHolds, PTL

-----------------------------------------------------------------------------
(* Clean crawls.  View(c) follows the deliveries on the share through the  *)
(* passes of crawl c.                                                      *)

PathsOf(ds) == {d.path : d \in ds}

\* All crawls under way are clean when any crawl is.
CleanTogether == (\E c \in Crawl : clean[c]) => \A d \in Running : clean[d]

\* A terminal directory has been found, or is below a directory to be listed.
Found(c) ==
    /\ found[c] \subseteq tree
    /\ \A p \in tree : Reached(p) =>
          p \in found[c] \/ \E n \in {1, 3, 4, 5} : SubSeq(p, 1, n) \in todo[c]

\* A delivery has been taken, or it or its parent is to be looked at.
LookedAt(c) ==
    /\ \A p \in todo[c] : Len(p) = 6 => p \in tree
    /\ PathsOf(taken[c]) \subseteq tree \cap manifests
    /\ \A p \in tree : Wanted(p) =>
          p \in todo[c] \/ Parent(p) \in todo[c] \/ p \in PathsOf(taken[c])
    /\ \A p \in tree : Reached(p) /\ IsParseError(p) => p \in todo[c] \/ p \in errors

\* The row of p is right, but for a status that a reviewer has written.
Settled(p) ==
    \E s \in Status : /\ rows[p] = [lexicon |-> LexiconOf(p), status |-> s]
                      /\ p \notin patched /\ SameWidth(Rivals(p)) => s = RightStatus(p)

\* e has the status that the share calls for, where versions compare as numbers.
RightFor(e) == SameWidth(Rivals(e.path)) => e.status = RightStatus(e.path)

\* A delivery is right in the registry, or is to be posted with the right status.
Posted(c) ==
    /\ PathsOf(taken[c]) \subseteq tree
    /\ \A d \in taken[c] : RightFor(d)
    /\ \A p \in tree : Wanted(p) => p \in manifests
    /\ \A p \in tree : Wanted(p) => p \in PathsOf(taken[c]) \/ Settled(p)
    /\ \A p \in tree : Reached(p) /\ IsParseError(p) => p \in errors

View(c) == clean[c] =>
    /\ phase[c] = "walk" => Found(c)
    /\ phase[c] = "parse" => LookedAt(c)
    /\ phase[c] \in {"post", "done"} => Posted(c)

ViewInv == CrawlInv /\ CleanTogether /\ \A c \in Crawl : View(c)

LEMMA WantedIsDeliverable ==
    ASSUME tree \subseteq Path, NEW p
    PROVE  Wanted(p) <=> p \in tree /\ Deliverable(p)
  BY PathIsSeq DEF Wanted, Deliverable

\* A wanted delivery is a candidate, and so is the parent of a wanted
\* sub-delivery.
LEMMA WantedIsReached ==
    ASSUME tree \subseteq Path, TreeClosed, NEW p \in tree, Wanted(p)
    PROVE  /\ Len(p) = 6 => Reached(p)
           /\ Len(p) = 7 => Parent(p) \in tree /\ Reached(Parent(p))
<1>1. /\ p \in Seq(STRING) /\ p[1] \in Root /\ Len(p) \in {6, 7}
      /\ p[3] = Target[p[1]] /\ p[2] \notin Exclusions /\ Matches(p)
  BY PathIsSeq DEF Wanted, IsDelivery
<1>2. Terminal(p) \in ValidTerminals
  BY <1>1 DEF Matches, Lexicon, ValidTerminals
<1>3. ASSUME Len(p) = 6  PROVE Reached(p)
  BY <1>1, <1>2, <1>3 DEF Reached
<1>4. ASSUME Len(p) = 7  PROVE Parent(p) \in tree /\ Reached(Parent(p))
  <2>1. /\ Len(Parent(p)) = 6 /\ SaysTheSame(Parent(p), p)
        /\ \A i \in 1..6 : Parent(p)[i] = p[i]
    BY <1>1, <1>4, ParentOfSub
  <2>2. Terminal(Parent(p)) = Terminal(p)
    BY <2>1, SameWords
  <2>3. Parent(p)[1] = p[1] /\ Parent(p)[2] = p[2] /\ Parent(p)[3] = p[3]
    BY <2>1
  <2>4. Parent(p) \in tree
    BY SMTT(30), <1>4 DEF TreeClosed, Parent
  <2> QED  BY <1>1, <1>2, <2>1, <2>2, <2>3, <2>4 DEF Reached
<1> QED  BY <1>3, <1>4

LEMMA ViewInit == Init => ViewInv
  BY InitHolds DEF ViewInv, CleanTogether, View, Init

LEMMA ShareSays ==
    ASSUME tree' = tree
    PROVE  /\ \A p : Wanted(p)' = Wanted(p) /\ Rivals(p)' = Rivals(p)
           /\ \A p : RightStatus(p)' = RightStatus(p)
           /\ \A e : RightFor(e)' = RightFor(e)
<1>1. \A p : Wanted(p)' = Wanted(p) /\ Rivals(p)' = Rivals(p)
  BY DEF Wanted, Rivals
<1>2. \A p : RightStatus(p)' = RightStatus(p)
  BY <1>1 DEF RightStatus
<1> QED  BY <1>1, <1>2 DEF RightFor

LEMMA UpsertSettles ==
    ASSUME tree' = tree, rows = [p \in Path |-> rows[p]],
           NEW e \in Delivered, Upsert(e), e.lexicon = LexiconOf(e.path), RightFor(e)
    PROVE  Settled(e.path)'
<1>1. rows'[e.path] = [lexicon |-> LexiconOf(e.path), status |-> e.status] /\ e.status \in Status
  BY DEF Upsert, Delivered
<1>2. SameWidth(Rivals(e.path)') => e.status = RightStatus(e.path)'
  BY ShareSays DEF RightFor
<1> QED  BY <1>1, <1>2 DEF Settled

LEMMA PatchSettles ==
    ASSUME tree' = tree, rows = [p \in Path |-> rows[p]],
           NEW q \in Path, NEW s \in Status, Patch(q, s), NEW p \in Path, Settled(p)
    PROVE  Settled(p)'
<1>1. \A x : Rivals(x)' = Rivals(x) /\ RightStatus(x)' = RightStatus(x)
  BY ShareSays
<1>2. CASE p = q
  <2>1. PICK t \in Status : rows[p] = [lexicon |-> LexiconOf(p), status |-> t]
    BY DEF Settled
  <2>2. rows'[p] = [rows[p] EXCEPT !.status = s] /\ p \in patched'
    BY <1>2 DEF Patch
  <2>3. rows'[p] = [lexicon |-> LexiconOf(p), status |-> s]
    BY <2>1, <2>2
  <2> QED  BY <2>2, <2>3 DEF Settled
<1>3. CASE p # q
  <2>1. rows'[p] = rows[p] /\ (p \in patched' <=> p \in patched)
    BY <1>3 DEF Patch
  <2> QED  BY <1>1, <2>1 DEF Settled
<1> QED  BY <1>2, <1>3

LEMMA SettledKept ==
    ASSUME tree' = tree, rows = [p \in Path |-> rows[p]],
           \/ UNCHANGED <<rows, patched>>
           \/ \E q \in Path, s \in Status : Patch(q, s)
           \/ \E e \in Delivered : Upsert(e) /\ e.lexicon = LexiconOf(e.path) /\ RightFor(e),
           NEW p \in Path, Settled(p)
    PROVE  Settled(p)'
<1>1. \A x : Rivals(x)' = Rivals(x) /\ RightStatus(x)' = RightStatus(x)
  BY ShareSays
<1>2. CASE UNCHANGED <<rows, patched>>
  BY <1>1, <1>2 DEF Settled
<1>3. ASSUME NEW e \in Delivered, Upsert(e), e.lexicon = LexiconOf(e.path), RightFor(e)
      PROVE  Settled(p)'
  <2>1. CASE p = e.path
    BY <1>3, <2>1, UpsertSettles
  <2>2. CASE p # e.path
    <3>1. rows'[p] = rows[p] /\ (p \in patched' <=> p \in patched)
      BY <1>3, <2>2 DEF Upsert
    <3> QED  BY <1>1, <3>1 DEF Settled
  <2> QED  BY <2>1, <2>2
<1> QED  BY <1>2, <1>3, PatchSettles

\* A step that takes nothing from what crawl d has in hand and unsettles
\* neither the share nor the rows leaves d's view.
LEMMA ViewKept ==
    ASSUME NEW d, View(d), tree' = tree,
           clean'[d] = clean[d], phase'[d] = phase[d], todo'[d] = todo[d],
           found'[d] = found[d], taken'[d] = taken[d],
           manifests \subseteq manifests', errors \subseteq errors',
           \/ UNCHANGED <<rows, patched>>
           \/ \E q \in Path, s \in Status : Patch(q, s)
           \/ \E e \in Delivered : /\ Upsert(e) /\ e.lexicon = LexiconOf(e.path)
                                   /\ clean[d] => RightFor(e),
           tree \subseteq Path, rows = [p \in Path |-> rows[p]]
    PROVE  View(d)'
<1>1. /\ \A p : Wanted(p)' = Wanted(p)
      /\ \A e : RightFor(e)' = RightFor(e)
  BY ShareSays
<1>2. ASSUME Found(d)  PROVE Found(d)'
  BY <1>2 DEF Found
<1>3. ASSUME LookedAt(d)  PROVE LookedAt(d)'
  BY <1>1, <1>3 DEF LookedAt
<1>4. ASSUME Posted(d), clean[d]  PROVE Posted(d)'
  <2>1. \/ UNCHANGED <<rows, patched>>
        \/ \E q \in Path, s \in Status : Patch(q, s)
        \/ \E e \in Delivered : Upsert(e) /\ e.lexicon = LexiconOf(e.path) /\ RightFor(e)
    BY <1>4
  <2>2. \A p \in tree : Settled(p) => Settled(p)'
    BY <2>1, SettledKept
  <2>3. \A p \in tree' : Wanted(p)' => p \in PathsOf(taken'[d]) \/ Settled(p)'
    BY <1>1, <1>4, <2>2 DEF Posted
  <2>4. /\ PathsOf(taken'[d]) \subseteq tree'
        /\ \A e \in taken'[d] : RightFor(e)'
        /\ \A p \in tree' : Wanted(p)' => p \in manifests'
        /\ \A p \in tree' : Reached(p) /\ IsParseError(p) => p \in errors'
    BY <1>1, <1>4 DEF Posted
  <2> QED  BY <2>3, <2>4 DEF Posted
<1> QED  BY <1>2, <1>3, <1>4 DEF View

\* What a row is written with: when any crawl is clean, the right status.
WritesRight ==
    \/ UNCHANGED <<rows, patched>>
    \/ \E e \in Delivered : /\ Upsert(e) /\ e.lexicon = LexiconOf(e.path)
                            /\ (\E d \in Crawl : clean[d]) => RightFor(e)

\* The step of a crawl c that starts nothing, seen by all crawls.
LEMMA StepOfCrawl ==
    ASSUME ViewInv, CrawlInv', NEW c \in Crawl,
           tree' = tree, clean' = clean,
           \A d \in Crawl \ {c} : /\ phase'[d] = phase[d] /\ todo'[d] = todo[d]
                                  /\ found'[d] = found[d] /\ taken'[d] = taken[d],
           manifests \subseteq manifests', errors \subseteq errors', WritesRight,
           phase'[c] \in {"walk", "parse", "post"} => c \in Running,
           View(c)'
    PROVE  ViewInv'
<1>1. CleanTogether'
  <2>1. \A d \in Crawl : d \in Running' => d \in Running
    BY DEF Running
  <2>2. Running' \subseteq Crawl
    BY DEF Running
  <2> QED  BY <2>1, <2>2 DEF ViewInv, CleanTogether
<1>2. ASSUME NEW d \in Crawl, d # c  PROVE View(d)'
  <2>1. /\ View(d) /\ tree' = tree /\ clean'[d] = clean[d]
        /\ phase'[d] = phase[d] /\ todo'[d] = todo[d]
        /\ found'[d] = found[d] /\ taken'[d] = taken[d]
    BY <1>2 DEF ViewInv
  <2>2. \/ UNCHANGED <<rows, patched>>
        \/ \E q \in Path, s \in Status : Patch(q, s)
        \/ \E e \in Delivered : /\ Upsert(e) /\ e.lexicon = LexiconOf(e.path)
                                /\ clean[d] => RightFor(e)
    BY DEF WritesRight
  <2>3. tree \subseteq Path /\ rows = [p \in Path |-> rows[p]]
    BY DEF ViewInv, CrawlInv, TypeOK
  <2> QED  BY <2>1, <2>2, <2>3, ViewKept
<1> QED  BY <1>1, <1>2 DEF ViewInv

\* What a crawl writes is right as far as its view goes.
LEMMA PostsRight ==
    ASSUME ViewInv, NEW c \in Crawl, NEW d \in taken[c], phase[c] = "post",
           UNCHANGED <<rows, patched>> \/ Upsert(d)
    PROVE  WritesRight
<1>1. d \in Delivered /\ d.lexicon = LexiconOf(d.path)
  BY DEF ViewInv, CrawlInv, TypeOK, InHand
<1>2. ASSUME NEW e \in Crawl, clean[e]  PROVE RightFor(d)
  <2>1. c \in Running
    BY DEF Running
  <2>2. clean[c]
    BY <1>2, <2>1 DEF ViewInv, CleanTogether
  <2>3. Posted(c)
    BY <2>2 DEF ViewInv, View
  <2> QED  BY <1>2, <2>3 DEF Posted
<1> QED  BY <1>1, <1>2 DEF WritesRight

LEMMA AbandonsView ==
    ASSUME ViewInv, CrawlInv', NEW c \in Crawl, Abandon(c), WritesRight,
           UNCHANGED <<shareVars, diskVars, histVars>>
    PROVE  ViewInv'
<1> USE DEF shareVars, diskVars, histVars
<1>1. \A d \in Crawl \ {c} : /\ phase'[d] = phase[d] /\ todo'[d] = todo[d]
                             /\ found'[d] = found[d] /\ taken'[d] = taken[d]
  BY DEF ViewInv, CrawlInv, TypeOK, Abandon
<1>2. phase'[c] = "idle"
  BY DEF ViewInv, CrawlInv, TypeOK, Abandon
<1>3. View(c)'
  BY <1>2 DEF View
<1>4. phase'[c] \in {"walk", "parse", "post"} => c \in Running
  BY <1>2
<1> QED  BY <1>1, <1>3, <1>4, StepOfCrawl

LEMMA UncleanView ==
    ASSUME CrawlInv', clean' = [c \in Crawl |-> FALSE]
    PROVE  ViewInv'
  BY DEF ViewInv, CleanTogether, View

LEMMA BeginView ==
    ASSUME ViewInv, CrawlInv', NEW c \in Crawl, Begin(c)
    PROVE  ViewInv'
<1> USE DEF shareVars, diskVars, tableVars
<1>1. /\ phase' = [phase EXCEPT ![c] = "walk"]
      /\ todo' = [todo EXCEPT ![c] = {d \in tree : Len(d) = 1}]
      /\ clean' = [clean EXCEPT ![c] = \A d \in Running : clean[d]]
      /\ phase[c] \in {"idle", "done"}
      /\ UNCHANGED <<tree, found, taken, manifests, errors, rows, patched>>
  BY DEF Begin
<1>2. /\ tree \subseteq Path /\ rows = [p \in Path |-> rows[p]]
      /\ clean \in [Crawl -> BOOLEAN]
      /\ phase \in [Crawl -> {"idle", "walk", "parse", "post", "done"}]
      /\ todo \in [Crawl -> SUBSET Seq(STRING)]
  BY DEF ViewInv, CrawlInv, TypeOK
<1>3. c \notin Running /\ Running' = Running \cup {c} /\ Running \subseteq Crawl
  BY <1>1, <1>2 DEF Running
<1>4. CleanTogether'
  <2> SUFFICES ASSUME NEW e \in Crawl, clean'[e], NEW d \in Running'  PROVE clean'[d]
    BY DEF CleanTogether
  <2>1. \A x \in Running : clean[x]
    <3>1. CASE e = c
      BY <1>1, <1>2, <3>1
    <3>2. CASE e # c
      <4>1. clean[e]
        BY <1>1, <1>2, <3>2
      <4> QED  BY <4>1 DEF ViewInv, CleanTogether
    <3> QED  BY <3>1, <3>2
  <2>2. CASE d = c
    BY <1>1, <1>2, <2>1, <2>2
  <2>3. CASE d # c
    BY <1>1, <1>2, <1>3, <2>1, <2>3
  <2> QED  BY <2>2, <2>3
<1>5. ASSUME NEW d \in Crawl, d # c  PROVE View(d)'
  <2>1. /\ View(d) /\ tree' = tree /\ clean'[d] = clean[d]
        /\ phase'[d] = phase[d] /\ todo'[d] = todo[d]
        /\ found'[d] = found[d] /\ taken'[d] = taken[d]
        /\ manifests \subseteq manifests' /\ errors \subseteq errors' /\ UNCHANGED <<rows, patched>>
    BY <1>1, <1>2, <1>5 DEF ViewInv
  <2> QED  BY <1>2, <2>1, ViewKept
<1>6. View(c)'
  <2>1. phase'[c] = "walk" /\ found'[c] = {} /\ todo'[c] = {d \in tree : Len(d) = 1}
    BY <1>1, <1>2 DEF ViewInv, CrawlInv, InHand
  <2>2. ASSUME NEW p \in tree  PROVE SubSeq(p, 1, 1) \in todo'[c]
    <3>1. p \in Seq(STRING) /\ 1 \in 1..Len(p)
      BY <1>2, PathIsSeq
    <3>2. SubSeq(p, 1, 1) \in tree /\ Len(SubSeq(p, 1, 1)) = 1
      BY <3>1, Prefix DEF ViewInv, CrawlInv, TreeClosed
    <3> QED  BY <2>1, <3>2
  <2>3. Found(c)'
    BY <1>1, <2>1, <2>2 DEF Found
  <2> QED  BY <2>1, <2>3 DEF View
<1> QED  BY <1>4, <1>5, <1>6 DEF ViewInv

\* Listing a directory above a terminal directory leads on to it.
LEMMA ListingLeadsOn ==
    ASSUME tree \subseteq Path, TreeClosed, NEW p \in tree, Reached(p),
           NEW n \in {1, 3, 4, 5}
    PROVE  \/ p \in Candidates(SubSeq(p, 1, n))
           \/ \E m \in {1, 3, 4, 5} : SubSeq(p, 1, m) \in Descend(SubSeq(p, 1, n))
<1> DEFINE d == SubSeq(p, 1, n)
<1>1. p \in Seq(STRING) /\ Len(p) = 6
  BY PathIsSeq DEF Reached
<1>2. n \in 1..Len(p) /\ n < Len(p)
  BY <1>1
<1>3. Len(d) = n /\ \A i \in 1..n : d[i] = p[i]
  BY <1>1, <1>2, Prefix
<1>4. SubSeq(p, 1, n + 1) \in Entries(d)
  BY <1>2, NextOnPath
<1> HIDE DEF d
<1>5. CASE n = 1
  <2> DEFINE e == SubSeq(p, 1, 2)
  <2>1. 2 \in 1..Len(p)
    BY <1>1
  <2>2. Len(e) = 2 /\ \A i \in 1..2 : e[i] = p[i]
    BY <1>1, <2>1, Prefix
  <2>3. e \in Entries(d)
    BY <1>4, <1>5
  <2> HIDE DEF e
  <2>4. Append(e, p[3]) = SubSeq(p, 1, 3)
    <3>1. Append(SubSeq(p, 1, 2), p[2 + 1]) = SubSeq(p, 1, 2 + 1)
      BY <1>1, <2>1, PrefixAppended
    <3>2. 2 + 1 = 3
      OBVIOUS
    <3> QED  BY <3>1, <3>2 DEF e
  <2>5. Last(e) = p[2] /\ p[2] \notin Exclusions
    BY <2>2 DEF Last, Reached
  <2>6. d[1] = p[1] /\ p[3] = Target[p[1]]
    BY <1>3, <1>5 DEF Reached
  <2>7. SubSeq(p, 1, 3) = Append(e, Target[d[1]])
    <3>1. p[3] = Target[d[1]]
      BY <2>6
    <3> QED  BY <2>4, <3>1
  <2>8. Descend(d) = {Append(x, Target[d[1]]) :
                        x \in {y \in Entries(d) : Last(y) \notin Exclusions}}
    BY <1>3, <1>5 DEF Descend
  <2>9. SubSeq(p, 1, 3) \in Descend(d)
    BY <2>3, <2>5, <2>7, <2>8
  <2> QED  BY <2>9 DEF d
<1>6. CASE n = 3
  <2>1. SubSeq(p, 1, 4) \in Descend(d)
    BY <1>3, <1>4, <1>6 DEF Descend
  <2> QED  BY <2>1 DEF d
<1>7. CASE n = 4
  <2>1. SubSeq(p, 1, 5) \in Descend(d)
    BY <1>3, <1>4, <1>7 DEF Descend
  <2> QED  BY <2>1 DEF d
<1>8. CASE n = 5
  <2>1. SubSeq(p, 1, 6) = p
    BY <1>1, SubSeqFull
  <2>2. p \in Entries(d)
    <3>1. n + 1 = 6
      BY <1>8
    <3> QED  BY <1>4, <2>1, <3>1
  <2>3. p \in Candidates(d)
    BY <1>3, <1>8, <2>2 DEF Candidates, Reached
  <2> QED  BY <2>3 DEF d
<1> QED  BY <1>5, <1>6, <1>7, <1>8

LEMMA ScanView ==
    ASSUME ViewInv, CrawlInv', NEW c \in Crawl, Scan(c)
    PROVE  ViewInv'
<1> USE DEF shareVars, diskVars, tableVars, histVars
<1>1. PICK d \in todo[c] :
         /\ todo' = [todo EXCEPT ![c] = (todo[c] \ {d}) \cup Descend(d)]
         /\ found' = [found EXCEPT ![c] = found[c] \cup Candidates(d)]
  BY DEF Scan, Deepest
<1>2. /\ phase[c] = "walk"
      /\ UNCHANGED <<tree, phase, taken, manifests, errors, rows, patched, clean>>
  BY DEF Scan
<1>3. /\ tree \subseteq Path /\ TreeClosed
      /\ todo \in [Crawl -> SUBSET Seq(STRING)] /\ found \in [Crawl -> SUBSET Path]
      /\ d \in Seq(STRING) /\ OnTheWay(d)
  BY <1>2 DEF ViewInv, CrawlInv, TypeOK, InHand
<1>4. /\ todo'[c] = (todo[c] \ {d}) \cup Descend(d)
      /\ found'[c] = found[c] \cup Candidates(d)
      /\ \A e \in Crawl \ {c} : todo'[e] = todo[e] /\ found'[e] = found[e]
  BY <1>1, <1>3
<1>5. ASSUME Found(c)  PROVE Found(c)'
  <2>1. found'[c] \subseteq tree
    BY <1>3, <1>4, <1>5, ListingFinds DEF Found
  <2>2. ASSUME NEW p \in tree, Reached(p)
        PROVE  p \in found'[c] \/ \E n \in {1, 3, 4, 5} : SubSeq(p, 1, n) \in todo'[c]
    <3>1. CASE p \in found[c]
      BY <1>4, <3>1
    <3>2. ASSUME NEW n \in {1, 3, 4, 5}, SubSeq(p, 1, n) \in todo[c], SubSeq(p, 1, n) # d
          PROVE  \E m \in {1, 3, 4, 5} : SubSeq(p, 1, m) \in todo'[c]
      BY <1>4, <3>2
    <3>3. ASSUME NEW n \in {1, 3, 4, 5}, SubSeq(p, 1, n) = d
          PROVE  \/ p \in found'[c]
                 \/ \E m \in {1, 3, 4, 5} : SubSeq(p, 1, m) \in todo'[c]
      <4>1. \/ p \in Candidates(SubSeq(p, 1, n))
            \/ \E m \in {1, 3, 4, 5} : SubSeq(p, 1, m) \in Descend(SubSeq(p, 1, n))
        BY <1>3, <2>2, ListingLeadsOn
      <4> QED  BY <1>4, <3>3, <4>1
    <3> QED  BY <1>5, <2>2, <3>1, <3>2, <3>3 DEF Found
  <2> QED  BY <1>2, <2>1, <2>2 DEF Found
<1>6. View(c)'
  BY <1>2, <1>5 DEF ViewInv, View
<1>7. c \in Running /\ WritesRight
  BY <1>2 DEF Running, WritesRight
<1> QED  BY <1>2, <1>4, <1>6, <1>7, StepOfCrawl

LEMMA WalkEndsView ==
    ASSUME ViewInv, CrawlInv', NEW c \in Crawl, WalkEnds(c)
    PROVE  ViewInv'
<1> USE DEF shareVars, diskVars, tableVars, histVars
<1>1. /\ phase[c] = "walk" /\ todo[c] = {}
      /\ UNCHANGED <<tree, taken, manifests, errors, rows, patched, clean>>
  BY DEF WalkEnds
<1>2. /\ tree \subseteq Path /\ TreeClosed /\ taken[c] = {}
  BY <1>1 DEF ViewInv, CrawlInv, TypeOK, InHand
<1>3. /\ phase'[c] = "parse" /\ todo'[c] = found[c]
      /\ \A e \in Crawl \ {c} : /\ phase'[e] = phase[e] /\ todo'[e] = todo[e]
                                /\ found'[e] = found[e]
  BY DEF WalkEnds, ViewInv, CrawlInv, TypeOK
<1>4. ASSUME Found(c)  PROVE LookedAt(c)'
  <2>1. found[c] \subseteq tree /\ \A p \in tree : Reached(p) => p \in found[c]
    BY <1>1, <1>4 DEF Found
  <2>2. \A p \in tree : Wanted(p) => p \in found[c] \/ Parent(p) \in found[c]
    <3> SUFFICES ASSUME NEW p \in tree, Wanted(p)
                 PROVE  p \in found[c] \/ Parent(p) \in found[c]
      OBVIOUS
    <3>1. Len(p) = 6 \/ Len(p) = 7
      BY DEF Wanted
    <3> QED  BY <1>2, <2>1, <3>1, WantedIsReached
  <2>3. PathsOf(taken'[c]) = {}
    BY <1>1, <1>2 DEF PathsOf
  <2>4. \A p : Wanted(p)' = Wanted(p)
    BY <1>1 DEF Wanted
  <2> QED  BY <1>1, <1>3, <2>1, <2>2, <2>3, <2>4 DEF LookedAt
<1>5. View(c)'
  BY <1>1, <1>3, <1>4 DEF ViewInv, View
<1>6. c \in Running /\ WritesRight
  BY <1>1 DEF Running, WritesRight
<1> QED  BY <1>1, <1>3, <1>5, <1>6, StepOfCrawl

\* Crawl c has looked at p, and `subs` come next.
LEMMA LookedAtStep ==
    ASSUME tree \subseteq Path, NEW c, LookedAt(c), NEW p, NEW subs, tree' = tree,
           todo'[c] = (todo[c] \ {p}) \cup subs,
           \A q \in subs : Len(q) = 7,
           PathsOf(taken[c]) \subseteq PathsOf(taken'[c]),
           PathsOf(taken'[c]) \subseteq tree \cap manifests',
           errors \subseteq errors',
           Wanted(p) => p \in PathsOf(taken'[c]),
           \A q \in tree : Wanted(q) /\ Len(q) = 7 /\ Parent(q) = p => q \in subs,
           Reached(p) /\ IsParseError(p) => p \in errors'
    PROVE  LookedAt(c)'
<1>1. \A q : Wanted(q)' = Wanted(q)
  BY DEF Wanted
<1>2. ASSUME NEW q \in tree, Wanted(q)
      PROVE  q \in todo'[c] \/ Parent(q) \in todo'[c] \/ q \in PathsOf(taken'[c])
  <2>1. q \in todo[c] \/ Parent(q) \in todo[c] \/ q \in PathsOf(taken[c])
    BY <1>2 DEF LookedAt
  <2>2. CASE q \in todo[c] /\ q # p
    BY <2>2
  <2>3. CASE q = p
    BY <1>2, <2>3
  <2>4. CASE Parent(q) \in todo[c] /\ Parent(q) # p
    BY <2>4
  <2>5. CASE Parent(q) = p
    <3>1. CASE Len(q) = 6
      <4>1. Parent(q) = q
        BY <3>1, PathIsSeq, SubSeqFull DEF Parent
      <4> QED  BY <2>3, <2>5, <4>1
    <3>2. CASE Len(q) = 7
      BY <1>2, <2>5, <3>2
    <3> QED  BY <1>2, <3>1, <3>2 DEF Wanted
  <2> QED  BY <2>1, <2>2, <2>3, <2>4, <2>5
<1>3. \A q \in tree : Reached(q) /\ IsParseError(q) => q \in todo'[c] \/ q \in errors'
  BY DEF LookedAt
<1>4. \A q \in todo'[c] : Len(q) = 6 => q \in tree
  BY DEF LookedAt
<1>5. \A q \in tree' : Wanted(q)' =>
         q \in todo'[c] \/ Parent(q) \in todo'[c] \/ q \in PathsOf(taken'[c])
  BY <1>1, <1>2
<1> QED  BY <1>3, <1>4, <1>5 DEF LookedAt

\* The step of a crawl that looks at directories, seen by all crawls.
LEMMA StepOfParse ==
    ASSUME ViewInv, CrawlInv', NEW c \in Crawl, phase[c] = "parse",
           UNCHANGED <<tree, phase, found, rows, patched, clean>>,
           NEW todos, todo' = [todo EXCEPT ![c] = todos],
           NEW ds, taken' = [taken EXCEPT ![c] = ds],
           manifests \subseteq manifests', errors \subseteq errors',
           LookedAt(c) => LookedAt(c)'
    PROVE  ViewInv'
<1>1. todo \in [Crawl -> SUBSET Seq(STRING)] /\ taken \in [Crawl -> SUBSET Delivered]
  BY DEF ViewInv, CrawlInv, TypeOK
<1>2. \A d \in Crawl \ {c} : /\ phase'[d] = phase[d] /\ todo'[d] = todo[d]
                             /\ found'[d] = found[d] /\ taken'[d] = taken[d]
  BY <1>1
<1>3. View(c)'
  BY DEF ViewInv, View
<1>4. c \in Running /\ WritesRight
  BY DEF Running, WritesRight
<1>5. tree' = tree /\ clean' = clean
  OBVIOUS
<1> QED  BY <1>2, <1>3, <1>4, <1>5, StepOfCrawl

LEMMA RejectsView ==
    ASSUME ViewInv, CrawlInv', NEW c \in Crawl, NEW p \in todo[c], Rejects(c, p)
    PROVE  ViewInv'
<1> USE DEF shareVars, diskVars, tableVars, histVars
<1>1. /\ phase[c] = "parse" /\ Len(p) = 6 /\ ~IsDelivery(p)
      /\ errors' = IF IsParseError(p) THEN errors \cup {p} ELSE errors
      /\ todo' = [todo EXCEPT ![c] = todo[c] \ {p}]
      /\ UNCHANGED <<tree, phase, found, taken, manifests, rows, patched, clean>>
  BY DEF Rejects, LooksAt
<1>2. /\ todo \in [Crawl -> SUBSET Seq(STRING)] /\ taken \in [Crawl -> SUBSET Delivered]
      /\ tree \subseteq Path
  BY DEF ViewInv, CrawlInv, TypeOK
<1>3. taken' = [taken EXCEPT ![c] = taken[c]]
  BY <1>1, <1>2
<1>4. ASSUME LookedAt(c)  PROVE LookedAt(c)'
  <2>1. ~Wanted(p)
    BY <1>1 DEF Wanted
  <2>2. ASSUME NEW q \in tree, Wanted(q), Len(q) = 7, Parent(q) = p  PROVE FALSE
    <3>1. q \in Seq(STRING)
      BY <1>2, PathIsSeq
    <3>2. SaysTheSame(Parent(q), q)
      BY <2>2, <3>1, ParentOfSub
    <3>3. IsDelivery(p) = IsDelivery(q)
      BY <2>2, <3>2, SameWords
    <3> QED  BY <1>1, <2>2, <3>3 DEF Wanted
  <2> DEFINE none == {}
  <2>3. todo'[c] = (todo[c] \ {p}) \cup none /\ taken'[c] = taken[c] /\ tree' = tree
    BY <1>1, <1>2
  <2>4. PathsOf(taken'[c]) \subseteq tree \cap manifests'
    BY <1>1, <1>4, <2>3 DEF LookedAt
  <2>5. errors \subseteq errors' /\ (IsParseError(p) => p \in errors')
    BY <1>1
  <2>6. /\ \A q \in none : Len(q) = 7
        /\ PathsOf(taken[c]) \subseteq PathsOf(taken'[c])
        /\ Wanted(p) => p \in PathsOf(taken'[c])
        /\ \A q \in tree : Wanted(q) /\ Len(q) = 7 /\ Parent(q) = p => q \in none
        /\ Reached(p) /\ IsParseError(p) => p \in errors'
    BY <2>1, <2>2, <2>3, <2>5
  <2> HIDE DEF none
  <2> QED  BY <1>2, <1>4, <2>3, <2>4, <2>5, <2>6, LookedAtStep
<1>5. errors \subseteq errors' /\ manifests \subseteq manifests'
  BY <1>1
<1> QED  BY <1>1, <1>3, <1>4, <1>5, StepOfParse

LEMMA NoSubView ==
    ASSUME ViewInv, CrawlInv', NEW c \in Crawl, NEW p \in todo[c], NoSub(c, p)
    PROVE  ViewInv'
<1> USE DEF shareVars, diskVars, tableVars, histVars
<1>1. /\ phase[c] = "parse" /\ Len(p) = 7 /\ p \notin tree
      /\ todo' = [todo EXCEPT ![c] = todo[c] \ {p}]
      /\ UNCHANGED <<tree, phase, found, taken, manifests, errors, rows, patched, clean>>
  BY DEF NoSub, LooksAt
<1>2. /\ todo \in [Crawl -> SUBSET Seq(STRING)] /\ taken \in [Crawl -> SUBSET Delivered]
      /\ tree \subseteq Path
  BY DEF ViewInv, CrawlInv, TypeOK
<1>3. taken' = [taken EXCEPT ![c] = taken[c]]
  BY <1>1, <1>2
<1>4. ASSUME LookedAt(c)  PROVE LookedAt(c)'
  <2>1. ~Wanted(p) /\ ~Reached(p)
    BY <1>1 DEF Wanted, Reached
  <2>2. ASSUME NEW q \in tree, Len(q) = 7, Parent(q) = p  PROVE FALSE
    BY <1>1, <1>2, <2>2, PathIsSeq, ParentOfSub
  <2> DEFINE none == {}
  <2>3. todo'[c] = (todo[c] \ {p}) \cup none /\ taken'[c] = taken[c] /\ tree' = tree
    BY <1>1, <1>2
  <2>4. PathsOf(taken'[c]) \subseteq tree \cap manifests'
    BY <1>1, <1>4, <2>3 DEF LookedAt
  <2>5. errors \subseteq errors'
    BY <1>1
  <2>6. /\ \A q \in none : Len(q) = 7
        /\ PathsOf(taken[c]) \subseteq PathsOf(taken'[c])
        /\ Wanted(p) => p \in PathsOf(taken'[c])
        /\ \A q \in tree : Wanted(q) /\ Len(q) = 7 /\ Parent(q) = p => q \in none
        /\ Reached(p) /\ IsParseError(p) => p \in errors'
    BY <2>1, <2>2, <2>3, <2>5
  <2> HIDE DEF none
  <2> QED  BY <1>2, <1>4, <2>3, <2>4, <2>5, <2>6, LookedAtStep
<1>5. errors \subseteq errors' /\ manifests \subseteq manifests'
  BY <1>1
<1> QED  BY <1>1, <1>3, <1>4, <1>5, StepOfParse

LEMMA TakeView ==
    ASSUME ViewInv, CrawlInv', NEW c \in Crawl, phase[c] = "parse", NEW p \in tree,
           IsDelivery(p), NEW l, NEW subs, Take(c, p, l, subs),
           \A q \in subs : Len(q) = 7,
           \A q \in tree : Wanted(q) /\ Len(q) = 7 /\ Parent(q) = p => q \in subs
    PROVE  ViewInv'
<1> USE DEF shareVars, diskVars, tableVars, histVars
<1> DEFINE r == [path |-> p, lexicon |-> l, status |-> DirMap[Lexicon(p)][Terminal(p)]]
<1>1. /\ taken' = [taken EXCEPT ![c] = taken[c] \cup {r}]
      /\ todo' = [todo EXCEPT ![c] = (todo[c] \ {p}) \cup subs]
      /\ manifests' = manifests \cup {p}
      /\ UNCHANGED <<tree, phase, found, errors, rows, patched, clean>>
  BY DEF Take
<1>2. r.path = p
  OBVIOUS
<1> HIDE DEF r
<1>3. /\ todo \in [Crawl -> SUBSET Seq(STRING)] /\ taken \in [Crawl -> SUBSET Delivered]
      /\ tree \subseteq Path
  BY DEF ViewInv, CrawlInv, TypeOK
<1>4. ASSUME LookedAt(c)  PROVE LookedAt(c)'
  <2>1. ~IsParseError(p)
    BY DEF IsParseError
  <2>2. todo'[c] = (todo[c] \ {p}) \cup subs /\ taken'[c] = taken[c] \cup {r} /\ tree' = tree
    BY <1>1, <1>3
  <2>3. PathsOf(taken'[c]) = PathsOf(taken[c]) \cup {p}
    BY <1>2, <2>2 DEF PathsOf
  <2>4. PathsOf(taken'[c]) \subseteq tree \cap manifests'
    BY <1>1, <1>4, <2>3 DEF LookedAt
  <2>5. errors \subseteq errors' /\ PathsOf(taken[c]) \subseteq PathsOf(taken'[c])
        /\ p \in PathsOf(taken'[c])
    BY <1>1, <2>3
  <2> QED  BY <1>3, <1>4, <2>1, <2>2, <2>4, <2>5, LookedAtStep
<1>5. errors \subseteq errors' /\ manifests \subseteq manifests'
  BY <1>1
<1> QED  BY <1>1, <1>4, <1>5, StepOfParse

LEMMA TakesView ==
    ASSUME ViewInv, CrawlInv', NEW c \in Crawl, NEW p \in todo[c], Takes(c, p)
    PROVE  ViewInv'
<1>1. /\ phase[c] = "parse" /\ Len(p) = 6 /\ IsDelivery(p) /\ p \in tree
      /\ tree \subseteq Path /\ p \in Path
  BY DEF Takes, LooksAt, ViewInv, CrawlInv, TypeOK
<1>2. Deliverable(p)
  BY <1>1, ReachedDelivery DEF ViewInv, CrawlInv, InHand
<1> DEFINE subs == {Append(p, n) : n \in DOMAIN SubDirs[Lexicon(p)]}
<1>3. Take(c, p, Lexicon(p), subs)
  BY DEF Takes
<1>4. \A q \in subs : Len(q) = 7
  BY <1>1, <1>2, SubsDeliverable
<1>5. ASSUME NEW q \in tree, Wanted(q), Len(q) = 7, Parent(q) = p  PROVE q \in subs
  <2>1. q \in Seq(STRING)
    BY <1>1, PathIsSeq
  <2>2. SaysTheSame(Parent(q), q) /\ q = Append(Parent(q), q[7])
    BY <1>5, <2>1, ParentOfSub
  <2>3. Lexicon(p) = Lexicon(q)
    BY <1>5, <2>2, SameWords
  <2>4. q[7] \in DOMAIN SubDirs[Lexicon(p)]
    BY <1>5, <2>3 DEF Wanted
  <2> QED  BY <1>5, <2>2, <2>4
<1> HIDE DEF subs
<1> QED  BY <1>1, <1>3, <1>4, <1>5, TakeView

LEMMA TakesSubView ==
    ASSUME ViewInv, CrawlInv', NEW c \in Crawl, NEW p \in todo[c], TakesSub(c, p)
    PROVE  ViewInv'
<1>1. phase[c] = "parse" /\ Len(p) = 7 /\ p \in tree /\ tree \subseteq Path
  BY DEF TakesSub, LooksAt, ViewInv, CrawlInv, TypeOK
<1>2. IsDelivery(p)
  BY <1>1 DEF ViewInv, CrawlInv, InHand, Reached, Deliverable
<1>3. Take(c, p, SubDirs[Lexicon(p)][p[7]], {})
  BY DEF TakesSub
<1>4. ASSUME NEW q \in tree, Len(q) = 7, Parent(q) = p  PROVE FALSE
  BY <1>1, <1>4, PathIsSeq, ParentOfSub
<1> QED  BY <1>1, <1>2, <1>3, <1>4, TakeView

\* While directories are looked at, a path has been taken once.
LEMMA TakenOnce ==
    ASSUME CrawlInv, NEW c \in Crawl, phase[c] = "parse"
    PROVE  /\ \A d, e \in taken[c] : d.path = e.path => d = e
           /\ IsFiniteSet(taken[c])
<1>1. /\ taken[c] \subseteq Delivered
      /\ \A d \in taken[c] : d.lexicon = LexiconOf(d.path) /\ d.status = Mapped(d.path)
  BY DEF CrawlInv, TypeOK, InHand
<1>2. ASSUME NEW d \in taken[c], NEW e \in taken[c], d.path = e.path  PROVE d = e
  <2>1. /\ d = [path |-> d.path, lexicon |-> d.lexicon, status |-> d.status]
        /\ e = [path |-> e.path, lexicon |-> e.lexicon, status |-> e.status]
    BY <1>1 DEF Delivered
  <2>2. d.lexicon = e.lexicon /\ d.status = e.status
    BY <1>1, <1>2
  <2> QED  BY <1>2, <2>1, <2>2
<1>3. IsFiniteSet(taken[c])
  <2> DEFINE f == [d \in taken[c] |-> d.path]
  <2>1. \A d \in taken[c] : f[d] = d.path /\ d.path \in Path
    BY <1>1 DEF Delivered
  <2>2. f \in [taken[c] -> Path]
    BY <2>1
  <2> HIDE DEF f
  <2>3. f \in Injection(taken[c], Path)
    BY <1>2, <2>1, <2>2 DEF Injection, IsInjective
  <2>4. IsFiniteSet(Path)
    BY PathAssumption
  <2> QED  BY <2>3, <2>4, FS_Injection
<1> QED  BY <1>2, <1>3

\* When crawl c has looked at everything, what it has taken is what is wanted.
LEMMA TakenIsWanted ==
    ASSUME CrawlInv, NEW c \in Crawl, phase[c] = "parse", todo[c] = {}, LookedAt(c)
    PROVE  /\ \A d \in taken[c] : Wanted(d.path) /\ Version(d) \in Digits
           /\ \A p \in tree : Wanted(p) => \E d \in taken[c] : d.path = p
           /\ IsFiniteSet(taken[c])
<1> USE DEF CrawlInv
<1>1. /\ tree \subseteq Path /\ taken[c] \subseteq Delivered
      /\ \A d \in taken[c] : /\ Deliverable(d.path) /\ d.lexicon = LexiconOf(d.path)
                             /\ d.status = Mapped(d.path)
  BY DEF TypeOK, InHand
<1>2. \A d \in taken[c] : d.path \in tree
  BY DEF LookedAt, PathsOf
<1>3. \A d \in taken[c] : Wanted(d.path)
  BY <1>1, <1>2, WantedIsDeliverable
<1>4. \A d \in taken[c] : Version(d) \in Digits
  BY <1>1, <1>2, DeliverableType DEF Version
<1>5. \A p \in tree : Wanted(p) => \E d \in taken[c] : d.path = p
  BY DEF LookedAt, PathsOf
<1>6. IsFiniteSet(taken[c])
  BY TakenOnce
<1> QED  BY <1>3, <1>4, <1>5, <1>6

\* The hook derives the status that the whole share calls for.
LEMMA DerivedIsRight ==
    ASSUME CrawlInv, NEW c \in Crawl, phase[c] = "parse", todo[c] = {}, LookedAt(c),
           NEW d \in taken[c], SameWidth(Rivals(d.path))
    PROVE  Derived(taken[c], d).status = RightStatus(d.path)
<1> DEFINE p == d.path
           G == Group(taken[c], d)
           Later == \E q \in Rivals(p) : Number(Says(q).version) > Number(Says(p).version)
<1>1. /\ \A e \in taken[c] : Wanted(e.path) /\ Version(e) \in Digits
      /\ \A q \in tree : Wanted(q) => \E e \in taken[c] : e.path = q
      /\ IsFiniteSet(taken[c])
  BY TakenIsWanted
<1>2. /\ tree \subseteq Path
      /\ \A e \in taken[c] : e.lexicon = LexiconOf(e.path) /\ e.status = Mapped(e.path)
  BY DEF CrawlInv, TypeOK, InHand
<1>3. \A e \in taken[c] : e \in G <=> e.path \in Rivals(p)
  <2> TAKE e \in taken[c]
  <2>1. e.path \in tree /\ Wanted(e.path)
    BY <1>1 DEF Wanted
  <2>2. GroupKey(e) = GroupKey(d) <=> /\ Says(e.path).workplan = Says(p).workplan
                                      /\ Says(e.path).dp = Says(p).dp
    BY DEF GroupKey
  <2>3. e.lexicon = d.lexicon <=> LexiconOf(e.path) = LexiconOf(p)
    BY <1>2
  <2> QED  BY <2>1, <2>2, <2>3 DEF Group, Rivals
<1>4. \A q \in Rivals(p) : \E e \in G : e.path = q
  <2> TAKE q \in Rivals(p)
  <2>1. PICK e \in taken[c] : e.path = q
    BY <1>1 DEF Rivals
  <2> QED  BY <1>3, <2>1
<1>5. G \subseteq taken[c] /\ d \in G
  BY DEF Group
<1>6. \A e \in G : e.path \in Rivals(p)
  BY <1>3, <1>5
<1> HIDE DEF G
<1>7. IsFiniteSet(G)
  BY <1>1, <1>5, FS_Subset
<1>8. Version(d) # Highest(G) <=> \E e \in G : Below(Version(d), Version(e))
  <2>1. \A e \in G : Version(e) \in Digits
    BY <1>1, <1>5
  <2> QED  BY <1>5, <1>7, <2>1, NotHighest
<1>9. \A e \in G : Below(Version(d), Version(e))
                     <=> Number(Says(p).version) < Number(Says(e.path).version)
  <2> TAKE e \in G
  <2>1. Version(d) = Says(p).version /\ Version(e) = Says(e.path).version
    BY DEF Version
  <2>2. Len(Says(p).version) = Len(Says(e.path).version)
    BY <1>5, <1>6 DEF SameWidth
  <2>3. Version(d) \in Digits /\ Version(e) \in Digits
    BY <1>1, <1>5
  <2> QED  BY <2>1, <2>2, <2>3, BelowComparesNumbers
<1>10. \A e \in G : Number(Says(p).version) < Number(Says(e.path).version)
                      <=> Number(Says(e.path).version) > Number(Says(p).version)
  OBVIOUS
<1>11. Version(d) # Highest(G) <=> Later
  BY <1>4, <1>6, <1>8, <1>9, <1>10
<1>12. RightStatus(p) = IF LexiconOf(p) \in Hooked /\ Mapped(p) = "pending" /\ Later
                          THEN "failed" ELSE Mapped(p)
  BY DEF RightStatus, Mapped
<1>13. Derived(taken[c], d) =
          IF d.lexicon \in Hooked /\ d.status = "pending" /\ Version(d) # Highest(G)
            THEN [d EXCEPT !.status = "failed"] ELSE d
  BY DEF Derived, G
<1>14. d.lexicon = LexiconOf(p) /\ d.status = Mapped(p) /\ d \in Delivered
  BY <1>2 DEF CrawlInv, TypeOK
<1>15. [d EXCEPT !.status = "failed"].status = "failed"
  BY <1>14 DEF Delivered
<1> HIDE DEF Later, p
<1> QED  BY <1>11, <1>12, <1>13, <1>14, <1>15 DEF p

LEMMA DeriveView ==
    ASSUME ViewInv, CrawlInv', NEW c \in Crawl, Derive(c)
    PROVE  ViewInv'
<1> USE DEF shareVars, diskVars, tableVars, histVars
<1> DEFINE ds == {Derived(taken[c], d) : d \in taken[c]}
<1>1. /\ phase[c] = "parse" /\ todo[c] = {}
      /\ phase' = [phase EXCEPT ![c] = "post"]
      /\ taken' = [taken EXCEPT ![c] = ds]
      /\ UNCHANGED <<tree, todo, found, manifests, errors, rows, patched, clean>>
  BY DEF Derive
<1>2. /\ phase \in [Crawl -> {"idle", "walk", "parse", "post", "done"}]
      /\ taken \in [Crawl -> SUBSET Delivered] /\ tree \subseteq Path
  BY DEF ViewInv, CrawlInv, TypeOK
<1>3. ASSUME LookedAt(c)  PROVE Posted(c)'
  <2>1. \A e \in ds : \E d \in taken[c] : e = Derived(taken[c], d) /\ e.path = d.path
    <3> SUFFICES ASSUME NEW d \in taken[c]
                 PROVE  Derived(taken[c], d).path = d.path
      OBVIOUS
    <3>1. d \in Delivered
      BY <1>2
    <3> QED  BY <3>1, DerivedType
  <2>2. \A d \in taken[c] : \E e \in ds : e.path = d.path
    <3> TAKE d \in taken[c]
    <3>1. d \in Delivered
      BY <1>2
    <3>2. Derived(taken[c], d) \in ds /\ Derived(taken[c], d).path = d.path
      BY <3>1, DerivedType
    <3> QED  BY <3>2
  <2> HIDE DEF ds
  <2>3. PathsOf(ds) = PathsOf(taken[c])
    <3>1. \A e \in ds : \E d \in taken[c] : e.path = d.path
      BY <2>1
    <3> QED  BY <2>2, <3>1 DEF PathsOf
  <2>4. taken'[c] = ds /\ tree' = tree /\ manifests' = manifests /\ errors' = errors
    BY <1>1, <1>2
  <2>5. \A e \in ds : RightFor(e)
    <3> SUFFICES ASSUME NEW e \in ds, SameWidth(Rivals(e.path))
                 PROVE  e.status = RightStatus(e.path)
      BY DEF RightFor
    <3>1. PICK d \in taken[c] : e = Derived(taken[c], d) /\ e.path = d.path
      BY <2>1
    <3>2. SameWidth(Rivals(d.path))
      BY <3>1
    <3>3. Derived(taken[c], d).status = RightStatus(d.path)
      BY <1>1, <1>3, <3>2, DerivedIsRight DEF ViewInv
    <3> QED  BY <3>1, <3>3
  <2>6. PathsOf(taken[c]) \subseteq tree /\ PathsOf(taken[c]) \subseteq manifests
    BY <1>3 DEF LookedAt
  <2>7. \A p \in tree : Wanted(p) => p \in PathsOf(taken[c])
    BY <1>1, <1>3 DEF LookedAt
  <2>8. \A p \in tree : Reached(p) /\ IsParseError(p) => p \in errors
    BY <1>1, <1>3 DEF LookedAt
  <2>9. /\ \A p : Wanted(p)' = Wanted(p)
        /\ \A e : RightFor(e)' = RightFor(e)
    BY <2>4, ShareSays
  <2>10. PathsOf(taken'[c]) = PathsOf(taken[c])
    BY <2>3, <2>4
  <2>11. \A d \in taken'[c] : RightFor(d)'
    BY <2>4, <2>5, <2>9
  <2>12. /\ PathsOf(taken'[c]) \subseteq tree'
         /\ \A p \in tree' : Wanted(p)' => p \in manifests'
         /\ \A p \in tree' : Wanted(p)' => p \in PathsOf(taken'[c])
         /\ \A p \in tree' : Reached(p) /\ IsParseError(p) => p \in errors'
    BY <2>4, <2>6, <2>7, <2>8, <2>9, <2>10
  <2> QED  BY <2>11, <2>12 DEF Posted
<1> HIDE DEF ds
<1>4. View(c)'
  BY <1>1, <1>2, <1>3 DEF ViewInv, View
<1>5. \A e \in Crawl \ {c} : /\ phase'[e] = phase[e] /\ todo'[e] = todo[e]
                             /\ found'[e] = found[e] /\ taken'[e] = taken[e]
  BY <1>1, <1>2
<1>6. c \in Running /\ WritesRight
  BY <1>1 DEF Running, WritesRight
<1> QED  BY <1>1, <1>4, <1>5, <1>6, StepOfCrawl

LEMMA PostAnsweredView ==
    ASSUME ViewInv, CrawlInv', NEW c \in Crawl, NEW d \in taken[c], PostAnswered(c, d)
    PROVE  ViewInv'
<1> USE DEF shareVars, diskVars, tableVars, histVars
<1>1. /\ phase[c] = "post" /\ Upsert(d)
      /\ taken' = [taken EXCEPT ![c] = taken[c] \ {d}]
      /\ UNCHANGED <<tree, phase, todo, found, manifests, errors, clean>>
  BY DEF PostAnswered, Posts
<1>2. /\ phase \in [Crawl -> {"idle", "walk", "parse", "post", "done"}]
      /\ taken \in [Crawl -> SUBSET Delivered] /\ tree \subseteq Path
      /\ rows = [p \in Path |-> rows[p]] /\ d \in Delivered
      /\ d.lexicon = LexiconOf(d.path)
  BY DEF ViewInv, CrawlInv, TypeOK, InHand
<1>3. WritesRight
  BY <1>1, PostsRight
<1>4. taken'[c] = taken[c] \ {d} /\ tree' = tree /\ manifests' = manifests /\ errors' = errors
  BY <1>1, <1>2
<1>5. ASSUME Posted(c)  PROVE Posted(c)'
  <2>1. /\ \A p : Wanted(p)' = Wanted(p)
        /\ \A e : RightFor(e)' = RightFor(e)
    BY <1>4, ShareSays
  <2>2. PathsOf(taken'[c]) \subseteq tree
    BY <1>4, <1>5 DEF Posted, PathsOf
  <2>3. RightFor(d)
    BY <1>5 DEF Posted
  <2>4. \A p \in tree : Settled(p) => Settled(p)'
    BY <1>1, <1>2, <1>4, <2>3, SettledKept
  <2>5. Settled(d.path)'
    BY <1>1, <1>2, <1>4, <2>3, UpsertSettles
  <2>6. \A p \in tree' : Wanted(p)' => p \in PathsOf(taken'[c]) \/ Settled(p)'
    <3>1. \A p : p \in PathsOf(taken[c]) => p = d.path \/ p \in PathsOf(taken'[c])
      BY <1>4 DEF PathsOf
    <3> QED  BY <1>4, <1>5, <2>1, <2>4, <2>5, <3>1 DEF Posted
  <2>7. /\ \A e \in taken'[c] : RightFor(e)'
        /\ \A p \in tree' : Wanted(p)' => p \in manifests'
        /\ \A p \in tree' : Reached(p) /\ IsParseError(p) => p \in errors'
    BY <1>4, <1>5, <2>1 DEF Posted
  <2> QED  BY <1>4, <2>2, <2>6, <2>7 DEF Posted
<1>6. View(c)'
  BY <1>1, <1>5 DEF ViewInv, View
<1>7. \A e \in Crawl \ {c} : /\ phase'[e] = phase[e] /\ todo'[e] = todo[e]
                             /\ found'[e] = found[e] /\ taken'[e] = taken[e]
  BY <1>1, <1>2
<1>8. c \in Running
  BY <1>1 DEF Running
<1> QED  BY <1>1, <1>3, <1>6, <1>7, <1>8, StepOfCrawl

LEMMA CrawlEndsView ==
    ASSUME ViewInv, CrawlInv', NEW c \in Crawl, CrawlEnds(c)
    PROVE  ViewInv'
<1> USE DEF shareVars, diskVars, tableVars, histVars
<1>1. /\ phase[c] = "post" /\ phase' = [phase EXCEPT ![c] = "done"]
      /\ UNCHANGED <<tree, todo, found, taken, manifests, errors, rows, patched, clean>>
  BY DEF CrawlEnds
<1>2. phase \in [Crawl -> {"idle", "walk", "parse", "post", "done"}]
  BY DEF ViewInv, CrawlInv, TypeOK
<1>3. ASSUME Posted(c)  PROVE Posted(c)'
  <2>1. /\ \A p : Wanted(p)' = Wanted(p)
        /\ \A e : RightFor(e)' = RightFor(e)
    BY <1>1, ShareSays
  <2>2. \A p \in tree : Settled(p) => Settled(p)'
    <3>1. rows = [p \in Path |-> rows[p]] /\ tree \subseteq Path
      BY DEF ViewInv, CrawlInv, TypeOK
    <3> QED  BY <1>1, <3>1, SettledKept
  <2> QED  BY <1>1, <1>3, <2>1, <2>2 DEF Posted
<1>4. View(c)'
  BY <1>1, <1>2, <1>3 DEF ViewInv, View
<1>5. phase'[c] = "done" /\ \A d \in Crawl \ {c} : phase'[d] = phase[d]
  BY <1>1, <1>2
<1>6. WritesRight
  BY <1>1 DEF WritesRight
<1> QED  BY <1>1, <1>4, <1>5, <1>6, StepOfCrawl

LEMMA PostFailsView ==
    ASSUME ViewInv, CrawlInv', NEW c \in Crawl, NEW d \in taken[c], PostFails(c, d)
    PROVE  ViewInv'
<1> USE DEF shareVars, diskVars, histVars
<1>1. phase[c] = "post"
  BY DEF PostFails, Posts
<1>2. WritesRight
  <2>1. UNCHANGED <<rows, patched>> \/ Upsert(d)
    BY DEF PostFails
  <2> QED  BY <1>1, <2>1, PostsRight
<1>3. UNCHANGED <<shareVars, diskVars, histVars>>
  BY DEF PostFails
<1>4. CASE Abandon(c)
  BY <1>2, <1>3, <1>4, AbandonsView
<1>5. CASE UNCHANGED <<phase, todo, found, taken>>
  <2>1. /\ tree' = tree /\ clean' = clean /\ manifests' = manifests /\ errors' = errors
        /\ phase' = phase /\ todo' = todo /\ found' = found /\ taken' = taken
    BY <1>3, <1>5
  <2>2. View(c)'
    <3>1. \/ UNCHANGED <<rows, patched>>
          \/ \E q \in Path, s \in Status : Patch(q, s)
          \/ \E e \in Delivered : /\ Upsert(e) /\ e.lexicon = LexiconOf(e.path)
                                  /\ clean[c] => RightFor(e)
      BY <1>2 DEF WritesRight
    <3>2. View(c) /\ tree \subseteq Path /\ rows = [p \in Path |-> rows[p]]
      BY DEF ViewInv, CrawlInv, TypeOK
    <3> QED  BY <2>1, <3>1, <3>2, ViewKept
  <2>3. c \in Running
    BY <1>1 DEF Running
  <2> QED  BY <1>2, <2>1, <2>2, <2>3, StepOfCrawl
<1> QED  BY <1>4, <1>5 DEF PostFails

\* Steps that are nobody's crawl.
LEMMA RestingView ==
    ASSUME ViewInv, CrawlInv',
           UNCHANGED <<tree, phase, todo, found, taken, manifests, errors, clean>>,
           UNCHANGED <<rows, patched>> \/ \E q \in Path, s \in Status : Patch(q, s)
    PROVE  ViewInv'
<1>1. CleanTogether'
  BY DEF ViewInv, CleanTogether, Running
<1>2. ASSUME NEW d \in Crawl  PROVE View(d)'
  <2>1. /\ View(d) /\ tree' = tree /\ clean'[d] = clean[d]
        /\ phase'[d] = phase[d] /\ todo'[d] = todo[d]
        /\ found'[d] = found[d] /\ taken'[d] = taken[d]
        /\ manifests \subseteq manifests' /\ errors \subseteq errors'
        /\ tree \subseteq Path /\ rows = [p \in Path |-> rows[p]]
    BY DEF ViewInv, CrawlInv, TypeOK
  <2> QED  BY <2>1, ViewKept
<1> QED  BY <1>1, <1>2 DEF ViewInv

LEMMA ViewInvStep == ViewInv /\ [Next]_vars => ViewInv'
<1> SUFFICES ASSUME ViewInv, [Next]_vars  PROVE ViewInv'
  OBVIOUS
<1>1. CrawlInv'
  BY CrawlInvStep DEF ViewInv
<1>2. CASE ShareStep
  <2>1. clean' = [c \in Crawl |-> FALSE]
    BY <1>2 DEF ShareStep, Appears, Vanishes, Renamed, Becomes
  <2> QED  BY <1>1, <2>1, UncleanView
<1>3. CASE RegistryRestart
  BY <1>1, <1>3, RestingView DEF RegistryRestart, shareVars, crawlVars, diskVars, histVars
<1>8. ASSUME NEW q \in Path, NEW s \in Status, Patch(q, s)  PROVE ViewInv'
  <2>1. UNCHANGED <<tree, phase, todo, found, taken, manifests, errors, clean>>
    BY <1>8 DEF Patch, shareVars, crawlVars, diskVars, histVars
  <2>2. UNCHANGED <<rows, patched>> \/ \E x \in Path, t \in Status : Patch(x, t)
    BY <1>8
  <2> QED  BY <1>1, <2>1, <2>2, RestingView
<1>4. CASE UNCHANGED vars
  BY <1>1, <1>4, RestingView DEF vars, shareVars, crawlVars, diskVars, tableVars, histVars
<1>5. ASSUME NEW c \in Crawl, CrawlStep(c)  PROVE ViewInv'
  <2>1. ASSUME NEW p, TakeRaises(c, p) \/ PostRefused(c, p)  PROVE ViewInv'
    <3>1. Abandon(c) /\ UNCHANGED <<shareVars, diskVars, histVars>> /\ WritesRight
      BY <2>1 DEF TakeRaises, PostRefused, tableVars, WritesRight
    <3> QED  BY <1>1, <3>1, AbandonsView
  <2> QED  BY <1>1, <1>5, <2>1, ScanView, WalkEndsView, RejectsView, NoSubView,
              TakesView, TakesSubView, DeriveView, PostAnsweredView, CrawlEndsView
              DEF CrawlStep, ParseStep, PostStep
<1>6. ASSUME NEW c \in Crawl, ScanFails(c)  PROVE ViewInv'
  <2>1. clean' = [d \in Crawl |-> FALSE]
    BY <1>6 DEF ScanFails
  <2> QED  BY <1>1, <2>1, UncleanView
<1>7. ASSUME NEW c \in Crawl, Die(c)  PROVE ViewInv'
  <2>1. Abandon(c) /\ UNCHANGED <<shareVars, diskVars, histVars>> /\ WritesRight
    BY <1>7 DEF Die, tableVars, WritesRight
  <2> QED  BY <1>1, <2>1, AbandonsView
<1> QED  BY <1>1, <1>2, <1>3, <1>4, <1>5, <1>6, <1>7, <1>8, BeginView,
            PostFailsView DEF Next

LEMMA ViewInvHolds == Spec => []ViewInv
  BY ViewInit, ViewInvStep, PTL DEF Spec

\* A crawl that comes to its end, with nothing changed or failed since it
\* began, has brought the rows and the manifests up to date with the whole
\* share, whatever other crawls overlapped with it.
THEOREM CleanCrawlAgreesHolds == Spec => []CleanCrawlAgrees
<1>1. ASSUME ViewInv, NEW c \in Crawl, phase[c] = "done", clean[c]
      PROVE  AgreesBut(patched) /\ Evidence
  <2>1. taken[c] = {} /\ tree \subseteq Path
    BY <1>1 DEF ViewInv, CrawlInv, InHand, TypeOK
  <2>2. Posted(c)
    BY <1>1 DEF ViewInv, View
  <2>3. PathsOf(taken[c]) = {}
    BY <2>1 DEF PathsOf
  <2>4. AgreesBut(patched)
    BY <2>2, <2>3 DEF AgreesBut, Posted, Settled
  <2>5. \A p \in tree : Wanted(p) => p \in manifests
    BY <2>2 DEF Posted
  <2>6. \A p \in tree :
           /\ Len(p) = 6 /\ Terminal(p) \in ValidTerminals
           /\ p[3] = Target[p[1]] /\ p[2] \notin Exclusions
           /\ IsParseError(p)
           => p \in errors
    BY <2>1, <2>2, PathIsSeq DEF Posted, Reached
  <2> QED  BY <2>4, <2>5, <2>6 DEF Evidence
<1>2. ViewInv => CleanCrawlAgrees
  BY <1>1 DEF CleanCrawlAgrees
<1> QED  BY <1>2, ViewInvHolds, PTL

-----------------------------------------------------------------------------
(* Crawls move forward.  A status is the mapped one, the hook's, or one a  *)
(* reviewer has written.  As long as nothing has been disturbed, the       *)
(* version that outdoes a delivery stays on the share, so that no crawl    *)
(* takes the hook's status back.                                           *)

\* The hook may change the status of p, to "failed".
Derivable(p) == LexiconOf(p) \in Hooked /\ Mapped(p) = "pending"

Fits(p, s) == \/ s = Mapped(p)
              \/ Derivable(p) /\ s = "failed"

IsDerived(d) == d.status # Mapped(d.path)
\* The row of p has the hook's status, from a crawl.
RowDerived(p) == rows[p] # NoDelivery /\ p \notin patched /\ rows[p].status # Mapped(p)

\* q has a version above that of p.
Supersedes(q, p) ==
    /\ Wanted(q) /\ LexiconOf(q) = LexiconOf(p)
    /\ Says(q).workplan = Says(p).workplan /\ Says(q).dp = Says(p).dp
    /\ Below(Says(p).version, Says(q).version)
Superseded(p) == \E q \in tree : Supersedes(q, p)

\* What is posted by crawl c has one status, and one that fits.
PostsFit(c) == phase[c] = "post" =>
    /\ \A d \in taken[c] : Fits(d.path, d.status)
    /\ \A d, e \in taken[c] : d.path = e.path => d = e

StatusInv ==
    /\ \A p \in Path : rows[p] # NoDelivery =>
          rows[p].lexicon = LexiconOf(p) /\ (p \notin patched => Fits(p, rows[p].status))
    /\ \A c \in Crawl : PostsFit(c)

\* q is on its way through crawl c.
ComesAcross(c, q) ==
    /\ phase[c] = "walk" =>
          Parent(q) \in found[c] \/ \E n \in {1, 3, 4, 5} : SubSeq(q, 1, n) \in todo[c]
    /\ phase[c] = "parse" =>
          q \in todo[c] \/ Parent(q) \in todo[c] \/ q \in PathsOf(taken[c])

\* Crawl c is going to derive the status of p, or has derived it.
Derives(c, p) ==
    /\ phase[c] \in {"walk", "parse"} => \E q \in tree : Supersedes(q, p) /\ ComesAcross(c, q)
    /\ phase[c] = "post" => \A d \in taken[c] : d.path = p => IsDerived(d)

CalmCrawl(c) ==
    /\ PathsOf(taken[c]) \subseteq tree
    /\ phase[c] = "post" => \A d \in taken[c] : IsDerived(d) => Superseded(d.path)
    /\ phase[c] = "post" /\ clean[c] =>
          \A d \in taken[c] : Derivable(d.path) /\ Superseded(d.path) => IsDerived(d)
    /\ \A p \in Path : RowDerived(p) => Derives(c, p)

\* Of several crawls under way each is clean.
CalmTogether == \A c, d \in Running : c # d => clean[c]

Calm ==
    /\ CalmTogether
    /\ \A p \in Path : RowDerived(p) => Superseded(p)
    /\ \A c \in Crawl : CalmCrawl(c)

ForwardInv == ViewInv /\ StatusInv /\ (~disturbed => Calm)

LEMMA ForwardInit == Init => ForwardInv
<1> SUFFICES ASSUME Init  PROVE ForwardInv
  OBVIOUS
<1>1. \A p \in Path : rows[p] = NoDelivery
  BY DEF Init
<1>2. \A c \in Crawl : phase[c] = "idle" /\ taken[c] = {}
  BY DEF Init
<1>3. StatusInv
  BY <1>1, <1>2 DEF StatusInv, PostsFit
<1>4. CalmTogether
  BY <1>2 DEF CalmTogether, Running
<1>5. \A c \in Crawl : CalmCrawl(c)
  BY <1>1, <1>2 DEF CalmCrawl, PathsOf, RowDerived
<1>6. Calm
  BY <1>1, <1>4, <1>5 DEF Calm, RowDerived
<1> QED  BY <1>3, <1>6, ViewInit DEF ForwardInv

\* Crawl c writes a delivery it has taken, if any.
WritesTaken(c) ==
    \/ UNCHANGED <<rows, patched>>
    \/ \E d \in taken[c] : phase[c] = "post" /\ Upsert(d)

Patched == \E q \in Path, s \in Status : Patch(q, s)

\* A reviewer writes one status, and leaves the lexicon.
LEMMA PatchWrites ==
    ASSUME rows = [x \in Path |-> rows[x]], NEW q \in Path, NEW s \in Status, Patch(q, s),
           NEW p \in Path
    PROVE  \/ rows'[p] = rows[p] /\ (p \in patched' <=> p \in patched)
           \/ /\ p = q /\ p \in patched' /\ rows[p] # NoDelivery
              /\ rows'[p] = [rows[p] EXCEPT !.status = s]
  BY DEF Patch, Known

\* Every step but Derive writes what fits and leaves of what is posted.
LEMMA StatusKept ==
    ASSUME CrawlInv, StatusInv,
           UNCHANGED <<rows, patched>> \/ Patched \/ \E c \in Crawl : WritesTaken(c),
           \A d \in Crawl : phase'[d] = "post" =>
                               phase[d] = "post" /\ taken'[d] \subseteq taken[d]
    PROVE  StatusInv'
<1>1. \A c \in Crawl : PostsFit(c)'
  <2> SUFFICES ASSUME NEW c \in Crawl, phase'[c] = "post"
               PROVE  /\ \A d \in taken'[c] : Fits(d.path, d.status)
                      /\ \A d, e \in taken'[c] : d.path = e.path => d = e
    BY DEF PostsFit
  <2>1. phase[c] = "post" /\ taken'[c] \subseteq taken[c]
    OBVIOUS
  <2> QED  BY <2>1 DEF StatusInv, PostsFit
<1>2. ASSUME NEW c \in Crawl, NEW d \in taken[c], phase[c] = "post", Upsert(d),
             NEW p \in Path, rows'[p] # NoDelivery
      PROVE  rows'[p].lexicon = LexiconOf(p) /\ (p \notin patched' => Fits(p, rows'[p].status))
  <2>1. /\ d \in Delivered /\ d.lexicon = LexiconOf(d.path) /\ Fits(d.path, d.status)
        /\ rows = [x \in Path |-> rows[x]]
    BY <1>2 DEF CrawlInv, TypeOK, InHand, StatusInv, PostsFit
  <2>2. CASE p = d.path
    <3>1. rows'[p] = [lexicon |-> d.lexicon, status |-> d.status]
      BY <1>2, <2>1, <2>2 DEF Upsert
    <3> QED  BY <2>1, <2>2, <3>1
  <2>3. CASE p # d.path
    <3>1. rows'[p] = rows[p] /\ (p \in patched' <=> p \in patched)
      BY <1>2, <2>1, <2>3 DEF Upsert
    <3> QED  BY <1>2, <3>1 DEF StatusInv
  <2> QED  BY <2>2, <2>3
<1>3. ASSUME NEW q \in Path, NEW s \in Status, Patch(q, s), NEW p \in Path,
             rows'[p] # NoDelivery
      PROVE  rows'[p].lexicon = LexiconOf(p) /\ (p \notin patched' => Fits(p, rows'[p].status))
  <2>1. /\ rows = [x \in Path |-> rows[x]]
        /\ rows[p] # NoDelivery => rows[p] \in [lexicon : LexiconId, status : Status]
    BY DEF CrawlInv, TypeOK
  <2>2. CASE rows'[p] = rows[p] /\ (p \in patched' <=> p \in patched)
    BY <1>3, <2>2 DEF StatusInv
  <2>3. CASE p \in patched' /\ rows[p] # NoDelivery /\ rows'[p] = [rows[p] EXCEPT !.status = s]
    <3>1. rows'[p].lexicon = rows[p].lexicon
      BY <2>1, <2>3
    <3> QED  BY <2>3, <3>1 DEF StatusInv
  <2> QED  BY <1>3, <2>1, <2>2, <2>3, PatchWrites
<1>4. \A p \in Path : rows'[p] # NoDelivery =>
         rows'[p].lexicon = LexiconOf(p) /\ (p \notin patched' => Fits(p, rows'[p].status))
  <2>1. CASE UNCHANGED <<rows, patched>>
    BY <2>1 DEF StatusInv
  <2>2. CASE \E c \in Crawl : WritesTaken(c)
    BY <1>2, <2>1, <2>2 DEF WritesTaken
  <2>3. CASE Patched
    BY <1>3, <2>3 DEF Patched
  <2> QED  BY <2>1, <2>2, <2>3
<1> QED  BY <1>1, <1>4 DEF StatusInv

LEMMA StatusDerived ==
    ASSUME CrawlInv, StatusInv, NEW c \in Crawl, Derive(c)
    PROVE  StatusInv'
<1> DEFINE ds == {Derived(taken[c], d) : d \in taken[c]}
<1>1. /\ phase[c] = "parse" /\ phase' = [phase EXCEPT ![c] = "post"]
      /\ taken' = [taken EXCEPT ![c] = ds] /\ UNCHANGED <<rows, patched>>
      /\ phase \in [Crawl -> {"idle", "walk", "parse", "post", "done"}]
      /\ taken \in [Crawl -> SUBSET Delivered]
  BY DEF Derive, tableVars, CrawlInv, TypeOK
<1>2. ASSUME NEW d \in taken[c]
      PROVE  /\ Derived(taken[c], d).path = d.path
             /\ Fits(d.path, Derived(taken[c], d).status)
  <2>1. d \in Delivered /\ d.lexicon = LexiconOf(d.path) /\ d.status = Mapped(d.path)
    BY <1>1 DEF CrawlInv, TypeOK, InHand
  <2>2. [d EXCEPT !.status = "failed"].status = "failed"
    BY <2>1 DEF Delivered
  <2>3. \/ Derived(taken[c], d).status = d.status
        \/ Derivable(d.path) /\ Derived(taken[c], d).status = "failed"
    BY <2>1, <2>2 DEF Derived, Derivable
  <2> QED  BY <2>1, <2>3, DerivedType DEF Fits
<1>3. \A d, e \in taken[c] : d.path = e.path => d = e
  BY <1>1, TakenOnce
<1>4. /\ \A d \in ds : Fits(d.path, d.status)
      /\ \A d, e \in ds : d.path = e.path => d = e
  BY <1>2, <1>3
<1> HIDE DEF ds
<1>5. ASSUME NEW d \in Crawl  PROVE PostsFit(d)'
  <2>1. CASE d = c
    <3>1. taken'[d] = ds
      BY <1>1, <2>1
    <3> QED  BY <1>4, <3>1 DEF PostsFit
  <2>2. CASE d # c
    <3>1. phase'[d] = phase[d] /\ taken'[d] = taken[d]
      BY <1>1, <2>2
    <3> QED  BY <3>1 DEF StatusInv, PostsFit
  <2> QED  BY <2>1, <2>2
<1> QED  BY <1>1, <1>5 DEF StatusInv

LEMMA SupersedesKept ==
    ASSUME tree \subseteq tree', NEW p, NEW q, Supersedes(q, p)
    PROVE  Supersedes(q, p)' /\ q \in tree'
  BY DEF Supersedes, Wanted

LEMMA SupersededKept ==
    ASSUME tree \subseteq tree', NEW p, Superseded(p)
    PROVE  Superseded(p)'
  BY SupersedesKept DEF Superseded

\* A step that is not crawl d's.
LEMMA CalmKept ==
    ASSUME NEW d, CalmCrawl(d), tree \subseteq tree',
           phase'[d] = phase[d], todo'[d] = todo[d], found'[d] = found[d],
           taken'[d] = taken[d], clean'[d] => clean[d] /\ tree' = tree,
           \A p \in Path : RowDerived(p)' => RowDerived(p) \/ Derives(d, p)
    PROVE  CalmCrawl(d)'
<1>1. PathsOf(taken'[d]) \subseteq tree'
  BY DEF CalmCrawl
<1>2. ASSUME phase'[d] = "post", NEW e \in taken'[d], IsDerived(e)  PROVE Superseded(e.path)'
  <2>1. Superseded(e.path)
    BY <1>2 DEF CalmCrawl
  <2> QED  BY <2>1, SupersededKept
<1>3. ASSUME phase'[d] = "post", clean'[d], NEW e \in taken'[d], Derivable(e.path),
             Superseded(e.path)'
      PROVE  IsDerived(e)
  <2>1. tree' = tree
    BY <1>3
  <2>2. Superseded(e.path)
    BY <1>3, <2>1 DEF Superseded, Supersedes, Wanted
  <2> QED  BY <1>3, <2>2 DEF CalmCrawl
<1>4. ASSUME NEW p \in Path, RowDerived(p)'  PROVE Derives(d, p)'
  <2>1. Derives(d, p)
    BY <1>4 DEF CalmCrawl
  <2>2. ASSUME phase'[d] \in {"walk", "parse"}
        PROVE  \E q \in tree' : Supersedes(q, p)' /\ ComesAcross(d, q)'
    <3>1. PICK q \in tree : Supersedes(q, p) /\ ComesAcross(d, q)
      BY <2>1, <2>2 DEF Derives
    <3>2. ComesAcross(d, q)'
      BY <3>1 DEF ComesAcross
    <3> QED  BY <3>1, <3>2, SupersedesKept
  <2>3. phase'[d] = "post" => \A e \in taken'[d] : e.path = p => IsDerived(e)
    BY <2>1 DEF Derives
  <2> QED  BY <2>2, <2>3 DEF Derives
<1> QED  BY <1>1, <1>2, <1>3, <1>4 DEF CalmCrawl

\* A row gets the hook's status from a delivery that has it.
LEMMA NewlyDerived ==
    ASSUME CrawlInv, NEW c \in Crawl, WritesTaken(c), NEW p \in Path, RowDerived(p)'
    PROVE  \/ RowDerived(p)
           \/ \E d \in taken[c] : phase[c] = "post" /\ d.path = p /\ IsDerived(d)
<1>1. CASE UNCHANGED <<rows, patched>>
  BY <1>1 DEF RowDerived
<1>2. ASSUME NEW d \in taken[c], phase[c] = "post", Upsert(d)
      PROVE  \/ RowDerived(p)
             \/ d.path = p /\ IsDerived(d)
  <2>1. rows = [x \in Path |-> rows[x]]
    BY DEF CrawlInv, TypeOK
  <2>2. CASE d.path = p
    <3>1. rows'[p].status = d.status
      BY <1>2, <2>1, <2>2 DEF Upsert
    <3> QED  BY <2>2, <3>1 DEF RowDerived, IsDerived
  <2>3. CASE d.path # p
    <3>1. rows'[p] = rows[p] /\ (p \in patched' <=> p \in patched)
      BY <1>2, <2>1, <2>3 DEF Upsert
    <3> QED  BY <3>1 DEF RowDerived
  <2> QED  BY <2>2, <2>3
<1> QED  BY <1>1, <1>2 DEF WritesTaken

\* The walk finds a wanted delivery by the terminal directory it is in.
LEMMA WantedIsFound ==
    ASSUME tree \subseteq Path, TreeClosed, NEW q \in tree, Wanted(q)
    PROVE  /\ Parent(q) \in tree /\ Reached(Parent(q))
           /\ Len(q) = 6 => Parent(q) = q
           /\ Len(q) = 7 => Len(Parent(q)) = 6
           /\ \A n \in {1, 3, 4, 5} : SubSeq(Parent(q), 1, n) = SubSeq(q, 1, n)
<1>1. q \in Seq(STRING) /\ (Len(q) = 6 \/ Len(q) = 7)
  BY PathIsSeq DEF Wanted
<1>2. Len(q) = 6 => Parent(q) = q
  BY <1>1, SubSeqFull DEF Parent
<1>3. Parent(q) \in tree /\ Reached(Parent(q))
  BY <1>1, <1>2, WantedIsReached
<1>4. ASSUME NEW n \in {1, 3, 4, 5}  PROVE SubSeq(Parent(q), 1, n) = SubSeq(q, 1, n)
  <2>1. PICK k \in {6, 7} : Len(q) = k
    BY <1>1
  <2>2. 6 \in 1..k /\ n \in 1..6
    OBVIOUS
  <2> QED  BY <1>1, <2>1, <2>2, PrefixOfPrefix DEF Parent
<1>5. Len(Parent(q)) = 6
  BY <1>3 DEF Reached
<1> QED  BY <1>2, <1>3, <1>4, <1>5

\* A clean crawl comes across every wanted delivery.
LEMMA CleanComesAcross ==
    ASSUME ViewInv, NEW x \in Crawl, clean[x], NEW q \in tree, Wanted(q)
    PROVE  ComesAcross(x, q)
<1>1. tree \subseteq Path /\ TreeClosed
  BY DEF ViewInv, CrawlInv, TypeOK
<1>2. /\ Parent(q) \in tree /\ Reached(Parent(q))
      /\ \A n \in {1, 3, 4, 5} : SubSeq(Parent(q), 1, n) = SubSeq(q, 1, n)
  BY <1>1, WantedIsFound
<1>3. ASSUME phase[x] = "walk"
      PROVE  Parent(q) \in found[x] \/ \E n \in {1, 3, 4, 5} : SubSeq(q, 1, n) \in todo[x]
  <2>1. Parent(q) \in found[x] \/ \E n \in {1, 3, 4, 5} : SubSeq(Parent(q), 1, n) \in todo[x]
    BY <1>2, <1>3 DEF ViewInv, View, Found
  <2> QED  BY <1>2, <2>1
<1>4. ASSUME phase[x] = "parse"
      PROVE  q \in todo[x] \/ Parent(q) \in todo[x] \/ q \in PathsOf(taken[x])
  BY <1>4 DEF ViewInv, View, LookedAt
<1> QED  BY <1>3, <1>4 DEF ComesAcross

\* What one crawl derives, the others derive, too.
LEMMA OthersDerive ==
    ASSUME ViewInv, StatusInv, Calm, NEW c \in Crawl, phase[c] = "post",
           NEW d \in taken[c], IsDerived(d), NEW x \in Crawl, x # c
    PROVE  Derives(x, d.path)
<1>1. Superseded(d.path)
  BY DEF Calm, CalmCrawl
<1>2. Derivable(d.path)
  BY DEF StatusInv, PostsFit, Fits, IsDerived
<1>3. phase[x] \in {"walk", "parse", "post"} => clean[x]
  <2>1. c \in Running
    BY DEF Running
  <2> QED  BY <2>1 DEF Running, Calm, CalmTogether
<1>4. ASSUME phase[x] \in {"walk", "parse"}
      PROVE  \E q \in tree : Supersedes(q, d.path) /\ ComesAcross(x, q)
  <2>1. PICK q \in tree : Supersedes(q, d.path)
    BY <1>1 DEF Superseded
  <2>2. ComesAcross(x, q)
    BY <1>3, <1>4, <2>1, CleanComesAcross DEF Supersedes
  <2> QED  BY <2>1, <2>2
<1>5. ASSUME phase[x] = "post", NEW e \in taken[x], e.path = d.path  PROVE IsDerived(e)
  BY <1>1, <1>2, <1>3, <1>5 DEF Calm, CalmCrawl
<1> QED  BY <1>4, <1>5 DEF Derives

\* The step of a crawl c that starts nothing.
LEMMA CalmStep ==
    ASSUME ViewInv, StatusInv, Calm, NEW c \in Crawl,
           tree' = tree, clean' = clean, WritesTaken(c),
           \A d \in Crawl \ {c} : /\ phase'[d] = phase[d] /\ todo'[d] = todo[d]
                                  /\ found'[d] = found[d] /\ taken'[d] = taken[d],
           phase'[c] \in {"walk", "parse", "post"} => c \in Running,
           CalmCrawl(c)'
    PROVE  Calm'
<1>1. CrawlInv
  BY DEF ViewInv
<1>2. CalmTogether'
  <2>1. \A d \in Crawl : d \in Running' => d \in Running
    BY DEF Running
  <2>2. Running' \subseteq Crawl
    BY DEF Running
  <2> QED  BY <2>1, <2>2 DEF Calm, CalmTogether
<1>3. \A p \in Path : RowDerived(p)' => Superseded(p)'
  <2> SUFFICES ASSUME NEW p \in Path, RowDerived(p)'  PROVE Superseded(p)'
    OBVIOUS
  <2>1. \/ RowDerived(p)
        \/ \E d \in taken[c] : phase[c] = "post" /\ d.path = p /\ IsDerived(d)
    BY <1>1, NewlyDerived
  <2>2. Superseded(p)
    BY <2>1 DEF Calm, CalmCrawl
  <2> QED  BY <2>2, SupersededKept
<1>4. ASSUME NEW x \in Crawl, x # c  PROVE CalmCrawl(x)'
  <2>1. ASSUME NEW p \in Path, RowDerived(p)'  PROVE RowDerived(p) \/ Derives(x, p)
    BY <1>1, <1>4, <2>1, NewlyDerived, OthersDerive
  <2>2. /\ CalmCrawl(x) /\ tree \subseteq tree'
        /\ phase'[x] = phase[x] /\ todo'[x] = todo[x] /\ found'[x] = found[x]
        /\ taken'[x] = taken[x]
        /\ clean'[x] => clean[x] /\ tree' = tree
    BY <1>4 DEF Calm
  <2> QED  BY <2>1, <2>2, CalmKept
<1> QED  BY <1>2, <1>3, <1>4 DEF Calm

\* A crawl that is over has nothing in hand.
LEMMA CalmOver ==
    ASSUME ViewInv, StatusInv, Calm, NEW c \in Crawl, tree' = tree, clean' = clean,
           WritesTaken(c),
           \A d \in Crawl \ {c} : /\ phase'[d] = phase[d] /\ todo'[d] = todo[d]
                                  /\ found'[d] = found[d] /\ taken'[d] = taken[d],
           phase'[c] \in {"idle", "done"}, taken'[c] = {}
    PROVE  Calm'
<1>1. CalmCrawl(c)'
  BY DEF CalmCrawl, PathsOf, Derives
<1>2. phase'[c] \in {"walk", "parse", "post"} => c \in Running
  OBVIOUS
<1> QED  BY <1>1, <1>2, CalmStep

LEMMA CalmAbandon ==
    ASSUME ViewInv, StatusInv, Calm, NEW c \in Crawl, Abandon(c), tree' = tree,
           clean' = clean, WritesTaken(c)
    PROVE  Calm'
<1>1. \A d \in Crawl \ {c} : /\ phase'[d] = phase[d] /\ todo'[d] = todo[d]
                             /\ found'[d] = found[d] /\ taken'[d] = taken[d]
  BY DEF ViewInv, CrawlInv, TypeOK, Abandon
<1>2. phase'[c] = "idle" /\ taken'[c] = {}
  BY DEF ViewInv, CrawlInv, TypeOK, Abandon
<1> QED  BY <1>1, <1>2, CalmOver

\* A crawl that posts.
LEMMA CalmPost ==
    ASSUME ViewInv, StatusInv, Calm, NEW c \in Crawl, tree' = tree, clean' = clean,
           WritesTaken(c),
           \A d \in Crawl \ {c} : /\ phase'[d] = phase[d] /\ todo'[d] = todo[d]
                                  /\ found'[d] = found[d] /\ taken'[d] = taken[d],
           phase[c] = "post", phase'[c] = "post", taken'[c] \subseteq taken[c]
    PROVE  Calm'
<1>1. CalmCrawl(c) /\ PostsFit(c) /\ CrawlInv
  BY DEF Calm, StatusInv, ViewInv
<1>2. PathsOf(taken'[c]) \subseteq tree'
  BY <1>1 DEF CalmCrawl, PathsOf
<1>3. \A p : Superseded(p)' = Superseded(p)
  BY DEF Superseded, Supersedes, Wanted
<1>4. \A d \in taken'[c] : IsDerived(d) => Superseded(d.path)'
  BY <1>1, <1>3 DEF CalmCrawl
<1>5. clean'[c] => \A d \in taken'[c] : Derivable(d.path) /\ Superseded(d.path)' => IsDerived(d)
  BY <1>1, <1>3 DEF CalmCrawl
<1>6. ASSUME NEW p \in Path, RowDerived(p)', NEW e \in taken'[c], e.path = p
      PROVE  IsDerived(e)
  <2>1. CASE RowDerived(p)
    BY <1>1, <1>6, <2>1 DEF CalmCrawl, Derives
  <2>2. ASSUME NEW d \in taken[c], d.path = p, IsDerived(d)  PROVE IsDerived(e)
    <3>1. e = d
      BY <1>1, <1>6, <2>2 DEF PostsFit
    <3> QED  BY <2>2, <3>1
  <2> QED  BY <1>1, <1>6, <2>1, <2>2, NewlyDerived
<1>7. \A p \in Path : RowDerived(p)' => Derives(c, p)'
  BY <1>6 DEF Derives
<1>8. CalmCrawl(c)'
  BY <1>2, <1>4, <1>5, <1>7 DEF CalmCrawl
<1>9. c \in Running
  BY DEF Running
<1> QED  BY <1>8, <1>9, CalmStep

\* A crawl that walks the share, or looks at directories, comes across what
\* it has been on its way to.
LEMMA CalmOnTheWay ==
    ASSUME ViewInv, StatusInv, Calm, NEW c \in Crawl, tree' = tree, clean' = clean,
           UNCHANGED <<rows, patched>>,
           \A d \in Crawl \ {c} : /\ phase'[d] = phase[d] /\ todo'[d] = todo[d]
                                  /\ found'[d] = found[d] /\ taken'[d] = taken[d],
           phase[c] \in {"walk", "parse"}, phase'[c] \in {"walk", "parse"},
           PathsOf(taken'[c]) \subseteq tree,
           \A q \in tree : Wanted(q) /\ ComesAcross(c, q) => ComesAcross(c, q)'
    PROVE  Calm'
<1>1. ASSUME NEW p \in Path, RowDerived(p)'  PROVE Derives(c, p)'
  <2>1. RowDerived(p)
    BY <1>1 DEF RowDerived
  <2>2. PICK q \in tree : Supersedes(q, p) /\ ComesAcross(c, q)
    BY <2>1 DEF Calm, CalmCrawl, Derives
  <2>3. ComesAcross(c, q)'
    BY <2>2 DEF Supersedes
  <2>4. Supersedes(q, p)' /\ q \in tree'
    BY <2>2, SupersedesKept
  <2> QED  BY <2>3, <2>4 DEF Derives
<1>2. CalmCrawl(c)'
  BY <1>1 DEF CalmCrawl
<1>3. c \in Running /\ WritesTaken(c)
  BY DEF Running, WritesTaken
<1> QED  BY <1>2, <1>3, CalmStep

LEMMA CalmScan ==
    ASSUME ViewInv, StatusInv, Calm, NEW c \in Crawl, Scan(c)
    PROVE  Calm'
<1> USE DEF shareVars, tableVars, histVars
<1>1. PICK d \in todo[c] :
         /\ todo' = [todo EXCEPT ![c] = (todo[c] \ {d}) \cup Descend(d)]
         /\ found' = [found EXCEPT ![c] = found[c] \cup Candidates(d)]
  BY DEF Scan, Deepest
<1>2. phase[c] = "walk" /\ UNCHANGED <<tree, phase, taken, rows, patched, clean>>
  BY DEF Scan
<1>3. /\ tree \subseteq Path /\ TreeClosed /\ taken[c] = {}
      /\ todo \in [Crawl -> SUBSET Seq(STRING)] /\ found \in [Crawl -> SUBSET Path]
  BY <1>2 DEF ViewInv, CrawlInv, TypeOK, InHand
<1>4. /\ todo'[c] = (todo[c] \ {d}) \cup Descend(d)
      /\ found'[c] = found[c] \cup Candidates(d)
      /\ \A e \in Crawl \ {c} : todo'[e] = todo[e] /\ found'[e] = found[e]
  BY <1>1, <1>3
<1>5. ASSUME NEW q \in tree, Wanted(q), ComesAcross(c, q)  PROVE ComesAcross(c, q)'
  <2>1. /\ Parent(q) \in tree /\ Reached(Parent(q))
        /\ \A n \in {1, 3, 4, 5} : SubSeq(Parent(q), 1, n) = SubSeq(q, 1, n)
    BY <1>3, <1>5, WantedIsFound
  <2>2. CASE Parent(q) \in found[c]
    BY <1>2, <1>4, <2>2 DEF ComesAcross
  <2>3. ASSUME NEW n \in {1, 3, 4, 5}, SubSeq(q, 1, n) \in todo[c], SubSeq(q, 1, n) # d
        PROVE  ComesAcross(c, q)'
    BY <1>2, <1>4, <2>3 DEF ComesAcross
  <2>4. ASSUME NEW n \in {1, 3, 4, 5}, SubSeq(q, 1, n) = d  PROVE ComesAcross(c, q)'
    <3> DEFINE r == Parent(q)
    <3>1. r \in tree /\ Reached(r) /\ SubSeq(r, 1, n) = d
      BY <2>1, <2>4
    <3>2. \A m \in {1, 3, 4, 5} : SubSeq(r, 1, m) = SubSeq(q, 1, m)
      BY <2>1
    <3> HIDE DEF r
    <3>3. \/ r \in Candidates(SubSeq(r, 1, n))
          \/ \E m \in {1, 3, 4, 5} : SubSeq(r, 1, m) \in Descend(SubSeq(r, 1, n))
      BY <1>3, <3>1, ListingLeadsOn
    <3>4. r \in found'[c] \/ \E m \in {1, 3, 4, 5} : SubSeq(q, 1, m) \in todo'[c]
      BY <1>4, <3>1, <3>2, <3>3
    <3> QED  BY <1>2, <3>4 DEF ComesAcross, r
  <2> QED  BY <1>2, <1>5, <2>2, <2>3, <2>4 DEF ComesAcross
<1>6. PathsOf(taken'[c]) \subseteq tree
  BY <1>2, <1>3 DEF PathsOf
<1> QED  BY <1>2, <1>4, <1>5, <1>6, CalmOnTheWay

LEMMA CalmWalkEnds ==
    ASSUME ViewInv, StatusInv, Calm, NEW c \in Crawl, WalkEnds(c)
    PROVE  Calm'
<1> USE DEF shareVars, tableVars, histVars
<1>1. /\ phase[c] = "walk" /\ todo[c] = {}
      /\ UNCHANGED <<tree, taken, rows, patched, clean>>
  BY DEF WalkEnds
<1>2. /\ phase'[c] = "parse" /\ todo'[c] = found[c]
      /\ \A e \in Crawl \ {c} : /\ phase'[e] = phase[e] /\ todo'[e] = todo[e]
                                /\ found'[e] = found[e]
  BY DEF WalkEnds, ViewInv, CrawlInv, TypeOK
<1>3. PathsOf(taken'[c]) \subseteq tree
  BY <1>1 DEF ViewInv, CrawlInv, InHand, PathsOf
<1>4. ASSUME NEW q \in tree, Wanted(q), ComesAcross(c, q)  PROVE ComesAcross(c, q)'
  BY <1>1, <1>2, <1>4 DEF ComesAcross
<1> QED  BY <1>1, <1>2, <1>3, <1>4, CalmOnTheWay

\* Crawl c looks at p; `subs` come next.
LEMMA CalmLook ==
    ASSUME ViewInv, StatusInv, Calm, NEW c \in Crawl, phase[c] = "parse",
           UNCHANGED <<tree, phase, found, rows, patched, clean>>,
           NEW p, NEW subs, todo' = [todo EXCEPT ![c] = (todo[c] \ {p}) \cup subs],
           NEW ds, taken' = [taken EXCEPT ![c] = taken[c] \cup ds],
           PathsOf(ds) \subseteq tree,
           Wanted(p) => p \in PathsOf(ds),
           \A q \in tree : Wanted(q) /\ Len(q) = 7 /\ Parent(q) = p => q \in subs
    PROVE  Calm'
<1>1. /\ todo \in [Crawl -> SUBSET Seq(STRING)] /\ taken \in [Crawl -> SUBSET Delivered]
      /\ tree \subseteq Path /\ TreeClosed
  BY DEF ViewInv, CrawlInv, TypeOK
<1>2. /\ todo'[c] = (todo[c] \ {p}) \cup subs /\ taken'[c] = taken[c] \cup ds
      /\ \A d \in Crawl \ {c} : /\ phase'[d] = phase[d] /\ todo'[d] = todo[d]
                                /\ found'[d] = found[d] /\ taken'[d] = taken[d]
  BY <1>1
<1>3. PathsOf(taken'[c]) = PathsOf(taken[c]) \cup PathsOf(ds)
  BY <1>2 DEF PathsOf
<1>4. PathsOf(taken'[c]) \subseteq tree
  BY <1>3 DEF Calm, CalmCrawl
<1>5. ASSUME NEW q \in tree, Wanted(q), ComesAcross(c, q)  PROVE ComesAcross(c, q)'
  <2> SUFFICES q \in todo'[c] \/ Parent(q) \in todo'[c] \/ q \in PathsOf(taken'[c])
    BY DEF ComesAcross
  <2>1. q \in todo[c] \/ Parent(q) \in todo[c] \/ q \in PathsOf(taken[c])
    BY <1>5 DEF ComesAcross
  <2>2. CASE q = p
    BY <1>3, <1>5, <2>2
  <2>3. CASE q # p /\ Parent(q) = p
    <3>1. Len(q) = 7
      BY <1>1, <1>5, <2>3, WantedIsFound DEF Wanted
    <3> QED  BY <1>2, <1>5, <2>3, <3>1
  <2>4. CASE q # p /\ Parent(q) # p
    BY <1>2, <1>3, <2>1, <2>4
  <2> QED  BY <2>2, <2>3, <2>4
<1>6. phase'[c] = "parse" /\ tree' = tree /\ clean' = clean /\ UNCHANGED <<rows, patched>>
  OBVIOUS
<1> QED  BY <1>2, <1>4, <1>5, <1>6, CalmOnTheWay

LEMMA CalmRejects ==
    ASSUME ViewInv, StatusInv, Calm, NEW c \in Crawl, NEW p \in todo[c],
           Rejects(c, p) \/ NoSub(c, p)
    PROVE  Calm'
<1> USE DEF shareVars, tableVars, histVars
<1>1. /\ phase[c] = "parse"
      /\ \/ Len(p) = 6 /\ ~IsDelivery(p)
         \/ Len(p) = 7 /\ p \notin tree
      /\ todo' = [todo EXCEPT ![c] = todo[c] \ {p}]
      /\ UNCHANGED <<tree, phase, found, taken, rows, patched, clean>>
  BY DEF Rejects, NoSub, LooksAt
<1>2. /\ todo \in [Crawl -> SUBSET Seq(STRING)] /\ taken \in [Crawl -> SUBSET Delivered]
      /\ tree \subseteq Path /\ TreeClosed
  BY DEF ViewInv, CrawlInv, TypeOK
<1>3. ~Wanted(p)
  BY <1>1 DEF Wanted
<1>4. ASSUME NEW q \in tree, Wanted(q), Len(q) = 7, Parent(q) = p  PROVE FALSE
  <2>1. q \in Seq(STRING)
    BY <1>2, PathIsSeq
  <2>2. SaysTheSame(Parent(q), q) /\ Len(Parent(q)) = 6
    BY <1>4, <2>1, ParentOfSub
  <2>3. IsDelivery(p) = IsDelivery(q)
    BY <1>4, <2>2, SameWords
  <2> QED  BY <1>1, <1>4, <2>2, <2>3 DEF Wanted
<1> DEFINE none == {}
<1>5. /\ todo' = [todo EXCEPT ![c] = (todo[c] \ {p}) \cup none]
      /\ taken' = [taken EXCEPT ![c] = taken[c] \cup none]
  BY <1>1, <1>2
<1>6. PathsOf(none) \subseteq tree
  BY DEF PathsOf
<1> HIDE DEF none
<1>7. /\ Wanted(p) => p \in PathsOf(none)
      /\ \A q \in tree : Wanted(q) /\ Len(q) = 7 /\ Parent(q) = p => q \in none
  BY <1>3, <1>4
<1> QED  BY <1>1, <1>5, <1>6, <1>7, CalmLook

LEMMA CalmTake ==
    ASSUME ViewInv, StatusInv, Calm, NEW c \in Crawl, phase[c] = "parse", NEW p \in tree,
           NEW l, NEW subs, Take(c, p, l, subs),
           \A q \in tree : Wanted(q) /\ Len(q) = 7 /\ Parent(q) = p => q \in subs
    PROVE  Calm'
<1> USE DEF shareVars, tableVars, histVars
<1> DEFINE r == [path |-> p, lexicon |-> l, status |-> DirMap[Lexicon(p)][Terminal(p)]]
           ds == {r}
<1>1. /\ taken' = [taken EXCEPT ![c] = taken[c] \cup ds]
      /\ todo' = [todo EXCEPT ![c] = (todo[c] \ {p}) \cup subs]
      /\ UNCHANGED <<tree, phase, found, rows, patched, clean>>
  BY DEF Take
<1>2. r.path = p
  OBVIOUS
<1> HIDE DEF r
<1>3. PathsOf(ds) = {p}
  BY <1>2 DEF PathsOf
<1> HIDE DEF ds
<1>4. PathsOf(ds) \subseteq tree /\ (Wanted(p) => p \in PathsOf(ds))
  BY <1>3
<1> QED  BY <1>1, <1>4, CalmLook

LEMMA CalmTakes ==
    ASSUME ViewInv, StatusInv, Calm, NEW c \in Crawl, NEW p \in todo[c],
           Takes(c, p) \/ TakesSub(c, p)
    PROVE  Calm'
<1>1. phase[c] = "parse" /\ p \in tree /\ tree \subseteq Path
  BY DEF Takes, TakesSub, LooksAt, ViewInv, CrawlInv, TypeOK
<1>2. CASE Takes(c, p)
  <2> DEFINE subs == {Append(p, n) : n \in DOMAIN SubDirs[Lexicon(p)]}
  <2>1. Take(c, p, Lexicon(p), subs)
    BY <1>2 DEF Takes
  <2>2. ASSUME NEW q \in tree, Wanted(q), Len(q) = 7, Parent(q) = p  PROVE q \in subs
    <3>1. q \in Seq(STRING)
      BY <1>1, PathIsSeq
    <3>2. SaysTheSame(Parent(q), q) /\ q = Append(Parent(q), q[7])
      BY <2>2, <3>1, ParentOfSub
    <3>3. Lexicon(p) = Lexicon(q)
      BY <2>2, <3>2, SameWords
    <3>4. q[7] \in DOMAIN SubDirs[Lexicon(p)]
      BY <2>2, <3>3 DEF Wanted
    <3> QED  BY <2>2, <3>2, <3>4
  <2> HIDE DEF subs
  <2> QED  BY <1>1, <2>1, <2>2, CalmTake
<1>3. CASE TakesSub(c, p)
  <2>1. Take(c, p, SubDirs[Lexicon(p)][p[7]], {}) /\ Len(p) = 7
    BY <1>3 DEF TakesSub
  <2>2. ASSUME NEW q \in tree, Len(q) = 7, Parent(q) = p  PROVE FALSE
    BY <1>1, <2>1, <2>2, PathIsSeq, ParentOfSub
  <2> QED  BY <1>1, <2>1, <2>2, CalmTake
<1> QED  BY <1>2, <1>3

\* The hook changes the status of a delivery just if it may, and a higher
\* version has been taken.
LEMMA DerivedJust ==
    ASSUME CrawlInv, NEW c \in Crawl, phase[c] = "parse", PathsOf(taken[c]) \subseteq tree,
           NEW d \in taken[c]
    PROVE  IsDerived(Derived(taken[c], d)) <=>
              /\ Derivable(d.path)
              /\ \E q \in PathsOf(taken[c]) : Supersedes(q, d.path)
<1> DEFINE G == Group(taken[c], d)
<1>1. /\ taken[c] \subseteq Delivered /\ tree \subseteq Path
      /\ \A e \in taken[c] : /\ Deliverable(e.path) /\ e.lexicon = LexiconOf(e.path)
                             /\ e.status = Mapped(e.path)
  BY DEF CrawlInv, TypeOK, InHand
<1>2. \A e \in taken[c] : e.path \in tree
  BY DEF PathsOf
<1>3. \A e \in taken[c] : Wanted(e.path) /\ Version(e) \in Digits
  <2> TAKE e \in taken[c]
  <2>1. e.path \in tree /\ e.path \in Path /\ Deliverable(e.path)
    BY <1>1, <1>2
  <2> QED  BY <1>1, <2>1, WantedIsDeliverable, DeliverableType DEF Version
<1>4. \A e \in taken[c] : e \in G /\ Below(Version(d), Version(e)) <=> Supersedes(e.path, d.path)
  <2> TAKE e \in taken[c]
  <2>1. Version(d) = Says(d.path).version /\ Version(e) = Says(e.path).version
    BY DEF Version
  <2>2. e.lexicon = d.lexicon <=> LexiconOf(e.path) = LexiconOf(d.path)
    BY <1>1
  <2>3. GroupKey(e) = GroupKey(d) <=> /\ Says(e.path).workplan = Says(d.path).workplan
                                      /\ Says(e.path).dp = Says(d.path).dp
    BY DEF GroupKey
  <2>4. e \in G <=> e.lexicon = d.lexicon /\ GroupKey(e) = GroupKey(d)
    BY DEF Group
  <2> HIDE DEF G
  <2> QED  BY <1>3, <2>1, <2>2, <2>3, <2>4 DEF Supersedes
<1>5. G \subseteq taken[c] /\ d \in G
  BY DEF Group
<1>6. Derived(taken[c], d) =
         IF d.lexicon \in Hooked /\ d.status = "pending" /\ Version(d) # Highest(G)
           THEN [d EXCEPT !.status = "failed"] ELSE d
  BY DEF Derived
<1> HIDE DEF G
<1>7. IsFiniteSet(G)
  BY <1>5, TakenOnce, FS_Subset
<1>8. Version(d) # Highest(G) <=> \E e \in G : Below(Version(d), Version(e))
  <2>1. \A e \in G : Version(e) \in Digits
    BY <1>3, <1>5
  <2> QED  BY <1>5, <1>7, <2>1, NotHighest
<1>9. Version(d) # Highest(G) <=> \E q \in PathsOf(taken[c]) : Supersedes(q, d.path)
  BY <1>4, <1>5, <1>8 DEF PathsOf
<1>10. d \in Delivered /\ d.lexicon = LexiconOf(d.path) /\ d.status = Mapped(d.path)
  BY <1>1
<1>11. /\ [d EXCEPT !.status = "failed"].status = "failed"
       /\ [d EXCEPT !.status = "failed"].path = d.path
  BY <1>10 DEF Delivered
<1> DEFINE Outdone == \E q \in PathsOf(taken[c]) : Supersedes(q, d.path)
<1>12. CASE Derivable(d.path) /\ Outdone
  <2>1. Derived(taken[c], d) = [d EXCEPT !.status = "failed"]
    BY <1>6, <1>9, <1>10, <1>12 DEF Derivable
  <2>2. Mapped(d.path) = "pending"
    BY <1>12 DEF Derivable
  <2> QED  BY <1>11, <1>12, <2>1, <2>2 DEF IsDerived
<1>13. CASE ~(Derivable(d.path) /\ Outdone)
  <2>1. Derived(taken[c], d) = d
    BY <1>6, <1>9, <1>10, <1>13 DEF Derivable
  <2>2. ~IsDerived(d)
    BY <1>10 DEF IsDerived
  <2> QED  BY <1>13, <2>1, <2>2
<1> QED  BY <1>12, <1>13

LEMMA CalmDerive ==
    ASSUME ViewInv, StatusInv, Calm, NEW c \in Crawl, Derive(c)
    PROVE  Calm'
<1> USE DEF shareVars, tableVars, histVars
<1> DEFINE ds == {Derived(taken[c], d) : d \in taken[c]}
<1>1. /\ phase[c] = "parse" /\ todo[c] = {}
      /\ phase' = [phase EXCEPT ![c] = "post"]
      /\ taken' = [taken EXCEPT ![c] = ds]
      /\ UNCHANGED <<tree, todo, found, rows, patched, clean>>
  BY DEF Derive
<1>2. /\ phase \in [Crawl -> {"idle", "walk", "parse", "post", "done"}]
      /\ taken \in [Crawl -> SUBSET Delivered] /\ CrawlInv
      /\ PathsOf(taken[c]) \subseteq tree
  BY DEF ViewInv, CrawlInv, TypeOK, Calm, CalmCrawl
<1>3. ASSUME NEW e \in ds
      PROVE  \E d \in taken[c] :
                /\ e.path = d.path
                /\ IsDerived(e) <=> /\ Derivable(d.path)
                                    /\ \E q \in PathsOf(taken[c]) : Supersedes(q, d.path)
  <2>1. PICK d \in taken[c] : e = Derived(taken[c], d)
    OBVIOUS
  <2>2. d \in Delivered
    BY <1>2
  <2>3. e.path = d.path
    BY <2>1, <2>2, DerivedType
  <2>4. IsDerived(e) <=> /\ Derivable(d.path)
                         /\ \E q \in PathsOf(taken[c]) : Supersedes(q, d.path)
    BY <1>1, <1>2, <2>1, DerivedJust
  <2> QED  BY <2>3, <2>4
<1> HIDE DEF ds
<1>4. ASSUME NEW e \in ds
      PROVE  /\ e.path \in tree
             /\ IsDerived(e) <=> /\ Derivable(e.path)
                                 /\ \E q \in PathsOf(taken[c]) : Supersedes(q, e.path)
  <2>1. PICK d \in taken[c] :
                /\ e.path = d.path
                /\ IsDerived(e) <=> /\ Derivable(d.path)
                                    /\ \E q \in PathsOf(taken[c]) : Supersedes(q, d.path)
    BY <1>3
  <2>2. d.path \in tree
    BY <1>2 DEF PathsOf
  <2> QED  BY <2>1, <2>2
<1>5. /\ phase'[c] = "post" /\ taken'[c] = ds
      /\ tree' = tree /\ clean' = clean /\ UNCHANGED <<rows, patched>>
      /\ \A d \in Crawl \ {c} : /\ phase'[d] = phase[d] /\ todo'[d] = todo[d]
                                /\ found'[d] = found[d] /\ taken'[d] = taken[d]
  BY <1>1, <1>2
<1>6. \A p : Superseded(p)' = Superseded(p)
  BY <1>5 DEF Superseded, Supersedes, Wanted
<1>7. PathsOf(taken'[c]) \subseteq tree'
  BY <1>4, <1>5 DEF PathsOf
<1>8. \A e \in taken'[c] : IsDerived(e) => Superseded(e.path)'
  <2>1. \A e \in ds : IsDerived(e) => Superseded(e.path)
    BY <1>2, <1>4 DEF Superseded
  <2> QED  BY <1>5, <1>6, <2>1
<1>9. ASSUME clean'[c], NEW e \in taken'[c], Derivable(e.path), Superseded(e.path)'
      PROVE  IsDerived(e)
  <2>1. LookedAt(c)
    BY <1>1, <1>5, <1>9 DEF ViewInv, View
  <2>2. PICK q \in tree : Supersedes(q, e.path)
    BY <1>6, <1>9 DEF Superseded
  <2>3. q \in PathsOf(taken[c])
    BY <1>1, <1>2, <2>1, <2>2, TakenIsWanted DEF Supersedes, PathsOf
  <2> QED  BY <1>4, <1>5, <1>9, <2>2, <2>3
<1>10. ASSUME NEW p \in Path, RowDerived(p)', NEW e \in taken'[c], e.path = p
       PROVE  IsDerived(e)
  <2>1. RowDerived(p)
    BY <1>5, <1>10 DEF RowDerived
  <2>2. PICK q \in tree : Supersedes(q, p) /\ ComesAcross(c, q)
    BY <1>1, <2>1 DEF Calm, CalmCrawl, Derives
  <2>3. q \in PathsOf(taken[c])
    BY <1>1, <2>2 DEF ComesAcross
  <2>4. Derivable(p)
    BY <2>1 DEF StatusInv, Fits, RowDerived
  <2> QED  BY <1>4, <1>5, <1>10, <2>2, <2>3, <2>4
<1>11. \A p \in Path : RowDerived(p)' => Derives(c, p)'
  BY <1>5, <1>10 DEF Derives
<1>12. CalmCrawl(c)'
  BY <1>7, <1>8, <1>9, <1>11 DEF CalmCrawl
<1>13. c \in Running /\ WritesTaken(c)
  BY <1>1, <1>5 DEF Running, WritesTaken
<1> QED  BY <1>5, <1>12, <1>13, CalmStep

\* A crawl that begins while all others are clean comes across every version
\* that outdoes another.
LEMMA CalmBegin ==
    ASSUME ViewInv, StatusInv, Calm, NEW c \in Crawl, Begin(c), ~disturbed'
    PROVE  Calm'
<1> USE DEF shareVars, tableVars
<1>1. /\ phase' = [phase EXCEPT ![c] = "walk"]
      /\ todo' = [todo EXCEPT ![c] = {d \in tree : Len(d) = 1}]
      /\ clean' = [clean EXCEPT ![c] = \A d \in Running : clean[d]]
      /\ phase[c] \in {"idle", "done"}
      /\ UNCHANGED <<tree, found, taken, rows, patched>>
  BY DEF Begin
<1>2. \A d \in Running : clean[d]
  BY DEF Begin
<1>3. /\ tree \subseteq Path /\ TreeClosed
      /\ clean \in [Crawl -> BOOLEAN]
      /\ phase \in [Crawl -> {"idle", "walk", "parse", "post", "done"}]
      /\ todo \in [Crawl -> SUBSET Seq(STRING)]
      /\ taken[c] = {}
  BY <1>1 DEF ViewInv, CrawlInv, TypeOK, InHand
<1>4. /\ phase'[c] = "walk" /\ todo'[c] = {d \in tree : Len(d) = 1}
      /\ clean'[c]
      /\ \A d \in Crawl \ {c} : phase'[d] = phase[d] /\ todo'[d] = todo[d] /\ clean'[d] = clean[d]
  BY <1>1, <1>2, <1>3
<1>5. CalmTogether'
  <2>1. \A d \in Running' : d \in Crawl /\ (d = c \/ d \in Running)
    BY <1>4 DEF Running
  <2>2. \A d \in Running' : clean'[d]
    BY <1>2, <1>4, <2>1
  <2> QED  BY <2>2 DEF CalmTogether
<1>6. \A p \in Path : RowDerived(p)' => RowDerived(p) /\ Superseded(p)
  BY <1>1 DEF RowDerived, Calm
<1>7. \A p \in Path : RowDerived(p)' => Superseded(p)'
  BY <1>1, <1>6, SupersededKept
<1>8. ASSUME NEW d \in Crawl, d # c  PROVE CalmCrawl(d)'
  <2>1. /\ CalmCrawl(d) /\ tree \subseteq tree'
        /\ phase'[d] = phase[d] /\ todo'[d] = todo[d] /\ found'[d] = found[d]
        /\ taken'[d] = taken[d]
        /\ clean'[d] => clean[d] /\ tree' = tree
    BY <1>1, <1>4, <1>8 DEF Calm
  <2>2. \A p \in Path : RowDerived(p)' => RowDerived(p) \/ Derives(d, p)
    BY <1>6
  <2> QED  BY <2>1, <2>2, CalmKept
<1>9. ASSUME NEW p \in Path, RowDerived(p)'  PROVE Derives(c, p)'
  <2>1. PICK q \in tree : Supersedes(q, p)
    BY <1>6, <1>9 DEF Superseded
  <2>2. q \in Seq(STRING) /\ 1 \in 1..Len(q)
    BY <1>3, PathIsSeq
  <2>3. SubSeq(q, 1, 1) \in tree /\ Len(SubSeq(q, 1, 1)) = 1
    BY <1>3, <2>2, Prefix DEF TreeClosed
  <2>4. SubSeq(q, 1, 1) \in todo'[c]
    BY <1>4, <2>3
  <2>5. ComesAcross(c, q)'
    BY <1>4, <2>4 DEF ComesAcross
  <2>6. Supersedes(q, p)' /\ q \in tree'
    BY <1>1, <2>1, SupersedesKept
  <2>7. phase'[c] # "post"
    BY <1>4
  <2> QED  BY <2>5, <2>6, <2>7 DEF Derives
<1>10. CalmCrawl(c)'
  <2>1. taken'[c] = {} /\ phase'[c] # "post"
    BY <1>1, <1>3, <1>4
  <2> QED  BY <1>9, <2>1 DEF CalmCrawl, PathsOf
<1> QED  BY <1>5, <1>7, <1>8, <1>10 DEF Calm

\* The share grows while at most one crawl is under way.
LEMMA CalmShare ==
    ASSUME CrawlInv, Calm, ShareStep, ~disturbed'
    PROVE  Calm'
<1>1. PICK dirs : Becomes(dirs)
  BY DEF ShareStep, Appears, Vanishes, Renamed
<1>2. /\ tree \subseteq tree' /\ clean' = [c \in Crawl |-> FALSE]
      /\ UNCHANGED <<phase, todo, found, taken, rows, patched>>
      /\ ~(Cardinality(Running) > 1)
  BY <1>1 DEF Becomes, crawlVars, tableVars
<1>3. \A c, d \in Running : c = d
  <2> SUFFICES ASSUME NEW c \in Running, NEW d \in Running, c # d  PROVE FALSE
    OBVIOUS
  <2>1. IsFiniteSet(Running)
    <3>1. Running \subseteq Crawl
      BY DEF Running
    <3> QED  BY <3>1, CrawlBoundAssumption, FS_Subset
  <2>2. {c, d} \subseteq Running
    OBVIOUS
  <2>3. Cardinality({c, d}) <= Cardinality(Running) /\ IsFiniteSet({c, d})
    BY <2>1, <2>2, FS_Subset
  <2>4. Cardinality({c}) = 1 /\ IsFiniteSet({c})
    BY FS_Singleton
  <2>5. Cardinality({c} \cup {d}) = Cardinality({c}) + 1
    BY <2>4, FS_AddElement
  <2>6. {c} \cup {d} = {c, d}
    OBVIOUS
  <2>7. Cardinality(Running) \in Nat
    BY <2>1, FS_CardinalityType
  <2> QED  BY <1>2, <2>3, <2>4, <2>5, <2>6, <2>7
<1>4. CalmTogether'
  <2>1. Running' = Running
    BY <1>2 DEF Running
  <2> QED  BY <1>3, <2>1 DEF CalmTogether
<1>5. \A p \in Path : RowDerived(p)' => RowDerived(p)
  BY <1>2 DEF RowDerived
<1>6. \A p \in Path : RowDerived(p)' => Superseded(p)'
  BY <1>2, <1>5, SupersededKept DEF Calm
<1>7. ASSUME NEW d \in Crawl  PROVE CalmCrawl(d)'
  <2>1. /\ CalmCrawl(d) /\ tree \subseteq tree'
        /\ phase'[d] = phase[d] /\ todo'[d] = todo[d] /\ found'[d] = found[d]
        /\ taken'[d] = taken[d]
        /\ clean'[d] => clean[d] /\ tree' = tree
    BY <1>2 DEF Calm
  <2>2. \A p \in Path : RowDerived(p)' => RowDerived(p) \/ Derives(d, p)
    BY <1>5
  <2> QED  BY <2>1, <2>2, CalmKept
<1> QED  BY <1>4, <1>6, <1>7 DEF Calm

LEMMA CalmRest ==
    ASSUME CrawlInv, Calm, UNCHANGED <<tree, phase, todo, found, taken, clean>>,
           UNCHANGED <<rows, patched>> \/ Patched
    PROVE  Calm'
<1>1. CalmTogether'
  BY DEF Calm, CalmTogether, Running
<1>2. \A p \in Path : RowDerived(p)' => RowDerived(p)
  <2>1. CASE UNCHANGED <<rows, patched>>
    BY <2>1 DEF RowDerived
  <2>2. ASSUME NEW q \in Path, NEW s \in Status, Patch(q, s), NEW p \in Path, RowDerived(p)'
        PROVE  RowDerived(p)
    <3>1. rows = [x \in Path |-> rows[x]]
      BY DEF CrawlInv, TypeOK
    <3> QED  BY <2>2, <3>1, PatchWrites DEF RowDerived
  <2> QED  BY <2>1, <2>2 DEF Patched
<1>3. \A p \in Path : RowDerived(p)' => Superseded(p)'
  BY <1>2, SupersededKept DEF Calm
<1>4. ASSUME NEW d \in Crawl  PROVE CalmCrawl(d)'
  <2>1. /\ CalmCrawl(d) /\ tree \subseteq tree'
        /\ phase'[d] = phase[d] /\ todo'[d] = todo[d] /\ found'[d] = found[d]
        /\ taken'[d] = taken[d]
        /\ clean'[d] => clean[d] /\ tree' = tree
    BY DEF Calm
  <2>2. \A p \in Path : RowDerived(p)' => RowDerived(p) \/ Derives(d, p)
    BY <1>2
  <2> QED  BY <2>1, <2>2, CalmKept
<1> QED  BY <1>1, <1>3, <1>4 DEF Calm

\* Only Derive changes what is to be posted, and only what is to be posted
\* is written.
LEMMA StepWrites ==
    ASSUME CrawlInv, [Next]_vars, \A c \in Crawl : ~Derive(c)
    PROVE  /\ UNCHANGED <<rows, patched>> \/ Patched \/ \E c \in Crawl : WritesTaken(c)
           /\ \A d \in Crawl : phase'[d] = "post" =>
                                  phase[d] = "post" /\ taken'[d] \subseteq taken[d]
<1> USE DEF shareVars, crawlVars, diskVars, tableVars, histVars
<1> DEFINE Writes == UNCHANGED <<rows, patched>> \/ Patched \/ \E c \in Crawl : WritesTaken(c)
           Posting(d) == phase'[d] = "post" =>
                            phase[d] = "post" /\ taken'[d] \subseteq taken[d]
<1>1. /\ phase \in [Crawl -> {"idle", "walk", "parse", "post", "done"}]
      /\ taken \in [Crawl -> SUBSET Delivered]
  BY DEF CrawlInv, TypeOK
<1>2. ASSUME ShareStep \/ RegistryRestart \/ UNCHANGED vars
      PROVE  Writes /\ \A d \in Crawl : Posting(d)
  <2>1. UNCHANGED <<rows, patched>> /\ phase' = phase /\ taken' = taken
    BY <1>2 DEF ShareStep, Appears, Vanishes, Renamed, Becomes, RegistryRestart, vars
  <2> QED  BY <2>1
<1>10. ASSUME NEW q \in Path, NEW s \in Status, Patch(q, s)
       PROVE  Writes /\ \A d \in Crawl : Posting(d)
  <2>1. Patched /\ phase' = phase /\ taken' = taken
    BY <1>10 DEF Patch, Patched
  <2> QED  BY <2>1
<1>3. ASSUME NEW c \in Crawl, Abandon(c)  PROVE \A d \in Crawl : Posting(d)
  <2> SUFFICES ASSUME NEW d \in Crawl  PROVE Posting(d)
    OBVIOUS
  <2>1. CASE d = c
    BY <1>1, <1>3, <2>1 DEF Abandon
  <2>2. CASE d # c
    BY <1>1, <1>3, <2>2 DEF Abandon
  <2> QED  BY <2>1, <2>2
<1>4. ASSUME NEW c \in Crawl,
             Begin(c) \/ Scan(c) \/ ScanFails(c) \/ WalkEnds(c) \/ CrawlEnds(c)
      PROVE  Writes /\ \A d \in Crawl : Posting(d)
  <2>1. /\ UNCHANGED <<rows, patched>> /\ taken' = taken
        /\ \/ phase' = phase
           \/ phase' = [phase EXCEPT ![c] = "walk"]
           \/ phase' = [phase EXCEPT ![c] = "parse"]
           \/ phase' = [phase EXCEPT ![c] = "done"]
    BY <1>4 DEF Begin, Scan, ScanFails, WalkEnds, CrawlEnds
  <2>2. \A d \in Crawl : phase'[d] = "post" => phase[d] = "post"
    BY <1>1, <2>1
  <2> QED  BY <2>1, <2>2
<1>5. ASSUME NEW c \in Crawl, NEW p \in todo[c],
             Rejects(c, p) \/ NoSub(c, p) \/ Takes(c, p) \/ TakesSub(c, p)
      PROVE  Writes /\ \A d \in Crawl : Posting(d)
  <2>1. /\ phase[c] = "parse" /\ UNCHANGED <<rows, patched>> /\ phase' = phase
        /\ \A d \in Crawl \ {c} : taken'[d] = taken[d]
    BY <1>1, <1>5 DEF Rejects, NoSub, Takes, TakesSub, Take, LooksAt
  <2>2. \A d \in Crawl : Posting(d)
    BY <2>1
  <2> QED  BY <2>1, <2>2
<1>6. ASSUME NEW c \in Crawl, NEW p, TakeRaises(c, p) \/ PostRefused(c, p) \/ Die(c)
      PROVE  Writes /\ \A d \in Crawl : Posting(d)
  <2>1. Abandon(c) /\ UNCHANGED <<rows, patched>>
    BY <1>6 DEF TakeRaises, PostRefused, Die
  <2> HIDE DEF Posting
  <2> QED  BY <1>3, <2>1
<1>7. ASSUME NEW c \in Crawl, NEW d \in taken[c], PostAnswered(c, d)
      PROVE  Writes /\ \A x \in Crawl : Posting(x)
  <2>1. phase[c] = "post" /\ Upsert(d) /\ phase' = phase
    BY <1>7 DEF PostAnswered, Posts
  <2>2. \A x \in Crawl : taken'[x] \subseteq taken[x]
    BY <1>1, <1>7 DEF PostAnswered
  <2>3. Writes
    BY <2>1 DEF WritesTaken
  <2> QED  BY <2>1, <2>2, <2>3
<1>8. ASSUME NEW c \in Crawl, NEW d \in taken[c], PostFails(c, d)
      PROVE  Writes /\ \A x \in Crawl : Posting(x)
  <2>1. phase[c] = "post" /\ (UNCHANGED <<rows, patched>> \/ Upsert(d))
    BY <1>8 DEF PostFails, Posts
  <2>2. Abandon(c) \/ (phase' = phase /\ taken' = taken)
    BY <1>8 DEF PostFails
  <2>3. Writes
    BY <2>1 DEF WritesTaken
  <2>4. phase' = phase /\ taken' = taken => \A x \in Crawl : Posting(x)
    OBVIOUS
  <2> HIDE DEF Posting, Writes
  <2> QED  BY <1>3, <2>2, <2>3, <2>4
<1> HIDE DEF Posting, Writes
<1>9. Writes /\ \A d \in Crawl : Posting(d)
  BY <1>2, <1>4, <1>5, <1>6, <1>7, <1>8, <1>10 DEF Next, CrawlStep, ParseStep, PostStep
<1> QED  BY <1>9 DEF Posting, Writes

LEMMA StatusStep == CrawlInv /\ StatusInv /\ [Next]_vars => StatusInv'
<1> SUFFICES ASSUME CrawlInv, StatusInv, [Next]_vars  PROVE StatusInv'
  OBVIOUS
<1>1. CASE \E c \in Crawl : Derive(c)
  BY <1>1, StatusDerived
<1>2. CASE \A c \in Crawl : ~Derive(c)
  <2>1. /\ UNCHANGED <<rows, patched>> \/ Patched \/ \E c \in Crawl : WritesTaken(c)
        /\ \A d \in Crawl : phase'[d] = "post" =>
                               phase[d] = "post" /\ taken'[d] \subseteq taken[d]
    BY <1>2, StepWrites
  <2> QED  BY <2>1, StatusKept
<1> QED  BY <1>1, <1>2

LEMMA CalmNext ==
    ASSUME ViewInv, StatusInv, ~disturbed => Calm, [Next]_vars, ~disturbed'
    PROVE  Calm'
<1> USE DEF shareVars, crawlVars, diskVars, tableVars, histVars
<1>1. CrawlInv
  BY DEF ViewInv
<1>2. CASE ShareStep
  <2>1. ~disturbed
    BY <1>2 DEF ShareStep, Appears, Vanishes, Renamed, Becomes
  <2> QED  BY <1>1, <1>2, <2>1, CalmShare
<1>3. CASE RegistryRestart \/ UNCHANGED vars
  <2>1. UNCHANGED <<tree, phase, todo, found, taken, rows, patched, clean, disturbed>>
    BY <1>3 DEF RegistryRestart, vars
  <2> QED  BY <1>1, <2>1, CalmRest
<1>11. ASSUME Patched  PROVE Calm'
  <2>1. UNCHANGED <<tree, phase, todo, found, taken, clean, disturbed>>
    BY <1>11 DEF Patched, Patch
  <2> QED  BY <1>1, <1>11, <2>1, CalmRest
<1>4. ASSUME NEW c \in Crawl, Begin(c)  PROVE Calm'
  <2>1. ~disturbed
    BY <1>4 DEF Begin
  <2> QED  BY <1>4, <2>1, CalmBegin
<1>5. ASSUME NEW c \in Crawl, ScanFails(c)  PROVE FALSE
  BY <1>5 DEF ScanFails
<1>6. ASSUME NEW c \in Crawl,
             Scan(c) \/ WalkEnds(c) \/ (\E p \in todo[c] : Rejects(c, p) \/ NoSub(c, p)
               \/ Takes(c, p) \/ TakesSub(c, p)) \/ Derive(c)
      PROVE  Calm'
  <2>1. ~disturbed
    BY <1>6 DEF Scan, WalkEnds, Rejects, NoSub, Takes, TakesSub, Take, Derive
  <2> QED  BY <1>6, <2>1, CalmScan, CalmWalkEnds, CalmRejects, CalmTakes, CalmDerive
<1>7. ASSUME NEW c \in Crawl, NEW p, TakeRaises(c, p) \/ PostRefused(c, p) \/ Die(c)
      PROVE  Calm'
  <2>1. /\ Abandon(c) /\ tree' = tree /\ clean' = clean /\ UNCHANGED <<rows, patched>>
        /\ disturbed' = disturbed
    BY <1>7 DEF TakeRaises, PostRefused, Die
  <2>2. WritesTaken(c) /\ Calm
    BY <2>1 DEF WritesTaken
  <2> QED  BY <2>1, <2>2, CalmAbandon
<1>8. ASSUME NEW c \in Crawl, NEW d \in taken[c], PostAnswered(c, d)  PROVE Calm'
  <2>1. /\ phase[c] = "post" /\ Upsert(d)
        /\ UNCHANGED <<tree, phase, todo, found, clean, disturbed>>
        /\ taken' = [taken EXCEPT ![c] = taken[c] \ {d}]
    BY <1>8 DEF PostAnswered, Posts
  <2>2. /\ taken'[c] \subseteq taken[c]
        /\ \A x \in Crawl \ {c} : taken'[x] = taken[x]
    BY <1>1, <2>1 DEF CrawlInv, TypeOK
  <2>3. WritesTaken(c) /\ Calm
    BY <2>1 DEF WritesTaken
  <2> QED  BY <2>1, <2>2, <2>3, CalmPost
<1>9. ASSUME NEW c \in Crawl, NEW d \in taken[c], PostFails(c, d)  PROVE Calm'
  <2>1. /\ phase[c] = "post" /\ (UNCHANGED <<rows, patched>> \/ Upsert(d))
        /\ UNCHANGED <<tree, clean, disturbed>>
    BY <1>9 DEF PostFails, Posts
  <2>2. WritesTaken(c) /\ Calm
    BY <2>1 DEF WritesTaken
  <2>3. CASE Abandon(c)
    BY <2>1, <2>2, <2>3, CalmAbandon
  <2>4. CASE UNCHANGED <<phase, todo, found, taken>>
    BY <2>1, <2>2, <2>4, CalmPost
  <2> QED  BY <1>9, <2>3, <2>4 DEF PostFails
<1>10. ASSUME NEW c \in Crawl, CrawlEnds(c)  PROVE Calm'
  <2>1. /\ phase' = [phase EXCEPT ![c] = "done"] /\ taken[c] = {}
        /\ UNCHANGED <<tree, todo, found, taken, rows, patched, clean, disturbed>>
    BY <1>10 DEF CrawlEnds
  <2>2. phase'[c] = "done" /\ \A d \in Crawl \ {c} : phase'[d] = phase[d]
    BY <1>1, <2>1 DEF CrawlInv, TypeOK
  <2>3. WritesTaken(c) /\ Calm
    BY <2>1 DEF WritesTaken
  <2> QED  BY <2>1, <2>2, <2>3, CalmOver
<1> QED  BY <1>2, <1>3, <1>4, <1>5, <1>6, <1>7, <1>8, <1>9, <1>10, <1>11
         DEF Next, Patched, CrawlStep, ParseStep, PostStep

LEMMA ForwardInvStep == ForwardInv /\ [Next]_vars => ForwardInv'
<1> SUFFICES ASSUME ForwardInv, [Next]_vars  PROVE ForwardInv'
  OBVIOUS
<1>1. ViewInv /\ StatusInv /\ CrawlInv /\ (~disturbed => Calm)
  BY DEF ForwardInv, ViewInv
<1>2. ViewInv' /\ StatusInv'
  BY <1>1, ViewInvStep, StatusStep
<1>3. ~disturbed' => Calm'
  BY <1>1, CalmNext
<1> QED  BY <1>2, <1>3 DEF ForwardInv

LEMMA ForwardInvHolds == Spec => []ForwardInv
  BY ForwardInit, ForwardInvStep, PTL DEF Spec

\* As long as no directory has vanished or gone unlisted and no crawls with
\* different views have overlapped, statuses change by the transitions of
\* their lexicons: by PATCHes, and by crawls, which move a delivery only as
\* the hook does, from "pending" to "failed", and never back.  Excepted is
\* the post that overwrites a reviewer's verdict, which may be any change.  A
\* lexicon that names the hook is expected to allow the hook's change.
THEOREM CrawlsMoveForwardHolds ==
    ASSUME \A l \in Hooked : "failed" \in Transitions[l]["pending"]
    PROVE  Spec => CrawlsMoveForward
<1> DEFINE Forward(p) ==
              Known(p) /\ rows'[p] # rows[p] /\ ~disturbed => MovesForward(p) \/ Overrules(p)
<1>1. ASSUME ForwardInv, NEW p \in Path, Known(p), rows'[p] # rows[p], ~disturbed,
             NEW c \in Crawl, NEW d \in taken[c], phase[c] = "post", Upsert(d),
             p \notin patched
      PROVE  MovesForward(p)
  <2>1. CrawlInv /\ StatusInv /\ Calm
    BY <1>1 DEF ForwardInv, ViewInv
  <2>2. /\ rows = [x \in Path |-> rows[x]]
        /\ rows[p] \in [lexicon : LexiconId, status : Status]
        /\ d.lexicon = LexiconOf(d.path) /\ Fits(d.path, d.status)
        /\ rows[p].lexicon = LexiconOf(p) /\ Fits(p, rows[p].status)
    BY <1>1, <2>1 DEF CrawlInv, TypeOK, InHand, StatusInv, PostsFit, Known
  <2>3. d.path = p
    BY <1>1, <2>2 DEF Upsert
  <2>4. rows'[p] = [lexicon |-> d.lexicon, status |-> d.status]
    BY <1>1, <2>2, <2>3 DEF Upsert
  <2>5. rows[p] = [lexicon |-> rows[p].lexicon, status |-> rows[p].status]
    BY <2>2
  <2>6. d.status # rows[p].status
    BY <1>1, <2>2, <2>3, <2>4, <2>5
  <2>7. rows[p].status = Mapped(p)
    <3>1. ASSUME RowDerived(p)  PROVE FALSE
      <4>1. IsDerived(d)
        BY <1>1, <2>1, <2>3, <3>1 DEF Calm, CalmCrawl, Derives
      <4> QED  BY <2>2, <2>3, <2>6, <3>1, <4>1 DEF Fits, IsDerived, RowDerived
    <3> QED  BY <1>1, <3>1 DEF RowDerived, Known
  <2>8. d.status = "failed" /\ LexiconOf(p) \in Hooked /\ Mapped(p) = "pending"
    BY <2>2, <2>3, <2>6, <2>7 DEF Fits, Derivable
  <2>9. rows'[p].status = "failed"
    BY <2>4, <2>8
  <2> QED  BY <2>2, <2>7, <2>8, <2>9 DEF MovesForward
<1>2. ASSUME ForwardInv, [Next]_vars, NEW p \in Path, Known(p), rows'[p] # rows[p], ~disturbed
      PROVE  MovesForward(p) \/ Overrules(p)
  <2>1. CrawlInv
    BY <1>2 DEF ForwardInv, ViewInv
  <2>2. /\ rows = [x \in Path |-> rows[x]]
        /\ rows[p] \in [lexicon : LexiconId, status : Status]
    BY <1>2, <2>1 DEF CrawlInv, TypeOK, Known
  <2>3. \A c \in Crawl : ~Derive(c)
    BY <1>2 DEF Derive, tableVars
  <2>4. ASSUME NEW q \in Path, NEW s \in Status, Patch(q, s)  PROVE MovesForward(p)
    <3>1. p = q /\ rows'[p] = [rows[p] EXCEPT !.status = s]
      BY <1>2, <2>2, <2>4, PatchWrites
    <3>2. rows'[p].status = s
      BY <2>2, <3>1
    <3>3. s \in Transitions[rows[p].lexicon][rows[p].status]
      BY <2>4, <3>1 DEF Patch
    <3> QED  BY <3>2, <3>3 DEF MovesForward
  <2>5. ASSUME NEW c \in Crawl, NEW d \in taken[c], phase[c] = "post", Upsert(d)
        PROVE  MovesForward(p) \/ Overrules(p)
    <3>1. CASE p \notin patched
      BY <1>1, <1>2, <2>5, <3>1
    <3>2. CASE p \in patched
      <4>1. d.path = p
        BY <1>2, <2>2, <2>5 DEF Upsert
      <4>2. p \notin patched'
        BY <2>5, <4>1 DEF Upsert
      <4> QED  BY <3>2, <4>2 DEF Overrules
    <3> QED  BY <3>1, <3>2
  <2>6. UNCHANGED <<rows, patched>> \/ Patched \/ \E c \in Crawl : WritesTaken(c)
    BY <1>2, <2>1, <2>3, StepWrites
  <2> QED  BY <1>2, <2>4, <2>5, <2>6 DEF WritesTaken, Patched
<1>3. ForwardInv /\ [Next]_vars => [\A p \in Path : Forward(p)]_vars
  BY <1>2
<1> QED  BY <1>3, ForwardInvHolds, PTL DEF Spec, CrawlsMoveForward

=============================================================================
