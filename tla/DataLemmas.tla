------------------------------ MODULE DataLemmas ------------------------------
(***************************************************************************)
(* Facts about data, for which no system needs to be known: the first and  *)
(* the last element of a set of indices, sequences in order, functions     *)
(* defined by recursion and sums, on which the proofs about searches in    *)
(* vectors rest; and what rainflow counting makes of a sequence.           *)
(***************************************************************************)
EXTENDS Rainflow, WellFoundedInduction, SequenceTheorems, TLAPS

-----------------------------------------------------------------------------
(* The least element of a set, which the searches look for. *)

LEMMA LeastElement ==
  ASSUME NEW S \in SUBSET Nat, S # {}
  PROVE  Min(S) \in S /\ \A y \in S : Min(S) <= y
<1>1. PICK x \in S : \A y \in S : ~ (<<y, x>> \in OpToRel(<, Nat))
  BY NatLessThanWellFounded, WFMin
<1>2. OpToRel(<, Nat) = {ss \in Nat \X Nat : ss[1] < ss[2]}
  BY Zenon DEF OpToRel
<1>3. ASSUME NEW y \in S PROVE x <= y
  <2>1. <<y, x>> \notin {ss \in Nat \X Nat : ss[1] < ss[2]}
    BY <1>1, <1>2, Zenon
  <2>2. QED BY <2>1
<1>4. QED BY <1>3 DEF Min

\* and the greatest one, for searches from the end
LEMMA GreatestNumber ==
  ASSUME NEW n \in Nat, NEW S \in SUBSET (0..n), S # {}
  PROVE  Max(S) \in S /\ \A y \in S : Max(S) >= y
<1> DEFINE T == {n - i : i \in S}
<1>1. \A y \in S : y \in Int /\ y <= n /\ n - y \in Nat
  OBVIOUS
<1>2. T \in SUBSET Nat
  BY <1>1
<1>3. PICK y \in S : TRUE
  OBVIOUS
<1>4. n - y \in T
  BY <1>3
<1>5. Min(T) \in T /\ \A z \in T : Min(T) <= z
  BY <1>2, <1>4, LeastElement
<1>6. PICK i \in S : Min(T) = n - i
  BY <1>5
<1>7. ASSUME NEW z \in S PROVE i >= z
  <2>1. n - z \in T
    OBVIOUS
  <2>2. n - i <= n - z
    BY <1>5, <1>6, <2>1
  <2>3. QED BY <1>1, <2>2
<1>8. QED BY <1>7 DEF Max

LEMMA GreatestElement ==
  ASSUME NEW n \in Nat, NEW S \in SUBSET (1..n), S # {}
  PROVE  Max(S) \in S /\ \A y \in S : Max(S) >= y
<1>1. S \in SUBSET (0..n)
  OBVIOUS
<1>2. QED BY <1>1, GreatestNumber

LEMMA SmallerOfTwo ==
  ASSUME NEW a \in Int, NEW b \in Int
  PROVE  Min({a, b}) \in Int /\ Min({a, b}) <= a /\ Min({a, b}) <= b
<1>1. \E x \in {a, b} : \A y \in {a, b} : x <= y
  OBVIOUS
<1>2. Min({a, b}) \in {a, b} /\ \A y \in {a, b} : Min({a, b}) <= y
  BY <1>1 DEF Min
<1>3. QED BY <1>2

LEMMA FunctionIsSequence ==
  ASSUME NEW T, NEW n \in Nat, NEW f \in [1..n -> T]
  PROVE  f \in Seq(T) /\ Len(f) = n
<1>1. f \in Seq(T)
  BY SeqDef
<1>2. QED BY <1>1, LenProperties

LEMMA NatCases == \A n \in Nat : n = 0 \/ n = 1 \/ n >= 2
  OBVIOUS

LEMMA QuotientType ==
  ASSUME NEW a \in Int, NEW d \in Nat \ {0}
  PROVE  a \div d \in Int
  OBVIOUS

LEMMA AppendFacts ==
  ASSUME NEW S, NEW s \in Seq(S), NEW e \in S
  PROVE  /\ Append(s, e) \in Seq(S)
         /\ Len(Append(s, e)) = Len(s) + 1
         /\ Append(s, e)[Len(s) + 1] = e
         /\ \A i \in 1..Len(s) : Append(s, e)[i] = s[i]
  OBVIOUS

-----------------------------------------------------------------------------
(* Times in ascending order, and the searches in them. *)

LEMMA NeighboursAscend ==
  ASSUME NEW times \in Seq(Int), \A k \in 1..(Len(times) - 1) : times[k] < times[k + 1],
         NEW i \in 1..Len(times), NEW j \in 1..Len(times), i < j
  PROVE  times[i] < times[j]
<1>1. Len(times) \in Nat /\ \A k \in 1..Len(times) : times[k] \in Int
  BY LenProperties, ElementOfSeq
<1> DEFINE wrong == {k \in 1..Len(times) : i < k /\ ~(times[i] < times[k])}
           first == Min(wrong)
<1>3. SUFFICES ASSUME j \in wrong PROVE FALSE
  BY <1>1
<1>4. wrong \in SUBSET Nat /\ wrong # {}
  <2>1. \A k \in 1..Len(times) : k \in Nat
    BY <1>1
  <2>2. wrong \in SUBSET Nat
    BY <2>1
  <2>3. QED BY <1>3, <2>2
<1> HIDE DEF wrong
<1>5. first \in wrong /\ \A k \in wrong : first <= k
  BY <1>4, LeastElement
<1> HIDE DEF first
<1>6. first \in 1..Len(times) /\ i < first /\ ~(times[i] < times[first])
  BY <1>5 DEF wrong
<1> DEFINE before == first - 1
<1>7. before \in 1..(Len(times) - 1) /\ before \in 1..Len(times) /\ first = before + 1
      /\ i <= before /\ before < first
  BY <1>1, <1>6
<1> HIDE DEF before
<1>8. times[before] < times[first]
  BY <1>7
<1>9. CASE i = before
  BY <1>6, <1>8, <1>9
<1>10. CASE i # before
  <2>1. i < before
    BY <1>7, <1>10
  <2>2. before \notin wrong
    BY <1>5, <1>6, <1>7
  <2>3. times[i] < times[before]
    BY <1>7, <2>1, <2>2 DEF wrong
  <2>4. QED BY <1>1, <1>6, <1>7, <1>8, <2>3
<1>11. QED BY <1>9, <1>10

\* a search upwards stops in front of the first time that has not come yet
LEMMA FirstToCome ==
  ASSUME NEW times \in Seq(Int), NEW from \in 1..Len(times), NEW time \in Int, NEW k,
         k = Min({i \in from..Len(times) : i = Len(times) \/ time < times[i + 1]})
  PROVE  /\ k \in from..Len(times)
         /\ k = Len(times) \/ time < times[k + 1]
         /\ k # from => times[k] <= time
<1> DEFINE found == {i \in from..Len(times) : i = Len(times) \/ time < times[i + 1]}
<1>1. Len(times) \in Nat /\ \A i \in 1..Len(times) : times[i] \in Int
  BY LenProperties, ElementOfSeq
<1>2. Len(times) \in found /\ found \in SUBSET Nat
  BY <1>1
<1>3. k = Min(found)
  OBVIOUS
<1> HIDE DEF found
<1>4. k \in found /\ \A i \in found : k <= i
  <2>1. Min(found) \in found /\ \A i \in found : Min(found) <= i
    BY <1>2, LeastElement
  <2>2. QED BY <1>3, <2>1
<1>5. k \in from..Len(times) /\ (k = Len(times) \/ time < times[k + 1])
  BY <1>4 DEF found
<1>6. ASSUME k # from PROVE times[k] <= time
  <2> DEFINE before == k - 1
  <2>1. before \in from..Len(times) /\ before # Len(times) /\ before + 1 = k /\ ~(k <= before)
        /\ k \in 1..Len(times)
    BY <1>1, <1>5, <1>6, SMTT(30)
  <2> HIDE DEF before
  <2>2. before \notin found
    BY <1>4, <2>1
  <2>3. ~(time < times[before + 1])
    BY <2>1, <2>2 DEF found
  <2>4. QED BY <1>1, <2>1, <2>3
<1>7. QED BY <1>5, <1>6

\* and that is where the last time is that has come
LEMMA LastToHaveCome ==
  ASSUME NEW times \in Seq(Int), NEW k \in 1..Len(times), NEW time \in Int,
         \A i, j \in 1..Len(times) : i <= j => times[i] <= times[j],
         k = 1 \/ times[k] <= time,
         k = Len(times) \/ time < times[k + 1]
  PROVE  Max({1} \cup {i \in DOMAIN times : times[i] <= time}) = k
<1> DEFINE n == Len(times)
           come == {1} \cup {i \in DOMAIN times : times[i] <= time}
<1>1. n \in Nat /\ DOMAIN times = 1..n /\ 1 \in 1..n /\ \A i \in 1..n : times[i] \in Int
      /\ k \in 1..n /\ k \in Nat
  BY LenProperties, ElementOfSeq
<1>2. come \in SUBSET (1..n) /\ k \in come
  BY <1>1
<1>3. ASSUME NEW i \in come PROVE i <= k
  <2>1. i \in 1..n /\ (i = 1 \/ times[i] <= time)
    BY <1>1
  <2> HIDE DEF come, n
  <2>2. CASE i # 1 /\ i > k
    <3>1. k + 1 \in 1..n /\ k + 1 <= i /\ k # n
      BY <1>1, <2>1, <2>2
    <3>2. times[k + 1] <= times[i] /\ times[i] <= time /\ time < times[k + 1]
      BY <2>1, <2>2, <3>1 DEF n
    <3>3. times[k + 1] \in Int /\ times[i] \in Int
      BY <1>1, <2>1, <3>1
    <3>4. QED BY <3>2, <3>3
  <2>3. CASE i = 1 \/ ~(i > k)
    BY <1>1, <2>1, <2>3
  <2>4. QED BY <2>2, <2>3
<1> HIDE DEF come
<1>4. Max(come) \in come /\ \A i \in come : Max(come) >= i
  BY <1>1, <1>2, GreatestElement
<1>5. Max(come) <= k /\ Max(come) >= k /\ Max(come) \in 1..n
  BY <1>2, <1>3, <1>4
<1> HIDE DEF n
<1>6. Max(come) = k
  BY <1>1, <1>5
<1>7. QED BY <1>6 DEF come

-----------------------------------------------------------------------------
(* Induction, as a statement about sets, and functions defined by recursion. *)

LEMMA InductionTo ==
  ASSUME NEW n \in Nat, NEW S, 0 \in S,
         \A i \in 0..(n - 1) : i \in S => i + 1 \in S
  PROVE  \A i \in 0..n : i \in S
<1> DEFINE wrong == {i \in 0..n : i \notin S}
<1>1. SUFFICES ASSUME wrong # {} PROVE FALSE
  OBVIOUS
<1>2. wrong \in SUBSET Nat
  OBVIOUS
<1> DEFINE first == Min(wrong)
<1> HIDE DEF wrong
<1>3. first \in wrong /\ \A i \in wrong : first <= i
  BY <1>1, <1>2, LeastElement
<1> HIDE DEF first
<1>4. first \in 0..n /\ first \notin S
  BY <1>3 DEF wrong
<1>5. first # 0
  BY <1>4
<1>6. first - 1 \in 0..(n - 1) /\ first - 1 \in 0..n /\ first - 1 \in Nat /\ ~(first <= first - 1)
      /\ (first - 1) + 1 = first
  BY <1>4, <1>5
<1>7. first - 1 \notin wrong
  BY <1>3, <1>6
<1>8. first - 1 \in S
  BY <1>6, <1>7 DEF wrong
<1>9. QED BY <1>4, <1>6, <1>8

\* numbers that ascend are not closer together than their positions
LEMMA AscendingNumbers ==
  ASSUME NEW n \in Nat, NEW f \in [1..n -> Nat], \A i, j \in 1..n : i < j => f[i] < f[j]
  PROVE  \A i \in 1..n : i <= f[i] + 1
<1> DEFINE S == {i \in 0..n : i # 0 => i <= f[i] + 1}
<1>1. 0 \in S
  OBVIOUS
<1>2. ASSUME NEW i \in 0..(n - 1), i \in S PROVE i + 1 \in S
  <2>1. i + 1 \in 1..n /\ f[i + 1] \in Nat
    OBVIOUS
  <2>2. CASE i = 0
    BY <2>1, <2>2
  <2>3. CASE i # 0
    <3>1. i \in 1..n /\ f[i] \in Nat /\ i <= f[i] + 1
      BY <1>2, <2>3
    <3>2. f[i] < f[i + 1]
      BY <2>1, <3>1
    <3>3. QED BY <2>1, <3>1, <3>2
  <2>4. QED BY <2>2, <2>3
<1> HIDE DEF S
<1>3. \A i \in 0..n : i \in S
  BY <1>1, <1>2, InductionTo
<1>4. QED BY <1>3 DEF S

LEMMA Induction ==
  ASSUME NEW S, 0 \in S, \A i \in Nat : i \in S => i + 1 \in S
  PROVE  \A i \in Nat : i \in S
<1> TAKE n \in Nat
<1>1. \A i \in 0..(n - 1) : i \in Nat
  OBVIOUS
<1>2. \A i \in 0..n : i \in S
  BY <1>1, InductionTo
<1>3. QED BY <1>2

\* a function with a given first value, and steps from each value to the next one
IsRecursion(f, n, base, step) == f[0] = base /\ \A i \in 1..n : f[i] = step[<<i, f[i - 1]>>]

LEMMA RecursionExists ==
  ASSUME NEW X, NEW n \in Nat, NEW base \in X, NEW step \in [(1..n) \X X -> X]
  PROVE  \E f \in [0..n -> X] : IsRecursion(f, n, base, step)
<1> USE DEF IsRecursion
<1> DEFINE Fits(f, k) == f[0] = base /\ \A i \in 1..k : f[i] = step[<<i, f[i - 1]>>]
           S == {k \in 0..n : \E f \in [0..k -> X] : Fits(f, k)}
<1>1. 0 \in S
  <2> DEFINE f == [i \in 0..0 |-> base]
  <2>1. f \in [0..0 -> X] /\ Fits(f, 0)
    OBVIOUS
  <2> HIDE DEF f, Fits
  <2>2. 0 \in 0..n /\ \E g \in [0..0 -> X] : Fits(g, 0)
    BY <2>1
  <2>3. QED BY <2>2
<1>2. ASSUME NEW k \in 0..(n - 1), k \in S PROVE k + 1 \in S
  <2>1. PICK f \in [0..k -> X] : Fits(f, k)
    BY <1>2
  <2>2. k \in Nat /\ k + 1 \in 1..n /\ k + 1 \in 0..n /\ (k + 1) - 1 = k /\ k \in 0..k
    OBVIOUS
  <2> DEFINE g == [i \in 0..(k + 1) |-> IF i = k + 1 THEN step[<<k + 1, f[k]>>] ELSE f[i]]
  <2>3. step[<<k + 1, f[k]>>] \in X
    BY <2>2
  <2>4. g \in [0..(k + 1) -> X]
    <3>1. ASSUME NEW i \in 0..(k + 1), i # k + 1 PROVE i \in 0..k
      BY <2>2, <3>1
    <3>2. QED BY <2>3, <3>1
  <2>5. g[k + 1] = step[<<k + 1, f[k]>>] /\ \A i \in 0..k : g[i] = f[i]
    BY <2>2
  <2> HIDE DEF g
  <2>6. g[0] = base
    BY <2>1, <2>2, <2>5
  <2>7. ASSUME NEW i \in 1..(k + 1) PROVE g[i] = step[<<i, g[i - 1]>>]
    <3>1. CASE i = k + 1
      BY <2>2, <2>5, <3>1
    <3>2. CASE i # k + 1
      <4>1. i \in 1..k /\ i \in 0..k /\ i - 1 \in 0..k
        BY <2>2, <3>2
      <4>2. QED BY <2>1, <2>5, <4>1
    <3>3. QED BY <3>1, <3>2
  <2>8. QED BY <2>2, <2>4, <2>6, <2>7
<1> HIDE DEF S
<1>3. \A k \in 0..n : k \in S
  BY <1>1, <1>2, InductionTo
<1>4. n \in S
  BY <1>3
<1>5. QED BY <1>4 DEF S

-----------------------------------------------------------------------------
(* Sums.  sum[k] is that of the k values of f from the first one on. *)

IsSum(sum, f, first, n) ==
  sum[0] = 0 /\ \A k \in 1..n : sum[k] = sum[k - 1] + f[first + k - 1]

\* the recursive function whose last value is the sum
SumBy(f, first, n) == CHOOSE s : s = [k \in 0..n |-> IF k = 0 THEN 0 ELSE s[k - 1] + f[first + k - 1]]

LEMMA SumByExists ==
  ASSUME NEW n \in Nat, NEW first \in Nat, NEW f, \A i \in first..(first + n - 1) : f[i] \in Int,
         NEW sum, sum = SumBy(f, first, n)
  PROVE  sum \in [0..n -> Int] /\ IsSum(sum, f, first, n)
<1> DEFINE Body(s) == [k \in 0..n |-> IF k = 0 THEN 0 ELSE s[k - 1] + f[first + k - 1]]
           step == [p \in (1..n) \X Int |-> p[2] + f[first + p[1] - 1]]
<1>1. \A k \in 1..n : f[first + k - 1] \in Int
  <2> TAKE k \in 1..n
  <2>1. first + k - 1 \in first..(first + n - 1)
    OBVIOUS
  <2>2. QED BY <2>1
<1>2. step \in [(1..n) \X Int -> Int]
  BY <1>1
<1>3. \A k \in 1..n, m \in Int : step[<<k, m>>] = m + f[first + k - 1]
  OBVIOUS
<1> HIDE DEF step, Body
<1>4. PICK s \in [0..n -> Int] : IsRecursion(s, n, 0, step)
  <2>1. 0 \in Int
    OBVIOUS
  <2>2. QED BY <1>2, <2>1, RecursionExists
<1>5. \A k \in 1..n : s[k] = s[k - 1] + f[first + k - 1]
  <2> TAKE k \in 1..n
  <2>1. s[k - 1] \in Int
    OBVIOUS
  <2>2. QED BY <1>3, <1>4, <2>1 DEF IsRecursion
<1>6. s = Body(s)
  <2>1. \A k \in 0..n : k = 0 \/ k \in 1..n
    OBVIOUS
  <2>2. \A k \in 0..n : s[k] = Body(s)[k]
    BY <1>4, <1>5, <2>1 DEF IsRecursion, Body
  <2>3. QED BY <2>2 DEF Body
<1>7. sum = CHOOSE t : t = Body(t)
  BY DEF Body, SumBy
<1>8. sum = Body(sum)
  BY <1>6, <1>7
<1>9. sum = [k \in 0..n |-> IF k = 0 THEN 0 ELSE sum[k - 1] + f[first + k - 1]]
  BY <1>8 DEF Body
<1>10. sum[0] = 0 /\ \A k \in 1..n : sum[k] = sum[k - 1] + f[first + k - 1]
  <2>1. 0 \in 0..n /\ \A k \in 1..n : k \in 0..n /\ k # 0
    OBVIOUS
  <2>2. QED BY <1>9, <2>1
<1>11. \A k \in 0..n : k \in {h \in 0..n : sum[h] \in Int}
  <2> DEFINE S == {h \in 0..n : sum[h] \in Int}
  <2>1. 0 \in S
    BY <1>10
  <2>2. ASSUME NEW i \in 0..(n - 1), i \in S PROVE i + 1 \in S
    <3>1. i + 1 \in 1..n /\ (i + 1) - 1 = i /\ i + 1 \in 0..n
      OBVIOUS
    <3>2. sum[i + 1] = sum[i] + f[first + (i + 1) - 1] /\ sum[i] \in Int /\ f[first + (i + 1) - 1] \in Int
      BY <1>1, <1>10, <2>2, <3>1
    <3>3. QED BY <3>1, <3>2
  <2> HIDE DEF S
  <2>3. \A k \in 0..n : k \in S
    BY <2>1, <2>2, InductionTo
  <2>4. QED BY <2>3 DEF S
<1>12. sum \in [0..n -> Int]
  <2>1. DOMAIN sum = 0..n /\ sum = [k \in 0..n |-> sum[k]]
    BY <1>9
  <2>2. QED BY <1>11, <2>1
<1>13. QED BY <1>10, <1>12 DEF IsSum

LEMMA SumExists ==
  ASSUME NEW n \in Nat, NEW first \in Nat, NEW f, \A i \in first..(first + n - 1) : f[i] \in Int,
         NEW sum,
         sum = CHOOSE s : s = [k \in 0..n |-> IF k = 0 THEN 0 ELSE s[k - 1] + f[first + k - 1]]
  PROVE  sum \in [0..n -> Int] /\ IsSum(sum, f, first, n)
<1>1. sum = SumBy(f, first, n)
  BY DEF SumBy
<1>2. QED BY <1>1, SumByExists

SameTotal(s, n, r, m) == s[n] = r[m]
SameValues(f, g, first, n) == \A k \in 1..n : f[first + k - 1] = g[first + k - 1]

\* sums of the same values are the same
LEMMA SameSum ==
  ASSUME NEW n \in Nat, NEW m \in Nat, n <= m, NEW a \in Nat, NEW f, NEW g, SameValues(f, g, a, n),
         NEW s, IsSum(s, f, a, n), NEW t, IsSum(t, g, a, m)
  PROVE  SameTotal(s, n, t, n)
<1> DEFINE S == {k \in 0..n : s[k] = t[k]}
<1>1. 0 \in S
  BY DEF IsSum
<1>2. ASSUME NEW k \in 0..(n - 1), k \in S PROVE k + 1 \in S
  <2>1. k + 1 \in 1..n /\ k + 1 \in 1..m /\ (k + 1) - 1 = k /\ k + 1 \in 0..n
    OBVIOUS
  <2>2. s[k + 1] = s[k] + f[a + (k + 1) - 1] /\ t[k + 1] = t[k] + g[a + (k + 1) - 1]
    BY <2>1 DEF IsSum
  <2>3. f[a + (k + 1) - 1] = g[a + (k + 1) - 1] /\ s[k] = t[k]
    BY <1>2, <2>1 DEF SameValues
  <2>4. QED BY <2>1, <2>2, <2>3
<1> HIDE DEF S
<1>3. \A k \in 0..n : k \in S
  BY <1>1, <1>2, InductionTo
<1>4. QED BY <1>3 DEF S, SameTotal

EqualOn(f, from, to, v) == \A k \in from..to : f[k] = v
Grows(s, from, to, v) == s[to] = s[from] + v * (to - from)

\* a sum over a stretch of equal values
LEMMA EqualValues ==
  ASSUME NEW n \in Nat, NEW s \in [0..n -> Int], NEW f, NEW a \in Nat, IsSum(s, f, a, n),
         NEW v \in Int, NEW i \in 0..n, NEW j \in 0..n, i <= j,
         EqualOn(f, a + i, a + j - 1, v)
  PROVE  Grows(s, i, j, v)
<1> DEFINE m == j - i
           S == {k \in 0..m : s[i + k] = s[i] + v * k}
<1>1. m \in Nat /\ i + m = j /\ s[i] \in Int
  OBVIOUS
<1>2. 0 \in S
  BY <1>1
<1>3. ASSUME NEW k \in 0..(m - 1), k \in S PROVE k + 1 \in S
  <2>1. /\ k + 1 \in 0..m /\ i + (k + 1) \in 1..n /\ (i + (k + 1)) - 1 = i + k
        /\ a + (i + (k + 1)) - 1 = a + i + k /\ a + i + k \in (a + i)..(a + j - 1) /\ k \in Int
    BY <1>1
  <2>2. s[i + (k + 1)] = s[i + k] + v /\ s[i + k] = s[i] + v * k
    BY <1>3, <2>1 DEF IsSum, EqualOn
  <2>3. \A x \in Int : (x + v * k) + v = x + v * (k + 1)
    BY <2>1
  <2>4. QED BY <1>1, <2>1, <2>2, <2>3
<1> HIDE DEF S
<1>4. \A k \in 0..m : k \in S
  BY <1>1, <1>2, <1>3, InductionTo
<1>5. m \in S
  BY <1>1, <1>4
<1>6. s[i + m] = s[i] + v * m
  BY <1>5 DEF S
<1> HIDE DEF m
<1>7. s[j] = s[i] + v * m
  BY <1>1, <1>6
<1>8. QED BY <1>7 DEF m, Grows

\* f has the k-th value from the bound in front of it to its own
InPieces(f, n, bound, value) ==
  \A k \in 1..n : bound[k - 1] <= bound[k]
                 /\ \A t \in bound[k - 1]..(bound[k] - 1) : f[t] = value[k]

\* a share is the value of a piece times its length
AreShares(share, first, n, bound, value) ==
  \A k \in 1..n : share[first + k - 1] = value[k] * (bound[k] - bound[k - 1])

\* The sum of the shares is the sum of the values.
LEMMA SumOfPieces ==
  ASSUME NEW n \in Nat, NEW bound \in [0..n -> Nat], NEW value \in [1..n -> Int], NEW f,
         InPieces(f, n, bound, value),
         NEW len \in Nat, len = bound[n] - bound[0],
         NEW s \in [0..len -> Int], IsSum(s, f, bound[0], len),
         NEW share, NEW first \in Nat, AreShares(share, first, n, bound, value),
         NEW r, IsSum(r, share, first, n)
  PROVE  SameTotal(r, n, s, len)
<1> DEFINE a == bound[0]
           S == {k \in 0..n : a <= bound[k] /\ r[k] = s[bound[k] - a]}
<1>1. a \in Nat /\ 0 \in 0..n /\ n \in 0..n /\ a = bound[0] /\ IsSum(s, f, a, len)
  OBVIOUS
<1>2. 0 \in S
  BY <1>1 DEF IsSum
<1>3. \A k \in 0..n : bound[k] <= bound[n]
  <2> DEFINE T == {k \in 0..n : bound[n - k] <= bound[n]}
  <2>1. 0 \in T
    BY <1>1
  <2>2. ASSUME NEW k \in 0..(n - 1), k \in T PROVE k + 1 \in T
    <3>1. n - k \in 1..n /\ n - (k + 1) \in 0..n /\ (n - k) - 1 = n - (k + 1) /\ k + 1 \in 0..n
          /\ n - k \in 0..n
      OBVIOUS
    <3>2. bound[n - (k + 1)] <= bound[n - k] /\ bound[n - k] <= bound[n]
      BY <2>2, <3>1 DEF InPieces
    <3>3. bound[n - (k + 1)] \in Nat /\ bound[n - k] \in Nat /\ bound[n] \in Nat
      BY <1>1, <3>1
    <3>4. bound[n - (k + 1)] <= bound[n]
      BY <3>2, <3>3
    <3>5. QED BY <3>1, <3>4
  <2> HIDE DEF T
  <2>3. \A k \in 0..n : k \in T
    BY <2>1, <2>2, InductionTo
  <2>4. \A k \in 0..n : n - k \in T /\ n - (n - k) = k
    BY <2>3
  <2>5. QED BY <2>4 DEF T
<1>4. ASSUME NEW k \in 0..(n - 1), k \in S PROVE k + 1 \in S
  <2> DEFINE low == bound[k]
             high == bound[k + 1]
             v == value[k + 1]
             top == bound[n]
  <2>1. k + 1 \in 1..n /\ k + 1 \in 0..n /\ k \in 0..n /\ (k + 1) - 1 = k
    OBVIOUS
  <2>2. low \in Nat /\ high \in Nat /\ low <= high /\ a <= low /\ high <= top /\ top \in Nat
        /\ len = top - a
    BY <1>1, <1>3, <1>4, <2>1 DEF InPieces
  <2>3. v \in Int /\ \A t \in low..(high - 1) : f[t] = v
    BY <2>1 DEF InPieces
  <2>4. r[k + 1] = r[k] + v * (high - low)
    BY <2>1 DEF IsSum, AreShares
  <2>5. r[k] = s[low - a]
    BY <1>4
  <2> HIDE DEF low, high, v, a, top
  <2>6. /\ low - a \in 0..len /\ high - a \in 0..len /\ low - a <= high - a
        /\ a + (low - a) = low /\ a + (high - a) - 1 = high - 1 /\ (high - a) - (low - a) = high - low
    BY <1>1, <2>2, SMTT(30)
  <2>7. s[high - a] = s[low - a] + v * ((high - a) - (low - a))
    <3> DEFINE i == low - a
               j == high - a
    <3>1. i \in 0..len /\ j \in 0..len /\ i <= j /\ EqualOn(f, a + i, a + j - 1, v)
      BY <2>3, <2>6 DEF EqualOn
    <3> HIDE DEF i, j
    <3>2. a \in Nat /\ v \in Int /\ IsSum(s, f, a, len)
      BY <1>1, <2>3
    <3>3. Grows(s, i, j, v)
      BY <3>1, <3>2, EqualValues
    <3>4. QED BY <3>3 DEF i, j, Grows
  <2>8. r[k + 1] = s[high - a] /\ a <= high
    BY <1>1, <2>2, <2>4, <2>5, <2>6, <2>7
  <2>9. QED BY <2>1, <2>8 DEF high
<1> HIDE DEF S
<1>5. \A k \in 0..n : k \in S
  BY <1>2, <1>4, InductionTo
<1>6. n \in S
  BY <1>1, <1>5
<1>7. QED BY <1>1, <1>6 DEF S, SameTotal

-----------------------------------------------------------------------------
(* Rainflow counting: what it makes of every sequence of values.  First the *)
(* sums of its definitions.                                                 *)

IsSumTo(f, n, s) == s \in [0..n -> Int] /\ IsSum(s, f, 1, n) /\ SumTo(f, n) = s[n]

LEMMA SumToExists ==
  ASSUME NEW n \in Nat, NEW f, \A i \in 1..n : f[i] \in Int
  PROVE  \E s : IsSumTo(f, n, s)
<1>1. PICK s : s = SumBy(f, 1, n)
  OBVIOUS
<1>2. s \in [0..n -> Int] /\ IsSum(s, f, 1, n)
  <2>1. 1 \in Nat /\ \A i \in 1..(1 + n - 1) : f[i] \in Int
    OBVIOUS
  <2>2. QED BY <1>1, <2>1, SumByExists
<1> DEFINE Body(t) == [k \in 0..n |-> IF k = 0 THEN 0 ELSE t[k - 1] + f[k]]
           sum == CHOOSE t : t = Body(t)
<1>3. \A k \in 1..n : 1 + k - 1 = k
  OBVIOUS
<1>4. s[0] = 0 /\ \A k \in 1..n : s[k] = s[k - 1] + f[k]
  BY <1>2, <1>3 DEF IsSum
<1>5. s = Body(s)
  <2>1. \A k \in 0..n : k = 0 \/ k \in 1..n
    OBVIOUS
  <2>2. \A k \in 0..n : s[k] = Body(s)[k]
    BY <1>4, <2>1
  <2>3. QED BY <1>2, <2>2
<1>6. SumTo(f, n) = sum[n]
  BY DEF SumTo
<1> HIDE DEF Body
<1>7. sum = Body(sum)
  BY <1>5
<1> HIDE DEF sum
<1>8. IsSum(sum, f, 1, n)
  <2>1. 0 \in 0..n /\ \A k \in 1..n : k \in 0..n /\ k # 0
    OBVIOUS
  <2>2. sum[0] = 0 /\ \A k \in 1..n : sum[k] = sum[k - 1] + f[k]
    BY <1>7, <2>1 DEF Body
  <2>3. QED BY <1>3, <2>2 DEF IsSum
<1>9. SameTotal(s, n, sum, n)
  <2>1. n <= n /\ 1 \in Nat /\ SameValues(f, f, 1, n)
    BY DEF SameValues
  <2>2. QED BY <1>2, <1>8, <2>1, SameSum
<1>10. IsSumTo(f, n, s)
  BY <1>2, <1>6, <1>9 DEF IsSumTo, SameTotal
<1>11. QED BY <1>10

LEMMA SumToNone == \A f : SumTo(f, 0) = 0
<1> TAKE f
<1>1. PICK s : IsSumTo(f, 0, s)
  <2>1. \A i \in 1..0 : f[i] \in Int
    OBVIOUS
  <2>2. QED BY <2>1, SumToExists
<1>2. QED BY <1>1 DEF IsSumTo, IsSum

LEMMA SumToType ==
  ASSUME NEW n \in Nat, NEW f, \A i \in 1..n : f[i] \in Int
  PROVE  SumTo(f, n) \in Int
<1>1. PICK s : IsSumTo(f, n, s)
  BY SumToExists
<1>2. QED BY <1>1 DEF IsSumTo

LEMMA SameValuesSameSum ==
  ASSUME NEW n \in Nat, NEW f, NEW g, \A i \in 1..n : f[i] \in Int /\ g[i] = f[i]
  PROVE  SumTo(g, n) = SumTo(f, n)
<1>1. PICK s : IsSumTo(f, n, s)
  BY SumToExists
<1>2. PICK t : IsSumTo(g, n, t)
  <2>1. \A i \in 1..n : g[i] \in Int
    OBVIOUS
  <2>2. QED BY <2>1, SumToExists
<1>3. SameValues(g, f, 1, n) /\ n <= n /\ 1 \in Nat
  BY DEF SameValues
<1>4. SameTotal(t, n, s, n)
  BY <1>1, <1>2, <1>3, SameSum DEF IsSumTo
<1>5. QED BY <1>1, <1>2, <1>4 DEF IsSumTo, SameTotal

LEMMA SumToStep ==
  ASSUME NEW n \in Nat, NEW f, \A i \in 1..(n + 1) : f[i] \in Int
  PROVE  SumTo(f, n + 1) = SumTo(f, n) + f[n + 1]
<1>1. PICK s : IsSumTo(f, n + 1, s)
  BY SumToExists
<1>2. PICK t : IsSumTo(f, n, t)
  <2>1. \A i \in 1..n : f[i] \in Int
    OBVIOUS
  <2>2. QED BY <2>1, SumToExists
<1>3. SameTotal(t, n, s, n)
  <2>1. n <= n + 1 /\ n + 1 \in Nat /\ 1 \in Nat /\ SameValues(f, f, 1, n)
    BY DEF SameValues
  <2>2. QED BY <1>1, <1>2, <2>1, SameSum DEF IsSumTo
<1>4. s[n + 1] = s[n] + f[n + 1]
  <2>1. n + 1 \in 1..(n + 1) /\ (n + 1) - 1 = n /\ 1 + (n + 1) - 1 = n + 1
    OBVIOUS
  <2>2. QED BY <1>1, <2>1 DEF IsSumTo, IsSum
<1>5. QED BY <1>1, <1>2, <1>3, <1>4 DEF IsSumTo, SameTotal

-----------------------------------------------------------------------------
(* The way along positions of a sequence of values. *)

LEMMA DistanceType ==
  ASSUME NEW x \in Int, NEW y \in Int
  PROVE  Distance(x, y) \in Nat
BY DEF Distance

LEMMA DistanceAddsUp ==
  ASSUME NEW x \in Int, NEW y \in Int, NEW z \in Int, (x <= y /\ y <= z) \/ (x >= y /\ y >= z)
  PROVE  Distance(x, z) = Distance(x, y) + Distance(y, z)
BY DEF Distance

\* the values at the first n positions of s are there
HasPositions(v, s, n) == \A i \in 1..n : v[s[i]] \in Int

LEMMA StepType ==
  ASSUME NEW v, NEW s, NEW n \in Nat \ {0}, HasPositions(v, s, n)
  PROVE  \A i \in 1..(n - 1) : Distance(v[s[i]], v[s[i + 1]]) \in Int
<1> TAKE i \in 1..(n - 1)
<1>1. v[s[i]] \in Int /\ v[s[i + 1]] \in Int
  BY DEF HasPositions
<1>2. Distance(v[s[i]], v[s[i + 1]]) \in Nat
  BY <1>1, DistanceType
<1>3. QED BY <1>2

\* the way along the first n positions of s
Way(v, s, n) == SumTo([i \in 1..(n - 1) |-> Distance(v[s[i]], v[s[i + 1]])], n - 1)

LEMMA WayOfOne == \A v, s : Way(v, s, 1) = 0
BY SumToNone DEF Way

LEMMA WayType ==
  ASSUME NEW v, NEW s, NEW n \in Nat \ {0}, HasPositions(v, s, n)
  PROVE  Way(v, s, n) \in Int
<1> DEFINE f == [i \in 1..(n - 1) |-> Distance(v[s[i]], v[s[i + 1]])]
<1>2. \A i \in 1..(n - 1) : f[i] \in Int
  BY StepType
<1>3. n - 1 \in Nat
  OBVIOUS
<1> HIDE DEF f
<1>4. SumTo(f, n - 1) \in Int
  BY <1>2, <1>3, SumToType
<1>5. QED BY <1>4 DEF Way, f

LEMMA WayGoesOn ==
  ASSUME NEW v, NEW s, NEW n \in Nat \ {0}, HasPositions(v, s, n + 1)
  PROVE  Way(v, s, n + 1) = Way(v, s, n) + Distance(v[s[n]], v[s[n + 1]])
<1> DEFINE f == [i \in 1..((n + 1) - 1) |-> Distance(v[s[i]], v[s[i + 1]])]
           g == [i \in 1..(n - 1) |-> Distance(v[s[i]], v[s[i + 1]])]
<1>1. \A i \in 1..((n + 1) - 1) : Distance(v[s[i]], v[s[i + 1]]) \in Int
  <2>1. n + 1 \in Nat \ {0}
    OBVIOUS
  <2>2. QED BY <2>1, StepType
<1>2. PICK m \in Nat : m = n - 1
  OBVIOUS
<1>3. n = m + 1 /\ (n + 1) - 1 = m + 1 /\ m + 1 \in 1..n /\ \A i \in 1..m : i \in 1..n
  BY <1>2
<1>4. \A i \in 1..(m + 1) : f[i] = Distance(v[s[i]], v[s[i + 1]]) /\ f[i] \in Int
  BY <1>1, <1>3
<1>5. \A i \in 1..m : g[i] = f[i] /\ f[i] \in Int
  BY <1>2, <1>3, <1>4
<1>6. Way(v, s, n + 1) = SumTo(f, m + 1) /\ Way(v, s, n) = SumTo(g, m)
  BY <1>2, <1>3 DEF Way
<1> HIDE DEF f, g
<1>7. SumTo(f, m + 1) = SumTo(f, m) + f[m + 1]
  BY <1>4, SumToStep
<1>8. SumTo(g, m) = SumTo(f, m)
  BY <1>5, SameValuesSameSum
<1>9. f[m + 1] = Distance(v[s[n]], v[s[n + 1]])
  BY <1>3, <1>4
<1>10. QED BY <1>6, <1>7, <1>8, <1>9

\* the way of the same positions is the same
LEMMA SameWay ==
  ASSUME NEW v, NEW s, NEW t, NEW n \in Nat \ {0}, HasPositions(v, s, n), \A i \in 1..n : t[i] = s[i]
  PROVE  Way(v, t, n) = Way(v, s, n)
<1> DEFINE f == [i \in 1..(n - 1) |-> Distance(v[s[i]], v[s[i + 1]])]
           g == [i \in 1..(n - 1) |-> Distance(v[t[i]], v[t[i + 1]])]
<1>1. \A i \in 1..(n - 1) : i \in 1..n /\ i + 1 \in 1..n
  OBVIOUS
<1>2. \A i \in 1..(n - 1) : Distance(v[s[i]], v[s[i + 1]]) \in Int
  BY StepType
<1>3. \A i \in 1..(n - 1) : f[i] \in Int /\ g[i] = f[i]
  BY <1>1, <1>2
<1>4. n - 1 \in Nat
  OBVIOUS
<1> HIDE DEF f, g
<1>5. SumTo(g, n - 1) = SumTo(f, n - 1)
  BY <1>3, <1>4, SameValuesSameSum
<1>6. QED BY <1>5 DEF Way, f, g

-----------------------------------------------------------------------------
(* The reversals. *)

\* three values that go up and down, or down and up; the second of the ways is not empty
Zig(a, b, c) == (a <= b /\ b > c) \/ (a >= b /\ b < c)
Zigzag(v, s) == \A i \in 1..(Len(s) - 2) : Zig(v[s[i]], v[s[i + 1]], v[s[i + 2]])

Between(x, lo, hi) == lo <= x /\ x <= hi
LEMMA BetweenBoth ==
  ASSUME NEW lo \in Int, NEW hi \in Int, NEW a \in Int, NEW b \in Int, NEW c \in Int,
         Between(a, lo, hi), Between(b, lo, hi), (a <= c /\ c <= b) \/ (b <= c /\ c <= a)
  PROVE  Between(c, lo, hi)
BY DEF Between

AllWithin(v, s, lo, hi) == \A i \in 1..Len(s) : Between(v[s[i]], lo, hi)
FirstWithin(v, m, lo, hi) == \A i \in 1..m : Between(v[i], lo, hi)

Places(v) == [i \in 1..Len(v) |-> i]

\* what is known of the first m values when the reversals in front of m are found
IsLooked(v, s, up, n, p, x, m) ==
  /\ s \in Seq(1..Len(v)) /\ Len(s) = n /\ n \in Nat \ {0}
  /\ p = v[s[n]] /\ x = v[m]
  /\ up \in BOOLEAN /\ (up => p <= x) /\ (~up => p >= x)
  /\ Zigzag(v, s) /\ (n >= 2 => Zig(v[s[n - 1]], p, x))
  /\ Way(v, s, n) + Distance(p, x) = Way(v, Places(v), m)
  /\ \A lo, hi \in Int : AllWithin(v, s, lo, hi) /\ Between(x, lo, hi) => FirstWithin(v, m, lo, hi)

Looked(v, st, m) == \E n, p, x : IsLooked(v, st.found, st.up, n, p, x, m)

LEMMA PositionFacts ==
  ASSUME NEW v \in Seq(Int), NEW s \in Seq(1..Len(v))
  PROVE  /\ Len(s) \in Nat
         /\ \A i \in 1..Len(s) : s[i] \in 1..Len(v) /\ v[s[i]] \in Int
         /\ HasPositions(v, s, Len(s))
<1>1. Len(s) \in Nat
  BY LenProperties
<1>2. \A i \in 1..Len(s) : s[i] \in 1..Len(v)
  BY ElementOfSeq
<1>3. \A i \in 1..Len(v) : v[i] \in Int
  BY ElementOfSeq
<1>4. QED BY <1>1, <1>2, <1>3 DEF HasPositions

LEMMA WayOfPlaces ==
  ASSUME NEW v \in Seq(Int), NEW m \in 1..(Len(v) - 1)
  PROVE  Way(v, Places(v), m + 1) = Way(v, Places(v), m) + Distance(v[m], v[m + 1])
<1>1. Len(v) \in Nat /\ \A i \in 1..Len(v) : v[i] \in Int
  BY LenProperties, ElementOfSeq
<1>2. PICK s : s = Places(v)
  OBVIOUS
<1>3. m \in Nat \ {0} /\ \A i \in 1..(m + 1) : i \in 1..Len(v)
  BY <1>1
<1>4. \A i \in 1..(m + 1) : s[i] = i
  BY <1>2, <1>3 DEF Places
<1>5. HasPositions(v, s, m + 1)
  BY <1>1, <1>3, <1>4 DEF HasPositions
<1>6. Way(v, s, m + 1) = Way(v, s, m) + Distance(v[s[m]], v[s[m + 1]])
  BY <1>3, <1>5, WayGoesOn
<1>7. s[m] = m /\ s[m + 1] = m + 1
  <2>1. m \in 1..(m + 1) /\ m + 1 \in 1..(m + 1)
    BY <1>3
  <2>2. QED BY <1>4, <2>1
<1>8. QED BY <1>2, <1>6, <1>7

\* on its way the value goes on in the same direction
LEMMA LookOn ==
  ASSUME NEW v \in Seq(Int), NEW m \in 2..(Len(v) - 1), NEW st, Looked(v, st, m),
         st.up => v[m + 1] >= v[m], ~st.up => v[m + 1] <= v[m]
  PROVE  Looked(v, st, m + 1)
<1>1. PICK s, up, n, p, x, y : s = st.found /\ up = st.up /\ y = v[m + 1] /\ IsLooked(v, s, up, n, p, x, m)
  BY DEF Looked
<1>2. Len(v) \in Nat /\ \A i \in 1..Len(v) : v[i] \in Int
  BY LenProperties, ElementOfSeq
<1>3. /\ s \in Seq(1..Len(v)) /\ Len(s) = n /\ n \in Nat \ {0}
      /\ p = v[s[n]] /\ x = v[m]
      /\ up \in BOOLEAN /\ (up => p <= x) /\ (~up => p >= x)
      /\ Zigzag(v, s) /\ (n >= 2 => Zig(v[s[n - 1]], p, x))
      /\ Way(v, s, n) + Distance(p, x) = Way(v, Places(v), m)
      /\ \A lo, hi \in Int : AllWithin(v, s, lo, hi) /\ Between(x, lo, hi) => FirstWithin(v, m, lo, hi)
  BY <1>1 DEF IsLooked
<1>4. \A i \in 1..n : v[s[i]] \in Int
  BY <1>3, PositionFacts
<1>5. x \in Int /\ y \in Int /\ p \in Int /\ (n >= 2 => v[s[n - 1]] \in Int) /\ m \in 1..(Len(v) - 1)
  <2>1. m \in 1..Len(v) /\ m + 1 \in 1..Len(v) /\ m \in 1..(Len(v) - 1)
    BY <1>2
  <2>2. n \in 1..n /\ (n >= 2 => n - 1 \in 1..n)
    BY <1>3
  <2>3. QED BY <1>1, <1>2, <1>3, <1>4, <2>1, <2>2
<1>6. (up => y >= x) /\ (~up => y <= x)
  BY <1>1, <1>3
<1>7. (up => p <= y) /\ (~up => p >= y)
  <2>1. (up => p <= x) /\ (~up => p >= x)
    BY <1>3
  <2>2. p \in Int /\ x \in Int /\ y \in Int
    BY <1>5
  <2>3. QED BY <1>6, <2>1, <2>2
<1>8. n >= 2 => Zig(v[s[n - 1]], p, y)
  <2> SUFFICES ASSUME n >= 2 PROVE Zig(v[s[n - 1]], p, y)
    OBVIOUS
  <2>1. PICK q : q = v[s[n - 1]]
    OBVIOUS
  <2>2. q \in Int /\ p \in Int /\ x \in Int /\ y \in Int
    BY <1>5, <2>1
  <2>3. Zig(q, p, x) /\ (up => p <= x) /\ (~up => p >= x)
    BY <1>3, <2>1
  <2>4. Zig(q, p, y)
    BY <1>6, <2>2, <2>3 DEF Zig
  <2>5. QED BY <2>1, <2>4
<1>9. Distance(p, y) = Distance(p, x) + Distance(x, y)
  <2>1. p \in Int /\ x \in Int /\ y \in Int
    BY <1>5
  <2>2. (p <= x /\ x <= y) \/ (p >= x /\ x >= y)
    BY <1>3, <1>6
  <2>3. QED BY <2>1, <2>2, DistanceAddsUp
<1>10. Way(v, s, n) + Distance(p, y) = Way(v, Places(v), m + 1)
  <2>1. Way(v, Places(v), m + 1) = Way(v, Places(v), m) + Distance(x, y)
    BY <1>1, <1>3, <1>5, WayOfPlaces
  <2>2. Way(v, s, n) \in Int
    BY <1>3, <1>4, WayType DEF HasPositions
  <2>3. Distance(p, x) \in Int /\ Distance(x, y) \in Int
    <3>1. p \in Int /\ x \in Int /\ y \in Int
      BY <1>5
    <3>2. Distance(p, x) \in Nat
      BY <3>1, DistanceType
    <3>3. Distance(x, y) \in Nat
      BY <3>1, DistanceType
    <3>4. QED BY <3>2, <3>3
  <2>4. QED BY <1>3, <1>9, <2>1, <2>2, <2>3
<1>11. ASSUME NEW lo \in Int, NEW hi \in Int, AllWithin(v, s, lo, hi), Between(y, lo, hi)
       PROVE  FirstWithin(v, m + 1, lo, hi)
  <2>1. Between(p, lo, hi)
    BY <1>3, <1>11 DEF AllWithin
  <2>2. Between(x, lo, hi)
    <3>1. (up => p <= x) /\ (~up => p >= x)
      BY <1>3
    <3>2. (p <= x /\ x <= y) \/ (y <= x /\ x <= p)
      BY <1>5, <1>6, <3>1
    <3>3. p \in Int /\ x \in Int /\ y \in Int
      BY <1>5
    <3>4. QED BY <1>11, <2>1, <3>2, <3>3, BetweenBoth
  <2>3. FirstWithin(v, m, lo, hi)
    BY <1>3, <1>11, <2>2
  <2>4. \A i \in 1..(m + 1) : i \in 1..m \/ i = m + 1
    BY <1>5
  <2>5. QED BY <1>1, <1>11, <2>3, <2>4 DEF FirstWithin
<1>12. IsLooked(v, s, up, n, p, y, m + 1)
  BY <1>1, <1>3, <1>7, <1>8, <1>10, <1>11 DEF IsLooked
<1>13. QED BY <1>1, <1>12 DEF Looked

LEMMA NotBoolean == \A b : (~b) \in BOOLEAN
OBVIOUS

\* the value turns: its last position is a reversal
LEMMA LookTurn ==
  ASSUME NEW v \in Seq(Int), NEW m \in 2..(Len(v) - 1), NEW st, Looked(v, st, m),
         st.up => v[m + 1] < v[m], ~st.up => v[m + 1] > v[m]
  PROVE  Looked(v, [found |-> Append(st.found, m), up |-> ~st.up], m + 1)
<1>1. PICK s, up, n, p, x, y : s = st.found /\ up = st.up /\ y = v[m + 1] /\ IsLooked(v, s, up, n, p, x, m)
  BY DEF Looked
<1>2. Len(v) \in Nat /\ \A i \in 1..Len(v) : v[i] \in Int
  BY LenProperties, ElementOfSeq
<1>3. /\ s \in Seq(1..Len(v)) /\ Len(s) = n /\ n \in Nat \ {0}
      /\ p = v[s[n]] /\ x = v[m]
      /\ up \in BOOLEAN /\ (up => p <= x) /\ (~up => p >= x)
      /\ Zigzag(v, s) /\ (n >= 2 => Zig(v[s[n - 1]], p, x))
      /\ Way(v, s, n) + Distance(p, x) = Way(v, Places(v), m)
      /\ \A lo, hi \in Int : AllWithin(v, s, lo, hi) /\ Between(x, lo, hi) => FirstWithin(v, m, lo, hi)
  BY <1>1 DEF IsLooked
<1>4. \A i \in 1..n : v[s[i]] \in Int
  BY <1>3, PositionFacts
<1>5. x \in Int /\ y \in Int /\ p \in Int /\ m \in 1..(Len(v) - 1) /\ m \in 1..Len(v)
  <2>1. m \in 1..Len(v) /\ m + 1 \in 1..Len(v) /\ m \in 1..(Len(v) - 1)
    BY <1>2
  <2>2. n \in 1..n
    BY <1>3
  <2>3. QED BY <1>1, <1>2, <1>3, <1>4, <2>1, <2>2
<1>6. (up => y < x) /\ (~up => y > x)
  BY <1>1, <1>3
<1>7. PICK t : t = Append(s, m)
  OBVIOUS
<1>8. t \in Seq(1..Len(v)) /\ Len(t) = n + 1 /\ t[n + 1] = m /\ \A i \in 1..n : t[i] = s[i]
  BY <1>3, <1>5, <1>7, AppendProperties
<1>9. n \in 1..n /\ n + 1 \in Nat \ {0} /\ (n + 1) - 1 = n
  BY <1>3
<1>10. v[t[n + 1]] = x /\ v[t[n]] = p
  BY <1>3, <1>8, <1>9
<1>11. Zig(p, x, y)
  BY <1>3, <1>5, <1>6 DEF Zig
<1>12. Zigzag(v, t)
  <2> SUFFICES ASSUME NEW i \in 1..(Len(t) - 2)
               PROVE  Zig(v[t[i]], v[t[i + 1]], v[t[i + 2]])
    BY DEF Zigzag
  <2>1. i \in 1..(n - 1)
    BY <1>3, <1>8
  <2>2. CASE i = n - 1
    <3>1. i + 1 = n /\ i + 2 = n + 1 /\ n >= 2 /\ i \in 1..n
      BY <1>3, <2>1, <2>2
    <3>2. t[i] = s[n - 1]
      BY <1>8, <2>2, <3>1
    <3>3. QED BY <1>3, <1>10, <3>1, <3>2
  <2>3. CASE i # n - 1
    <3>1. i \in 1..(Len(s) - 2) /\ i \in 1..n /\ i + 1 \in 1..n /\ i + 2 \in 1..n
      BY <1>3, <2>1, <2>3
    <3>2. t[i] = s[i] /\ t[i + 1] = s[i + 1] /\ t[i + 2] = s[i + 2]
      BY <1>8, <3>1
    <3>3. QED BY <1>3, <3>1, <3>2 DEF Zigzag
  <2>4. QED BY <2>2, <2>3
<1>13. Way(v, t, n + 1) + Distance(x, y) = Way(v, Places(v), m + 1)
  <2>1. Way(v, Places(v), m + 1) = Way(v, Places(v), m) + Distance(x, y)
    BY <1>1, <1>3, <1>5, WayOfPlaces
  <2>2. HasPositions(v, s, n)
    BY <1>4 DEF HasPositions
  <2>3. HasPositions(v, t, n + 1)
    <3>1. \A i \in 1..(n + 1) : i \in 1..n \/ i = n + 1
      BY <1>3
    <3>2. QED BY <1>4, <1>5, <1>8, <1>10, <3>1 DEF HasPositions
  <2>4. Way(v, t, n) = Way(v, s, n)
    BY <1>3, <1>8, <2>2, SameWay
  <2>5. Way(v, t, n + 1) = Way(v, t, n) + Distance(p, x)
    <3>1. Way(v, t, n + 1) = Way(v, t, n) + Distance(v[t[n]], v[t[n + 1]])
      BY <1>3, <2>3, WayGoesOn
    <3>2. QED BY <1>10, <3>1
  <2>6. QED BY <1>3, <2>1, <2>4, <2>5
<1>14. ASSUME NEW lo \in Int, NEW hi \in Int, AllWithin(v, t, lo, hi), Between(y, lo, hi)
       PROVE  FirstWithin(v, m + 1, lo, hi)
  <2>1. \A i \in 1..n : Between(v[s[i]], lo, hi)
    <3>1. \A i \in 1..n : i \in 1..Len(t)
      BY <1>3, <1>8
    <3>2. QED BY <1>8, <1>14, <3>1 DEF AllWithin
  <2>2. Between(x, lo, hi)
    <3>1. n + 1 \in 1..Len(t)
      BY <1>3, <1>8
    <3>2. QED BY <1>10, <1>14, <3>1 DEF AllWithin
  <2>3. FirstWithin(v, m, lo, hi)
    BY <1>3, <2>1, <2>2 DEF AllWithin
  <2>4. \A i \in 1..(m + 1) : i \in 1..m \/ i = m + 1
    BY <1>5
  <2>5. QED BY <1>1, <1>14, <2>3, <2>4 DEF FirstWithin
<1>15. (~up => x <= y) /\ (~~up => x >= y) /\ (~up) \in BOOLEAN
  <2>1. (y < x => x >= y) /\ (y > x => x <= y)
    BY <1>5
  <2>2. up => x >= y
    BY <1>6, <2>1, Zenon
  <2>3. ~up => x <= y
    BY <1>6, <2>1, Zenon
  <2>4. ~~up => x >= y
    BY <1>3, <2>2, Zenon
  <2>5. QED BY <2>3, <2>4, NotBoolean, Zenon
<1>16. IsLooked(v, t, ~up, n + 1, x, y, m + 1)
  <2>1. n + 1 >= 2 => Zig(v[t[(n + 1) - 1]], x, y)
    BY <1>9, <1>10, <1>11
  <2>2. QED BY <1>1, <1>8, <1>9, <1>10, <1>12, <1>13, <1>14, <1>15, <2>1 DEF IsLooked
<1>17. QED BY <1>1, <1>7, <1>16 DEF Looked

LEMMA LookStep ==
  ASSUME NEW v \in Seq(Int), NEW m \in 2..(Len(v) - 1), NEW st, Looked(v, st, m)
  PROVE  Looked(v, Look(v, st, m), m + 1)
<1>1. v[m] \in Int /\ v[m + 1] \in Int
  <2>1. Len(v) \in Nat /\ \A i \in 1..Len(v) : v[i] \in Int
    BY LenProperties, ElementOfSeq
  <2>2. m \in 1..Len(v) /\ m + 1 \in 1..Len(v)
    BY <2>1
  <2>3. QED BY <2>1, <2>2
<1>2. CASE IF st.up THEN v[m + 1] < v[m] ELSE v[m + 1] > v[m]
  <2>1. (st.up => v[m + 1] < v[m]) /\ (~st.up => v[m + 1] > v[m])
    BY <1>2
  <2>2. Look(v, st, m) = [found |-> Append(st.found, m), up |-> ~st.up]
    BY <1>2 DEF Look
  <2>3. QED BY <2>1, <2>2, LookTurn
<1>3. CASE ~(IF st.up THEN v[m + 1] < v[m] ELSE v[m + 1] > v[m])
  <2>1. (st.up => ~(v[m + 1] < v[m])) /\ (~st.up => ~(v[m + 1] > v[m]))
    BY <1>3
  <2>2. (st.up => v[m + 1] >= v[m]) /\ (~st.up => v[m + 1] <= v[m])
    <3>1. ~(v[m + 1] < v[m]) => v[m + 1] >= v[m]
      BY <1>1
    <3>2. ~(v[m + 1] > v[m]) => v[m + 1] <= v[m]
      BY <1>1
    <3>3. QED BY <2>1, <3>1, <3>2
  <2>3. Look(v, st, m) = st
    BY <1>3 DEF Look
  <2>4. QED BY <2>2, <2>3, LookOn
<1>4. QED BY <1>2, <1>3

Lookings(v) == [found : Seq(1..Len(v)), up : BOOLEAN]

LEMMA LookType ==
  ASSUME NEW v \in Seq(Int), NEW m \in 2..(Len(v) - 1), NEW st \in Lookings(v)
  PROVE  Look(v, st, m) \in Lookings(v)
<1>1. Len(v) \in Nat
  BY LenProperties
<1>2. m \in 1..Len(v)
  BY <1>1
<1>3. st.found \in Seq(1..Len(v)) /\ st.up \in BOOLEAN
  BY DEF Lookings
<1>4. Append(st.found, m) \in Seq(1..Len(v))
  BY <1>2, <1>3, AppendProperties
<1>5. (~st.up) \in BOOLEAN
  BY NotBoolean
<1>6. [found |-> Append(st.found, m), up |-> ~st.up] \in Lookings(v)
  BY <1>4, <1>5, Zenon DEF Lookings
<1>7. QED BY <1>6 DEF Look

LookBody(v, look) ==
  [k \in 0..(Len(v) - 2) |->
     IF k = 0 THEN [found |-> <<1>>, up |-> v[1] <= v[2]] ELSE Look(v, look[k - 1], k + 1)]

LEMMA LookExists ==
  ASSUME NEW v \in Seq(Int), Len(v) >= 2
  PROVE  \E look : /\ Reversals(v) = Append(look[Len(v) - 2].found, Len(v))
                   /\ look[0] = [found |-> <<1>>, up |-> v[1] <= v[2]]
                   /\ \A k \in 1..(Len(v) - 2) : look[k] = Look(v, look[k - 1], k + 1)
<1>1. PICK n \in Nat : n = Len(v) - 2
  <2>1. Len(v) \in Nat
    BY LenProperties
  <2>2. QED BY <2>1
<1>2. Len(v) = n + 2 /\ Len(v) \in Nat
  BY <1>1, LenProperties
<1>3. PICK b : b = [found |-> <<1>>, up |-> v[1] <= v[2]]
  OBVIOUS
<1>4. b \in Lookings(v)
  <2>1. 1 \in 1..Len(v)
    BY <1>2
  <2>2. <<1>> \in Seq(1..Len(v))
    BY <2>1
  <2>3. (v[1] <= v[2]) \in BOOLEAN
    OBVIOUS
  <2>4. QED BY <1>3, <2>2, <2>3 DEF Lookings
<1> DEFINE X == Lookings(v)
           step == [p \in (1..n) \X X |-> Look(v, p[2], p[1] + 1)]
<1>5. step \in [(1..n) \X X -> X]
  <2>1. \A k \in 1..n : k + 1 \in 2..(Len(v) - 1)
    BY <1>2
  <2> HIDE DEF X
  <2>2. \A k \in 1..n, st \in X : Look(v, st, k + 1) \in X
    <3> TAKE k \in 1..n, st \in X
    <3>1. k + 1 \in 2..(Len(v) - 1)
      BY <2>1
    <3>2. st \in Lookings(v)
      BY DEF X
    <3>3. Look(v, st, k + 1) \in Lookings(v)
      BY <3>1, <3>2, LookType
    <3>4. QED BY <3>3 DEF X
  <2>3. \A p \in (1..n) \X X : p[1] \in 1..n /\ p[2] \in X
    OBVIOUS
  <2>4. QED BY <2>2, <2>3
<1>6. \A k \in 1..n, st \in X : step[<<k, st>>] = Look(v, st, k + 1)
  <2> HIDE DEF X
  <2>1. QED OBVIOUS
<1> HIDE DEF X, step
<1>7. PICK s \in [0..n -> X] : IsRecursion(s, n, b, step)
  <2>1. b \in X
    BY <1>4 DEF X
  <2>2. QED BY <1>5, <2>1, RecursionExists
<1>8. s[0] = b /\ \A k \in 1..n : s[k] = Look(v, s[k - 1], k + 1)
  <2>1. \A k \in 1..n : s[k - 1] \in X
    OBVIOUS
  <2>2. QED BY <1>6, <1>7, <2>1 DEF IsRecursion
<1>9. s = LookBody(v, s)
  <2>1. \A k \in 0..n : k = 0 \/ k \in 1..n
    OBVIOUS
  <2>2. \A k \in 0..n : s[k] = LookBody(v, s)[k]
    BY <1>1, <1>3, <1>8, <2>1 DEF LookBody
  <2>3. QED BY <1>1, <1>7, <2>2 DEF LookBody
<1> DEFINE look == CHOOSE f : f = LookBody(v, f)
<1>10. look = LookBody(v, look)
  BY <1>9
<1>11. Reversals(v) = Append(look[Len(v) - 2].found, Len(v))
  BY DEF Reversals, LookBody
<1> HIDE DEF look
<1>12. look[0] = [found |-> <<1>>, up |-> v[1] <= v[2]] /\ \A k \in 1..(Len(v) - 2) : look[k] = Look(v, look[k - 1], k + 1)
  <2>1. 0 \in 0..(Len(v) - 2) /\ \A k \in 1..(Len(v) - 2) : k \in 0..(Len(v) - 2) /\ k # 0
    BY <1>2
  <2>2. QED BY <1>10, <2>1 DEF LookBody
<1>13. QED BY <1>11, <1>12

\* what is known of the reversals
Reversed(v, r) ==
  /\ r \in Seq(1..Len(v)) /\ Len(r) >= 2
  /\ Zigzag(v, r)
  /\ Way(v, r, Len(r)) = Way(v, Places(v), Len(v))
  /\ \A lo, hi \in Int : AllWithin(v, r, lo, hi) => FirstWithin(v, Len(v), lo, hi)

LEMMA FirstLooked ==
  ASSUME NEW v \in Seq(Int), Len(v) >= 2
  PROVE  Looked(v, [found |-> <<1>>, up |-> v[1] <= v[2]], 2)
<1>1. Len(v) \in Nat /\ \A i \in 1..Len(v) : v[i] \in Int
  BY LenProperties, ElementOfSeq
<1>2. PICK s, up, p, x : s = <<1>> /\ up = (v[1] <= v[2]) /\ p = v[1] /\ x = v[2]
  OBVIOUS
<1>3. 1 \in 1..Len(v) /\ 2 \in 1..Len(v) /\ 1 \in 1..(Len(v) - 1) /\ 1 + 1 = 2
  BY <1>1
<1>4. p \in Int /\ x \in Int
  BY <1>1, <1>2, <1>3
<1>5. s \in Seq(1..Len(v)) /\ Len(s) = 1 /\ s[1] = 1
  BY <1>2, <1>3
<1>6. up \in BOOLEAN /\ (up => p <= x)
  <2>1. up = (p <= x)
    BY <1>2, Zenon
  <2>2. (p <= x) \in BOOLEAN
    OBVIOUS
  <2>3. up \in BOOLEAN
    BY <2>1, <2>2, Zenon
  <2>4. up => p <= x
    BY <2>1, Zenon
  <2>5. QED BY <2>3, <2>4, Zenon
<1>7. ~up => p >= x
  <2>1. ~(p <= x) => p >= x
    BY <1>4
  <2>2. up = (p <= x)
    BY <1>2, Zenon
  <2>3. QED BY <2>1, <2>2, Zenon
<1>8. Zigzag(v, s)
  BY <1>5 DEF Zigzag
<1>9. Way(v, s, 1) + Distance(p, x) = Way(v, Places(v), 2)
  <2>1. Way(v, Places(v), 1 + 1) = Way(v, Places(v), 1) + Distance(v[1], v[1 + 1])
    BY <1>3, WayOfPlaces
  <2>2. QED BY <1>2, <2>1, WayOfOne
<1>10. ASSUME NEW lo \in Int, NEW hi \in Int, AllWithin(v, s, lo, hi), Between(x, lo, hi)
       PROVE  FirstWithin(v, 2, lo, hi)
  <2>1. Between(v[1], lo, hi)
    BY <1>5, <1>10 DEF AllWithin
  <2>2. \A i \in 1..2 : i = 1 \/ i = 2
    OBVIOUS
  <2>3. QED BY <1>2, <1>10, <2>1, <2>2 DEF FirstWithin
<1>11. IsLooked(v, s, up, 1, p, x, 2)
  <2>1. 1 \in Nat \ {0} /\ ~(1 >= 2)
    OBVIOUS
  <2>2. p = v[s[1]] /\ x = v[2]
    BY <1>2, <1>5
  <2>3. QED BY <1>5, <1>6, <1>7, <1>8, <1>9, <1>10, <2>1, <2>2 DEF IsLooked
<1>12. QED BY <1>2, <1>11 DEF Looked

\* the last position closes the reversals
LEMMA LastReversal ==
  ASSUME NEW v \in Seq(Int), Len(v) >= 2, NEW st, Looked(v, st, Len(v))
  PROVE  Reversed(v, Append(st.found, Len(v)))
<1>1. PICK N : N = Len(v)
  OBVIOUS
<1>2. PICK s, up, n, p, x : s = st.found /\ IsLooked(v, s, up, n, p, x, N)
  BY <1>1 DEF Looked
<1>3. N \in Nat \ {0} /\ N \in 1..N /\ \A i \in 1..N : v[i] \in Int
  <2>1. Len(v) \in Nat /\ \A i \in 1..Len(v) : v[i] \in Int
    BY LenProperties, ElementOfSeq
  <2>2. QED BY <1>1, <2>1
<1>4. /\ s \in Seq(1..N) /\ Len(s) = n /\ n \in Nat \ {0}
      /\ p = v[s[n]] /\ x = v[N]
      /\ Zigzag(v, s) /\ (n >= 2 => Zig(v[s[n - 1]], p, x))
      /\ Way(v, s, n) + Distance(p, x) = Way(v, Places(v), N)
      /\ \A lo, hi \in Int : AllWithin(v, s, lo, hi) /\ Between(x, lo, hi) => FirstWithin(v, N, lo, hi)
  BY <1>1, <1>2 DEF IsLooked
<1>5. \A i \in 1..n : v[s[i]] \in Int
  BY <1>1, <1>4, PositionFacts
<1>6. PICK t : t = Append(s, N)
  OBVIOUS
<1>7. t \in Seq(1..N) /\ Len(t) = n + 1 /\ t[n + 1] = N /\ \A i \in 1..n : t[i] = s[i]
  BY <1>3, <1>4, <1>6, AppendProperties
<1>8. n \in 1..n /\ n + 1 \in Nat \ {0} /\ n + 1 >= 2
  BY <1>4
<1>9. v[t[n + 1]] = x /\ v[t[n]] = p /\ x \in Int
  BY <1>3, <1>4, <1>7, <1>8
<1>10. Zigzag(v, t)
  <2> SUFFICES ASSUME NEW i \in 1..(Len(t) - 2)
               PROVE  Zig(v[t[i]], v[t[i + 1]], v[t[i + 2]])
    BY DEF Zigzag
  <2>1. i \in 1..(n - 1)
    BY <1>4, <1>7
  <2>2. CASE i = n - 1
    <3>1. i + 1 = n /\ i + 2 = n + 1 /\ n >= 2 /\ i \in 1..n
      BY <1>4, <2>1, <2>2
    <3>2. t[i] = s[n - 1]
      BY <1>7, <2>2, <3>1
    <3>3. QED BY <1>4, <1>9, <3>1, <3>2
  <2>3. CASE i # n - 1
    <3>1. i \in 1..(Len(s) - 2) /\ i \in 1..n /\ i + 1 \in 1..n /\ i + 2 \in 1..n
      BY <1>4, <2>1, <2>3
    <3>2. t[i] = s[i] /\ t[i + 1] = s[i + 1] /\ t[i + 2] = s[i + 2]
      BY <1>7, <3>1
    <3>3. QED BY <1>4, <3>1, <3>2 DEF Zigzag
  <2>4. QED BY <2>2, <2>3
<1>11. Way(v, t, Len(t)) = Way(v, Places(v), N)
  <2>1. HasPositions(v, s, n)
    BY <1>5 DEF HasPositions
  <2>2. HasPositions(v, t, n + 1)
    <3>1. \A i \in 1..(n + 1) : i \in 1..n \/ i = n + 1
      BY <1>4
    <3>2. QED BY <1>5, <1>7, <1>9, <3>1 DEF HasPositions
  <2>3. Way(v, t, n) = Way(v, s, n)
    BY <1>4, <1>7, <2>1, SameWay
  <2>4. Way(v, t, n + 1) = Way(v, t, n) + Distance(v[t[n]], v[t[n + 1]])
    BY <1>4, <2>2, WayGoesOn
  <2>5. QED BY <1>4, <1>7, <1>9, <2>3, <2>4
<1>12. ASSUME NEW lo \in Int, NEW hi \in Int, AllWithin(v, t, lo, hi)
       PROVE  FirstWithin(v, N, lo, hi)
  <2>1. \A i \in 1..n : Between(v[s[i]], lo, hi)
    <3>1. \A i \in 1..n : i \in 1..Len(t)
      BY <1>4, <1>7
    <3>2. QED BY <1>7, <1>12, <3>1 DEF AllWithin
  <2>2. Between(x, lo, hi)
    <3>1. n + 1 \in 1..Len(t)
      BY <1>4, <1>7
    <3>2. QED BY <1>9, <1>12, <3>1 DEF AllWithin
  <2>3. QED BY <1>4, <2>1, <2>2 DEF AllWithin
<1>13. Reversed(v, t)
  BY <1>1, <1>7, <1>8, <1>10, <1>11, <1>12 DEF Reversed
<1>14. QED BY <1>1, <1>2, <1>6, <1>13

LEMMA ReversalsFound ==
  ASSUME NEW v \in Seq(Int), Len(v) >= 2
  PROVE  Reversed(v, Reversals(v))
<1>1. PICK look :
        /\ Reversals(v) = Append(look[Len(v) - 2].found, Len(v))
        /\ look[0] = [found |-> <<1>>, up |-> v[1] <= v[2]]
        /\ \A k \in 1..(Len(v) - 2) : look[k] = Look(v, look[k - 1], k + 1)
  BY LookExists
<1>2. PICK n \in Nat : n = Len(v) - 2
  <2>1. Len(v) \in Nat
    BY LenProperties
  <2>2. QED BY <2>1
<1>3. Len(v) = n + 2 /\ Len(v) \in Nat
  BY <1>2, LenProperties
<1> DEFINE S == {k \in 0..n : Looked(v, look[k], k + 2)}
<1>4. 0 \in S
  <2>1. 0 \in 0..n /\ 0 + 2 = 2
    OBVIOUS
  <2>2. Looked(v, look[0], 2)
    BY <1>1, FirstLooked
  <2>3. QED BY <2>1, <2>2
<1>5. ASSUME NEW i \in 0..(n - 1), i \in S PROVE i + 1 \in S
  <2>1. i + 2 \in 2..(Len(v) - 1) /\ i + 1 \in 0..n /\ i + 1 \in 1..(Len(v) - 2) /\ (i + 1) - 1 = i
        /\ (i + 1) + 1 = i + 2 /\ (i + 2) + 1 = (i + 1) + 2
    BY <1>3
  <2>2. Looked(v, look[i], i + 2)
    BY <1>5
  <2>3. Looked(v, Look(v, look[i], i + 2), (i + 2) + 1)
    BY <2>1, <2>2, LookStep
  <2>4. look[i + 1] = Look(v, look[i], i + 2)
    BY <1>1, <2>1
  <2>5. QED BY <2>1, <2>3, <2>4
<1> HIDE DEF S
<1>6. \A i \in 0..n : i \in S
  BY <1>4, <1>5, InductionTo
<1>7. Looked(v, look[n], n + 2)
  <2>1. n \in S
    BY <1>6
  <2>2. QED BY <2>1 DEF S
<1>8. Reversed(v, Append(look[n].found, Len(v)))
  BY <1>3, <1>7, LastReversal
<1>9. QED BY <1>1, <1>2, <1>8

-----------------------------------------------------------------------------
(* The turns. *)

\* four values, the inner two of which make a range that the ranges on both sides cover
LEMMA ZigFold ==
  ASSUME NEW a \in Int, NEW b \in Int, NEW c \in Int, NEW d \in Int, Zig(a, b, c), Zig(b, c, d),
         Distance(c, d) >= Distance(b, c), Distance(a, b) > Distance(b, c)
  PROVE  /\ (a < c /\ c < b /\ b <= d) \/ (a > c /\ c > b /\ b >= d)
         /\ Distance(a, b) + Distance(b, c) + Distance(c, d) = Distance(a, d) + 2 * Distance(b, c)
<1>1. CASE a <= b /\ b > c
  <2>1. c < d
    BY <1>1 DEF Zig
  <2>2. Distance(c, d) = d - c /\ Distance(b, c) = b - c
    BY <1>1, <2>1 DEF Distance
  <2>3. b <= d
    BY <2>2
  <2>4. Distance(a, b) = b - a
    BY <1>1 DEF Distance
  <2>5. a < c
    BY <2>2, <2>4
  <2>6. Distance(a, d) = d - a
    BY <1>1, <2>3 DEF Distance
  <2>7. QED BY <1>1, <2>2, <2>3, <2>4, <2>5, <2>6
<1>2. CASE a >= b /\ b < c
  <2>1. c > d
    BY <1>2 DEF Zig
  <2>2. Distance(c, d) = c - d /\ Distance(b, c) = c - b
    BY <1>2, <2>1 DEF Distance
  <2>3. b >= d
    BY <2>2
  <2>4. Distance(a, b) = a - b
    BY <1>2 DEF Distance
  <2>5. a > c
    BY <2>2, <2>4
  <2>6. Distance(a, d) = a - d
    BY <1>2, <2>3 DEF Distance
  <2>7. QED BY <1>2, <2>2, <2>3, <2>4, <2>5, <2>6
<1>3. QED BY <1>1, <1>2 DEF Zig

\* the first of three values lies between the others when the second range covers the first
LEMMA ZigCovered ==
  ASSUME NEW a \in Int, NEW b \in Int, NEW c \in Int, Zig(a, b, c), Distance(b, c) >= Distance(a, b)
  PROVE  (b >= a /\ a >= c) \/ (b <= a /\ a <= c)
BY DEF Zig, Distance

\* and the last one when the first range is wider
LEMMA ZigNarrows ==
  ASSUME NEW a \in Int, NEW b \in Int, NEW c \in Int, Zig(a, b, c), Distance(a, b) > Distance(b, c)
  PROVE  (a <= c /\ c <= b) \/ (a >= c /\ c >= b)
BY DEF Zig, Distance

CountedCycles == [halves : {1, 2}, depth : Nat, start : Nat, end : Nat]

LEMMA CountedType ==
  ASSUME NEW c \in Seq(CountedCycles)
  PROVE  /\ Len(c) \in Nat
         /\ \A i \in 1..Len(c) : c[i].halves * c[i].depth \in Int
         /\ CountedWay(c) = SumTo([i \in 1..Len(c) |-> c[i].halves * c[i].depth], Len(c))
         /\ CountedWay(c) \in Int
<1>1. Len(c) \in Nat /\ DOMAIN c = 1..Len(c) /\ \A i \in 1..Len(c) : c[i] \in CountedCycles
  BY LenProperties, ElementOfSeq
<1>2. \A x \in CountedCycles : x.halves * x.depth \in Int
  <2> TAKE x \in CountedCycles
  <2>1. (x.halves = 1 \/ x.halves = 2) /\ x.depth \in Nat
    BY DEF CountedCycles
  <2>2. QED BY <2>1
<1>3. \A i \in 1..Len(c) : c[i].halves * c[i].depth \in Int
  BY <1>1, <1>2
<1> DEFINE f == [i \in 1..Len(c) |-> c[i].halves * c[i].depth]
<1>4. CountedWay(c) = SumTo(f, Len(c))
  BY <1>1 DEF CountedWay
<1>5. \A i \in 1..Len(c) : f[i] \in Int
  BY <1>3
<1> HIDE DEF f
<1>6. SumTo(f, Len(c)) \in Int
  BY <1>1, <1>5, SumToType
<1>7. QED BY <1>1, <1>3, <1>4, <1>6 DEF f

LEMMA CountedStep ==
  ASSUME NEW c \in Seq(CountedCycles), NEW x \in CountedCycles
  PROVE  Append(c, x) \in Seq(CountedCycles) /\ CountedWay(Append(c, x)) = CountedWay(c) + x.halves * x.depth
<1>1. PICK d, n : d = Append(c, x) /\ n = Len(c)
  OBVIOUS
<1>2. d \in Seq(CountedCycles) /\ n \in Nat /\ Len(d) = n + 1 /\ d[n + 1] = x /\ \A i \in 1..n : d[i] = c[i]
  <2>1. n \in Nat
    BY <1>1, LenProperties
  <2>2. QED BY <1>1, <2>1, AppendProperties
<1> DEFINE f == [i \in 1..(n + 1) |-> d[i].halves * d[i].depth]
           g == [i \in 1..n |-> c[i].halves * c[i].depth]
<1>3. CountedWay(d) = SumTo(f, n + 1) /\ \A i \in 1..(n + 1) : f[i] \in Int
  BY <1>2, CountedType
<1>4. CountedWay(c) = SumTo(g, n) /\ \A i \in 1..n : g[i] \in Int
  BY <1>1, CountedType
<1>5. f[n + 1] = x.halves * x.depth
  <2>1. n + 1 \in 1..(n + 1)
    BY <1>2
  <2>2. QED BY <1>2, <2>1
<1>6. \A i \in 1..n : g[i] = f[i] /\ f[i] \in Int
  <2>1. \A i \in 1..n : i \in 1..(n + 1)
    BY <1>2
  <2>2. QED BY <1>2, <1>3, <2>1
<1> HIDE DEF f, g
<1>7. SumTo(f, n + 1) = SumTo(f, n) + f[n + 1]
  BY <1>2, <1>3, SumToStep
<1>8. SumTo(g, n) = SumTo(f, n)
  BY <1>2, <1>6, SameValuesSameSum
<1>9. QED BY <1>1, <1>2, <1>3, <1>4, <1>5, <1>7, <1>8

\* the range from position i of s to the next one
RangeAt(v, s, i) == Distance(v[s[i]], v[s[i + 1]])

\* the first n positions of s make ranges that get smaller
Falling(v, s, n) == \A i \in 1..(n - 2) : RangeAt(v, s, i) > RangeAt(v, s, i + 1)

\* the range of the last two covers the one in front of it
Enough(v, s) == Len(s) >= 3 /\ RangeAt(v, s, Len(s) - 1) >= RangeAt(v, s, Len(s) - 2)

\* what is known when m of the reversals r are read
Counts(v, r, s, u, c, n, m) ==
  /\ s \in Seq(1..Len(v)) /\ Len(s) = n /\ n \in Nat
  /\ u \in Seq(1..Len(v)) /\ m \in 0..Len(r) /\ Len(u) = Len(r) - m /\ \A i \in 1..Len(u) : u[i] = r[m + i]
  /\ c \in Seq(CountedCycles)
  /\ n <= m /\ (m >= 1 => n >= 1 /\ s[n] = r[m]) /\ (m >= 2 => n >= 2)
  /\ Zigzag(v, s) /\ (n >= 2 /\ m < Len(r) => Zig(v[s[n - 1]], v[s[n]], v[r[m + 1]]))
  /\ (m = 0 => c = <<>>) /\ (m >= 1 => CountedWay(c) + Way(v, s, n) = Way(v, r, m))
  /\ Falling(v, s, n - 1)
  /\ \A lo, hi \in Int : AllWithin(v, s, lo, hi) /\ AllWithin(v, u, lo, hi) => FirstWithin(v, Len(v), lo, hi)

LEMMA ReadType ==
  ASSUME NEW v \in Seq(Int), NEW r, NEW s, NEW u, NEW c, NEW n, NEW m, Reversed(v, r), Counts(v, r, s, u, c, n, m)
  PROVE  /\ Len(v) \in Nat /\ Len(r) \in Nat /\ n \in Nat /\ m \in Nat /\ m <= Len(r) /\ n <= m
         /\ HasPositions(v, s, n) /\ HasPositions(v, r, Len(r))
         /\ \A i \in 1..Len(u) : v[u[i]] \in Int
<1>1. r \in Seq(1..Len(v)) /\ s \in Seq(1..Len(v)) /\ u \in Seq(1..Len(v)) /\ Len(s) = n /\ m \in 0..Len(r) /\ n <= m
  BY DEF Counts, Reversed
<1>2. Len(v) \in Nat /\ Len(r) \in Nat
  BY <1>1, LenProperties
<1>3. Len(s) \in Nat /\ HasPositions(v, s, Len(s))
  BY <1>1, PositionFacts
<1>4. HasPositions(v, r, Len(r))
  BY <1>1, PositionFacts
<1>5. \A i \in 1..Len(u) : v[u[i]] \in Int
  BY <1>1, PositionFacts
<1>6. QED BY <1>1, <1>2, <1>3, <1>4, <1>5

\* a reversal is read
LEMMA ReadOne ==
  ASSUME NEW v \in Seq(Int), NEW r, NEW s, NEW u, NEW c, NEW n, NEW m,
         Reversed(v, r), Counts(v, r, s, u, c, n, m), u # <<>>, ~Enough(v, s)
  PROVE  Counts(v, r, Append(s, Head(u)), Tail(u), c, n + 1, m + 1)
<1>1. PICK N, t, w, h : N = Len(v) /\ t = Append(s, h) /\ w = Tail(u) /\ h = Head(u)
  OBVIOUS
<1>2. /\ N \in Nat /\ Len(r) \in Nat /\ n \in Nat /\ m \in Nat /\ m <= Len(r) /\ n <= m
      /\ HasPositions(v, s, n) /\ HasPositions(v, r, Len(r))
  BY <1>1, ReadType
<1>3. /\ s \in Seq(1..N) /\ Len(s) = n
      /\ u \in Seq(1..N) /\ Len(u) = Len(r) - m /\ \A i \in 1..Len(u) : u[i] = r[m + i]
  BY <1>1 DEF Counts
<1>4. (m >= 1 => n >= 1 /\ s[n] = r[m]) /\ (m >= 2 => n >= 2)
  BY DEF Counts
<1>5. Zigzag(v, s) /\ (n >= 2 /\ m < Len(r) => Zig(v[s[n - 1]], v[s[n]], v[r[m + 1]])) /\ Zigzag(v, r)
  BY DEF Counts, Reversed
<1>6. h \in 1..N /\ w \in Seq(1..N) /\ Len(w) = Len(u) - 1 /\ \A i \in 1..Len(w) : w[i] = u[i + 1]
  BY <1>1, <1>3, HeadTailProperties
<1>7. Len(u) >= 1 /\ m < Len(r)
  <2>1. Len(u) \in Nat \ {0}
    BY <1>3, EmptySeq
  <2>2. QED BY <1>2, <1>3, <2>1
<1>8. h = r[m + 1] /\ h = u[1]
  <2>1. h = u[1]
    BY <1>1
  <2>2. 1 \in 1..Len(u)
    BY <1>2, <1>3, <1>7
  <2>3. QED BY <1>3, <2>1, <2>2
<1>9. t \in Seq(1..N) /\ Len(t) = n + 1 /\ t[n + 1] = h /\ \A i \in 1..n : t[i] = s[i]
  BY <1>1, <1>3, <1>6, AppendProperties
<1>10. m + 1 \in 0..Len(r) /\ Len(w) = Len(r) - (m + 1) /\ \A i \in 1..Len(w) : w[i] = r[(m + 1) + i]
  <2>1. m + 1 \in 0..Len(r) /\ Len(w) = Len(r) - (m + 1)
    BY <1>2, <1>3, <1>6, <1>7
  <2>2. ASSUME NEW i \in 1..Len(w) PROVE w[i] = r[(m + 1) + i]
    <3>1. i + 1 \in 1..Len(u) /\ m + (i + 1) = (m + 1) + i
      BY <1>2, <1>3, <1>6
    <3>2. w[i] = u[i + 1] /\ u[i + 1] = r[m + (i + 1)]
      BY <1>3, <1>6, <3>1
    <3>3. QED BY <3>1, <3>2
  <2>3. QED BY <2>1, <2>2
<1>11. n + 1 <= m + 1 /\ (m + 1 >= 1 => n + 1 >= 1 /\ t[n + 1] = r[m + 1]) /\ (m + 1 >= 2 => n + 1 >= 2)
  BY <1>2, <1>4, <1>8, <1>9
<1>12. m + 1 # 0 /\ n + 1 # 0 /\ m + 1 \in 1..Len(r) /\ (n + 1) - 1 = n
  BY <1>2, <1>7
<1>13. HasPositions(v, t, n + 1)
  <2>1. \A i \in 1..(n + 1) : i \in 1..n \/ i = n + 1
    BY <1>2
  <2>2. v[t[n + 1]] \in Int
    BY <1>2, <1>8, <1>9, <1>12 DEF HasPositions
  <2>3. \A i \in 1..n : v[t[i]] \in Int
    BY <1>2, <1>9 DEF HasPositions
  <2>4. QED BY <2>1, <2>2, <2>3 DEF HasPositions
<1>14. Zigzag(v, t)
  <2> SUFFICES ASSUME NEW i \in 1..(Len(t) - 2)
               PROVE  Zig(v[t[i]], v[t[i + 1]], v[t[i + 2]])
    BY DEF Zigzag
  <2>1. i \in 1..(n - 1)
    BY <1>2, <1>9
  <2>2. CASE i = n - 1
    <3>1. i + 1 = n /\ i + 2 = n + 1 /\ n >= 2 /\ i \in 1..n /\ n \in 1..n
      BY <1>2, <2>1, <2>2
    <3>2. t[i] = s[n - 1] /\ t[i + 1] = s[n] /\ t[i + 2] = r[m + 1]
      BY <1>8, <1>9, <2>2, <3>1
    <3>3. QED BY <1>5, <1>7, <3>1, <3>2
  <2>3. CASE i # n - 1
    <3>1. i \in 1..(Len(s) - 2) /\ i \in 1..n /\ i + 1 \in 1..n /\ i + 2 \in 1..n
      BY <1>2, <1>3, <2>1, <2>3
    <3>2. t[i] = s[i] /\ t[i + 1] = s[i + 1] /\ t[i + 2] = s[i + 2]
      BY <1>9, <3>1
    <3>3. QED BY <1>5, <3>1, <3>2 DEF Zigzag
  <2>4. QED BY <2>2, <2>3
<1>15. n + 1 >= 2 /\ m + 1 < Len(r) => Zig(v[t[(n + 1) - 1]], v[t[n + 1]], v[r[(m + 1) + 1]])
  <2> SUFFICES ASSUME n + 1 >= 2, m + 1 < Len(r)
               PROVE  Zig(v[t[n]], v[r[m + 1]], v[r[m + 2]])
    BY <1>2, <1>8, <1>9, <1>12
  <2>1. m \in 1..(Len(r) - 2) /\ n \in 1..n
    BY <1>2
  <2>2. Zig(v[r[m]], v[r[m + 1]], v[r[m + 2]])
    BY <1>5, <2>1 DEF Zigzag
  <2>3. t[n] = r[m]
    BY <1>2, <1>4, <1>9, <2>1
  <2>4. QED BY <2>2, <2>3
<1>16. CountedWay(c) + Way(v, t, n + 1) = Way(v, r, m + 1)
  <2>1. CASE m = 0
    <3>1. n + 1 = 1 /\ m + 1 = 1
      BY <1>2, <2>1
    <3>2. CountedWay(c) = 0
      <4>1. c = <<>> /\ Len(<<>>) = 0
        BY <2>1 DEF Counts
      <4>2. QED BY <4>1, SumToNone DEF CountedWay
    <3>3. Way(v, t, n + 1) = 0 /\ Way(v, r, m + 1) = 0
      BY <3>1, WayOfOne
    <3>4. QED BY <3>2, <3>3
  <2>2. CASE m # 0
    <3>1. n \in Nat \ {0} /\ m \in Nat \ {0} /\ n \in 1..n
      BY <1>2, <1>4, <2>2
    <3>2. CountedWay(c) + Way(v, s, n) = Way(v, r, m) /\ s[n] = r[m] /\ c \in Seq(CountedCycles)
      BY <3>1 DEF Counts
    <3>3. Way(v, t, n) = Way(v, s, n)
      BY <1>2, <1>9, <3>1, SameWay
    <3>4. Way(v, t, n + 1) = Way(v, t, n) + Distance(v[t[n]], v[t[n + 1]])
      BY <1>13, <3>1, WayGoesOn
    <3>5. HasPositions(v, r, m + 1)
      BY <1>2, <1>12 DEF HasPositions
    <3>6. Way(v, r, m + 1) = Way(v, r, m) + Distance(v[r[m]], v[r[m + 1]])
      BY <3>1, <3>5, WayGoesOn
    <3>7. t[n] = r[m] /\ t[n + 1] = r[m + 1]
      BY <1>8, <1>9, <3>1, <3>2
    <3>8. Way(v, s, n) \in Int
      BY <1>2, <3>1, WayType
    <3>9. CountedWay(c) \in Int
      BY <3>2, CountedType
    <3>10. Distance(v[r[m]], v[r[m + 1]]) \in Int
      <4>1. v[r[m]] \in Int /\ v[r[m + 1]] \in Int
        BY <1>2, <1>12, <3>1, <3>5 DEF HasPositions
      <4>2. Distance(v[r[m]], v[r[m + 1]]) \in Nat
        BY <4>1, DistanceType
      <4>3. QED BY <4>2
    <3>11. PICK e : e = Distance(v[r[m]], v[r[m + 1]])
      OBVIOUS
    <3>12. QED BY <3>2, <3>3, <3>4, <3>6, <3>7, <3>8, <3>9, <3>10, <3>11
  <2>3. QED BY <2>1, <2>2
<1>17. Falling(v, t, n)
  <2> SUFFICES ASSUME NEW i \in 1..(n - 2)
               PROVE  RangeAt(v, t, i) > RangeAt(v, t, i + 1)
    BY DEF Falling
  <2>1. i \in 1..n /\ i + 1 \in 1..n /\ i + 2 \in 1..n /\ (i + 1) + 1 = i + 2
    BY <1>2
  <2>2. RangeAt(v, t, i) = RangeAt(v, s, i) /\ RangeAt(v, t, i + 1) = RangeAt(v, s, i + 1)
    BY <1>9, <2>1 DEF RangeAt
  <2>3. CASE i = n - 2
    <3>1. n >= 3 /\ n - 1 = i + 1
      BY <1>2, <2>3
    <3>2. ~(RangeAt(v, s, i + 1) >= RangeAt(v, s, i))
      BY <1>3, <2>3, <3>1 DEF Enough
    <3>3. v[s[i]] \in Int /\ v[s[i + 1]] \in Int /\ v[s[(i + 1) + 1]] \in Int
      BY <1>2, <2>1 DEF HasPositions
    <3>4. RangeAt(v, s, i) \in Nat
      BY <3>3, DistanceType DEF RangeAt
    <3>5. RangeAt(v, s, i + 1) \in Nat
      BY <3>3, DistanceType DEF RangeAt
    <3>6. QED BY <2>2, <3>2, <3>4, <3>5
  <2>4. CASE i # n - 2
    <3>1. i \in 1..((n - 1) - 2)
      BY <1>2, <2>4
    <3>2. Falling(v, s, n - 1)
      BY DEF Counts
    <3>3. QED BY <2>2, <3>1, <3>2 DEF Falling
  <2>5. QED BY <2>3, <2>4
<1>18. ASSUME NEW lo \in Int, NEW hi \in Int, AllWithin(v, t, lo, hi), AllWithin(v, w, lo, hi)
       PROVE  FirstWithin(v, N, lo, hi)
  <2>1. AllWithin(v, s, lo, hi)
    <3>1. \A i \in 1..n : i \in 1..Len(t)
      BY <1>2, <1>9
    <3>2. QED BY <1>3, <1>9, <1>18, <3>1 DEF AllWithin
  <2>2. AllWithin(v, u, lo, hi)
    <3> SUFFICES ASSUME NEW i \in 1..Len(u) PROVE Between(v[u[i]], lo, hi)
      BY DEF AllWithin
    <3>1. CASE i = 1
      <4>1. n + 1 \in 1..Len(t)
        BY <1>2, <1>9
      <4>2. u[i] = t[n + 1]
        BY <1>8, <1>9, <3>1
      <4>3. QED BY <1>18, <4>1, <4>2 DEF AllWithin
    <3>2. CASE i # 1
      <4>1. i - 1 \in 1..Len(w) /\ (i - 1) + 1 = i
        BY <1>2, <1>3, <1>6, <3>2
      <4>2. u[i] = w[i - 1]
        BY <1>6, <4>1
      <4>3. QED BY <1>18, <4>1, <4>2 DEF AllWithin
    <3>3. QED BY <3>1, <3>2
  <2>3. QED BY <1>1, <2>1, <2>2 DEF Counts
<1>19. Counts(v, r, t, w, c, n + 1, m + 1)
  <2>1. c \in Seq(CountedCycles) /\ n + 1 \in Nat
    BY <1>2 DEF Counts
  <2>2. t \in Seq(1..Len(v)) /\ w \in Seq(1..Len(v))
    BY <1>1, <1>6, <1>9
  <2>3. QED BY <1>1, <1>9, <1>10, <1>11, <1>12, <1>14, <1>15, <1>16, <1>17, <1>18, <2>1, <2>2 DEF Counts
<1>20. QED BY <1>1, <1>19

LEMMA CycleType ==
  ASSUME NEW v \in Seq(Int), NEW i \in 1..Len(v), NEW j \in 1..Len(v), NEW h \in {1, 2}
  PROVE  /\ Cycle(v, i, j, h) \in CountedCycles
         /\ Cycle(v, i, j, h).halves = h /\ Cycle(v, i, j, h).depth = Distance(v[i], v[j])
<1>1. Len(v) \in Nat
  BY LenProperties
<1>2. v[i] \in Int /\ v[j] \in Int
  BY ElementOfSeq
<1>3. Distance(v[i], v[j]) \in Nat
  BY <1>2, DistanceType
<1>4. i \in Nat /\ j \in Nat
  BY <1>1
<1>5. QED BY <1>3, <1>4 DEF Cycle, CountedCycles

\* the first range is covered: it is a half cycle
LEMMA TakeHalf ==
  ASSUME NEW v \in Seq(Int), NEW r, NEW s, NEW u, NEW c, NEW m,
         Reversed(v, r), Counts(v, r, s, u, c, 3, m), Enough(v, s)
  PROVE  Counts(v, r, <<s[2], s[3]>>, u, Append(c, Cycle(v, s[1], s[2], 1)), 2, m)
<1>1. PICK N, t, d : N = Len(v) /\ t = <<s[2], s[3]>> /\ d = Cycle(v, s[1], s[2], 1)
  OBVIOUS
<1>2. N \in Nat /\ Len(r) \in Nat /\ m \in Nat /\ m <= Len(r) /\ 3 <= m /\ HasPositions(v, s, 3)
  BY <1>1, ReadType
<1>3. s \in Seq(1..N) /\ Len(s) = 3 /\ c \in Seq(CountedCycles)
  BY <1>1 DEF Counts
<1>4. PICK x, y, z : x = v[s[1]] /\ y = v[s[2]] /\ z = v[s[3]]
  OBVIOUS
<1>5. s[1] \in 1..N /\ s[2] \in 1..N /\ s[3] \in 1..N
  <2>1. 1 \in 1..Len(s) /\ 2 \in 1..Len(s) /\ 3 \in 1..Len(s)
    BY <1>3
  <2>2. QED BY <1>3, <2>1, ElementOfSeq
<1>6. x \in Int /\ y \in Int /\ z \in Int
  <2>1. 1 \in 1..3 /\ 2 \in 1..3 /\ 3 \in 1..3
    OBVIOUS
  <2>2. QED BY <1>2, <1>4, <2>1 DEF HasPositions
<1>7. t \in Seq(1..N) /\ Len(t) = 2 /\ t[1] = s[2] /\ t[2] = s[3]
  BY <1>1, <1>5
<1>8. Zig(x, y, z)
  <2>1. Zigzag(v, s) /\ 1 \in 1..(Len(s) - 2)
    BY <1>3 DEF Counts
  <2>2. QED BY <1>4, <2>1 DEF Zigzag
<1>9. Distance(y, z) >= Distance(x, y)
  <2>1. RangeAt(v, s, 3 - 1) >= RangeAt(v, s, 3 - 2)
    BY <1>3 DEF Enough
  <2>2. 3 - 1 = 2 /\ 3 - 2 = 1 /\ 2 + 1 = 3 /\ 1 + 1 = 2
    OBVIOUS
  <2>3. QED BY <1>4, <2>1, <2>2 DEF RangeAt
<1>10. (y >= x /\ x >= z) \/ (y <= x /\ x <= z)
  BY <1>6, <1>8, <1>9, ZigCovered
<1>11. d \in CountedCycles /\ d.halves = 1 /\ d.depth = Distance(x, y)
  <2>1. 1 \in {1, 2}
    OBVIOUS
  <2>2. QED BY <1>1, <1>4, <1>5, <2>1, CycleType
<1>12. Append(c, d) \in Seq(CountedCycles) /\ CountedWay(Append(c, d)) = CountedWay(c) + d.halves * d.depth
  BY <1>3, <1>11, CountedStep
<1>13. Distance(x, y) \in Int
  <2>1. Distance(x, y) \in Nat
    BY <1>6, DistanceType
  <2>2. QED BY <2>1
<1>14. Distance(y, z) \in Int
  <2>1. Distance(y, z) \in Nat
    BY <1>6, DistanceType
  <2>2. QED BY <2>1
<1>15. Way(v, s, 3) = Distance(x, y) + Distance(y, z)
  <2>1. HasPositions(v, s, 1 + 1) /\ HasPositions(v, s, 2 + 1)
    BY <1>2 DEF HasPositions
  <2>2. Way(v, s, 1 + 1) = Way(v, s, 1) + Distance(v[s[1]], v[s[1 + 1]])
    BY <2>1, WayGoesOn
  <2>3. Way(v, s, 2 + 1) = Way(v, s, 2) + Distance(v[s[2]], v[s[2 + 1]])
    BY <2>1, WayGoesOn
  <2>4. Way(v, s, 1) = 0
    BY WayOfOne
  <2>5. 1 + 1 = 2 /\ 2 + 1 = 3
    OBVIOUS
  <2>6. Way(v, s, 2) = 0 + Distance(x, y) /\ Way(v, s, 3) = Way(v, s, 2) + Distance(y, z)
    BY <1>4, <2>2, <2>3, <2>4, <2>5
  <2>7. QED BY <1>13, <1>14, <2>6
<1>16. Way(v, t, 2) = Distance(y, z)
  <2>1. HasPositions(v, t, 1 + 1)
    <3>1. \A i \in 1..(1 + 1) : i = 1 \/ i = 2
      OBVIOUS
    <3>2. QED BY <1>4, <1>6, <1>7, <3>1 DEF HasPositions
  <2>2. Way(v, t, 1 + 1) = Way(v, t, 1) + Distance(v[t[1]], v[t[1 + 1]])
    BY <2>1, WayGoesOn
  <2>3. Way(v, t, 1) = 0 /\ 1 + 1 = 2
    BY WayOfOne
  <2>4. Way(v, t, 2) = 0 + Distance(y, z)
    BY <1>4, <1>7, <2>2, <2>3
  <2>5. QED BY <1>14, <2>4
<1>17. CountedWay(Append(c, d)) + Way(v, t, 2) = Way(v, r, m)
  <2>1. CountedWay(c) + Way(v, s, 3) = Way(v, r, m)
    BY <1>2 DEF Counts
  <2>2. CountedWay(c) \in Int
    BY <1>3, CountedType
  <2>3. CountedWay(Append(c, d)) = CountedWay(c) + Distance(x, y)
    BY <1>11, <1>12, <1>13
  <2>4. QED BY <1>13, <1>14, <1>15, <1>16, <2>1, <2>2, <2>3
<1>18. Zigzag(v, t) /\ Falling(v, t, 2 - 1)
  BY <1>7 DEF Zigzag, Falling
<1>19. m >= 1 /\ m # 0 /\ 2 <= m /\ m \in 0..Len(r)
  BY <1>2
<1>20. t[2] = r[m] /\ (m < Len(r) => Zig(v[t[2 - 1]], v[t[2]], v[r[m + 1]]))
  <2>1. s[3] = r[m] /\ (m < Len(r) => Zig(v[s[3 - 1]], v[s[3]], v[r[m + 1]]))
    BY <1>19 DEF Counts
  <2>2. 3 - 1 = 2 /\ 2 - 1 = 1
    OBVIOUS
  <2>3. QED BY <1>7, <2>1, <2>2
<1>21. ASSUME NEW lo \in Int, NEW hi \in Int, AllWithin(v, t, lo, hi), AllWithin(v, u, lo, hi)
       PROVE  FirstWithin(v, N, lo, hi)
  <2>1. Between(y, lo, hi) /\ Between(z, lo, hi)
    <3>1. 1 \in 1..Len(t) /\ 2 \in 1..Len(t)
      BY <1>7
    <3>2. QED BY <1>4, <1>7, <1>21, <3>1 DEF AllWithin
  <2>2. Between(x, lo, hi)
    BY <1>6, <1>10, <2>1 DEF Between
  <2>3. AllWithin(v, s, lo, hi)
    <3>1. \A i \in 1..Len(s) : i = 1 \/ i = 2 \/ i = 3
      BY <1>3
    <3>2. QED BY <1>4, <2>1, <2>2, <3>1 DEF AllWithin
  <2>4. QED BY <1>1, <1>21, <2>3 DEF Counts
<1>22. Counts(v, r, t, u, Append(c, d), 2, m)
  <2>1. u \in Seq(1..Len(v)) /\ Len(u) = Len(r) - m /\ \A i \in 1..Len(u) : u[i] = r[m + i]
    BY DEF Counts
  <2>2. 2 \in Nat /\ 2 >= 1 /\ 2 >= 2
    OBVIOUS
  <2>3. QED BY <1>1, <1>7, <1>12, <1>17, <1>18, <1>19, <1>20, <1>21, <2>1, <2>2 DEF Counts
<1>23. QED BY <1>1, <1>22

\* a range in the middle is covered: it is a full cycle
LEMMA TakeFull ==
  ASSUME NEW v \in Seq(Int), NEW r, NEW s, NEW u, NEW c, NEW n, NEW m,
         Reversed(v, r), Counts(v, r, s, u, c, n, m), Enough(v, s), n > 3
  PROVE  Counts(v, r, Append(SubSeq(s, 1, n - 3), s[n]), u, Append(c, Cycle(v, s[n - 2], s[n - 1], 2)), n - 2, m)
<1>1. PICK N, q, t, d : N = Len(v) /\ q = SubSeq(s, 1, n - 3) /\ t = Append(q, s[n]) /\ d = Cycle(v, s[n - 2], s[n - 1], 2)
  OBVIOUS
<1>2. /\ N \in Nat /\ Len(r) \in Nat /\ n \in Nat /\ m \in Nat /\ m <= Len(r) /\ n <= m
      /\ HasPositions(v, s, n)
  BY <1>1, ReadType
<1>3. s \in Seq(1..N) /\ Len(s) = n /\ c \in Seq(CountedCycles)
  BY <1>1 DEF Counts
<1>4. PICK k \in Nat \ {0} : k = n - 3
  BY <1>2
<1>5. n = k + 3 /\ n - 1 = k + 2 /\ n - 2 = k + 1 /\ n - 3 = k
      /\ k \in 1..n /\ k + 1 \in 1..n /\ k + 2 \in 1..n /\ k + 3 \in 1..n
  BY <1>2, <1>4
<1>6. PICK a, b, e, f : a = v[s[k]] /\ b = v[s[k + 1]] /\ e = v[s[k + 2]] /\ f = v[s[k + 3]]
  OBVIOUS
<1>7. a \in Int /\ b \in Int /\ e \in Int /\ f \in Int
  BY <1>2, <1>5, <1>6 DEF HasPositions
<1>8. s[k] \in 1..N /\ s[k + 1] \in 1..N /\ s[k + 2] \in 1..N /\ s[k + 3] \in 1..N /\ \A i \in 1..k : s[i] \in 1..N
  <2>1. \A i \in 1..Len(s) : s[i] \in 1..N
    BY <1>3, ElementOfSeq
  <2>2. \A i \in 1..k : i \in 1..n
    BY <1>4, <1>5
  <2>3. QED BY <1>3, <1>5, <2>1, <2>2
<1>9. q \in Seq(1..N) /\ Len(q) = k /\ \A i \in 1..k : q[i] = s[i]
  <2>1. 1 \in Int /\ k \in Int /\ q = SubSeq(s, 1, k)
    BY <1>1, <1>5
  <2>2. /\ SubSeq(s, 1, k) \in Seq(1..N)
        /\ Len(SubSeq(s, 1, k)) = IF 1 <= k THEN k - 1 + 1 ELSE 0
        /\ \A i \in 1..(k - 1 + 1) : SubSeq(s, 1, k)[i] = s[1 + i - 1]
    BY <1>8, <2>1, SubSeqProperties
  <2>3. 1 <= k /\ k - 1 + 1 = k /\ \A i \in 1..k : 1 + i - 1 = i
    OBVIOUS
  <2>4. QED BY <2>1, <2>2, <2>3
<1>10. t \in Seq(1..N) /\ Len(t) = k + 1 /\ t[k + 1] = s[k + 3] /\ \A i \in 1..k : t[i] = s[i]
  <2>1. s[n] \in 1..N
    BY <1>5, <1>8
  <2>2. QED BY <1>1, <1>5, <1>9, <2>1, AppendProperties
<1>11. Zigzag(v, s) /\ Falling(v, s, n - 1)
  BY DEF Counts
<1>12. Zig(a, b, e) /\ Zig(b, e, f)
  <2>1. k \in 1..(Len(s) - 2) /\ k + 1 \in 1..(Len(s) - 2) /\ (k + 1) + 1 = k + 2 /\ (k + 1) + 2 = k + 3
    BY <1>3, <1>4, <1>5
  <2>2. QED BY <1>6, <1>11, <2>1 DEF Zigzag
<1>13. Distance(e, f) >= Distance(b, e)
  <2>1. RangeAt(v, s, n - 1) >= RangeAt(v, s, n - 2)
    BY <1>3 DEF Enough
  <2>2. (k + 1) + 1 = k + 2 /\ (k + 2) + 1 = k + 3
    BY <1>4
  <2>3. QED BY <1>5, <1>6, <2>1, <2>2 DEF RangeAt
<1>14. Distance(a, b) > Distance(b, e)
  <2>1. k \in 1..((n - 1) - 2) /\ (k + 1) + 1 = k + 2
    BY <1>4, <1>5
  <2>2. RangeAt(v, s, k) > RangeAt(v, s, k + 1)
    BY <1>11, <2>1 DEF Falling
  <2>3. QED BY <1>6, <2>1, <2>2 DEF RangeAt
<1>15. /\ (a < e /\ e < b /\ b <= f) \/ (a > e /\ e > b /\ b >= f)
       /\ Distance(a, b) + Distance(b, e) + Distance(e, f) = Distance(a, f) + 2 * Distance(b, e)
  BY <1>7, <1>12, <1>13, <1>14, ZigFold
<1>16. d \in CountedCycles /\ d.halves = 2 /\ d.depth = Distance(b, e)
  <2>1. 2 \in {1, 2} /\ s[k + 1] \in 1..Len(v) /\ s[k + 2] \in 1..Len(v)
    BY <1>1, <1>8
  <2>2. d = Cycle(v, s[k + 1], s[k + 2], 2)
    BY <1>1, <1>5
  <2>3. /\ Cycle(v, s[k + 1], s[k + 2], 2) \in CountedCycles
        /\ Cycle(v, s[k + 1], s[k + 2], 2).halves = 2
        /\ Cycle(v, s[k + 1], s[k + 2], 2).depth = Distance(v[s[k + 1]], v[s[k + 2]])
    BY <2>1, CycleType
  <2>4. QED BY <1>6, <2>2, <2>3
<1>17. Append(c, d) \in Seq(CountedCycles) /\ CountedWay(Append(c, d)) = CountedWay(c) + d.halves * d.depth
  BY <1>3, <1>16, CountedStep
<1>18. HasPositions(v, t, k + 1) /\ HasPositions(v, s, k)
  <2>1. \A i \in 1..(k + 1) : i \in 1..k \/ i = k + 1
    BY <1>4
  <2>2. \A i \in 1..k : i \in 1..n
    BY <1>4, <1>5
  <2>3. HasPositions(v, s, k)
    BY <1>2, <2>2 DEF HasPositions
  <2>4. v[t[k + 1]] \in Int
    BY <1>6, <1>7, <1>10
  <2>5. \A i \in 1..k : v[t[i]] \in Int
    BY <1>10, <2>3 DEF HasPositions
  <2>6. QED BY <2>1, <2>3, <2>4, <2>5 DEF HasPositions
<1>19. Way(v, t, k + 1) = Way(v, s, k) + Distance(a, f)
  <2>1. Way(v, t, k + 1) = Way(v, t, k) + Distance(v[t[k]], v[t[k + 1]])
    BY <1>4, <1>18, WayGoesOn
  <2>2. Way(v, t, k) = Way(v, s, k)
    BY <1>4, <1>10, <1>18, SameWay
  <2>3. t[k] = s[k]
    <3>1. k \in 1..k
      OBVIOUS
    <3>2. QED BY <1>10, <3>1
  <2>4. QED BY <1>6, <1>10, <2>1, <2>2, <2>3
<1>20. Way(v, s, n) = Way(v, s, k) + Distance(a, b) + Distance(b, e) + Distance(e, f)
  <2>1. HasPositions(v, s, k + 1) /\ HasPositions(v, s, (k + 1) + 1) /\ HasPositions(v, s, (k + 2) + 1)
    <3>1. \A i \in 1..(k + 1) : i \in 1..n
      BY <1>4, <1>5
    <3>2. \A i \in 1..((k + 1) + 1) : i \in 1..n
      BY <1>4, <1>5
    <3>3. \A i \in 1..((k + 2) + 1) : i \in 1..n
      BY <1>4, <1>5
    <3>4. QED BY <1>2, <3>1, <3>2, <3>3 DEF HasPositions
  <2>2. Way(v, s, k + 1) = Way(v, s, k) + Distance(v[s[k]], v[s[k + 1]])
    BY <1>4, <2>1, WayGoesOn
  <2>3. Way(v, s, (k + 1) + 1) = Way(v, s, k + 1) + Distance(v[s[k + 1]], v[s[(k + 1) + 1]])
    <3>1. k + 1 \in Nat \ {0}
      BY <1>4
    <3>2. QED BY <2>1, <3>1, WayGoesOn
  <2>4. Way(v, s, (k + 2) + 1) = Way(v, s, k + 2) + Distance(v[s[k + 2]], v[s[(k + 2) + 1]])
    <3>1. k + 2 \in Nat \ {0}
      BY <1>4
    <3>2. QED BY <2>1, <3>1, WayGoesOn
  <2>5. (k + 1) + 1 = k + 2 /\ (k + 2) + 1 = k + 3 /\ k + 3 = n
    BY <1>4, <1>5
  <2>6. Way(v, s, k + 1) = Way(v, s, k) + Distance(a, b)
    BY <1>6, <2>2
  <2>7. Way(v, s, k + 2) = Way(v, s, k + 1) + Distance(b, e)
    BY <1>6, <2>3, <2>5
  <2>8. Way(v, s, n) = Way(v, s, k + 2) + Distance(e, f)
    BY <1>6, <2>4, <2>5
  <2>9. QED BY <2>6, <2>7, <2>8
<1>21. Distance(a, b) \in Int /\ Distance(b, e) \in Int /\ Distance(e, f) \in Int /\ Distance(a, f) \in Int
  <2>1. Distance(a, b) \in Nat
    BY <1>7, DistanceType
  <2>2. Distance(b, e) \in Nat
    BY <1>7, DistanceType
  <2>3. Distance(e, f) \in Nat
    BY <1>7, DistanceType
  <2>4. Distance(a, f) \in Nat
    BY <1>7, DistanceType
  <2>5. QED BY <2>1, <2>2, <2>3, <2>4
<1>22. m >= 1 /\ m # 0 /\ n - 2 <= m /\ m \in 0..Len(r) /\ n - 2 >= 1 /\ n - 2 >= 2 /\ n - 2 \in Nat /\ n >= 2
  BY <1>2
<1>23. CountedWay(Append(c, d)) + Way(v, t, n - 2) = Way(v, r, m)
  <2>1. CountedWay(c) + Way(v, s, n) = Way(v, r, m)
    BY <1>22 DEF Counts
  <2>2. CountedWay(c) \in Int
    BY <1>3, CountedType
  <2>3. Way(v, s, k) \in Int
    BY <1>4, <1>18, WayType
  <2>4. CountedWay(Append(c, d)) = CountedWay(c) + 2 * Distance(b, e)
    BY <1>16, <1>17
  <2>5. Way(v, t, n - 2) = Way(v, s, k) + Distance(a, f)
    BY <1>5, <1>19
  <2>6. PICK ab, be, ef, af, w, g \in Int :
          /\ ab = Distance(a, b) /\ be = Distance(b, e) /\ ef = Distance(e, f) /\ af = Distance(a, f)
          /\ w = Way(v, s, k) /\ g = CountedWay(c)
    BY <1>21, <2>2, <2>3
  <2>7. ab + be + ef = af + 2 * be
    BY <1>15, <2>6
  <2>8. Way(v, s, n) = w + ab + be + ef
    BY <1>20, <2>6
  <2>9. CountedWay(Append(c, d)) + Way(v, t, n - 2) = (g + 2 * be) + (w + af)
    BY <2>4, <2>5, <2>6
  <2>10. g + (w + ab + be + ef) = Way(v, r, m)
    BY <2>1, <2>6, <2>8
  <2>11. (g + 2 * be) + (w + af) = g + (w + ab + be + ef)
    BY <2>7
  <2>12. QED BY <2>9, <2>10, <2>11
<1>24. Zigzag(v, t)
  <2> SUFFICES ASSUME NEW i \in 1..(Len(t) - 2)
               PROVE  Zig(v[t[i]], v[t[i + 1]], v[t[i + 2]])
    BY DEF Zigzag
  <2>1. i \in 1..(k - 1) /\ i \in 1..(Len(s) - 2) /\ i \in 1..k /\ i + 1 \in 1..k
    BY <1>3, <1>4, <1>5, <1>10
  <2>2. Zig(v[s[i]], v[s[i + 1]], v[s[i + 2]]) /\ t[i] = s[i] /\ t[i + 1] = s[i + 1]
    BY <1>10, <1>11, <2>1 DEF Zigzag
  <2>3. CASE i = k - 1
    <3>1. i + 1 = k /\ i + 2 = k + 1
      BY <1>4, <2>3
    <3>2. Zig(v[s[i]], a, b) /\ v[t[i + 1]] = a /\ v[t[i + 2]] = f
      BY <1>6, <1>10, <2>2, <3>1
    <3>3. v[s[i]] \in Int
      BY <1>18, <2>1 DEF HasPositions
    <3>4. PICK z \in Int : z = v[s[i]]
      BY <3>3
    <3>5. Zig(z, a, f)
      <4>1. (a < e /\ e < b /\ b <= f) \/ (a > e /\ e > b /\ b >= f)
        BY <1>15
      <4>2. Zig(z, a, b)
        BY <3>2, <3>4
      <4>3. QED BY <1>7, <4>1, <4>2 DEF Zig
    <3>6. Zig(v[t[i]], v[t[i + 1]], v[t[i + 2]])
      <4>1. v[t[i]] = z
        BY <2>2, <3>4
      <4>2. QED BY <3>2, <3>5, <4>1
    <3>7. QED BY <3>6
  <2>4. CASE i # k - 1
    <3>1. i + 2 \in 1..k
      BY <1>4, <2>1, <2>4
    <3>2. t[i + 2] = s[i + 2]
      BY <1>10, <3>1
    <3>3. QED BY <2>2, <3>2
  <2>5. QED BY <2>3, <2>4
<1>25. Falling(v, t, (n - 2) - 1)
  <2> SUFFICES ASSUME NEW i \in 1..(((n - 2) - 1) - 2)
               PROVE  RangeAt(v, t, i) > RangeAt(v, t, i + 1)
    BY DEF Falling
  <2>1. i \in 1..((n - 1) - 2) /\ i \in 1..k /\ i + 1 \in 1..k /\ (i + 1) + 1 \in 1..k
    BY <1>4, <1>5
  <2>2. RangeAt(v, s, i) > RangeAt(v, s, i + 1)
    BY <1>11, <2>1 DEF Falling
  <2>3. RangeAt(v, t, i) = RangeAt(v, s, i) /\ RangeAt(v, t, i + 1) = RangeAt(v, s, i + 1)
    BY <1>10, <2>1 DEF RangeAt
  <2>4. QED BY <2>2, <2>3
<1>26. t[n - 2] = r[m] /\ (m < Len(r) => Zig(v[t[(n - 2) - 1]], v[t[n - 2]], v[r[m + 1]]))
  <2>1. s[n] = r[m] /\ (m < Len(r) => Zig(v[s[n - 1]], v[s[n]], v[r[m + 1]]))
    BY <1>22 DEF Counts
  <2>2. (n - 2) - 1 = k /\ n - 2 = k + 1 /\ n - 1 = k + 2 /\ n = k + 3 /\ k \in 1..k
    BY <1>4, <1>5
  <2>3. t[n - 2] = r[m] /\ v[t[(n - 2) - 1]] = a /\ v[t[n - 2]] = f
    BY <1>6, <1>10, <2>1, <2>2
  <2>4. ASSUME m < Len(r) PROVE Zig(a, f, v[r[m + 1]])
    <3>1. Zig(e, f, v[r[m + 1]])
      BY <1>6, <2>1, <2>2, <2>4
    <3>2. v[r[m + 1]] \in Int
      <4>1. m + 1 \in 1..Len(r) /\ HasPositions(v, r, Len(r))
        BY <1>2, <2>4, ReadType
      <4>2. QED BY <4>1 DEF HasPositions
    <3>3. PICK z \in Int : z = v[r[m + 1]]
      BY <3>2
    <3>4. Zig(a, f, z)
      <4>1. (a < e /\ e < b /\ b <= f) \/ (a > e /\ e > b /\ b >= f)
        BY <1>15
      <4>2. Zig(e, f, z)
        BY <3>1, <3>3
      <4>3. QED BY <1>7, <4>1, <4>2 DEF Zig
    <3>5. QED BY <3>3, <3>4
  <2>5. QED BY <2>3, <2>4
<1>27. ASSUME NEW lo \in Int, NEW hi \in Int, AllWithin(v, t, lo, hi), AllWithin(v, u, lo, hi)
       PROVE  FirstWithin(v, N, lo, hi)
  <2>1. \A i \in 1..k : Between(v[s[i]], lo, hi)
    <3>1. \A i \in 1..k : i \in 1..Len(t)
      BY <1>4, <1>10
    <3>2. QED BY <1>10, <1>27, <3>1 DEF AllWithin
  <2>2. Between(a, lo, hi)
    <3>1. k \in 1..k
      OBVIOUS
    <3>2. QED BY <1>6, <2>1, <3>1
  <2>3. Between(f, lo, hi)
    <3>1. k + 1 \in 1..Len(t)
      BY <1>4, <1>10
    <3>2. QED BY <1>6, <1>10, <1>27, <3>1 DEF AllWithin
  <2>4. Between(b, lo, hi) /\ Between(e, lo, hi)
    <3>1. (a < e /\ e < b /\ b <= f) \/ (a > e /\ e > b /\ b >= f)
      BY <1>15
    <3>2. QED BY <1>7, <2>2, <2>3, <3>1 DEF Between
  <2>5. AllWithin(v, s, lo, hi)
    <3>1. \A i \in 1..Len(s) : i \in 1..k \/ i = k + 1 \/ i = k + 2 \/ i = k + 3
      BY <1>3, <1>4, <1>5
    <3>2. QED BY <1>6, <2>1, <2>3, <2>4, <3>1 DEF AllWithin
  <2>6. QED BY <1>1, <1>27, <2>5 DEF Counts
<1>28. Counts(v, r, t, u, Append(c, d), n - 2, m)
  <2>1. u \in Seq(1..Len(v)) /\ Len(u) = Len(r) - m /\ \A i \in 1..Len(u) : u[i] = r[m + i]
    BY DEF Counts
  <2>2. t \in Seq(1..Len(v)) /\ Len(t) = n - 2
    BY <1>1, <1>5, <1>10
  <2>3. QED BY <1>1, <1>17, <1>22, <1>23, <1>24, <1>25, <1>26, <1>27, <2>1, <2>2 DEF Counts
<1>29. QED BY <1>1, <1>28

TurnStates(v) == [read : Seq(1..Len(v)), unread : Seq(1..Len(v)), cycles : Seq(CountedCycles)]

LEMMA MakeState ==
  ASSUME NEW v, NEW s \in Seq(1..Len(v)), NEW u \in Seq(1..Len(v)), NEW c \in Seq(CountedCycles)
  PROVE  [read |-> s, unread |-> u, cycles |-> c] \in TurnStates(v)
BY DEF TurnStates

\* what a turn makes of the reversals s that are read, those still unread and the cycles
Turned(v, s, u, c, n, t) ==
  \/ ~Enough(v, s) /\ u = <<>> /\ t = [read |-> s, unread |-> u, cycles |-> c]
  \/ ~Enough(v, s) /\ u # <<>> /\ t = [read |-> Append(s, Head(u)), unread |-> Tail(u), cycles |-> c]
  \/ Enough(v, s) /\ n = 3
     /\ t = [read |-> <<s[2], s[3]>>, unread |-> u, cycles |-> Append(c, Cycle(v, s[1], s[2], 1))]
  \/ Enough(v, s) /\ n > 3
     /\ t = [read |-> Append(SubSeq(s, 1, n - 3), s[n]), unread |-> u,
             cycles |-> Append(c, Cycle(v, s[n - 2], s[n - 1], 2))]

LEMMA FromThree == \A n \in Nat : (n >= 3 => n = 3 \/ n > 3) /\ (n > 3 => n # 3)
  OBVIOUS

LEMMA TurnCases ==
  ASSUME NEW v \in Seq(Int), NEW s \in Seq(1..Len(v)), NEW u \in Seq(1..Len(v)), NEW c \in Seq(CountedCycles),
         NEW n \in Nat, n = Len(s), NEW st, st = [read |-> s, unread |-> u, cycles |-> c]
  PROVE  Turned(v, s, u, c, n, CountingTurn(v, st))
<1>1. st.read = s /\ st.unread = u /\ st.cycles = c
  OBVIOUS
<1>2. Enough(v, s) <=> n >= 3 /\ Distance(v[s[n - 1]], v[s[n]]) >= Distance(v[s[n - 2]], v[s[n - 1]])
  <2>1. (n - 1) + 1 = n /\ (n - 2) + 1 = n - 1
    OBVIOUS
  <2>2. QED BY <2>1 DEF Enough, RangeAt
<1>3. CASE ~Enough(v, s) /\ u = <<>>
  <2>1. CountingTurn(v, st) = st
    BY <1>1, <1>2, <1>3 DEF CountingTurn
  <2>2. QED BY <1>3, <2>1 DEF Turned
<1>4. CASE ~Enough(v, s) /\ u # <<>>
  <2>1. CountingTurn(v, st) = [st EXCEPT !.read = Append(@, Head(st.unread)), !.unread = Tail(@)]
    BY <1>1, <1>2, <1>4 DEF CountingTurn
  <2>2. CountingTurn(v, st) = [read |-> Append(s, Head(u)), unread |-> Tail(u), cycles |-> c]
    BY <1>1, <2>1
  <2>3. QED BY <1>4, <2>2 DEF Turned
<1>5. CASE Enough(v, s) /\ n = 3
  <2>1. CountingTurn(v, st) = [st EXCEPT !.read = <<s[n - 1], s[n]>>, !.cycles = Append(@, Cycle(v, s[n - 2], s[n - 1], 1))]
    BY <1>1, <1>2, <1>5 DEF CountingTurn
  <2>2. n - 1 = 2 /\ n - 2 = 1 /\ n = 3
    BY <1>5
  <2>3. CountingTurn(v, st) = [st EXCEPT !.read = <<s[2], s[3]>>, !.cycles = Append(@, Cycle(v, s[1], s[2], 1))]
    BY <2>1, <2>2
  <2>4. CountingTurn(v, st) = [read |-> <<s[2], s[3]>>, unread |-> u, cycles |-> Append(c, Cycle(v, s[1], s[2], 1))]
    BY <1>1, <2>3
  <2>5. QED BY <1>5, <2>4 DEF Turned
<1>6. CASE Enough(v, s) /\ n > 3
  <2>1. n > 3 => n # 3
    BY FromThree
  <2>2. CountingTurn(v, st) = [st EXCEPT !.read = Append(SubSeq(@, 1, n - 3), s[n]),
                                 !.cycles = Append(@, Cycle(v, s[n - 2], s[n - 1], 2))]
    BY <1>1, <1>2, <1>6, <2>1 DEF CountingTurn
  <2>3. CountingTurn(v, st) = [read |-> Append(SubSeq(s, 1, n - 3), s[n]), unread |-> u,
                       cycles |-> Append(c, Cycle(v, s[n - 2], s[n - 1], 2))]
    BY <1>1, <2>2
  <2>4. QED BY <1>6, <2>3 DEF Turned
<1>7. QED
  <2>1. n >= 3 => n = 3 \/ n > 3
    BY FromThree
  <2>2. QED BY <1>2, <1>3, <1>4, <1>5, <1>6, <2>1

LEMMA TurnType ==
  ASSUME NEW v \in Seq(Int), NEW st \in TurnStates(v)
  PROVE  CountingTurn(v, st) \in TurnStates(v)
<1>1. PICK s, u, c, n, t : s = st.read /\ u = st.unread /\ c = st.cycles /\ n = Len(s) /\ t = CountingTurn(v, st)
  OBVIOUS
<1>2. /\ s \in Seq(1..Len(v)) /\ u \in Seq(1..Len(v)) /\ c \in Seq(CountedCycles)
      /\ st = [read |-> s, unread |-> u, cycles |-> c]
  BY <1>1 DEF TurnStates
<1>3. n \in Nat /\ \A i \in 1..n : s[i] \in 1..Len(v)
  BY <1>1, <1>2, LenProperties, ElementOfSeq
<1>4. Turned(v, s, u, c, n, t)
  BY <1>1, <1>2, <1>3, TurnCases
<1>5. CASE ~Enough(v, s) /\ u = <<>> /\ t = [read |-> s, unread |-> u, cycles |-> c]
  BY <1>1, <1>2, <1>5
<1>6. CASE ~Enough(v, s) /\ u # <<>> /\ t = [read |-> Append(s, Head(u)), unread |-> Tail(u), cycles |-> c]
  <2>1. Head(u) \in 1..Len(v) /\ Tail(u) \in Seq(1..Len(v))
    BY <1>2, <1>6, HeadTailProperties
  <2>2. Append(s, Head(u)) \in Seq(1..Len(v))
    BY <1>2, <2>1, AppendProperties
  <2>3. [read |-> Append(s, Head(u)), unread |-> Tail(u), cycles |-> c] \in TurnStates(v)
    BY <1>2, <2>1, <2>2, MakeState
  <2>4. QED BY <1>1, <1>6, <2>3
<1>7. CASE Enough(v, s) /\ n = 3
           /\ t = [read |-> <<s[2], s[3]>>, unread |-> u, cycles |-> Append(c, Cycle(v, s[1], s[2], 1))]
  <2>1. 1 \in 1..n /\ 2 \in 1..n /\ 3 \in 1..n /\ 1 \in {1, 2}
    BY <1>7
  <2>2. s[1] \in 1..Len(v) /\ s[2] \in 1..Len(v) /\ s[3] \in 1..Len(v)
    BY <1>3, <2>1
  <2>3. <<s[2], s[3]>> \in Seq(1..Len(v))
    BY <2>2
  <2>4. Cycle(v, s[1], s[2], 1) \in CountedCycles
    BY <2>1, <2>2, CycleType
  <2>5. Append(c, Cycle(v, s[1], s[2], 1)) \in Seq(CountedCycles)
    BY <1>2, <2>4, AppendProperties
  <2>6. [read |-> <<s[2], s[3]>>, unread |-> u, cycles |-> Append(c, Cycle(v, s[1], s[2], 1))] \in TurnStates(v)
    BY <1>2, <2>3, <2>5, MakeState
  <2>7. QED BY <1>1, <1>7, <2>6
<1>8. CASE Enough(v, s) /\ n > 3
           /\ t = [read |-> Append(SubSeq(s, 1, n - 3), s[n]), unread |-> u,
                   cycles |-> Append(c, Cycle(v, s[n - 2], s[n - 1], 2))]
  <2>1. n \in 1..n /\ n - 1 \in 1..n /\ n - 2 \in 1..n /\ 2 \in {1, 2} /\ 1 \in Int /\ n - 3 \in Int
        /\ \A i \in 1..(n - 3) : i \in 1..n
    BY <1>3, <1>8
  <2>2. s[n] \in 1..Len(v) /\ s[n - 1] \in 1..Len(v) /\ s[n - 2] \in 1..Len(v) /\ \A i \in 1..(n - 3) : s[i] \in 1..Len(v)
    BY <1>3, <2>1
  <2>3. SubSeq(s, 1, n - 3) \in Seq(1..Len(v))
    BY <2>1, <2>2, SubSeqProperties
  <2>4. Append(SubSeq(s, 1, n - 3), s[n]) \in Seq(1..Len(v))
    BY <2>2, <2>3, AppendProperties
  <2>5. Cycle(v, s[n - 2], s[n - 1], 2) \in CountedCycles
    BY <2>1, <2>2, CycleType
  <2>6. Append(c, Cycle(v, s[n - 2], s[n - 1], 2)) \in Seq(CountedCycles)
    BY <1>2, <2>5, AppendProperties
  <2>7. [read |-> Append(SubSeq(s, 1, n - 3), s[n]), unread |-> u,
         cycles |-> Append(c, Cycle(v, s[n - 2], s[n - 1], 2))] \in TurnStates(v)
    BY <1>2, <2>4, <2>6, MakeState
  <2>8. QED BY <1>1, <1>8, <2>7
<1>9. QED BY <1>4, <1>5, <1>6, <1>7, <1>8 DEF Turned

\* no turn changes anything any more
Done(v, s, u) == u = <<>> /\ ~Enough(v, s)

\* after k turns; each of them makes the measure smaller, or all is done
Progress(v, r, st, k) ==
  \E s, u, c, n, m :
    /\ st = [read |-> s, unread |-> u, cycles |-> c]
    /\ Counts(v, r, s, u, c, n, m)
    /\ Done(v, s, u) \/ 2 * (Len(r) - m) + n <= 2 * Len(r) - k

LEMMA TurnStep ==
  ASSUME NEW v \in Seq(Int), NEW r, Reversed(v, r), NEW st, NEW k \in Nat, Progress(v, r, st, k)
  PROVE  Progress(v, r, CountingTurn(v, st), k + 1)
<1>1. PICK s, u, c, n, m :
        /\ st = [read |-> s, unread |-> u, cycles |-> c]
        /\ Counts(v, r, s, u, c, n, m)
        /\ Done(v, s, u) \/ 2 * (Len(r) - m) + n <= 2 * Len(r) - k
  BY DEF Progress
<1>2. Len(r) \in Nat /\ n \in Nat /\ m \in Nat
  BY <1>1, ReadType
<1>3. s \in Seq(1..Len(v)) /\ Len(s) = n /\ u \in Seq(1..Len(v)) /\ c \in Seq(CountedCycles)
  BY <1>1 DEF Counts
<1>4. PICK t : t = CountingTurn(v, st)
  OBVIOUS
<1>5. Turned(v, s, u, c, n, t)
  BY <1>1, <1>2, <1>3, <1>4, TurnCases
<1>6. CASE Done(v, s, u)
  <2>1. t = st
    BY <1>1, <1>5, <1>6 DEF Turned, Done
  <2>2. QED BY <1>1, <1>4, <1>6, <2>1 DEF Progress
<1>7. CASE ~Enough(v, s) /\ u # <<>> /\ t = [read |-> Append(s, Head(u)), unread |-> Tail(u), cycles |-> c]
  <2>1. Counts(v, r, Append(s, Head(u)), Tail(u), c, n + 1, m + 1)
    BY <1>1, <1>7, ReadOne
  <2>2. 2 * (Len(r) - m) + n <= 2 * Len(r) - k
    BY <1>1, <1>7 DEF Done
  <2>3. 2 * (Len(r) - (m + 1)) + (n + 1) <= 2 * Len(r) - (k + 1)
    BY <1>2, <2>2
  <2>4. QED BY <1>4, <1>7, <2>1, <2>3 DEF Progress
<1>8. CASE Enough(v, s) /\ n = 3
           /\ t = [read |-> <<s[2], s[3]>>, unread |-> u, cycles |-> Append(c, Cycle(v, s[1], s[2], 1))]
  <2>1. Counts(v, r, <<s[2], s[3]>>, u, Append(c, Cycle(v, s[1], s[2], 1)), 2, m)
    BY <1>1, <1>8, TakeHalf
  <2>2. 2 * (Len(r) - m) + n <= 2 * Len(r) - k
    BY <1>1, <1>8 DEF Done
  <2>3. 2 * (Len(r) - m) + 2 <= 2 * Len(r) - (k + 1)
    BY <1>2, <1>8, <2>2
  <2>4. QED BY <1>4, <1>8, <2>1, <2>3 DEF Progress
<1>9. CASE Enough(v, s) /\ n > 3
           /\ t = [read |-> Append(SubSeq(s, 1, n - 3), s[n]), unread |-> u,
                   cycles |-> Append(c, Cycle(v, s[n - 2], s[n - 1], 2))]
  <2>1. Counts(v, r, Append(SubSeq(s, 1, n - 3), s[n]), u, Append(c, Cycle(v, s[n - 2], s[n - 1], 2)), n - 2, m)
    BY <1>1, <1>9, TakeFull
  <2>2. 2 * (Len(r) - m) + n <= 2 * Len(r) - k
    BY <1>1, <1>9 DEF Done
  <2>3. 2 * (Len(r) - m) + (n - 2) <= 2 * Len(r) - (k + 1)
    BY <1>2, <2>2
  <2>4. QED BY <1>4, <1>9, <2>1, <2>3 DEF Progress
<1>10. QED BY <1>5, <1>6, <1>7, <1>8, <1>9 DEF Turned, Done

LEMMA FirstTurn ==
  ASSUME NEW v \in Seq(Int), NEW r, Reversed(v, r)
  PROVE  Progress(v, r, [read |-> <<>>, unread |-> r, cycles |-> <<>>], 0)
<1>1. r \in Seq(1..Len(v))
  BY DEF Reversed
<1>2. Len(r) \in Nat
  BY <1>1, LenProperties
<1>3. PICK s : s = <<>>
  OBVIOUS
<1>4. s \in Seq(1..Len(v)) /\ s \in Seq(CountedCycles) /\ Len(s) = 0
  BY <1>3, EmptySeq
<1>5. Zigzag(v, s) /\ Falling(v, s, 0 - 1)
  BY <1>4 DEF Zigzag, Falling
<1>6. 0 \in 0..Len(r) /\ Len(r) = Len(r) - 0 /\ \A i \in 1..Len(r) : r[i] = r[0 + i]
  BY <1>2
<1>7. \A lo, hi \in Int : AllWithin(v, r, lo, hi) => FirstWithin(v, Len(v), lo, hi)
  BY DEF Reversed
<1>8. Counts(v, r, s, r, s, 0, 0)
  <2>1. 0 \in Nat /\ 0 <= 0 /\ ~(0 >= 1) /\ ~(0 >= 2)
    OBVIOUS
  <2>2. QED BY <1>1, <1>3, <1>4, <1>5, <1>6, <1>7, <2>1 DEF Counts
<1>9. 2 * (Len(r) - 0) + 0 <= 2 * Len(r) - 0
  BY <1>2
<1>10. QED BY <1>3, <1>8, <1>9 DEF Progress

-----------------------------------------------------------------------------
(* The end of the counting. *)

\* what is left makes half cycles
HalfCycles(v, s) == [i \in 1..(Len(s) - 1) |-> Cycle(v, s[i], s[i + 1], 1)]

TurnBody(v, turn) ==
  [k \in 0..(2 * Len(Reversals(v))) |->
     IF k = 0 THEN [read |-> <<>>, unread |-> Reversals(v), cycles |-> <<>>] ELSE CountingTurn(v, turn[k - 1])]

LEMMA TurnExists ==
  ASSUME NEW v \in Seq(Int), Len(v) >= 2, Reversed(v, Reversals(v))
  PROVE  \E turn, R :
           /\ R = 2 * Len(Reversals(v)) /\ R \in Nat
           /\ CountCycles(v) = turn[R].cycles \o HalfCycles(v, turn[R].read)
           /\ turn[0] = [read |-> <<>>, unread |-> Reversals(v), cycles |-> <<>>]
           /\ \A k \in 1..R : turn[k] = CountingTurn(v, turn[k - 1])
<1>1. PICK r, R, b : r = Reversals(v) /\ R = 2 * Len(r) /\ b = [read |-> <<>>, unread |-> r, cycles |-> <<>>]
  OBVIOUS
<1>2. r \in Seq(1..Len(v))
  BY <1>1 DEF Reversed
<1>3. Len(r) \in Nat
  BY <1>2, LenProperties
<1>4. R \in Nat
  BY <1>1, <1>3
<1>5. b \in TurnStates(v)
  <2>1. <<>> \in Seq(1..Len(v)) /\ <<>> \in Seq(CountedCycles)
    BY EmptySeq
  <2>2. QED BY <1>1, <1>2, <2>1, MakeState
<1> DEFINE X == TurnStates(v)
           step == [p \in (1..R) \X X |-> CountingTurn(v, p[2])]
<1>6. step \in [(1..R) \X X -> X]
  <2>1. \A st \in TurnStates(v) : CountingTurn(v, st) \in TurnStates(v)
    BY TurnType
  <2>2. \A st \in X : CountingTurn(v, st) \in X
    BY <2>1
  <2> HIDE DEF X
  <2>3. \A p \in (1..R) \X X : p[2] \in X
    OBVIOUS
  <2>4. QED BY <2>2, <2>3
<1>7. \A k \in 1..R, st \in X : step[<<k, st>>] = CountingTurn(v, st)
  <2> HIDE DEF X
  <2>1. QED OBVIOUS
<1>8. b \in X
  BY <1>5
<1> HIDE DEF X, step
<1>9. PICK s \in [0..R -> X] : IsRecursion(s, R, b, step)
  BY <1>4, <1>6, <1>8, RecursionExists
<1>10. s[0] = b /\ \A k \in 1..R : s[k] = CountingTurn(v, s[k - 1])
  <2>1. \A k \in 1..R : s[k - 1] \in X
    <3> TAKE k \in 1..R
    <3>1. k - 1 \in 0..R
      BY <1>4
    <3>2. QED BY <3>1
  <2>2. QED BY <1>7, <1>9, <2>1 DEF IsRecursion
<1>11. s = TurnBody(v, s)
  <2>1. \A k \in 0..R : k = 0 \/ k \in 1..R
    BY <1>4
  <2>2. \A k \in 0..R : s[k] = TurnBody(v, s)[k]
    BY <1>1, <1>10, <2>1 DEF TurnBody
  <2>3. QED BY <1>1, <1>9, <2>2 DEF TurnBody
<1> DEFINE turn == CHOOSE f : f = TurnBody(v, f)
<1>12. turn = TurnBody(v, turn)
  BY <1>11
<1>13. CountCycles(v) = turn[R].cycles \o HalfCycles(v, turn[R].read)
  <2>1. ~(Len(v) < 2)
    <3>1. Len(v) \in Nat
      BY LenProperties
    <3>2. QED BY <3>1
  <2>2. CountCycles(v) = turn[2 * Len(Reversals(v))].cycles \o HalfCycles(v, turn[2 * Len(Reversals(v))].read)
    BY <2>1 DEF CountCycles, TurnBody, HalfCycles
  <2>3. QED BY <1>1, <2>2
<1> HIDE DEF turn
<1>14. turn[0] = b /\ \A k \in 1..R : turn[k] = CountingTurn(v, turn[k - 1])
  <2>1. 0 \in 0..R /\ \A k \in 1..R : k \in 0..R /\ k # 0
    BY <1>4
  <2>2. QED BY <1>1, <1>12, <2>1 DEF TurnBody
<1>15. QED BY <1>1, <1>4, <1>13, <1>14

\* all turns together leave nothing unread
Ended(v, r, s, c, n) ==
  /\ s \in Seq(1..Len(v)) /\ Len(s) = n /\ n \in Nat /\ n >= 2 /\ c \in Seq(CountedCycles)
  /\ Zigzag(v, s) /\ Falling(v, s, n)
  /\ CountedWay(c) + Way(v, s, n) = Way(v, r, Len(r))
  /\ \A lo, hi \in Int : AllWithin(v, s, lo, hi) => FirstWithin(v, Len(v), lo, hi)

LEMMA CountEnds ==
  ASSUME NEW v \in Seq(Int), NEW r, NEW s, NEW u, NEW c, NEW n, NEW m,
         Reversed(v, r), Counts(v, r, s, u, c, n, m), Done(v, s, u)
  PROVE  Ended(v, r, s, c, n)
<1>1. Len(r) \in Nat /\ n \in Nat /\ m \in Nat /\ HasPositions(v, s, n)
  BY ReadType
<1>2. u = <<>> /\ ~Enough(v, s) /\ Len(u) = Len(r) - m /\ Len(<<>>) = 0
  BY DEF Done, Counts
<1>3. m = Len(r)
  BY <1>1, <1>2
<1>4. m >= 2 /\ m >= 1
  BY <1>1, <1>3 DEF Reversed
<1>5. s \in Seq(1..Len(v)) /\ Len(s) = n /\ n >= 2 /\ c \in Seq(CountedCycles) /\ Zigzag(v, s)
  BY <1>4 DEF Counts
<1>6. CountedWay(c) + Way(v, s, n) = Way(v, r, Len(r))
  BY <1>3, <1>4 DEF Counts
<1>7. Falling(v, s, n)
  <2> SUFFICES ASSUME NEW i \in 1..(n - 2)
               PROVE  RangeAt(v, s, i) > RangeAt(v, s, i + 1)
    BY DEF Falling
  <2>1. i \in 1..n /\ i + 1 \in 1..n /\ (i + 1) + 1 \in 1..n
    BY <1>1
  <2>2. CASE i = n - 2
    <3>1. n >= 3 /\ n - 1 = i + 1
      BY <1>1, <2>2
    <3>2. ~(RangeAt(v, s, i + 1) >= RangeAt(v, s, i))
      BY <1>2, <1>5, <2>2, <3>1 DEF Enough
    <3>3. v[s[i]] \in Int /\ v[s[i + 1]] \in Int /\ v[s[(i + 1) + 1]] \in Int
      BY <1>1, <2>1 DEF HasPositions
    <3>4. RangeAt(v, s, i) \in Nat
      BY <3>3, DistanceType DEF RangeAt
    <3>5. RangeAt(v, s, i + 1) \in Nat
      BY <3>3, DistanceType DEF RangeAt
    <3>6. QED BY <3>2, <3>4, <3>5
  <2>3. CASE i # n - 2
    <3>1. i \in 1..((n - 1) - 2)
      BY <1>1, <2>3
    <3>2. Falling(v, s, n - 1)
      BY DEF Counts
    <3>3. QED BY <3>1, <3>2 DEF Falling
  <2>4. QED BY <2>2, <2>3
<1>8. ASSUME NEW lo \in Int, NEW hi \in Int, AllWithin(v, s, lo, hi)
      PROVE  FirstWithin(v, Len(v), lo, hi)
  <2>1. \A i \in 1..Len(u) : FALSE
    BY <1>2
  <2>2. AllWithin(v, u, lo, hi)
    BY <2>1 DEF AllWithin
  <2>3. QED BY <1>8, <2>2 DEF Counts
<1>9. QED BY <1>1, <1>5, <1>6, <1>7, <1>8 DEF Ended

LEMMA CountingEnds ==
  ASSUME NEW v \in Seq(Int), Len(v) >= 2
  PROVE  \E s, c, n : CountCycles(v) = c \o HalfCycles(v, s) /\ Ended(v, Reversals(v), s, c, n)
<1>1. Reversed(v, Reversals(v))
  BY ReversalsFound
<1>2. PICK r : r = Reversals(v)
  OBVIOUS
<1>3. PICK turn, R :
        /\ R = 2 * Len(r) /\ R \in Nat
        /\ CountCycles(v) = turn[R].cycles \o HalfCycles(v, turn[R].read)
        /\ turn[0] = [read |-> <<>>, unread |-> r, cycles |-> <<>>]
        /\ \A k \in 1..R : turn[k] = CountingTurn(v, turn[k - 1])
  BY <1>1, <1>2, TurnExists
<1>4. Reversed(v, r)
  BY <1>1, <1>2
<1> DEFINE S == {k \in 0..R : Progress(v, r, turn[k], k)}
<1>5. 0 \in S
  <2>1. 0 \in 0..R
    BY <1>3
  <2>2. Progress(v, r, turn[0], 0)
    BY <1>3, <1>4, FirstTurn
  <2>3. QED BY <2>1, <2>2
<1>6. ASSUME NEW i \in 0..(R - 1), i \in S PROVE i + 1 \in S
  <2>1. i + 1 \in 0..R /\ i + 1 \in 1..R /\ (i + 1) - 1 = i /\ i \in Nat
    BY <1>3
  <2>2. Progress(v, r, turn[i], i)
    BY <1>6
  <2>3. Progress(v, r, CountingTurn(v, turn[i]), i + 1)
    BY <1>4, <2>1, <2>2, TurnStep
  <2>4. turn[i + 1] = CountingTurn(v, turn[i])
    BY <1>3, <2>1
  <2>5. QED BY <2>1, <2>3, <2>4
<1> HIDE DEF S
<1>7. \A i \in 0..R : i \in S
  BY <1>3, <1>5, <1>6, InductionTo
<1>8. Progress(v, r, turn[R], R)
  <2>1. R \in 0..R
    BY <1>3
  <2>2. QED BY <1>7, <2>1 DEF S
<1>9. PICK s, u, c, n, m :
        /\ turn[R] = [read |-> s, unread |-> u, cycles |-> c]
        /\ Counts(v, r, s, u, c, n, m)
        /\ Done(v, s, u) \/ 2 * (Len(r) - m) + n <= 2 * Len(r) - R
  BY <1>8 DEF Progress
<1>10. Len(r) \in Nat /\ n \in Nat /\ m \in Nat /\ m <= Len(r)
  BY <1>4, <1>9, ReadType
<1>11. Done(v, s, u)
  <2> SUFFICES ASSUME 2 * (Len(r) - m) + n <= 2 * Len(r) - R
               PROVE  FALSE
    BY <1>9
  <2>1. n = 0 /\ m = Len(r)
    BY <1>3, <1>10
  <2>2. Len(r) >= 2
    BY <1>4 DEF Reversed
  <2>3. m >= 1
    BY <1>10, <2>1, <2>2
  <2>4. n >= 1
    BY <1>9, <2>3 DEF Counts
  <2>5. QED BY <2>1, <2>4
<1>12. Ended(v, r, s, c, n)
  BY <1>4, <1>9, <1>11, CountEnds
<1>13. CountCycles(v) = c \o HalfCycles(v, s)
  BY <1>3, <1>9
<1>14. QED BY <1>2, <1>12, <1>13

LEMMA TwoLess == \A l \in Nat : l >= 2 => \E k \in Nat : l = k + 2
  <1> TAKE l \in Nat
  <1>1. l >= 2 => l - 2 \in Nat /\ l = (l - 2) + 2
    OBVIOUS
  <1>2. QED BY <1>1

LEMMA RestType ==
  ASSUME NEW v \in Seq(Int), NEW s \in Seq(1..Len(v)), Len(s) >= 2
  PROVE  /\ HalfCycles(v, s) \in Seq(CountedCycles) /\ Len(HalfCycles(v, s)) = Len(s) - 1
         /\ \A i \in 1..(Len(s) - 1) : /\ HalfCycles(v, s)[i].halves = 1
                                       /\ HalfCycles(v, s)[i].depth = Distance(v[s[i]], v[s[i + 1]])
<1>1. PICK n \in Nat : n = Len(s) - 1 /\ Len(s) = n + 1
  <2>1. PICK l : l = Len(s)
    OBVIOUS
  <2>2. l \in Nat /\ l >= 2
    BY <2>1, LenProperties
  <2>3. PICK k \in Nat : l = k + 2
    BY <2>2, TwoLess
  <2>4. k + 1 \in Nat /\ k + 1 = l - 1 /\ l = (k + 1) + 1
    BY <2>3
  <2>5. QED BY <2>1, <2>4
<1>2. \A i \in 1..n : s[i] \in 1..Len(v) /\ s[i + 1] \in 1..Len(v)
  <2> TAKE i \in 1..n
  <2>1. i \in 1..Len(s) /\ i + 1 \in 1..Len(s)
    <3>1. i \in 1..(n + 1) /\ i + 1 \in 1..(n + 1)
      OBVIOUS
    <3>2. QED BY <1>1, <3>1
  <2>2. QED BY <2>1, ElementOfSeq
<1>3. \A i \in 1..n :
        /\ Cycle(v, s[i], s[i + 1], 1) \in CountedCycles
        /\ Cycle(v, s[i], s[i + 1], 1).halves = 1
        /\ Cycle(v, s[i], s[i + 1], 1).depth = Distance(v[s[i]], v[s[i + 1]])
  <2> TAKE i \in 1..n
  <2>1. s[i] \in 1..Len(v) /\ s[i + 1] \in 1..Len(v) /\ 1 \in {1, 2}
    BY <1>2
  <2>2. QED BY <2>1, CycleType
<1>4. PICK f : f = HalfCycles(v, s)
  OBVIOUS
<1>5. f \in [1..n -> CountedCycles] /\ \A i \in 1..n : f[i] = Cycle(v, s[i], s[i + 1], 1)
  BY <1>1, <1>3, <1>4 DEF HalfCycles
<1>6. f \in Seq(CountedCycles) /\ Len(f) = n
  BY <1>5, FunctionIsSequence
<1>7. QED BY <1>1, <1>3, <1>4, <1>5, <1>6

Joined(S, c, e, d) ==
  /\ d \in Seq(S) /\ Len(d) = Len(c) + Len(e)
  /\ \A i \in 1..Len(c) : d[i] = c[i]
  /\ \A i \in 1..Len(e) : d[Len(c) + i] = e[i]

LEMMA ConcatAt ==
  ASSUME NEW S, NEW c \in Seq(S), NEW e \in Seq(S)
  PROVE  Joined(S, c, e, c \o e)
<1>1. Len(c) \in Nat /\ Len(e) \in Nat
  BY LenProperties
<1>2. c \o e \in Seq(S) /\ Len(c \o e) = Len(c) + Len(e)
  BY ConcatProperties
<1>3. \A i \in 1..(Len(c) + Len(e)) : (c \o e)[i] = IF i <= Len(c) THEN c[i] ELSE e[i - Len(c)]
  BY ConcatProperties
<1>4. \A i \in 1..Len(c) : i \in 1..(Len(c) + Len(e)) /\ i <= Len(c)
  BY <1>1
<1>5. \A i \in 1..Len(e) : Len(c) + i \in 1..(Len(c) + Len(e)) /\ ~(Len(c) + i <= Len(c)) /\ (Len(c) + i) - Len(c) = i
  BY <1>1
<1>6. \A i \in 1..Len(c) : (c \o e)[i] = c[i]
  BY <1>3, <1>4
<1>7. \A i \in 1..Len(e) : (c \o e)[Len(c) + i] = e[i]
  BY <1>3, <1>5
<1>8. QED BY <1>2, <1>6, <1>7 DEF Joined

\* the half cycles that are left stand for the way along what is left
LEMMA RestCounted ==
  ASSUME NEW v \in Seq(Int), NEW s \in Seq(1..Len(v)), Len(s) >= 2, NEW c \in Seq(CountedCycles)
  PROVE  CountedWay(c \o HalfCycles(v, s)) = CountedWay(c) + Way(v, s, Len(s))
<1>1. PICK n, k, e, d : n = Len(s) /\ k = Len(c) /\ e = HalfCycles(v, s) /\ d = c \o e
  OBVIOUS
<1>2. n \in Nat /\ k \in Nat /\ n >= 2
  BY <1>1, LenProperties
<1>3. /\ e \in Seq(CountedCycles) /\ Len(e) = n - 1
      /\ \A i \in 1..(n - 1) : e[i].halves = 1 /\ e[i].depth = Distance(v[s[i]], v[s[i + 1]])
  BY <1>1, RestType
<1>4. /\ d \in Seq(CountedCycles) /\ Len(d) = k + (n - 1)
      /\ \A i \in 1..k : d[i] = c[i]
      /\ \A i \in 1..(n - 1) : d[k + i] = e[i]
  <2>1. /\ d \in Seq(CountedCycles) /\ Len(d) = k + Len(e)
        /\ \A i \in 1..k : d[i] = c[i]
        /\ \A i \in 1..Len(e) : d[k + i] = e[i]
    <3>1. Joined(CountedCycles, c, e, d)
      BY <1>1, <1>3, ConcatAt
    <3>2. QED BY <1>1, <3>1 DEF Joined
  <2>2. QED BY <1>3, <2>1
<1>5. HasPositions(v, s, n)
  BY <1>1, PositionFacts
<1> DEFINE f == [i \in 1..Len(d) |-> d[i].halves * d[i].depth]
           g == [i \in 1..k |-> c[i].halves * c[i].depth]
<1>6. /\ \A i \in 1..Len(d) : f[i] \in Int
      /\ CountedWay(d) = SumTo(f, Len(d))
  BY <1>4, CountedType
<1>7. /\ \A i \in 1..k : g[i] \in Int
      /\ CountedWay(c) = SumTo(g, k) /\ CountedWay(c) \in Int
  BY <1>1, CountedType
<1>8. \A i \in 1..k : g[i] = f[i]
  <2>1. \A i \in 1..k : i \in 1..Len(d)
    BY <1>2, <1>4
  <2>2. QED BY <1>4, <2>1
<1>9. \A i \in 1..(n - 1) : k + i \in 1..Len(d) /\ f[k + i] = Distance(v[s[i]], v[s[i + 1]])
  <2> TAKE i \in 1..(n - 1)
  <2>1. k + i \in 1..Len(d)
    <3>1. PICK l : l = Len(d)
      OBVIOUS
    <3>2. l = k + (n - 1)
      BY <1>4, <3>1
    <3>3. k + i \in 1..l
      BY <1>2, <3>2
    <3>4. QED BY <3>1, <3>3
  <2>2. f[k + i] = e[i].halves * e[i].depth
    <3>1. f[k + i] = d[k + i].halves * d[k + i].depth
      BY <2>1
    <3>2. d[k + i] = e[i]
      BY <1>4
    <3>3. QED BY <3>1, <3>2
  <2>3. f[k + i] = 1 * Distance(v[s[i]], v[s[i + 1]])
    BY <1>3, <2>2
  <2>4. Distance(v[s[i]], v[s[i + 1]]) \in Int
    <3>1. n \in Nat \ {0}
      BY <1>2
    <3>2. QED BY <1>5, <3>1, StepType
  <2>5. QED BY <2>1, <2>3, <2>4
<1> HIDE DEF f, g
<1> DEFINE S == {i \in 0..(n - 1) : SumTo(f, k + i) = CountedWay(c) + Way(v, s, i + 1)}
<1>10. 0 \in S
  <2>1. 0 \in 0..(n - 1) /\ k + 0 = k /\ 0 + 1 = 1
    BY <1>2
  <2>2. \A i \in 1..k : g[i] \in Int /\ f[i] = g[i]
    BY <1>7, <1>8
  <2>3. SumTo(f, k) = SumTo(g, k)
    BY <1>2, <2>2, SameValuesSameSum
  <2>4. Way(v, s, 1) = 0
    BY WayOfOne
  <2>5. QED BY <1>7, <2>1, <2>3, <2>4
<1>11. ASSUME NEW i \in 0..((n - 1) - 1), i \in S PROVE i + 1 \in S
  <2>1. i + 1 \in 0..(n - 1) /\ i + 1 \in 1..(n - 1) /\ k + i \in Nat /\ (k + i) + 1 = k + (i + 1) /\ i + 1 \in Nat \ {0}
        /\ i + 2 <= n /\ (i + 1) + 1 <= n
    BY <1>2
  <2>2. SumTo(f, k + i) = CountedWay(c) + Way(v, s, i + 1)
    BY <1>11
  <2>3. \A j \in 1..((k + i) + 1) : f[j] \in Int
    <3>1. \A j \in 1..((k + i) + 1) : j \in 1..Len(d)
      BY <1>2, <1>4, <2>1
    <3>2. QED BY <1>6, <3>1
  <2>4. SumTo(f, (k + i) + 1) = SumTo(f, k + i) + f[(k + i) + 1]
    BY <2>1, <2>3, SumToStep
  <2>5. f[(k + i) + 1] = Distance(v[s[i + 1]], v[s[(i + 1) + 1]])
    BY <1>9, <2>1
  <2>6. HasPositions(v, s, (i + 1) + 1) /\ HasPositions(v, s, i + 1)
    <3>1. \A j \in 1..((i + 1) + 1) : j \in 1..n
      BY <1>2, <2>1
    <3>2. \A j \in 1..(i + 1) : j \in 1..n
      BY <1>2, <2>1
    <3>3. QED BY <1>5, <3>1, <3>2 DEF HasPositions
  <2>7. Way(v, s, (i + 1) + 1) = Way(v, s, i + 1) + Distance(v[s[i + 1]], v[s[(i + 1) + 1]])
    BY <2>1, <2>6, WayGoesOn
  <2>8. Way(v, s, i + 1) \in Int
    BY <2>1, <2>6, WayType
  <2>9. Distance(v[s[i + 1]], v[s[(i + 1) + 1]]) \in Int
    <3>1. (i + 1) + 1 \in Nat \ {0} /\ i + 1 \in 1..(((i + 1) + 1) - 1)
      BY <2>1
    <3>2. QED BY <2>6, <3>1, StepType
  <2>10. PICK x \in Int : x = Distance(v[s[i + 1]], v[s[(i + 1) + 1]])
    BY <2>9
  <2>11. PICK w, q \in Int : w = Way(v, s, i + 1) /\ q = CountedWay(c)
    BY <1>7, <2>8
  <2>12. SumTo(f, k + (i + 1)) = (q + w) + x
    BY <2>1, <2>2, <2>4, <2>5, <2>10, <2>11
  <2>13. Way(v, s, (i + 1) + 1) = w + x
    BY <2>7, <2>10, <2>11
  <2>14. (q + w) + x = q + (w + x)
    OBVIOUS
  <2>15. SumTo(f, k + (i + 1)) = CountedWay(c) + Way(v, s, (i + 1) + 1)
    BY <2>11, <2>12, <2>13, <2>14
  <2>16. QED BY <2>1, <2>15
<1>12. n - 1 \in Nat
  BY <1>2
<1> HIDE DEF S
<1>13. \A i \in 0..(n - 1) : i \in S
  BY <1>10, <1>11, <1>12, InductionTo
<1>14. SumTo(f, k + (n - 1)) = CountedWay(c) + Way(v, s, n)
  <2>1. n - 1 \in 0..(n - 1) /\ (n - 1) + 1 = n
    BY <1>2
  <2>2. QED BY <1>13, <2>1 DEF S
<1>15. QED BY <1>1, <1>4, <1>6, <1>14

LEMMA VariationIsWay ==
  ASSUME NEW v \in Seq(Int), Len(v) >= 2
  PROVE  TotalVariation(v) = Way(v, Places(v), Len(v))
<1>1. PICK n \in Nat : n = Len(v) - 1
  <2>1. Len(v) \in Nat
    BY LenProperties
  <2>2. QED BY <2>1
<1>2. Len(v) \in Nat /\ Len(v) = n + 1 /\ \A i \in 1..Len(v) : v[i] \in Int
  BY <1>1, LenProperties, ElementOfSeq
<1>3. PICK p : p = Places(v)
  OBVIOUS
<1> DEFINE f == [i \in 1..n |-> Distance(v[i], v[i + 1])]
           g == [i \in 1..n |-> Distance(v[p[i]], v[p[i + 1]])]
<1>4. TotalVariation(v) = SumTo(f, n) /\ Way(v, Places(v), Len(v)) = SumTo(g, n)
  BY <1>1, <1>3 DEF TotalVariation, Way
<1>5. \A i \in 1..n : g[i] \in Int /\ f[i] = g[i]
  <2> SUFFICES ASSUME NEW i \in 1..n PROVE g[i] \in Int /\ f[i] = g[i]
    OBVIOUS
  <2>1. i \in 1..Len(v) /\ i + 1 \in 1..Len(v)
    BY <1>2
  <2>2. p[i] = i /\ p[i + 1] = i + 1
    BY <1>3, <2>1 DEF Places
  <2>3. g[i] = Distance(v[i], v[i + 1]) /\ f[i] = Distance(v[i], v[i + 1])
    BY <2>2
  <2>4. v[i] \in Int /\ v[i + 1] \in Int
    BY <1>2, <2>1
  <2>5. Distance(v[i], v[i + 1]) \in Nat
    BY <2>4, DistanceType
  <2>6. QED BY <2>3, <2>5
<1> HIDE DEF f, g
<1>6. SumTo(f, n) = SumTo(g, n)
  BY <1>5, SameValuesSameSum
<1>7. QED BY <1>4, <1>6

\* the first two values that are left hold all the others between them
LEMMA FirstRangeIsWidest ==
  ASSUME NEW v \in Seq(Int), NEW s \in Seq(1..Len(v)), Len(s) >= 2, Zigzag(v, s), Falling(v, s, Len(s)),
         NEW lo \in Int, NEW hi \in Int, Between(v[s[1]], lo, hi), Between(v[s[2]], lo, hi)
  PROVE  AllWithin(v, s, lo, hi)
<1>1. PICK l \in Nat : l = Len(s)
  BY LenProperties
<1>2. PICK n \in Nat : Len(s) = n + 2
  <2>1. l >= 2
    BY <1>1
  <2>2. PICK n \in Nat : l = n + 2
    BY <2>1, TwoLess
  <2>3. QED BY <1>1, <2>2
<1>3. \A i \in 1..Len(s) : v[s[i]] \in Int
  BY PositionFacts
<1> DEFINE S == {i \in 0..n : Between(v[s[i + 1]], lo, hi) /\ Between(v[s[i + 2]], lo, hi)}
<1>4. 0 \in S
  <2>1. 0 \in 0..n /\ 0 + 1 = 1 /\ 0 + 2 = 2
    OBVIOUS
  <2>2. QED BY <2>1
<1>5. ASSUME NEW i \in 0..(n - 1), i \in S PROVE i + 1 \in S
  <2>1. i + 1 \in 0..n /\ i + 1 \in 1..(Len(s) - 2) /\ (i + 1) + 1 = i + 2 /\ (i + 2) + 1 = i + 3 /\ (i + 1) + 2 = i + 3
        /\ i + 1 \in 1..Len(s) /\ i + 2 \in 1..Len(s) /\ i + 3 \in 1..Len(s)
    <3>1. i + 1 \in 0..n /\ i + 1 \in 1..((n + 2) - 2) /\ i + 1 \in 1..(n + 2) /\ i + 2 \in 1..(n + 2) /\ i + 3 \in 1..(n + 2)
      OBVIOUS
    <3>2. (i + 1) + 1 = i + 2 /\ (i + 2) + 1 = i + 3 /\ (i + 1) + 2 = i + 3
      OBVIOUS
    <3>3. QED BY <1>2, <3>1, <3>2
  <2>2. PICK a, b, c : a = v[s[i + 1]] /\ b = v[s[i + 2]] /\ c = v[s[i + 3]]
    OBVIOUS
  <2>3. a \in Int /\ b \in Int /\ c \in Int
    BY <1>3, <2>1, <2>2
  <2>4. Between(a, lo, hi) /\ Between(b, lo, hi)
    BY <1>5, <2>2
  <2>5. Zig(a, b, c)
    BY <2>1, <2>2 DEF Zigzag
  <2>6. Distance(a, b) > Distance(b, c)
    <3>1. RangeAt(v, s, i + 1) > RangeAt(v, s, (i + 1) + 1)
      BY <2>1 DEF Falling
    <3>2. QED BY <2>1, <2>2, <3>1 DEF RangeAt
  <2>7. (a <= c /\ c <= b) \/ (a >= c /\ c >= b)
    BY <2>3, <2>5, <2>6, ZigNarrows
  <2>8. Between(c, lo, hi)
    <3>1. (a <= c /\ c <= b) \/ (b <= c /\ c <= a)
      BY <2>3, <2>7
    <3>2. QED BY <2>3, <2>4, <3>1, BetweenBoth
  <2>9. QED BY <2>1, <2>2, <2>4, <2>8
<1> HIDE DEF S
<1>6. \A i \in 0..n : i \in S
  BY <1>4, <1>5, InductionTo
<1>7. ASSUME NEW i \in 1..Len(s) PROVE Between(v[s[i]], lo, hi)
  <2>1. CASE i = 1
    BY <2>1
  <2>2. CASE i # 1
    <3>1. i - 2 \in 0..n /\ (i - 2) + 2 = i
      BY <1>2, <2>2
    <3>2. i - 2 \in S
      BY <1>6, <3>1
    <3>3. Between(v[s[(i - 2) + 2]], lo, hi)
      BY <3>2 DEF S
    <3>4. QED BY <3>1, <3>3
  <2>3. QED BY <2>1, <2>2
<1>8. QED BY <1>7 DEF AllWithin

LEMMA SpanFromEnds ==
  ASSUME NEW v \in Seq(Int), NEW i \in 1..Len(v), NEW j \in 1..Len(v),
         NEW lo \in Int, NEW hi \in Int, lo = v[i], hi = v[j], FirstWithin(v, Len(v), lo, hi)
  PROVE  SpanOf(v) = hi - lo
<1>1. PICK V : V = ToSet(v)
  OBVIOUS
<1>2. DOMAIN v = 1..Len(v)
  BY LenProperties
<1>3. lo \in V /\ hi \in V
  BY <1>1, <1>2 DEF ToSet
<1>4. \A x \in V : x \in Int /\ lo <= x /\ x <= hi
  <2>1. \A k \in 1..Len(v) : v[k] \in Int /\ lo <= v[k] /\ v[k] <= hi
    BY ElementOfSeq DEF FirstWithin, Between
  <2>2. QED BY <1>1, <1>2, <2>1 DEF ToSet
<1>5. Max(V) = hi
  <2>1. Max(V) \in V /\ \A y \in V : Max(V) >= y
    <3>1. \A y \in V : hi >= y
      BY <1>4
    <3>2. QED BY <1>3, <3>1 DEF Max
  <2>2. PICK w : w = Max(V)
    OBVIOUS
  <2>3. w \in Int /\ w <= hi /\ w >= hi
    BY <1>3, <1>4, <2>1, <2>2
  <2>4. w = hi
    BY <2>3
  <2>5. QED BY <2>2, <2>4
<1>6. Min(V) = lo
  <2>1. Min(V) \in V /\ \A y \in V : Min(V) <= y
    BY <1>3, <1>4 DEF Min
  <2>2. PICK w : w = Min(V)
    OBVIOUS
  <2>3. w \in Int /\ lo <= w /\ w <= lo
    BY <1>3, <1>4, <2>1, <2>2
  <2>4. w = lo
    BY <2>3
  <2>5. QED BY <2>2, <2>4
<1>7. QED BY <1>1, <1>5, <1>6 DEF SpanOf

\* all of the way is counted, and the span is among the depths
LEMMA CyclesCounted ==
  ASSUME NEW v \in Seq(Int), Len(v) >= 2
  PROVE  /\ CountedWay(CountCycles(v)) = TotalVariation(v)
         /\ \E i \in DOMAIN CountCycles(v) : CountCycles(v)[i].depth = SpanOf(v)
<1>1. PICK r : r = Reversals(v)
  OBVIOUS
<1>2. PICK s, c, n : CountCycles(v) = c \o HalfCycles(v, s) /\ Ended(v, r, s, c, n)
  BY <1>1, CountingEnds
<1>3. Reversed(v, r)
  BY <1>1, ReversalsFound
<1>4. /\ s \in Seq(1..Len(v)) /\ Len(s) = n /\ n \in Nat /\ n >= 2 /\ Len(s) >= 2 /\ c \in Seq(CountedCycles)
      /\ Zigzag(v, s) /\ Falling(v, s, Len(s))
      /\ CountedWay(c) + Way(v, s, n) = Way(v, r, Len(r))
      /\ \A lo, hi \in Int : AllWithin(v, s, lo, hi) => FirstWithin(v, Len(v), lo, hi)
  BY <1>2 DEF Ended
<1>5. CountedWay(CountCycles(v)) = TotalVariation(v)
  <2>1. CountedWay(c \o HalfCycles(v, s)) = CountedWay(c) + Way(v, s, Len(s))
    BY <1>4, RestCounted
  <2>2. Way(v, r, Len(r)) = Way(v, Places(v), Len(v))
    BY <1>3 DEF Reversed
  <2>3. TotalVariation(v) = Way(v, Places(v), Len(v))
    BY VariationIsWay
  <2>4. QED BY <1>2, <1>4, <2>1, <2>2, <2>3
<1>6. PICK i, j, x, y : i = s[1] /\ j = s[2] /\ x = v[i] /\ y = v[j]
  OBVIOUS
<1>7. i \in 1..Len(v) /\ j \in 1..Len(v) /\ x \in Int /\ y \in Int
  <2>1. 1 \in 1..Len(s) /\ 2 \in 1..Len(s)
    BY <1>4
  <2>2. QED BY <1>4, <1>6, <2>1, PositionFacts
<1>8. SpanOf(v) = Distance(x, y)
  <2>1. CASE x <= y
    <3>1. Between(x, x, y) /\ Between(y, x, y)
      BY <1>7, <2>1 DEF Between
    <3>2. AllWithin(v, s, x, y)
      BY <1>4, <1>6, <1>7, <3>1, FirstRangeIsWidest
    <3>3. FirstWithin(v, Len(v), x, y)
      BY <1>4, <1>7, <3>2
    <3>4. SpanOf(v) = y - x
      BY <1>6, <1>7, <3>3, SpanFromEnds
    <3>5. QED BY <1>7, <2>1, <3>4 DEF Distance
  <2>2. CASE y <= x
    <3>1. Between(x, y, x) /\ Between(y, y, x)
      BY <1>7, <2>2 DEF Between
    <3>2. AllWithin(v, s, y, x)
      BY <1>4, <1>6, <1>7, <3>1, FirstRangeIsWidest
    <3>3. FirstWithin(v, Len(v), y, x)
      BY <1>4, <1>7, <3>2
    <3>4. SpanOf(v) = x - y
      BY <1>6, <1>7, <3>3, SpanFromEnds
    <3>5. QED BY <1>7, <2>2, <3>4 DEF Distance
  <2>3. QED BY <1>7, <2>1, <2>2
<1>9. PICK e, d : e = HalfCycles(v, s) /\ d = c \o e
  OBVIOUS
<1>10. e \in Seq(CountedCycles) /\ Len(e) = n - 1 /\ e[1].depth = Distance(x, y)
  <2>1. /\ e \in Seq(CountedCycles) /\ Len(e) = Len(s) - 1
        /\ \A k \in 1..(Len(s) - 1) : e[k].depth = Distance(v[s[k]], v[s[k + 1]])
    BY <1>4, <1>9, RestType
  <2>2. 1 \in 1..(Len(s) - 1) /\ 1 + 1 = 2
    BY <1>4
  <2>3. QED BY <1>4, <1>6, <2>1, <2>2
<1>11. Len(c) + 1 \in DOMAIN d /\ d[Len(c) + 1] = e[1]
  <2>1. Len(c) \in Nat
    BY <1>4, LenProperties
  <2>2. /\ d \in Seq(CountedCycles) /\ Len(d) = Len(c) + Len(e)
        /\ \A k \in 1..Len(e) : d[Len(c) + k] = e[k]
    <3>1. Joined(CountedCycles, c, e, d)
      BY <1>4, <1>9, <1>10, ConcatAt
    <3>2. QED BY <3>1 DEF Joined
  <2>3. DOMAIN d = 1..Len(d)
    BY <2>2, LenProperties
  <2>4. Len(c) + 1 \in 1..(Len(c) + Len(e)) /\ 1 \in 1..Len(e)
    BY <1>4, <1>10, <2>1
  <2>5. QED BY <2>2, <2>3, <2>4
<1>12. QED BY <1>2, <1>5, <1>8, <1>9, <1>10, <1>11
===============================================================================
