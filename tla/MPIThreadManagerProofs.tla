----------------------- MODULE MPIThreadManagerProofs -----------------------
(***************************************************************************)
(* Proofs about MPIThreadManager, for any number of groups, tasks, worker  *)
(* processes and cycles, and any limits of the tasks: the distribution of  *)
(* workers to groups, the messages of a cycle, and the fork and join they  *)
(* implement.                                                              *)
(***************************************************************************)
EXTENDS MPIThreadManager, DataLemmas, FiniteSetTheorems, SequenceTheorems, TLAPS

-----------------------------------------------------------------------------
(* Sums over groups. *)

LEMMA SumFacts ==
  ASSUME NEW n \in Nat, NEW number \in [1..n -> Nat]
  PROVE  /\ SumUpTo(number) \in [0..n -> Nat]
         /\ SumUpTo(number)[0] = 0
         /\ \A g \in 1..n : SumUpTo(number)[g] = SumUpTo(number)[g - 1] + number[g]
         /\ Total(number) = SumUpTo(number)[n]
<1> DEFINE Body(f) == [g \in 0..Len(number) |-> IF g = 0 THEN 0 ELSE f[g - 1] + number[g]]
           sum == CHOOSE f : f = Body(f)
           step == [p \in (1..n) \X Nat |-> p[2] + number[p[1]]]
<1>1. Len(number) = n
  BY FunctionIsSequence
<1>2. step \in [(1..n) \X Nat -> Nat]
  OBVIOUS
<1>3. \A g \in 1..n, m \in Nat : step[<<g, m>>] = m + number[g]
  OBVIOUS
<1> HIDE DEF step
<1>4. PICK f \in [0..n -> Nat] : IsRecursion(f, n, 0, step)
  BY <1>2, RecursionExists
<1>5. \A g \in 1..n : f[g] = f[g - 1] + number[g]
  <2> TAKE g \in 1..n
  <2>1. f[g - 1] \in Nat
    OBVIOUS
  <2>2. QED BY <1>3, <1>4, <2>1 DEF IsRecursion
<1>6. f = Body(f)
  <2>1. \A g \in 0..n : g = 0 \/ g \in 1..n
    OBVIOUS
  <2>2. \A g \in 0..n : f[g] = Body(f)[g]
    BY <1>1, <1>4, <1>5, <2>1 DEF IsRecursion
  <2>3. QED BY <1>1, <2>2
<1> HIDE DEF Body
<1>7. sum = Body(sum)
  BY <1>6
<1>8. SumUpTo(number) = sum
  BY DEF SumUpTo, Body
<1> HIDE DEF sum
<1>9. sum = [g \in 0..n |-> IF g = 0 THEN 0 ELSE sum[g - 1] + number[g]]
  BY <1>1, <1>7 DEF Body
<1>10. sum[0] = 0 /\ \A g \in 1..n : sum[g] = sum[g - 1] + number[g]
  <2>1. 0 \in 0..n /\ \A g \in 1..n : g \in 0..n /\ g # 0
    OBVIOUS
  <2>2. QED BY <1>9, <2>1
<1>11. \A g \in 0..n : g \in {h \in 0..n : sum[h] \in Nat}
  <2> DEFINE S == {h \in 0..n : sum[h] \in Nat}
  <2>1. 0 \in S
    BY <1>10
  <2>2. ASSUME NEW i \in 0..(n - 1), i \in S PROVE i + 1 \in S
    <3>1. i + 1 \in 1..n /\ (i + 1) - 1 = i /\ i + 1 \in 0..n
      OBVIOUS
    <3>2. sum[i + 1] = sum[i] + number[i + 1] /\ sum[i] \in Nat /\ number[i + 1] \in Nat
      BY <1>10, <2>2, <3>1
    <3>3. QED BY <3>1, <3>2
  <2> HIDE DEF S
  <2>3. \A g \in 0..n : g \in S
    BY <2>1, <2>2, InductionTo
  <2>4. QED BY <2>3 DEF S
<1>12. sum \in [0..n -> Nat]
  <2>1. DOMAIN sum = 0..n /\ sum = [g \in 0..n |-> sum[g]]
    BY <1>9
  <2>2. QED BY <1>11, <2>1
<1>13. Total(number) = sum[n]
  BY <1>1, <1>8 DEF Total
<1>14. QED BY <1>8, <1>10, <1>12, <1>13
LEMMA SumAscends ==
  ASSUME NEW n \in Nat, NEW number \in [1..n -> Nat], NEW i \in 0..n, NEW j \in 0..n, i <= j
  PROVE  SumUpTo(number)[i] <= SumUpTo(number)[j]
<1> DEFINE sum == SumUpTo(number)
           S == {k \in 0..n : i <= k => sum[i] <= sum[k]}
<1>1. /\ sum \in [0..n -> Nat]
      /\ \A g \in 1..n : sum[g] = sum[g - 1] + number[g]
  BY SumFacts
<1> HIDE DEF sum
<1>2. 0 \in S
  <2>1. i <= 0 => i = 0
    OBVIOUS
  <2>2. sum[0] \in Nat /\ 0 \in 0..n
    BY <1>1
  <2>3. QED BY <2>1, <2>2
<1>3. ASSUME NEW k \in 0..(n - 1), k \in S PROVE k + 1 \in S
  <2>1. k + 1 \in 1..n /\ (k + 1) - 1 = k /\ k + 1 \in 0..n /\ k \in 0..n
    OBVIOUS
  <2>2. sum[k + 1] = sum[k] + number[k + 1] /\ sum[k] \in Nat /\ number[k + 1] \in Nat /\ sum[i] \in Nat
    BY <1>1, <2>1
  <2>3. CASE i = k + 1
    BY <2>1, <2>2, <2>3
  <2>4. CASE i # k + 1
    <3>1. i <= k + 1 => i <= k
      BY <2>4
    <3>2. QED BY <1>3, <2>1, <2>2, <3>1
  <2>5. QED BY <2>3, <2>4
<1> HIDE DEF S
<1>4. \A k \in 0..n : k \in S
  BY <1>2, <1>3, InductionTo
<1>5. j \in S
  BY <1>4
<1>6. QED BY <1>5 DEF S, sum

\* one more in one group is one more in all of them
LEMMA SumOfOneMore ==
  ASSUME NEW n \in Nat, NEW number \in [1..n -> Nat], NEW g \in 1..n
  PROVE  Total([number EXCEPT ![g] = @ + 1]) = Total(number) + 1
<1> DEFINE more == [number EXCEPT ![g] = @ + 1]
           a == SumUpTo(number)
           b == SumUpTo(more)
           S == {k \in 0..n : b[k] = a[k] + IF k >= g THEN 1 ELSE 0}
<1>1. more \in [1..n -> Nat] /\ more[g] = number[g] + 1 /\ \A k \in 1..n : k # g => more[k] = number[k]
  OBVIOUS
<1> HIDE DEF more
<1>2. /\ a \in [0..n -> Nat] /\ a[0] = 0 /\ Total(number) = a[n]
      /\ \A k \in 1..n : a[k] = a[k - 1] + number[k]
  BY SumFacts
<1>3. /\ b \in [0..n -> Nat] /\ b[0] = 0 /\ Total(more) = b[n]
      /\ \A k \in 1..n : b[k] = b[k - 1] + more[k]
  BY <1>1, SumFacts
<1> HIDE DEF a, b
<1>4. 0 \in S
  BY <1>2, <1>3
<1>5. ASSUME NEW k \in 0..(n - 1), k \in S PROVE k + 1 \in S
  <2>1. k + 1 \in 1..n /\ (k + 1) - 1 = k /\ k + 1 \in 0..n /\ k \in 0..n
    OBVIOUS
  <2>2. /\ a[k + 1] = a[k] + number[k + 1] /\ b[k + 1] = b[k] + more[k + 1]
        /\ a[k] \in Nat /\ b[k] \in Nat /\ number[k + 1] \in Nat /\ more[k + 1] \in Nat
    BY <1>1, <1>2, <1>3, <2>1
  <2>3. b[k] = a[k] + IF k >= g THEN 1 ELSE 0
    BY <1>5
  <2>4. CASE k + 1 = g
    <3>1. ~(k >= g) /\ k + 1 >= g
      BY <2>4
    <3>4. more[k + 1] = number[k + 1] + 1
      BY <1>1, <2>4
    <3>2. b[k + 1] = a[k + 1] + 1
      BY <2>2, <2>3, <3>1, <3>4
    <3>3. QED BY <2>1, <3>1, <3>2
  <2>5. CASE k + 1 # g
    <3>1. more[k + 1] = number[k + 1] /\ (k + 1 >= g <=> k >= g)
      BY <1>1, <2>1, <2>5
    <3>2. QED BY <2>1, <2>2, <2>3, <3>1
  <2>6. QED BY <2>4, <2>5
<1> HIDE DEF S
<1>6. \A k \in 0..n : k \in S
  BY <1>4, <1>5, InductionTo
<1>7. b[n] = a[n] + 1
  <2>1. n \in S /\ n >= g
    BY <1>6
  <2>2. QED BY <2>1 DEF S
<1>8. QED BY <1>2, <1>3, <1>7 DEF more

\* numbers with at most the sum of larger ones are the same
LEMMA SumOfLess ==
  ASSUME NEW n \in Nat, NEW less \in [1..n -> Nat], NEW number \in [1..n -> Nat],
         \A g \in 1..n : less[g] <= number[g]
  PROVE  /\ Total(less) <= Total(number)
         /\ \A g \in 1..n : less[g] < number[g] => Total(less) < Total(number)
<1> DEFINE a == SumUpTo(less)
           b == SumUpTo(number)
<1>1. /\ a \in [0..n -> Nat] /\ a[0] = 0 /\ Total(less) = a[n]
      /\ \A k \in 1..n : a[k] = a[k - 1] + less[k]
  BY SumFacts
<1>2. /\ b \in [0..n -> Nat] /\ b[0] = 0 /\ Total(number) = b[n]
      /\ \A k \in 1..n : b[k] = b[k - 1] + number[k]
  BY SumFacts
<1> HIDE DEF a, b
<1> DEFINE S == {k \in 0..n : a[k] <= b[k] /\ \A g \in 1..k : less[g] < number[g] => a[k] < b[k]}
<1>3. 0 \in S
  BY <1>1, <1>2
<1>4. ASSUME NEW k \in 0..(n - 1), k \in S PROVE k + 1 \in S
  <2>1. k + 1 \in 1..n /\ (k + 1) - 1 = k /\ k + 1 \in 0..n /\ k \in 0..n
    OBVIOUS
  <2>2. /\ a[k + 1] = a[k] + less[k + 1] /\ b[k + 1] = b[k] + number[k + 1]
        /\ a[k] \in Nat /\ b[k] \in Nat /\ less[k + 1] \in Nat /\ number[k + 1] \in Nat
        /\ less[k + 1] <= number[k + 1]
    BY <1>1, <1>2, <2>1
  <2>3. a[k] <= b[k] /\ \A g \in 1..k : less[g] < number[g] => a[k] < b[k]
    BY <1>4
  <2>4. a[k + 1] <= b[k + 1]
    BY <2>2, <2>3
  <2>5. ASSUME NEW g \in 1..(k + 1), less[g] < number[g] PROVE a[k + 1] < b[k + 1]
    <3>1. CASE g = k + 1
      BY <2>2, <2>3, <2>5, <3>1
    <3>2. CASE g # k + 1
      <4>1. g \in 1..k
        BY <3>2
      <4>2. a[k] < b[k]
        BY <2>3, <2>5, <4>1
      <4>3. QED BY <2>2, <4>2
    <3>3. QED BY <3>1, <3>2
  <2>6. QED BY <2>1, <2>4, <2>5
<1> HIDE DEF S
<1>5. \A k \in 0..n : k \in S
  BY <1>3, <1>4, InductionTo
<1>6. n \in S
  BY <1>5
<1>7. QED BY <1>1, <1>2, <1>6 DEF S

LEMMA SumOfZeros ==
  ASSUME NEW n \in Nat
  PROVE  [g \in 1..n |-> 0] \in [1..n -> Nat] /\ Total([g \in 1..n |-> 0]) = 0
<1> DEFINE zeros == [g \in 1..n |-> 0]
           a == SumUpTo(zeros)
           S == {k \in 0..n : a[k] = 0}
<1>1. zeros \in [1..n -> Nat] /\ \A g \in 1..n : zeros[g] = 0
  OBVIOUS
<1> HIDE DEF zeros
<1>2. /\ a \in [0..n -> Nat] /\ a[0] = 0 /\ Total(zeros) = a[n]
      /\ \A k \in 1..n : a[k] = a[k - 1] + zeros[k]
  BY <1>1, SumFacts
<1> HIDE DEF a
<1>3. 0 \in S
  BY <1>2
<1>4. ASSUME NEW k \in 0..(n - 1), k \in S PROVE k + 1 \in S
  <2>1. k + 1 \in 1..n /\ (k + 1) - 1 = k /\ k + 1 \in 0..n
    OBVIOUS
  <2>2. QED BY <1>1, <1>2, <1>4, <2>1
<1> HIDE DEF S
<1>5. \A k \in 0..n : k \in S
  BY <1>3, <1>4, InductionTo
<1>6. n \in S
  BY <1>5
<1>7. QED BY <1>1, <1>2, <1>6 DEF S, zeros

LEMMA SumOfBounded ==
  ASSUME NEW n \in Nat, NEW m \in Nat, NEW number \in [1..n -> 0..m]
  PROVE  number \in [1..n -> Nat] /\ Total(number) <= n * m
<1> DEFINE a == SumUpTo(number)
           S == {k \in 0..n : a[k] <= k * m}
<1>1. number \in [1..n -> Nat]
  OBVIOUS
<1>2. /\ a \in [0..n -> Nat] /\ a[0] = 0 /\ Total(number) = a[n]
      /\ \A k \in 1..n : a[k] = a[k - 1] + number[k]
  BY <1>1, SumFacts
<1> HIDE DEF a
<1>3. 0 \in S
  BY <1>2
<1>4. ASSUME NEW k \in 0..(n - 1), k \in S PROVE k + 1 \in S
  <2>1. k + 1 \in 1..n /\ (k + 1) - 1 = k /\ k + 1 \in 0..n /\ k \in 0..n
    OBVIOUS
  <2>2. a[k + 1] = a[k] + number[k + 1] /\ a[k] \in Nat /\ number[k + 1] \in 0..m
    BY <1>2, <2>1
  <2>3. (k + 1) * m = k * m + m
    OBVIOUS
  <2>4. a[k] <= k * m /\ k * m \in Nat
    BY <1>4
  <2>5. QED BY <2>1, <2>2, <2>3, <2>4
<1> HIDE DEF S
<1>5. \A k \in 0..n : k \in S
  BY <1>3, <1>4, InductionTo
<1>6. n \in S
  BY <1>5
<1>7. QED BY <1>1, <1>2, <1>6 DEF S
-----------------------------------------------------------------------------
(* The loops of AssignThreadsToTasks. *)

\* what one more worker for g changes, if there is one
GivesOne(after, n, a, g, limit, total) ==
  /\ after \in [1..n -> Nat]
  /\ \A h \in 1..n : h # g => after[h] = a[h]
  /\ IF a[g] < limit[g] /\ Total(a) < total
     THEN after[g] = a[g] + 1 /\ Total(after) = Total(a) + 1
     ELSE after = a

LEMMA OneMoreFacts ==
  ASSUME NEW n \in Nat, NEW a \in [1..n -> Nat], NEW limit \in [1..n -> Nat], NEW total \in Nat,
         NEW g \in 1..n
  PROVE  GivesOne(OneMore(a, g, limit, total), n, a, g, limit, total)
<1> DEFINE more == [a EXCEPT ![g] = @ + 1]
<1>1. more \in [1..n -> Nat] /\ more[g] = a[g] + 1 /\ \A h \in 1..n : h # g => more[h] = a[h]
  OBVIOUS
<1>2. Total(more) = Total(a) + 1
  BY SumOfOneMore
<1>3. OneMore(a, g, limit, total) = IF a[g] < limit[g] /\ Total(a) < total THEN more ELSE a
  BY DEF OneMore
<1> HIDE DEF more
<1>4. QED BY <1>1, <1>2, <1>3 DEF GivesOne

LEMMA SameNumbers ==
  ASSUME NEW n \in Nat, NEW a \in [1..n -> Nat], NEW b \in [1..n -> Nat],
         \A g \in 1..n : a[g] = b[g]
  PROVE  a = b
  OBVIOUS

LEMMA TotalType ==
  ASSUME NEW n \in Nat, NEW a \in [1..n -> Nat]
  PROVE  Total(a) \in Nat
<1>1. SumUpTo(a)[n] \in Nat /\ Total(a) = SumUpTo(a)[n]
  BY SumFacts
<1>2. QED BY <1>1

\* the turn as a function of the groups it has been through
IsTurn(after, n, assigned, limit, total) ==
  /\ after \in [0..n -> [1..n -> Nat]]
  /\ after[0] = assigned
  /\ \A g \in 1..n : after[g] = OneMore(after[g - 1], g, limit, total)
  /\ Turn(assigned, limit, total) = after[n]

LEMMA TurnIsRecursion ==
  ASSUME NEW n \in Nat, NEW assigned \in [1..n -> Nat], NEW limit \in [1..n -> Nat],
         NEW total \in Nat, Total(assigned) <= total
  PROVE  \E after : IsTurn(after, n, assigned, limit, total)
<1> DEFINE Body(f) == [g \in 0..Len(limit) |->
                         IF g = 0 THEN assigned ELSE OneMore(f[g - 1], g, limit, total)]
           turn == CHOOSE f : f = Body(f)
           X == [1..n -> Nat]
           step == [p \in (1..n) \X X |-> OneMore(p[2], p[1], limit, total)]
<1>1. Len(limit) = n
  BY FunctionIsSequence
<1>2. ASSUME NEW g \in 1..n, NEW a \in X PROVE OneMore(a, g, limit, total) \in X
  BY <1>2, SMTT(30) DEF OneMore
<1>3. /\ step \in [(1..n) \X X -> X]
      /\ \A g \in 1..n, a \in X : step[<<g, a>>] = OneMore(a, g, limit, total)
  BY <1>2
<1>4. assigned \in X
  OBVIOUS
<1> HIDE DEF step, X
<1>5. PICK f \in [0..n -> X] : IsRecursion(f, n, assigned, step)
  BY <1>3, <1>4, RecursionExists
<1>6. f[0] = assigned /\ \A g \in 1..n : f[g] = OneMore(f[g - 1], g, limit, total)
  <2>1. ASSUME NEW g \in 1..n PROVE f[g] = OneMore(f[g - 1], g, limit, total)
    <3>1. f[g - 1] \in X
      OBVIOUS
    <3>2. QED BY <1>3, <1>5, <3>1 DEF IsRecursion
  <2>2. QED BY <1>5, <2>1 DEF IsRecursion
<1>7. f = Body(f)
  <2>1. \A g \in 0..n : g = 0 \/ g \in 1..n
    OBVIOUS
  <2>2. \A g \in 0..n : f[g] = Body(f)[g]
    BY <1>1, <1>6, <2>1
  <2>3. QED BY <1>1, <2>2
<1> HIDE DEF Body
<1>8. turn = Body(turn)
  BY <1>7
<1>9. Turn(assigned, limit, total) = turn[Len(limit)]
  BY DEF Turn, Body
<1> HIDE DEF turn
<1>10. turn = [g \in 0..n |-> IF g = 0 THEN assigned ELSE OneMore(turn[g - 1], g, limit, total)]
  BY <1>1, <1>8 DEF Body
<1>11. turn[0] = assigned /\ \A g \in 1..n : turn[g] = OneMore(turn[g - 1], g, limit, total)
  <2>1. 0 \in 0..n /\ \A g \in 1..n : g \in 0..n /\ g # 0
    OBVIOUS
  <2>2. QED BY <1>10, <2>1
<1> DEFINE S == {k \in 0..n : turn[k] \in X}
<1>12. 0 \in S
  BY <1>4, <1>11
<1>13. ASSUME NEW k \in 0..(n - 1), k \in S PROVE k + 1 \in S
  <2>1. k + 1 \in 1..n /\ (k + 1) - 1 = k /\ k + 1 \in 0..n
    OBVIOUS
  <2>2. turn[k + 1] = OneMore(turn[k], k + 1, limit, total) /\ turn[k] \in X
    BY <1>11, <1>13, <2>1
  <2>3. QED BY <1>2, <2>1, <2>2
<1> HIDE DEF S
<1>14. \A k \in 0..n : k \in S
  BY <1>12, <1>13, InductionTo
<1>15. turn \in [0..n -> X]
  <2>1. \A k \in 0..n : turn[k] \in X
    BY <1>14 DEF S
  <2>2. DOMAIN turn = 0..n /\ turn = [k \in 0..n |-> turn[k]]
    BY <1>10
  <2>3. QED BY <2>1, <2>2
<1>16. IsTurn(turn, n, assigned, limit, total)
  BY <1>1, <1>9, <1>11, <1>15 DEF X, IsTurn
<1>17. QED BY <1>16
\* A turn gives each group below its limit one worker more, as long as there are some left.
GivesAll(c, n, a, limit, total) ==
  /\ c \in [1..n -> Nat]
  /\ Total(c) <= total
  /\ \A g \in 1..n : c[g] = a[g] \/ (c[g] = a[g] + 1 /\ a[g] < limit[g])
  /\ Total(c) < total => \A g \in 1..n : a[g] < limit[g] => c[g] = a[g] + 1
  /\ Total(a) = total => c = a
  /\ c = a \/ Total(c) >= Total(a) + 1

LEMMA TurnFacts ==
  ASSUME NEW n \in Nat, NEW a \in [1..n -> Nat], NEW limit \in [1..n -> Nat],
         NEW total \in Nat, Total(a) <= total
  PROVE  GivesAll(Turn(a, limit, total), n, a, limit, total)
<1>0. PICK turn : IsTurn(turn, n, a, limit, total)
  BY TurnIsRecursion
<1>1. /\ turn \in [0..n -> [1..n -> Nat]]
      /\ turn[0] = a
      /\ \A g \in 1..n : turn[g] = OneMore(turn[g - 1], g, limit, total)
      /\ Turn(a, limit, total) = turn[n]
  BY <1>0 DEF IsTurn
<1> DEFINE Rest(k) == \A g \in 1..n : g > k => turn[k][g] = a[g]
           Given(k) == \A g \in 1..n : turn[k][g] = a[g] \/ (turn[k][g] = a[g] + 1 /\ a[g] < limit[g])
           All(k) == Total(turn[k]) < total =>
                       \A g \in 1..k : a[g] < limit[g] => turn[k][g] = a[g] + 1
           Sum(k) == /\ Total(turn[k]) <= total
                     /\ Total(a) = total => turn[k] = a
                     /\ turn[k] = a \/ Total(turn[k]) >= Total(a) + 1
           S == {k \in 0..n : Rest(k) /\ Given(k) /\ All(k) /\ Sum(k)}
<1>2. 0 \in S
  BY <1>1
<1>3. ASSUME NEW k \in 0..(n - 1), k \in S PROVE k + 1 \in S
  <2> DEFINE g == k + 1
             b == turn[k]
             c == turn[k + 1]
  <2>1. g \in 1..n /\ g - 1 = k /\ k + 1 \in 0..n /\ k \in 0..n
    OBVIOUS
  <2>2. Rest(k) /\ Given(k) /\ All(k) /\ Sum(k)
    BY <1>3
  <2>3. b \in [1..n -> Nat] /\ c = OneMore(b, g, limit, total)
    BY <1>1, <2>1
  <2>20. Total(b) <= total
    BY <2>2
  <2> HIDE DEF b, c, g
  <2>21. GivesOne(OneMore(b, g, limit, total), n, b, g, limit, total)
    BY <2>1, <2>3, OneMoreFacts
  <2>4. /\ c \in [1..n -> Nat]
        /\ \A h \in 1..n : h # g => c[h] = b[h]
        /\ IF b[g] < limit[g] /\ Total(b) < total
           THEN c[g] = b[g] + 1 /\ Total(c) = Total(b) + 1 ELSE c = b
    BY <2>3, <2>21 DEF GivesOne
  <2> USE DEF b, c, g
  <2>5. Total(a) \in Nat /\ Total(b) \in Nat /\ Total(c) \in Nat
    BY <2>3, <2>4, TotalType
  <2>6. b[g] = a[g]
    BY <2>1, <2>2
  <2>7. \A h \in 1..n : a[h] \in Nat /\ b[h] \in Nat /\ c[h] \in Nat /\ limit[h] \in Nat
    BY <2>3, <2>4
  <2> HIDE DEF b, c
  <2>8. ASSUME NEW h \in 1..n, h > k + 1 PROVE c[h] = a[h]
    <3>1. h > k /\ h # g
      BY <2>8
    <3>2. b[h] = a[h]
      BY <2>2, <3>1 DEF b
    <3>3. QED BY <2>4, <3>1, <3>2
  <2>9. \A h \in 1..n : c[h] = a[h] \/ (c[h] = a[h] + 1 /\ a[h] < limit[h])
    <3> TAKE h \in 1..n
    <3>1. CASE h = g
      BY <2>1, <2>4, <2>6, <3>1
    <3>2. CASE h # g
      BY <2>2, <2>4, <3>2 DEF b
    <3>3. QED BY <3>1, <3>2
  <2>10. ASSUME Total(c) < total, NEW h \in 1..(k + 1), a[h] < limit[h] PROVE c[h] = a[h] + 1
    <3>1. Total(b) < total
      BY <2>4, <2>5, <2>10
    <3>2. CASE h = g
      BY <2>1, <2>4, <2>6, <2>10, <3>1, <3>2
    <3>3. CASE h # g
      <4>1. h \in 1..k /\ h \in 1..n
        BY <2>1, <3>3
      <4>2. b[h] = a[h] + 1
        BY <2>2, <2>10, <3>1, <4>1 DEF b
      <4>3. QED BY <2>4, <3>3, <4>1, <4>2
    <3>4. QED BY <3>2, <3>3
  <2>11. Total(c) <= total
    BY <2>2, <2>4, <2>5 DEF b
  <2>12. Total(a) = total => c = a
    <3>1. Total(a) = total => b = a
      BY <2>2 DEF b
    <3>2. QED BY <2>4, <2>5, <3>1
  <2>13. c = a \/ Total(c) >= Total(a) + 1
    <3>1. b = a \/ Total(b) >= Total(a) + 1
      BY <2>2 DEF b
    <3>2. QED BY <2>4, <2>5, <3>1
  <2>14. QED BY <2>1, <2>8, <2>9, <2>10, <2>11, <2>12, <2>13 DEF c
<1> HIDE DEF S
<1>4. \A k \in 0..n : k \in S
  BY <1>2, <1>3, InductionTo
<1>5. n \in S /\ n \in 0..n
  BY <1>4
<1>6. QED BY <1>1, <1>5 DEF S, GivesAll

\* the distribution as a function of its turns
IsDistribution(after, n, assigned, limit, total) ==
  /\ after \in [0..total -> [1..n -> Nat]]
  /\ after[0] = assigned
  /\ \A m \in 1..total : after[m] = Turn(after[m - 1], limit, total)
  /\ \A m \in 0..total : Total(after[m]) <= total
  /\ Distribute(assigned, limit, total) = after[total]

LEMMA DistributeIsRecursion ==
  ASSUME NEW n \in Nat, NEW assigned \in [1..n -> Nat], NEW limit \in [1..n -> Nat],
         NEW total \in Nat, Total(assigned) <= total
  PROVE  \E after : IsDistribution(after, n, assigned, limit, total)
<1> DEFINE Body(f) == [m \in 0..total |->
                         IF m = 0 THEN assigned ELSE Turn(f[m - 1], limit, total)]
           distributed == CHOOSE f : f = Body(f)
           X == {a \in [1..n -> Nat] : Total(a) <= total}
           step == [p \in (1..total) \X X |-> Turn(p[2], limit, total)]
<1>2. ASSUME NEW a \in X PROVE Turn(a, limit, total) \in X
  <2>1. GivesAll(Turn(a, limit, total), n, a, limit, total)
    BY TurnFacts
  <2>2. QED BY <2>1 DEF GivesAll
<1>3. /\ step \in [(1..total) \X X -> X]
      /\ \A m \in 1..total, a \in X : step[<<m, a>>] = Turn(a, limit, total)
  BY <1>2
<1>4. assigned \in X
  OBVIOUS
<1> HIDE DEF step, X
<1>5. PICK f \in [0..total -> X] : IsRecursion(f, total, assigned, step)
  BY <1>3, <1>4, RecursionExists
<1>6. f[0] = assigned /\ \A m \in 1..total : f[m] = Turn(f[m - 1], limit, total)
  <2>1. ASSUME NEW m \in 1..total PROVE f[m] = Turn(f[m - 1], limit, total)
    <3>1. f[m - 1] \in X
      OBVIOUS
    <3>2. QED BY <1>3, <1>5, <3>1 DEF IsRecursion
  <2>2. QED BY <1>5, <2>1 DEF IsRecursion
<1>7. f = Body(f)
  <2>1. \A m \in 0..total : m = 0 \/ m \in 1..total
    OBVIOUS
  <2>2. \A m \in 0..total : f[m] = Body(f)[m]
    BY <1>6, <2>1
  <2>3. QED BY <2>2
<1> HIDE DEF Body
<1>8. distributed = Body(distributed)
  BY <1>7
<1>9. Distribute(assigned, limit, total) = distributed[total]
  BY DEF Distribute, Body
<1> HIDE DEF distributed
<1>10. distributed = [m \in 0..total |->
                        IF m = 0 THEN assigned ELSE Turn(distributed[m - 1], limit, total)]
  BY <1>8 DEF Body
<1>11. /\ distributed[0] = assigned
       /\ \A m \in 1..total : distributed[m] = Turn(distributed[m - 1], limit, total)
  <2>1. 0 \in 0..total /\ \A m \in 1..total : m \in 0..total /\ m # 0
    OBVIOUS
  <2>2. QED BY <1>10, <2>1
<1> DEFINE S == {k \in 0..total : distributed[k] \in X}
<1>12. 0 \in S
  BY <1>4, <1>11
<1>13. ASSUME NEW k \in 0..(total - 1), k \in S PROVE k + 1 \in S
  <2>1. k + 1 \in 1..total /\ (k + 1) - 1 = k /\ k + 1 \in 0..total
    OBVIOUS
  <2>2. distributed[k + 1] = Turn(distributed[k], limit, total) /\ distributed[k] \in X
    BY <1>11, <1>13, <2>1
  <2>3. QED BY <1>2, <2>1, <2>2
<1> HIDE DEF S
<1>14. \A k \in 0..total : k \in S
  BY <1>12, <1>13, InductionTo
<1>15. distributed \in [0..total -> X]
  <2>1. \A k \in 0..total : distributed[k] \in X
    BY <1>14 DEF S
  <2>2. DOMAIN distributed = 0..total /\ distributed = [k \in 0..total |-> distributed[k]]
    BY <1>10
  <2>3. QED BY <2>1, <2>2
<1>16. distributed \in [0..total -> [1..n -> Nat]] /\ \A m \in 0..total : Total(distributed[m]) <= total
  BY <1>15 DEF X
<1>17. IsDistribution(distributed, n, assigned, limit, total)
  BY <1>9, <1>11, <1>16 DEF IsDistribution
<1>18. QED BY <1>17
\* A turn of a group, in numbers: what it had at first, before and after, and its limit.
LEMMA AfterOneTurn ==
  ASSUME NEW m \in Nat, NEW first \in Nat, NEW before \in Nat, NEW after \in Nat,
         NEW limit \in Nat, before <= first + m, before < limit => before = first + m,
         after = before \/ (after = before + 1 /\ before < limit)
  PROVE  /\ after <= first + (m + 1)
         /\ after < limit => after >= first + m
         /\ (before < limit => after = before + 1) => (after < limit => after = first + (m + 1))
  OBVIOUS

LEMMA AtMostOneMore ==
  ASSUME NEW m \in Nat, NEW a \in Nat, NEW b \in Nat, NEW c \in Nat, NEW d \in Nat,
         c <= a + (m + 1), d >= b + m
  PROVE  c - a <= d - b + 1
  OBVIOUS

\* The distribution: nobody has less than before or, as far as it is given, more than its
\* limit; it goes on as long as there are workers and somebody may have one; it is even.
Shares(c, n, a, limit, total) ==
  /\ c \in [1..n -> Nat] /\ Total(c) <= total
  /\ \A g \in 1..n : a[g] <= c[g] /\ (c[g] <= limit[g] \/ c[g] = a[g])
  /\ \A g, h \in 1..n : c[h] < limit[h] => c[g] - a[g] <= c[h] - a[h] + 1
  /\ Total(c) = total \/ \A g \in 1..n : c[g] >= limit[g]

LEMMA DistributeFacts ==
  ASSUME NEW n \in Nat, NEW a \in [1..n -> Nat], NEW limit \in [1..n -> Nat],
         NEW total \in Nat, Total(a) <= total
  PROVE  Shares(Distribute(a, limit, total), n, a, limit, total)
<1>0. PICK after : IsDistribution(after, n, a, limit, total)
  BY DistributeIsRecursion
<1>1. /\ after \in [0..total -> [1..n -> Nat]]
      /\ after[0] = a
      /\ \A m \in 1..total : after[m] = Turn(after[m - 1], limit, total)
      /\ \A m \in 0..total : Total(after[m]) <= total
      /\ Distribute(a, limit, total) = after[total]
  BY <1>0 DEF IsDistribution
<1> DEFINE Within(b) == \A g \in 1..n : a[g] <= b[g] /\ (b[g] <= limit[g] \/ b[g] = a[g])
           Even(b) == \A g, h \in 1..n : b[h] < limit[h] => b[g] - a[g] <= b[h] - a[h] + 1
           Rounds(b, m) == Total(b) < total =>
                             \A g \in 1..n : /\ b[g] <= a[g] + m
                                             /\ b[g] < limit[g] => b[g] = a[g] + m
           Full(b) == \A g \in 1..n : b[g] >= limit[g]
           Goes(b, m) == Total(b) = total \/ Full(b) \/ Total(b) >= m
           S == {m \in 0..total : /\ Within(after[m]) /\ Even(after[m])
                                  /\ Rounds(after[m], m) /\ Goes(after[m], m)}
<1>2. 0 \in S
  <2>1. Total(a) \in Nat
    BY TotalType
  <2>2. Within(a) /\ Even(a) /\ Rounds(a, 0) /\ Goes(a, 0)
    BY <2>1
  <2>3. after[0] = a /\ 0 \in 0..total
    BY <1>1
  <2>4. QED BY <2>2, <2>3
<1>3. ASSUME NEW m \in 0..(total - 1), m \in S PROVE m + 1 \in S
  <2> DEFINE b == after[m]
             c == after[m + 1]
  <2>1. m + 1 \in 1..total /\ (m + 1) - 1 = m /\ m + 1 \in 0..total /\ m \in 0..total /\ m \in Nat
    OBVIOUS
  <2>2. Within(b) /\ Even(b) /\ Rounds(b, m) /\ Goes(b, m)
    BY <1>3
  <2>3. b \in [1..n -> Nat] /\ Total(b) <= total /\ c = Turn(b, limit, total)
    BY <1>1, <2>1
  <2> HIDE DEF b, c
  <2>4. GivesAll(Turn(b, limit, total), n, b, limit, total)
    BY <2>3, TurnFacts
  <2>5. /\ c \in [1..n -> Nat] /\ Total(c) <= total
        /\ \A g \in 1..n : c[g] = b[g] \/ (c[g] = b[g] + 1 /\ b[g] < limit[g])
        /\ Total(c) < total => \A g \in 1..n : b[g] < limit[g] => c[g] = b[g] + 1
        /\ Total(b) = total => c = b
        /\ c = b \/ Total(c) >= Total(b) + 1
    BY <2>3, <2>4 DEF GivesAll
  <2>6. Total(b) \in Nat /\ Total(c) \in Nat
    BY <2>3, <2>5, TotalType
  <2>7. \A g \in 1..n : a[g] \in Nat /\ b[g] \in Nat /\ c[g] \in Nat /\ limit[g] \in Nat
    BY <2>3, <2>5
  <2>8. Within(c)
    <3> SUFFICES ASSUME NEW g \in 1..n
                 PROVE  a[g] <= c[g] /\ (c[g] <= limit[g] \/ c[g] = a[g])
      OBVIOUS
    <3>1. a[g] <= b[g] /\ (b[g] <= limit[g] \/ b[g] = a[g])
      BY <2>2
    <3>2. c[g] = b[g] \/ (c[g] = b[g] + 1 /\ b[g] < limit[g])
      BY <2>5
    <3>3. a[g] \in Nat /\ b[g] \in Nat /\ c[g] \in Nat /\ limit[g] \in Nat
      BY <2>7
    <3>4. QED BY <3>1, <3>2, <3>3, SMTT(30)
  <2>9. Even(c)
    <3>1. CASE Total(b) = total
      BY <2>2, <2>5, <3>1
    <3>2. CASE Total(b) # total
      <4>1. Total(b) < total
        BY <2>3, <2>6, <3>2
      <4>2. \A g \in 1..n : b[g] <= a[g] + m /\ (b[g] < limit[g] => b[g] = a[g] + m)
        BY <2>2, <4>1
      <4>3. ASSUME NEW g \in 1..n
            PROVE  c[g] <= a[g] + (m + 1) /\ (c[g] < limit[g] => c[g] >= a[g] + m)
        <5>1. b[g] <= a[g] + m /\ (b[g] < limit[g] => b[g] = a[g] + m)
          BY <4>2
        <5>2. c[g] = b[g] \/ (c[g] = b[g] + 1 /\ b[g] < limit[g])
          BY <2>5
        <5>3. a[g] \in Nat /\ b[g] \in Nat /\ c[g] \in Nat /\ limit[g] \in Nat
          BY <2>7
        <5>4. QED BY <2>1, <5>1, <5>2, <5>3, AfterOneTurn
      <4>5. ASSUME NEW g \in 1..n, NEW h \in 1..n, c[h] < limit[h]
            PROVE  c[g] - a[g] <= c[h] - a[h] + 1
        <5>1. c[g] <= a[g] + (m + 1) /\ c[h] >= a[h] + m
          BY <4>3, <4>5
        <5>2. a[g] \in Nat /\ c[g] \in Nat /\ a[h] \in Nat /\ c[h] \in Nat
          BY <2>7
        <5>3. QED BY <2>1, <5>1, <5>2, AtMostOneMore
      <4>6. QED BY <4>5
    <3>3. QED BY <3>1, <3>2
  <2>10. Rounds(c, m + 1)
    <3>1. SUFFICES ASSUME Total(c) < total, NEW g \in 1..n
                   PROVE  /\ c[g] <= a[g] + (m + 1)
                          /\ c[g] < limit[g] => c[g] = a[g] + (m + 1)
      OBVIOUS
    <3>2. Total(b) < total
      BY <2>3, <2>5, <2>6, <3>1
    <3>3. b[g] <= a[g] + m /\ (b[g] < limit[g] => b[g] = a[g] + m)
      BY <2>2, <3>2
    <3>4. c[g] = b[g] \/ (c[g] = b[g] + 1 /\ b[g] < limit[g])
      BY <2>5
    <3>5. b[g] < limit[g] => c[g] = b[g] + 1
      BY <2>5, <3>1
    <3>6. a[g] \in Nat /\ b[g] \in Nat /\ c[g] \in Nat /\ limit[g] \in Nat
      BY <2>7
    <3>7. QED BY <2>1, <3>3, <3>4, <3>5, <3>6, AfterOneTurn
  <2>11. Goes(c, m + 1)
    <3>1. CASE Total(b) = total
      BY <2>5, <3>1
    <3>2. CASE Full(b)
      <4>1. ASSUME NEW g \in 1..n PROVE c[g] >= limit[g]
        <5>1. b[g] >= limit[g] /\ b[g] \in Nat /\ limit[g] \in Nat
          BY <2>7, <3>2
        <5>2. c[g] = b[g]
          BY <2>5, <5>1, SMTT(30)
        <5>3. QED BY <5>1, <5>2
      <4>2. QED BY <4>1
    <3>3. CASE Total(b) # total /\ ~Full(b)
      <4>1. Total(b) >= m
        BY <2>2, <3>3
      <4>2. CASE c = b
        <5>1. ~(Total(c) < total)
          <6>1. PICK g \in 1..n : ~(b[g] >= limit[g])
            BY <3>3
          <6>2. b[g] \in Nat /\ limit[g] \in Nat
            BY <2>7
          <6>3. b[g] < limit[g] /\ c[g] # b[g] + 1
            BY <4>2, <6>1, <6>2
          <6>4. QED BY <2>5, <6>3
        <5>2. QED BY <2>5, <2>6, <5>1
      <4>3. CASE c # b
        <5>1. Total(c) >= Total(b) + 1
          BY <2>5, <4>3
        <5>2. Total(c) >= m + 1
          BY <2>1, <2>6, <4>1, <5>1
        <5>3. QED BY <5>2
      <4>4. QED BY <4>2, <4>3
    <3>4. QED BY <3>1, <3>2, <3>3
  <2>12. QED BY <2>1, <2>8, <2>9, <2>10, <2>11 DEF c
<1> HIDE DEF S
<1>4. \A m \in 0..total : m \in S
  BY <1>2, <1>3, InductionTo
<1>5. total \in S /\ total \in 0..total
  BY <1>4
<1> DEFINE c == after[total]
<1>6. Within(c) /\ Even(c) /\ Goes(c, total)
  BY <1>5 DEF S
<1>7. c \in [1..n -> Nat] /\ Total(c) <= total
  BY <1>1, <1>5
<1> HIDE DEF c
<1>8. Total(c) \in Nat
  BY <1>7, TotalType
<1>9. Shares(c, n, a, limit, total)
  BY <1>6, <1>7, <1>8 DEF Shares
<1>10. QED BY <1>1, <1>9 DEF c

-----------------------------------------------------------------------------
(* Workers and limits. *)

LEMMA Groups ==
  /\ Len(TaskMax) \in Nat \ {0} /\ Group = 1..Len(TaskMax)
<1>1. TaskMax \in Seq([TaskNr -> Nat]) /\ TaskMax # <<>>
  BY StartAssumption
<1>2. Len(TaskMax) \in Nat /\ DOMAIN TaskMax = 1..Len(TaskMax)
  BY <1>1, LenProperties
<1>3. Len(TaskMax) # 0
  BY <1>1, EmptySeq
<1>4. QED BY <1>2, <1>3 DEF Group

\* The sum of the minima is a size_t for the arguments AssignmentWithinLimits looks at.
MinimaFit ==
  /\ MaxLimit \in Nat /\ MaxTotal \in Nat /\ SizeT \in Nat \ {0}
  /\ Len(TaskMax) * MaxLimit < SizeT

\* Whatever the limits and the number of threads, AssignThreadsToTasks keeps to the limits,
\* leaves no thread over while a group could take one and shares evenly.
THEOREM AssignmentIsWithinLimits ==
  ASSUME MinimaFit
  PROVE  Spec => []AssignmentWithinLimits
<1> DEFINE n == Len(TaskMax)
<1>1. n \in Nat /\ Group = 1..n
  BY Groups
<1> HIDE DEF n
<1>2. ASSUME NEW min \in [Group -> 0..MaxLimit],
             NEW max \in [Group -> (0..MaxLimit) \cup {Unlimited}], NEW total \in 0..MaxTotal,
             ~Refused(min, max, total)
      PROVE  LET a == AssignThreadsToTasks(min, max, total)
                 full == {g \in Group : a[g] >= max[g]}
             IN  /\ \A g \in Group : min[g] <= a[g] /\ (a[g] <= max[g] \/ a[g] = min[g])
                 /\ Total(a) = total \/ (Total(a) < total /\ full = Group)
                 /\ \A g \in Group, h \in Group \ full :
                      a[g] > min[g] => a[g] - min[g] <= a[h] - min[h] + 1
  <2> DEFINE zeros == [g \in 1..n |-> 0]
             least == Distribute(zeros, min, total)
             a == Distribute(least, max, total)
  <2>1. MaxLimit \in Nat /\ MaxTotal \in Nat /\ SizeT \in Nat \ {0} /\ n * MaxLimit < SizeT
    BY DEF MinimaFit, n
  <2>2. min \in [1..n -> Nat] /\ min \in [1..n -> 0..MaxLimit] /\ total \in Nat
    BY <1>1, <2>1
  <2>3. max \in [1..n -> Nat]
    <3>1. SizeT - 1 \in Nat /\ (0..MaxLimit) \cup {SizeT - 1} \in SUBSET Nat
      BY <2>1
    <3>2. QED BY <1>1, <3>1 DEF Unlimited
  <2>4. Total(min) <= n * MaxLimit /\ Total(min) \in Nat
    BY <1>1, <2>1, <2>2, SumOfBounded, TotalType
  <2>5. n * MaxLimit \in Nat
    BY <1>1, <2>1
  <2>6. Total(min) % SizeT = Total(min)
    <3>1. Total(min) < SizeT
      BY <2>1, <2>4, <2>5
    <3>2. QED BY <2>1, <2>4, <3>1
  <2>7. Total(min) <= total
    <3>1. ~(total < Total(min) % SizeT)
      BY <1>2 DEF Refused
    <3>2. QED BY <2>2, <2>4, <2>6, <3>1
  <2>8. zeros \in [1..n -> Nat] /\ Total(zeros) = 0 /\ \A g \in 1..n : zeros[g] = 0
    BY <1>1, SumOfZeros
  <2>9. AssignThreadsToTasks(min, max, total) = a
    <3>1. DOMAIN min = 1..n
      BY <2>2
    <3>2. QED BY <3>1 DEF AssignThreadsToTasks
  <2> HIDE DEF zeros, least, a
  <2>10. Shares(least, n, zeros, min, total)
    <3>1. Total(zeros) <= total
      BY <2>2, <2>8
    <3>2. Shares(Distribute(zeros, min, total), n, zeros, min, total)
      BY <1>1, <2>2, <2>8, <3>1, DistributeFacts
    <3>3. QED BY <3>2 DEF least
  <2>11. /\ least \in [1..n -> Nat] /\ Total(least) <= total
         /\ \A g \in 1..n : least[g] <= min[g]
         /\ Total(least) = total \/ \A g \in 1..n : least[g] >= min[g]
    <3>1. /\ least \in [1..n -> Nat] /\ Total(least) <= total
          /\ \A g \in 1..n : least[g] <= min[g] \/ least[g] = zeros[g]
          /\ Total(least) = total \/ \A g \in 1..n : least[g] >= min[g]
      BY <2>10 DEF Shares
    <3>2. \A g \in 1..n : min[g] \in Nat /\ zeros[g] = 0
      BY <2>2, <2>8
    <3>3. QED BY <3>1, <3>2
  <2>12. least = min
    <3>1. \A g \in 1..n : least[g] \in Nat /\ min[g] \in Nat
      BY <2>2, <2>11
    <3>2. ASSUME NEW g \in 1..n PROVE least[g] = min[g]
      <4>1. CASE Total(least) = total
        <5>1. Total(least) < Total(min) => FALSE
          BY <2>2, <2>4, <2>7, <4>1
        <5>2. least[g] < min[g] => Total(least) < Total(min)
          BY <1>1, <2>2, <2>11, SumOfLess
        <5>3. QED BY <2>11, <3>1, <5>1, <5>2
      <4>2. CASE Total(least) # total
        BY <2>11, <3>1, <4>2
      <4>3. QED BY <4>1, <4>2
    <3>3. QED BY <1>1, <2>2, <2>11, <3>2, SameNumbers
  <2>13. Shares(a, n, min, max, total)
    <3>1. Shares(Distribute(min, max, total), n, min, max, total)
      BY <1>1, <2>2, <2>3, <2>7, DistributeFacts
    <3>2. QED BY <2>12, <3>1 DEF a
  <2>14. /\ a \in [1..n -> Nat] /\ Total(a) <= total
         /\ \A g \in 1..n : min[g] <= a[g] /\ (a[g] <= max[g] \/ a[g] = min[g])
         /\ \A g, h \in 1..n : a[h] < max[h] => a[g] - min[g] <= a[h] - min[h] + 1
         /\ Total(a) = total \/ \A g \in 1..n : a[g] >= max[g]
    BY <2>13 DEF Shares
  <2>15. Total(a) \in Nat
    BY <1>1, <2>14, TotalType
  <2>16. Total(a) = total \/ (Total(a) < total /\ {g \in Group : a[g] >= max[g]} = Group)
    BY <1>1, <2>2, <2>14, <2>15
  <2>17. ASSUME NEW g \in Group, NEW h \in Group \ {k \in Group : a[k] >= max[k]}
         PROVE  a[g] - min[g] <= a[h] - min[h] + 1
    <3>1. a[h] < max[h]
      <4>1. a[h] \in Nat /\ max[h] \in Nat /\ ~(a[h] >= max[h])
        BY <1>1, <2>3, <2>14, <2>17
      <4>2. QED BY <4>1
    <3>2. QED BY <1>1, <2>14, <3>1
  <2>18. QED BY <1>1, <2>9, <2>14, <2>16, <2>17
<1>3. AssignmentWithinLimits
  BY <1>2 DEF AssignmentWithinLimits
<1>4. QED BY <1>3, PTL
-----------------------------------------------------------------------------
(* The ranks of the groups. *)

LEMMA GreatestOfTasks ==
  ASSUME NEW n \in Nat, NEW f \in [1..n -> Nat]
  PROVE  Max({0} \cup {f[t] : t \in 1..n}) \in Nat
<1> DEFINE upTo(k) == {0} \cup {f[t] : t \in 1..k}
           S == {k \in 0..n : \E x \in upTo(k) : \A y \in upTo(k) : x >= y}
<1>1. \A k \in 0..n : upTo(k) \in SUBSET Nat
  OBVIOUS
<1>2. 0 \in S
  <2>1. upTo(0) = {0}
    OBVIOUS
  <2> HIDE DEF upTo
  <2>2. 0 \in upTo(0) /\ \A y \in upTo(0) : 0 >= y
    BY <2>1
  <2>3. QED BY <2>2
<1>3. ASSUME NEW k \in 0..(n - 1), k \in S PROVE k + 1 \in S
  <2>1. k + 1 \in 1..n /\ k \in 0..n /\ k + 1 \in 0..n /\ k + 1 \in 1..(k + 1)
    OBVIOUS
  <2>2. upTo(k + 1) = upTo(k) \cup {f[k + 1]} /\ f[k + 1] \in Nat
    <3>1. \A t \in 1..(k + 1) : t \in 1..k \/ t = k + 1
      OBVIOUS
    <3>2. \A t \in 1..k : t \in 1..(k + 1)
      OBVIOUS
    <3>3. QED BY <2>1, <3>1, <3>2
  <2>3. upTo(k) \in SUBSET Nat
    BY <1>1, <2>1
  <2>4. PICK x \in upTo(k) : \A y \in upTo(k) : x >= y
    BY <1>3
  <2> HIDE DEF upTo
  <2>5. CASE f[k + 1] >= x
    <3>1. \A y \in upTo(k + 1) : f[k + 1] >= y
      BY <2>2, <2>3, <2>4, <2>5
    <3>2. QED BY <2>1, <2>2, <3>1
  <2>6. CASE ~(f[k + 1] >= x)
    <3>1. \A y \in upTo(k + 1) : x >= y
      BY <2>2, <2>3, <2>4, <2>6
    <3>2. QED BY <2>1, <2>2, <3>1
  <2>7. QED BY <2>5, <2>6
<1> HIDE DEF S
<1>4. \A k \in 0..n : k \in S
  BY <1>2, <1>3, InductionTo
<1>5. n \in S
  BY <1>4
<1>6. PICK x \in upTo(n) : \A y \in upTo(n) : x >= y
  BY <1>5 DEF S
<1>7. upTo(n) \in SUBSET Nat
  BY <1>1
<1> HIDE DEF upTo
<1>8. Max(upTo(n)) \in upTo(n)
  BY <1>6 DEF Max
<1>9. QED BY <1>7, <1>8 DEF upTo

LEMMA LimitsOfGroups ==
  minOfGroups \in [Group -> Nat] /\ maxOfGroups \in [Group -> Nat]
<1>1. /\ NumberOfTasks \in Nat /\ TaskNr = 1..NumberOfTasks
      /\ TaskMin \in [Group -> [TaskNr -> Nat]] /\ TaskMax \in Seq([TaskNr -> Nat])
  BY StartAssumption DEF TaskNr
<1>2. ASSUME NEW g \in Group
      PROVE  TaskMin[g] \in [1..NumberOfTasks -> Nat] /\ TaskMax[g] \in [1..NumberOfTasks -> Nat]
  <2>1. TaskMax[g] \in [TaskNr -> Nat]
    BY <1>1, Groups, ElementOfSeq
  <2>2. QED BY <1>1, <2>1
<1>3. \A g \in Group : MinimalNumberOfWorker(g) \in Nat /\ MaximalNumberOfWorker(g) \in Nat
  <2> TAKE g \in Group
  <2>1. /\ Max({0} \cup {TaskMin[g][t] : t \in 1..NumberOfTasks}) \in Nat
        /\ Max({0} \cup {TaskMax[g][t] : t \in 1..NumberOfTasks}) \in Nat
    BY <1>1, <1>2, GreatestOfTasks
  <2>2. QED BY <1>1, <2>1 DEF MinimalNumberOfWorker, MaximalNumberOfWorker
<1>4. QED BY <1>3 DEF minOfGroups, maxOfGroups

LEMMA ArrangementType ==
  /\ groupArrangement \in [1..Len(TaskMax) -> Nat]
  /\ SystemThreadCount \in Nat /\ Total(groupArrangement) = SystemThreadCount
<1> DEFINE n == Len(TaskMax)
           zeros == [g \in 1..n |-> 0]
           least == Distribute(zeros, minOfGroups, SystemThreadCount)
<1>1. n \in Nat /\ Group = 1..n
  BY Groups
<1>2. SystemThreadCount \in Nat /\ Total(groupArrangement) = SystemThreadCount
  BY StartAssumption
<1> HIDE DEF n
<1>3. minOfGroups \in [1..n -> Nat] /\ maxOfGroups \in [1..n -> Nat]
  BY <1>1, LimitsOfGroups
<1>4. zeros \in [1..n -> Nat] /\ Total(zeros) <= SystemThreadCount
  BY <1>1, <1>2, SumOfZeros
<1>5. DOMAIN minOfGroups = 1..n
  BY <1>3
<1>6. groupArrangement = Distribute(least, maxOfGroups, SystemThreadCount)
  BY <1>5 DEF groupArrangement, AssignThreadsToTasks
<1> HIDE DEF zeros
<1>7. Shares(least, n, zeros, minOfGroups, SystemThreadCount)
  BY <1>1, <1>2, <1>3, <1>4, DistributeFacts
<1>8. least \in [1..n -> Nat] /\ Total(least) <= SystemThreadCount
  BY <1>7 DEF Shares
<1> HIDE DEF least
<1>9. Shares(groupArrangement, n, least, maxOfGroups, SystemThreadCount)
  BY <1>1, <1>2, <1>3, <1>6, <1>8, DistributeFacts
<1>10. groupArrangement \in [1..n -> Nat]
  BY <1>9 DEF Shares
<1>11. QED BY <1>2, <1>10 DEF n

\* Each rank works for one group, and only for that one.
LEMMA RanksPartition ==
  ASSUME NEW w \in Worker
  PROVE  /\ GroupOf(w) \in Group
         /\ \A g \in Group : w \in RanksOf(g) <=> g = GroupOf(w)
<1> DEFINE n == Len(TaskMax)
           sum == SumUpTo(groupArrangement)
<1>1. n \in Nat /\ Group = 1..n
  BY Groups
<1>2. /\ groupArrangement \in [1..n -> Nat]
      /\ SystemThreadCount \in Nat /\ Total(groupArrangement) = SystemThreadCount
  BY ArrangementType
<1> HIDE DEF n
<1>3. /\ sum \in [0..n -> Nat] /\ sum[0] = 0 /\ sum[n] = SystemThreadCount
      /\ \A g \in 1..n : sum[g] = sum[g - 1] + groupArrangement[g]
  BY <1>1, <1>2, SumFacts
<1>4. \A i, j \in 0..n : i <= j => sum[i] <= sum[j]
  BY <1>1, <1>2, SumAscends
<1>5. w \in 1..SystemThreadCount
  BY DEF Worker
<1>6. \A g \in 1..n : w \in RanksOf(g) <=> sum[g - 1] < w /\ w <= sum[g]
  BY <1>3 DEF RanksOf, tmpProcessID
<1> HIDE DEF sum
<1> DEFINE S == {k \in 0..n : w <= sum[k] => \E g \in 1..k : sum[g - 1] < w /\ w <= sum[g]}
<1>7. 0 \in S
  BY <1>1, <1>3, <1>5
<1>8. ASSUME NEW k \in 0..(n - 1), k \in S PROVE k + 1 \in S
  <2>1. k + 1 \in 1..(k + 1) /\ (k + 1) - 1 = k /\ k + 1 \in 0..n /\ \A g \in 1..k : g \in 1..(k + 1)
    BY <1>1
  <2>2. sum[k] \in Nat /\ w \in Nat
    BY <1>1, <1>3, <1>5
  <2>3. SUFFICES ASSUME w <= sum[k + 1]
                 PROVE  \E g \in 1..(k + 1) : sum[g - 1] < w /\ w <= sum[g]
    BY <2>1
  <2>4. CASE w <= sum[k]
    BY <1>8, <2>1, <2>4
  <2>5. CASE ~(w <= sum[k])
    <3>1. sum[k] < w
      BY <2>2, <2>5
    <3>2. sum[(k + 1) - 1] < w /\ w <= sum[k + 1]
      BY <2>1, <2>3, <3>1
    <3>3. QED BY <2>1, <3>2
  <2>6. QED BY <2>4, <2>5
<1> HIDE DEF S
<1>9. \A k \in 0..n : k \in S
  BY <1>1, <1>7, <1>8, InductionTo
<1>10. n \in S
  BY <1>1, <1>9
<1>11. PICK g \in 1..n : sum[g - 1] < w /\ w <= sum[g]
  BY <1>3, <1>5, <1>10 DEF S
<1>12. ASSUME NEW h \in 1..n, sum[h - 1] < w, w <= sum[h] PROVE h = g
  <2>1. /\ g \in 0..n /\ h \in 0..n /\ g - 1 \in 0..n /\ h - 1 \in 0..n
        /\ (h < g => h <= g - 1) /\ (g < h => g <= h - 1)
    BY <1>1
  <2>2. sum[g] \in Nat /\ sum[h] \in Nat /\ sum[g - 1] \in Nat /\ sum[h - 1] \in Nat /\ w \in Nat
    BY <1>3, <1>5, <2>1
  <2>3. ~(h < g)
    BY <1>4, <1>11, <1>12, <2>1, <2>2
  <2>4. ~(g < h)
    BY <1>4, <1>11, <1>12, <2>1, <2>2
  <2>5. QED BY <1>1, <2>3, <2>4
<1>13. GroupOf(w) = g
  BY <1>1, <1>6, <1>11, <1>12 DEF GroupOf
<1>14. QED BY <1>1, <1>6, <1>11, <1>12, <1>13
-----------------------------------------------------------------------------
(* The inductive invariant: where a worker can be, and what can be on its    *)
(* way, for each place the root can be at.                                   *)

\* the messages of a cycle are received, or not sent
Quiet(w) == ready[w] = 0 /\ finish[w] = 0 /\ request[w] = "none" /\ gathered[w] = <<>>

Created(w) == Quiet(w) /\ worker[w] = "create" /\ scattered[w] = <<>>
AtRest(w) == Quiet(w) /\ worker[w] = "receive" /\ scattered[w] = <<>>

\* what a worker makes of the data prepared for it
Worked(w) ==
  [t \in TaskNr |-> IF t \in TasksOf(w) THEN [cycle |-> cycle, worked |-> TRUE] ELSE NoData]

Waiting(w) ==
  /\ Quiet(w) /\ worker[w] = "receive"
  /\ scattered[w] = <<[mIsStop |-> FALSE, mDataVec |-> Prepared(w)]>>
Busy(w) ==
  /\ Quiet(w) /\ scattered[w] = <<>>
  /\ \/ worker[w] = "necessary" /\ groupData[w] = Prepared(w)
     \/ worker[w] = "setReady" /\ groupData[w] = Worked(w)
Through(w) ==
  /\ w \in BehindNecessaryWork /\ groupData[w] = Worked(w)
  /\ scattered[w] = <<>> /\ gathered[w] = <<>>

\* before and after the root asked it to finish
Unasked(w) == Through(w) /\ ready[w] \in {0, 1} /\ finish[w] = 0 /\ request[w] # "complete"
Asked(w) ==
  /\ Through(w) /\ ready[w] = 0
  /\ \/ finish[w] = 1 /\ request[w] # "complete"
     \/ finish[w] = 0 /\ request[w] = "complete"
Answered(w) ==
  /\ ready[w] = 0 /\ finish[w] = 0 /\ request[w] = "none" /\ gathered[w] = <<Worked(w)>>
  /\ worker[w] = "receive" /\ scattered[w] = <<>>

InCycle(w) == Waiting(w) \/ Busy(w) \/ Unasked(w)
AfterCycle(w) == Asked(w) \/ Answered(w)
Stopping(w) ==
  /\ Quiet(w)
  /\ \/ worker[w] = "receive" /\ scattered[w] = <<[mIsStop |-> TRUE, mDataVec |-> NoGroupData]>>
     \/ worker[w] = "exit" /\ scattered[w] = <<>>

WorkerInv(w) ==
  /\ root = "create" => Created(w)
  /\ root = "idle" => AtRest(w)
  /\ root = "scatter" => IF GroupOf(w) < group THEN InCycle(w) ELSE AtRest(w)
  /\ root \in {"sent", "finish"} => InCycle(w)
  /\ root = "finishSent" => AfterCycle(w)
  /\ root = "gather" => IF GroupOf(w) < group THEN AtRest(w) ELSE AfterCycle(w)
  /\ root = "use" => IF GroupOf(w) <= group THEN AtRest(w) ELSE AfterCycle(w)
  /\ root = "stopped" => Stopping(w)

\* the workers whose message of tag 0 the root received
Told == {w \in Worker : w \in BehindNecessaryWork /\ ready[w] = 0}

Counted ==
  /\ root \in {"scatter", "sent"} => Told = {}
  /\ root = "sent" => mReadyRemoteTasks = 0
  /\ root = "finish" => mReadyRemoteTasks = Cardinality(Told)

Place ==
  /\ root \in {"create", "idle", "sent", "finish", "finishSent", "stopped"} => group = 1
  /\ root \notin {"create", "idle", "stopped"} => cycle >= 1

CollectedInv == root = "use" => \A w \in RanksOf(group) : collected[w] = Worked(w)

OptionalLeft == \A w \in Worker : worker[w] = "optional" => uncompleted[w] >= 1

IInv ==
  /\ OptionalLeft
  /\ Place
  /\ \A w \in Worker : WorkerInv(w)
  /\ Counted
  /\ CollectedInv
-----------------------------------------------------------------------------
(* Types. *)

LEMMA DataFacts ==
  ASSUME TypeOK, NEW w \in Worker
  PROVE  /\ NoGroupData \in Data /\ Prepared(w) \in Data /\ Worked(w) \in Data
         /\ TasksOf(w) \in SUBSET TaskNr
<1>1. MaxCycle \in Nat /\ cycle \in 0..MaxCycle /\ 0 \in 0..MaxCycle
  BY StartAssumption DEF TypeOK
<1>2. NoData \in [cycle : 0..MaxCycle, worked : BOOLEAN]
  BY <1>1 DEF NoData
<1>3. /\ [cycle |-> cycle, worked |-> TRUE] \in [cycle : 0..MaxCycle, worked : BOOLEAN]
      /\ [cycle |-> cycle, worked |-> FALSE] \in [cycle : 0..MaxCycle, worked : BOOLEAN]
  BY <1>1
<1>4. NoGroupData \in Data
  BY <1>2 DEF NoGroupData, Data
<1>5. Prepared(w) \in Data
  BY <1>2, <1>3 DEF Prepared, Data
<1>6. Worked(w) \in Data
  BY <1>2, <1>3 DEF Worked, Data
<1>7. QED BY <1>4, <1>5, <1>6 DEF TasksOf

LEMMA NumberOfTasksOf ==
  ASSUME NEW w \in Worker
  PROVE  Cardinality(TasksOf(w)) \in 0..NumberOfTasks
<1>1. NumberOfTasks \in Nat
  BY StartAssumption
<1>2. IsFiniteSet(1..NumberOfTasks) /\ Cardinality(1..NumberOfTasks) = NumberOfTasks
  BY <1>1, FS_Interval
<1>3. TasksOf(w) \in SUBSET (1..NumberOfTasks)
  BY DEF TasksOf, TaskNr
<1>4. IsFiniteSet(TasksOf(w)) /\ Cardinality(TasksOf(w)) <= NumberOfTasks
  BY <1>2, <1>3, FS_Subset
<1>5. Cardinality(TasksOf(w)) \in Nat
  BY <1>4, FS_CardinalityType
<1>6. QED BY <1>1, <1>4, <1>5

TypeInv == TypeOK /\ OptionalLeft

LEMMA TypeInit == Init => TypeInv
<1> SUFFICES ASSUME Init PROVE TypeInv
  OBVIOUS
<1>1. 1 \in Group
  BY Groups
<1>2. MaxCycle \in Nat /\ SystemThreadCount \in Nat /\ NumberOfTasks \in Nat
  BY StartAssumption
<1>3. NoGroupData \in Data
  BY <1>2 DEF NoGroupData, NoData, Data
<1>4. QED BY <1>1, <1>2, <1>3 DEF Init, TypeInv, TypeOK, OptionalLeft

LEMMA NextGroup == \A g \in Group : g < Len(TaskMax) => g + 1 \in Group
  BY Groups

LEMMA FirstGroup == 1 \in Group
  BY Groups

LEMMA HeadAndTail ==
  ASSUME NEW S, NEW s \in Seq(S), s # <<>>
  PROVE  Head(s) \in S /\ Tail(s) \in Seq(S)
  BY HeadTailProperties

Message == [mIsStop : BOOLEAN, mDataVec : Data]

LEMMA AppendType ==
  ASSUME NEW S, NEW s \in Seq(S), NEW e \in S
  PROVE  Append(s, e) \in Seq(S)
  OBVIOUS

LEMMA TypeOfRoot ==
  ASSUME TypeInv,
         \/ CallSend \/ CallReceive \/ StopAllProcesses \/ RootStep \/ WaitFinishSent
  PROVE  TypeInv'
<1> USE DEF TypeInv
<1>0. MaxCycle \in Nat /\ SystemThreadCount \in Nat
  BY StartAssumption
<1>1. CASE CallSend
  <2>1. cycle + 1 \in 0..MaxCycle
    BY <1>0, <1>1 DEF CallSend, TypeOK
  <2>2. QED BY <1>1, <2>1, FirstGroup DEF CallSend, TypeOK, OptionalLeft, workerVars, channels
<1>2. CASE CallReceive
  BY <1>2 DEF CallReceive, TypeOK, OptionalLeft, workerVars, channels
<1>3. CASE StopAllProcesses
  <2> DEFINE stop == [mIsStop |-> TRUE, mDataVec |-> NoGroupData]
  <2>1. stop \in Message
    <3>1. NoGroupData \in Data
      BY <1>0 DEF NoGroupData, NoData, Data
    <3>2. QED BY <3>1 DEF Message
  <2>2. scattered' = [w \in Worker |-> Append(scattered[w], stop)]
    BY <1>3 DEF StopAllProcesses
  <2>3. \A w \in Worker : scattered[w] \in Seq(Message)
    BY DEF TypeOK, Message
  <2> HIDE DEF stop
  <2>4. \A w \in Worker : Append(scattered[w], stop) \in Seq(Message)
    BY <2>1, <2>3, AppendType
  <2>5. scattered' \in [Worker -> Seq(Message)]
    BY <2>2, <2>4
  <2>6. QED BY <1>3, <2>5 DEF StopAllProcesses, TypeOK, OptionalLeft, workerVars, Message
<1>4. CASE RunThreads
  BY <1>4 DEF RunThreads, TypeOK, OptionalLeft, channels
<1>5. CASE SendDataToRemoteTasks
  <2> DEFINE message(w) == [mIsStop |-> FALSE, mDataVec |-> Prepared(w)]
  <2>1. \A w \in Worker : message(w) \in Message
    BY DataFacts DEF Message
  <2>2. scattered' = [w \in Worker |-> IF w \in RanksOf(group) THEN Append(scattered[w], message(w))
                                       ELSE scattered[w]]
    BY <1>5 DEF SendDataToRemoteTasks
  <2>3. \A w \in Worker : scattered[w] \in Seq(Message)
    BY DEF TypeOK, Message
  <2> HIDE DEF message
  <2>4. \A w \in Worker : Append(scattered[w], message(w)) \in Seq(Message)
    BY <2>1, <2>3, AppendType
  <2>5. scattered' \in [Worker -> Seq(Message)]
    BY <2>2, <2>3, <2>4
  <2>6. group' \in Group
    BY <1>5, NextGroup, FirstGroup DEF SendDataToRemoteTasks, TypeOK
  <2>7. root' \in {"scatter", "sent"}
    BY <1>5 DEF SendDataToRemoteTasks
  <2>8. mReadyRemoteTasks' \in 0..SystemThreadCount
    BY <1>0, <1>5 DEF SendDataToRemoteTasks
  <2>9. UNCHANGED <<cycle, collected, worker, groupData, uncompleted, request, gathered, ready, finish>>
    BY <1>5 DEF SendDataToRemoteTasks, workerVars
  <2>10. QED BY <2>5, <2>6, <2>7, <2>8, <2>9 DEF TypeOK, OptionalLeft, Message
<1>6. CASE SendFinish
  <2>1. \A w \in Worker : finish[w] + 1 \in Nat
    BY DEF TypeOK
  <2>2. finish' \in [Worker -> Nat]
    BY <1>6, <2>1 DEF SendFinish
  <2>3. QED BY <1>6, <2>2 DEF SendFinish, TypeOK, OptionalLeft, workerVars
<1>7. ASSUME NEW w \in Worker, ReceiveReady(w) PROVE TypeInv'
  <2>1. ready' \in [Worker -> Nat]
    BY <1>7 DEF ReceiveReady, TypeOK
  <2>2. mReadyRemoteTasks' \in 0..SystemThreadCount
    BY <1>0, <1>7 DEF ReceiveReady, TypeOK
  <2>3. QED BY <1>7, <2>1, <2>2 DEF ReceiveReady, TypeOK, OptionalLeft, workerVars
<1>8. CASE ReceiveDataFromRemoteTasks
  <2>1. NoGroupData \in Data
    BY <1>0 DEF NoGroupData, NoData, Data
  <2>2. \A w \in RanksOf(group) : gathered[w] # <<>>
    BY <1>8 DEF ReceiveDataFromRemoteTasks
  <2>3. \A w \in Worker : gathered[w] \in Seq(Data)
    BY DEF TypeOK
  <2>4. \A w \in Worker : w \in RanksOf(group) => Head(gathered[w]) \in Data /\ Tail(gathered[w]) \in Seq(Data)
    BY <2>2, <2>3, HeadAndTail
  <2>5. collected' \in [Worker -> Data] /\ gathered' \in [Worker -> Seq(Data)]
    BY <1>8, <2>1, <2>3, <2>4 DEF ReceiveDataFromRemoteTasks
  <2>6. QED BY <1>8, <2>5 DEF ReceiveDataFromRemoteTasks, TypeOK, OptionalLeft, workerVars
<1>9. CASE Use
  <2>1. group' \in Group /\ root' \in {"gather", "idle"}
    BY <1>9, NextGroup, FirstGroup DEF Use, TypeOK
  <2>2. QED BY <1>9, <2>1 DEF Use, TypeOK, OptionalLeft, workerVars, channels
<1>10. CASE WaitFinishSent
  BY <1>10 DEF WaitFinishSent, TypeOK, OptionalLeft, workerVars, channels
<1>11. QED BY <1>1, <1>2, <1>3, <1>4, <1>5, <1>6, <1>7, <1>8, <1>9, <1>10 DEF RootStep

LEMMA TypeOfWorker ==
  ASSUME TypeInv, NEW w \in Worker, RunTasks(w) \/ WaitReadySent(w)
  PROVE  TypeInv'
<1> USE DEF TypeInv
<1>1. CASE ReceiveDataFromRoot(w)
  <2>1. scattered[w] \in Seq([mIsStop : BOOLEAN, mDataVec : Data]) /\ scattered[w] # <<>>
    BY <1>1 DEF ReceiveDataFromRoot, TypeOK
  <2>2. /\ Head(scattered[w]) \in [mIsStop : BOOLEAN, mDataVec : Data]
        /\ Tail(scattered[w]) \in Seq([mIsStop : BOOLEAN, mDataVec : Data])
    BY <2>1, HeadAndTail
  <2>3. Head(scattered[w]).mDataVec \in Data
    BY <2>2
  <2>4. scattered' \in [Worker -> Seq([mIsStop : BOOLEAN, mDataVec : Data])] /\ groupData' \in [Worker -> Data]
    BY <1>1, <2>2, <2>3 DEF ReceiveDataFromRoot, TypeOK
  <2>5. QED BY <1>1, <2>4 DEF ReceiveDataFromRoot, Goto, TypeOK, OptionalLeft, rootVars
<1>2. CASE NecessaryWork(w)
  <2>1. Cardinality(TasksOf(w)) \in 0..NumberOfTasks
    BY NumberOfTasksOf
  <2>2. groupData[w] \in Data
    BY DEF TypeOK
  <2>3. [t \in TaskNr |-> IF t \in TasksOf(w) THEN [groupData[w][t] EXCEPT !.worked = TRUE]
                          ELSE groupData[w][t]] \in Data
    BY <2>2 DEF Data
  <2>4. groupData' \in [Worker -> Data]
    BY <1>2, <2>3 DEF NecessaryWork, TypeOK
  <2>5. QED BY <1>2, <2>1, <2>4 DEF NecessaryWork, Goto, TypeOK, OptionalLeft, rootVars, channels
<1>3. CASE SetReady(w)
  <2>1. ready' \in [Worker -> Nat]
    BY <1>3 DEF SetReady, TypeOK
  <2>2. QED BY <1>3, <2>1 DEF SetReady, Goto, TypeOK, OptionalLeft, rootVars
<1>4. CASE IsCycleFinished(w)
  <2>1. /\ finish' \in {finish, [finish EXCEPT ![w] = @ - 1]}
        /\ finish' # finish => finish[w] > 0
    BY <1>4 DEF IsCycleFinished
  <2>2. finish' \in [Worker -> Nat]
    <3>1. finish \in [Worker -> Nat] /\ finish[w] \in Nat
      BY DEF TypeOK
    <3>2. CASE finish' = finish
      BY <3>1, <3>2
    <3>3. CASE finish' # finish
      <4>1. finish[w] - 1 \in Nat /\ finish' = [finish EXCEPT ![w] = @ - 1]
        BY <2>1, <3>1, <3>3
      <4>2. QED BY <3>1, <4>1
    <3>4. QED BY <3>2, <3>3
  <2>3. request' \in [Worker -> {"none", "pending", "complete"}]
    BY <1>4 DEF IsCycleFinished, TypeOK
  <2>4. /\ worker' \in {[worker EXCEPT ![w] = "send"], [worker EXCEPT ![w] = "optional"]}
        /\ worker' = [worker EXCEPT ![w] = "optional"] => uncompleted[w] # 0
    <3>1. PICK finished \in BOOLEAN :
            worker' = [worker EXCEPT ![w] =
                        IF finished \/ uncompleted[w] = 0 THEN "send" ELSE "optional"]
      BY <1>4 DEF IsCycleFinished
    <3>2. [worker EXCEPT ![w] = "send"] # [worker EXCEPT ![w] = "optional"]
      BY DEF TypeOK
    <3>3. QED BY <3>1, <3>2
  <2>5. /\ UNCHANGED <<root, group, cycle, mReadyRemoteTasks, collected, groupData, uncompleted>>
        /\ UNCHANGED <<scattered, gathered, ready>>
    BY <1>4 DEF IsCycleFinished, rootVars
  <2>6. TypeOK'
    BY <2>2, <2>3, <2>4, <2>5 DEF TypeOK
  <2>7. uncompleted[w] \in Nat
    BY StartAssumption DEF TypeOK
  <2>8. OptionalLeft'
    <3>1. SUFFICES ASSUME NEW v \in Worker, worker'[v] = "optional" PROVE uncompleted[v] >= 1
      BY <2>5 DEF OptionalLeft
    <3>2. worker \in [Worker -> {"create", "receive", "necessary", "setReady", "readySent",
                                 "finished?", "optional", "send", "exit"}]
      BY DEF TypeOK
    <3>3. CASE v = w
      <4>1. uncompleted[w] # 0
        BY <2>4, <3>1, <3>2, <3>3
      <4>2. QED BY <2>7, <3>3, <4>1
    <3>4. CASE v # w
      <4>1. worker[v] = "optional"
        BY <2>4, <3>1, <3>2, <3>4
      <4>2. QED BY <4>1 DEF OptionalLeft
    <3>5. QED BY <3>3, <3>4
  <2>9. QED BY <2>6, <2>8
<1>5. CASE SendDataToRoot(w)
  <2>1. finish' \in [Worker -> Nat]
    BY <1>5 DEF SendDataToRoot, TypeOK
  <2>2. gathered[w] \in Seq(Data) /\ groupData[w] \in Data
    BY DEF TypeOK
  <2>3. Append(gathered[w], groupData[w]) \in Seq(Data)
    BY <2>2
  <2>4. gathered' \in [Worker -> Seq(Data)]
    BY <1>5, <2>3 DEF SendDataToRoot, TypeOK
  <2>5. 0 \in 0..NumberOfTasks
    BY StartAssumption
  <2>6. QED BY <1>5, <2>1, <2>4, <2>5 DEF SendDataToRoot, Goto, TypeOK, OptionalLeft, rootVars
<1>6. ASSUME NEW isCompleted \in BOOLEAN, OptionalWork(w, isCompleted) PROVE TypeInv'
  <2>1. uncompleted[w] \in 0..NumberOfTasks /\ uncompleted[w] >= 1
    BY <1>6 DEF OptionalWork, Goto, TypeOK, OptionalLeft
  <2>2. uncompleted[w] - 1 \in 0..NumberOfTasks
    BY <2>1, StartAssumption
  <2>3. uncompleted' \in [Worker -> 0..NumberOfTasks]
    BY <1>6, <2>2 DEF OptionalWork, TypeOK
  <2>4. QED BY <1>6, <2>3 DEF OptionalWork, Goto, TypeOK, OptionalLeft, rootVars, channels
<1>7. CASE WaitReadySent(w)
  BY <1>7 DEF WaitReadySent, Goto, TypeOK, OptionalLeft, rootVars, channels
<1>8. QED BY <1>1, <1>2, <1>3, <1>4, <1>5, <1>6, <1>7 DEF RunTasks

LEMMA TypeNext == TypeInv /\ [Next]_vars => TypeInv'
<1>1. TypeInv /\ UNCHANGED vars => TypeInv'
  BY DEF TypeInv, TypeOK, OptionalLeft, vars
<1>2. TypeInv /\ Next => TypeInv'
  BY <1>1, TypeOfRoot, TypeOfWorker DEF Next, Terminated
<1>3. QED BY <1>1, <1>2

\* Every variable holds a value of its type; a counter of messages never gets below zero.
THEOREM TypeCorrect == Spec => []TypeOK
<1>1. TypeInv => TypeOK
  BY DEF TypeInv
<1>2. QED BY <1>1, TypeInit, TypeNext, PTL DEF Spec
-----------------------------------------------------------------------------
(* The steps of a worker. *)

\* nothing of v changes
SameAt(v) ==
  /\ worker'[v] = worker[v] /\ groupData'[v] = groupData[v] /\ request'[v] = request[v]
  /\ scattered'[v] = scattered[v] /\ gathered'[v] = gathered[v]
  /\ ready'[v] = ready[v] /\ finish'[v] = finish[v]

LEMMA SameData ==
  ASSUME NEW v, cycle' = cycle
  PROVE  Prepared(v)' = Prepared(v) /\ Worked(v)' = Worked(v)
  BY DEF Prepared, Worked

LEMMA BehindOf ==
  ASSUME NEW v \in Worker
  PROVE  /\ v \in BehindNecessaryWork <=> worker[v] \in {"readySent", "finished?", "optional", "send"}
         /\ (v \in BehindNecessaryWork)' <=> worker'[v] \in {"readySent", "finished?", "optional", "send"}
         /\ v \in Told <=> v \in BehindNecessaryWork /\ ready[v] = 0
         /\ (v \in Told)' <=> (v \in BehindNecessaryWork)' /\ ready'[v] = 0
  BY DEF BehindNecessaryWork, Told

LEMMA SameAtRest ==
  ASSUME NEW v \in Worker, SameAt(v)
  PROVE  /\ Created(v) => Created(v)'
         /\ AtRest(v) => AtRest(v)'
         /\ Stopping(v) => Stopping(v)'
         /\ (v \in Told)' <=> v \in Told
         /\ (v \in BehindNecessaryWork)' <=> v \in BehindNecessaryWork
  BY BehindOf DEF SameAt, Created, AtRest, Stopping, Quiet

LEMMA SameInCycle ==
  ASSUME NEW v \in Worker, SameAt(v), cycle' = cycle
  PROVE  /\ InCycle(v) => InCycle(v)'
         /\ AfterCycle(v) => AfterCycle(v)'
<1>1. Prepared(v)' = Prepared(v) /\ Worked(v)' = Worked(v)
  BY SameData
<1>2. (v \in BehindNecessaryWork)' <=> v \in BehindNecessaryWork
  BY SameAtRest
<1>3. Quiet(v) => Quiet(v)'
  BY DEF SameAt, Quiet
<1>4. Waiting(v) => Waiting(v)'
  BY <1>1, <1>3 DEF SameAt, Waiting
<1>5. Busy(v) => Busy(v)'
  BY <1>1, <1>3 DEF SameAt, Busy
<1>6. Through(v) => Through(v)'
  BY <1>1, <1>2 DEF SameAt, Through
<1>7. Unasked(v) => Unasked(v)'
  BY <1>6 DEF SameAt, Unasked
<1>8. Asked(v) => Asked(v)'
  BY <1>6 DEF SameAt, Asked
<1>9. Answered(v) => Answered(v)'
  BY <1>1 DEF SameAt, Answered
<1>10. QED BY <1>4, <1>5, <1>7, <1>8, <1>9 DEF InCycle, AfterCycle

LEMMA StepOfWorker ==
  ASSUME TypeInv, NEW w \in Worker, RunTasks(w) \/ WaitReadySent(w)
  PROVE  /\ UNCHANGED rootVars
         /\ \A v \in Worker : v # w => SameAt(v)
<1> USE DEF TypeInv, TypeOK, SameAt
<1>1. CASE ReceiveDataFromRoot(w)
  BY <1>1 DEF ReceiveDataFromRoot, Goto
<1>2. CASE NecessaryWork(w)
  BY <1>2 DEF NecessaryWork, Goto, channels
<1>3. CASE SetReady(w)
  BY <1>3 DEF SetReady, Goto
<1>4. CASE IsCycleFinished(w)
  BY <1>4 DEF IsCycleFinished
<1>5. CASE SendDataToRoot(w)
  BY <1>5 DEF SendDataToRoot, Goto
<1>6. ASSUME NEW isCompleted \in BOOLEAN, OptionalWork(w, isCompleted)
      PROVE  UNCHANGED rootVars /\ \A v \in Worker : v # w => SameAt(v)
  BY <1>6 DEF OptionalWork, Goto, channels
<1>7. CASE WaitReadySent(w)
  BY <1>7 DEF WaitReadySent, Goto, channels
<1>8. QED BY <1>1, <1>2, <1>3, <1>4, <1>5, <1>6, <1>7 DEF RunTasks

\* where a step of a worker leads
Moves(w) ==
  /\ ~Created(w) /\ ~AtRest(w)
  /\ InCycle(w) => InCycle(w)' /\ ((w \in Told)' <=> w \in Told)
  /\ AfterCycle(w) => AfterCycle(w)'
  /\ Stopping(w) => Stopping(w)'

LEMMA MoveOfReceive ==
  ASSUME TypeInv, NEW w \in Worker, ReceiveDataFromRoot(w)
  PROVE  Moves(w)
<1>1. /\ scattered[w] # <<>> /\ worker[w] = "receive"
      /\ worker'[w] = IF Head(scattered[w]).mIsStop THEN "exit" ELSE "necessary"
      /\ groupData'[w] = Head(scattered[w]).mDataVec
      /\ scattered'[w] = Tail(scattered[w])
      /\ request'[w] = request[w] /\ gathered'[w] = gathered[w]
      /\ ready'[w] = ready[w] /\ finish'[w] = finish[w] /\ cycle' = cycle
  BY DEF ReceiveDataFromRoot, Goto, TypeInv, TypeOK, rootVars
<1>2. Prepared(w)' = Prepared(w) /\ Worked(w)' = Worked(w)
  BY <1>1, SameData
<1>3. ~Created(w) /\ ~AtRest(w) /\ ~Busy(w) /\ ~Answered(w)
  BY <1>1 DEF Created, AtRest, Busy, Answered
<1>4. w \notin BehindNecessaryWork /\ (w \notin BehindNecessaryWork)'
  BY <1>1, BehindOf
<1>5. ~Unasked(w) /\ ~Asked(w)
  BY <1>4 DEF Unasked, Asked, Through
<1>6. Waiting(w) => Busy(w)'
  <2>1. SUFFICES ASSUME Waiting(w) PROVE Busy(w)'
    OBVIOUS
  <2>2. /\ Head(scattered[w]) = [mIsStop |-> FALSE, mDataVec |-> Prepared(w)]
        /\ Tail(scattered[w]) = <<>>
    BY <2>1 DEF Waiting
  <2>3. worker'[w] = "necessary" /\ groupData'[w] = Prepared(w) /\ scattered'[w] = <<>>
    BY <1>1, <2>2
  <2>4. Quiet(w)'
    BY <1>1, <2>1 DEF Waiting, Quiet
  <2>5. QED BY <1>2, <2>3, <2>4 DEF Busy
<1>7. Stopping(w) => Stopping(w)'
  <2>1. SUFFICES ASSUME Stopping(w) PROVE Stopping(w)'
    OBVIOUS
  <2>2. scattered[w] = <<[mIsStop |-> TRUE, mDataVec |-> NoGroupData]>>
    BY <1>1, <2>1 DEF Stopping
  <2>3. worker'[w] = "exit" /\ scattered'[w] = <<>>
    <3>1. /\ Head(scattered[w]) = [mIsStop |-> TRUE, mDataVec |-> NoGroupData]
          /\ Tail(scattered[w]) = <<>>
      BY <2>2
    <3>2. QED BY <1>1, <3>1
  <2>4. Quiet(w)'
    BY <1>1, <2>1 DEF Stopping, Quiet
  <2>5. QED BY <2>3, <2>4 DEF Stopping
<1>8. (w \in Told)' <=> w \in Told
  BY <1>4, BehindOf
<1>9. QED BY <1>3, <1>5, <1>6, <1>7, <1>8 DEF Moves, InCycle, AfterCycle

LEMMA FieldChanged ==
  ASSUME NEW c, NEW before, NEW after
  PROVE  [[cycle |-> c, worked |-> before] EXCEPT !.worked = after] = [cycle |-> c, worked |-> after]
  BY SMT

LEMMA MoveOfNecessaryWork ==
  ASSUME TypeInv, NEW w \in Worker, NecessaryWork(w)
  PROVE  Moves(w)
<1>1. /\ worker[w] = "necessary" /\ worker'[w] = "setReady"
      /\ groupData'[w] = [t \in TaskNr |-> IF t \in TasksOf(w)
                                           THEN [groupData[w][t] EXCEPT !.worked = TRUE]
                                           ELSE groupData[w][t]]
      /\ scattered'[w] = scattered[w]
      /\ request'[w] = request[w] /\ gathered'[w] = gathered[w]
      /\ ready'[w] = ready[w] /\ finish'[w] = finish[w] /\ cycle' = cycle
  BY DEF NecessaryWork, Goto, TypeInv, TypeOK, rootVars, channels
<1>2. Prepared(w)' = Prepared(w) /\ Worked(w)' = Worked(w)
  BY <1>1, SameData
<1>3. ~Created(w) /\ ~AtRest(w) /\ ~Waiting(w) /\ ~Answered(w) /\ ~Stopping(w)
  BY <1>1 DEF Created, AtRest, Waiting, Answered, Stopping
<1>4. w \notin BehindNecessaryWork /\ (w \notin BehindNecessaryWork)'
  BY <1>1, BehindOf
<1>5. ~Unasked(w) /\ ~Asked(w)
  BY <1>4 DEF Unasked, Asked, Through
<1>6. Busy(w) => Busy(w)'
  <2>1. SUFFICES ASSUME Busy(w) PROVE Busy(w)'
    OBVIOUS
  <2>2. groupData[w] = Prepared(w)
    BY <1>1, <2>1 DEF Busy
  <2>3. \A t \in TaskNr : (IF t \in TasksOf(w) THEN [Prepared(w)[t] EXCEPT !.worked = TRUE]
                           ELSE Prepared(w)[t])
                          = IF t \in TasksOf(w) THEN [cycle |-> cycle, worked |-> TRUE] ELSE NoData
    <3> TAKE t \in TaskNr
    <3>1. CASE t \in TasksOf(w)
      <4>1. Prepared(w)[t] = [cycle |-> cycle, worked |-> FALSE]
        BY <3>1 DEF Prepared
      <4>2. [[cycle |-> cycle, worked |-> FALSE] EXCEPT !.worked = TRUE]
            = [cycle |-> cycle, worked |-> TRUE]
        BY FieldChanged
      <4>3. QED BY <3>1, <4>1, <4>2
    <3>2. CASE t \notin TasksOf(w)
      BY <3>2 DEF Prepared
    <3>3. QED BY <3>1, <3>2
  <2>4. groupData'[w] = Worked(w)
    BY <1>1, <2>2, <2>3 DEF Worked
  <2>5. Quiet(w)'
    BY <1>1, <2>1 DEF Busy, Quiet
  <2>6. QED BY <1>1, <1>2, <2>1, <2>4, <2>5 DEF Busy
<1>7. (w \in Told)' <=> w \in Told
  BY <1>4, BehindOf
<1>8. QED BY <1>3, <1>5, <1>6, <1>7 DEF Moves, InCycle, AfterCycle

LEMMA MoveOfSetReady ==
  ASSUME TypeInv, NEW w \in Worker, SetReady(w)
  PROVE  Moves(w)
<1>1. /\ worker[w] = "setReady" /\ worker'[w] = "readySent" /\ ready'[w] = ready[w] + 1
      /\ groupData'[w] = groupData[w] /\ scattered'[w] = scattered[w]
      /\ request'[w] = request[w] /\ gathered'[w] = gathered[w]
      /\ finish'[w] = finish[w] /\ cycle' = cycle
  BY DEF SetReady, Goto, TypeInv, TypeOK, rootVars
<1>2. Worked(w)' = Worked(w)
  BY <1>1, SameData
<1>3. ~Created(w) /\ ~AtRest(w) /\ ~Waiting(w) /\ ~Answered(w) /\ ~Stopping(w)
  BY <1>1 DEF Created, AtRest, Waiting, Answered, Stopping
<1>4. w \notin BehindNecessaryWork /\ (w \in BehindNecessaryWork)'
  BY <1>1, BehindOf
<1>5. ~Unasked(w) /\ ~Asked(w)
  BY <1>4 DEF Unasked, Asked, Through
<1>6. Busy(w) => Unasked(w)' /\ ready'[w] = 1
  <2>1. SUFFICES ASSUME Busy(w) PROVE Unasked(w)' /\ ready'[w] = 1
    OBVIOUS
  <2>2. Quiet(w) /\ scattered[w] = <<>> /\ groupData[w] = Worked(w)
    BY <1>1, <2>1 DEF Busy
  <2>3. ready'[w] = 1
    BY <1>1, <2>2 DEF Quiet
  <2>4. Through(w)'
    BY <1>1, <1>2, <1>4, <2>2 DEF Through, Quiet
  <2>5. finish'[w] = 0 /\ request'[w] # "complete"
    BY <1>1, <2>2 DEF Quiet
  <2>6. QED BY <2>3, <2>4, <2>5 DEF Unasked
<1>7. Busy(w) => ((w \in Told)' <=> w \in Told)
  BY <1>4, <1>6, BehindOf
<1>8. QED BY <1>3, <1>5, <1>6, <1>7 DEF Moves, InCycle, AfterCycle

\* steps within the optional work
LEMMA MoveWithin ==
  ASSUME TypeInv, NEW w \in Worker, w \in BehindNecessaryWork, (w \in BehindNecessaryWork)',
         groupData'[w] = groupData[w], scattered'[w] = scattered[w], gathered'[w] = gathered[w],
         ready'[w] = ready[w], cycle' = cycle,
         finish[w] = 0 /\ request[w] # "complete" => finish'[w] = 0 /\ request'[w] # "complete",
         finish[w] = 1 /\ request[w] # "complete" =>
           \/ finish'[w] = 1 /\ request'[w] # "complete"
           \/ finish'[w] = 0 /\ request'[w] = "complete",
         finish[w] = 0 /\ request[w] = "complete" => finish'[w] = 0 /\ request'[w] = "complete"
  PROVE  Moves(w)
<1>1. worker[w] \in {"readySent", "finished?", "optional", "send"}
  BY BehindOf
<1>2. /\ ~Created(w) /\ ~AtRest(w) /\ ~Waiting(w) /\ ~Busy(w) /\ ~Answered(w) /\ ~Stopping(w)
  BY <1>1 DEF Created, AtRest, Waiting, Busy, Answered, Stopping
<1>3. Worked(w)' = Worked(w)
  BY SameData
<1>4. Through(w) => Through(w)'
  BY <1>3 DEF Through
<1>5. Unasked(w) => Unasked(w)'
  BY <1>4 DEF Unasked
<1>6. Asked(w) => Asked(w)'
  BY <1>4 DEF Asked
<1>7. (w \in Told)' <=> w \in Told
  BY BehindOf
<1>8. QED BY <1>2, <1>5, <1>6, <1>7 DEF Moves, InCycle, AfterCycle

LEMMA MoveOfIsCycleFinished ==
  ASSUME TypeInv, NEW w \in Worker, IsCycleFinished(w)
  PROVE  Moves(w)
<1>1. PICK received \in {r \in BOOLEAN : r => request[w] # "complete" /\ finish[w] > 0},
           finished \in BOOLEAN :
        /\ finish' = IF received THEN [finish EXCEPT ![w] = @ - 1] ELSE finish
        /\ request' = [request EXCEPT ![w] =
                        IF received \/ @ = "complete" THEN "complete" ELSE "pending"]
        /\ worker' = [worker EXCEPT ![w] =
                       IF finished \/ uncompleted[w] = 0 THEN "send" ELSE "optional"]
  BY DEF IsCycleFinished
<1>2. /\ worker[w] = "finished?" /\ groupData'[w] = groupData[w] /\ scattered'[w] = scattered[w]
      /\ gathered'[w] = gathered[w] /\ ready'[w] = ready[w] /\ cycle' = cycle
  BY DEF IsCycleFinished, rootVars
<1>3. worker \in [Worker -> {"create", "receive", "necessary", "setReady", "readySent",
                             "finished?", "optional", "send", "exit"}]
      /\ request \in [Worker -> {"none", "pending", "complete"}] /\ finish \in [Worker -> Nat]
  BY DEF TypeInv, TypeOK
<1>4. worker'[w] \in {"send", "optional"}
  BY <1>1, <1>3
<1>5. w \in BehindNecessaryWork /\ (w \in BehindNecessaryWork)'
  BY <1>2, <1>4, BehindOf
<1>6. CASE received
  <2>1. finish[w] > 0 /\ request[w] # "complete" /\ finish'[w] = finish[w] - 1 /\ request'[w] = "complete"
    BY <1>1, <1>3, <1>6
  <2>2. QED BY <1>2, <1>5, <2>1, MoveWithin
<1>7. CASE ~received
  <2>1. /\ finish'[w] = finish[w]
        /\ request'[w] = IF request[w] = "complete" THEN "complete" ELSE "pending"
    BY <1>1, <1>3, <1>7
  <2>2. QED BY <1>2, <1>5, <2>1, MoveWithin
<1>8. QED BY <1>6, <1>7

LEMMA MoveOfSendData ==
  ASSUME TypeInv, NEW w \in Worker, SendDataToRoot(w)
  PROVE  Moves(w)
<1>1. /\ request[w] = "complete" \/ finish[w] > 0
      /\ worker[w] = "send" /\ worker'[w] = "receive"
      /\ finish'[w] = IF request[w] = "complete" THEN finish[w] ELSE finish[w] - 1
      /\ request'[w] = "none" /\ gathered'[w] = Append(gathered[w], groupData[w])
      /\ scattered'[w] = scattered[w] /\ ready'[w] = ready[w] /\ cycle' = cycle
  BY DEF SendDataToRoot, Goto, TypeInv, TypeOK, rootVars
<1>2. Worked(w)' = Worked(w)
  BY <1>1, SameData
<1>3. /\ ~Created(w) /\ ~AtRest(w) /\ ~Waiting(w) /\ ~Busy(w) /\ ~Answered(w) /\ ~Stopping(w)
  BY <1>1 DEF Created, AtRest, Waiting, Busy, Answered, Stopping
<1>4. ~Unasked(w)
  BY <1>1 DEF Unasked
<1>5. Asked(w) => Answered(w)'
  <2>1. SUFFICES ASSUME Asked(w) PROVE Answered(w)'
    OBVIOUS
  <2>2. /\ groupData[w] = Worked(w) /\ scattered[w] = <<>> /\ gathered[w] = <<>> /\ ready[w] = 0
    BY <2>1 DEF Asked, Through
  <2>3. finish'[w] = 0
    BY <1>1, <2>1 DEF Asked
  <2>4. gathered'[w] = <<Worked(w)>>
    BY <1>1, <2>2
  <2>5. QED BY <1>1, <1>2, <2>2, <2>3, <2>4 DEF Answered
<1>6. QED BY <1>3, <1>4, <1>5 DEF Moves, InCycle, AfterCycle

LEMMA MoveOfWorker ==
  ASSUME TypeInv, NEW w \in Worker, RunTasks(w) \/ WaitReadySent(w)
  PROVE  Moves(w)
<1>1. ASSUME NEW from \in {"optional", "readySent"}, Goto(w, from, "finished?"),
             UNCHANGED <<rootVars, groupData, request, channels>>
      PROVE  Moves(w)
  <2>1. worker[w] = from /\ worker'[w] = "finished?"
    BY <1>1 DEF Goto, TypeInv, TypeOK
  <2>2. w \in BehindNecessaryWork /\ (w \in BehindNecessaryWork)'
    BY <2>1, BehindOf
  <2>3. /\ groupData'[w] = groupData[w] /\ scattered'[w] = scattered[w] /\ gathered'[w] = gathered[w]
        /\ ready'[w] = ready[w] /\ cycle' = cycle /\ finish'[w] = finish[w] /\ request'[w] = request[w]
    BY <1>1 DEF rootVars, channels
  <2>4. QED BY <2>2, <2>3, MoveWithin
<1>2. ASSUME NEW isCompleted \in BOOLEAN, OptionalWork(w, isCompleted) PROVE Moves(w)
  BY <1>1, <1>2 DEF OptionalWork
<1>3. CASE WaitReadySent(w)
  BY <1>1, <1>3 DEF WaitReadySent
<1>4. QED BY <1>2, <1>3, MoveOfReceive, MoveOfNecessaryWork, MoveOfSetReady,
             MoveOfIsCycleFinished, MoveOfSendData DEF RunTasks
-----------------------------------------------------------------------------
(* The invariant holds at first, and each step preserves it. *)

LEMMA NoneTold ==
  ASSUME \A w \in Worker : worker[w] \notin {"readySent", "finished?", "optional", "send"}
  PROVE  Told = {}
  BY DEF Told, BehindNecessaryWork

LEMMA InvInit == Init => IInv
<1> SUFFICES ASSUME Init PROVE IInv
  OBVIOUS
<1>1. OptionalLeft /\ Place /\ CollectedInv
  BY DEF Init, OptionalLeft, Place, CollectedInv
<1>2. \A w \in Worker : WorkerInv(w)
  BY DEF Init, WorkerInv, Created, Quiet
<1>3. Counted
  BY DEF Init, Counted
<1>4. QED BY <1>1, <1>2, <1>3 DEF IInv

LEMMA GroupOfFacts ==
  ASSUME TypeOK, NEW w \in Worker
  PROVE  /\ GroupOf(w) \in Nat /\ GroupOf(w) >= 1 /\ GroupOf(w) <= Len(TaskMax)
         /\ group \in Nat /\ group >= 1 /\ group <= Len(TaskMax) /\ Len(TaskMax) \in Nat
         /\ w \in RanksOf(group) <=> GroupOf(w) = group
<1>1. Len(TaskMax) \in Nat \ {0} /\ Group = 1..Len(TaskMax)
  BY Groups
<1>2. group \in Group
  BY DEF TypeOK
<1>3. GroupOf(w) \in Group /\ (w \in RanksOf(group) <=> group = GroupOf(w))
  BY <1>2, RanksPartition
<1>4. QED BY <1>1, <1>2, <1>3

LEMMA InvOfWorker ==
  ASSUME TypeInv, IInv, NEW w \in Worker, RunTasks(w) \/ WaitReadySent(w)
  PROVE  IInv'
<1>1. UNCHANGED rootVars /\ \A v \in Worker : v # w => SameAt(v)
  BY StepOfWorker
<1>2. Moves(w)
  BY MoveOfWorker
<1>3. UNCHANGED <<root, group, cycle, mReadyRemoteTasks, collected>>
  BY <1>1 DEF rootVars
<1>4. OptionalLeft'
  BY TypeOfWorker DEF TypeInv
<1>5. Place'
  BY <1>3 DEF IInv, Place
<1>6. ASSUME NEW v \in Worker PROVE WorkerInv(v)'
  <2>1. WorkerInv(v)
    BY DEF IInv
  <2>2. CASE v = w
    BY <1>2, <1>3, <2>1, <2>2 DEF WorkerInv, Moves
  <2>3. CASE v # w
    <3>1. SameAt(v)
      BY <1>1, <2>3
    <3>2. QED BY <1>3, <2>1, <3>1, SameAtRest, SameInCycle DEF WorkerInv
  <2>4. QED BY <2>2, <2>3
<1>7. Counted'
  <2>1. SUFFICES ASSUME root \in {"scatter", "sent", "finish"} PROVE Counted'
    BY <1>3 DEF Counted
  <2>2. WorkerInv(w)
    BY DEF IInv
  <2>3. InCycle(w)
    BY <1>2, <2>1, <2>2 DEF WorkerInv, Moves
  <2>4. (w \in Told)' <=> w \in Told
    BY <1>2, <2>3 DEF Moves
  <2>5. \A v \in Worker : (v \in Told)' <=> v \in Told
    BY <1>1, <2>4, SameAtRest
  <2>6. Told' = Told
    <3>1. Told \in SUBSET Worker /\ Told' \in SUBSET Worker
      BY DEF Told
    <3>2. QED BY <2>5, <3>1
  <2>7. QED BY <1>3, <2>6 DEF IInv, Counted
<1>8. CollectedInv'
  <2>1. \A v \in Worker : Worked(v)' = Worked(v)
    BY <1>3, SameData
  <2>2. RanksOf(group) \in SUBSET Worker
    BY DEF RanksOf
  <2>3. QED BY <1>3, <2>1, <2>2 DEF IInv, CollectedInv
<1>9. QED BY <1>4, <1>5, <1>6, <1>7, <1>8 DEF IInv

LEMMA InvOfRunThreads == TypeInv /\ IInv /\ RunThreads => IInv'
<1> SUFFICES ASSUME TypeInv, IInv, RunThreads PROVE IInv'
  OBVIOUS
<1>1. /\ root = "create" /\ root' = "idle" /\ worker' = [w \in Worker |-> "receive"]
      /\ UNCHANGED <<group, cycle, mReadyRemoteTasks, groupData, uncompleted, request>>
      /\ UNCHANGED <<scattered, gathered, ready, finish>>
  BY DEF RunThreads, channels
<1>2. OptionalLeft'
  BY <1>1 DEF OptionalLeft
<1>3. Place'
  BY <1>1 DEF IInv, Place
<1>4. ASSUME NEW w \in Worker PROVE WorkerInv(w)'
  <2>1. Created(w)
    BY <1>1 DEF IInv, WorkerInv
  <2>2. AtRest(w)'
    BY <1>1, <2>1 DEF Created, AtRest, Quiet
  <2>3. QED BY <1>1, <2>2 DEF WorkerInv
<1>5. QED BY <1>1, <1>2, <1>3, <1>4 DEF IInv, Counted, CollectedInv

LEMMA SameEverywhere ==
  ASSUME UNCHANGED <<workerVars, channels>>
  PROVE  /\ OptionalLeft => OptionalLeft'
         /\ Told' = Told
         /\ \A w \in Worker : SameAt(w)
  BY DEF OptionalLeft, Told, BehindNecessaryWork, SameAt, workerVars, channels

LEMMA InvOfCallSend == TypeInv /\ IInv /\ CallSend => IInv'
<1> SUFFICES ASSUME TypeInv, IInv, CallSend PROVE IInv'
  OBVIOUS
<1>1. /\ root = "idle" /\ root' = "scatter" /\ group' = 1 /\ cycle' = cycle + 1
      /\ UNCHANGED <<workerVars, channels>>
  BY DEF CallSend
<1>2. OptionalLeft' /\ Told' = Told /\ \A w \in Worker : SameAt(w)
  BY <1>1, SameEverywhere DEF IInv
<1>3. Place'
  <2>1. cycle + 1 >= 1
    BY StartAssumption DEF TypeInv, TypeOK
  <2>2. QED BY <1>1, <2>1 DEF Place
<1>4. ASSUME NEW w \in Worker PROVE AtRest(w) /\ AtRest(w)'
  BY <1>1, <1>2, SameAtRest DEF IInv, WorkerInv
<1>5. ASSUME NEW w \in Worker PROVE WorkerInv(w)'
  <2>1. ~(GroupOf(w) < group')
    BY <1>1, GroupOfFacts DEF TypeInv
  <2>2. QED BY <1>1, <1>4, <2>1 DEF WorkerInv
<1>6. Told = {}
  BY <1>4, NoneTold DEF AtRest
<1>7. QED BY <1>1, <1>2, <1>3, <1>5, <1>6 DEF IInv, Counted, CollectedInv

LEMMA InvOfSendData == TypeInv /\ IInv /\ SendDataToRemoteTasks => IInv'
<1> SUFFICES ASSUME TypeInv, IInv, SendDataToRemoteTasks PROVE IInv'
  OBVIOUS
<1>1. /\ root = "scatter" /\ mReadyRemoteTasks' = 0
      /\ IF group < Len(TaskMax) THEN group' = group + 1 /\ root' = "scatter"
         ELSE group' = 1 /\ root' = "sent"
      /\ UNCHANGED <<cycle, worker, groupData, uncompleted, request, gathered, ready, finish>>
  BY DEF SendDataToRemoteTasks, workerVars
<1>2. \A w \in Worker :
        scattered'[w] = IF w \in RanksOf(group)
                        THEN Append(scattered[w], [mIsStop |-> FALSE, mDataVec |-> Prepared(w)])
                        ELSE scattered[w]
  BY DEF SendDataToRemoteTasks
<1>3. OptionalLeft' /\ Told' = Told
  BY <1>1 DEF IInv, OptionalLeft, Told, BehindNecessaryWork
<1>4. Place'
  BY <1>1 DEF IInv, Place
<1>5. ASSUME NEW w \in Worker
      PROVE  /\ GroupOf(w) <= group => InCycle(w)'
             /\ GroupOf(w) > group => AtRest(w)'
  <2>1. IF GroupOf(w) < group THEN InCycle(w) ELSE AtRest(w)
    BY <1>1 DEF IInv, WorkerInv
  <2>2. CASE GroupOf(w) = group
    <3>1. w \in RanksOf(group) /\ AtRest(w)
      BY <2>1, <2>2, GroupOfFacts DEF TypeInv
    <3>2. scattered'[w] = <<[mIsStop |-> FALSE, mDataVec |-> Prepared(w)]>>
      <4> DEFINE message == [mIsStop |-> FALSE, mDataVec |-> Prepared(w)]
      <4>1. scattered[w] = <<>> /\ scattered'[w] = Append(scattered[w], message)
        BY <1>2, <3>1 DEF AtRest
      <4> HIDE DEF message
      <4>2. scattered'[w] = <<message>>
        BY <4>1
      <4>3. QED BY <4>2 DEF message
    <3>3. Prepared(w)' = Prepared(w)
      BY <1>1, SameData
    <3>4. Quiet(w)' /\ worker'[w] = "receive"
      BY <1>1, <3>1 DEF AtRest, Quiet
    <3>5. Waiting(w)'
      BY <3>2, <3>3, <3>4 DEF Waiting
    <3>6. QED BY <2>2, <3>5, GroupOfFacts DEF TypeInv, InCycle
  <2>3. CASE GroupOf(w) # group
    <3>1. w \notin RanksOf(group)
      BY <2>3, GroupOfFacts DEF TypeInv
    <3>2. SameAt(w)
      BY <1>1, <1>2, <3>1 DEF SameAt
    <3>3. (InCycle(w) => InCycle(w)') /\ (AtRest(w) => AtRest(w)')
      BY <1>1, <3>2, SameAtRest, SameInCycle
    <3>4. /\ GroupOf(w) <= group => GroupOf(w) < group
          /\ GroupOf(w) > group => ~(GroupOf(w) < group)
      BY <2>3, GroupOfFacts DEF TypeInv
    <3>5. QED BY <2>1, <3>3, <3>4
  <2>4. QED BY <2>2, <2>3
<1>6. ASSUME NEW w \in Worker PROVE WorkerInv(w)'
  <2>1. CASE group < Len(TaskMax)
    <3>1. /\ GroupOf(w) < group + 1 => GroupOf(w) <= group
          /\ ~(GroupOf(w) < group + 1) => GroupOf(w) > group
      BY GroupOfFacts DEF TypeInv
    <3>2. QED BY <1>1, <1>5, <2>1, <3>1 DEF WorkerInv
  <2>2. CASE ~(group < Len(TaskMax))
    <3>1. GroupOf(w) <= group
      BY <2>2, GroupOfFacts DEF TypeInv
    <3>2. QED BY <1>1, <1>5, <2>2, <3>1 DEF WorkerInv
  <2>3. QED BY <2>1, <2>2
<1>7. Told = {}
  BY <1>1 DEF IInv, Counted
<1>8. QED BY <1>1, <1>3, <1>4, <1>6, <1>7 DEF IInv, Counted, CollectedInv

LEMMA InvOfCallReceive == TypeInv /\ IInv /\ CallReceive => IInv'
<1> SUFFICES ASSUME TypeInv, IInv, CallReceive PROVE IInv'
  OBVIOUS
<1>1. /\ root = "sent" /\ root' = "finish"
      /\ UNCHANGED <<group, cycle, mReadyRemoteTasks, collected>>
      /\ UNCHANGED <<workerVars, channels>>
  BY DEF CallReceive
<1>2. OptionalLeft' /\ Told' = Told /\ \A w \in Worker : SameAt(w)
  BY <1>1, SameEverywhere DEF IInv
<1>3. Place'
  BY <1>1 DEF IInv, Place
<1>4. ASSUME NEW w \in Worker PROVE WorkerInv(w)'
  <2>1. InCycle(w) /\ SameAt(w)
    BY <1>1, <1>2 DEF IInv, WorkerInv
  <2>2. InCycle(w)'
    BY <1>1, <2>1, SameInCycle
  <2>3. QED BY <1>1, <2>2 DEF WorkerInv
<1>5. mReadyRemoteTasks = Cardinality(Told)
  BY <1>1, FS_EmptySet DEF IInv, Counted
<1>6. QED BY <1>1, <1>2, <1>3, <1>4, <1>5 DEF IInv, Counted, CollectedInv

LEMMA WorkersFinite ==
  /\ IsFiniteSet(Worker) /\ Cardinality(Worker) = SystemThreadCount
  /\ Told \in SUBSET Worker /\ IsFiniteSet(Told)
<1>1. SystemThreadCount \in Nat
  BY StartAssumption
<1>2. IsFiniteSet(Worker) /\ Cardinality(Worker) = SystemThreadCount
  BY <1>1, FS_Interval DEF Worker
<1>3. Told \in SUBSET Worker
  BY DEF Told
<1>4. QED BY <1>2, <1>3, FS_Subset

LEMMA InvOfReceiveReady ==
  ASSUME TypeInv, IInv, NEW w \in Worker, ReceiveReady(w)
  PROVE  IInv'
<1>1. /\ root = "finish" /\ root' = "finish" /\ ready[w] > 0
      /\ mReadyRemoteTasks' = mReadyRemoteTasks + 1
      /\ UNCHANGED <<group, cycle, collected, worker, groupData, uncompleted, request>>
      /\ UNCHANGED <<scattered, gathered, finish>>
  BY DEF ReceiveReady, workerVars
<1>2. ready'[w] = ready[w] - 1 /\ \A v \in Worker : v # w => ready'[v] = ready[v]
  BY DEF ReceiveReady, TypeInv, TypeOK
<1>3. \A v \in Worker : InCycle(v)
  BY <1>1 DEF IInv, WorkerInv
<1>4. ready[w] # 0
  BY <1>1 DEF TypeInv, TypeOK
<1>5. Unasked(w)
  BY <1>3, <1>4 DEF InCycle, Waiting, Busy, Quiet
<1>6. ready[w] = 1 /\ ready'[w] = 0
  BY <1>2, <1>4, <1>5 DEF Unasked
<1>7. Worked(w)' = Worked(w)
  BY <1>1, SameData
<1>8. w \in BehindNecessaryWork /\ (w \in BehindNecessaryWork)'
  BY <1>1, <1>5, BehindOf DEF Unasked, Through
<1>9. Unasked(w)'
  <2>1. Through(w)'
    BY <1>1, <1>5, <1>7, <1>8 DEF Unasked, Through
  <2>2. QED BY <1>1, <1>5, <1>6, <2>1 DEF Unasked
<1>10. ASSUME NEW v \in Worker, v # w PROVE SameAt(v)
  BY <1>1, <1>2, <1>10 DEF SameAt
<1>11. OptionalLeft' /\ Place'
  BY <1>1 DEF IInv, OptionalLeft, Place
<1>12. ASSUME NEW v \in Worker PROVE WorkerInv(v)'
  <2>1. InCycle(v)'
    <3>1. CASE v = w
      BY <1>9, <3>1 DEF InCycle
    <3>2. CASE v # w
      BY <1>1, <1>3, <1>10, <3>2, SameInCycle
    <3>3. QED BY <3>1, <3>2
  <2>2. QED BY <1>1, <2>1 DEF WorkerInv
<1>13. w \notin Told /\ Told' = Told \cup {w}
  <2>1. w \notin Told /\ (w \in Told)'
    BY <1>6, <1>8, BehindOf
  <2>2. \A v \in Worker : v # w => ((v \in Told)' <=> v \in Told)
    BY <1>10, SameAtRest
  <2>3. Told \in SUBSET Worker /\ Told' \in SUBSET Worker
    BY DEF Told
  <2>4. QED BY <2>1, <2>2, <2>3
<1>14. Cardinality(Told') = Cardinality(Told) + 1
  BY <1>13, WorkersFinite, FS_AddElement
<1>15. Counted'
  BY <1>1, <1>14 DEF IInv, Counted
<1>16. QED BY <1>1, <1>11, <1>12, <1>15 DEF IInv, CollectedInv

\* the root asks its workers to finish when all of them told that they are ready
LEMMA AllTold ==
  ASSUME TypeInv, IInv, root = "finish", mReadyRemoteTasks >= SystemThreadCount
  PROVE  \A w \in Worker : Unasked(w) /\ ready[w] = 0
<1>1. mReadyRemoteTasks = SystemThreadCount
  BY StartAssumption DEF TypeInv, TypeOK
<1>2. Cardinality(Worker) = Cardinality(Told)
  BY <1>1, WorkersFinite DEF IInv, Counted
<1>3. Worker = Told
  BY <1>2, WorkersFinite, FS_Subset
<1>4. ASSUME NEW w \in Worker PROVE Unasked(w) /\ ready[w] = 0
  <2>1. w \in BehindNecessaryWork /\ ready[w] = 0
    BY <1>3, BehindOf
  <2>2. InCycle(w)
    BY DEF IInv, WorkerInv
  <2>3. ~Waiting(w) /\ ~Busy(w)
    BY <2>1, BehindOf DEF Waiting, Busy
  <2>4. QED BY <2>1, <2>2, <2>3 DEF InCycle
<1>5. QED BY <1>4

LEMMA InvOfSendFinish == TypeInv /\ IInv /\ SendFinish => IInv'
<1> SUFFICES ASSUME TypeInv, IInv, SendFinish PROVE IInv'
  OBVIOUS
<1>1. /\ root = "finish" /\ root' = "finishSent" /\ mReadyRemoteTasks >= SystemThreadCount
      /\ UNCHANGED <<group, cycle, collected, worker, groupData, uncompleted, request>>
      /\ UNCHANGED <<scattered, gathered, ready>>
      /\ \A w \in Worker : finish'[w] = finish[w] + 1
  BY DEF SendFinish, workerVars
<1>2. OptionalLeft' /\ Place'
  BY <1>1 DEF IInv, OptionalLeft, Place
<1>3. ASSUME NEW w \in Worker PROVE WorkerInv(w)'
  <2>1. Unasked(w) /\ ready[w] = 0
    BY <1>1, AllTold
  <2>2. Worked(w)' = Worked(w) /\ ((w \in BehindNecessaryWork)' <=> w \in BehindNecessaryWork)
    BY <1>1, SameData, BehindOf
  <2>3. Through(w)'
    BY <1>1, <2>1, <2>2 DEF Unasked, Through
  <2>4. finish'[w] = 1 /\ request'[w] # "complete" /\ ready'[w] = 0
    BY <1>1, <2>1 DEF Unasked
  <2>5. Asked(w)'
    BY <2>3, <2>4 DEF Asked
  <2>6. QED BY <1>1, <2>5 DEF WorkerInv, AfterCycle
<1>4. QED BY <1>1, <1>2, <1>3 DEF IInv, Counted, CollectedInv

LEMMA InvOfWaitFinishSent == TypeInv /\ IInv /\ WaitFinishSent => IInv'
<1> SUFFICES ASSUME TypeInv, IInv, WaitFinishSent PROVE IInv'
  OBVIOUS
<1>1. /\ root = "finishSent" /\ root' = "gather"
      /\ UNCHANGED <<group, cycle, mReadyRemoteTasks, collected>>
      /\ UNCHANGED <<workerVars, channels>>
  BY DEF WaitFinishSent
<1>2. OptionalLeft' /\ Told' = Told /\ \A w \in Worker : SameAt(w)
  BY <1>1, SameEverywhere DEF IInv
<1>3. Place' /\ group = 1
  BY <1>1 DEF IInv, Place
<1>4. ASSUME NEW w \in Worker PROVE WorkerInv(w)'
  <2>1. AfterCycle(w) /\ SameAt(w)
    BY <1>1, <1>2 DEF IInv, WorkerInv
  <2>2. AfterCycle(w)'
    BY <1>1, <2>1, SameInCycle
  <2>3. ~(GroupOf(w) < group')
    BY <1>1, <1>3, GroupOfFacts DEF TypeInv
  <2>4. QED BY <1>1, <2>2, <2>3 DEF WorkerInv
<1>5. QED BY <1>1, <1>2, <1>3, <1>4 DEF IInv, Counted, CollectedInv

LEMMA InvOfReceiveData == TypeInv /\ IInv /\ ReceiveDataFromRemoteTasks => IInv'
<1> SUFFICES ASSUME TypeInv, IInv, ReceiveDataFromRemoteTasks PROVE IInv'
  OBVIOUS
<1>1. /\ root = "gather" /\ root' = "use"
      /\ \A w \in RanksOf(group) : gathered[w] # <<>>
      /\ UNCHANGED <<group, cycle, worker, groupData, uncompleted, request, scattered, ready, finish>>
  BY DEF ReceiveDataFromRemoteTasks, workerVars
<1>2. \A w \in Worker :
        /\ collected'[w] = IF w \in RanksOf(group) THEN Head(gathered[w]) ELSE NoGroupData
        /\ gathered'[w] = IF w \in RanksOf(group) THEN Tail(gathered[w]) ELSE gathered[w]
  BY DEF ReceiveDataFromRemoteTasks
<1>3. OptionalLeft' /\ Place'
  BY <1>1 DEF IInv, OptionalLeft, Place
<1>4. ASSUME NEW w \in Worker
      PROVE  /\ IF GroupOf(w) <= group THEN AtRest(w)' ELSE AfterCycle(w)'
             /\ w \in RanksOf(group) => collected'[w] = Worked(w)'
  <2>1. IF GroupOf(w) < group THEN AtRest(w) ELSE AfterCycle(w)
    BY <1>1 DEF IInv, WorkerInv
  <2>2. CASE GroupOf(w) = group
    <3>1. w \in RanksOf(group) /\ AfterCycle(w)
      BY <2>1, <2>2, GroupOfFacts DEF TypeInv
    <3>2. Answered(w)
      BY <1>1, <3>1 DEF AfterCycle, Asked, Through
    <3>3. gathered[w] = <<Worked(w)>>
      BY <3>2 DEF Answered
    <3>4. Head(gathered[w]) = Worked(w) /\ Tail(gathered[w]) = <<>>
      BY <3>3
    <3>5. collected'[w] = Worked(w) /\ gathered'[w] = <<>>
      BY <1>2, <3>1, <3>4
    <3>6. AtRest(w)'
      BY <1>1, <3>2, <3>5 DEF Answered, AtRest, Quiet
    <3>7. Worked(w)' = Worked(w)
      BY <1>1, SameData
    <3>8. QED BY <2>2, <3>5, <3>6, <3>7, GroupOfFacts DEF TypeInv
  <2>3. CASE GroupOf(w) # group
    <3>1. w \notin RanksOf(group)
      BY <2>3, GroupOfFacts DEF TypeInv
    <3>2. SameAt(w)
      BY <1>1, <1>2, <3>1 DEF SameAt
    <3>3. (AfterCycle(w) => AfterCycle(w)') /\ (AtRest(w) => AtRest(w)')
      BY <1>1, <3>2, SameAtRest, SameInCycle
    <3>4. GroupOf(w) <= group <=> GroupOf(w) < group
      BY <2>3, GroupOfFacts DEF TypeInv
    <3>5. QED BY <2>1, <3>1, <3>3, <3>4
  <2>4. QED BY <2>2, <2>3
<1>5. \A w \in Worker : WorkerInv(w)'
  BY <1>1, <1>4 DEF WorkerInv
<1>6. CollectedInv'
  <2>1. RanksOf(group) \in SUBSET Worker /\ RanksOf(group)' = RanksOf(group)
    BY <1>1 DEF RanksOf
  <2>2. QED BY <1>1, <1>4, <2>1 DEF CollectedInv
<1>7. QED BY <1>1, <1>3, <1>5, <1>6 DEF IInv, Counted

LEMMA InvOfUse == TypeInv /\ IInv /\ Use => IInv'
<1> SUFFICES ASSUME TypeInv, IInv, Use PROVE IInv'
  OBVIOUS
<1>1. /\ root = "use"
      /\ IF group < Len(TaskMax) THEN group' = group + 1 /\ root' = "gather"
         ELSE group' = 1 /\ root' = "idle"
      /\ cycle' = cycle /\ UNCHANGED <<workerVars, channels>>
  BY DEF Use
<1>2. OptionalLeft' /\ Told' = Told /\ \A w \in Worker : SameAt(w)
  BY <1>1, SameEverywhere DEF IInv
<1>3. Place'
  BY <1>1 DEF IInv, Place
<1>4. ASSUME NEW w \in Worker PROVE WorkerInv(w)'
  <2>1. IF GroupOf(w) <= group THEN AtRest(w) ELSE AfterCycle(w)
    BY <1>1 DEF IInv, WorkerInv
  <2>2. (AfterCycle(w) => AfterCycle(w)') /\ (AtRest(w) => AtRest(w)')
    BY <1>1, <1>2, SameAtRest, SameInCycle
  <2>3. CASE group < Len(TaskMax)
    <3>1. GroupOf(w) < group + 1 <=> GroupOf(w) <= group
      BY GroupOfFacts DEF TypeInv
    <3>2. QED BY <1>1, <2>1, <2>2, <2>3, <3>1 DEF WorkerInv
  <2>4. CASE ~(group < Len(TaskMax))
    <3>1. GroupOf(w) <= group
      BY <2>4, GroupOfFacts DEF TypeInv
    <3>2. QED BY <1>1, <2>1, <2>2, <2>4, <3>1 DEF WorkerInv
  <2>5. QED BY <2>3, <2>4
<1>5. root' \in {"gather", "idle"}
  BY <1>1
<1>6. QED BY <1>2, <1>3, <1>4, <1>5 DEF IInv, Counted, CollectedInv

LEMMA InvOfStop == TypeInv /\ IInv /\ StopAllProcesses => IInv'
<1> SUFFICES ASSUME TypeInv, IInv, StopAllProcesses PROVE IInv'
  OBVIOUS
<1> DEFINE stop == [mIsStop |-> TRUE, mDataVec |-> NoGroupData]
<1>1. /\ root = "idle" /\ root' = "stopped"
      /\ UNCHANGED <<group, cycle, worker, groupData, uncompleted, request, gathered, ready, finish>>
      /\ \A w \in Worker : scattered'[w] = Append(scattered[w], stop)
  BY DEF StopAllProcesses, workerVars
<1>2. OptionalLeft' /\ Place'
  BY <1>1 DEF IInv, OptionalLeft, Place
<1>3. ASSUME NEW w \in Worker PROVE WorkerInv(w)'
  <2>1. AtRest(w)
    BY <1>1 DEF IInv, WorkerInv
  <2> HIDE DEF stop
  <2>2. scattered'[w] = <<stop>>
    BY <1>1, <2>1 DEF AtRest
  <2>3. Quiet(w)' /\ worker'[w] = "receive"
    BY <1>1, <2>1 DEF AtRest, Quiet
  <2>4. Stopping(w)'
    BY <2>2, <2>3 DEF Stopping, stop
  <2>5. QED BY <1>1, <2>4 DEF WorkerInv
<1>4. QED BY <1>1, <1>2, <1>3 DEF IInv, Counted, CollectedInv

LEMMA InvNext == TypeInv /\ IInv /\ [Next]_vars => IInv'
<1>1. TypeInv /\ IInv /\ UNCHANGED vars => IInv'
  <2> SUFFICES ASSUME IInv, UNCHANGED vars PROVE IInv'
    OBVIOUS
  <2>1. UNCHANGED <<root, group, cycle, mReadyRemoteTasks, collected>> /\ UNCHANGED <<workerVars, channels>>
    BY DEF vars, workerVars, channels
  <2>2. OptionalLeft' /\ Told' = Told /\ \A w \in Worker : SameAt(w)
    BY <2>1, SameEverywhere DEF IInv
  <2>3. \A w \in Worker : WorkerInv(w)'
    BY <2>1, <2>2, SameAtRest, SameInCycle DEF IInv, WorkerInv
  <2>4. Place' /\ Counted'
    BY <2>1, <2>2 DEF IInv, Place, Counted
  <2>5. CollectedInv'
    BY <2>1, SameData DEF IInv, CollectedInv
  <2>6. QED BY <2>2, <2>3, <2>4, <2>5 DEF IInv
<1>2. TypeInv /\ IInv /\ Next => IInv'
  BY <1>1, InvOfWorker, InvOfRunThreads, InvOfCallSend, InvOfSendData, InvOfCallReceive,
     InvOfReceiveReady, InvOfSendFinish, InvOfWaitFinishSent, InvOfReceiveData, InvOfUse, InvOfStop
     DEF Next, RootStep, Terminated
<1>3. QED BY <1>1, <1>2

LEMMA Invariant == Spec => [](TypeInv /\ IInv)
  BY TypeInit, TypeNext, InvInit, InvNext, PTL DEF Spec
-----------------------------------------------------------------------------
(* What follows from the invariant. *)

\* No message of a cycle is on its way, and no receive open, when its last call returned.
THEOREM NothingLeftOver == Spec => []NoMessageLeftOver
<1>1. TypeInv /\ IInv => NoMessageLeftOver
  <2> SUFFICES ASSUME IInv, root \in {"idle", "stopped"}, NEW w \in Worker
               PROVE  Quiet(w)
    BY DEF NoMessageLeftOver, Quiet
  <2>1. AtRest(w) \/ Stopping(w)
    BY DEF IInv, WorkerInv
  <2>2. QED BY <2>1 DEF AtRest, Stopping
<1>2. QED BY <1>1, Invariant, PTL

\* The data handed to the program is that of this cycle, worked on by each worker of a task.
THEOREM UsesThisCycle == Spec => []UseSeesThisCycle
<1>1. TypeInv /\ IInv => UseSeesThisCycle
  <2> SUFFICES ASSUME IInv, root = "use", NEW w \in RanksOf(group), NEW t \in TasksOf(w)
               PROVE  collected[w][t] = [cycle |-> cycle, worked |-> TRUE]
    BY DEF UseSeesThisCycle
  <2>1. collected[w] = Worked(w)
    BY DEF IInv, CollectedInv
  <2>2. t \in TaskNr
    BY DEF TasksOf
  <2>3. QED BY <2>1, <2>2 DEF Worked
<1>2. QED BY <1>1, Invariant, PTL

-----------------------------------------------------------------------------
(* The refinement. *)

LEMMA FJInit == Init => FJ!Init
  BY DEF Init, FJ!Init, Working

\* Only a worker that was asked sends its data.
LEMMA SendsWhenAsked ==
  ASSUME NEW w \in Worker, SendDataToRoot(w)
  PROVE  ~InCycle(w) /\ ~AtRest(w)
  BY DEF SendDataToRoot, Goto, InCycle, AtRest, Waiting, Busy, Unasked

LEMMA BehindFrame ==
  ASSUME TypeInv, NEW w \in Worker,
         \/ ReceiveDataFromRoot(w) \/ NecessaryWork(w) \/ IsCycleFinished(w) \/ WaitReadySent(w)
         \/ \E isCompleted \in BOOLEAN : OptionalWork(w, isCompleted)
  PROVE  BehindNecessaryWork' = BehindNecessaryWork
<1>1. (w \in BehindNecessaryWork)' <=> w \in BehindNecessaryWork
  <2>1. CASE ReceiveDataFromRoot(w)
    <3>1. worker[w] = "receive" /\ worker'[w] \in {"exit", "necessary"}
      BY <2>1 DEF ReceiveDataFromRoot, Goto, TypeInv, TypeOK
    <3>2. QED BY <3>1, BehindOf
  <2>2. CASE NecessaryWork(w)
    <3>1. worker[w] = "necessary" /\ worker'[w] = "setReady"
      BY <2>2 DEF NecessaryWork, Goto, TypeInv, TypeOK
    <3>2. QED BY <3>1, BehindOf
  <2>3. CASE IsCycleFinished(w)
    <3>1. worker[w] = "finished?" /\ worker'[w] \in {"send", "optional"}
      BY <2>3 DEF IsCycleFinished, TypeInv, TypeOK
    <3>2. QED BY <3>1, BehindOf
  <2>4. CASE WaitReadySent(w)
    <3>1. worker[w] = "readySent" /\ worker'[w] = "finished?"
      BY <2>4 DEF WaitReadySent, Goto, TypeInv, TypeOK
    <3>2. QED BY <3>1, BehindOf
  <2>5. CASE \E isCompleted \in BOOLEAN : OptionalWork(w, isCompleted)
    <3>1. worker[w] = "optional" /\ worker'[w] = "finished?"
      BY <2>5 DEF OptionalWork, Goto, TypeInv, TypeOK
    <3>2. QED BY <3>1, BehindOf
  <2>6. QED BY <2>1, <2>2, <2>3, <2>4, <2>5
<1>2. \A v \in Worker : v # w => SameAt(v)
  BY StepOfWorker DEF RunTasks
<1>3. \A v \in Worker : (v \in BehindNecessaryWork)' <=> v \in BehindNecessaryWork
  BY <1>1, <1>2, SameAtRest
<1>4. BehindNecessaryWork \in SUBSET Worker /\ BehindNecessaryWork' \in SUBSET Worker
  BY DEF BehindNecessaryWork
<1>5. QED BY <1>3, <1>4

LEMMA BehindAdded ==
  ASSUME TypeInv, NEW w \in Worker, SetReady(w)
  PROVE  w \notin BehindNecessaryWork /\ BehindNecessaryWork' = BehindNecessaryWork \cup {w}
<1>1. worker[w] = "setReady" /\ worker'[w] = "readySent"
  BY DEF SetReady, Goto, TypeInv, TypeOK
<1>2. w \notin BehindNecessaryWork /\ (w \in BehindNecessaryWork)'
  BY <1>1, BehindOf
<1>3. \A v \in Worker : v # w => SameAt(v)
  BY StepOfWorker DEF RunTasks
<1>4. \A v \in Worker : v # w => ((v \in BehindNecessaryWork)' <=> v \in BehindNecessaryWork)
  BY <1>3, SameAtRest
<1>5. BehindNecessaryWork \in SUBSET Worker /\ BehindNecessaryWork' \in SUBSET Worker
  BY DEF BehindNecessaryWork
<1>6. QED BY <1>2, <1>4, <1>5

LEMMA FJOfWorker ==
  ASSUME TypeInv, IInv, NEW w \in Worker, RunTasks(w) \/ WaitReadySent(w)
  PROVE  [FJ!Next]_FJ!fjVars
<1>1. UNCHANGED <<root, group, cycle>>
  BY StepOfWorker DEF rootVars
<1>2. Working' = Working
  BY <1>1 DEF Working
<1>3. CASE ~Working
  BY <1>1, <1>2, <1>3 DEF FJ!fjVars
<1>4. CASE Working /\ SetReady(w)
  <2>1. w \notin BehindNecessaryWork /\ BehindNecessaryWork' = BehindNecessaryWork \cup {w}
    BY <1>4, BehindAdded
  <2>2. FJ!Finish(w)
    BY <1>1, <1>4, <2>1 DEF FJ!Finish, Working
  <2>3. QED BY <2>2 DEF FJ!Next
<1>5. CASE Working /\ SendDataToRoot(w)
  <2>1. ~InCycle(w) /\ ~AtRest(w)
    BY <1>5, SendsWhenAsked
  <2>2. QED BY <1>5, <2>1 DEF IInv, WorkerInv, Working
<1>6. CASE Working /\ ~SetReady(w) /\ ~SendDataToRoot(w)
  <2>1. BehindNecessaryWork' = BehindNecessaryWork
    BY <1>6, BehindFrame DEF RunTasks
  <2>2. QED BY <1>1, <1>2, <2>1 DEF FJ!fjVars
<1>7. QED BY <1>3, <1>4, <1>5, <1>6

LEMMA FJOfRoot ==
  ASSUME TypeInv, IInv,
         \/ CallSend \/ CallReceive \/ StopAllProcesses \/ RootStep \/ WaitFinishSent
  PROVE  [FJ!Next]_FJ!fjVars
<1> USE DEF Working
<1>0. cycle \in Nat /\ MaxCycle \in Nat /\ cycle <= MaxCycle /\ group \in Nat /\ group >= 1
  BY StartAssumption, Groups DEF TypeInv, TypeOK
<1>1. CASE CallSend
  <2>1. root = "idle" /\ root' = "scatter" /\ group' = 1 /\ cycle' - 1 = cycle
    BY <1>0, <1>1 DEF CallSend
  <2>2. QED BY <2>1 DEF FJ!fjVars
<1>2. CASE CallReceive
  <2>1. root = "sent" /\ root' = "finish" /\ cycle' = cycle /\ BehindNecessaryWork' = BehindNecessaryWork
    BY <1>2 DEF CallReceive, workerVars, BehindNecessaryWork
  <2>2. QED BY <2>1 DEF FJ!fjVars
<1>3. CASE StopAllProcesses
  <2>1. root = "idle" /\ root' = "stopped" /\ cycle' = cycle
    BY <1>3 DEF StopAllProcesses
  <2>2. FJ!Stop
    BY <2>1 DEF FJ!Stop
  <2>3. QED BY <2>2 DEF FJ!Next
<1>4. CASE RunThreads
  <2>1. root = "create" /\ root' = "idle" /\ cycle' = cycle
    BY <1>4 DEF RunThreads
  <2>2. QED BY <2>1 DEF FJ!fjVars
<1>5. CASE SendDataToRemoteTasks
  <2>1. root = "scatter" /\ cycle' = cycle /\ BehindNecessaryWork' = BehindNecessaryWork
    BY <1>5 DEF SendDataToRemoteTasks, workerVars, BehindNecessaryWork
  <2>2. Working'
    BY <1>0, <1>5 DEF SendDataToRemoteTasks
  <2>3. CASE group = 1
    <3>1. cycle - 1 < MaxCycle /\ cycle = (cycle - 1) + 1
      BY <1>0, <2>1 DEF IInv, Place
    <3>2. BehindNecessaryWork = {}
      <4>1. ASSUME NEW w \in Worker PROVE w \notin BehindNecessaryWork
        <5>1. ~(GroupOf(w) < group)
          BY <2>3, GroupOfFacts DEF TypeInv
        <5>2. AtRest(w)
          BY <2>1, <5>1 DEF IInv, WorkerInv
        <5>3. QED BY <5>2, BehindOf DEF AtRest
      <4>2. QED BY <4>1 DEF BehindNecessaryWork
    <3>3. ~Working /\ root' # "stopped" /\ ~(root' = "scatter" /\ group' = 1)
      BY <1>0, <1>5, <2>1, <2>2, <2>3 DEF SendDataToRemoteTasks
    <3>4. FJ!Publish
      BY <2>1, <2>2, <2>3, <3>1, <3>2, <3>3 DEF FJ!Publish
    <3>5. QED BY <3>4 DEF FJ!Next
  <2>4. CASE group # 1
    <3>1. Working /\ ~(root' = "scatter" /\ group' = 1)
      BY <1>0, <1>5, <2>1, <2>2, <2>4
    <3>2. QED BY <2>1, <2>2, <2>4, <3>1 DEF FJ!fjVars
  <2>5. QED BY <2>3, <2>4
<1>6. CASE SendFinish
  <2>1. root = "finish" /\ root' = "finishSent" /\ cycle' = cycle /\ mReadyRemoteTasks >= SystemThreadCount
    BY <1>6 DEF SendFinish
  <2>2. \A w \in Worker : w \in BehindNecessaryWork
    BY <2>1, AllTold DEF Unasked, Through
  <2>3. BehindNecessaryWork = Worker
    BY <2>2 DEF BehindNecessaryWork
  <2>4. FJ!Collect
    BY <2>1, <2>3 DEF FJ!Collect
  <2>5. QED BY <2>4 DEF FJ!Next
<1>7. ASSUME NEW w \in Worker, ReceiveReady(w) PROVE [FJ!Next]_FJ!fjVars
  <2>1. root = "finish" /\ root' = root /\ cycle' = cycle /\ BehindNecessaryWork' = BehindNecessaryWork
    BY <1>7 DEF ReceiveReady, workerVars, BehindNecessaryWork
  <2>2. QED BY <2>1 DEF FJ!fjVars
<1>8. CASE ReceiveDataFromRemoteTasks
  <2>1. root = "gather" /\ root' = "use" /\ cycle' = cycle
    BY <1>8 DEF ReceiveDataFromRemoteTasks
  <2>2. QED BY <2>1 DEF FJ!fjVars
<1>9. CASE Use
  <2>1. root = "use" /\ root' \in {"gather", "idle"} /\ cycle' = cycle
    BY <1>9 DEF Use
  <2>2. QED BY <2>1 DEF FJ!fjVars
<1>10. CASE WaitFinishSent
  <2>1. root = "finishSent" /\ root' = "gather" /\ cycle' = cycle
    BY <1>10 DEF WaitFinishSent
  <2>2. QED BY <2>1 DEF FJ!fjVars
<1>11. QED BY <1>1, <1>2, <1>3, <1>4, <1>5, <1>6, <1>7, <1>8, <1>9, <1>10 DEF RootStep

LEMMA FJNext == TypeInv /\ IInv /\ [Next]_vars => [FJ!Next]_FJ!fjVars
<1>1. UNCHANGED vars => UNCHANGED FJ!fjVars
  BY DEF vars, FJ!fjVars, Working, BehindNecessaryWork
<1>2. QED BY <1>1, FJOfRoot, FJOfWorker DEF Next, Terminated

\* The processes implement the fork and join the threads of one process implement.
THEOREM ForkJoinOfProcesses == Spec => ImplementsForkJoin
<1>1. Spec => FJ!Spec
  BY Invariant, FJInit, FJNext, PTL DEF Spec, FJ!Spec
<1>2. QED BY <1>1 DEF ImplementsForkJoin
===============================================================================
