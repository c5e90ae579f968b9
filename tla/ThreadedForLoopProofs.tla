------------------------ MODULE ThreadedForLoopProofs ------------------------
(***************************************************************************)
(* Proofs about ThreadedForLoop, for every number of threads and of        *)
(* iterations: the parts the threads compute for themselves cover each     *)
(* index exactly once, and no thread of the pool runs outside of a loop.   *)
(***************************************************************************)
EXTENDS ThreadedForLoop, TLAPS

-----------------------------------------------------------------------------
(* Division with remainder. *)

LEMMA DivisionAtMost ==
  ASSUME NEW a \in Nat, NEW d \in Nat \ {0}, NEW k \in Nat, a < d * (k + 1)
  PROVE  a \div d <= k
  OBVIOUS

LEMMA DivisionAtLeast ==
  ASSUME NEW a \in Nat, NEW d \in Nat \ {0}, NEW k \in Nat, d * k <= a
  PROVE  k <= a \div d
  OBVIOUS

LEMMA DivisionNat ==
  ASSUME NEW a \in Nat, NEW d \in Nat \ {0}
  PROVE  a \div d \in Nat
  OBVIOUS

LEMMA DivisionExact ==
  ASSUME NEW d \in Nat \ {0}, NEW k \in Nat
  PROVE  (k * d) \div d = k
  <1>1. k * d \in Nat /\ k * d < d * (k + 1) /\ d * k <= k * d
    OBVIOUS
  <1>2. (k * d) \div d <= k
    BY <1>1, DivisionAtMost
  <1>3. k <= (k * d) \div d
    BY <1>1, DivisionAtLeast
  <1>4. (k * d) \div d \in Nat
    BY <1>1, DivisionNat
  <1> QED
    BY <1>2, <1>3, <1>4

LEMMA DivisionMonotone ==
  ASSUME NEW a \in Nat, NEW b \in Nat, NEW d \in Nat \ {0}, a <= b
  PROVE  a \div d <= b \div d
  <1> DEFINE k == b \div d
  <1>1. k \in Nat /\ b < d * (k + 1)
    BY DivisionNat
  <1> HIDE DEF k
  <1>2. a < d * (k + 1)
    BY <1>1
  <1>3. a \div d <= k
    BY <1>1, <1>2, DivisionAtMost
  <1> QED
    BY <1>3 DEF k

-----------------------------------------------------------------------------
(* The parts of a loop of n iterations. *)

LEMMA ThreadFacts ==
  /\ Root \in Thread
  /\ Thread \subseteq Nat
  /\ \A r \in Thread : r < NumberOfThreads /\ r + 1 <= NumberOfThreads
  BY ConstantsAssumption DEF Root, Thread

LEMMA PartBounds ==
  ASSUME NEW n \in Nat, NEW r \in Thread
  PROVE  /\ Start(n, r) \in Nat
         /\ End(n, r) \in Nat
         /\ Start(n, r) <= End(n, r)
         /\ End(n, r) <= n
  <1> DEFINE T == NumberOfThreads
  <1>1. T \in Nat \ {0} /\ r \in Nat /\ r + 1 <= T
    BY ConstantsAssumption, ThreadFacts
  <1> HIDE DEF T
  <1>2. n * r \in Nat /\ n * (r + 1) \in Nat /\ n * T \in Nat
    BY <1>1
  <1>3. n * r <= n * (r + 1)
    BY <1>1
  <1>4. n * (r + 1) <= n * T
    <2>1. PICK k \in Nat : T = r + 1 + k
      BY <1>1
    <2>2. n * T = n * (r + 1) + n * k /\ n * k \in Nat
      BY <2>1, <1>1
    <2> QED
      BY <2>2, <1>2
  <1>5. (n * T) \div T = n
    BY <1>1, DivisionExact
  <1>6. (n * r) \div T \in Nat /\ (n * (r + 1)) \div T \in Nat
    BY <1>1, <1>2, DivisionNat
  <1>7. (n * r) \div T <= (n * (r + 1)) \div T
    BY <1>1, <1>2, <1>3, DivisionMonotone
  <1>8. (n * (r + 1)) \div T <= (n * T) \div T
    BY <1>1, <1>2, <1>4, DivisionMonotone
  <1> QED
    BY <1>5, <1>6, <1>7, <1>8 DEF Start, End, T

\* A part ends before a later one starts.
LEMMA PartsDisjoint ==
  ASSUME NEW n \in Nat, NEW r \in Thread, NEW s \in Thread, r < s
  PROVE  End(n, r) <= Start(n, s)
  <1> DEFINE T == NumberOfThreads
  <1>1. T \in Nat \ {0} /\ r \in Nat /\ s \in Nat
    BY ConstantsAssumption, ThreadFacts
  <1> HIDE DEF T
  <1>2. n * (r + 1) <= n * s
    <2>1. PICK k \in Nat : s = r + 1 + k
      BY <1>1
    <2>2. n * s = n * (r + 1) + n * k /\ n * k \in Nat
      BY <2>1, <1>1
    <2> QED
      BY <2>2, <1>1
  <1>3. n * (r + 1) \in Nat /\ n * s \in Nat
    BY <1>1
  <1>4. (n * (r + 1)) \div T <= (n * s) \div T
    BY <1>1, <1>2, <1>3, DivisionMonotone
  <1> QED
    BY <1>4 DEF Start, End, T

\* Every iteration lies in a part: that of thread ((i + 1) * T - 1) \div n.
LEMMA PartsCover ==
  ASSUME NEW n \in Nat, NEW i \in 0..(n - 1)
  PROVE  \E r \in Thread : i \in Start(n, r)..(End(n, r) - 1)
  <1> DEFINE T == NumberOfThreads
             a == (i + 1) * T - 1
             r == a \div n
  <1>1. T \in Nat \ {0}
    BY ConstantsAssumption
  <1> HIDE DEF T
  <1>2. n \in Nat \ {0} /\ i \in Nat
    OBVIOUS
  <1>3. a \in Nat /\ a < T * (i + 1)
    BY <1>1, <1>2
  <1>4. r \in Nat /\ n * r <= a /\ a < n * (r + 1)
    <2> HIDE DEF a
    <2> QED
      BY <1>2, <1>3, DivisionNat
  <1>5. r < T
    <2>1. a < n * T
      <3>1. PICK k \in Nat : n = i + 1 + k
        BY <1>2
      <3>2. n * T = (i + 1) * T + k * T /\ k * T \in Nat /\ (i + 1) * T \in Nat
        BY <3>1, <1>1, <1>2
      <3> QED
        BY <3>2
    <2> HIDE DEF a, r
    <2>2. SUFFICES ASSUME T <= r PROVE FALSE
      BY <1>1, <1>4
    <2>3. PICK k \in Nat : r = T + k
      BY <2>2, <1>1, <1>4
    <2>4. n * r = n * T + n * k /\ n * k \in Nat /\ n * T \in Nat
      BY <2>3, <1>1, <1>2
    <2> QED
      BY <2>1, <2>4, <1>3, <1>4
  <1>6. (n * r) \div T <= i
    <2>1. n * r < T * (i + 1)
      <3> HIDE DEF a, r
      <3> QED
        BY <1>1, <1>2, <1>3, <1>4
    <2> HIDE DEF r
    <2>2. n * r \in Nat
      BY <1>2, <1>4
    <2> QED
      BY <2>1, <2>2, <1>1, <1>2, DivisionAtMost
  <1>7. i + 1 <= (n * (r + 1)) \div T
    <2>1. T * (i + 1) <= n * (r + 1)
      <3>1. T * (i + 1) = a + 1
        BY <1>1, <1>2
      <3> HIDE DEF a, r
      <3>2. n * (r + 1) \in Nat
        BY <1>2, <1>4
      <3> QED
        BY <3>1, <3>2, <1>3, <1>4
    <2> HIDE DEF a, r
    <2>2. n * (r + 1) \in Nat /\ i + 1 \in Nat
      BY <1>2, <1>4
    <2> QED
      BY <2>1, <2>2, <1>1, DivisionAtLeast
  <1> HIDE DEF a, r
  <1>8. r \in Thread
    BY <1>1, <1>4, <1>5 DEF Thread, T
  <1>9. Start(n, r) <= i /\ i + 1 <= End(n, r)
    BY <1>6, <1>7 DEF Start, End, T
  <1>10. i \in Start(n, r)..(End(n, r) - 1)
    BY <1>2, <1>8, <1>9, PartBounds
  <1> QED
    BY <1>8, <1>10

-----------------------------------------------------------------------------
(* Type correctness. *)

THEOREM TypeInvariance ==
  ASSUME TypeOK, Next
  PROVE  TypeOK'
  <1> USE DEF TypeOK
  <1>0. \A r \in Thread : /\ Start(mNumberOfLoops, r) \in 0..MaxLoops
                          /\ End(mNumberOfLoops, r) \in 0..MaxLoops
    <2> SUFFICES ASSUME NEW r \in Thread
                 PROVE  /\ Start(mNumberOfLoops, r) \in 0..MaxLoops
                        /\ End(mNumberOfLoops, r) \in 0..MaxLoops
      OBVIOUS
    <2>1. mNumberOfLoops \in Nat /\ mNumberOfLoops <= MaxLoops /\ MaxLoops \in Nat
      BY ConstantsAssumption
    <2>2. /\ Start(mNumberOfLoops, r) \in Nat
          /\ End(mNumberOfLoops, r) \in Nat
          /\ Start(mNumberOfLoops, r) <= End(mNumberOfLoops, r)
          /\ End(mNumberOfLoops, r) <= mNumberOfLoops
      BY <2>1, PartBounds
    <2> QED
      BY <2>1, <2>2
  <1>1. CASE CallDoLoop
    <2>1. calls' \in 0..MaxCalls /\ mNumberOfLoops' \in 0..MaxLoops
      BY <1>1, ConstantsAssumption DEF CallDoLoop
    <2>2. iterated' \in [Index -> Nat]
      BY <1>1 DEF CallDoLoop
    <2>3. pc' \in [Thread -> {"idle", "start", "check", "loop", "end", "stop", "join", "done"}]
      BY <1>1 DEF CallDoLoop
    <2> QED
      BY <1>1, <2>1, <2>2, <2>3 DEF CallDoLoop
  <1>2. CASE Destroy
    BY <1>2 DEF Destroy
  <1>3. CASE Barrier
    <2>1. position' \in [Thread -> 0..MaxLoops]
      BY <1>3, <1>0, ThreadFacts DEF Barrier
    <2>2. pc' \in [Thread -> {"idle", "start", "check", "loop", "end", "stop", "join", "done"}]
      BY <1>3 DEF Barrier
    <2> QED
      BY <1>3, <2>1, <2>2 DEF Barrier
  <1>4. CASE \E r \in Thread : CheckTerminate(r)
    BY <1>4, <1>0 DEF CheckTerminate
  <1>5. ASSUME NEW r \in Thread, Iterate(r)
        PROVE  TypeOK'
    <2>1. CASE position[r] < End(mNumberOfLoops, r)
      <3>1. position[r] \in Index
        BY <2>1, <1>0, ConstantsAssumption DEF Index
      <3>2. iterated' \in [Index -> Nat] /\ position' \in [Thread -> 0..MaxLoops]
        BY <1>5, <2>1, <1>0, <3>1, ConstantsAssumption DEF Iterate
      <3> QED
        BY <1>5, <2>1, <3>2 DEF Iterate
    <2>2. CASE ~(position[r] < End(mNumberOfLoops, r))
      BY <1>5, <2>2 DEF Iterate
    <2> QED
      BY <2>1, <2>2
  <1>6. CASE Join
    BY <1>6 DEF Join
  <1>7. CASE Terminated
    BY <1>7 DEF Terminated, vars
  <1> QED
    BY <1>1, <1>2, <1>3, <1>4, <1>5, <1>6, <1>7 DEF Next

\* Every variable keeps its type: no thread iterates outside of the loop.
THEOREM TypeCorrect == Spec => []TypeOK
  <1>1. Init => TypeOK
    <2> SUFFICES ASSUME Init PROVE TypeOK
      OBVIOUS
    <2>1. pc \in [Thread -> {"idle", "start", "check", "loop", "end", "stop", "join", "done"}]
      BY DEF Init
    <2>2. position \in [Thread -> 0..MaxLoops] /\ iterated \in [Index -> Nat]
      BY ConstantsAssumption DEF Init
    <2>3. mNumberOfLoops \in 0..MaxLoops /\ calls \in 0..MaxCalls
      BY ConstantsAssumption DEF Init
    <2>4. mTerminate \in BOOLEAN
      BY DEF Init
    <2> QED
      BY <2>1, <2>2, <2>3, <2>4 DEF TypeOK
  <1>2. TypeOK /\ [Next]_vars => TypeOK'
    <2>1. TypeOK /\ UNCHANGED vars => TypeOK'
      BY DEF TypeOK, vars
    <2> QED
      BY <2>1, TypeInvariance
  <1> QED
    BY <1>1, <1>2, PTL DEF Spec

-----------------------------------------------------------------------------
(* The inductive invariant. *)

LEMMA InitIInv == Init => IInv
  <1> SUFFICES ASSUME Init PROVE IInv
    OBVIOUS
  <1>1. Phase
    BY ThreadFacts DEF Init, Phase
  <1>2. Parts
    <2> SUFFICES ASSUME NEW r \in Thread
                 PROVE  /\ pc[r] # "loop"
                        /\ Start(mNumberOfLoops, r)..(End(mNumberOfLoops, r) - 1) = {}
      BY DEF Parts
    <2>1. mNumberOfLoops = 0 /\ pc[r] # "loop"
      BY DEF Init
    <2> QED
      BY <2>1, PartBounds
  <1>3. Outside
    BY DEF Init, Outside
  <1> QED
    BY <1>1, <1>2, <1>3 DEF IInv

\* The indices of two threads are different ones.
LEMMA IndexOfOneThread ==
  ASSUME NEW n \in Nat, NEW r \in Thread, NEW s \in Thread, r # s,
         NEW i \in Start(n, r)..(End(n, r) - 1),
         NEW k \in Start(n, s)..(End(n, s) - 1)
  PROVE  i # k
  <1>1. r < s \/ s < r
    BY ThreadFacts
  <1>2. End(n, r) <= Start(n, s) \/ End(n, s) <= Start(n, r)
    BY <1>1, PartsDisjoint
  <1> QED
    BY <1>2, PartBounds

LEMMA IInvByRoot ==
  ASSUME TypeOK, IInv, CallDoLoop \/ Destroy \/ Join
  PROVE  IInv'
  <1> USE ThreadFacts DEF TypeOK, IInv
  <1>1. Phase'
    BY DEF Phase, CallDoLoop, Destroy, Join
  <1>2. CASE CallDoLoop
    <2>1. mNumberOfLoops' \in Nat
      BY <1>2, ConstantsAssumption DEF CallDoLoop
    <2>2. Parts'
      <3> SUFFICES ASSUME NEW r \in Thread
                   PROVE  /\ pc'[r] # "loop"
                          /\ \A i \in Start(mNumberOfLoops', r)..(End(mNumberOfLoops', r) - 1) :
                               iterated'[i] = IF i < Start(mNumberOfLoops', r) THEN 1 ELSE 0
        <4>1. pc'[Root] = "start"
          BY <1>2 DEF CallDoLoop
        <4>2. \A r \in Thread : Progress(r)' = Start(mNumberOfLoops', r)
          BY <4>1 DEF Progress
        <4> QED
          BY <4>2 DEF Parts
      <3>1. pc'[r] # "loop"
        BY <1>2 DEF CallDoLoop, Phase
      <3>2. ASSUME NEW i \in Start(mNumberOfLoops', r)..(End(mNumberOfLoops', r) - 1)
            PROVE  iterated'[i] = 0 /\ ~(i < Start(mNumberOfLoops', r))
        <4>1. /\ Start(mNumberOfLoops', r) \in Nat
              /\ End(mNumberOfLoops', r) \in Nat
              /\ End(mNumberOfLoops', r) <= mNumberOfLoops'
          BY <2>1, PartBounds
        <4>2. i \in Index
          BY <1>2, <2>1, <4>1, ConstantsAssumption DEF Index, CallDoLoop
        <4> QED
          BY <1>2, <4>1, <4>2 DEF CallDoLoop
      <3> QED
        BY <3>1, <3>2
    <2>3. Outside'
      BY <1>2 DEF CallDoLoop, Outside
    <2> QED
      BY <1>1, <2>2, <2>3
  <1>3. CASE Destroy \/ Join
    <2>1. UNCHANGED <<position, mNumberOfLoops, iterated>>
      BY <1>3 DEF Destroy, Join
    <2>2. pc[Root] \in {"idle", "join"} /\ pc'[Root] \in {"stop", "done"}
      BY <1>3 DEF Destroy, Join
    <2>3. \A r \in Thread : Progress(r)' = Progress(r)
      <3> SUFFICES ASSUME NEW r \in Thread PROVE Progress(r)' = Progress(r)
        OBVIOUS
      <3>1. Progress(r) = End(mNumberOfLoops, r)
        BY <2>2 DEF Progress
      <3>2. Progress(r)' = End(mNumberOfLoops', r)
        BY <2>2 DEF Progress
      <3> QED
        BY <2>1, <3>1, <3>2
    <2>4. \A r \in Thread : pc'[r] = "loop" => pc[r] = "loop"
      BY <1>3 DEF Destroy, Join
    <2>5. Parts'
      BY <2>1, <2>3, <2>4 DEF Parts, Start, End
    <2>6. Outside'
      BY <2>1 DEF Outside
    <2> QED
      BY <1>1, <2>5, <2>6
  <1> QED
    BY <1>2, <1>3

LEMMA IInvByBarrier ==
  ASSUME TypeOK, IInv, Barrier
  PROVE  IInv'
  <1> USE ThreadFacts DEF TypeOK, IInv
  <1>1. UNCHANGED <<mNumberOfLoops, mTerminate, iterated>>
    BY DEF Barrier
  <1>2. \/ pc[Root] \in {"start", "stop"} /\ \A r \in Thread \ {Root} : pc[r] = "start"
        \/ pc[Root] = "end" /\ \A r \in Thread \ {Root} : pc[r] = "end"
    BY DEF Barrier, Phase
  <1>3. Outside'
    BY <1>1 DEF Outside
  <1>4. CASE pc[Root] = "start"
    <2>1. /\ pc'[Root] = "loop"
          /\ \A r \in Thread \ {Root} : pc'[r] = "check"
          /\ position'[Root] = Start(mNumberOfLoops, Root)
      BY <1>2, <1>4 DEF Barrier
    <2>2. Phase'
      BY <1>1, <1>4, <2>1 DEF Phase
    <2>3. Parts'
      <3> SUFFICES ASSUME NEW r \in Thread
                   PROVE  /\ pc'[r] = "loop" => position'[r] \in Start(mNumberOfLoops, r)..End(mNumberOfLoops, r)
                          /\ Progress(r)' = Progress(r)
        BY <1>1 DEF Parts, Start, End
      <3>1. Progress(r) = Start(mNumberOfLoops, r)
        BY <1>4 DEF Progress
      <3>2. Progress(r)' = Start(mNumberOfLoops', r)
        BY <1>1, <2>1 DEF Progress
      <3>3. pc'[r] = "loop" => r = Root
        BY <2>1
      <3>4. Start(mNumberOfLoops, Root) \in Start(mNumberOfLoops, Root)..End(mNumberOfLoops, Root)
        BY PartBounds, ConstantsAssumption
      <3> QED
        BY <1>1, <2>1, <3>1, <3>2, <3>3, <3>4
    <2> QED
      BY <1>3, <2>2, <2>3
  <1>5. CASE pc[Root] \in {"stop", "end"}
    <2>1. pc'[Root] = IF pc[Root] = "stop" THEN "join" ELSE "idle"
      BY <1>5 DEF Barrier
    <2>2. \A r \in Thread \ {Root} : pc'[r] = IF pc[Root] = "stop" THEN "check" ELSE "start"
      BY <1>2, <1>5 DEF Barrier
    <2>3. Phase'
      BY <1>1, <1>5, <2>1, <2>2 DEF Phase
    <2>4. Parts'
      <3> SUFFICES ASSUME NEW r \in Thread
                   PROVE  pc'[r] # "loop" /\ Progress(r)' = Progress(r)
        BY <1>1 DEF Parts, Start, End
      <3>1. Progress(r) = End(mNumberOfLoops, r)
        <4>1. pc[Root] = "end" => pc[r] = "end"
          BY <1>2
        <4> QED
          BY <4>1, <1>5 DEF Progress
      <3>2. Progress(r)' = End(mNumberOfLoops', r)
        BY <2>1 DEF Progress
      <3> QED
        BY <1>1, <2>1, <2>2, <3>1, <3>2
    <2> QED
      BY <1>3, <2>3, <2>4
  <1> QED
    BY <1>2, <1>4, <1>5

LEMMA IInvByCheckTerminate ==
  ASSUME TypeOK, IInv, NEW r \in Thread, CheckTerminate(r)
  PROVE  IInv'
  <1> USE ThreadFacts DEF TypeOK, IInv
  <1>1. UNCHANGED <<mNumberOfLoops, mTerminate, iterated>> /\ r # Root /\ pc'[Root] = pc[Root]
    BY DEF CheckTerminate, Phase
  <1>2. Phase'
    BY <1>1 DEF CheckTerminate, Phase
  <1>3. Outside'
    BY <1>1 DEF Outside
  <1>4. Parts'
    <2> SUFFICES ASSUME NEW s \in Thread
                 PROVE  /\ pc'[s] = "loop" => position'[s] \in Start(mNumberOfLoops, s)..End(mNumberOfLoops, s)
                        /\ Progress(s)' = Progress(s)
      BY <1>1 DEF Parts, Start, End
    <2>1. CASE s # r
      <3>1. pc'[s] = pc[s] /\ position'[s] = position[s]
        BY <2>1 DEF CheckTerminate
      <3> QED
        BY <1>1, <3>1 DEF Progress, Parts, Start, End
    <2>2. CASE s = r
      <3>1. Start(mNumberOfLoops, r) \in Start(mNumberOfLoops, r)..End(mNumberOfLoops, r)
        <4>1. mNumberOfLoops \in Nat
          BY ConstantsAssumption
        <4>2. Start(mNumberOfLoops, r) \in Nat /\ End(mNumberOfLoops, r) \in Nat
              /\ Start(mNumberOfLoops, r) <= End(mNumberOfLoops, r)
          BY <4>1, PartBounds
        <4> QED
          BY <4>2
      <3>2. /\ pc[r] = "check"
            /\ position'[r] = Start(mNumberOfLoops, r)
            /\ pc'[r] = IF mTerminate THEN "done" ELSE "loop"
        BY DEF CheckTerminate
      <3>3. CASE mTerminate
        <4>1. pc[Root] \in {"join", "done"} /\ pc'[r] = "done"
          BY <1>1, <3>2, <3>3 DEF Phase
        <4> QED
          BY <1>1, <2>2, <4>1 DEF Progress, Start, End
      <3>4. CASE ~mTerminate
        <4>1. pc[Root] \in {"loop", "end"} /\ pc'[r] = "loop"
          BY <1>1, <3>2, <3>4 DEF Phase
        <4>2. Progress(r) = Start(mNumberOfLoops, r)
          BY <3>2, <4>1 DEF Progress
        <4>3. Progress(r)' = position'[r]
          BY <1>1, <4>1 DEF Progress
        <4> QED
          BY <2>2, <3>1, <3>2, <4>2, <4>3
      <3> QED
        BY <3>3, <3>4
    <2> QED
      BY <2>1, <2>2
  <1> QED
    BY <1>2, <1>3, <1>4

LEMMA IInvByIterate ==
  ASSUME TypeOK, IInv, NEW r \in Thread, Iterate(r)
  PROVE  IInv'
  <1> USE ThreadFacts DEF TypeOK, IInv
  <1> DEFINE n == mNumberOfLoops
  <1>1. UNCHANGED <<mNumberOfLoops, mTerminate>> /\ pc[r] = "loop" /\ n \in Nat
    BY ConstantsAssumption DEF Iterate
  <1>0. /\ Start(n, r) \in Nat /\ End(n, r) \in Nat
        /\ Start(n, r) <= End(n, r) /\ End(n, r) <= n /\ n <= MaxLoops
    BY <1>1, PartBounds, ConstantsAssumption
  <1>2. pc[Root] \in {"loop", "end"} /\ pc'[Root] \in {"loop", "end"}
    BY <1>1 DEF Iterate, Phase
  <1>3. Phase'
    BY <1>1, <1>2 DEF Iterate, Phase
  <1>4. Progress(r) = position[r] /\ position[r] \in Start(n, r)..End(n, r)
    BY <1>1, <1>2 DEF Progress, Parts
  <1>5. CASE position[r] < End(n, r)
    <2>1. /\ iterated' = [iterated EXCEPT ![position[r]] = @ + 1]
          /\ position' = [position EXCEPT ![r] = @ + 1]
          /\ pc' = pc
      BY <1>5 DEF Iterate
    <2>2. position[r] \in Index /\ position[r] < n /\ position[r] \in Start(n, r)..(End(n, r) - 1)
      BY <1>0, <1>1, <1>4, <1>5, ConstantsAssumption DEF Index
    <2>3. Outside'
      BY <1>1, <2>1, <2>2 DEF Outside, Index
    <2>4. Parts'
      <3> SUFFICES ASSUME NEW s \in Thread
                   PROVE  /\ pc'[s] = "loop" => position'[s] \in Start(n, s)..End(n, s)
                          /\ \A i \in Start(n, s)..(End(n, s) - 1) :
                               iterated'[i] = IF i < Progress(s)' THEN 1 ELSE 0
        BY <1>1 DEF Parts, Start, End
      <3>1. CASE s # r
        <4>1. position'[s] = position[s] /\ Progress(s)' = Progress(s)
          BY <1>1, <2>1, <3>1 DEF Progress, Start, End
        <4>2. ASSUME NEW i \in Start(n, s)..(End(n, s) - 1)
              PROVE  iterated'[i] = iterated[i]
          <5>1. i # position[r]
            BY <1>1, <2>2, <3>1, IndexOfOneThread
          <5> QED
            BY <2>1, <5>1
        <4> QED
          BY <2>1, <4>1, <4>2 DEF Parts
      <3>2. CASE s = r
        <4>1. position'[r] = position[r] + 1 /\ Progress(r)' = position'[r]
          BY <1>1, <1>2, <2>1 DEF Progress
        <4>2. position'[r] \in Start(n, r)..End(n, r)
          BY <1>0, <1>4, <1>5, <4>1
        <4>3. ASSUME NEW i \in Start(n, r)..(End(n, r) - 1)
              PROVE  iterated'[i] = IF i < position[r] + 1 THEN 1 ELSE 0
          <5>1. iterated[i] = IF i < position[r] THEN 1 ELSE 0
            BY <1>4 DEF Parts
          <5>2. i \in Index
            BY <1>0, <1>1, ConstantsAssumption DEF Index
          <5>3. iterated'[i] = IF i = position[r] THEN iterated[i] + 1 ELSE iterated[i]
            BY <2>1, <5>2
          <5> QED
            BY <1>0, <1>4, <5>1, <5>3
        <4> QED
          BY <3>2, <4>1, <4>2, <4>3
      <3> QED
        BY <3>1, <3>2
    <2> QED
      BY <1>3, <2>3, <2>4
  <1>6. CASE ~(position[r] < End(n, r))
    <2>1. UNCHANGED <<position, iterated>> /\ pc' = [pc EXCEPT ![r] = "end"]
      BY <1>6 DEF Iterate
    <2>2. position[r] = End(n, r)
      BY <1>0, <1>4, <1>6
    <2>3. Outside'
      BY <1>1, <2>1 DEF Outside
    <2>4. \A s \in Thread : Progress(s)' = Progress(s)
      <3> SUFFICES ASSUME NEW s \in Thread PROVE Progress(s)' = Progress(s)
        OBVIOUS
      <3>1. CASE s # r
        BY <1>1, <1>2, <2>1, <3>1 DEF Progress, Start, End
      <3>2. CASE s = r
        <4>1. Progress(r)' = End(n, r)
          BY <1>1, <1>2, <2>1 DEF Progress, Start, End
        <4> QED
          BY <1>4, <2>2, <3>2, <4>1
      <3> QED
        BY <3>1, <3>2
    <2>5. \A s \in Thread : pc'[s] = "loop" => pc[s] = "loop"
      BY <2>1
    <2>6. Parts'
      BY <1>1, <2>1, <2>4, <2>5 DEF Parts, Start, End
    <2> QED
      BY <1>3, <2>3, <2>6
  <1> QED
    BY <1>5, <1>6

LEMMA IInvByStutter ==
  ASSUME IInv, UNCHANGED vars
  PROVE  IInv'
  BY DEF IInv, Phase, Parts, Outside, Progress, Start, End, vars

LEMMA Invariance == Spec => [](TypeOK /\ IInv)
  <1>1. TypeOK /\ IInv /\ [Next]_vars => IInv'
    <2> SUFFICES ASSUME TypeOK, IInv, [Next]_vars PROVE IInv'
      OBVIOUS
    <2>1. CASE UNCHANGED vars
      BY <2>1, IInvByStutter
    <2>2. CASE CallDoLoop \/ Destroy \/ Join
      BY <2>2, IInvByRoot
    <2>3. CASE Barrier
      BY <2>3, IInvByBarrier
    <2>4. ASSUME NEW r \in Thread, CheckTerminate(r) \/ Iterate(r)
          PROVE  IInv'
      BY <2>4, IInvByCheckTerminate, IInvByIterate
    <2>5. CASE Terminated
      BY <2>5, IInvByStutter DEF Terminated
    <2> QED
      BY <2>1, <2>2, <2>3, <2>4, <2>5 DEF Next
  <1> QED
    BY <1>1, InitIInv, TypeCorrect, PTL DEF Spec

-----------------------------------------------------------------------------
(* The theorems. *)

\* DoLoop iterates every index below numberOfLoops exactly once.
THEOREM EveryIndexOnce == Spec => []ExactlyOnce
  <1>1. TypeOK /\ IInv => ExactlyOnce
    <2> SUFFICES ASSUME TypeOK, IInv, pc[Root] = "idle", NEW i \in Index
                 PROVE  iterated[i] = IF i < mNumberOfLoops THEN 1 ELSE 0
      BY DEF ExactlyOnce
    <2>1. mNumberOfLoops \in Nat /\ i \in Nat
      BY ConstantsAssumption DEF TypeOK, Index
    <2>2. CASE i < mNumberOfLoops
      <3>1. PICK r \in Thread : i \in Start(mNumberOfLoops, r)..(End(mNumberOfLoops, r) - 1)
        BY <2>1, <2>2, PartsCover
      <3>2. Progress(r) = End(mNumberOfLoops, r)
        BY DEF Progress
      <3>3. iterated[i] = 1
        BY <2>1, <3>1, <3>2, PartBounds DEF IInv, Parts
      <3> QED
        BY <2>2, <3>3
    <2>3. CASE ~(i < mNumberOfLoops)
      BY <2>1, <2>3 DEF IInv, Outside
    <2> QED
      BY <2>2, <2>3
  <1> QED
    BY <1>1, Invariance, PTL

\* No thread of the pool reads the loop's members while the caller is outside
\* of a loop.
THEOREM PoolRests == Spec => []PoolAtRest
  <1>1. IInv => PoolAtRest
    BY DEF IInv, Phase, PoolAtRest
  <1> QED
    BY <1>1, Invariance, PTL
=============================================================================
