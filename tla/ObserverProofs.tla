--------------------------- MODULE ObserverProofs ---------------------------
(***************************************************************************)
(* Theorems about Observer for every chain of filters, every limit and     *)
(* every number of samples and aging steps: type correctness, no sample is *)
(* lost or written twice, rows match times, files stay below their limit.  *)
(***************************************************************************)
EXTENDS Observer, TLAPS

(***************************************************************************)
(* The inductive invariant.                                                *)
(***************************************************************************)
Matlabs == OfClass("MatlabFilter") \cap Undecimated

\* A filter has the place and values of its entry, and a Matlab filter is below its limit.
FilterOK(f, k) ==
  /\ f \in FilterType
  /\ f.position = k /\ f.class = AllFilters[k].class /\ f.limit = AllFilters[k].limit
  /\ f.class = "MatlabFilter" =>
       /\ Match(f.rows, f.mTime)
       /\ f.mSampleCounter = Len(f.mTime) * NumberOfElements
       /\ f.mTime = <<>> \/ f.mSampleCounter < f.limit

Bounded(file) ==
  Len(file.samples) = 1
    \/ (Len(file.samples) - 1) * NumberOfElements < AllFilters[file.name.position].limit

FileOK(file) ==
  /\ file \in FileType
  /\ AllFilters[file.name.position].class = "MatlabFilter" =>
       Match(file.rows, file.samples) /\ Bounded(file)

\* the chain is complete while the simulation runs, and gone at the end
ChainInv ==
  /\ pc \in {"run", "reset"} => Len(chain) = Len(AllFilters)
  /\ pc = "ended" => chain = <<>>
  /\ \A k \in DOMAIN chain : FilterOK(chain[k], k)

\* setOutputFilenames leaves the filters the name of the aging step they were created in
StepInv ==
  \A k \in DOMAIN chain : chain[k].class = "MatlabFilter" =>
    agingStep = IF pc = "reset" THEN chain[k].step + 1 ELSE chain[k].step

FilesAt(k) == {file \in files : file.name.position = k}

Buffer(k) == IF k \in DOMAIN chain THEN chain[k].mTime ELSE <<>>

\* the next file of a filter has a name none of its files has
NamesInv(k) ==
  \A file \in FilesAt(k) :
    /\ k \in DOMAIN chain => Earlier(file.name, Name(chain[k]))
    /\ k \notin DOMAIN chain /\ pc = "create" => file.name.step < agingStep

Separate(f, g) ==
  Earlier(f.name, g.name)
    /\ \A p \in DOMAIN f.samples, q \in DOMAIN g.samples : f.samples[p] < g.samples[q]

\* of n samples the buffer holds the last ones and the files each of the others, in order
Holds(fs, buffer, n) ==
  /\ buffer \in Seq(Nat) /\ Len(buffer) <= n
  /\ \A p \in 1..Len(buffer) : buffer[p] = (n - Len(buffer)) + p
  /\ \A f \in fs : \A p \in 1..Len(f.samples) :
       /\ f.samples[p] \in 1..(n - Len(buffer))
       /\ \A q \in 1..Len(f.samples) : p < q <=> f.samples[p] < f.samples[q]
  /\ \A f, g \in fs : f = g \/ Separate(f, g) \/ Separate(g, f)
  /\ \A i \in 1..(n - Len(buffer)) :
       \E f \in fs : \E p \in 1..Len(f.samples) : f.samples[p] = i

OutputInv(k) == NamesInv(k) /\ Holds(FilesAt(k), Buffer(k), Len(observed))

IInv ==
  /\ TypeOK
  /\ ChainInv
  /\ StepInv
  /\ \A file \in files : FileOK(file)
  /\ \A k \in Matlabs : OutputInv(k)

(***************************************************************************)
(* Records and sequences.                                                  *)
(***************************************************************************)
LEMMA ElementOfSeq ==
  ASSUME NEW S, NEW s \in Seq(S), NEW i \in 1..Len(s)
  PROVE  s[i] \in S
OBVIOUS

\* AllFilters holds filters of the XML file and the default ones, and no others.
LEMMA AllFiltersType ==
  /\ AllFilters \in Seq([class : Classes, limit : Nat])
  /\ Len(AllFilters) \in Nat /\ DOMAIN AllFilters = 1..Len(AllFilters)
  /\ \A k \in DOMAIN AllFilters : AllFilters[k].class \in Classes /\ AllFilters[k].limit \in Nat
<1>1. AllFilters \in Seq([class : Classes, limit : Nat])
  BY FiltersAssumption DEF AllFilters
<1>2. \A k \in 1..Len(AllFilters) : AllFilters[k] \in [class : Classes, limit : Nat]
  BY <1>1, ElementOfSeq
<1>3. QED BY <1>1, <1>2

\* A pushed sample changes the times, the counter and the rows of a filter, in their types.
LEMMA PushFields ==
  ASSUME NEW f \in FilterType, NEW i \in Nat
  PROVE  /\ MatlabPush(f, i) \in FilterType
         /\ MatlabPush(f, i).class = f.class /\ MatlabPush(f, i).limit = f.limit
         /\ Name(MatlabPush(f, i)) = Name(f) /\ MatlabPush(f, i).step = f.step
         /\ MatlabPush(f, i).position = f.position
         /\ MatlabPush(f, i).mTime = Append(f.mTime, i)
         /\ MatlabPush(f, i).mSampleCounter = f.mSampleCounter + NumberOfElements
         /\ \A m \in Matrices : \A r \in 1..NumberOfElements :
              /\ r \in DOMAIN MatlabPush(f, i).rows[m]
              /\ MatlabPush(f, i).rows[m][r] = f.rows[m][r] + IF r \in Rows[m] THEN 1 ELSE 0
<1> DEFINE row(m) == [r \in DOMAIN f.rows[m] |-> f.rows[m][r] + IF r \in Rows[m] THEN 1 ELSE 0]
           rows == [m \in Matrices |-> row(m)]
<1>1. \A m \in Matrices : f.rows[m] \in [1..NumberOfElements -> Nat]
  BY DEF FilterType
<1>2. rows \in [Matrices -> [1..NumberOfElements -> Nat]]
  <2>1. ASSUME NEW m \in Matrices
        PROVE  row(m) \in [1..NumberOfElements -> Nat]
    <3>1. \A r \in 1..NumberOfElements : f.rows[m][r] \in Nat
      BY <1>1
    <3>2. DOMAIN f.rows[m] = 1..NumberOfElements
      BY <1>1
    <3>3. QED BY <3>1, <3>2
  <2> HIDE DEF row
  <2>2. QED BY <2>1
<1>3. \A m \in Matrices : \A r \in 1..NumberOfElements :
        r \in DOMAIN rows[m] /\ rows[m][r] = f.rows[m][r] + IF r \in Rows[m] THEN 1 ELSE 0
  BY <1>1
<1>4. Append(f.mTime, i) \in Seq(Nat) /\ f.mSampleCounter + NumberOfElements \in Nat
  BY ElementsAssumption DEF FilterType
<1>5. MatlabPush(f, i) = [f EXCEPT !.mTime = Append(f.mTime, i),
                                   !.mSampleCounter = f.mSampleCounter + NumberOfElements,
                                   !.rows = rows]
  BY DEF MatlabPush
<1> HIDE DEF row, rows
<1>6. QED BY <1>2, <1>3, <1>4, <1>5 DEF FilterType, Name

\* The next file has the next number, no times, and empty rows.
LEMMA NextFields ==
  ASSUME NEW f \in FilterType
  PROVE  /\ NextFile(f) \in FilterType
         /\ NextFile(f).class = f.class /\ NextFile(f).limit = f.limit
         /\ NextFile(f).step = f.step /\ NextFile(f).position = f.position
         /\ NextFile(f).mTime = <<>> /\ NextFile(f).mSampleCounter = 0
         /\ Name(NextFile(f)) = [position |-> f.position, step |-> f.step,
                                 number |-> f.mCurrentCycle + 1]
         /\ \A m \in Matrices : \A r \in 1..NumberOfElements :
              r \in DOMAIN NextFile(f).rows[m] /\ NextFile(f).rows[m][r] = 0
<1> DEFINE rows == [m \in Matrices |-> [r \in 1..mMatrixSizes |-> 0]]
           none == <<>>
           zero == 0
           next == f.mCurrentCycle + 1
<1>1. rows \in [Matrices -> [1..NumberOfElements -> Nat]]
  BY DEF mMatrixSizes
<1>2. \A m \in Matrices : \A r \in 1..NumberOfElements : r \in DOMAIN rows[m] /\ rows[m][r] = 0
  BY DEF mMatrixSizes
<1>3. NextFile(f) = [f EXCEPT !.mCurrentCycle = next, !.mTime = none,
                              !.mSampleCounter = zero, !.rows = rows]
  BY DEF NextFile
<1>4. /\ next \in Nat /\ next = f.mCurrentCycle + 1
      /\ none \in Seq(Nat) /\ none = <<>> /\ zero \in Nat /\ zero = 0
  BY DEF FilterType
<1> HIDE DEF rows, none, zero, next
<1>5. NextFile(f) \in FilterType
  BY <1>1, <1>3, <1>4 DEF FilterType
<1>6. /\ NextFile(f).class = f.class /\ NextFile(f).limit = f.limit
      /\ NextFile(f).step = f.step /\ NextFile(f).position = f.position
      /\ NextFile(f).mTime = none /\ NextFile(f).mSampleCounter = zero
      /\ NextFile(f).mCurrentCycle = next /\ NextFile(f).rows = rows
  BY <1>3 DEF FilterType
<1>7. QED BY <1>2, <1>4, <1>5, <1>6 DEF Name

\* What a filter becomes with a sample it arrives at.
LEMMA ProcessedFields ==
  ASSUME NEW f \in FilterType, NEW i \in Nat, NEW t \in 0..MaxTime
  PROVE  /\ Processed(f, i, t) \in FilterType
         /\ Processed(f, i, t).class = f.class /\ Processed(f, i, t).limit = f.limit
         /\ Processed(f, i, t).step = f.step /\ Processed(f, i, t).position = f.position
         /\ f.class = "MatlabFilter" => Processed(f, i, t) = MatlabPush(f, i)
<1>1. CASE f.class = "MatlabFilter"
  BY <1>1, PushFields DEF Processed
<1>2. CASE f.class = "CSVFilter"
  <2>1. Processed(f, i, t) = [f EXCEPT !.mTime = Append(f.mTime, i)]
    BY <1>2 DEF Processed
  <2>2. Append(f.mTime, i) \in Seq(Nat)
    BY DEF FilterType
  <2>3. QED BY <1>2, <2>1, <2>2 DEF FilterType
<1>3. CASE f.class \notin {"MatlabFilter", "CSVFilter"} /\ f.class = "DecimateFilter" /\ Passes(f, t)
  <2>1. Processed(f, i, t) = [f EXCEPT !.mLastPassedTime = t]
    BY <1>3 DEF Processed
  <2>2. t \in 0..Lowest
    BY BoundsAssumption DEF Lowest
  <2>3. QED BY <1>3, <2>1, <2>2 DEF FilterType
<1>4. CASE f.class \notin {"MatlabFilter", "CSVFilter"} /\ ~(f.class = "DecimateFilter" /\ Passes(f, t))
  BY <1>4 DEF Processed
<1>5. QED BY <1>1, <1>2, <1>3, <1>4

\* A new filter has the type of filters, and is empty.
LEMMA NewFilterFields ==
  ASSUME TypeOK, NEW k \in DOMAIN AllFilters
  PROVE  /\ NewFilter(k) \in FilterType
         /\ NewFilter(k).class = AllFilters[k].class /\ NewFilter(k).limit = AllFilters[k].limit
         /\ NewFilter(k).position = k /\ NewFilter(k).mTime = <<>>
         /\ NewFilter(k).mSampleCounter = 0 /\ NewFilter(k).mCurrentCycle = 0
         /\ NewFilter(k).mLastPassedTime = Lowest
         /\ NewFilter(k).class = "MatlabFilter" => NewFilter(k).step = agingStep
         /\ \A m \in Matrices : \A r \in 1..NumberOfElements :
              r \in DOMAIN NewFilter(k).rows[m] /\ NewFilter(k).rows[m][r] = 0
<1> DEFINE rows == [m \in Matrices |-> [r \in 1..NumberOfElements |-> 0]]
           step == IF AllFilters[k].class \in Renamed THEN agingStep ELSE 0
<1>1. rows \in [Matrices -> [1..NumberOfElements -> Nat]]
  OBVIOUS
<1>2. \A m \in Matrices : \A r \in 1..NumberOfElements : r \in DOMAIN rows[m] /\ rows[m][r] = 0
  OBVIOUS
<1>3. step \in 0..MaxAgingSteps /\ (AllFilters[k].class = "MatlabFilter" => step = agingStep)
  BY BoundsAssumption DEF TypeOK, Renamed
<1>4. Lowest \in 0..Lowest /\ k \in 1..Len(AllFilters)
  BY BoundsAssumption, AllFiltersType DEF Lowest
<1>5. NewFilter(k) =
        [class |-> AllFilters[k].class, limit |-> AllFilters[k].limit, position |-> k, step |-> step,
         mCurrentCycle |-> 0, mTime |-> <<>>, mSampleCounter |-> 0, rows |-> rows,
         mLastPassedTime |-> Lowest]
  BY DEF NewFilter
<1> HIDE DEF rows, step
<1>6. QED BY <1>1, <1>2, <1>3, <1>4, <1>5, AllFiltersType DEF FilterType

(***************************************************************************)
(* What a filter holds and has written.                                    *)
(***************************************************************************)
\* A sample more, held in memory.
LEMMA HoldsPush ==
  ASSUME NEW fs \in SUBSET FileType, NEW buffer, NEW n \in Nat, Holds(fs, buffer, n)
  PROVE  Holds(fs, Append(buffer, n + 1), n + 1)
<1> DEFINE longer == Append(buffer, n + 1)
<1>1. /\ buffer \in Seq(Nat) /\ Len(buffer) \in Nat /\ Len(buffer) <= n
      /\ longer \in Seq(Nat) /\ Len(longer) = Len(buffer) + 1
      /\ longer[Len(buffer) + 1] = n + 1
      /\ \A p \in 1..Len(buffer) : longer[p] = buffer[p]
  BY DEF Holds
<1> HIDE DEF longer
<1>2. (n + 1) - Len(longer) = n - Len(buffer)
  BY <1>1
<1>3. ASSUME NEW p \in 1..Len(longer)
      PROVE  longer[p] = ((n + 1) - Len(longer)) + p
  <2>1. CASE p = Len(buffer) + 1
    BY <1>1, <2>1
  <2>2. CASE p # Len(buffer) + 1
    <3>1. p \in 1..Len(buffer)
      BY <1>1, <2>2
    <3>2. buffer[p] = (n - Len(buffer)) + p
      BY <3>1 DEF Holds
    <3>3. QED BY <1>1, <1>2, <3>1, <3>2
  <2>3. QED BY <2>1, <2>2
<1>4. Holds(fs, longer, n + 1)
  <2> DEFINE base == n - Len(buffer)
  <2>1. /\ \A f \in fs : \A p \in 1..Len(f.samples) :
             /\ f.samples[p] \in 1..base
             /\ \A q \in 1..Len(f.samples) : p < q <=> f.samples[p] < f.samples[q]
        /\ \A f, g \in fs : f = g \/ Separate(f, g) \/ Separate(g, f)
        /\ \A i \in 1..base : \E f \in fs : \E p \in 1..Len(f.samples) : f.samples[p] = i
    BY DEF Holds
  <2>2. base = (n + 1) - Len(longer)
    BY <1>2
  <2>3. Len(longer) <= n + 1
    BY <1>1
  <2> HIDE DEF base
  <2>4. QED BY <1>1, <1>3, <2>1, <2>2, <2>3 DEF Holds
<1>5. QED BY <1>4 DEF longer

\* What is held in memory, written to a file with a later name than the others.
LEMMA HoldsWrite ==
  ASSUME NEW fs \in SUBSET FileType, NEW buffer, NEW n \in Nat, Holds(fs, buffer, n),
         NEW file \in FileType, file.samples = buffer,
         \A g \in fs : Earlier(g.name, file.name)
  PROVE  Holds(fs \cup {file}, <<>>, n)
<1> DEFINE all == fs \cup {file}
           none == <<>>
           base == n - Len(buffer)
<1>1. buffer \in Seq(Nat) /\ Len(buffer) \in Nat /\ Len(buffer) <= n /\ base \in 0..n
  BY DEF Holds
<1>2. none \in Seq(Nat) /\ Len(none) = 0 /\ n - Len(none) = n
  OBVIOUS
<1>3. \A p \in 1..Len(buffer) : buffer[p] = base + p
  BY DEF Holds
<1>4. \A f \in fs : /\ Len(f.samples) \in Nat /\ DOMAIN f.samples = 1..Len(f.samples)
                    /\ \A p \in 1..Len(f.samples) : f.samples[p] \in 1..base
  BY DEF Holds, FileType
<1>5. DOMAIN buffer = 1..Len(buffer)
  BY <1>1
<1>6. ASSUME NEW f \in all, NEW p \in 1..Len(f.samples)
      PROVE  /\ f.samples[p] \in 1..n
             /\ \A q \in 1..Len(f.samples) : p < q <=> f.samples[p] < f.samples[q]
  <2>1. CASE f \in fs
    <3>1. \A q \in 1..Len(f.samples) : p < q <=> f.samples[p] < f.samples[q]
      BY <2>1 DEF Holds
    <3>2. f.samples[p] \in 1..base
      BY <1>4, <2>1
    <3>3. QED BY <1>1, <3>1, <3>2
  <2>2. CASE f = file
    <3> HIDE DEF all, none
    <3>1. /\ p \in 1..Len(buffer) /\ f.samples[p] = base + p
          /\ \A q \in 1..Len(buffer) : f.samples[q] = base + q
      BY <1>3, <2>2
    <3>2. base + p \in 1..n /\ \A q \in 1..Len(buffer) : p < q <=> base + p < base + q
      BY <1>1, <3>1
    <3>3. QED BY <2>2, <3>1, <3>2
  <2>3. QED BY <2>1, <2>2
<1>7. ASSUME NEW f \in all, NEW g \in all
      PROVE  f = g \/ Separate(f, g) \/ Separate(g, f)
  <2>1. ASSUME NEW e \in fs
        PROVE  Separate(e, file)
    <3>1. Earlier(e.name, file.name)
      OBVIOUS
    <3> HIDE DEF all, none, base
    <3>2. ASSUME NEW p \in DOMAIN e.samples, NEW q \in DOMAIN file.samples
          PROVE  e.samples[p] < file.samples[q]
      <4>1. e.samples[p] \in 1..base
        BY <1>4
      <4>2. q \in 1..Len(buffer) /\ file.samples[q] = base + q
        BY <1>3, <1>5
      <4>3. QED BY <1>1, <4>1, <4>2
    <3>3. QED BY <3>1, <3>2 DEF Separate
  <2>2. CASE f \in fs /\ g \in fs
    BY <2>2 DEF Holds
  <2>3. QED BY <2>1, <2>2
<1>8. ASSUME NEW i \in 1..n
      PROVE  \E f \in all : \E p \in 1..Len(f.samples) : f.samples[p] = i
  <2>1. CASE i <= base
    <3>1. i \in 1..base
      BY <1>1, <2>1
    <3>2. QED BY <3>1 DEF Holds
  <2>2. CASE i > base
    <3>1. i - base \in 1..Len(buffer) /\ base + (i - base) = i
      BY <1>1, <2>2
    <3>2. buffer[i - base] = i
      BY <1>3, <3>1
    <3>3. file \in all /\ i - base \in 1..Len(file.samples) /\ file.samples[i - base] = i
      BY <3>1, <3>2
    <3>4. QED BY <3>3
  <2>3. QED BY <1>1, <2>1, <2>2
<1> HIDE DEF all, none, base
<1>9. Holds(all, none, n)
  <2>1. \A p \in 1..Len(none) : none[p] = (n - Len(none)) + p
    BY <1>2
  <2>2. QED BY <1>2, <1>6, <1>7, <1>8, <2>1 DEF Holds
<1>10. QED BY <1>9 DEF all, none

(***************************************************************************)
(* A call of the observer.                                                 *)
(***************************************************************************)
LEMMA ChainElement ==
  ASSUME TypeOK, ChainInv
  PROVE  /\ Len(chain) \in Nat /\ DOMAIN chain = 1..Len(chain) /\ Len(chain) <= Len(AllFilters)
         /\ \A k \in DOMAIN chain : /\ k \in DOMAIN AllFilters /\ chain[k] \in FilterType
                                    /\ FilterOK(chain[k], k)
<1>1. Len(chain) \in Nat /\ DOMAIN chain = 1..Len(chain) /\ Len(chain) <= Len(AllFilters)
  BY DEF TypeOK
<1>2. \A k \in 1..Len(chain) : k \in 1..Len(AllFilters)
  BY <1>1, AllFiltersType
<1>3. QED BY <1>1, <1>2, AllFiltersType DEF ChainInv, FilterOK

LEMMA ObservedLength ==
  ASSUME TypeOK
  PROVE  Len(observed) \in Nat /\ Len(observed) + 1 \in Nat /\ DOMAIN observed = 1..Len(observed)
BY DEF TypeOK

\* Each matrix has its rows, and the pushed sample is added to those of its elements.
LEMMA MatchPush ==
  ASSUME NEW f \in FilterType, NEW i \in Nat, Match(f.rows, f.mTime)
  PROVE  Match(MatlabPush(f, i).rows, Append(f.mTime, i))
<1>1. Len(f.mTime) \in Nat /\ Len(Append(f.mTime, i)) = Len(f.mTime) + 1
  BY DEF FilterType
<1> DEFINE times == Append(f.mTime, i)
           pushed == MatlabPush(f, i).rows
<1>2. \A m \in Matrices : \A r \in 1..NumberOfElements :
        r \in DOMAIN pushed[m] /\ pushed[m][r] = f.rows[m][r] + IF r \in Rows[m] THEN 1 ELSE 0
  BY PushFields
<1>3. Len(times) = Len(f.mTime) + 1
  BY <1>1
<1> HIDE DEF times, pushed
<1>4. Match(pushed, times)
  BY <1>1, <1>2, <1>3 DEF Match
<1>5. QED BY <1>4 DEF times, pushed

\* A file of a Matlab filter whose rows match is a file that is in order.
LEMMA WrittenFields ==
  ASSUME NEW f \in FilterType
  PROVE  /\ Written(f) \in FileType /\ Written(f).name = Name(f)
         /\ Written(f).samples = f.mTime /\ Written(f).rows = f.rows
         /\ Name(f).position = f.position /\ Name(f).step = f.step
         /\ Name(f).number = f.mCurrentCycle
<1>1. Name(f) \in [position : 1..Len(AllFilters), step : 0..MaxAgingSteps, number : Nat]
  BY DEF Name, FilterType
<1>2. /\ Name(f).position = f.position /\ Name(f).step = f.step
      /\ Name(f).number = f.mCurrentCycle
  BY DEF Name
<1>3. f.mTime \in Seq(Nat) /\ f.rows \in [Matrices -> [1..NumberOfElements -> Nat]]
  BY DEF FilterType
<1>4. QED BY <1>1, <1>2, <1>3 DEF Written, FileType

After(k, t) == IF k \in Reached(t) THEN Processed(chain[k], Len(observed) + 1, t) ELSE chain[k]

Full(t) == {k \in Reached(t) : MaxSampleReached(After(k, t))}

LEMMA ObserveExpanded ==
  ASSUME NEW t, Observe(t)
  PROVE  /\ observed' = Append(observed, [time |-> t, step |-> agingStep])
         /\ chain' = [k \in DOMAIN chain |->
                       IF k \in Full(t) THEN NextFile(After(k, t)) ELSE After(k, t)]
         /\ files' = {file \in files : \A k \in Full(t) : file.name # Name(NextFile(After(k, t)))}
                       \cup UNION {FilesOf(After(k, t)) : k \in Full(t)}
<1> DEFINE after == [k \in DOMAIN chain |->
                 IF k \in Reached(t) THEN Processed(chain[k], Len(observed) + 1, t) ELSE chain[k]]
           full == {k \in Reached(t) : MaxSampleReached(after[k])}
<1>1. \A k \in DOMAIN chain : after[k] = After(k, t)
  BY DEF After
<1>2. /\ observed' = Append(observed, [time |-> t, step |-> agingStep])
      /\ chain' = [k \in DOMAIN chain |-> IF k \in full THEN NextFile(after[k]) ELSE after[k]]
      /\ files' = {file \in files : \A k \in full : file.name # Name(NextFile(after[k]))}
                    \cup UNION {FilesOf(after[k]) : k \in full}
  BY DEF Observe
<1>3. Reached(t) \subseteq DOMAIN chain
  BY DEF Reached
<1> HIDE DEF after
<1>4. full = Full(t) /\ full \subseteq DOMAIN chain
  BY <1>1, <1>3 DEF Full
<1> HIDE DEF full
<1>5. chain' = [k \in DOMAIN chain |->
                 IF k \in Full(t) THEN NextFile(After(k, t)) ELSE After(k, t)]
  BY <1>1, <1>2, <1>4
<1>6. {file \in files : \A k \in full : file.name # Name(NextFile(after[k]))}
        = {file \in files : \A k \in Full(t) : file.name # Name(NextFile(After(k, t)))}
  BY <1>1, <1>4
<1>7. UNION {FilesOf(after[k]) : k \in full} = UNION {FilesOf(After(k, t)) : k \in Full(t)}
  BY <1>1, <1>4
<1>8. QED BY <1>2, <1>5, <1>6, <1>7

\* What a filter has become when the observer was called, before a full file is closed.
LEMMA AfterFields ==
  ASSUME TypeOK, ChainInv, NEW t \in 0..MaxTime, NEW k \in DOMAIN chain
  PROVE  /\ After(k, t) \in FilterType /\ After(k, t).position = k
         /\ After(k, t).class = AllFilters[k].class /\ After(k, t).limit = AllFilters[k].limit
         /\ After(k, t).step = chain[k].step
         /\ chain[k].class = "MatlabFilter" =>
              After(k, t) = IF k \in Reached(t) THEN MatlabPush(chain[k], Len(observed) + 1)
                            ELSE chain[k]
<1>1. chain[k] \in FilterType /\ FilterOK(chain[k], k)
  BY ChainElement
<1>2. Len(observed) + 1 \in Nat
  BY ObservedLength
<1>3. CASE k \in Reached(t)
  BY <1>1, <1>2, <1>3, ProcessedFields DEF After, FilterOK
<1>4. CASE k \notin Reached(t)
  BY <1>1, <1>4 DEF After, FilterOK
<1>5. QED BY <1>3, <1>4

\* Of a Matlab filter: rows and times match; with its last sample it was not full before.
LEMMA AfterMatlab ==
  ASSUME TypeOK, ChainInv, NEW t \in 0..MaxTime, NEW k \in DOMAIN chain,
         chain[k].class = "MatlabFilter"
  PROVE  LET f == After(k, t)
         IN  /\ Match(f.rows, f.mTime)
             /\ f.mSampleCounter = Len(f.mTime) * NumberOfElements
             /\ k \notin Full(t) => f.mTime = <<>> \/ f.mSampleCounter < f.limit
             /\ k \in Full(t) => /\ f.mTime # <<>>
                                 /\ \/ Len(f.mTime) = 1
                                    \/ (Len(f.mTime) - 1) * NumberOfElements < f.limit
<1> DEFINE c == chain[k]
           i == Len(observed) + 1
           f == After(k, t)
<1>1. /\ c \in FilterType /\ Match(c.rows, c.mTime)
      /\ c.mSampleCounter = Len(c.mTime) * NumberOfElements
      /\ c.mTime = <<>> \/ c.mSampleCounter < c.limit
      /\ c.class = "MatlabFilter"
  BY ChainElement DEF FilterOK
<1>2. i \in Nat
  BY ObservedLength
<1>3. CASE k \in Reached(t)
  <2>1. f = MatlabPush(c, i)
    BY <1>3, AfterFields
  <2>2. /\ f.mTime = Append(c.mTime, i) /\ f.limit = c.limit /\ f.class = "MatlabFilter"
        /\ f.mSampleCounter = c.mSampleCounter + NumberOfElements
        /\ Match(f.rows, f.mTime)
    <3> HIDE DEF c, i, f
    <3>1. Match(f.rows, Append(c.mTime, i))
      BY <1>1, <1>2, <2>1, MatchPush
    <3>2. QED BY <1>1, <1>2, <2>1, <3>1, PushFields
  <2>3. /\ c.mTime \in Seq(Nat) /\ Len(c.mTime) \in Nat /\ Len(f.mTime) = Len(c.mTime) + 1
        /\ f.mTime # <<>> /\ (c.mTime = <<>> => Len(c.mTime) = 0)
    <3> HIDE DEF c, i, f
    <3>1. c.mTime \in Seq(Nat)
      BY <1>1 DEF FilterType
    <3>2. f.mTime = Append(c.mTime, i)
      BY <2>2
    <3>3. QED BY <1>2, <3>1, <3>2
  <2>4. NumberOfElements \in Nat /\ c.limit \in Nat
    BY <1>1, ElementsAssumption DEF FilterType
  <2>5. k \in Full(t) <=> f.mSampleCounter >= f.limit
    BY <1>3, <2>2 DEF Full, MaxSampleReached
  <2> HIDE DEF c, i, f
  <2>6. f.mSampleCounter = Len(f.mTime) * NumberOfElements
    BY <1>1, <2>2, <2>3, <2>4
  <2>7. Len(f.mTime) = 1 \/ (Len(f.mTime) - 1) * NumberOfElements < f.limit
    <3>1. CASE c.mTime = <<>>
      BY <2>3, <3>1
    <3>2. CASE c.mTime # <<>>
      <4>1. Len(f.mTime) - 1 = Len(c.mTime)
        BY <2>3
      <4>2. QED BY <1>1, <2>2, <3>2, <4>1
    <3>3. QED BY <3>1, <3>2
  <2>8. f.mSampleCounter \in Nat /\ f.limit \in Nat
    BY <2>2, <2>3, <2>4, <2>6
  <2>9. k \notin Full(t) => f.mSampleCounter < f.limit
    BY <2>5, <2>8
  <2>10. QED BY <2>2, <2>3, <2>6, <2>7, <2>9 DEF f
<1>4. CASE k \notin Reached(t)
  <2>1. f = c /\ k \notin Full(t)
    BY <1>4, AfterFields DEF Full
  <2>2. QED BY <1>1, <2>1
<1>5. QED BY <1>3, <1>4

\* A full filter is a Matlab filter, which has a file to write.
LEMMA FullFields ==
  ASSUME TypeOK, ChainInv, NEW t \in 0..MaxTime, NEW k \in Full(t)
  PROVE  /\ k \in DOMAIN chain /\ chain[k].class = "MatlabFilter"
         /\ k \in DOMAIN AllFilters /\ AllFilters[k].class = "MatlabFilter"
         /\ FilesOf(After(k, t)) = {Written(After(k, t))}
         /\ After(k, t) \in FilterType
<1>1. k \in DOMAIN chain /\ After(k, t).class = "MatlabFilter"
  BY DEF Full, Reached, MaxSampleReached
<1>2. After(k, t) \in FilterType /\ After(k, t).class = AllFilters[k].class
  BY <1>1, AfterFields
<1>3. FilterOK(chain[k], k) /\ k \in DOMAIN AllFilters
  BY <1>1, ChainElement
<1>4. chain[k].class = "MatlabFilter" /\ AllFilters[k].class = "MatlabFilter"
  BY <1>1, <1>2, <1>3 DEF FilterOK
<1>5. After(k, t).mTime # <<>>
  BY <1>1, <1>4, AfterMatlab
<1>6. QED BY <1>1, <1>2, <1>3, <1>4, <1>5 DEF FilesOf, Writes

\* An empty filter is in order.
LEMMA MatchNothing ==
  ASSUME NEW rows, \A m \in Matrices : \A r \in 1..NumberOfElements :
                     r \in DOMAIN rows[m] /\ rows[m][r] = 0
  PROVE  Match(rows, <<>>)
<1>1. Len(<<>>) = 0
  OBVIOUS
<1>2. QED BY <1>1 DEF Match

\* After the call all filters are in order.
LEMMA ObserveChain ==
  ASSUME TypeOK, ChainInv, NEW t \in 0..MaxTime, Observe(t)
  PROVE  /\ chain' \in Seq(FilterType) /\ Len(chain') = Len(chain) /\ DOMAIN chain' = DOMAIN chain
         /\ \A k \in DOMAIN chain' : FilterOK(chain'[k], k) /\ chain'[k].step = chain[k].step
<1> DEFINE new(k) == IF k \in Full(t) THEN NextFile(After(k, t)) ELSE After(k, t)
<1>1. chain' = [k \in DOMAIN chain |-> new(k)]
  BY ObserveExpanded
<1>2. Len(chain) \in Nat /\ DOMAIN chain = 1..Len(chain)
  BY ChainElement
<1>3. ASSUME NEW k \in DOMAIN chain
      PROVE  new(k) \in FilterType /\ FilterOK(new(k), k) /\ new(k).step = chain[k].step
  <2> DEFINE f == After(k, t)
  <2>1. /\ f \in FilterType /\ f.position = k /\ f.class = AllFilters[k].class
        /\ f.limit = AllFilters[k].limit /\ f.step = chain[k].step
    BY AfterFields
  <2>2. chain[k].class = AllFilters[k].class
    BY ChainElement DEF FilterOK
  <2>3. CASE k \in Full(t)
    <3>1. new(k) = NextFile(f)
      BY <2>3
    <3>2. Match(NextFile(f).rows, <<>>)
      BY <2>1, NextFields, MatchNothing
    <3>3. 0 = Len(<<>>) * NumberOfElements
      BY ElementsAssumption
    <3> HIDE DEF f, new
    <3>4. QED BY <2>1, <3>1, <3>2, <3>3, NextFields DEF FilterOK
  <2>4. CASE k \notin Full(t)
    <3>1. new(k) = f
      BY <2>4
    <3>2. f.class = "MatlabFilter" =>
            /\ Match(f.rows, f.mTime)
            /\ f.mSampleCounter = Len(f.mTime) * NumberOfElements
            /\ f.mTime = <<>> \/ f.mSampleCounter < f.limit
      BY <2>1, <2>2, <2>4, AfterMatlab
    <3> HIDE DEF f, new
    <3>3. QED BY <2>1, <3>1, <3>2 DEF FilterOK
  <2>5. QED BY <2>3, <2>4
<1> HIDE DEF new
<1>4. chain' \in Seq(FilterType) /\ Len(chain') = Len(chain) /\ DOMAIN chain' = DOMAIN chain
  BY <1>1, <1>2, <1>3
<1>5. QED BY <1>1, <1>3, <1>4

\* The files that full filters write are in order.
LEMMA ObserveFiles ==
  ASSUME TypeOK, ChainInv, NEW t \in 0..MaxTime, Observe(t), \A file \in files : FileOK(file)
  PROVE  \A file \in files' : FileOK(file)
<1>1. SUFFICES ASSUME NEW k \in Full(t)
               PROVE  FileOK(Written(After(k, t)))
  <2>1. ASSUME NEW file \in files'
        PROVE  file \in files \/ \E k \in Full(t) : file \in FilesOf(After(k, t))
    <3> DEFINE kept == {g \in files : \A k \in Full(t) : g.name # Name(NextFile(After(k, t)))}
    <3>1. files' = kept \cup UNION {FilesOf(After(k, t)) : k \in Full(t)}
      BY ObserveExpanded
    <3>2. kept \subseteq files
      OBVIOUS
    <3> HIDE DEF kept
    <3>3. QED BY <2>1, <3>1, <3>2
  <2>2. QED BY <1>1, <2>1, FullFields
<1> DEFINE f == After(k, t)
<1>2. /\ f \in FilterType /\ f.position = k /\ f.limit = AllFilters[k].limit
      /\ k \in DOMAIN chain /\ chain[k].class = "MatlabFilter"
  BY FullFields, AfterFields
<1>3. /\ Match(f.rows, f.mTime)
      /\ Len(f.mTime) = 1 \/ (Len(f.mTime) - 1) * NumberOfElements < f.limit
  BY <1>2, AfterMatlab
<1> HIDE DEF f
<1>4. FileOK(Written(f))
  BY <1>2, <1>3, WrittenFields DEF FileOK, Bounded
<1>5. QED BY <1>4 DEF f

\* A sample arrives at each filter in front of which nothing is decimated.
LEMMA UndecimatedReached ==
  ASSUME TypeOK, ChainInv, NEW t, NEW k \in Matlabs, k \in DOMAIN chain
  PROVE  k \in Reached(t) /\ chain[k].class = "MatlabFilter"
<1>1. k \in DOMAIN AllFilters /\ AllFilters[k].class = "MatlabFilter"
      /\ \A j \in 1..(k - 1) : AllFilters[j].class # "DecimateFilter"
  BY DEF Matlabs, OfClass, Undecimated
<1>2. k \in 1..Len(chain) /\ Len(chain) \in Nat /\ DOMAIN chain = 1..Len(chain)
  BY ChainElement
<1>3. ASSUME NEW j \in 1..(k - 1)
      PROVE  Passes(chain[j], t)
  <2>1. j \in DOMAIN chain
    BY <1>2
  <2>2. chain[j].class = AllFilters[j].class
    BY <2>1, ChainElement DEF FilterOK
  <2>3. QED BY <1>1, <2>2 DEF Passes
<1>4. chain[k].class = "MatlabFilter"
  BY <1>1, ChainElement DEF FilterOK
<1>5. QED BY <1>3, <1>4 DEF Reached

\* A full filter writes one file, and closes and creates files of its own place only.
LEMMA FullNames ==
  ASSUME TypeOK, ChainInv, NEW t \in 0..MaxTime
  PROVE  \A j \in Full(t) : /\ FilesOf(After(j, t)) = {Written(After(j, t))}
                            /\ Written(After(j, t)).name.position = j
                            /\ Name(NextFile(After(j, t))).position = j
<1>1. ASSUME NEW j \in Full(t)
      PROVE  /\ FilesOf(After(j, t)) = {Written(After(j, t))}
             /\ Written(After(j, t)).name.position = j
             /\ Name(NextFile(After(j, t))).position = j
  <2>1. /\ j \in DOMAIN chain /\ After(j, t) \in FilterType /\ After(j, t).position = j
        /\ FilesOf(After(j, t)) = {Written(After(j, t))}
    BY FullFields, AfterFields
  <2>2. /\ Written(After(j, t)).name = Name(After(j, t)) /\ Name(After(j, t)).position = j
    BY <2>1, WrittenFields
  <2>3. Name(NextFile(After(j, t))).position = j
    BY <2>1, NextFields
  <2>4. QED BY <2>1, <2>2, <2>3
<1>2. QED BY <1>1

\* The files of a filter that is not full stay as they are.
LEMMA FilesOfOthers ==
  ASSUME TypeOK, ChainInv, NEW t \in 0..MaxTime, Observe(t), NEW k, k \notin Full(t)
  PROVE  FilesAt(k)' = FilesAt(k)
<1> DEFINE kept == {file \in files : \A j \in Full(t) : file.name # Name(NextFile(After(j, t)))}
<1>1. files' = kept \cup UNION {FilesOf(After(j, t)) : j \in Full(t)}
  BY ObserveExpanded
<1>2. ASSUME NEW j \in Full(t)
      PROVE  /\ Name(NextFile(After(j, t))).position # k
             /\ \A file \in FilesOf(After(j, t)) : file.name.position # k
  BY FullNames
<1>3. \A file \in files : file.name.position = k => file \in kept
  BY <1>2
<1>4. \A file \in files' : file.name.position = k => file \in files
  BY <1>1, <1>2
<1> HIDE DEF kept
<1>5. FilesAt(k)' = {file \in files' : file.name.position = k}
  BY DEF FilesAt
<1>6. QED BY <1>1, <1>3, <1>4, <1>5 DEF FilesAt

\* A call either leaves the files of a Matlab filter it arrives at alone, and the sample in its
\* memory, or adds the file it fills.
LEMMA ObserveAt ==
  ASSUME TypeOK, ChainInv, NEW t \in 0..MaxTime, Observe(t), NEW k \in Reached(t),
         k \in DOMAIN chain, chain[k].class = "MatlabFilter", NamesInv(k)
  PROVE  LET g == MatlabPush(chain[k], Len(observed) + 1)
         IN  \/ chain'[k] = g /\ FilesAt(k)' = FilesAt(k)
             \/ chain'[k] = NextFile(g) /\ FilesAt(k)' = FilesAt(k) \cup {Written(g)}
<1> DEFINE g == MatlabPush(chain[k], Len(observed) + 1)
           kept == {file \in files : \A j \in Full(t) : file.name # Name(NextFile(After(j, t)))}
<1>1. After(k, t) = g
  BY AfterFields
<1>2. /\ files' = kept \cup UNION {FilesOf(After(j, t)) : j \in Full(t)}
      /\ chain'[k] = IF k \in Full(t) THEN NextFile(g) ELSE g
  BY <1>1, ObserveExpanded
<1>3. \A j \in Full(t) : /\ FilesOf(After(j, t)) = {Written(After(j, t))}
                         /\ Written(After(j, t)).name.position = j
                         /\ Name(NextFile(After(j, t))).position = j
  BY FullNames
<1>4. FilesAt(k) \subseteq kept
  <2>1. ASSUME NEW file \in FilesAt(k), NEW j \in Full(t), file.name = Name(NextFile(After(j, t)))
        PROVE  FALSE
    <3>1. j = k
      BY <1>3, <2>1 DEF FilesAt
    <3>2. g \in FilterType /\ g.position = chain[k].position /\ g.step = chain[k].step
          /\ Name(g) = Name(chain[k])
      BY ChainElement, ObservedLength, PushFields
    <3>3. /\ file.name.step = g.step /\ file.name.number = g.mCurrentCycle + 1
          /\ g.mCurrentCycle \in Nat /\ g.step \in Nat
      BY <1>1, <2>1, <3>1, <3>2, NextFields DEF FilterType
    <3>4. Name(g).step = g.step /\ Name(g).number = g.mCurrentCycle
      BY <3>2, WrittenFields
    <3>5. Earlier(file.name, Name(g))
      BY <2>1, <3>2 DEF NamesInv
    <3>6. QED BY <3>3, <3>4, <3>5 DEF Earlier
  <2>2. QED BY <2>1 DEF FilesAt
<1>5. kept \subseteq files
  OBVIOUS
<1> HIDE DEF kept, g
<1>6. {file \in kept : file.name.position = k} = FilesAt(k)
  BY <1>4, <1>5 DEF FilesAt
<1>7. FilesAt(k)' = {file \in files' : file.name.position = k}
  BY DEF FilesAt
<1>8. CASE k \in Full(t)
  <2>1. Written(g) \in files' /\ Written(g).name.position = k
    BY <1>1, <1>2, <1>3, <1>8
  <2>2. ASSUME NEW file \in files', file.name.position = k
        PROVE  file \in FilesAt(k) \/ file = Written(g)
    BY <1>1, <1>2, <1>3, <1>6, <2>2
  <2>3. FilesAt(k)' = FilesAt(k) \cup {Written(g)}
    BY <1>2, <1>6, <1>7, <2>1, <2>2
  <2>4. QED BY <1>2, <1>8, <2>3 DEF g
<1>9. CASE k \notin Full(t)
  BY <1>2, <1>9, FilesOfOthers DEF g
<1>10. QED BY <1>8, <1>9

LEMMA FilesAtType ==
  ASSUME TypeOK, NEW k
  PROVE  FilesAt(k) \in SUBSET FileType
BY DEF TypeOK, FilesAt

\* After a call the next file of a Matlab filter has a name none of its files has.
LEMMA ObserveNames ==
  ASSUME TypeOK, ChainInv, NEW t \in 0..MaxTime, Observe(t), NEW k \in DOMAIN chain,
         chain[k].class = "MatlabFilter", NamesInv(k)
  PROVE  NamesInv(k)'
<1> DEFINE g == MatlabPush(chain[k], Len(observed) + 1)
<1>1. chain[k] \in FilterType /\ Len(observed) + 1 \in Nat /\ k \in DOMAIN chain'
  BY ChainElement, ObservedLength, ObserveChain
<1>2. g \in FilterType /\ Name(g) = Name(chain[k])
  BY <1>1, PushFields
<1>3. \A file \in FilesAt(k) : file \in FileType /\ Earlier(file.name, Name(chain[k]))
  BY FilesAtType DEF NamesInv
<1>4. Name(chain[k])' = Name(chain'[k])
  BY DEF Name
<1>5. SUFFICES \A file \in FilesAt(k)' : Earlier(file.name, Name(chain'[k]))
  BY <1>1, <1>4 DEF NamesInv
<1>6. CASE k \in Reached(t)
  <2>1. \/ chain'[k] = g /\ FilesAt(k)' = FilesAt(k)
        \/ chain'[k] = NextFile(g) /\ FilesAt(k)' = FilesAt(k) \cup {Written(g)}
    BY <1>6, ObserveAt
  <2> HIDE DEF g
  <2>2. CASE chain'[k] = g /\ FilesAt(k)' = FilesAt(k)
    BY <1>2, <1>3, <2>2
  <2>3. CASE chain'[k] = NextFile(g) /\ FilesAt(k)' = FilesAt(k) \cup {Written(g)}
    <3>1. /\ Written(g).name = Name(g) /\ Name(g).step = g.step /\ Name(g).number = g.mCurrentCycle
      BY <1>2, WrittenFields
    <3>2. Name(NextFile(g)) = [position |-> g.position, step |-> g.step,
                               number |-> g.mCurrentCycle + 1]
      BY <1>2, NextFields
    <3>3. /\ Name(NextFile(g)).step = g.step /\ Name(NextFile(g)).number = g.mCurrentCycle + 1
          /\ g.mCurrentCycle \in Nat /\ g.step \in Nat
      BY <1>2, <3>2 DEF FilterType
    <3>4. ASSUME NEW file \in FilesAt(k) \cup {Written(g)}
          PROVE  Earlier(file.name, Name(NextFile(g)))
      <4>1. CASE file \in FilesAt(k)
        <5>1. Earlier(file.name, Name(g)) /\ file.name.number \in Nat /\ file.name.step \in Nat
          BY <1>2, <1>3, <4>1 DEF FileType
        <5>2. QED BY <3>1, <3>3, <5>1 DEF Earlier
      <4>2. CASE file = Written(g)
        BY <3>1, <3>3, <4>2 DEF Earlier
      <4>3. QED BY <4>1, <4>2
    <3>5. QED BY <2>3, <3>4
  <2>4. QED BY <2>1, <2>2, <2>3
<1>7. CASE k \notin Reached(t)
  <2>1. k \notin Full(t) /\ After(k, t) = chain[k]
    BY <1>7 DEF Full, After
  <2>2. chain'[k] = chain[k] /\ FilesAt(k)' = FilesAt(k)
    BY <2>1, ObserveExpanded, FilesOfOthers
  <2>3. QED BY <1>3, <2>2
<1>8. QED BY <1>6, <1>7

\* A call of the observer keeps what NothingLost is about.
LEMMA ObserveOutput ==
  ASSUME TypeOK, ChainInv, Len(chain) = Len(AllFilters), NEW t \in 0..MaxTime, Observe(t),
         NEW k \in Matlabs, OutputInv(k)
  PROVE  OutputInv(k)'
<1> DEFINE c == chain[k]
           n == Len(observed)
           g == MatlabPush(c, n + 1)
<1>1. k \in DOMAIN chain /\ k \in DOMAIN chain'
  BY AllFiltersType, ChainElement, ObserveChain DEF Matlabs, OfClass
<1>2. c \in FilterType /\ n \in Nat /\ n + 1 \in Nat
  BY <1>1, ChainElement, ObservedLength
<1>3. /\ g \in FilterType /\ Name(g) = Name(c) /\ g.mTime = Append(c.mTime, n + 1)
      /\ g.position = c.position /\ g.step = c.step
  BY <1>2, PushFields
<1>4. Len(observed)' = n + 1 /\ Len(observed') = n + 1
  <2>1. observed' = Append(observed, [time |-> t, step |-> agingStep])
    BY ObserveExpanded
  <2>2. QED BY <2>1 DEF TypeOK
<1>5. /\ \A file \in FilesAt(k) : file \in FileType /\ Earlier(file.name, Name(c))
      /\ Holds(FilesAt(k), c.mTime, n) /\ FilesAt(k) \in SUBSET FileType
  BY <1>1, FilesAtType DEF OutputInv, NamesInv, Buffer
<1>6. Buffer(k)' = chain'[k].mTime
  BY <1>1 DEF Buffer
<1>7. k \in Reached(t) /\ chain[k].class = "MatlabFilter"
  BY <1>1, UndecimatedReached
<1>8. \/ chain'[k] = g /\ FilesAt(k)' = FilesAt(k)
      \/ chain'[k] = NextFile(g) /\ FilesAt(k)' = FilesAt(k) \cup {Written(g)}
  BY <1>1, <1>7, ObserveAt DEF OutputInv
<1>9. NamesInv(k)'
  BY <1>1, <1>7, ObserveNames DEF OutputInv
<1> HIDE DEF c, n, g
<1>10. Holds(FilesAt(k), g.mTime, n + 1)
  BY <1>2, <1>3, <1>5, HoldsPush
<1>11. CASE chain'[k] = g /\ FilesAt(k)' = FilesAt(k)
  BY <1>4, <1>6, <1>9, <1>10, <1>11 DEF OutputInv
<1>12. CASE chain'[k] = NextFile(g) /\ FilesAt(k)' = FilesAt(k) \cup {Written(g)}
  <2>1. /\ Written(g) \in FileType /\ Written(g).name = Name(g) /\ Written(g).samples = g.mTime
        /\ NextFile(g).mTime = <<>>
    BY <1>3, WrittenFields, NextFields
  <2>2. Holds(FilesAt(k) \cup {Written(g)}, <<>>, n + 1)
    BY <1>2, <1>3, <1>5, <1>10, <2>1, HoldsWrite
  <2>3. QED BY <1>4, <1>6, <1>9, <1>12, <2>1, <2>2 DEF OutputInv
<1>13. QED BY <1>8, <1>11, <1>12

(***************************************************************************)
(* The end of a chain.                                                     *)
(***************************************************************************)
LEMMA DestroyedFiles ==
  ASSUME TypeOK, ChainInv, DestroyFilters, \A file \in files : FileOK(file)
  PROVE  \A file \in files' : FileOK(file)
<1>1. \A file \in files' : file \in files \/ \E k \in DOMAIN chain : file \in FilesOf(chain[k])
  BY DEF DestroyFilters
<1>2. ASSUME NEW k \in DOMAIN chain, chain[k].mTime # <<>>
      PROVE  FileOK(Written(chain[k]))
  <2> DEFINE f == chain[k]
  <2>1. /\ f \in FilterType /\ FilterOK(f, k) /\ k \in DOMAIN AllFilters
    BY ChainElement
  <2>2. /\ Written(f) \in FileType /\ Written(f).samples = f.mTime /\ Written(f).rows = f.rows
        /\ Written(f).name.position = k
    BY <2>1, WrittenFields DEF FilterOK
  <2>3. /\ f.class = AllFilters[k].class /\ f.limit = AllFilters[k].limit /\ f.limit \in Nat
        /\ Len(f.mTime) \in Nat /\ f.mTime # <<>>
        /\ f.class = "MatlabFilter" =>
             /\ Match(f.rows, f.mTime) /\ Len(f.mTime) * NumberOfElements < f.limit
    BY <1>2, <2>1 DEF FilterOK, FilterType
  <2> HIDE DEF f
  <2>4. (Len(f.mTime) - 1) * NumberOfElements = Len(f.mTime) * NumberOfElements - NumberOfElements
    BY <2>3, ElementsAssumption
  <2>5. Len(f.mTime) * NumberOfElements \in Nat
    BY <2>3, ElementsAssumption
  <2>6. Len(f.mTime) * NumberOfElements < f.limit =>
          (Len(f.mTime) - 1) * NumberOfElements < f.limit
    BY <2>3, <2>4, <2>5, ElementsAssumption
  <2>7. FileOK(Written(f))
    BY <2>2, <2>3, <2>6 DEF FileOK, Bounded
  <2>8. QED BY <2>7 DEF f
<1>3. QED BY <1>1, <1>2 DEF FilesOf

\* The end of a chain writes what its filters hold, under names none of the files has.
LEMMA DestroyedAt ==
  ASSUME TypeOK, ChainInv, StepInv, DestroyFilters, UNCHANGED agingStep,
         pc' = "create" => pc = "reset",
         NEW k \in DOMAIN chain, chain[k].class = "MatlabFilter", NamesInv(k)
  PROVE  /\ FilesAt(k)' = FilesAt(k) \cup FilesOf(chain[k])
         /\ Buffer(k)' = <<>>
         /\ NamesInv(k)'
<1> DEFINE c == chain[k]
<1>1. chain' = <<>> /\ k \notin DOMAIN chain'
  BY DEF DestroyFilters
<1>2. c \in FilterType /\ c.class = "MatlabFilter" /\ c.position = k
  BY ChainElement DEF FilterOK
<1>3. \A file \in FilesAt(k) : file \in FileType /\ Earlier(file.name, Name(c))
  BY FilesAtType DEF NamesInv
<1>4. \A j \in DOMAIN chain : \A file \in FilesOf(chain[j]) : file.name.position = j
  <2>1. ASSUME NEW j \in DOMAIN chain, NEW file \in FilesOf(chain[j])
        PROVE  file.name.position = j
    <3>1. chain[j] \in FilterType /\ chain[j].position = j
      BY ChainElement DEF FilterOK
    <3>2. file = Written(chain[j])
      BY DEF FilesOf
    <3>3. QED BY <3>1, <3>2, WrittenFields
  <2>2. QED BY <2>1
<1>5. files' = files \cup UNION {FilesOf(chain[j]) : j \in DOMAIN chain}
  BY DEF DestroyFilters
<1>6. FilesAt(k)' = {file \in files' : file.name.position = k}
  BY DEF FilesAt
<1>7. FilesAt(k)' = FilesAt(k) \cup FilesOf(c)
  <2>1. ASSUME NEW file \in files', file.name.position = k
        PROVE  file \in FilesAt(k) \cup FilesOf(c)
    BY <1>4, <1>5, <2>1 DEF FilesAt
  <2>2. FilesOf(c) \subseteq files' /\ FilesAt(k) \subseteq files'
    BY <1>5 DEF FilesAt
  <2>3. \A file \in FilesAt(k) \cup FilesOf(c) : file.name.position = k
    BY <1>4 DEF FilesAt
  <2> HIDE DEF c
  <2>4. QED BY <1>6, <2>1, <2>2, <2>3
<1>8. Buffer(k)' = <<>>
  BY <1>1 DEF Buffer
<1>9. ASSUME NEW file \in FilesAt(k)', pc' = "create"
      PROVE  file.name.step < agingStep'
  <2>1. agingStep' = c.step + 1
    BY <1>2, <1>9 DEF StepInv
  <2> HIDE DEF c
  <2>2. /\ Written(c) \in FileType /\ Written(c).name = Name(c) /\ Name(c).step = c.step
    BY <1>2, WrittenFields
  <2>3. /\ file \in FileType
        /\ Earlier(file.name, Name(c)) \/ file.name = Name(c)
    BY <1>3, <1>7, <2>2 DEF FilesOf
  <2>4. file.name.step \in Nat /\ c.step \in Nat
    BY <1>2, <2>3 DEF FileType, FilterType
  <2>5. QED BY <2>1, <2>2, <2>3, <2>4 DEF Earlier
<1>10. NamesInv(k)'
  BY <1>1, <1>9 DEF NamesInv
<1>11. QED BY <1>7, <1>8, <1>10

\* The end of a chain keeps what NothingLost is about.
LEMMA DestroyedOutput ==
  ASSUME TypeOK, ChainInv, StepInv, DestroyFilters, UNCHANGED <<agingStep, observed>>,
         pc' = "create" => pc = "reset",
         NEW k \in Matlabs, pc # "ended", Len(chain) = Len(AllFilters), OutputInv(k)
  PROVE  OutputInv(k)'
<1> DEFINE c == chain[k]
           n == Len(observed)
<1>1. k \in DOMAIN chain
  BY AllFiltersType, ChainElement DEF Matlabs, OfClass
<1>2. c \in FilterType /\ c.class = "MatlabFilter" /\ n \in Nat
  BY <1>1, ChainElement, ObservedLength, UndecimatedReached
<1>3. /\ Holds(FilesAt(k), c.mTime, n) /\ FilesAt(k) \in SUBSET FileType
      /\ \A file \in FilesAt(k) : Earlier(file.name, Name(c))
  BY <1>1, FilesAtType DEF OutputInv, NamesInv, Buffer
<1>4. FilesAt(k)' = FilesAt(k) \cup FilesOf(c) /\ Buffer(k)' = <<>> /\ NamesInv(k)'
  BY <1>1, <1>2, DestroyedAt DEF OutputInv
<1>5. Len(observed)' = n
  OBVIOUS
<1> HIDE DEF c, n
<1>6. CASE c.mTime = <<>>
  <2>1. FilesOf(c) = {}
    BY <1>6 DEF FilesOf
  <2>2. Holds(FilesAt(k), Buffer(k), Len(observed))'
    BY <1>3, <1>4, <1>5, <1>6, <2>1
  <2>3. QED BY <1>4, <2>2 DEF OutputInv
<1>7. CASE c.mTime # <<>>
  <2>1. FilesOf(c) = {Written(c)}
    BY <1>2, <1>7 DEF FilesOf, Writes
  <2>2. Written(c) \in FileType /\ Written(c).name = Name(c) /\ Written(c).samples = c.mTime
    BY <1>2, WrittenFields
  <2>3. Holds(FilesAt(k) \cup {Written(c)}, <<>>, n)
    BY <1>2, <1>3, <2>2, HoldsWrite
  <2>4. Holds(FilesAt(k), Buffer(k), Len(observed))'
    BY <1>4, <1>5, <2>1, <2>3
  <2>5. QED BY <1>4, <2>4 DEF OutputInv
<1>8. QED BY <1>6, <1>7

\* The first file of a new filter has a name none of the files has.
LEMMA AddedAt ==
  ASSUME TypeOK, ChainInv, AddFilter, NEW k \in OfClass("MatlabFilter"), NamesInv(k)
  PROVE  FilesAt(k)' = FilesAt(k) /\ Buffer(k)' = Buffer(k) /\ NamesInv(k)'
<1> DEFINE f == NewFilter(Len(chain) + 1)
<1>1. Len(chain) + 1 \in DOMAIN AllFilters /\ DOMAIN chain = 1..Len(chain) /\ Len(chain) \in Nat
  BY AllFiltersType, ChainElement DEF AddFilter
<1>2. /\ f \in FilterType /\ f.class = AllFilters[Len(chain) + 1].class
      /\ f.position = Len(chain) + 1 /\ f.mTime = <<>>
      /\ f.class = "MatlabFilter" => f.step = agingStep
  BY <1>1, NewFilterFields
<1>3. /\ Name(f).position = Len(chain) + 1 /\ Name(f).step = f.step
  BY <1>2, WrittenFields
<1>4. /\ chain' = Append(chain, f) /\ pc = "create" /\ pc' = pc
      /\ UNCHANGED <<agingStep, observed>>
      /\ files' = IF Writes(f) THEN Without(files, Name(f)) ELSE files
  BY DEF AddFilter
<1> HIDE DEF f
<1>5. /\ DOMAIN chain' = 1..(Len(chain) + 1) /\ chain'[Len(chain) + 1] = f
      /\ \A j \in DOMAIN chain : chain'[j] = chain[j]
  BY <1>1, <1>2, <1>4 DEF TypeOK
<1>6. AllFilters[k].class = "MatlabFilter"
  BY DEF OfClass
<1>7. \A file \in FilesAt(k) : file \in FileType
  BY FilesAtType
<1>8. k = Len(chain) + 1 => \A file \in FilesAt(k) : file.name.step < agingStep
  BY <1>1, <1>4 DEF NamesInv
<1>9. \A file \in FilesAt(k) : file.name # Name(f)
  <2>1. ASSUME NEW file \in FilesAt(k), file.name = Name(f)
        PROVE  FALSE
    <3>1. k = Len(chain) + 1 /\ file.name.step = agingStep
      BY <1>2, <1>3, <1>6, <2>1 DEF FilesAt
    <3>2. agingStep \in Nat
      BY DEF TypeOK
    <3>3. QED BY <1>8, <3>1, <3>2
  <2>2. QED BY <2>1
<1>10. FilesAt(k)' = FilesAt(k)
  BY <1>4, <1>9 DEF FilesAt, Without
<1>11. Buffer(k)' = Buffer(k)
  BY <1>1, <1>2, <1>5 DEF Buffer
<1>12. ASSUME NEW file \in FilesAt(k)
       PROVE  /\ k \in DOMAIN chain' => Earlier(file.name, Name(chain'[k]))
              /\ k \notin DOMAIN chain' => file.name.step < agingStep
  <2>1. CASE k \in DOMAIN chain
    BY <1>1, <1>5, <2>1 DEF NamesInv
  <2>2. CASE k \notin DOMAIN chain
    <3>1. file.name.step < agingStep
      BY <1>4, <2>2 DEF NamesInv
    <3>2. k = Len(chain) + 1 => f.step = agingStep
      BY <1>2, <1>6
    <3>3. QED BY <1>1, <1>3, <1>5, <2>2, <3>1, <3>2 DEF Earlier
  <2>3. QED BY <2>1, <2>2
<1>13. NamesInv(k)'
  <2>1. Name(chain[k])' = Name(chain'[k])
    BY DEF Name
  <2>2. QED BY <1>4, <1>10, <1>12, <2>1 DEF NamesInv
<1>14. QED BY <1>10, <1>11, <1>13

LEMMA AddedOutput ==
  ASSUME TypeOK, ChainInv, AddFilter, NEW k \in Matlabs, OutputInv(k)
  PROVE  OutputInv(k)'
<1>1. FilesAt(k)' = FilesAt(k) /\ Buffer(k)' = Buffer(k) /\ NamesInv(k)'
  BY AddedAt DEF Matlabs, OutputInv
<1>2. observed' = observed
  BY DEF AddFilter
<1>3. QED BY <1>1, <1>2 DEF OutputInv

(***************************************************************************)
(* The invariant is inductive.                                             *)
(***************************************************************************)
LEMMA InitIInv == Init => IInv
<1> SUFFICES ASSUME Init PROVE IInv
  OBVIOUS
<1>1. chain = <<>> /\ files = {} /\ observed = <<>> /\ pc = "create" /\ DOMAIN chain = {}
      /\ Len(chain) = 0 /\ Len(observed) = 0
  BY DEF Init
<1>2. TypeOK
  BY <1>1, BoundsAssumption, AllFiltersType DEF Init, TypeOK
<1>3. ChainInv /\ StepInv /\ \A file \in files : FileOK(file)
  BY <1>1 DEF ChainInv, StepInv
<1>4. ASSUME NEW k \in Matlabs
      PROVE  OutputInv(k)
  <2> DEFINE none == <<>>
             noFiles == {}
  <2>1. none \in Seq(Nat) /\ Len(none) = 0
    OBVIOUS
  <2>2. FilesAt(k) = noFiles /\ Buffer(k) = none /\ NamesInv(k)
    BY <1>1 DEF FilesAt, Buffer, NamesInv
  <2>3. noFiles = {}
    OBVIOUS
  <2> HIDE DEF none, noFiles
  <2>4. Holds(noFiles, none, 0)
    BY <2>1, <2>3 DEF Holds
  <2>5. QED BY <1>1, <2>2, <2>4 DEF OutputInv
<1>5. QED BY <1>2, <1>3, <1>4 DEF IInv

\* A call of the observer keeps the invariant.
LEMMA ObserveIInv ==
  ASSUME IInv, Observe(time'), time' \in 0..MaxTime, pc' = "run", agingStep' = agingStep,
         stepBegin' \in 0..time', time' <= stepBegin' + mMaxSimulationStepDuration,
         pc = "run" \/ pc = "create", Len(chain) = Len(AllFilters)
  PROVE  IInv'
<1> DEFINE t == time'
<1>1. TypeOK /\ ChainInv /\ StepInv
  BY DEF IInv
<1>2. /\ chain' \in Seq(FilterType) /\ Len(chain') = Len(chain) /\ DOMAIN chain' = DOMAIN chain
      /\ \A k \in DOMAIN chain' : FilterOK(chain'[k], k) /\ chain'[k].step = chain[k].step
  BY <1>1, ObserveChain
<1>3. \A file \in files' : FileOK(file)
  BY <1>1, ObserveFiles DEF IInv
<1>4. \A file \in files' : file \in FileType
  BY <1>3 DEF FileOK
<1>5. observed' \in Seq([time : 0..MaxTime, step : 0..MaxAgingSteps])
  <2>1. observed' = Append(observed, [time |-> t, step |-> agingStep])
    BY ObserveExpanded
  <2>2. [time |-> t, step |-> agingStep] \in [time : 0..MaxTime, step : 0..MaxAgingSteps]
    BY <1>1 DEF TypeOK
  <2>3. QED BY <1>1, <2>1, <2>2 DEF TypeOK
<1>6. TypeOK'
  BY <1>1, <1>2, <1>4, <1>5 DEF TypeOK
<1>7. ChainInv'
  <2>1. ASSUME NEW k \in DOMAIN chain'
        PROVE  FilterOK(chain'[k], k)
    BY <1>2
  <2>2. QED BY <1>2, <2>1 DEF ChainInv
<1>8. StepInv'
  <2>1. ASSUME NEW k \in DOMAIN chain', chain'[k].class = "MatlabFilter"
        PROVE  agingStep' = chain'[k].step
    <3>1. chain[k].class = "MatlabFilter"
      BY <1>1, <1>2, <2>1, ChainElement DEF FilterOK
    <3>2. agingStep = chain[k].step
      BY <1>1, <1>2, <3>1 DEF StepInv
    <3>3. QED BY <1>2, <3>2
  <2>2. QED BY <2>1 DEF StepInv
<1>9. \A k \in Matlabs : OutputInv(k)'
  BY <1>1, ObserveOutput DEF IInv
<1>10. QED BY <1>3, <1>6, <1>7, <1>8, <1>9 DEF IInv

\* The end of a chain keeps the invariant.
LEMMA DestroyIInv ==
  ASSUME IInv, DestroyFilters, UNCHANGED <<time, stepBegin, agingStep, observed>>,
         \/ pc' = "create" /\ pc = "reset"
         \/ pc' = "ended" /\ pc \in {"reset", "run"}
  PROVE  IInv'
<1>1. TypeOK /\ ChainInv /\ StepInv /\ Len(chain) = Len(AllFilters)
  BY DEF IInv, ChainInv
<1>2. chain' = <<>> /\ DOMAIN chain' = {} /\ Len(chain') = 0
  BY DEF DestroyFilters
<1>3. \A file \in files' : FileOK(file)
  BY <1>1, DestroyedFiles DEF IInv
<1>4. chain' \in Seq(FilterType) /\ \A file \in files' : file \in FileType
  BY <1>2, <1>3 DEF FileOK
<1>5. TypeOK'
  BY <1>1, <1>2, <1>4, AllFiltersType DEF TypeOK
<1>6. ChainInv' /\ StepInv'
  BY <1>2 DEF ChainInv, StepInv
<1>7. ASSUME NEW k \in Matlabs
      PROVE  OutputInv(k)'
  <2>1. OutputInv(k)
    BY DEF IInv
  <2>2. QED BY <1>1, <2>1, DestroyedOutput
<1>8. QED BY <1>3, <1>5, <1>6, <1>7 DEF IInv

\* Where chain and files stay, names stay in order also when the aging step is counted up.
LEMMA SameNames ==
  ASSUME TypeOK, ChainInv, UNCHANGED <<chain, files>>,
         pc' \in {"run", "reset", pc}, pc = "run" \/ pc' = pc, agingStep' = agingStep \/ pc = "run",
         NEW k \in OfClass("MatlabFilter"), NamesInv(k)
  PROVE  NamesInv(k)'
<1>1. FilesAt(k)' = FilesAt(k)
  BY DEF FilesAt
<1>2. \A j \in DOMAIN chain : Name(chain[j])' = Name(chain[j])
  BY DEF Name
<1>3. pc = "run" => k \in DOMAIN chain
  BY AllFiltersType, ChainElement DEF ChainInv, OfClass
<1>4. QED BY <1>1, <1>2, <1>3 DEF NamesInv

\* Where the chain, the files and the samples stay, only the types and the steps are to be shown.
LEMMA SameOutput ==
  ASSUME IInv, UNCHANGED <<chain, files, observed>>, TypeOK', StepInv',
         pc' \in {"run", "reset", pc}, pc = "run" \/ pc' = pc, agingStep' = agingStep \/ pc = "run"
  PROVE  IInv'
<1>1. \A k \in DOMAIN chain : FilterOK(chain'[k], k)
  BY DEF IInv, ChainInv
<1>2. ChainInv'
  BY <1>1 DEF IInv, ChainInv
<1>3. \A file \in files' : FileOK(file)
  BY DEF IInv
<1>4. ASSUME NEW k \in Matlabs
      PROVE  OutputInv(k)'
  <2>1. OutputInv(k)
    BY DEF IInv
  <2>2. FilesAt(k)' = FilesAt(k) /\ Buffer(k)' = Buffer(k) /\ Len(observed)' = Len(observed)
    BY DEF FilesAt, Buffer
  <2>3. Holds(FilesAt(k), Buffer(k), Len(observed))'
    BY <2>1, <2>2 DEF OutputInv
  <2>4. NamesInv(k)'
    BY <2>1, SameNames DEF IInv, Matlabs, OutputInv
  <2>5. QED BY <2>3, <2>4 DEF OutputInv
<1>5. QED BY <1>2, <1>3, <1>4 DEF IInv

LEMMA NextIInv == IInv /\ [Next]_vars => IInv'
<1> SUFFICES ASSUME IInv, [Next]_vars PROVE IInv'
  OBVIOUS
<1>1. TypeOK /\ ChainInv /\ StepInv
  BY DEF IInv
<1>2. CASE AddFilter
  <2> DEFINE f == NewFilter(Len(chain) + 1)
  <2>1. Len(chain) + 1 \in DOMAIN AllFilters /\ DOMAIN chain = 1..Len(chain) /\ Len(chain) \in Nat
    BY <1>1, <1>2, AllFiltersType, ChainElement DEF AddFilter
  <2>2. /\ f \in FilterType /\ f.position = Len(chain) + 1 /\ f.mTime = <<>>
        /\ f.class = AllFilters[Len(chain) + 1].class /\ f.limit = AllFilters[Len(chain) + 1].limit
        /\ f.mSampleCounter = 0 /\ Match(f.rows, <<>>)
        /\ f.class = "MatlabFilter" => f.step = agingStep
    BY <1>1, <2>1, NewFilterFields, MatchNothing
  <2>3. /\ chain' = Append(chain, f) /\ pc = "create" /\ pc' = pc
        /\ UNCHANGED <<time, stepBegin, agingStep, observed>>
        /\ files' = IF Writes(f) THEN Without(files, Name(f)) ELSE files
        /\ Len(chain) < Len(AllFilters)
    BY <1>2 DEF AddFilter
  <2> HIDE DEF f
  <2>4. 0 = Len(<<>>) * NumberOfElements
    BY ElementsAssumption
  <2>5. FilterOK(f, Len(chain) + 1)
    BY <2>2, <2>4 DEF FilterOK
  <2>6. /\ chain' \in Seq(FilterType) /\ Len(chain') = Len(chain) + 1
        /\ DOMAIN chain' = 1..(Len(chain) + 1) /\ chain'[Len(chain) + 1] = f
        /\ \A j \in DOMAIN chain : chain'[j] = chain[j]
    BY <1>1, <2>1, <2>2, <2>3 DEF TypeOK
  <2>7. files' \subseteq files
    BY <2>3 DEF Without
  <2>8. Len(chain') <= Len(AllFilters)
    BY <2>1, <2>3, <2>6, AllFiltersType
  <2>9. TypeOK'
    BY <1>1, <2>3, <2>6, <2>7, <2>8 DEF TypeOK
  <2>10. ASSUME NEW k \in DOMAIN chain'
         PROVE  /\ FilterOK(chain'[k], k)
                /\ chain'[k].class = "MatlabFilter" => agingStep = chain'[k].step
    <3>1. CASE k \in DOMAIN chain
      BY <1>1, <2>3, <2>6, <3>1 DEF ChainInv, StepInv
    <3>2. CASE k = Len(chain) + 1
      BY <2>2, <2>5, <2>6, <3>2
    <3>3. QED BY <2>1, <2>6, <3>1, <3>2
  <2>11. ChainInv' /\ StepInv'
    BY <2>3, <2>10 DEF ChainInv, StepInv
  <2>12. \A k \in Matlabs : OutputInv(k)'
    BY <1>1, <1>2, AddedOutput DEF IInv
  <2>13. QED BY <2>7, <2>9, <2>11, <2>12 DEF IInv
<1>3. CASE FirstObserverCall
  <2>1. time' \in 0..MaxTime /\ stepBegin' \in 0..time' /\ time' = time /\ Observe(time')
        /\ time' <= stepBegin' + mMaxSimulationStepDuration
    BY <1>1, <1>3, BoundsAssumption DEF FirstObserverCall, TypeOK
  <2>2. QED BY <1>3, <2>1, ObserveIInv DEF FirstObserverCall
<1>4. ASSUME NEW dt \in 1..mMaxSimulationStepDuration, Substep(dt)
      PROVE  IInv'
  <2>1. /\ time' = time + dt /\ time + dt <= MaxTime /\ stepBegin' \in {stepBegin, time}
        /\ time + dt <= stepBegin' + mMaxSimulationStepDuration /\ Observe(time')
        /\ pc = "run" /\ pc' = "run" /\ agingStep' = agingStep
    BY <1>4 DEF Substep
  <2>2. time' \in 0..MaxTime /\ stepBegin' \in 0..time'
        /\ time' <= stepBegin' + mMaxSimulationStepDuration
    <3>1. /\ time \in Nat /\ stepBegin \in 0..time /\ dt \in Nat /\ MaxTime \in Nat
          /\ time <= MaxTime /\ mMaxSimulationStepDuration \in Nat
      BY <1>1, BoundsAssumption DEF TypeOK
    <3>2. time' \in 0..MaxTime
      BY <2>1, <3>1
    <3>3. stepBegin' \in 0..time'
      BY <2>1, <3>1
    <3>4. QED BY <2>1, <3>2, <3>3
  <2>3. Len(chain) = Len(AllFilters)
    BY <1>1, <2>1 DEF ChainInv
  <2>4. QED BY <2>1, <2>2, <2>3, ObserveIInv
<1>5. ASSUME NEW t \in 0..MaxTime, ResetStatesToPointOfTime(t)
      PROVE  IInv'
  <2>1. TypeOK'
    BY <1>1, <1>5, BoundsAssumption DEF ResetStatesToPointOfTime, TypeOK
  <2>2. StepInv'
    BY <1>1, <1>5 DEF ResetStatesToPointOfTime, StepInv
  <2>3. QED BY <1>5, <2>1, <2>2, SameOutput DEF ResetStatesToPointOfTime
<1>6. CASE SetOutputFilenames
  <2>1. TypeOK'
    BY <1>1, <1>6, BoundsAssumption DEF SetOutputFilenames, TypeOK
  <2>2. StepInv'
    <3>1. agingStep' = agingStep + 1 /\ pc = "run" /\ pc' = "reset" /\ chain' = chain
      BY <1>6 DEF SetOutputFilenames
    <3>2. QED BY <1>1, <3>1 DEF StepInv
  <2>3. QED BY <1>6, <2>1, <2>2, SameOutput DEF SetOutputFilenames
<1>7. CASE ResetThElSimulation
  BY <1>7, DestroyIInv DEF ResetThElSimulation
<1>8. CASE End
  BY <1>8, DestroyIInv DEF End
<1>9. CASE UNCHANGED vars
  <2>1. TypeOK' /\ StepInv'
    BY <1>1, <1>9 DEF vars, TypeOK, StepInv
  <2>2. QED BY <1>9, <2>1, SameOutput DEF vars
<1>10. QED BY <1>2, <1>3, <1>4, <1>5, <1>6, <1>7, <1>8, <1>9 DEF Next

THEOREM InductiveInvariant == Spec => []IInv
<1>1. Init => IInv
  BY InitIInv
<1>2. IInv /\ [Next]_vars => IInv'
  BY NextIInv
<1>3. QED BY <1>1, <1>2, PTL DEF Spec

(***************************************************************************)
(* Theorems.                                                               *)
(***************************************************************************)
\* Every variable keeps its type, for every chain of filters.
THEOREM TypeCorrect == Spec => []TypeOK
<1>1. IInv => TypeOK
  BY DEF IInv
<1>2. QED BY <1>1, InductiveInvariant, PTL

\* The rows of every matrix match the times, in each file and in each Matlab filter.
THEOREM RowsAlwaysMatch == Spec => []RowsMatchTimes
<1>1. IInv => RowsMatchTimes
  <2> SUFFICES ASSUME IInv PROVE RowsMatchTimes
    OBVIOUS
  <2>1. \A file \in files :
          AllFilters[file.name.position].class = "MatlabFilter" => Match(file.rows, file.samples)
    BY DEF IInv, FileOK
  <2>2. \A k \in DOMAIN chain :
          chain[k].class = "MatlabFilter" => Match(chain[k].rows, chain[k].mTime)
    BY DEF IInv, ChainInv, FilterOK
  <2>3. QED BY <2>1, <2>2 DEF RowsMatchTimes
<1>2. QED BY <1>1, InductiveInvariant, PTL

\* No Matlab file is longer than its filter's limit allows.
THEOREM FilesStayBounded == Spec => []FilesBounded
<1>1. IInv => FilesBounded
  BY DEF IInv, FileOK, Bounded, FilesBounded
<1>2. QED BY <1>1, InductiveInvariant, PTL

\* A Matlab filter in front of any decimation keeps each sample exactly once and in order.
THEOREM EverySampleKept == Spec => []NothingLost
<1>1. ASSUME IInv, NEW k \in Matlabs
      PROVE  InOrder(k) /\ Samples \subseteq Kept(k)
  <2> DEFINE n == Len(observed)
             base == n - Len(Buffer(k))
             held == [name |-> Name(chain[k]), samples |-> chain[k].mTime]
             piece(file) == [name |-> file.name, samples |-> file.samples]
  <2>1. TypeOK /\ ChainInv /\ OutputInv(k)
    BY <1>1 DEF IInv
  <2>2. Samples = 1..n /\ n \in Nat
    BY <2>1, ObservedLength DEF Samples
  <2>3. /\ Buffer(k) \in Seq(Nat) /\ Len(Buffer(k)) \in Nat /\ base \in 0..n
        /\ DOMAIN Buffer(k) = 1..Len(Buffer(k))
        /\ \A p \in 1..Len(Buffer(k)) : Buffer(k)[p] = base + p
    BY <2>1, <2>2 DEF OutputInv, Holds
  <2>4. /\ \A f \in FilesAt(k) : DOMAIN f.samples = 1..Len(f.samples) /\ f.samples \in Seq(Nat)
        /\ \A f \in FilesAt(k) : \A p \in DOMAIN f.samples :
             /\ f.samples[p] \in 1..base
             /\ \A q \in DOMAIN f.samples : p < q <=> f.samples[p] < f.samples[q]
        /\ \A f, g \in FilesAt(k) : f = g \/ Separate(f, g) \/ Separate(g, f)
        /\ \A i \in 1..base : \E f \in FilesAt(k) : \E p \in DOMAIN f.samples : f.samples[p] = i
    <3>1. \A f \in FilesAt(k) : DOMAIN f.samples = 1..Len(f.samples) /\ f.samples \in Seq(Nat)
      BY <2>1, FilesAtType DEF FileType
    <3>2. \A f \in FilesAt(k) : \A p \in DOMAIN f.samples :
            /\ f.samples[p] \in 1..base
            /\ \A q \in DOMAIN f.samples : p < q <=> f.samples[p] < f.samples[q]
      <4>1. \A f \in FilesAt(k) : \A p \in 1..Len(f.samples) :
              /\ f.samples[p] \in 1..base
              /\ \A q \in 1..Len(f.samples) : p < q <=> f.samples[p] < f.samples[q]
        BY <2>1 DEF OutputInv, Holds
      <4>2. QED BY <3>1, <4>1
    <3>3. \A f, g \in FilesAt(k) : f = g \/ Separate(f, g) \/ Separate(g, f)
      BY <2>1 DEF OutputInv, Holds
    <3>4. ASSUME NEW i \in 1..base
          PROVE  \E f \in FilesAt(k) : \E p \in DOMAIN f.samples : f.samples[p] = i
      <4>1. PICK f \in FilesAt(k) : \E p \in 1..Len(f.samples) : f.samples[p] = i
        BY <2>1 DEF OutputInv, Holds
      <4>2. QED BY <3>1, <4>1
    <3>5. QED BY <3>1, <3>2, <3>3, <3>4
  <2>5. k \in DOMAIN chain => Buffer(k) = chain[k].mTime /\ Buffer(k) = held.samples
    BY DEF Buffer
  <2>6. Output(k) = {piece(file) : file \in FilesAt(k)} \cup {held : j \in {l \in DOMAIN chain : l = k}}
    BY DEF Output, FilesAt
  <2>7. k \in DOMAIN chain => \A f \in FilesAt(k) : Earlier(f.name, held.name)
    BY <2>1 DEF OutputInv, NamesInv
  <2>8. ASSUME NEW e \in Output(k)
        PROVE  \/ \E file \in FilesAt(k) : e.name = file.name /\ e.samples = file.samples /\ e = piece(file)
               \/ k \in DOMAIN chain /\ e = held
    BY <2>6
  <2>9. /\ \A file \in FilesAt(k) : piece(file) \in Output(k) /\ piece(file).samples = file.samples
        /\ k \in DOMAIN chain => held \in Output(k)
    BY <2>6
  <2> HIDE DEF base, held, piece, n
  <2>10. Samples \subseteq Kept(k)
    <3>1. ASSUME NEW i \in 1..n
          PROVE  \E e \in Output(k) : \E p \in DOMAIN e.samples : e.samples[p] = i
      <4>1. CASE i <= base
        <5>1. i \in 1..base
          BY <2>2, <2>3, <4>1
        <5>2. PICK f \in FilesAt(k) : \E p \in DOMAIN f.samples : f.samples[p] = i
          BY <2>4, <5>1
        <5>3. QED BY <2>9, <5>2
      <4>2. CASE i > base
        <5>1. i - base \in 1..Len(Buffer(k)) /\ base + (i - base) = i
          BY <2>2, <2>3, <4>2 DEF base
        <5>2. k \in DOMAIN chain
          BY <5>1 DEF Buffer
        <5>3. i - base \in DOMAIN held.samples /\ held.samples[i - base] = i
          BY <2>3, <2>5, <5>1, <5>2
        <5>4. QED BY <2>9, <5>2, <5>3
      <4>3. QED BY <2>2, <2>3, <4>1, <4>2
    <3>2. QED BY <2>2, <3>1 DEF Kept
  <2>11. ASSUME NEW e \in Output(k), NEW d \in Output(k),
                NEW p \in DOMAIN e.samples, NEW q \in DOMAIN d.samples
         PROVE  \/ Earlier(e.name, d.name) /\ e.samples[p] < d.samples[q]
                \/ Earlier(d.name, e.name) /\ d.samples[q] < e.samples[p]
                \/ e = d /\ (p < q <=> e.samples[p] < e.samples[q])
    <3>1. ASSUME NEW f \in FilesAt(k), k \in DOMAIN chain,
                 NEW r \in DOMAIN f.samples, NEW s \in DOMAIN held.samples
          PROVE  Earlier(f.name, held.name) /\ f.samples[r] < held.samples[s]
      <4>1. f.samples[r] \in 1..base /\ held.samples[s] = base + s /\ s \in 1..Len(Buffer(k))
        BY <2>3, <2>4, <2>5, <3>1
      <4>2. f.samples[r] < held.samples[s]
        BY <2>2, <2>3, <4>1
      <4>3. QED BY <2>7, <3>1, <4>2
    <3>2. CASE /\ \E file \in FilesAt(k) : e.name = file.name /\ e.samples = file.samples /\ e = piece(file)
               /\ \E file \in FilesAt(k) : d.name = file.name /\ d.samples = file.samples /\ d = piece(file)
      <4>1. PICK f \in FilesAt(k) : e.name = f.name /\ e.samples = f.samples /\ e = piece(f)
        BY <3>2
      <4>2. PICK g \in FilesAt(k) : d.name = g.name /\ d.samples = g.samples /\ d = piece(g)
        BY <3>2
      <4>3. CASE f = g
        BY <2>4, <4>1, <4>2, <4>3
      <4>4. CASE Separate(f, g) \/ Separate(g, f)
        BY <4>1, <4>2, <4>4 DEF Separate
      <4>5. QED BY <2>4, <4>3, <4>4
    <3>3. CASE k \in DOMAIN chain /\ e = held /\ d = held
      <4>1. p \in 1..Len(Buffer(k)) /\ q \in 1..Len(Buffer(k))
            /\ e.samples[p] = base + p /\ e.samples[q] = base + q
        BY <2>3, <2>5, <3>3
      <4>2. p < q <=> base + p < base + q
        BY <2>2, <2>3, <4>1
      <4>3. QED BY <3>3, <4>1, <4>2
    <3>4. CASE k \in DOMAIN chain /\ e = held /\ d # held
      <4>1. PICK g \in FilesAt(k) : d.name = g.name /\ d.samples = g.samples
        BY <2>8, <3>4
      <4>2. QED BY <3>1, <3>4, <4>1
    <3>5. CASE k \in DOMAIN chain /\ d = held /\ e # held
      <4>1. PICK g \in FilesAt(k) : e.name = g.name /\ e.samples = g.samples
        BY <2>8, <3>5
      <4>2. QED BY <3>1, <3>5, <4>1
    <3>6. QED BY <2>8, <3>2, <3>3, <3>4, <3>5
  <2>12. InOrder(k)
    BY <2>11 DEF InOrder
  <2>13. QED BY <2>10, <2>12
<1>2. IInv => NothingLost
  BY <1>1 DEF NothingLost, Matlabs
<1>3. QED BY <1>2, InductiveInvariant, PTL

(***************************************************************************)
(* Behind a decimation.                                                    *)
(***************************************************************************)
\* the samples in the files fs and in a buffer
Held(fs, buffer) ==
  (UNION {{f.samples[p] : p \in DOMAIN f.samples} : f \in fs}) \cup {buffer[p] : p \in DOMAIN buffer}

\* the kept samples of an aging step, up to sample i
Before(k, i) == {j \in Kept(k) : j < i /\ observed[j].step = observed[i].step}

\* the kept samples of the present aging step
Current(k) == {j \in Kept(k) : observed[j].step = agingStep}

\* the last sample of js was taken at time last, and without a sample last is Lowest
LastOf(js, obs, last) ==
  \/ last = Lowest /\ js = {}
  \/ \E j \in js : obs[j].time = last /\ \A l \in js : l <= j

\* time t differs by the delay from that of the last sample of js
Far(js, obs, t, delay) ==
  \A j \in js : (\E l \in js : l > j) \/ Distance(obs[j].time, t) >= delay

DecimatedAt(d, k) ==
  \A i \in Samples : i \in Kept(k) <=> Far(Before(k, i), observed, observed[i].time, AllFilters[d].limit)

Pairs == {pair \in OfClass("DecimateFilter") \X OfClass("MatlabFilter") : pair[2] \in DecimatedBy(pair[1])}

\* a new chain is created for an aging step without samples
StepsInv ==
  \A j \in Samples :
    observed[j].step <= agingStep /\ (pc \in {"create", "reset"} => observed[j].step < agingStep)

FreshInv == pc = "create" => \A d \in DOMAIN chain : chain[d].mLastPassedTime = Lowest

\* all samples a filter keeps have been observed
KeptInv == \A k \in OfClass("MatlabFilter") : NamesInv(k) /\ Kept(k) \subseteq Samples

\* the decimation knows the last sample the filter behind it keeps
LastInv ==
  \A pair \in Pairs :
    pc = "run" => LastOf(Current(pair[2]), observed, chain[pair[1]].mLastPassedTime)

DecimationInv ==
  /\ IInv
  /\ StepsInv
  /\ FreshInv
  /\ KeptInv
  /\ LastInv
  /\ \A pair \in Pairs : DecimatedAt(pair[1], pair[2])

LEMMA HeldOutput == \A k : Kept(k) = Held(FilesAt(k), Buffer(k))
<1> SUFFICES ASSUME NEW k PROVE Kept(k) = Held(FilesAt(k), Buffer(k))
  OBVIOUS
<1> DEFINE held == [name |-> Name(chain[k]), samples |-> chain[k].mTime]
           piece(file) == [name |-> file.name, samples |-> file.samples]
<1>1. Output(k) = {piece(file) : file \in FilesAt(k)} \cup {held : j \in {l \in DOMAIN chain : l = k}}
  BY DEF Output, FilesAt
<1>2. held.samples = chain[k].mTime /\ \A file \in FilesAt(k) : piece(file).samples = file.samples
  OBVIOUS
<1> HIDE DEF held, piece
<1>3. CASE k \in DOMAIN chain
  <2>1. Buffer(k) = held.samples
    BY <1>2, <1>3 DEF Buffer
  <2>2. Output(k) = {piece(file) : file \in FilesAt(k)} \cup {held}
    BY <1>1, <1>3
  <2>3. ASSUME NEW i
        PROVE  i \in Kept(k) <=> i \in Held(FilesAt(k), Buffer(k))
    <3>1. i \in Kept(k) <=> \E e \in Output(k) : \E p \in DOMAIN e.samples : e.samples[p] = i
      BY DEF Kept
    <3>2. i \in Held(FilesAt(k), Buffer(k)) <=>
            \/ \E f \in FilesAt(k) : \E p \in DOMAIN f.samples : f.samples[p] = i
            \/ \E p \in DOMAIN held.samples : held.samples[p] = i
      BY <2>1 DEF Held
    <3>3. QED BY <1>2, <2>2, <3>1, <3>2
  <2>4. QED BY <2>3
<1>4. CASE k \notin DOMAIN chain
  <2>1. Buffer(k) = <<>> /\ DOMAIN Buffer(k) = {}
    BY <1>4 DEF Buffer
  <2>2. Output(k) = {piece(file) : file \in FilesAt(k)}
    BY <1>1, <1>4
  <2>3. ASSUME NEW i
        PROVE  i \in Kept(k) <=> i \in Held(FilesAt(k), Buffer(k))
    <3>1. i \in Kept(k) <=> \E e \in Output(k) : \E p \in DOMAIN e.samples : e.samples[p] = i
      BY DEF Kept
    <3>2. i \in Held(FilesAt(k), Buffer(k)) <=>
            \E f \in FilesAt(k) : \E p \in DOMAIN f.samples : f.samples[p] = i
      BY <2>1 DEF Held
    <3>3. QED BY <1>2, <2>2, <3>1, <3>2
  <2>4. QED BY <2>3
<1>5. QED BY <1>3, <1>4

LEMMA HeldOutputNext == \A k : Kept(k)' = Held(FilesAt(k)', Buffer(k)')
<1>1. (\A k : Kept(k) = Held(FilesAt(k), Buffer(k)))'
  BY HeldOutput, PTL
<1>2. QED BY <1>1 DEF Held

\* A sample more in memory.
LEMMA HeldPush ==
  ASSUME NEW fs, NEW buffer \in Seq(Nat), NEW i \in Nat
  PROVE  Held(fs, Append(buffer, i)) = Held(fs, buffer) \cup {i}
<1> DEFINE longer == Append(buffer, i)
<1>1. /\ DOMAIN longer = 1..(Len(buffer) + 1) /\ longer[Len(buffer) + 1] = i
      /\ \A p \in 1..Len(buffer) : longer[p] = buffer[p]
      /\ Len(buffer) \in Nat /\ DOMAIN buffer = 1..Len(buffer)
  OBVIOUS
<1> HIDE DEF longer
<1>2. 1..(Len(buffer) + 1) = (1..Len(buffer)) \cup {Len(buffer) + 1}
  BY <1>1
<1>3. {longer[p] : p \in DOMAIN longer} = {buffer[p] : p \in DOMAIN buffer} \cup {i}
  BY <1>1, <1>2
<1>4. Held(fs, longer) = Held(fs, buffer) \cup {i}
  BY <1>3 DEF Held
<1>5. QED BY <1>4 DEF longer

LEMMA PairFilters ==
  ASSUME NEW pair \in Pairs
  PROVE  /\ pair[1] \in DOMAIN AllFilters /\ AllFilters[pair[1]].class = "DecimateFilter"
         /\ pair[2] \in OfClass("MatlabFilter") /\ pair[2] \in DOMAIN AllFilters
         /\ AllFilters[pair[2]].class = "MatlabFilter"
         /\ pair[1] < pair[2]
         /\ \A j \in 1..(pair[2] - 1) : AllFilters[j].class = "DecimateFilter" <=> j = pair[1]
         /\ AllFilters[pair[1]].limit \in Nat
<1>1. pair[1] \in OfClass("DecimateFilter") /\ pair[2] \in OfClass("MatlabFilter")
      /\ pair[2] \in DecimatedBy(pair[1])
  BY DEF Pairs
<1>2. QED BY <1>1, AllFiltersType DEF OfClass, DecimatedBy

\* A sample arrives at the decimation, and behind it where the decimation lets it pass.
LEMMA DecimatedReached ==
  ASSUME TypeOK, ChainInv, Len(chain) = Len(AllFilters), NEW t, NEW pair \in Pairs
  PROVE  /\ pair[1] \in DOMAIN chain /\ pair[2] \in DOMAIN chain
         /\ chain[pair[1]].class = "DecimateFilter" /\ chain[pair[2]].class = "MatlabFilter"
         /\ chain[pair[1]].limit = AllFilters[pair[1]].limit
         /\ pair[1] \in Reached(t)
         /\ pair[2] \in Reached(t) <=> Passes(chain[pair[1]], t)
<1> DEFINE d == pair[1]
           k == pair[2]
<1>1. /\ d \in DOMAIN AllFilters /\ k \in DOMAIN AllFilters /\ d < k
      /\ AllFilters[d].class = "DecimateFilter" /\ AllFilters[k].class = "MatlabFilter"
      /\ \A j \in 1..(k - 1) : AllFilters[j].class = "DecimateFilter" <=> j = d
  BY PairFilters
<1>2. DOMAIN AllFilters = 1..Len(AllFilters) /\ DOMAIN chain = DOMAIN AllFilters
      /\ Len(AllFilters) \in Nat
  BY AllFiltersType, ChainElement
<1>3. \A j \in DOMAIN chain : /\ chain[j].class = AllFilters[j].class
                              /\ chain[j].limit = AllFilters[j].limit
  BY ChainElement DEF FilterOK
<1> HIDE DEF d, k
<1>4. d \in 1..Len(AllFilters) /\ k \in 1..Len(AllFilters) /\ d \in 1..(k - 1)
  BY <1>1, <1>2
<1>5. ASSUME NEW j \in 1..(k - 1), j # d
      PROVE  Passes(chain[j], t)
  <2>1. j \in DOMAIN chain
    BY <1>2, <1>4
  <2>2. chain[j].class # "DecimateFilter"
    BY <1>1, <1>3, <1>5, <2>1
  <2>3. QED BY <2>2 DEF Passes
<1>6. \A j \in 1..(d - 1) : j \in 1..(k - 1) /\ j # d
  BY <1>4
<1>7. d \in Reached(t)
  BY <1>2, <1>4, <1>5, <1>6 DEF Reached
<1>8. k \in Reached(t) <=> Passes(chain[d], t)
  BY <1>2, <1>4, <1>5 DEF Reached
<1>9. QED BY <1>1, <1>2, <1>3, <1>7, <1>8 DEF d, k

\* What a call adds to a Matlab filter: the sample, if it arrives there.
LEMMA ObserveKept ==
  ASSUME TypeOK, ChainInv, NEW t \in 0..MaxTime, Observe(t), NEW k \in DOMAIN chain,
         chain[k].class = "MatlabFilter", NamesInv(k)
  PROVE  Kept(k)' = IF k \in Reached(t) THEN Kept(k) \cup {Len(observed) + 1} ELSE Kept(k)
<1> DEFINE c == chain[k]
           i == Len(observed) + 1
           g == MatlabPush(c, i)
<1>1. c \in FilterType /\ i \in Nat /\ k \in DOMAIN chain'
  BY ChainElement, ObservedLength, ObserveChain
<1>2. g \in FilterType /\ g.mTime = Append(c.mTime, i) /\ c.mTime \in Seq(Nat)
  BY <1>1, PushFields DEF FilterType
<1>3. Buffer(k) = c.mTime /\ Buffer(k)' = chain'[k].mTime
  BY <1>1 DEF Buffer
<1>4. Kept(k) = Held(FilesAt(k), c.mTime) /\ Kept(k)' = Held(FilesAt(k)', chain'[k].mTime)
  BY <1>3, HeldOutput, HeldOutputNext
<1>5. CASE k \in Reached(t)
  <2>1. \/ chain'[k] = g /\ FilesAt(k)' = FilesAt(k)
        \/ chain'[k] = NextFile(g) /\ FilesAt(k)' = FilesAt(k) \cup {Written(g)}
    BY <1>5, ObserveAt
  <2> HIDE DEF c, i, g
  <2>2. Held(FilesAt(k), g.mTime) = Kept(k) \cup {i}
    BY <1>1, <1>2, <1>4, HeldPush
  <2>3. Written(g).samples = g.mTime /\ NextFile(g).mTime = <<>>
    BY <1>2, WrittenFields, NextFields
  <2>4. ASSUME FilesAt(k)' = FilesAt(k) \cup {Written(g)}, chain'[k].mTime = <<>>
        PROVE  Held(FilesAt(k)', chain'[k].mTime) = Held(FilesAt(k), g.mTime)
    <3>1. DOMAIN chain'[k].mTime = {}
      BY <2>4
    <3>2. Held(FilesAt(k)', chain'[k].mTime) = Held(FilesAt(k), Written(g).samples)
      BY <2>4, <3>1 DEF Held
    <3>3. QED BY <2>3, <3>2
  <2>5. Kept(k)' = Kept(k) \cup {i}
    BY <1>4, <2>1, <2>2, <2>3, <2>4
  <2>6. QED BY <1>5, <2>5 DEF i
<1>6. CASE k \notin Reached(t)
  <2>1. k \notin Full(t) /\ After(k, t) = c
    BY <1>6 DEF Full, After
  <2>2. chain'[k] = c /\ FilesAt(k)' = FilesAt(k)
    BY <2>1, ObserveExpanded, FilesOfOthers
  <2>3. QED BY <1>4, <1>6, <2>2
<1>7. QED BY <1>5, <1>6

\* A decimation remembers the time of a sample it lets pass.
LEMMA ObserveLast ==
  ASSUME TypeOK, ChainInv, Len(chain) = Len(AllFilters), NEW t \in 0..MaxTime, Observe(t),
         NEW pair \in Pairs
  PROVE  chain'[pair[1]].mLastPassedTime =
           IF Passes(chain[pair[1]], t) THEN t ELSE chain[pair[1]].mLastPassedTime
<1> DEFINE d == pair[1]
           f == chain[d]
<1>1. d \in DOMAIN chain /\ f.class = "DecimateFilter" /\ d \in Reached(t) /\ f \in FilterType
  BY DecimatedReached, ChainElement
<1>2. After(d, t) = Processed(f, Len(observed) + 1, t)
  BY <1>1 DEF After
<1> HIDE DEF d, f
<1>3. Processed(f, Len(observed) + 1, t) =
        IF Passes(f, t) THEN [f EXCEPT !.mLastPassedTime = t] ELSE f
  BY <1>1 DEF Processed
<1>4. [f EXCEPT !.mLastPassedTime = t].mLastPassedTime = t
      /\ [f EXCEPT !.mLastPassedTime = t].class = f.class
  BY <1>1 DEF FilterType
<1>5. After(d, t).class = "DecimateFilter"
      /\ After(d, t).mLastPassedTime = IF Passes(f, t) THEN t ELSE f.mLastPassedTime
  BY <1>1, <1>2, <1>3, <1>4
<1>6. d \notin Full(t)
  BY <1>5 DEF Full, MaxSampleReached
<1>7. chain'[d] = After(d, t)
  BY <1>1, <1>6, ObserveExpanded
<1>8. QED BY <1>5, <1>7 DEF d, f

\* The decimation lets pass what is far from the last kept sample, and then that one is the last.
LEMMA LastDecides ==
  ASSUME NEW js, js \subseteq Nat, NEW obs, NEW last \in 0..Lowest, NEW delay \in Nat,
         NEW t \in 0..MaxTime, \A j \in js : obs[j].time \in 0..MaxTime, LastOf(js, obs, last)
  PROVE  Far(js, obs, t, delay) <=> last = Lowest \/ Distance(t, last) >= delay
<1>1. CASE last = Lowest /\ js = {}
  BY <1>1 DEF Far
<1>2. CASE \E j \in js : obs[j].time = last /\ \A l \in js : l <= j
  <2>1. PICK j \in js : obs[j].time = last /\ \A l \in js : l <= j
    BY <1>2
  <2>2. last \in 0..MaxTime /\ last # Lowest /\ MaxTime \in Nat
    BY <2>1, BoundsAssumption DEF Lowest
  <2>3. Distance(obs[j].time, t) = Distance(t, last)
    BY <2>1, <2>2 DEF Distance
  <2>4. Distance(t, last) >= delay => Far(js, obs, t, delay)
    <3>1. ASSUME Distance(t, last) >= delay, NEW i \in js
          PROVE  (\E l \in js : l > i) \/ Distance(obs[i].time, t) >= delay
      <4>1. CASE i = j
        BY <2>3, <3>1, <4>1
      <4>2. CASE i # j
        <5>1. i \in Nat /\ j \in Nat /\ i <= j
          BY <2>1
        <5>2. j > i
          BY <4>2, <5>1
        <5>3. QED BY <5>2
      <4>3. QED BY <4>1, <4>2
    <3>2. QED BY <3>1 DEF Far
  <2>5. Far(js, obs, t, delay) => Distance(t, last) >= delay
    <3>1. \A l \in js : l \in Nat /\ j \in Nat /\ l <= j
      BY <2>1
    <3>2. \A l \in js : ~(l > j)
      BY <3>1
    <3>3. QED BY <2>1, <2>3, <3>2 DEF Far
  <2>6. QED BY <2>2, <2>4, <2>5
<1>3. QED BY <1>1, <1>2 DEF LastOf

LEMMA FarSame ==
  ASSUME NEW js, NEW obs, NEW more, NEW t, NEW delay, \A j \in js : more[j] = obs[j]
  PROVE  Far(js, more, t, delay) <=> Far(js, obs, t, delay)
BY DEF Far

LEMMA LastSame ==
  ASSUME NEW js, NEW obs, NEW more, NEW last, \A j \in js : more[j] = obs[j]
  PROVE  LastOf(js, obs, last) => LastOf(js, more, last)
BY DEF LastOf

\* A call of the observer keeps what DecimatedOutput is about.
LEMMA ObserveDecimation ==
  ASSUME DecimationInv, IInv', NEW t \in 0..MaxTime, Observe(t), Len(chain) = Len(AllFilters),
         pc \in {"create", "run"}, pc' = "run", agingStep' = agingStep
  PROVE  DecimationInv'
<1> DEFINE n == Len(observed)
<1>1. TypeOK /\ ChainInv /\ n \in Nat /\ n + 1 \in Nat /\ Samples = 1..n /\ agingStep \in Nat
  BY ObservedLength DEF DecimationInv, IInv, Samples, TypeOK
<1>2. /\ Samples' = 1..(n + 1)
      /\ \A j \in 1..n : observed'[j] = observed[j]
      /\ observed'[n + 1] = [time |-> t, step |-> agingStep]
  <2>1. observed' = Append(observed, [time |-> t, step |-> agingStep])
    BY ObserveExpanded
  <2>2. QED BY <1>1, <2>1 DEF Samples, TypeOK
<1>3. /\ observed'[n + 1].time = t /\ observed'[n + 1].step = agingStep
      /\ \A j \in 1..n : observed[j].time \in 0..MaxTime /\ observed[j].step \in Nat
  <2>1. observed'[n + 1].time = t /\ observed'[n + 1].step = agingStep
    BY <1>2
  <2>2. \A j \in 1..n : observed[j] \in [time : 0..MaxTime, step : 0..MaxAgingSteps]
    BY <1>1, ElementOfSeq DEF TypeOK
  <2>3. QED BY <2>1, <2>2
<1> HIDE DEF n
<1>4. StepsInv'
  <2>1. ASSUME NEW j \in 1..(n + 1)
        PROVE  observed'[j].step <= agingStep
    <3>1. CASE j = n + 1
      BY <1>1, <1>3, <3>1
    <3>2. CASE j # n + 1
      <4>1. j \in 1..n
        BY <1>1, <3>2
      <4>2. QED BY <1>1, <1>2, <4>1 DEF DecimationInv, StepsInv
    <3>3. QED BY <3>1, <3>2
  <2>2. QED BY <1>2, <2>1 DEF StepsInv
<1>5. FreshInv'
  BY DEF FreshInv
<1>6. ASSUME NEW k \in OfClass("MatlabFilter")
      PROVE  /\ NamesInv(k)' /\ Kept(k) \subseteq 1..n /\ Kept(k)' \subseteq 1..(n + 1)
             /\ Kept(k)' = IF k \in Reached(t) THEN Kept(k) \cup {n + 1} ELSE Kept(k)
  <2>1. k \in DOMAIN chain /\ chain[k].class = "MatlabFilter"
    BY <1>1, AllFiltersType, ChainElement DEF OfClass, FilterOK
  <2>2. NamesInv(k) /\ Kept(k) \subseteq 1..n
    BY <1>1 DEF DecimationInv, KeptInv
  <2>3. Kept(k)' = IF k \in Reached(t) THEN Kept(k) \cup {n + 1} ELSE Kept(k)
    BY <1>1, <2>1, <2>2, ObserveKept DEF n
  <2>4. NamesInv(k)'
    BY <1>1, <2>1, <2>2, ObserveNames
  <2>5. \A j \in 1..n : j \in 1..(n + 1)
    BY <1>1
  <2>6. n + 1 \in 1..(n + 1)
    BY <1>1
  <2>7. QED BY <2>2, <2>3, <2>4, <2>5, <2>6
<1>7. KeptInv'
  BY <1>2, <1>6 DEF KeptInv
<1>8. ASSUME NEW pair \in Pairs
      PROVE  /\ LastOf(Current(pair[2]), observed, chain[pair[1]].mLastPassedTime)'
             /\ DecimatedAt(pair[1], pair[2])'
  <2> DEFINE d == pair[1]
             k == pair[2]
             js == Current(k)
             last == chain[d].mLastPassedTime
             limit == AllFilters[d].limit
  <2>1. /\ d \in DOMAIN chain /\ chain[d].class = "DecimateFilter" /\ chain[d].limit = limit
        /\ k \in Reached(t) <=> Passes(chain[d], t)
        /\ k \in OfClass("MatlabFilter") /\ limit \in Nat
    BY <1>1, DecimatedReached, PairFilters
  <2>2. last \in 0..Lowest
    BY <1>1, <2>1, ChainElement DEF FilterType
  <2>3. chain'[d].mLastPassedTime = IF k \in Reached(t) THEN t ELSE last
    BY <1>1, <2>1, ObserveLast
  <2>4. k \in Reached(t) <=> last = Lowest \/ Distance(t, last) >= limit
    BY <2>1 DEF Passes
  <2>5. /\ Kept(k) \subseteq 1..n
        /\ Kept(k)' = IF k \in Reached(t) THEN Kept(k) \cup {n + 1} ELSE Kept(k)
    BY <1>6, <2>1
  <2>6. DecimatedAt(d, k)
    BY DEF DecimationInv
  <2>7. /\ js = {j \in Kept(k) : observed[j].step = agingStep}
        /\ Current(k)' = {j \in Kept(k)' : observed'[j].step = agingStep'}
        /\ \A i : Before(k, i) = {j \in Kept(k) : j < i /\ observed[j].step = observed[i].step}
        /\ \A i : Before(k, i)' = {j \in Kept(k)' : j < i /\ observed'[j].step = observed'[i].step}
    BY DEF Current, Before
  <2>8. LastOf(js, observed, last)
    <3>1. CASE pc = "run"
      BY <3>1 DEF DecimationInv, LastInv
    <3>2. CASE pc = "create"
      <4>1. last = Lowest
        BY <2>1, <3>2 DEF DecimationInv, FreshInv
      <4>2. \A j \in 1..n : observed[j].step < agingStep
        BY <1>1, <3>2 DEF DecimationInv, StepsInv
      <4>3. \A j \in 1..n : observed[j].step # agingStep
        BY <1>1, <1>3, <4>2
      <4> HIDE DEF d, k, js, last
      <4>4. js = {}
        BY <2>5, <2>7, <4>3
      <4>5. QED BY <4>1, <4>4 DEF LastOf
    <3>3. QED BY <3>1, <3>2
  <2>9. LastOf(Current(k)', observed', chain'[d].mLastPassedTime) /\ DecimatedAt(d, k)'
    <3>1. DecimatedAt(d, k)' <=>
            \A i \in 1..(n + 1) :
              i \in Kept(k)' <=> Far(Before(k, i)', observed', observed'[i].time, limit)
      BY <1>2 DEF DecimatedAt, Far
    <3> HIDE DEF d, k, js, last, limit
    <3>2. js \subseteq 1..n /\ js \subseteq Nat /\ \A j \in js : observed'[j] = observed[j]
      BY <1>1, <1>2, <2>5, <2>7
    <3>3. Far(js, observed, t, limit) <=> k \in Reached(t)
      <4>1. \A j \in js : observed[j].time \in 0..MaxTime
        BY <1>3, <3>2
      <4>2. QED BY <2>1, <2>2, <2>4, <2>8, <3>2, <4>1, LastDecides
    <3>4. Current(k)' = IF k \in Reached(t) THEN js \cup {n + 1} ELSE js
      <4>1. \A j \in Kept(k) : observed'[j] = observed[j]
        BY <1>2, <2>5
      <4>2. QED BY <1>3, <2>5, <2>7, <4>1
    <3>5. LastOf(Current(k)', observed', chain'[d].mLastPassedTime)
      <4>1. CASE k \in Reached(t)
        <5>1. \A l \in Current(k)' : l <= n + 1
          <6>1. \A l \in 1..n : l <= n + 1
            BY <1>1
          <6>2. n + 1 <= n + 1
            BY <1>1
          <6>3. QED BY <3>2, <3>4, <4>1, <6>1, <6>2
        <5>2. n + 1 \in Current(k)' /\ observed'[n + 1].time = chain'[d].mLastPassedTime
          BY <1>3, <2>3, <3>4, <4>1
        <5>3. QED BY <5>1, <5>2 DEF LastOf
      <4>2. CASE k \notin Reached(t)
        BY <2>3, <2>8, <3>2, <3>4, <4>2, LastSame
      <4>3. QED BY <4>1, <4>2
    <3>6. ASSUME NEW i \in 1..(n + 1)
          PROVE  i \in Kept(k)' <=> Far(Before(k, i)', observed', observed'[i].time, limit)
      <4>1. CASE i = n + 1
        <5>1. i \in Kept(k)' <=> k \in Reached(t)
          <6>1. n + 1 \notin 1..n
            BY <1>1
          <6>2. QED BY <2>5, <4>1, <6>1
        <5>2. Before(k, i)' = js
          <6>1. \A j \in Kept(k) : observed'[j] = observed[j] /\ j < n + 1
            BY <1>1, <1>2, <2>5
          <6>2. ~(n + 1 < n + 1)
            BY <1>1
          <6>3. QED BY <1>3, <2>5, <2>7, <4>1, <6>1, <6>2
        <5>3. Far(js, observed', t, limit) <=> Far(js, observed, t, limit)
          BY <3>2, FarSame
        <5>4. QED BY <1>3, <3>3, <4>1, <5>1, <5>2, <5>3
      <4>2. CASE i # n + 1
        <5>1. i \in 1..n /\ observed'[i] = observed[i]
          BY <1>1, <1>2, <4>2
        <5>2. i \in Kept(k)' <=> i \in Kept(k)
          BY <2>5, <4>2
        <5>3. Before(k, i)' = Before(k, i)
          <6>1. \A j \in Kept(k) : observed'[j] = observed[j]
            BY <1>2, <2>5
          <6>2. ~(n + 1 < i)
            BY <1>1, <5>1
          <6>3. \A j : j \in Kept(k)' /\ j < i <=> j \in Kept(k) /\ j < i
            BY <2>5, <6>2
          <6>4. Before(k, i)' = {j \in Kept(k) : j < i /\ observed'[j].step = observed'[i].step}
            BY <2>7, <6>3
          <6>5. QED BY <2>7, <5>1, <6>1, <6>4
        <5>4. Before(k, i) \subseteq 1..n
          BY <2>5, <2>7
        <5>5. Far(Before(k, i), observed', observed[i].time, limit)
                <=> Far(Before(k, i), observed, observed[i].time, limit)
          BY <1>2, <5>4, FarSame
        <5>6. i \in Kept(k) <=> Far(Before(k, i), observed, observed[i].time, limit)
          BY <1>1, <2>6, <5>1 DEF DecimatedAt, limit
        <5>7. QED BY <5>1, <5>2, <5>3, <5>5, <5>6
      <4>3. QED BY <4>1, <4>2
    <3>7. QED BY <3>1, <3>5, <3>6
  <2>10. QED BY <2>9
<1>9. QED BY <1>4, <1>5, <1>7, <1>8 DEF DecimationInv, LastInv

\* Without a call of the observer, only the names and the state of new filters are to be shown.
LEMMA QuietDecimation ==
  ASSUME DecimationInv, IInv', UNCHANGED observed, StepsInv', FreshInv',
         \A k \in OfClass("MatlabFilter") : Kept(k)' = Kept(k) /\ NamesInv(k)',
         pc' = "run" => pc = "run" /\ UNCHANGED <<agingStep, chain>>
  PROVE  DecimationInv'
<1>1. Samples' = Samples
  BY DEF Samples
<1>2. KeptInv'
  BY <1>1 DEF DecimationInv, KeptInv
<1>3. ASSUME NEW pair \in Pairs
      PROVE  /\ pc' = "run" => LastOf(Current(pair[2]), observed, chain[pair[1]].mLastPassedTime)'
             /\ DecimatedAt(pair[1], pair[2])'
  <2> DEFINE d == pair[1]
             k == pair[2]
  <2>1. Kept(k)' = Kept(k)
    BY PairFilters
  <2>2. \A i : Before(k, i)' = Before(k, i)
    BY <2>1 DEF Before
  <2>3. DecimatedAt(d, k)'
    <3>1. DecimatedAt(d, k)
      BY DEF DecimationInv
    <3>2. QED BY <1>1, <2>1, <2>2, <3>1 DEF DecimatedAt, Far
  <2>4. ASSUME pc' = "run"
        PROVE  LastOf(Current(k), observed, chain[d].mLastPassedTime)'
    <3>1. Current(k)' = Current(k)
      BY <2>1, <2>4 DEF Current
    <3>2. LastOf(Current(k), observed, chain[d].mLastPassedTime)
      BY <2>4 DEF DecimationInv, LastInv
    <3>3. QED BY <2>4, <3>1, <3>2
  <2>5. QED BY <2>3, <2>4
<1>4. QED BY <1>2, <1>3 DEF DecimationInv, LastInv

LEMMA InitDecimation == Init => DecimationInv
<1> SUFFICES ASSUME Init PROVE DecimationInv
  OBVIOUS
<1>1. /\ observed = <<>> /\ chain = <<>> /\ files = {} /\ pc = "create"
      /\ DOMAIN observed = {} /\ DOMAIN chain = {} /\ IInv
  BY InitIInv DEF Init
<1>2. \A k : FilesAt(k) = {} /\ Buffer(k) = <<>>
  BY <1>1 DEF FilesAt, Buffer
<1>3. \A k : Kept(k) = {}
  <2>1. Held({}, <<>>) = {}
    BY DEF Held
  <2>2. QED BY <1>2, <2>1, HeldOutput
<1>4. KeptInv
  BY <1>2, <1>3 DEF KeptInv, NamesInv
<1>5. StepsInv /\ FreshInv /\ LastInv
  BY <1>1 DEF StepsInv, FreshInv, LastInv, Samples
<1>6. \A pair \in Pairs : DecimatedAt(pair[1], pair[2])
  BY <1>1 DEF DecimatedAt, Samples
<1>7. QED BY <1>1, <1>4, <1>5, <1>6 DEF DecimationInv

\* The end of a chain keeps what DecimatedOutput is about.
LEMMA DestroyDecimation ==
  ASSUME DecimationInv, IInv', DestroyFilters, UNCHANGED <<time, stepBegin, agingStep, observed>>,
         \/ pc' = "create" /\ pc = "reset"
         \/ pc' = "ended" /\ pc \in {"reset", "run"}
  PROVE  DecimationInv'
<1>1. TypeOK /\ ChainInv /\ StepInv /\ Len(chain) = Len(AllFilters) /\ chain' = <<>>
  BY DEF DecimationInv, IInv, ChainInv, DestroyFilters
<1>2. StepsInv' /\ FreshInv'
  <2>1. DOMAIN chain' = {} /\ Samples' = Samples
    BY <1>1 DEF Samples
  <2>2. QED BY <2>1 DEF DecimationInv, StepsInv, FreshInv
<1>3. ASSUME NEW k \in OfClass("MatlabFilter")
      PROVE  Kept(k)' = Kept(k) /\ NamesInv(k)'
  <2> DEFINE c == chain[k]
  <2>1. k \in DOMAIN chain /\ c.class = "MatlabFilter"
    BY <1>1, AllFiltersType, ChainElement DEF OfClass, FilterOK
  <2>2. NamesInv(k)
    BY DEF DecimationInv, KeptInv
  <2>3. FilesAt(k)' = FilesAt(k) \cup FilesOf(c) /\ Buffer(k)' = <<>> /\ NamesInv(k)'
    BY <1>1, <2>1, <2>2, DestroyedAt
  <2>4. Kept(k) = Held(FilesAt(k), c.mTime) /\ Kept(k)' = Held(FilesAt(k)', <<>>)
    BY <2>1, <2>3, HeldOutput, HeldOutputNext DEF Buffer
  <2> HIDE DEF c
  <2>5. CASE c.mTime = <<>>
    <3>1. FilesOf(c) = {}
      BY <2>5 DEF FilesOf
    <3>2. QED BY <2>3, <2>4, <2>5, <3>1
  <2>6. CASE c.mTime # <<>>
    <3>1. FilesOf(c) = {Written(c)} /\ Written(c).samples = c.mTime
      BY <2>1, <2>6 DEF FilesOf, Writes, Written
    <3>2. Held(FilesAt(k)', Buffer(k)') = Held(FilesAt(k), c.mTime)
      <4>1. DOMAIN Buffer(k)' = {}
        BY <2>3
      <4>2. FilesAt(k)' = FilesAt(k) \cup {Written(c)}
        BY <2>3, <3>1
      <4>3. Held(FilesAt(k)', Buffer(k)') = Held(FilesAt(k), Written(c).samples)
        BY <4>1, <4>2 DEF Held
      <4>4. QED BY <3>1, <4>3
    <3>3. QED BY <2>3, <2>4, <3>2
  <2>7. QED BY <2>3, <2>5, <2>6
<1>4. QED BY <1>2, <1>3, QuietDecimation

LEMMA NextDecimation == DecimationInv /\ IInv' /\ [Next]_vars => DecimationInv'
<1> SUFFICES ASSUME DecimationInv, IInv', [Next]_vars PROVE DecimationInv'
  OBVIOUS
<1>1. TypeOK /\ ChainInv /\ StepInv
  BY DEF DecimationInv, IInv
<1>2. ASSUME UNCHANGED <<chain, files, observed>>, StepsInv', FreshInv',
             pc' \in {"run", "reset", pc}, pc = "run" \/ pc' = pc,
             agingStep' = agingStep \/ (pc = "run" /\ pc' = "reset")
      PROVE  DecimationInv'
  <2>1. ASSUME NEW k \in OfClass("MatlabFilter")
        PROVE  Kept(k)' = Kept(k) /\ NamesInv(k)'
    <3>1. NamesInv(k)
      BY DEF DecimationInv, KeptInv
    <3>2. FilesAt(k)' = FilesAt(k) /\ Buffer(k)' = Buffer(k)
      BY <1>2 DEF FilesAt, Buffer
    <3>3. Kept(k)' = Kept(k)
      BY <3>2, HeldOutput, HeldOutputNext
    <3>4. QED BY <1>1, <1>2, <3>1, <3>3, SameNames
  <2>2. pc' = "run" => pc = "run" /\ UNCHANGED <<agingStep, chain>>
    BY <1>2
  <2>3. QED BY <1>2, <2>1, <2>2, QuietDecimation
<1>3. CASE AddFilter
  <2> DEFINE f == NewFilter(Len(chain) + 1)
  <2>1. Len(chain) + 1 \in DOMAIN AllFilters /\ DOMAIN chain = 1..Len(chain) /\ Len(chain) \in Nat
    BY <1>1, <1>3, AllFiltersType, ChainElement DEF AddFilter
  <2>2. chain' = Append(chain, f) /\ pc = "create" /\ pc' = pc /\ UNCHANGED <<agingStep, observed>>
    BY <1>3 DEF AddFilter
  <2>3. f.mLastPassedTime = Lowest /\ f \in FilterType
    BY <1>1, <2>1, NewFilterFields
  <2> HIDE DEF f
  <2>4. /\ DOMAIN chain' = 1..(Len(chain) + 1) /\ chain'[Len(chain) + 1] = f
        /\ \A j \in DOMAIN chain : chain'[j] = chain[j]
    BY <1>1, <2>1, <2>2, <2>3 DEF TypeOK
  <2>5. ASSUME NEW d \in DOMAIN chain'
        PROVE  chain'[d].mLastPassedTime = Lowest
    <3>1. CASE d = Len(chain) + 1
      BY <2>3, <2>4, <3>1
    <3>2. CASE d # Len(chain) + 1
      <4>1. d \in DOMAIN chain
        BY <2>1, <2>4, <3>2
      <4>2. QED BY <2>2, <2>4, <4>1 DEF DecimationInv, FreshInv
    <3>3. QED BY <3>1, <3>2
  <2>6. FreshInv' /\ StepsInv'
    BY <2>2, <2>5 DEF DecimationInv, FreshInv, StepsInv, Samples
  <2>7. ASSUME NEW k \in OfClass("MatlabFilter")
        PROVE  Kept(k)' = Kept(k) /\ NamesInv(k)'
    <3>1. NamesInv(k)
      BY DEF DecimationInv, KeptInv
    <3>2. FilesAt(k)' = FilesAt(k) /\ Buffer(k)' = Buffer(k) /\ NamesInv(k)'
      BY <1>1, <1>3, <3>1, AddedAt
    <3>3. QED BY <3>2, HeldOutput, HeldOutputNext
  <2>8. QED BY <2>2, <2>6, <2>7, QuietDecimation
<1>4. CASE FirstObserverCall
  <2>1. time' \in 0..MaxTime /\ time' = time /\ Observe(time') /\ Len(chain) = Len(AllFilters)
        /\ pc = "create" /\ pc' = "run" /\ agingStep' = agingStep
    BY <1>1, <1>4 DEF FirstObserverCall, TypeOK
  <2>2. QED BY <2>1, ObserveDecimation
<1>5. ASSUME NEW dt \in 1..mMaxSimulationStepDuration, Substep(dt)
      PROVE  DecimationInv'
  <2>1. Observe(time') /\ pc = "run" /\ pc' = "run" /\ agingStep' = agingStep
    BY <1>5 DEF Substep
  <2>2. time' \in 0..MaxTime
    BY DEF IInv, TypeOK
  <2>3. Len(chain) = Len(AllFilters)
    BY <1>1, <2>1 DEF ChainInv
  <2>4. QED BY <2>1, <2>2, <2>3, ObserveDecimation
<1>6. ASSUME NEW t \in 0..MaxTime, ResetStatesToPointOfTime(t)
      PROVE  DecimationInv'
  <2>1. UNCHANGED <<pc, agingStep, chain, files, observed>>
    BY <1>6 DEF ResetStatesToPointOfTime
  <2>2. StepsInv' /\ FreshInv'
    BY <2>1 DEF DecimationInv, StepsInv, FreshInv, Samples
  <2>3. QED BY <1>2, <2>1, <2>2
<1>7. CASE SetOutputFilenames
  <2>1. /\ UNCHANGED <<chain, files, observed>> /\ pc = "run" /\ pc' = "reset"
        /\ agingStep' = agingStep + 1 /\ agingStep \in Nat
    BY <1>1, <1>7 DEF SetOutputFilenames, TypeOK
  <2>2. \A j \in Samples : observed[j].step \in Nat /\ observed[j].step <= agingStep
    <3>1. \A j \in 1..Len(observed) : observed[j] \in [time : 0..MaxTime, step : 0..MaxAgingSteps]
      BY <1>1, ElementOfSeq DEF TypeOK
    <3>2. Samples = 1..Len(observed)
      BY <1>1, ObservedLength DEF Samples
    <3>3. QED BY <3>1, <3>2 DEF DecimationInv, StepsInv
  <2>3. StepsInv' /\ FreshInv'
    <3>1. \A j \in Samples : observed[j].step <= agingStep + 1 /\ observed[j].step < agingStep + 1
      BY <2>1, <2>2
    <3>2. QED BY <2>1, <3>1 DEF StepsInv, FreshInv, Samples
  <2>4. QED BY <1>2, <2>1, <2>3
<1>8. CASE ResetThElSimulation
  BY <1>8, DestroyDecimation DEF ResetThElSimulation
<1>9. CASE End
  BY <1>9, DestroyDecimation DEF End
<1>10. CASE UNCHANGED vars
  <2>1. UNCHANGED <<pc, agingStep, chain, files, observed>>
    BY <1>10 DEF vars
  <2>2. StepsInv' /\ FreshInv'
    BY <2>1 DEF DecimationInv, StepsInv, FreshInv, Samples
  <2>3. QED BY <1>2, <2>1, <2>2
<1>11. QED BY <1>3, <1>4, <1>5, <1>6, <1>7, <1>8, <1>9, <1>10 DEF Next

\* Behind a decimation exactly the samples are kept whose time differs by its delay from that of
\* the last kept one, for every chain, every delay, and over rollbacks and aging steps.
THEOREM DecimationIsExact == Spec => []DecimatedOutput
<1>1. Init => DecimationInv
  BY InitDecimation
<1>2. DecimationInv /\ IInv' /\ [Next]_vars => DecimationInv'
  BY NextDecimation
<1>3. DecimationInv => DecimatedOutput
  <2> SUFFICES ASSUME DecimationInv, NEW d \in OfClass("DecimateFilter"),
                      NEW k \in OfClass("MatlabFilter") \cap DecimatedBy(d)
               PROVE  \A i \in Samples :
                        LET before == {j \in Kept(k) : j < i /\ observed[j].step = observed[i].step}
                        IN  i \in Kept(k) <=>
                              \A j \in before :
                                \/ \E l \in before : l > j
                                \/ Distance(observed[j].time, observed[i].time) >= AllFilters[d].limit
    BY DEF DecimatedOutput
  <2>1. <<d, k>> \in Pairs /\ <<d, k>>[1] = d /\ <<d, k>>[2] = k
    BY DEF Pairs
  <2>2. DecimatedAt(d, k)
    BY <2>1 DEF DecimationInv
  <2>3. QED BY <2>2 DEF DecimatedAt, Far, Before
<1>4. QED BY <1>1, <1>2, <1>3, InductiveInvariant, PTL DEF Spec
=============================================================================
