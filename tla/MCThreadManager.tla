--------------------------- MODULE MCThreadManager ---------------------------
(* Instances of ThreadManager for TLC. *)
EXTENDS ThreadManager

\* one group, three workers; the second task takes two workers only, so that
\* worker 2 skips it
OneGroupOf == [w \in 0..2 |-> 1]
OneGroupAssigned == <<3>>
OneGroupTaskMax == << <<3, 2>> >>

\* one worker for the first group and two for the second; RunThreads numbers them
\* throughout, so that worker 1 computes the second share of the second group and
\* worker 2 skips the task
TwoGroupOf == [w \in 0..2 |-> IF w = 0 THEN 1 ELSE 2]
TwoGroupAssigned == <<1, 2>>
TwoGroupTaskMax == << <<1>>, <<2>> >>
=============================================================================
