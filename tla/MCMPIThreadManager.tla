-------------------------- MODULE MCMPIThreadManager --------------------------
(* Instances of MPIThreadManager for TLC. *)
EXTENDS MPIThreadManager

\* two groups with two tasks; the second task of the first group takes one worker only
MCTaskMin == << <<1, 1>>, <<1, 0>> >>
MCTaskMax == << <<2, 1>>, <<1, 1>> >>
=============================================================================
