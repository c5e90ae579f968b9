---------------------------- MODULE CoSimulation ----------------------------
(***************************************************************************)
(* What the coupling of two simulations promises: one goes ahead by at     *)
(* most MaxStep, the other follows over exactly the same period, and where *)
(* the follower stops early the leader comes back to it.  Profiles, states *)
(* and heat are details of the implementation.                             *)
(***************************************************************************)
EXTENDS Naturals

CONSTANT MaxStep      \* how far the leader may go ahead

VARIABLES turn,       \* "leader" or "follower"
          start,      \* time at which the leader went ahead
          leader,     \* time of the leader
          follower    \* time of the follower

coVars == <<turn, start, leader, follower>>

Init ==
  /\ turn = "leader"
  /\ start = 0 /\ leader = 0 /\ follower = 0

\* the simulations agree on a time and a new step begins there
Begin ==
  /\ turn = "leader"
  /\ leader = follower
  /\ start' = leader
  /\ UNCHANGED <<turn, leader, follower>>

Lead ==
  /\ turn = "leader"
  /\ leader' \in (leader + 1)..(start + MaxStep)
  /\ UNCHANGED <<turn, start, follower>>

HandOver ==
  /\ turn = "leader"
  /\ turn' = "follower"
  /\ UNCHANGED <<start, leader, follower>>

Follow ==
  /\ turn = "follower"
  /\ follower' \in (follower + 1)..leader
  /\ UNCHANGED <<turn, start, leader>>

Meet ==
  /\ turn = "follower"
  /\ follower = leader
  /\ turn' = "leader"
  /\ UNCHANGED <<start, leader, follower>>

RollBack ==
  /\ turn = "follower"
  /\ start < follower /\ follower < leader
  /\ leader' = follower
  /\ turn' = "leader"
  /\ UNCHANGED <<start, follower>>

Next == Begin \/ Lead \/ HandOver \/ Follow \/ Meet \/ RollBack

Spec == Init /\ [][Next]_coVars
=============================================================================
