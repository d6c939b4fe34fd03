---------------------------- MODULE MCMinerList ------------------------------
(***************************************************************************)
(* Instances of the dashboard's list of miners: a miner with two sessions, *)
(* each on a connection of its own, and two requests, so that one can      *)
(* overtake the other.                                                     *)
(***************************************************************************)
EXTENDS MinerList, TLC

CONSTANTS m1, s1, s2, c1, c2

OneMiner == [s \in Sessions |-> m1]

FirstClient == [s \in Sessions |-> c1]
OwnClients == [s \in Sessions |-> IF s = s1 THEN c1 ELSE c2]

\* Sessions of one miner, with their connections, and requests are treated
\* alike.
Symmetry == {s1 :> s2 @@ s2 :> s1 @@ c1 :> c2 @@ c2 :> c1} \cup Permutations(Requests)
=============================================================================
