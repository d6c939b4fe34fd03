--------------------------- MODULE MCMinerHistory ---------------------------
(***************************************************************************)
(* Instances of the miner history: two connections are enough for events   *)
(* of two tasks to overtake one another and for a miner to reconnect, two  *)
(* miners for one to be taken for the other.                               *)
(***************************************************************************)
EXTENDS MinerHistory, TLC

\* Connections and miners are treated alike.  Not for temporal properties.
Symmetry == Permutations(Conns) \cup Permutations(Miners)
=============================================================================
