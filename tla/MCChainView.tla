---------------------------- MODULE MCChainView -----------------------------
(***************************************************************************)
(* Instances of the dashboard's view of the chain.                         *)
(***************************************************************************)
EXTENDS ChainView
=============================================================================
