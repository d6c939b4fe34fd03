-------------------------- MODULE MCChannelManager --------------------------
(***************************************************************************)
(* Instances of the ChannelManager.  The connection life cycle is checked  *)
(* with two connections of one channel each, so that tasks interleave; the *)
(* jobs with one connection of two channels and four templates.            *)
(***************************************************************************)
EXTENDS ChannelManager, TLC

\* Every connection may use any of the addresses.
SharedAddresses == [d \in Downstream |-> Address]

Plain == [customWork |-> FALSE, standardJobs |-> FALSE]

PlainClients == {Plain}
EveryClient == [customWork : BOOLEAN, standardJobs : BOOLEAN]

\* Connections are interchangeable.
Symmetry == Permutations(Downstream)
=============================================================================
