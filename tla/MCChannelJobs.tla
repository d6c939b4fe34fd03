--------------------------- MODULE MCChannelJobs ----------------------------
(***************************************************************************)
(* The jobs of one connection's channels, and what decides whom they pay:  *)
(* the instance of the ChannelManager, with the readings of the identities *)
(* that its clients name when they open a channel.  The two share no       *)
(* state, so it is enough to type a text while the pool has done nothing.  *)
(***************************************************************************)
EXTENDS MCChannelManager, MinerIdentity

JobsInit == Init /\ Untyped

JobsNext ==
  \/ text = <<>> /\ Next /\ UNCHANGED textVars
  \/ Init /\ Type /\ UNCHANGED vars

JobsSpec == JobsInit /\ [][JobsNext]_<<vars, textVars>>
=============================================================================
