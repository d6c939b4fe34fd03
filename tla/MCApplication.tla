--------------------------- MODULE MCApplication ----------------------------
(***************************************************************************)
(* Instances of the process and its runs.                                  *)
(***************************************************************************)
EXTENDS Application
=============================================================================
