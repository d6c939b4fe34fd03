------------------------- MODULE MCTemplateProvider -------------------------
(***************************************************************************)
(* Instances of the template provider.  The timers of the program are 60,  *)
(* 1 and 10 seconds and its cache keeps 256 templates of a tip; here they  *)
(* keep their order, as far as a few templates can exceed them.            *)
(***************************************************************************)
EXTENDS TemplateProvider
=============================================================================
