--------------------------- MODULE MCCronTrigger ---------------------------
(* Instances of CronTrigger for TLC: the constants come from the cfgs. *)
EXTENDS CronTrigger
=============================================================================
