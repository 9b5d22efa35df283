--------------------------- MODULE MCEventSources ---------------------------
(* Instances of EventSources for TLC. *)
EXTENDS EventSources
=============================================================================
