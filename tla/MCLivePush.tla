----------------------------- MODULE MCLivePush -----------------------------
(* The instance of LivePush for TLC; LivePush_clients.cfg gives the constants *)
(* their values.                                                           *)
EXTENDS LivePush
=============================================================================
