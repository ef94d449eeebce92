----------------------------- MODULE MCEventPage -----------------------------
(***************************************************************************)
(* Two messages and four traces: pages of two make a client read three     *)
(* pages.                                                                  *)
(***************************************************************************)
EXTENDS EventPage

CONSTANTS m1, m2
=============================================================================
