---------------------------- MODULE MCEventAnswer ----------------------------
(***************************************************************************)
(* One request of any of the three handlers, by either hash, for an event  *)
(* that is emulated, included, and forgotten by the emulation at any       *)
(* moment; a second event that nobody asks for need not be there.          *)
(***************************************************************************)
EXTENDS EventAnswer

CONSTANTS e1, r1
=============================================================================
