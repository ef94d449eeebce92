----------------------------- MODULE MCLiteRetry -----------------------------
(***************************************************************************)
(* Three servers, the last of them an archive; a lookup of each kind, of   *)
(* the loaders' two, which share the counter of one client.                *)
(***************************************************************************)
EXTENDS LiteRetry

CONSTANTS d1, l1, l2, p1
=============================================================================
