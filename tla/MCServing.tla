------------------------------ MODULE MCServing ------------------------------
(***************************************************************************)
(* What a request meets, each part on its own: a lookup that is retried    *)
(* over lite servers, or the pages of the events of an account.  The parts *)
(* share nothing, so a behaviour is of one of them and the other stays as  *)
(* it began.                                                               *)
(*                                                                         *)
(* Retries: three servers, the last of them an archive; a lookup of each   *)
(* kind, the direct and the loaded one on the counter of one client.       *)
(* Pages: two messages and three traces, so that pages of two make a       *)
(* client read three pages if one of the messages is pending.              *)
(***************************************************************************)
EXTENDS LiteRetry, EventPage, TLC

CONSTANTS d1, l1, p1, m1, m2   \* model values: lookups and messages

VARIABLE part   \* which of them

\* Where pages are read, no lookup was made.
ServingInit ==
    /\ part \in {"retry", "pages"}
    /\ Init /\ (part = "pages" => counter = [k \in Client |-> 0])
    /\ PageInit

ServingNext ==
    \/ part = "retry" /\ Next /\ UNCHANGED <<eventVars, part>>
    \/ part = "pages" /\ PageNext /\ UNCHANGED <<vars, part>>

ServingSpec == ServingInit /\ [][ServingNext]_<<vars, eventVars, part>>

\* Neither message comes before the other.
MsgSymmetry == Permutations(Msg)
=============================================================================
