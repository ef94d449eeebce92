------------------------------ MODULE MCPipeline -----------------------------
(***************************************************************************)
(* Four masterchain blocks that commit a shard block each, the last one    *)
(* also one that is not a top.  The watched account x has a transaction in *)
(* each shard block, one of them next to a transaction of y, which is not  *)
(* watched, one after a transaction that cannot be converted.  The account *)
(* z, watched too, answers in s1 a message of the same created lt as x.    *)
(***************************************************************************)
EXTENDS Pipeline

CONSTANTS s0, s1, s2, s3, s4, x, y, z, u0, u1, u2, u3, u4, v, w, bad

MCShard == {s0, s1, s2, s3, s4}
MCBlock == MCShard \cup 0..3
MCTops == [m \in 0..3 |->
    CASE m = 0 -> {s0} [] m = 1 -> {s1} [] m = 2 -> {s2} [] m = 3 -> {s4}]
MCParents == [b \in MCShard |->
    CASE b = s0 -> {} [] b = s1 -> {s0} [] b = s2 -> {s1} [] b = s3 -> {s2}
      [] b = s4 -> {s3}]
MCCommittedAt == [b \in MCShard |->
    CASE b = s0 -> 0 [] b = s1 -> 1 [] b = s2 -> 2 [] b \in {s3, s4} -> 3]
MCStartLt == [b \in MCBlock |->
    CASE b = s0 -> 1 [] b = 0 -> 2 [] b = s1 -> 3 [] b = 1 -> 4 [] b = s2 -> 5
      [] b = 2 -> 6 [] b = s3 -> 7 [] b = s4 -> 8 [] b = 3 -> 9]

MCTx == {u0, u1, u2, u3, u4, v, w, bad}
MCBlockTxs == [b \in MCBlock |->
    CASE b = s0 -> <<u0>> [] b = s1 -> <<u1, w>> [] b = s2 -> <<v, u2>>
      [] b = s3 -> <<bad, u3>> [] b = s4 -> <<u4>> [] OTHER -> <<>>]
MCAccountOf == [t \in MCTx |-> CASE t = v -> y [] t = w -> z [] OTHER -> x]
MCInMsgLT == [t \in MCTx |-> CASE t \in {u1, w} -> 1 [] t = u4 -> 2
                               [] OTHER -> 0]
MCHistory == [a \in {x, y, z} |->
    CASE a = x -> <<u4, u3, bad, u2, u1, u0>> [] a = y -> <<v>> [] a = z -> <<w>>]

\* Two senders, one created lt: u3 and u4 answer messages two accounts created
\* at the same logical time.
SameLT == [t \in MCTx |-> IF t \in {u3, u4} THEN 1 ELSE 0]
=============================================================================
