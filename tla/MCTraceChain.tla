----------------------------- MODULE MCTraceChain -----------------------------
(***************************************************************************)
(* A chain for TraceSearch: a trace of four transactions in neighbouring   *)
(* blocks (x), one deeper than the limit (z), one with a message to        *)
(* another shard and one that waited a block (y), two (v, w) in which      *)
(* account A makes a message at the lt of one it gets, and one (u) of an   *)
(* account that sends itself a message.                                    *)
(***************************************************************************)
EXTENDS TraceSearch

MCTx == {"x1", "x2", "x3", "x4", "y1", "y2", "y3", "z1", "z2", "z3", "z4",
       "v1", "v2", "w1", "w2", "u1", "u2"}
MCIndexable == {"x2", "x4", "y2", "z3", "v2", "w2", "u2"}
MCMsg == {"m1", "m2", "m3", "k1", "k2", "n1", "n2", "n3", "g", "h", "f"}

MCBlockTxs == [
    s |-> <<<<"x1", "x2">>, <<"x3", "x4", "z1", "z2", "v1">>,
            <<"y1", "z3", "z4", "v2", "w1", "w2">>, <<"u1", "u2">>, <<"y3">>>>,
    r |-> <<<<>>, <<>>, <<"y2">>>>]
MCBlockOf == [t \in MCTx |-> CHOOSE b \in [shard : {"s", "r"}, seqno : 1..5] :
    /\ b.seqno \in DOMAIN MCBlockTxs[b.shard]
    /\ \E i \in DOMAIN MCBlockTxs[b.shard][b.seqno] : MCBlockTxs[b.shard][b.seqno][i] = t]
MCAccountOf == [t \in MCTx |->
    CASE t \in {"x1", "x4", "y1", "v2", "w1"} -> "A"
      [] t \in {"x2", "z1", "z3", "w2"} -> "B"
      [] t \in {"x3", "y3", "z2", "z4", "v1"} -> "C"
      [] t \in {"y2", "u1", "u2"} -> "D"]
MCOutMsgs == [t \in MCTx |->
    CASE t = "x1" -> <<"m1", None, "m2">>
      [] t = "x2" -> <<"m3">>
      [] t = "y1" -> <<"k2", "k1">>
      [] t = "z1" -> <<"n1">>
      [] t = "v1" -> <<"g">>
      [] t = "w1" -> <<"h">>
      [] t = "u1" -> <<"f">>
      [] t = "z2" -> <<"n2">>
      [] t = "z3" -> <<None, "n3">>
      [] OTHER -> <<>>]
MCInMsg == [t \in MCTx |->
    CASE t = "x2" -> "m1" [] t = "x3" -> "m2" [] t = "x4" -> "m3"
      [] t = "y2" -> "k1" [] t = "y3" -> "k2"
      [] t = "z2" -> "n1" [] t = "z3" -> "n2" [] t = "z4" -> "n3"
      [] t = "v2" -> "g" [] t = "w2" -> "h"
      [] t = "u2" -> "f"
      [] OTHER -> None]
MCCreatedLt == [m \in MCMsg |->
    CASE m = "m1" -> 11 [] m = "m2" -> 13 [] m = "m3" -> 15
      [] m = "n1" -> 21 [] m = "n2" -> 23 [] m = "n3" -> 35
      [] m \in {"g", "h"} -> 41
      [] m = "k2" -> 31 [] m = "k1" -> 32
      [] m = "f" -> 51]
MCSource == [m \in MCMsg |-> MCAccountOf[CHOOSE t \in MCTx :
    \E i \in DOMAIN MCOutMsgs[t] : MCOutMsgs[t][i] = m]]
MCDestination == [m \in MCMsg |-> MCAccountOf[CHOOSE t \in MCTx : MCInMsg[t] = m]]
=============================================================================
