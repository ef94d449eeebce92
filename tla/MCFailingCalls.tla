---------------------------- MODULE MCFailingCalls ----------------------------
(***************************************************************************)
(* The parts every external call of which may fail, each on its own: they  *)
(* share no state, so a behaviour is of one of them and the others stay as *)
(* they began.                                                             *)
(*                                                                         *)
(* Indexer: a chain of three masterchain blocks after the zero state that  *)
(* has all the shapes next has to walk: block 1 commits two blocks of one  *)
(* shard (a1 is not a top), block 2 commits both halves of a split, of     *)
(* which the left one made two blocks, block 3 a merge and, in shard z, a  *)
(* top that did not change for two chunks and its successor.               *)
(*                                                                         *)
(* ShardDiff: the blocks each block of that chain commits.                 *)
(*                                                                         *)
(* EventAnswer: one request of any of the three handlers, by either hash,  *)
(* for an event that is emulated, included, and forgotten by the emulation *)
(* at any moment.                                                          *)
(*                                                                         *)
(* TraceSearch, RewardRounds: a request for any transaction and any round  *)
(* of the chains in MCTraceChain and MCRoundsChain.                        *)
(*                                                                         *)
(* Migration: a wallet with none, few or more NFTs than fit a transaction, *)
(* with the jetton a relay takes or without, with too little TON, just     *)
(* enough or plenty.                                                       *)
(*                                                                         *)
(* TrimmedConfig: a caller who may come before the first update, two that  *)
(* shut the storage down, a config that changes once.                      *)
(*                                                                         *)
(* Intentions: a wallet is told one or two of eight messages, of which    *)
(* some arrive.                                                            *)
(*                                                                         *)
(* SendBlacklist: three requests with either of two messages, in hex or in *)
(* base64, of which some overlap and some come later.                      *)
(*                                                                         *)
(* TraceInfo: two handlers of a trace of three transactions, of which the  *)
(* emulation had the first with its code, the second before its account    *)
(* had one and, instead of the third, two of its own.                      *)
(***************************************************************************)
EXTENDS Indexer, ShardDiff, TrimmedConfig, TraceInfo, EventAnswer,
        SendBlacklist, RewardRounds, Migration, Intentions, MCTraceChain,
        MCRoundsChain

CONSTANTS a0, z0, a1, a2, l1, l2, r1, d1, z1   \* shard blocks

MCShard == {a0, z0, a1, a2, l1, l2, r1, d1, z1}
MCTops == [m \in 0..3 |->
    CASE m = 0 -> {a0, z0}
      [] m = 1 -> {a2, z0}
      [] m = 2 -> {l2, r1, z0}
      [] m = 3 -> {d1, z1}]
MCParents == [b \in MCShard |->
    CASE b \in {a0, z0} -> {}
      [] b = a1 -> {a0}
      [] b = a2 -> {a1}
      [] b \in {l1, r1} -> {a2}
      [] b = l2 -> {l1}
      [] b = d1 -> {l2, r1}
      [] b = z1 -> {z0}]
MCCommittedAt == [b \in MCShard |->
    CASE b \in {a0, z0} -> 0
      [] b \in {a1, a2} -> 1
      [] b \in {l1, l2, r1} -> 2
      [] b \in {d1, z1} -> 3]
MCStartLt == [b \in MCShard \cup 0..3 |->
    CASE b \in {a0, z0} -> 1
      [] b = 0 -> 2
      [] b = a1 -> 3
      [] b = a2 -> 4
      [] b = 1 -> 5
      [] b \in {l1, r1} -> 6     \* two halves of a split start together
      [] b = l2 -> 7
      [] b = 2 -> 8
      [] b \in {d1, z1} -> 9
      [] b = 3 -> 10]
\* Of the shards: l and r are the halves of a.
MCShardOf == [b \in MCShard |->
    CASE b \in {a0, a1, a2, d1} -> "a" [] b \in {l1, l2} -> "l"
      [] b = r1 -> "r" [] b \in {z0, z1} -> "z"]
MCSeqnoOf == [b \in MCShard |->
    CASE b \in {a0, z0} -> 1 [] b \in {a1, z1} -> 2 [] b = a2 -> 3
      [] b \in {l1, r1} -> 4 [] b = l2 -> 5 [] b = d1 -> 6]

\* EventAnswer: an event and a request
CONSTANTS e1, q1

\* Migration: a v4 wallet needs two transactions for three NFTs, so does a v5 wallet
\* whose relay is paid in a jetton, as one of three messages is the commission.
MCNfts == {{}, {"n1"}, {"n1", "n2", "n3"}}
MCHoldings == {<<>>, [j1 |-> 3], [j1 |-> 3, g |-> 4]}
MCBalances == {0, 1, 3, 9}
MCCommissions == {0, 1, 2}
MCMaxMessages == [v4 |-> 2, v5 |-> 5]

\* TrimmedConfig
CONSTANTS s1, s2

\* TraceInfo
CONSTANTS c1, c2
MCNeeds == <<{"wallet"}, {"vault", "wallet"}, {"sale"}, {}>>
MCEmulated == [n \in {1, 3} |-> IF n = 1 THEN {"wallet"} ELSE {}]

\* SendBlacklist
CONSTANTS b1, b2, b3
MCPayload == {"p1", "p2"}
MCEncoding == {"hex", "base64"}

\* Intentions
MCTold ==
    {[dest |-> "x", body |-> "text", id |-> i, mode |-> "apart"] : i \in {1, 2}}
    \cup {[dest |-> "x", body |-> "type", id |-> i, mode |-> "apart"] : i \in {1, 2}}
    \cup {[dest |-> d, body |-> "cell", id |-> 1, mode |-> "apart"] : d \in {"x", "y"}}
    \cup {[dest |-> "y", body |-> "cell", id |-> 1, mode |-> m] : m \in {"inside", "all"}}

VARIABLE part    \* which of them

others == <<configVars, infoVars, enrich, blacklistVars, part>>
allVars == <<vars, answerVars, traceVars, fetch, mig, diff, others>>

FailingCallsInit ==
    /\ part \in {"indexer", "answer", "trace", "rounds", "migration", "diff", "config", "info",
                "intentions", "blacklist"}
    /\ Init /\ AnswerInit
    /\ TraceInit /\ (part # "trace" => indexed = {})
    /\ RoundInit /\ MigInit /\ DiffInit
    /\ ConfigInit /\ InfoInit /\ EnrichInit /\ BlacklistInit

\* What a step of each part leaves alone.
NotIndexer == <<answerVars, traceVars, fetch, mig, diff, others>>
NotAnswer == <<vars, traceVars, fetch, mig, diff, others>>
NotTrace == <<vars, answerVars, fetch, mig, diff, others>>
NotRounds == <<vars, answerVars, traceVars, mig, diff, others>>
NotMigration == <<vars, answerVars, traceVars, fetch, diff, others>>
NotDiff == <<vars, answerVars, traceVars, fetch, mig, others>>
NotConfig == <<vars, answerVars, traceVars, fetch, mig, diff, infoVars, enrich, blacklistVars, part>>
NotInfo == <<vars, answerVars, traceVars, fetch, mig, diff, configVars, enrich, blacklistVars, part>>
NotIntentions == <<vars, answerVars, traceVars, fetch, mig, diff, configVars, infoVars, blacklistVars, part>>
NotBlacklist == <<vars, answerVars, traceVars, fetch, mig, diff, configVars, infoVars, enrich, part>>

FailingCallsNext ==
    \/ part = "indexer" /\ Next /\ UNCHANGED NotIndexer
    \/ part = "answer" /\ AnswerNext /\ UNCHANGED NotAnswer
    \/ part = "trace" /\ TraceNext /\ UNCHANGED NotTrace
    \/ part = "rounds" /\ RoundNext /\ UNCHANGED NotRounds
    \/ part = "migration" /\ MigNext /\ UNCHANGED NotMigration
    \/ part = "diff" /\ DiffNext /\ UNCHANGED NotDiff
    \/ part = "config" /\ ConfigNext /\ UNCHANGED NotConfig
    \/ part = "info" /\ InfoNext /\ UNCHANGED NotInfo
    \/ part = "intentions" /\ EnrichNext /\ UNCHANGED NotIntentions
    \/ part = "blacklist" /\ BlacklistNext /\ UNCHANGED NotBlacklist

\* The goroutine each part is about (a behaviour is of one part; the two handlers
\* of TraceInfo each come to an end).  Beside it a handler has that of the spam
\* filter, and the select of TrimmedConfig finds a caller of Shutdown waiting.
Goroutine ==
    \/ part = "indexer" /\ (Internal \/ Send) /\ UNCHANGED NotIndexer
    \/ part = "answer" /\ (\E r \in Request : Handler(r)) /\ UNCHANGED NotAnswer
    \/ part = "trace" /\ GetTrace /\ UNCHANGED NotTrace
    \/ part = "rounds" /\ Fetch /\ UNCHANGED NotRounds
    \/ part = "migration" /\ PrepareMigration /\ UNCHANGED NotMigration
    \/ part = "diff" /\ GetBlockIDs /\ UNCHANGED NotDiff
    \/ part = "config" /\ RunBlockchainConfigUpdate /\ UNCHANGED NotConfig
    \/ part = "info" /\ (\E c \in Collector : ShowTrace(c)) /\ UNCHANGED NotInfo
    \/ part = "blacklist" /\ (\E s \in Sender : SendBlockchainMessage(s))
       /\ UNCHANGED NotBlacklist

FailingCallsSpec ==
    /\ FailingCallsInit
    /\ [][FailingCallsNext]_allVars
    /\ WF_allVars(Goroutine)
    /\ WF_allVars(/\ part = "answer"
                  /\ \E r \in Request : SpamReturns(r)
                  /\ UNCHANGED NotAnswer)
    /\ SF_allVars(/\ part = "config"
                  /\ \E s \in Stopper : Stop(s)
                  /\ UNCHANGED NotConfig)

\* The properties of the parts, which comment them.
ConfigIsFollowed == part = "config" => ConfigFollows

\* Whichever calls fail, every request ends: of a handler, for a trace and its
\* infos, for rounds, of a migration, for the blocks of a masterchain block, to send
\* a message, and to shut the storage down.
Open ==
    \/ Answering \/ Searching \/ Collecting \/ Fetching
    \/ Preparing \/ Walking \/ Sending
    \/ ShuttingDown
EveryRequestEnds == Open ~> ~Open
=============================================================================
