----------------------------- MODULE Migration -----------------------------
(***************************************************************************)
(* pkg/api/migration_handlers.go: PrepareMigration, which answers with the *)
(* transactions that move everything a wallet holds to another one: its    *)
(* NFTs, its jettons, then the rest of its TON.  The gas is paid by the    *)
(* wallet itself, by a battery, or by a gasless relay that is paid in a    *)
(* jetton.  Each transaction is emulated on the state the one before left; *)
(* a wallet that pays itself is emulated with more than it has (overfund), *)
(* so that a shortfall comes with the whole plan.                          *)
(*                                                                         *)
(* Storage, emulator and relay are external and may fail; what a           *)
(* transaction costs is the emulator's answer.  Amounts are in units that  *)
(* keep the order of the constants.  Conversions of the answer are left    *)
(* out.                                                                    *)
(***************************************************************************)
EXTENDS Integers, Sequences, FiniteSets, SequencesExt

CONSTANTS
    Nfts,         \* sets of NFTs a wallet may hold
    Holdings,     \* jettons a wallet may hold: jetton -> balance
    GasJetton,    \* the jetton a gasless relay is paid in
    Balances,     \* TON of a wallet
    Commissions,  \* what the relay may ask for
    Fees, Returns,\* of a transaction: the wallet's fees, what bounces back
    MaxMessages,  \* MaxMessages[version]: MaxMessageNumber of the wallet
    SponsoredMax, \* sponsoredBatchMaxMessages
    Gas,          \* migrationGasPerTransfer
    MinTransferFee, \* minGramTransferFee
    Margin,       \* migrationOverfundMargin
    Lifetime,     \* migrationMsgLifetime
    NoGas         \* no jetton is the gas jetton

ASSUME MigrationAssumption ==
    /\ \A s \in Nfts : IsFiniteSet(s)
    /\ \A h \in Holdings : /\ IsFiniteSet(DOMAIN h) /\ NoGas \notin DOMAIN h
                          /\ \A j \in DOMAIN h : h[j] \in Nat
    /\ GasJetton # NoGas
    /\ \A v \in DOMAIN MaxMessages : MaxMessages[v] \in Nat /\ MaxMessages[v] > 1
    /\ SponsoredMax \in Nat /\ SponsoredMax > 1
    /\ Balances \subseteq Nat /\ Commissions \subseteq Nat
    /\ Fees \subseteq Nat /\ Returns \subseteq Nat
    /\ {Gas, MinTransferFee, Margin, Lifetime} \subseteq Nat

VARIABLE mig   \* a request, at mig.pc

\* wallet: what is moved.  emulated: TON the emulation gives the source; clock:
\* emuTime; required: of gramShortfall, 0 for nil; txs: the answer's transactions.
\* History: paid is what the transactions cost, swept the TON the last one moves,
\* overdrawn that deductGramBalance failed.
NoWallet == [exists |-> TRUE, version |-> "v5", balance |-> 0, nfts |-> {}, jettons |-> <<>>]
MigInit == mig = [pc |-> "idle", payer |-> "self", wallet |-> NoWallet,
    plan |-> <<>>, attempt |-> 0, commission |-> 0,
    overfund |-> 0, emulated |-> 0, clock |-> 0, required |-> 0, at |-> 1, txs |-> <<>>,
    paid |-> 0, swept |-> 0, overdrawn |-> FALSE]

MigAt(pc) == mig.pc = pc
SetMig(fields) == mig' = [f \in DOMAIN mig |->
    IF f \in DOMAIN fields THEN fields[f] ELSE mig[f]]
Error == SetMig([pc |-> "error"])

Wallet == mig.wallet
\* The NFTs and jettons are not nothing.
HasAssets(w) == w.nfts # {} \/ w.jettons # <<>>
RelayFunded == mig.payer # "self"
GasMaster == IF mig.payer = "gasless" /\ HasAssets(Wallet) THEN GasJetton ELSE NoGas

-----------------------------------------------------------------------------
(* The plan: batches of messages.  A message is [kind, item, amount]. *)

Batch(messages, sponsored) == [messages |-> messages, sponsored |-> sponsored]
Sweep == [kind |-> "TON", item |-> NoGas, amount |-> 0]

\* prepareNFTTransfers
NftTransfers(w) ==
    LET nfts == SetToSeq(w.nfts)
    IN [i \in 1..Len(nfts) |-> [kind |-> "nft", item |-> nfts[i], amount |-> 1]]

\* prepareJettonTransfers: the gas jetton goes last, without the reserve.
JettonTransfer(w, j, held) == [kind |-> "jetton", item |-> j, amount |-> w.jettons[j] - held]
JettonTransfers(w, gas, reserve) ==
    LET others == SetToSeq(DOMAIN w.jettons \ {gas})
        rest == [i \in 1..Len(others) |-> JettonTransfer(w, others[i], 0)]
    IN IF gas = NoGas THEN rest ELSE Append(rest, JettonTransfer(w, gas, reserve))

\* migrationBatch.chunk
Chunks(batch, n) == LET m == batch.messages IN
    [i \in 1..(Len(m) + n - 1) \div n |->
        Batch(SubSeq(m, (i - 1) * n + 1, IF i * n < Len(m) THEN i * n ELSE Len(m)),
              batch.sponsored)]

\* Mutant: no slot is kept for the commission.
ChunkSizeFull(w, relayed, gas) ==
    IF relayed /\ SponsoredMax < MaxMessages[w.version] THEN SponsoredMax
    ELSE MaxMessages[w.version]

\* chunkMigrationPlan: a slot is kept for the commission.
ChunkSize(w, relayed, gas) ==
    LET reserved == IF gas = NoGas THEN 0 ELSE 1
        size == MaxMessages[w.version] - reserved
    IN IF relayed /\ SponsoredMax - reserved < size THEN SponsoredMax - reserved ELSE size

\* assembleMigrationPlan, chunked.  The sweep is never sponsored
\* (batterySponsorsSweep = false).
Plan(w, relayed, gas, reserve) ==
    LET n == ChunkSize(w, relayed, gas)
    IN Chunks(Batch(NftTransfers(w), relayed), n)
       \o Chunks(Batch(JettonTransfers(w, gas, reserve), relayed), n)
       \o (IF w.balance > MinTransferFee THEN <<Batch(<<Sweep>>, FALSE)>> ELSE <<>>)

\* buildPlan refuses a gas jetton that is not there or has nothing left.
Builds(reserve) ==
    GasMaster # NoGas =>
        GasMaster \in DOMAIN Wallet.jettons /\ Wallet.jettons[GasMaster] > reserve

Sponsored(plan) == {i \in DOMAIN plan : plan[i].sponsored}

\* Where the messages of a plan are: batch and place in it.
Places(plan) == UNION {{i} \X DOMAIN plan[i].messages : i \in DOMAIN plan}
Message(plan, p) == plan[p[1]].messages[p[2]]

-----------------------------------------------------------------------------
(* Before the emulation. *)

\* The account, the wallet it is, its payer and the relay's config: each may be
\* refused.  Relays take v5 wallets only.
AskMigration(payer, w) ==
    /\ MigAt("idle")
    /\ \/ Error
       \/ /\ payer # "self" => w.version = "v5"
          /\ SetMig([pc |-> "plan", payer |-> payer, wallet |-> w])

\* prepareMigrationPlan: one unit is held back for the first estimate.
PrepareMigrationPlan ==
    /\ MigAt("plan")
    /\ LET reserve == IF GasMaster = NoGas THEN 0 ELSE 1 IN
       \/ Error
       \/ /\ Builds(reserve)
          /\ LET plan == Plan(Wallet, RelayFunded, GasMaster, reserve)
             IN SetMig([plan |-> plan,
                     pc |-> IF GasMaster = NoGas \/ Sponsored(plan) = {}
                            THEN "fund" ELSE "estimate"])

\* Mutant: the reserve is for one batch.
ReserveOnce(c, plan) == c
Reserve(c, plan) == c * Cardinality(Sponsored(plan))

\* A turn of the loop of embedGaslessCommission, which ends once the price does
\* not grow.
Estimate ==
    /\ MigAt("estimate")
    /\ \/ Error
       \/ \E c \in Commissions :
            IF mig.attempt > 0 /\ c <= mig.commission
            THEN SetMig([pc |-> "embed", commission |-> c])
            ELSE /\ mig.attempt < 2
                 /\ Builds(Reserve(c, mig.plan))
                 /\ SetMig([commission |-> c, attempt |-> mig.attempt + 1,
                         plan |-> Plan(Wallet, TRUE, GasMaster, Reserve(c, mig.plan))])

\* The commission transfer of the estimate goes into every sponsored batch.
WithCommission(plan, gas, c) ==
    [i \in DOMAIN plan |->
        IF plan[i].sponsored
        THEN Batch(Append(plan[i].messages, [kind |-> "commission", item |-> gas, amount |-> c]),
                   TRUE)
        ELSE plan[i]]

EmbedCommission ==
    /\ MigAt("embed")
    /\ \/ Error
       \/ SetMig([pc |-> "fund", plan |-> WithCommission(mig.plan, GasMaster, mig.commission)])

\* gasFundedMessages: those that are not a mode 128 sweep.
GasFunded(batch) == Cardinality({j \in DOMAIN batch.messages : batch.messages[j].kind # "TON"})

\* minGramBalanceRequired
Attached(batch) == IF batch.sponsored THEN 0 ELSE Gas * GasFunded(batch)
MinGramRequired(plan) ==
    Gas * Cardinality({p \in Places(plan) :
        ~plan[p[1]].sponsored /\ Message(plan, p).kind # "TON"})

\* worseShortfall
Worse(required, more) == IF more > Wallet.balance /\ more > required THEN more ELSE required

\* An account that does not exist is not over-funded: it gets no plan.
Fund ==
    /\ MigAt("fund")
    /\ LET min == MinGramRequired(mig.plan)
           overfund == IF min # 0 /\ Wallet.exists THEN min + Margin ELSE 0
           required == Worse(0, min)
       IN SetMig([pc |-> IF required # 0 /\ overfund = 0 THEN "short" ELSE "batches",
               overfund |-> overfund, required |-> required,
               emulated |-> Wallet.balance + overfund])

-----------------------------------------------------------------------------
(* The emulation of the batches, one after the other. *)

\* The closure fail: with a shortfall any later error is that shortfall.
Fail == SetMig([pc |-> IF mig.required # 0 THEN "short" ELSE "error"])

Transaction(batch, turn) == [batch |-> batch, seqno |-> mig.at, validUntil |-> turn + Lifetime]

\* Mutant: the over-funding is swept with the rest.
TakesNothingBack(batch) == FALSE
\* The over-funding is taken back before the sweep.
TakesBack(batch) == mig.overfund # 0 /\ GasFunded(batch) = 0 /\ mig.required = 0

\* emulateWalletMessage and what follows it, on a source with TON grams.  The
\* relay sends gas for one message more than there are.
EmulateOn(batch, grams, overfund) ==
    \E fee \in Fees, back \in Returns, took \in {0, 1} :
        LET sweep == GasFunded(batch) = 0
            needs == IF batch.sponsored THEN fee - Gas ELSE Attached(batch) + fee
            cost == IF sweep THEN grams ELSE IF batch.sponsored THEN needs ELSE needs - back
            spent == Wallet.balance + mig.overfund - (grams - cost)
        IN IF ~sweep /\ needs > grams
           THEN Fail   \* traceError
           ELSE SetMig([emulated |-> grams - cost, overfund |-> overfund,
                     required |-> IF overfund # 0 /\ ~sweep
                                  THEN Worse(mig.required, spent) ELSE mig.required,
                     paid |-> IF sweep THEN mig.paid ELSE mig.paid + cost,
                     swept |-> IF sweep THEN grams ELSE mig.swept,
                     txs |-> Append(mig.txs, Transaction(batch, mig.clock)),
                     clock |-> mig.clock + took, at |-> mig.at + 1])

EmulateBatch ==
    /\ MigAt("batches")
    /\ mig.at <= Len(mig.plan)
    /\ LET batch == mig.plan[mig.at] IN
       \/ Fail
       \/ IF ~TakesBack(batch) THEN EmulateOn(batch, mig.emulated, mig.overfund)
          ELSE IF mig.emulated < mig.overfund
          THEN SetMig([pc |-> "error", overdrawn |-> TRUE])
          ELSE EmulateOn(batch, mig.emulated - mig.overfund, 0)

\* With a shortfall the answer is a migrationConflict with the same plan.
Conclude ==
    /\ MigAt("batches")
    /\ mig.at > Len(mig.plan)
    /\ SetMig([pc |-> IF mig.required # 0 THEN "conflict" ELSE "done"])

PrepareMigration == PrepareMigrationPlan \/ Estimate \/ EmbedCommission \/ Fund
                    \/ EmulateBatch \/ Conclude

Wallets == [exists : BOOLEAN, version : DOMAIN MaxMessages, balance : Balances,
            nfts : Nfts, jettons : Holdings]
MigNext ==
    \/ PrepareMigration
    \/ \E payer \in {"self", "battery", "gasless"}, w \in Wallets :
          (w.balance > 0 => w.exists) /\ AskMigration(payer, w)

MigSpec == MigInit /\ [][MigNext]_mig

-----------------------------------------------------------------------------
(* Properties *)

MigEnded == {"done", "conflict", "short", "error"}

\* The batches of the answer, and where in them something is moved.
Answered == [i \in DOMAIN mig.txs |-> mig.txs[i].batch]
Moved(kind, item) == {p \in Places(Answered) :
    Message(Answered, p).kind = kind /\ Message(Answered, p).item = item}
\* The last messages of some of them.
Ends(batches) == {<<i, Len(Answered[i].messages)>> : i \in batches}

(***************************************************************************)
(* "half a plan must never be handed out" (migration_handlers.go:462): an  *)
(* answer with transactions moves every NFT and jetton once and sweeps     *)
(* last; each fits the wallet and, if sponsored, what the relay pays for,  *)
(* and ends with its commission; and each expires no earlier than the one  *)
(* before it.  What a conflict shows is the plan of the wallet once it     *)
(* holds what is required, less the sweep if now it has not even the fee   *)
(* of that.                                                                *)
(***************************************************************************)
WholePlanFits ==
    MigAt("done") \/ MigAt("conflict") =>
        /\ \A x \in Wallet.nfts : Cardinality(Moved("nft", x)) = 1
        /\ \A j \in DOMAIN Wallet.jettons : Cardinality(Moved("jetton", j)) = 1
        /\ Moved("TON", NoGas) = IF Wallet.balance > MinTransferFee
                                 THEN Ends({Len(mig.txs)}) ELSE {}
        /\ Moved("commission", GasMaster) = IF GasMaster = NoGas THEN {}
                                            ELSE Ends(Sponsored(Answered))
        /\ \A i \in DOMAIN mig.txs : LET t == mig.txs[i] IN
              /\ t.seqno = i
              /\ Len(t.batch.messages) <= MaxMessages[Wallet.version]
              /\ t.batch.sponsored => Len(t.batch.messages) <= SponsoredMax
              /\ i > 1 => t.validUntil >= mig.txs[i - 1].validUntil
        /\ MigAt("conflict") /\ Wallet.balance > MinTransferFee =>
              Answered = Plan([Wallet EXCEPT !.balance = mig.required],
                              RelayFunded, GasMaster, 0)

(***************************************************************************)
(* The over-funding of the emulation stays inside: what it shows as swept  *)
(* is what the wallet will have left, a plan that is answered is paid for, *)
(* and taking the over-funding back never fails.                           *)
(***************************************************************************)
OverfundStaysInside ==
    /\ ~mig.overdrawn
    /\ MigAt("done") => /\ mig.paid <= Wallet.balance
                        /\ Wallet.balance > MinTransferFee =>
                              mig.swept = Wallet.balance - mig.paid
    /\ MigAt("conflict") => mig.required > Wallet.balance /\ mig.required >= mig.paid

\* The gas jetton is moved, and with what stays of it pays the same commission of
\* every sponsored batch.
CommissionIsCovered ==
    (MigAt("done") \/ MigAt("conflict")) /\ GasMaster # NoGas =>
        /\ \A p \in Moved("commission", GasMaster) :
              Message(Answered, p).amount = mig.commission
        /\ \A p \in Moved("jetton", GasMaster) :
              LET moved == Message(Answered, p).amount IN
              /\ moved > 0
              /\ moved + mig.commission * Cardinality(Sponsored(Answered))
                    <= Wallet.jettons[GasMaster]

\* What a wallet is told to sign, where it is told anything.
PlanIsRight == WholePlanFits /\ OverfundStaysInside /\ CommissionIsCovered

\* A request is on its way.
Preparing == mig.pc \notin {"idle"} \cup MigEnded
=============================================================================
