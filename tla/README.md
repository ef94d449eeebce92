# opentonapi: specifications and proofs

TLA+ specifications of the parts of `opentonapi` (tonkeeper/opentonapi, Go) that
are concurrent, retry, cache or keep state, the TLC models that check them and
the TLAPS proofs about them. Paths are relative to the repository (`src/` here).

## 1. The system

`cmd/api/main.go` wires one process. It talks to TON lite servers through
`tongo/liteapi` and serves a REST API; there is no database, everything it
remembers lives in maps, LRU caches and goroutines.

```
 lite servers ──► indexer.Run ──(unbuffered chan)──► LiteStorage.run ──► tx indexes
      ▲  ▲                                                  ▲
      │  └── MsgSender (batches, retries) ◄── API handlers ─┤  GetTrace, GetTransaction
      │                                          │          │
      └── RewardsService (dataloaders, rounds)   └─► mempool / emulation caches
 external HTTP ──► addressbook refreshers, rates refresher, chainstate (APY)
```

The parts talk to each other in four ways: calls into the lite client, one
unbuffered channel (indexer to storage), maps and caches that several goroutines
share (indexes, batches, pending traces, address book, loaders), and buffered
channels to receivers of messages. Nothing is written to disk: a restart begins
anew, so there is no recovery to model.

### Inventory

| component | state | operations | what makes it hard | what makes it correct |
|---|---|---|---|---|
| `pkg/blockchain/indexer` | current chunk, half-built next chunk | anchor, resolve next chunk, send to channels | retries, splits/merges, several blocks of a shard per master block, blocks the node does not have, blocking subscribers | every block once, parents first, master block last, no gap, never stuck |
| `pkg/litestorage` indexes | `transactionsIndexByHash`, `transactionsByInMsgLT`, `blockCache` | preload blocks/accounts, `run`, `searchTxInCache`, `GetTransaction` | two maps written one after the other by several goroutines while handlers read both | no dangling entry, lookups answer the transaction asked for, everything tracked gets indexed |
| `pkg/litestorage` traces | reads the indexes, `blockCache`, the cache of interfaces | `GetTrace`: `findRoot`, `recursiveGetChildren`, near-block search | search by (account, lt) while the index grows, error paths that drop subtrees | a trace is the message tree of its root, less what could not be read |
| `pkg/litestorage` config | trimmed config, LRU of configs | update goroutine, readers, `Shutdown` | fetch outside the lock, one stop channel for two goroutines | no update after the shutdown, the config of the chain is there in the end |
| `pkg/litestorage` shards | none | `GetBlockIDsForMasterchain`, `findMissedBlocks` | recursion over splits/merges, uint32 differences | exactly the blocks the indexer delivers between two master blocks |
| `pkg/blockchain` MsgSender | `batches`, receivers | `SendMessage`, `SendMultipleMessages`, resend loop | resend until TTL, snapshot outside the lock, blocking receivers | no send after expiry, accepted batches are sent |
| `pkg/api` mempool | `mempoolEmulate.accountsTraces`, `traces` | `RunEmulation`, `addToMempool`, readers | one goroutine per message, get-modify-set on an LRU | pending traces of an account are not lost |
| `pkg/api` send/blacklist | `blacklistedBocCache` | `SendBlockchainMessage` | check-then-act over an LRU with TTL | a message that was taken or refused is not sent again for a minute, others may be |
| `pkg/api` migration | none | `PrepareMigration`: plan, estimate, over-funded emulation | batches that must fit a wallet and a relay, emulations that build on each other, a shortfall known late | no half plan, each asset once, the over-funding stays inside |
| `pkg/api` events | none | `GetAccountEvents`, `GetAccountEvent`, `GetEvent` | a shared `err` variable written by two goroutines; page limits | error and result belong together; pages obey the limit |
| `pkg/core` traces | `Trace` tree with lazily added info | `CalculateProgress`, `CopyTraceData`, `CollectAdditionalInfo`, JSON | shared nodes filled by several goroutines, looked through twice with lookups in between; round trip drops fields | an info is missing or whole, what emulation found stays |
| `pkg/bath` | bubble tree | `FromTrace`, `Straw.Merge`, value flow | partial merges, builders that fail half-way | termination, value conservation |
| `pkg/bath` intentions | none | `EnrichWithIntentions` | messages and transactions are told to belong together by what they say | what arrived is not shown as lost |
| `pkg/rewards/service` | cached loaders, round stats | retry over lite servers, round-robin, election boundary search, split of bonuses, round stats | exclusion carried in a context, double-checked cache, boundary search with gaps, rounding | another server is tried; the blocks of a round are its own; bonuses are given out; each round once, oldest first |
| `pkg/addressbook` | wallets/jettons/collections maps, caches | four refreshers, search | read-modify-write of shared maps by concurrent refreshers | approvers are never lost |
| `pkg/rates` | rates snapshots | refresh, `GetRates` | day boundary, all-or-nothing refresh | snapshot consistent |
| `pkg/chainstate`, `pkg/cache`, `pkg/score`, `pkg/spam`, `pkg/verifier`, `pkg/pyth`, `pkg/gasless`, `pkg/wallet` | small or none | thin services | – | – |
| `pkg/oas`, `api/` | generated | – | – | – |

## 2. Modules

| module | code | status |
|---|---|---|
| `Chain` | TON itself, as `indexer.go` and `litestorage.go` use it: masterchain and shard blocks, parents, tops (external) | constants and `ChainAssumption` |
| `Indexer` | `pkg/blockchain/indexer/indexer.go` | whole file |
| `TxIndex` | `pkg/litestorage/litestorage.go`: preloads, `run`, the two maps, `searchTxInCache` | that part |
| `Pipeline` | `cmd/api/main.go` 59-98: `Indexer` and `TxIndex` joined by the channel | whole |
| `MsgSender` | `pkg/blockchain/msg_sender.go` | whole file |
| `EventAnswer` | `pkg/api/event_handlers.go`: `getTraceByHash`, `GetTrace`, `GetEvent`, `GetAccountEvent` | that part |
| `EventPage` | `pkg/api/event_handlers.go` `GetAccountEvents`, `pkg/api/emulation.go` `RunEmulation` to `addToMempool`, pages of `event_converters.go` | that part |
| `LiteRetry` | `pkg/rewards/service`: `retry.go`, `roundrobin.go`, `service.go`, the lookups of `loaders.go` | that part |
| `RoundStats` | `pkg/rewards/service/stats.go`, iterators of `pkg/core/elector.go` | whole file / iterators |
| `AddressBook` | `pkg/addressbook/addressbook.go`: the refreshers and what they write | that part |
| `TraceSearch` | `pkg/litestorage/trace.go` | whole file but the inspection of accounts |
| `ShardDiff` | `pkg/litestorage/litestorage.go`: `GetBlockIDsForMasterchain`, `findMissedBlocks` | that part |
| `TrimmedConfig` | `pkg/litestorage/config.go`: the trimmed config; `Shutdown` | that part |
| `TraceInfo` | `pkg/core/trace.go`: `CollectAdditionalInfo`, `CopyTraceData`, what JSON keeps of an info | that part |
| `SendBlacklist` | `pkg/api/event_handlers.go`: `SendBlockchainMessage` | without batches |
| `RewardRounds` | `pkg/rewards/service`: `rounds.go`, the split in `shared.go` and `pool.go` | that part |
| `Migration` | `pkg/api/migration_handlers.go`: `PrepareMigration` | that part |
| `Intentions` | `pkg/bath/intentions.go` | for one transaction of a wallet |
| `Straws`, `DexStraws` | `pkg/bath`: the patterns of `DefaultStraws`, as data | all of them |
| `Bath` | `pkg/bath`: `fromTrace`, `MergeAllBubbles`, `Straw.match` and `Merge`, the two straws with a `Merge` of their own | without `ToAction` |
| `IndexerProofs`, `MsgSenderProofs`, `LiteRetryProofs` | theorems about the module of that name | |
| `PipelineProofs` | theorems about `TxIndex` and `Pipeline` | |
| `RoundProofs` | theorems about `RoundStats` and `RewardRounds` | |
| `WalletProofs` | theorems about `Migration` and `Intentions` | |
| `StorageProofs` | theorems about `ShardDiff`, `TrimmedConfig` and `TraceSearch` | |
| `EventProofs` | theorems about `TraceInfo`, `EventPage`, `EventAnswer` and `SendBlacklist` | |
| `MC*` | instances for TLC; `MCTraceChain` and `MCRoundsChain` are the chains of `TraceSearch` and `RewardRounds` | |

Conventions: one action per step of a goroutine between two points where another
goroutine can see or change something (a call of a lite server, a lock, a channel
operation, a store in a map); the variables keep the names of the code; variables
commented `history` record what the properties speak of and no guard reads them
(except that bounds are counters); an operator commented `Mutant` is a plausible
mistake in the action below it, and the property it is listed with in
`PROJECT.json` fails when it takes that action's place. External parties (the
chain, lite servers, published lists) are constants or actions without fairness.
Parts that share nothing may share an instance, which part runs is then chosen
in the initial state (`part`): `MCServing` has `LiteRetry` and `EventPage`, `MCRefreshers`
has `RoundStats` and `AddressBook`, and `MCFailingCalls` has ten parts, whose external
calls fail one at a time: `Indexer`, `EventAnswer`, `TraceSearch`, `RewardRounds`, `Migration`,
`ShardDiff`, `TrimmedConfig`, `TraceInfo`, `SendBlacklist` and `Intentions`. Parts with theorems
are extended rather than instantiated, so that a run checks the very definition a theorem states;
this is why their definitions have names of their own (`AnswerSpec`, `PageSpec`, `BlacklistSpec`, ...).

### `Indexer`

`pc` is where `Run` stands: `info` and `initChunk` (first loop), `lookup`
(`LookupBlock` of the next masterchain block), `resolve` (the walk of `next`),
`pick` and `send` (the two loops over blocks and channels). `masterID` and `ids` are
the last complete chunk, `curIds`, `queue` and `chunkBlocks` the one being built.
`iter.MapErr` resolves a queue concurrently, so `Resolve` takes its ids one at a
time in any order; the code collects the next queue before it goes on, the model
mixes the two levels, which nobody can see, because blocks are sorted before they
are sent and every error drops the whole chunk. `ResolveFails` is that error,
`ResolveNotInDb` the answer that only skips a block. A stable order is not
assumed: `PickBlock` takes any of several blocks with the least `StartLt`.

The chain is a constant, with the assumption `ChainAssumption` on what TON
guarantees. `InitSeqno` keeps the wrap-around of `seqno - 1` on a 32-bit number.

### `TxIndex` and `Pipeline`

`byHash` and `byInMsgLT` are the maps, `linking[j]` the transaction that goroutine
`j` has stored in the first and not yet in the second, `todo[j]` what it still has
to index. `j` is `run`, a preloaded block or a preloaded account. A search is two
steps as in the code, one load each. `Pipeline` makes the send of the indexer and
the receive of `run` one step, starts the indexer after the preloads and lets the
chain grow all along.

### `MsgSender`

The loop (`drop`, `take`, `offer`, `send`, `sleep`), callers of `SendMessage`, receivers. Time is
counted in ticks that pass only where the code waits: in the sleep, in a call of a
server (at most the limit of its context) and at a full channel.

### `EventAnswer` and `EventPage`

`EventAnswer` follows one request through the calls of its handler; `err` and `trace`
are the handler's variables, and the spam goroutine of `GetAccountEvent` has its
own steps, since it assigns to the same `err`. An event is `emulated`, `included` on the
chain and `forgotten` by the cache of emulated traces at any time between the calls.
`EventPage` has a client that reads the history of an account page by page while messages
are emulated and included, and goroutines of `addToMempool` between their
get and set of the list of pending hashes. `SaveTraceWithState` may leave the emulated trace unsaved (it is valid no longer, or the
storage errs, as `LiteStorage` always does) and the hash is listed all the same; a saved trace expires by itself
(`ExpireTrace`), the list by itself (`ExpireList`). So a page may find no trace for a hash (`AddPending`),
its lookup of a message's transaction may fail, which is ignored (`misled` is history), and the other calls may fail too (`FailPending`);
then, and when the search of the history errs, there is no answer and the client asks for the page again.

### `LiteRetry`

Three kinds of lookup that the service makes: `Direct` (the fallback that hands its
exclude list to the client), `Loaded` (through the dataloaders, which got their
client and context elsewhere) and `Pinned` (on the copy `WithBlock` makes). `healthy`
is the list a lookup made before it moved the shared `counter`. `Cycle` is a common
multiple of the lengths the counter is divided by, so that counting modulo `Cycle`
loses nothing.

### `RoundStats` and `AddressBook`

`RoundStats` is one goroutine that walks back through configs (two rounds each)
and past elections until it meets a round it has. A round's numbers are reduced to
whether they were read after its end. `AddressBook` has one goroutine per list; a
list is the set of accounts in it, an approver list a sequence.

### `TraceSearch`

`search` is one request of `GetTrace`: `pc` is where it stands (`root` in `findRoot`,
`children` in `recursiveGetChildren`, `cache` and `block` in the search near a block),
`look` the arguments of that search, `stack` the frames of the recursion, each with its
transaction and the children it has so far, one for each message it is done with. `indexed` is the index
of `TxIndex` and grows at any time (`IndexTx`). `SearchTransactionInBlock` may
fail, find nothing or take the first transaction of the block with the account and
lt; what it read goes to `blocks`. `GetInterfaces` is the call whose failure
makes the transaction and all below it an empty trace. `TraceIsRight` compares with
the message tree of the chain (`Whole`), with any subtrees cut where
interfaces failed (`Pruned`). What TON guarantees of the chain is `TraceAssumption`.

### `ShardDiff`

`todo` holds the blocks `findMissedBlocks` is still to be called for, `result` what
it has found. The chain is the one of the indexer, so that `DiffIsTheChunk` compares
the program's two ways to tell which blocks a masterchain block commits.

### `TrimmedConfig`

`updater` is the goroutine of `runBlockchainConfigUpdate` (`select`, `fetch`, `store`),
`readers` the callers of `TrimmedConfigBase64`, `stoppers` those of `Shutdown`. A call
of the lite server and the store of its answer are two steps, without a lock
in between. The send on the unbuffered channel and its receive in the select are one
step, `Stop`. A config is its version.

### `TraceInfo`

A handler takes the trace of the chain, which others have too (`cached`), or an emulated
one of its own (`own[c]`) to which `CopyTraceData` gives what the nodes of the chain
have. It looks through the nodes for those without info (`Ask`), looks up what
they need (`Lookup`, which fails as a whole), looks through the nodes again (`Fill`) and sets an
info (`FillNode`); between the last two it holds no lock. An info is the set of kinds it
has; `by` says who made it and is history.

### `SendBlacklist`

`sends` has the requests, each through the lookup in the cache (`Ask`), the call of the
lite server and the write of the cache with its answer (`AnswerSend`); others run and time passes between
them. `blacklisted` is `blacklistedBocCache` by checksum with the ticks an entry has left. The checksum is of
the decoded message, so `KeyOf` is the same for hex and base64. `settled` and `late` are history: whether some request had been
told that the message was taken or refused less than a minute before this one came.

### `RewardRounds`

`fetch` is one request: the anchor block, the walk of `findElectionBoundary` (`base`,
`forward`, `backward`; `fwd` and `bwd` are its two ends, `i` its steps, `ret` what it was called for), the
elector's data. A lookup that fails leaves its end where it is, and a config that cannot
be read ends the walk; both are alternatives of each step. `ShareOut` is
`computeValidatorRewards`: `MulDiv` rounds down, and divides by zero when all
nominators of a pool have only pending deposits, which is the `panic` it ends in.

### `Migration`

`mig` is one request; its `pc` goes through the stages of `PrepareMigration`: `plan`, `estimate` and `embed` (relay paid in a
jetton only), `fund`, `batches`. A batch is a sequence of messages, which say what they move; `Plan`
is `assembleMigrationPlan` with its chunks. What an emulated transaction
costs is any of `Fees` and `Returns`. A jetton whose balance cannot be converted (`migration_handlers.go:902`) is one that is not in the wallet. `paid`, `swept` and `overdrawn` are history. `Fail` is the closure of that name: with a shortfall every
later error is that shortfall.

### `Intentions`

`enrich` is one call of `EnrichWithIntentions` for the transaction of a wallet: what it
was told (`msgs`), what arrived (`arrived`), how many transactions come below. `IsMatch` is what the code
compares (the query id of typed bodies, `intentions.go:119-127`, is part of what a body is), `Arrival` what the transaction of a message says: its value is less
the fee if the mode does not pay fees apart, and whatever the wallet had in mode 128. `AddFailed` is a
turn of the loop that adds a failed action for each message of `left`.

### `Straws`, `DexStraws` and `Bath`

`Bath` is the recognition of actions in a trace. A bubble is a record of facts (`is`,
a function from kinds of facts to sets of values), its children in order, the
transactions that are part of it (`parts`), its value flow (`flow`) and `IsMerged`
(`marked`). A flow is a bag of changes, so that counting one twice shows: the grams and fees of a transaction (`Own`),
and the jettons that the `ValueFlowUpdater` of a straw took from an account (`Debit`) or gave to one
(`Credit`), with the merge they were counted in and without their amount. `Finalize` is the updater `Straw.Merge` calls,
the last of those it met. Bubbles are a function from identifiers instead of pointers; a merge puts
the new bubble where the topmost merged one was (`*bubble = n`) and drops what is
out of reach. A step is one `recursiveMerge` of the whole tree.

A straw is data: a tree of nodes with the facts each requires (`when`), what its
builder copies (`sets`, `gives`) and when it errs (`needs`, `agree`). Only facts that
some straw asks for are kept; amounts are intervals. `StrawMerge` has the order of
the code: builders run from the top down and the last child first, an error ends
the merge and leaves the marks set until then. `StonfiMerge` and `DedustMerge` are the
two mergers that are no patterns; `Rescued` chooses an order because the code
ranges over a map.

Who is paid by a swap is a fact of the model only where a straw looks at it: Tonco, DeDust and universal Stonfi compare
the recipient of the payout with the sender. `StonfiSwapStraw` and the straws of MegatonFi, Bidask and Mooncx
do not, so the recipient is not recorded and no property says that a swap shown pays its sender.
Not in the model: the NFTs of a flow, which no updater counts, the amounts of
flawed transfers, and panics, which become "no match": `HasOperation` of a bubble that is no transaction any more
(`matcher.go:227-231`, reached from `staking.go:255` and `296`), a body that was not decoded (`dedust.go:49`), a swap
without sender or recipient (`tonco.go:17-18`).

`MCBath` builds the traces from the straws: for each straw the transactions its
pattern asks for, where a node that asks for a bubble of another straw becomes the
transactions of that one. What is expected of them comes from the pattern, what is
found from the whole list of straws in its order, and that is the question.

What reading and checking the patterns showed besides the finding below:

* `JettonTransferMinimalStraw` and `FlawedJettonTransferMinimalStraw` never merge
  anything: the classic straw before each matches whatever they match.
* From `// 10` on, the numbers in the comments of `DefaultStraws` are one behind the
  index that `strawSuccess` counts with: six straws stand between `//5` and `// 10`.
* No straw of the list has `NotMergeBubble` at its top, so that branch of `Merge` is
  not in the model; below the top it is (`NotMerged`).
* The success that the removal of an extension sets in `UnSubscriptionBySubscriberStraw` is
  overwritten by the builder that runs next.
* If the payout of a DeDust swap through Omniston comes before the fee,
  `dedust.go:101` takes the transfer to Omniston for the payout, and the swap is not shown.

### What reading and checking the other parts showed

No document says otherwise, so these are no findings; the properties say what holds beside them.

* `EventPage`: with a limit of 1, which `openapi.yml` allows, `getPendingLimits` is 0, and as the number of pending events is compared
  with `>` (`event_handlers.go:340`), one of them takes the only place of the page that `reserver slots for real transactions`
  speaks of. The trace that was there is on no page. `PagesAreRight` holds, and is proved, for every other limit.
* `EventPage`: with `LiteStorage` no emulated trace is ever saved (`litestorage.go:637`), but hashes are listed all the same, and
  each page looks them up for nothing.
* `TraceSearch`: a message is looked for by account and created lt. Going back, the index of *in*
  messages is asked for a transaction by one of its *out* messages, so that a message the
  account got at the same lt answers for it and `GetTrace` returns the trace of another event.
  `TraceIsRight` therefore assumes `Unambiguous`; the chain has two events that are not.
  Of a message of an account to itself the index answers with its receiver, which `findRoot` takes for the sender and
  searches from again, up to the limit of depth: once that transaction is in the index, its trace and any that
  goes on from it are an error (`ToItself`). The proof of `TracesAreRight` failed on this before the chain had such a message.
* `TrimmedConfig`: `litestorage.go:213` speaks of all background goroutines, but only
  the one of the config receives the stop: `run` goes on, and a second caller of `Shutdown` waits for ever.
* `TraceInfo`: JSON leaves out the data of vaults, which does no harm, since emulation sets none. A wallet
  whose `get_wallet_data` fails makes the collection fail for the whole trace, while a missing
  master is kept as the zero account.
* A node with a finished child and a message on its way has progress 1 and is in progress all the
  same: `CalculateProgress` counts messages of leaves only.
* `RewardRounds`: `FetchValidationRounds` ignores the unixtime it is asked for and answers for the
  head of the chain; a pool with pending deposits only is a division by zero (`shared.go:280`).
* `Migration`: a wallet with more than the minimal fee of a sweep on paper but less after the shortfall gets a
  preview without the sweep that its plan will have.
* `Intentions`: the test whether anything is missing counts every transaction below, so in a deeper trace
  as many lost messages as there are others go unnoticed; a message whose fee was taken out of its value is
  shown as failed beside its own action; of two equal messages the arrival of one hides the loss of the
  other; several new actions come in reverse order.
* `SendBlacklist`: messages of a batch are neither looked for in the blacklist nor put there; and of two requests with one message
  that overlap, the one that comes second to the server is told that it cannot be applied, although the message was taken.
* `rates/calculator.go` tests `marketErr != nil` the wrong way round; the field it guards is not used.

## 3. Runs

| run | states | question |
|---|---|---|
| `failing_calls` | 73 k | Do all subscribers get every block once, parents first, the masterchain block last, and does the indexer ever stop? Does the shard difference find the same blocks? Is an answer right, whichever call failed on the way: of a handler, a trace, a round and its rewards, a migration, the infos of a trace, the failed actions of a wallet, a message that is sent twice? Does a shutdown end the updates of the config, is the config right in the end, does every request end? |
| `pipeline` | 56 k | Can a handler see the two maps disagree, miss a transaction, or index and indexer wait for each other? |
| `pipeline_key` | – | Does a key of the second map identify its transaction? (no) |
| `msg_sender` | 438 k | Do copies precede sends, does a failing message cost others their turn, can a batch expire untried, do sends end? |
| `event_answer_race` | – | Do answer and error belong together in `GetAccountEvent`? (no) |
| `serving` | 4.2 M | Is a lookup served that can be, is the client replaced once? Do the pages a client reads have each trace of the history once, and never a message as pending next to itself, whichever emulated traces are saved or expire? |
| `event_page_kept` | – | Does an account keep its pending messages when the next comes? (no) |
| `lite_retry_exclude` | – | Does a lookup through the loaders ask others after a refusal? (no) |
| `refreshers` | 433 k | Rounds: ordered, gapless unless an update failed, final once complete, finally known. Book: finally approved, search and book finally agree. |
| `address_book_merge` | – | Does merging approvers keep those there are? (no) |
| `bath` | 168 k | Does merging end, lose nothing, repeat nothing? Are jettons that arrived in the value flow once, whatever their transfer became part of, and those that were refused not at all? Does every straw of the list get its turn? |
| `bath_marks` | – | Is the value flow that of the whole trace? (no) |

### What the six disagreements are

Each is a run that TLC must find violated, and an entry under `findings` with the
line of the repository that says otherwise.

* `pipeline_key`: created lt is unique per sender; two senders may give two
  transactions of one account the same key of `transactionsByInMsgLT`, and the
  second overwrites the first.
* `event_answer_race`: `GetAccountEvent` and its goroutine both assign to `err`.
* `event_page_kept`: `addToMempool` copies no old hash into the list it saves.
* `lite_retry_exclude`: the loaders' batch functions call the client with a context
  that does not hold the exclude list.
* `address_book_merge`: Tonkeeper is appended to the approvers of the downloaded item
  in place of those of the known collection.
* `bath_marks`: a builder that errs leaves bubbles marked as merged. Withdrawing from an Affluent vault
  into a Tonco swap makes one that errs (sender of the asset is the vault, the owner is paid), and the straw of the
  withdrawal, which comes later, keeps the transfer it finds below but drops the pool, marked, with all below that.

### Bounds and why they are enough

* `MCFailingCalls`, `Indexer`: three masterchain blocks after the zero state and nine shard blocks have every
  shape `next` distinguishes: two blocks of a shard between two masterchain blocks, a split
  with halves of different length, a merge, an idle shard. Two channels show
  disagreement between subscribers; two faults make a fault during the retry of the
  first possible. A third block, channel or fault repeats these cases.
* `MCFailingCalls`, `ShardDiff`: the same chain, each of its masterchain blocks.
* `MCFailingCalls`, `TraceSearch` (`MCTraceChain`): six events: one over neighbouring blocks with an external message between two
  internal ones, one deeper than the limit, one with a message to another shard and one that
  takes two blocks, two that account and lt do not tell apart, and one with a message of an account to itself. Any of the
  transactions is asked for; seven of them can be
  in the index from the beginning or get there at any time. `MaxDepth = 2` is met by the second and exceeded by one.
* `MCFailingCalls`, `RewardRounds` (`MCRoundsChain`): of three elections the second is whole, begins late and ends late, so that a walk
  of three steps reaches its boundaries from the block at the time of config 34 exactly when no lookup fails. Three
  validators: with nominators, with pending deposits only, with none. Amounts are small numbers that do not divide evenly.
* `MCFailingCalls`, `Migration`: no, few or more NFTs than a transaction holds; with and without the jetton of the relay;
  TON of 0, 1 (the minimal fee), 3 and plenty. More messages repeat a batch.
* `MCFailingCalls`, `TrimmedConfig`: one reader, two that shut down, one change, one failure: a reader that stores late,
  a failed update after the change, the second caller that waits. A third version repeats the second.
* `MCFailingCalls`, `SendBlacklist`: three requests, two that overlap and one after, over two messages, which must not touch each other,
  in two encodings. A minute is two ticks: an entry is there, about to go, gone.
* `MCFailingCalls`, `TraceInfo`: two handlers (the proof covers any number) and traces of two and four nodes: one the emulation had whole, one
  JSON would take a kind from, one only the emulation has with and one without info.
* `MCFailingCalls`, `Intentions`: eight messages for the cases of `IsMatch` (text, body of a known type, unknown cell; the three
  kinds of mode), up to two of them at a time and at most one transaction below: two are alike or not, and one below is enough
  to hide a loss.
* `MCPipeline`: a watched account with a transaction in every block, a second one whose
  message has the same created lt, one that is not watched, one that does not convert;
  two preloads of blocks that `run` may see again; one reader, one search (a search
  keeps nothing, and the proof covers any number).
* `MCMsgSender`: batch `b1` has a refused message between two good ones, `b2` one message.
  `TTL = 3 = Load * SendLimit + Pause` is the boundary: the worst wait equals `TTL`, and
  `DropAtTTL`, one tick less, loses a batch. Ages count up to 7, past the last tick a
  property looks at. A channel of one place is full after one message.
* `MCFailingCalls`, `EventAnswer` (and `MCEventAnswer`): one request is enough, handlers share only read-only services; the
  event moves through all its states and each external call may fail.
* `MCServing`, `EventPage` (and `MCEventPage`): a limit of 2 over up to three traces and two messages gives three pages: a pending
  event on the first pushes a trace to the second, which is full then, so that the client asks for a third. Traces are added meanwhile.
* `MCServing`, `LiteRetry` (and `MCLiteRetry`): with three servers of which one is an archive, two refuse before one serves, which
  takes all `RetryAttempts = 3`. Any number of earlier requests is in the initial
  counter. One expiry is found by four requests; one connection flips.
* `MCRefreshers`: `MaxRounds = 4` of twelve rounds: the history starts full, rounds are evicted, one of two
  late rounds is in the past and one still to come; two failures let one update fail after
  another that was half done. Two edits make a list change and change back; one account is enough,
  no code path relates two accounts of a list.
* `MCBath`: each straw alone; each with the one after it in the list (`Reach`), below one wallet, because straws of
  one protocol stand together and compete for the same bubbles; each with any one of its transactions cut off, failed (after
  its messages were sent or before), moved to another account or followed by a transfer to another; swaps of up to three routers. Recognition is
  determined by the trace but for the order of the map, so that the states are few and the initial states are the point.
  This run stands alone: its states are large records, and the other instances have queues of states that TLC would have to keep on disk.

### Fairness

* `Indexer`: weak fairness of its goroutine including the send: it never looks at its context,
  both loops retry, subscribers are assumed to receive (`Pipeline` replaces that by `run` itself).
  The node owes nothing: `NodeApplies` is not fair, liveness is stated of blocks it has applied.
  Faults are bounded, as no property can hold of a server that fails for ever.
* `Pipeline`: weak fairness of each goroutine main starts, none of readers or the node.
* `MsgSender`: weak fairness of the loop and of time. Servers and receivers owe nothing.
* `EventAnswer`, `TraceSearch`, `TraceInfo`, `SendBlacklist`, `RewardRounds`, `Migration`, `ShardDiff`: weak fairness of the goroutine of the handler
  (`Goroutine`), and of the spam filter's own in `EventAnswer`: every external call returns, as
  each takes the context of the request. A request need not come.
* `TrimmedConfig`: weak fairness of the update goroutine, and strong fairness of the receive of a waiting `Shutdown`:
  `select` takes one of its ready cases at random, so it will not pass over a sender for ever. None of readers or of
  the chain.
* `RoundStats`: weak fairness of the goroutine. That a round (65536 s) lasts longer than an update is in
  the guard of the action that ends a round.
* `AddressBook`: weak fairness of each refresher, whose loop nothing ends.

## 4. Proofs

All are checked by TLAPS from the definitions above and the named assumptions of the
modules, for every value of the constants. Every theorem follows the same way: an invariant that is
inductive, one lemma per action (or for the actions of one part) that says it is kept, and the property as a part or a
consequence of it. What follows says why the property alone is not inductive.

* `IndexerProofs`, from `ChainAssumption` and `BoundsAssumption`.
  * `TypeCorrect`: `TypeInv` adds that `masterID + 1` is applied by the node while a chunk is built and that the anchor stays on the
    chain although `InitSeqno` wraps around (`SeqnoRange > MaxSeqno + 1` makes the wrapped number one the node does not have).
  * `SentInOrder`, `SentOnce`, `SentToAll`: `OrderInv` says of the stream of the *last* subscriber, which is behind the others
    while a block is sent, that each block fits those before it; that the next one will is a matter of the chunk.
    `ResolveInv`: while it grows, no block is in it or its queue twice, all of it belongs to the
    next masterchain block, and what it still lacks of a block's parents is queued, was sent before or was skipped. `PickInv`: while it
    is sent, what a block has to come after is sent or still there, and the masterchain block is the last to go.
  * `NoneIsMissing`: a subscriber that got a masterchain block has all it committed. This is no new invariant but a
    consequence of the order, by induction along the chain: the tops are before the masterchain block and the
    parents of a block before it (`ClosedIsWhole`: the youngest block that would be missing has a child that is not).
* `PipelineProofs` on `TxIndex`, from `TxIndexAssumption`: the inductive invariant is
  `IndexInv == TypeOK /\ LinkInv /\ NoDanglingEntry /\ ReadInv`. `NoDanglingEntry` alone is not inductive: that the
  second store of a transaction leads to the first map needs `LinkInv`, a transaction that is being linked is
  already in `byHash`; and that a search between its two loads still finds what its first load answered
  needs `ReadInv`, which remembers the key it was made for. From it: `TypeCorrect`, `EntriesNeverDangle`,
  `SearchFinds`. `IndexNeverShrinks` is an action property, one step per action.
  `NoBlockHalfIndexed`, that `run` leaves no block half indexed, needs a second invariant on top, `RunInv`: of
  the block at hand, what is done is in both maps (`BlockInv`) unless it is the head of `todo`, of which the
  first store may be done and the second not (`HeadInv`).
* `PipelineProofs` on `Pipeline`: `IndexImplemented` and `IndexerImplemented`, a step of the composed system is a step
  of, or leaves alone, either component; so the theorems about `TxIndex` hold of the
  program (`PipelineSearchFinds`, `PipelineIndexesBlocks`). The refinement mapping is the identity on the variables
  of each component; what has to be shown is that the composition gives each only
  inputs it allows.
  * `NothingIsMissed` is the property from end to end, and made of the parts: `run` has got exactly what the indexer has sent
    (`SameBlocks`, the only invariant that is new), a masterchain block that was delivered came with all it committed
    (`NoneIsMissing`, through the refinement), and what `run` got is in the index when it is idle (`BlocksIndexed`). It assumes of the chain that
    every transaction is in a block.
* `MsgSenderProofs`, from `MsgSenderAssumption`.
  * `CopiedBeforeSent`: the property speaks of a message that is tried; on the
    way there `CopyInv` says that of the message being copied every receiver not in `togo` has it.
  * `NoneLeftOut`: `RoundInv` says what was tried in a round by where the loop stands: the batches before `pos` whole, of the batch at
    `pos` the messages before the one at hand. The queue has no batch twice because `batches` has none, which `Kept` preserves (`LoopInv`).
  * `FittingIsTried`, `SendsEndInTime`: an account of time (`TimeInv`). `Spent` is what has passed at most since the loop took
    its batches: a time limit for each message it has tried, and the pause. A batch it did not take and that waits is no older (`WaitInv`), one it took is not
    older than `TTL + Spent` (`LateInv`), and as no message is tried twice in a round, there are at most `Load` of them.
* `LiteRetryProofs`, from `LiteRetryAssumption`.
  * `ReplacedOnce`, however many requests wait for the write lock of `currentClient`: whoever
    gets it after the first looks again.
  * `ServableIsServed`: on the fallback the servers excluded are as many as the attempts, connected and none the archive (`DirectInv`), so with as
    many attempts as servers one is left that serves, wherever others move the counter they share. A copy of a client excludes nobody, so that nothing of
    the sort holds of it; it is alone with its counter, and in fewer steps than it has attempts left the
    counter points to the archive (`PinnedInv`, remainders). The kinds of lookup are disjoint by the assumption, as in the code.
* `RoundProofs`, from `RoundStatsAssumption` and, for the last, `RoundsApart`.
  * `AlwaysOldestFirst`: `pushElectorRound` keeps an ascending list
    ascending whatever it is given, so the invariant needs nothing of the iterators; the work is that the
    place it looks for is a greatest element (`Greatest`, by well-founded induction) and what insertion and eviction do to a sequence.
  * `HistoryReachesBack`, `CompletedStayFinal`: these do depend on the iterators. `WalkInv` says where the walk is: at the current
    round (`Starting`), at the one that was the newest and may be read before its end (`Renewing`), before the oldest (`Filling`).
    A failed update leaves it anywhere, so both are stated while none has failed, as the code promises no more.
  * `RoundsAreExact`: a walk has looked at all blocks between its two ends, they are of one round, and of its steps each way those that got it no further
    are the lookups that failed (`StepsInv`). So a boundary it finds lies between neighbours, and one that was in reach is found. That it is the boundary
    asked for, which the code does not check, is `RoundsApart`: within `maxBoundarySearch` (20) blocks of the time a round begins no other round begins, and none but it
    ends near the time it should; rounds have thousands of blocks. It does not say that they change within reach.
  * `RewardsRight` adds what is shared out (`SharedOut`): validators get the bonuses and a pool the reward of its validator, but for less than
    one nanogram for each of them. `MulDiv` of each is bounded from both sides (`DivBounds`); the rest is that sums are compared as their terms are
    (`Compare`): the sum of a subset is a function of it (`SumIsPartial`), and the fold of `MapThenSumSet` goes through the subsets by their
    cardinality (`PickAll`).
* `WalletProofs`, from `MigrationAssumption` and `IntentionsAssumption`.
  * `PlansAreRight` for every wallet and any answers of storage, relay and emulator. Of a plan, `PlanParts`: `SetToSeq` lists each asset once
    and a chunk takes each message from one place of the list (`OnePlace`: quotient and remainder), so every asset is in one place of the plan; and
    a chunk is no longer than wallet and relay allow, less one place for the commission (`RoomForCommission`).
    Of a request, `MigInv` (`MigInvHolds`). It is needed since the parts of the answer are made stages apart: the reserve the plan was made with and
    the commission that is put into it come of different estimates, and that the first covers the second (`DrawnAgain`,
    `LowerPrice`) is because plans of one wallet have as many sponsored batches whatever is held back (`SponsoredSame`).
    What the emulation still has is the wallet's TON with the over-funding, less what was paid (`MoneyInv`), up to the sweep, which is the last batch; so what is
    taken back is always there, and what is left is swept; and with a shortfall the most the wallet was seen to lack is at least what it paid (`PaidUp`).
  * `OnlyTheLostAreShown`: `EnrichInv` says of the list at each turn that the failed actions are of the messages
    the loop is done with, one each, in one place among those it found.
* `StorageProofs`.
  * `BlocksOfMaster`, from `ChainAssumption` and `ShardAssumption` (seqnos of a shard grow by one; what TON says about splits and merges):
    `GetBlockIDsForMasterchain` answers exactly the blocks of a masterchain block. Of all there are,
    each is found or an ancestor of one to walk on from (`Covered`); the shortcut that counts
    seqnos down instead of walking is right because between two blocks of a shard its blocks form a line (`Line`).
  * `StoppedForGood`: a call of `Shutdown` is done only by meeting the goroutine in its select, and it ends there.
  * `TracesAreRight`, from `TraceAssumption` (a message has one sender and at most one receiver, lt grows along a trace and no account
    sends two messages of one lt). The definitions of `Root`, `Level`, `Whole` and `Pruned` go along a tree; that there are such
    functions is `Upwards` and `Downwards`: the rank of a transaction by lt is bounded, and what is defined up to one rank is defined up to the next.
    `SearchInv` says of a request: on the way back it is in the trace asked for, as far up as its depth (`BackInv`); on the way down
    each frame has, of the messages it is done with, traces they led to, and its next message led to the frame above (`FrameInv`); and
    a search has the arguments of one message, whose other end, if the second block is tried and no call has failed, was not in the
    first (`LookInv`). What it finds is that other end (`HitIsOtherEnd`, `CandidateIsOtherEnd`), and where it finds nothing it is not near.
* `EventProofs`.
  * `InfosAreWhole`, from `InfoAssumption` (traces have a root, the emulation is no handler): the invariant says what the second walk relies on, without a lock
    since the first: a node passed over then has an info, no info is taken away, and everything else was
    looked up (`AskInv`, `FillInv`); and that a handler on an emulated trace sets nothing in the one of the chain (`OwnerInv`).
  * `PagesLoseNothing`, from `EventPageAssumption` and `Limit > 1` (section 2 says what happens at 1): the
    pages read so far have every trace newer than the next one to begin with (`SeenInv`), and a page is the next traces but for the last of them, if a pending event
    pushed it out (`EventsInv`); then the page ends, and the next one begins, before it. It relies on the list of pending hashes having one entry at most, which
    is the finding `event_page_kept`: were that mended, two pending events could push out as many, and the theorem would have to be proved anew.
    It relies on nothing of the emulated traces, which come and go. That no page has a message as pending next to its
    trace (`OnceInv`) is because the chain is asked for the transaction after the history was read: what is on the page was on chain by then.
  * `AnswersFitWhatWasFound`: `FoundOut` says, by where a handler stands, what its `trace` and `err` say about the event, of every
    handler but the one with the goroutine that shares `err` (which is the finding `event_answer_race`); `LookedOnChain`, that
    who looks among the emulated traces has not passed over what was on chain before.
  * `DuplicatesAreTold`: the ticks an entry of the cache has left and the age of the answer it stands for add up to a minute
    (`BlacklistInv`), whichever requests overlap.

Only model-checked: every liveness property (fairness and ENABLED are out of the prover's
reach); all of `Bath`, whose recursive operators are out of the prover's reach; and the module
`AddressBook`, of which only liveness is claimed.


## 5. Not modelled, and the plan

In this order:

1. `IsWallet` with its cache and `GetLastConfig`, two caches filled after a lookup without a lock.
2. The rewards per block (`blocks.go`), on top of the split in `RewardRounds`; rates; address search.

Left out for good: generated code (`pkg/oas`, seven eighths of the repository's lines, which bounds what share of it any model can cover), tables of constants (`pkg/references`), conversions of answers
without state, the emulator and the lite client themselves (not in the repository), no-op stand-ins
(`pkg/spam`, `pkg/score`, `pkg/verifier`). The hazards of `PROJECT.json` that no property covers name their reason.
