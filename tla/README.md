# TLA+ models of ergvein

ergvein is a Bitcoin wallet that keeps its keys and addresses to itself: an
*indexer* turns every block into a compact filter, the *wallet* downloads the
filters, and asks a Bitcoin node for the blocks whose filter matches one of its
addresses. This directory models the parts of that system in which state,
concurrency and failures meet, checks them with TLC on small instances and
proves what it can with TLAPS for all instances.

## 1. Inventory

The index server (`src/index-server`, one process of many threads):

| Component | State | Operations | Interacts with | Hard part | Correct when |
|---|---|---|---|---|---|
| Block scanner (`BlockchainScanning/*.hs`, `DB/Queries.hs`) | scanned height, filters, transactions, counters of unspent outputs, last scanned block, rollback sequence | scan a block, detect a fork, roll back, stop | node (RPC or TCP), three LevelDB databases, TCP service (broadcast) | a dozen unbound writes per block; reorgs, exceptions, kills between any two | filters are those of the node's chain, every stored block's transactions can be found, the scan catches up |
| Startup and shutdown (`App.hs`, `btcDbConsistencyCheck`) | the databases, the shutdown flag | check, repair ("hack"), dump the rollback sequence, stop the threads | scanner | runs on whatever a kill left; the dump races the scanner | the repaired databases let the scan go on |
| LevelDB handle (`DB/Wrapper.hs`, `Environment.hs`) | handle state, count of operations | use, reopen, close | every thread | reopen and close beside operations in progress | no use after close, no lock for ever |
| TCP service (`TCPService/{Server,Supervisor,MessageHandler,Socket}.hs`) | open connections, send queues, workers | accept, handshake, answer, broadcast, disconnect | databases, scanner, fees, rates | broadcast beside replies, workers that end while they are registered | every accepted connection is closed and unregistered; a client sees each new filter once |
| Node connection (`TCPService/BTC.hs`) | socket, handshake, pending block requests | connect, request, reconnect | scanner | a late answer to a request already repeated | a request gets its block |
| Peer discovery (`PeerDiscovery/*.hs`) | list of known peers | consider, actualise, drop | database, other indexers | read, change, write back without a lock | no accepted peer is lost |
| Transaction index (`TxIndex.hs`) | index of transaction heights | split the range, build | node, database | several builders at once | each height is built once |
| Fees, rates (`Worker/*.hs`) | a variable each | poll | web services | none | - |

The wallet core (`src/ergvein-core`, event-driven, forked event handlers):

| Component | State | Operations | Hard part | Correct when |
|---|---|---|---|---|
| Scan (`Scan.hs`), restore (`Restore.hs`) | scanned height, keys, batch position | take filters, match, fetch blocks, derive keys | new keys appear while a batch is matched; undecodable filters | no transaction of the wallet's addresses is missed |
| Wallet info and files (`Store/{Env,Crypto,Util}.hs`, `Worker/Store.hs`) | wallet info in memory, mutexes, message waiting to be saved, file and backup | modify, post, save, complete private keys, log in and out | info sampled before it is delivered or before a mutex is taken; kill while saving | a change is not lost; one of file and backup is whole |
| Transactions (`Store/Monad.hs`, `Node/Manage.hs`) | transactions, UTXO set, replaced transactions | add, confirm, replace, remove | order of confirmation, replacement and double spending | UTXO set agrees with the transactions |
| Indexer clients (`Client/*.hs`, `Worker/Indexer.hs`) | active, inactive, archived addresses, sockets | activate, deactivate, forget, reconnect | lists changed in several steps | an address is in one list |
| Node clients (`Node/*.hs`, `Worker/{Node,Mempool}.hs`) | connected nodes, outgoing transactions | connect, send, watch the mempool | resend, reconnect | a transaction is sent until it is seen |
| Transaction builder (`Transaction/*.hs`) | none | pick coins, estimate the fee | change at the dust limit | inputs cover outputs and fee |

The rest: the wallet's pages (`src/wallet`), the UI framework (`src/sepulcas*`,
`src/reflex-*`, `src/retractable`), types and codecs (`src/wallet-types`,
`src/index-protocol*`, `src/index-api`), filters and bit streams
(`src/wallet-filters`, `src/golomb-rice`, `src/cbitstream`), cryptography, platform
bindings, website and build files. `PROJECT.json` lists each with its status.

## 2. Modules

| Module | Models | Status |
|---|---|---|
| `DbHandle` | the shared LevelDB handle | checked, proved |
| `DbHandleProofs` | its safety, for any threads | proved |
| `IndexerScan` | scanner, databases, startup, shutdown, node | checked, proved in part |
| `IndexerScanProofs` | type correctness | proved |
| `IndexerForkProofs` | following forks; the filters up to the scanned height are then a `FilterChain`, and transactions can be found | proved |
| `FilterChain` | what an indexer promises of the filters up to its scanned height, abstractly | proved, implemented by `IndexerScan` |
| `IndexerStopProofs` | following forks across kills, shutdowns and restarts | proved |
| `IndexerKillProofs` | the reach of a rollback, the transactions and `FilterChain`, across kills | proved |
| `WalletStorage` | wallet info, store thread, files | checked, its safety proved |
| `WalletStorageProofs` | types, the copy on disk, the order of saves | proved |
| `FilterScan` | scan and restore against indexers | checked, its safety proved |
| `FilterScanProofs` | types, the scanned height, no payment is lost | proved |
| `MCDbHandle`, `MCIndexerScan`, `MCWalletStorage`, `MCFilterScan` | values of the constants | - |

`IndexerScan` implements `FilterChain`: the filters an indexer has stored up to its
scanned height are a chain that grows, is cut and has its last block replaced.
`FilterScan` reads slices of a chain of its own, which only grows: the wallet has
nothing that follows a fork, and that a slice of a real indexer may reach above the
scanned height is in neither module. `FilterScan` also treats a change of the wallet
info as one step on the newest info, and the file as saved in one step;
`WalletStorage` takes both apart.

### DbHandle

`handle` and `active` are the two `TVar`s of `Wrapper.hs:35-40`; `pc[t]` says
where a thread is inside `usingLevelDB`, `reopenLevelDB` or `closeLevelDB`, and
`mine[t]` which connection it has taken out of the handle. Each STM transaction
is one action, and so is each call of LevelDB. `conns` is external: the
connections the library holds open. Its lock file makes a second `open` of a
directory fail (`ReopenFail`). `retry` on a locked handle and the error on a
closed one change nothing, so they are no action. The read and write wrappers
(`Wrapper.hs:98-113`) are uses.

### IndexerScan

The variables are grouped by the store they are in: filters database, UTXO
database, indexer database, memory of the process. `pc` is the scanner thread,
`main` the main thread, `chain` the node's best chain, `left` the faults still to
come.

* Each `writeLDB` is an action: `AddTxs`, `AddFilter` (filter and height are one
  batch), `AddRoll`, `AddSpent`, `AddLast` for `addBlockInfo`; `RollLast`,
  `RollHeight`, `RollTxs`, `RollSaved`, `RollVar`, `RollRestart` for a rollback;
  `HackHeight`, `HackLast`, `HackRoll` for the repair at startup. The order is
  the code's.
* `Resolve` and `ResolveFails` are `blockTxInfos`: a spent transaction is in the
  block, among the cached bytes, or in the node's block of the height stored for
  it. A missing height or a block without the transaction throws.
* An exception while a block is prepared is caught and rolls back
  (`Common.hs:91`). Anywhere else it ends the thread, which Control.Immortal
  starts again at `scanIteration` (`GoThrows`, `WriteThrows`); memory survives
  this, a kill (`Crash`) clears it.
* `Minus` is the subtraction of a `Word64`. `MaxWord` stands for 2^64 - 1, and
  the item of block 0 does hold `0 - 1`.
* Two pieces of startup that write several records, `CheckFresh` and
  `CheckScanned`, are one step each. Their writes only clear records, each by
  itself, and the check is run again from the beginning after a kill. `Dump`
  reads the rollback variable and stores it in one step: what the scanner does
  to its own variables in between commutes with the store, except for the
  clearing of the sequence on disk, which the interleavings around `Dump` show.
* `SkipHack` is the option `--no-btc-hack`. The runs leave it off. The types and the
  fork proofs hold for both values, the proofs with restarts need it off.
* `ScanOverflow`: `succ` of the largest height is never asked for when the server
  shuts down, since Haskell evaluates it in `go` only.

The environment. `NodeGrows` and `NodeReorgs` move `chain` among the constant
`Chains`; a fork is followed when it gets longer than the chain it replaces. A
`reorg` reaches no deeper than the rollback sequence (`Covered`); a `deepReorg`
may. The block in flight counts: while a block is written it will be an item of the
sequence (`Heading`), and may push out the oldest one (`Reach`). `NoForkPending` restricts when the process stops: the code documents
(`App.hs:43-48`) that it misses a fork which happens while it is offline, so a
kill or a shutdown comes only while what is stored is on the node's chain. A
`rollCrash` is a kill inside a rollback.

### FilterChain

Its chain is the filters stored up to the scanned height (`ShownCount`, `Shown` in
`IndexerScan`). After a rollback the height is one too high, so the filter on top is
one of the old branch until the rescan writes over it; hence `Replace`. The run
`indexer_safety` checks `ServesChain`, the refinement, with kills and errors. It is not
a promise to a client: `getBlockMetaSlice` (`MessageHandler.hs:33-42`) answers with
whatever is stored in the range it is asked for, and above the scanned height these
can be filters of a branch that was taken back.

### WalletStorage

A wallet info is the set of changes that made it (`pub`), and the key changes whose
private keys it has (`prv`). `info` is the Dynamic that handlers sample, `fired` what
`writeExternalRef` has written and the event network has not delivered yet. `Modify`,
`Decline`, `ModifyThrows` and `Post` are the forked handler of `modifyPubStorage`; its
writes to the reference and to the channel are two steps. `Ask` to `AskDone` are
`withWallet` with `decryptAndValidatePrvStorage`, which run on the event network's
thread, so nothing is delivered meanwhile; `SetInfo` is what the password and
currencies pages do with the answer. `ReadChan`, `Tick`, `TakeMsg`, `SaveMsg` are the
three threads of `walletStoreThread`; `Move`, `Write`, `Fill` are the save both sides
share: rename to the backup, then `storeBS`. The desktop writes a file under
`getTemporaryDirectory` and gives it to `Turtle.mv` (external). On one file system that
is a rename, one step; between two it can only copy, so the file is there before it is
whole, as with Android's write in place. `platform` says which (`desktop`, `twoDisks`,
`android`), and `InPlace` is true of the last two. `Login` needs a whole file, because the code never reads the
backup (`Util.hs:308`, `Util.hs:315`), and a store thread of the last session with
nothing left to write. Encryption and decoding failures change nothing.

`stale` records that some handler worked on an info older than the newest one. It is
the code's known weak point (finding 6), and the other properties say what holds as
long as it has not struck.

### FilterScan

A block is its height, a payment a key of one purpose, a filter matches what its
block pays. `stage` is the workflow: `CheckHeight`, requests (`Ask`, `Answer`,
`AnswerDropped`, `OtherMessage`, `Reconnect`), then `ScanBlocks`, `Refresh`,
`StoreRefreshed` and back to the scan or on to `Advance`. The restore (`restoring`)
is the same loop with its own batch size, stop condition and count of the next
height. `Generate` and `StoreGenerated` are the other thread that derives keys. Both
threads store a whole key storage computed from an earlier sample, as the code does.

Assumptions. The chain does not fork. `modifyPubStorage` works on the newest wallet info,
in one step: finding 6 shows that the code does not guarantee this, so what `AllFound`
says holds of an info that no handler overwrites. `refreshBtcKeys` stores its keys before
the next pass is through: the scanner delays the next pass by 0.1 s (`Scan.hs:136`); the
restore has no delay (`Restore.hs:155`), but the pass carries the new keys with it and
reads the storage again only at its own `refreshBtcKeys`, after the filters are matched
and the blocks fetched. The generator has one plan under way. Messages of other kinds, undecodable filters, lost
blocks and broken connections are finite in number (`left`). Of the saves before a
kill only the last matters. The stage that removes replaced transactions is left out:
it changes no key.

## 3. Runs

| Run | Checks | Bounds |
|---|---|---|
| `db_handle` | `NoUseAfterClose`, `OpenHandleIsLive`, `IInv`, `LockReleased` | 3 threads, 2 of them close, 3 reopens |
| `indexer_recovery` | `CatchesUp`, `RollMatches`, `FiltersLinked`, `RollbackReaches` | mixes `Recoverable`, rollback size 3 |
| `indexer_safety` | `TypeOK`, `FiltersLinked`, `TxsLocated`, `LastIsBelow`, `ServesChain` | mixes `Survivable`, rollback size 2 |
| `indexer_fork_error`, `indexer_rollback_crash`, `indexer_stale_roll`, `indexer_first_block` | findings | one mix each |
| `wallet_storage` | `TypeOK`, `CopyKept`, `MessagesOrdered`, `Durable` | 4 mixes; 2 handlers, 1 page change |
| `wallet_copy_lost` | finding | Android, 2 writes that throw |
| `wallet_lost_update` | finding | 2 handlers, no fault |
| `filter_scan` | `TypeOK`, `AllFound`, `ScannedExists`, `CaughtUp` | 4 mixes; 3 blocks, gap limit 3 |
| `filter_scan_keys` | finding | the same, no fault |

*Bounds.* Three threads let two reopens and a close, or a use and two reopens,
interleave; the proof covers the rest. The chains of `MCIndexerScan` are three
branches of up to six blocks that part at different heights, so that two forks
can follow each other, a fork can return the scanner below and above its last
rollback, and the rollback sequence (3 or 2 items for the code's 64) fills up,
drops items and runs out. Each block has a coinbase; the coinbase of the
first has two outputs that are spent one at a time, one transaction is in
different blocks of different branches, one is missing on a branch, one is spent
in its own block. `Budgets` bounds the faults: each initial state picks a mix.
The mixes name the combinations a run is about; which combinations break which
property is what the findings show. Two shutdowns in one mix let the server stop
again after a repair. `MaxWord` 9 is above every height in use,
so that a wrapped height is no height of the chain.

`MCWalletStorage` has a handler that adds keys and one that does not, and a page that
changes the password: every pair of writers meets. Its mixes are kills with two
logins and two writes that throw, on a desktop; a write that throws and a kill on a
desktop with two disks, where the write is in two steps as on Android; and a kill on
Android. Two writes that throw in place are the finding. In `MCFilterScan` the first block with payments
uses a key, the next uses one that exists only if keys were derived for the first, so
a batch has to be scanned twice; with the batch size 1 of the restore (the code's
300) a slice of two filters still holds both. One indexer is enough: answers of other
connections are dropped, and the harmful late answer comes on the same connection.
The mixes are a kill after a save; a broken connection and a message of another kind;
repeated requests; an undecodable filter and a block not found.

*Deadlock* is checked in `indexer_recovery`. It is off where the system may stop: a
wallet nobody uses, a scan with nothing new to scan; the handle when everybody is idle
and reopens are used up, or a closed handle; the scanner after a shutdown that left the
height `0 - 1`.

*Fairness.* `DbHandle`: operations, `unsafeClose` and `open` return, nothing is
obliged to start. `IndexerScan`: `WF(Scanner)`, since Control.Immortal restarts the
thread for ever, the delay is finite and the node answers; `WF(Main)`, since the
main thread waits for nothing but the scanner and the node. No fault and no move
of the node is fair. The chains are finite, so `CatchesUp` is stated as "from some
time on the filters are those of the node's chain".

`WalletStorage`: what a thread has begun goes on (`Deliver`, `Post`, the page, the store
thread and its timer); users need do nothing. `FilterScan`: nodes tell their height,
indexers scan and answer, requests are repeated (every 5 s and 10 s in the code), the
wallet's threads run. No fault is fair, the chain need not grow.

*What the properties are about.*

* `LastIsBelow`: fork detection compares the header of the next block with one
  record. It is worth something only if this record is the block whose filter is
  stored just below, after every rollback and repair.
* `FiltersLinked`: the filters stored below the scanner are those of one chain.
* `TxsLocated`: a rollback deletes transactions, a fork brings them back at
  another height. When the rescan starts too high one stays lost, and the first
  block that spends it can never be scanned.
* `RollMatches`: the rollback takes back what was really scanned.
* `RollbackReaches`: and enough of it. A sequence that a restart has emptied, or that
  has just dropped an item, still covers the fork that is noticed one block later, so
  that no filter of the old branch stays below the height the scan restarts from.
* `CatchesUp`: all of it together, with the restarts.
* `ServesChain`: the filters up to the scanned height change only in the ways
  `FilterChain` allows, although a rollback, a repair and a rescan are many writes.
* `CopyKept`: two writers, kills and failing writes share one file and one backup, and
  the last copy that can be decoded is lost in one way only, which is finding 5.
* `MessagesOrdered`: a handler writes the reference, then the channel; a reader keeps one
  message, a thread takes it. Along this way no info comes after a newer one. The file
  itself may go back: the thread has taken a message, a page takes the mutex of the file
  first and saves the info of memory, then the thread saves what it has taken.
* `Durable`: what the 20 second rule and the last-message-wins slot hold back is written
  in the end. It excuses a mutex that a failed save has kept, a store thread that died
  and a user who leaves, so the hazards that consist in these are not covered.
* `AllFound`: the purpose of the scan. A payment can need keys derived because of
  another payment in the same batch. The property says what excuses a loss: an answer
  that may belong to an older request, an undecodable filter, a block not found, and
  the generator at work next to a batch or a batch that uses the last key. Without any
  one of these excuses TLC finds a payment that is missed; with them those losses are
  not caught.
* `ScannedExists`: the slice of an indexer is one longer than asked for, and its end may
  be above what the wallet knows.
* `CaughtUp`: no lost event, message or connection leaves the wallet behind, and a
  restore ends.

## 4. Findings

1. `indexer_fork_error` (`Common.hs:102`): a rollback stores the height of the
   next block to be scanned as the scanned one. If the thread dies before that
   block is scanned, it is skipped, and the scanner compares its successor with
   the wrong block for ever, with nothing left to take back.
2. `indexer_rollback_crash` (`Queries.hs:227`): a kill between moving the last
   block back and moving the height back; startup steps back one block and
   deletes the last block, so nothing notices that those below are stale.
3. `indexer_stale_roll` (`App.hs:104`): the sequence dumped at shutdown may be one
   that a rollback is about to drop, and the repair clears it on disk only.
4. `indexer_first_block` (`App.hs:78`): the repair at height 0 stores 2^64 - 1.
5. `wallet_copy_lost` (`Store/Util.hs:285`): where a file is written in place (Android, or
   a temporary directory on another disk), a write of the store thread that throws leaves
   a part of it; the page's next save renames that over the good backup, and when its
   own write throws too no copy can be decoded. The log line for such a file says that it
   is read from the backup.
6. `wallet_lost_update` (`Store/Env.hs:84`): the mutex for write access is put back
   before the written info is delivered to those who read; the next handler starts
   from the old info and overwrites the change.
7. `filter_scan_keys` (`Scan.hs:144`): storing what a batch paid wakes the generator,
   which derives the missing keys before `refreshBtcKeys` looks; the batch is finished
   without them. In the scanner the delay of one second makes this the usual order. It
   costs a payment only when one batch pays keys that far apart.

One more disagreement has no run of its own: `reopenLevelDB` writes `DbOpen` (and first
`DbCloseLocked`) without looking at the handle (`Wrapper.hs:64`), so a reopen in another
thread brings back a handle of which line 66 says that after the close it is no longer
usable. `DbHandle` does the same, and its properties hold nevertheless.

## 5. Proofs

`DbHandleProofs`. `NoUseAfterClose` is not inductive: a connection can be closed
under an operation if the count is wrong, if two threads own the same connection,
or if the handle hands out one that a thread is closing. `IInv` adds exactly this:
the count is the number of threads inside (`CountIsExact`), an owner holds an open
connection and is alone (`OwnerHoldsLive`, `OneOwner`, `OneConnection`), the handle
hands out nothing meanwhile (`OwnerExcludesOpen`), and past the wait nobody is
inside (`ClosingIsQuiet`). `Inductive`, `HandleSafe` and `HandleLive` follow for any
finite set of threads and any number of reopens.

`IndexerScanProofs`. `TypeCorrect`: the heights stay in range although they are
computed with a wrapping subtraction and compared with a chain that moves. It needs
that a block in flight is not above the chain (`FlightBelowTip`), which only gets
longer, and that the sequence is no longer than its limit (`RollsBounded`). The
assumptions are those of `IndexerScan`: each chain links to genesis and is shorter
than `MaxWord`, the sequence fits in a word.

`IndexerForkProofs`. With `OnlyForks` (no kill, shutdown or error: the budgets of
these are 0) the scanner keeps `FiltersLinked`, `LastIsBelow` and `RollMatches` for any
chains, any number and depth of forks and any `RollbackSize`. The argument is one
predicate, `Settled(n)`: the filters below n are linked, the last block is the one
below n, the sequence describes the blocks below n. `FInv` says at which n it holds
at each step, and which of the three parts a half-finished write or rollback has
already moved. With errors of the node or of a database, or a kill inside a rollback,
the theorems are false, as the findings show.

In the same module, `ImplementsFilterChain`: with `OnlyForks`, every step of the scanner
is a step of `FilterChain` or leaves the filters up to the scanned height alone.
`Settled(n)` gives the link of a new filter to the one below, and the same invariant says
that a rollback leaves either the old block on top or none. `TxsStayLocated`: below the
scanner every transaction is stored with the height of its block. This needs besides that
no chain holds a transaction twice (`NoRepeats`; Bitcoin's rule since BIP 30): a rollback
deletes the transactions of a block by their hash and would delete the older copy.
`FilterChain` itself proves `ServedLinked`, so that the filters up to the scanned height
of whatever implements it are one chain.

`IndexerStopProofs`. With `OnlyStops` (covered forks; kills and shutdowns while the stored
filters are the node's, `NoForkPending`; no errors, no fork deeper than the sequence, no
kill in a rollback that has still a fork to take back) and the check at
startup switched on, `LinkedAcrossStops` proves `FiltersLinked` across any number of
restarts. The invariant `KInv` describes the databases as values, so that the same
predicates serve memory and disk: `Linked`, `Synced` (they are the node's), `Recorded`
(the transactions the check looks up are there) and `Describes` (a sequence is of the
last blocks). `Closed` is what a process may leave on disk, and the proof has two halves:
every phase of the scanner is `Closed` when a stop loses what is in memory (`StopLost`,
one lemma per phase), and startup makes of anything `Closed` what the scanner needs
(`CheckScannedKeepsKInv`, `HackHeightKeepsKInv`, `HackRollKeepsKInv`).

A shutdown makes the sequence weaker, and the invariant says how: a dump can be of a
sequence that a rollback has just used up, and a repair leaves an item of a block that is
then scanned again, so that its oldest item is one block too high (`Twice`) and its items
are of blocks that only could be the stored ones (`Fits`). A rollback of such a sequence
still ends at a height with linked filters, and `lastScanned` is then a block that no
block of that height has below it (`OneHeight`: a block has one height in every linked
chain). Hence `FiltersLinked` holds and `RollMatches` does not (finding 3). Without
shutdowns the weak forms are excluded, and `LastBelowAcrossKills` and
`RollTrueAcrossKills` follow from the same invariant. With shutdowns `NoRepeats` is
needed, because the check looks for the transactions of the last block and a rollback
deletes by hash.

`IndexerKillProofs`. Without shutdowns more is true, and `KillInvariant` proves it in the
invariant `LInv`, which stands on `KInv`: at each step it says up to which height the
stored transactions are located (`Located`; those of one more block may be missing,
`Placed`), and where a rollback would end (`Covers`, `CoversNext`: `Synced` below the
blocks of the sequence, with or without the item that the block in flight may push out).
`Offline` is what a kill leaves and startup goes on from; that every phase of the scanner
leaves it is the lemma `StoredAlways`. Three of the properties of the runs follow:
`ReachesAcrossKills`, `LocatedAcrossKills` and `ServesAcrossKills`. The argument that is
not bookkeeping is about a block which cannot be resolved. It rolls back, and with an
empty sequence nothing would be taken back; but then all the filters are the node's
(`Covers`), and those of the chain the block is from (`LinkedAgree`: a chain with a block
that follows linked filters has all their blocks), so every transaction the block spends is
located on the node's chain, and resolving it does not fail (`SpentFound`). Hence the two assumptions about chains: none spends a transaction
it does not have (`ValidSpends`) and none holds one twice (`NoRepeats`). Blocks of Bitcoin
satisfy both, and so do those of `MCIndexerScan`, where TLC found `KInv` and `LInv`
invariant before they were proved.

With shutdowns the three are open: a dumped sequence may be one block too high, and a
rollback of it restarts where `Synced` is not known.

`WalletStorageProofs`. `WalletTyped` is inductive with one more fact: a page that has
chosen what to write has a change to make. `CopyIsKept` holds on every platform, whatever
throws or is killed: a save renames before it writes, only one save is under way, and so
the last copy that can be decoded is lost only by a page that saves in place after the
store thread has died (finding 5). `Kept` says why: whoever saves holds the mutex of the
file, the file is gone when the writing begins, and a file that cannot be decoded was
written in place, so that its writing goes on, or has ended in a mutex that nobody gets
any more, in a dead store thread, or in a kill after which nobody logs in. `CopyStep`
is the step. `MessagesAreOrdered`: `Ordered` says that at most one handler is between
writing the info and posting it, that this one holds the mutex, and that unless a handler
was `stale` what it is going to post contains what waits to be saved and is contained in
the newest info (`Growing`, for every pair of messages); `Taken` adds that what the store
thread has taken is contained in all of these.

`FilterScanProofs`. `ScanTyped`: marks are marks of keys of the storage, although both
threads overwrite the storage; `Typed` adds the same of their plans.
`ScannedHeightExists`: as long as no request was sent with another one pending, `Within`
says that there is only one request, that it was made at the scanned height, and that no
height in use is more than one above the chain.

`ScanFindsAll` is `AllFound`, for any chain and any payments. `Finding`
strengthens it: what is found is also marked, and the same holds of the copy on disk
(`DiskComplete`), so that a kill goes back to a complete state; a batch is the blocks from
the scanned height on, and whatever it pays to a key it was tried with is found
(`BatchComplete`); when it is done, it was tried with all keys, and a whole gap of keys
follows every marked one (`Spared`, lemma `GapIsSpare`); a plan of the generator is not
older than the keys it replaces (`GeneratorApart`). The step that matters is `Advance`
(lemma `BatchFindsAll`). If the batch missed a payment there would be a lowest block with
one; all payments below it are marked, so an honest payer's key lies within the gap behind
a marked key, is a key of the wallet, was tried, and was found.

Only model-checked: `CatchesUp`, `LockReleased`, `Durable`, `CaughtUp` (liveness is beyond
the prover); of `IndexerScan`, `RollbackReaches`, `ServesChain` and `TxsLocated` with shutdowns,
`FiltersLinked` with kills and shutdowns together with forks deeper than the sequence, and
everything but the types with errors of the node, of a database or of the disk.

## 6. Not modelled

The content of filters, blocks and transactions; metrics, logs, configuration. The
retry loop of `getBtcBlockWithRepeat` is one step that waits for the node. A fork
that happens while the indexer is offline, and a node whose chain is shorter than
the scanned height at startup. `dirtyBtcHack` is dead code. `open` failing for other
reasons than the lock file, asynchronous exceptions inside `closeHandle`. Filters of a
stale branch above the scanned height, which a slice may read. Deleting a wallet, and
a session that starts while the store thread of the last one still writes. The
wallet's transactions and outputs: confirmation, replacement, outputs spent by pending
transactions. Their order matters too: a late unconfirmed copy replaces a confirmed
transaction (`Store/Monad.hs:169`), a removal is computed from a sample
(`Node/Manage.hs:169`), and two confirmed transactions may conflict with a third
(`Scan.hs:217`). A rollback of the indexer does not restore its counters of unspent
outputs (`Queries.hs:230`); only its cache of transaction bytes suffers. The website's
scripts are third-party code. The components with status `not_modelled` in
`PROJECT.json`.

## 7. Plan

1. `WalletTxs`: transactions, confirmations, replacement and the UTXO set, fed by the
   scan and by the mempool. Property: the set agrees with the transactions.
2. `TcpServer`: connections, handshake, send queue, broadcast and supervision,
   composed with `FilterChain`; slices that reach above the scanned height.
3. `BlockRequest`: request, timeout, repeat, late answers and reconnect.
4. `Clients`: address lists, reconnect and back-off; `PeerList`: read, change, write.
5. Proofs: `ServesChain` and `TxsLocated` with shutdowns; the ownership of `DbHandle` with
   failing `open`.
