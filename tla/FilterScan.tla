----------------------------- MODULE FilterScan -----------------------------
(***************************************************************************)
(* How a wallet finds its payments: Scan.hs, Restore.hs, Filters.hs, the   *)
(* requests of Wallet/Monad.hs, Worker/Keys.hs and Worker/Height.hs of     *)
(* ergvein-core, against indexers that answer with a slice of their        *)
(* filters.                                                                *)
(*                                                                         *)
(* The wallet asks an indexer for the filters from its scanned height on,  *)
(* fetches the blocks that match its keys, stores what they pay and makes  *)
(* sure that enough unused keys follow the last used one; if it has to     *)
(* derive keys, it scans the batch again with those.  A second thread      *)
(* derives keys too, whenever the storage changes.                         *)
(*                                                                         *)
(* The chain only grows.  A block is its height; what it pays to the       *)
(* wallet is a set of keys; a filter matches the keys its block pays.      *)
(*                                                                         *)
(* modifyPubStorage is taken here for one step on the newest wallet info.  *)
(* The code gives less: WalletStorage has its steps, and shows that it may *)
(* work on an older info (Store/Env.hs:84, NoLostUpdate).  A key, a mark   *)
(* or a payment that is overwritten so is not seen in this module.         *)
(***************************************************************************)
EXTENDS Integers, Sequences, FiniteSets

CONSTANTS Indexer,
          Top,         \* bound: the highest block
          Batch,       \* filtersBatchSize
          GapLimit,    \* gapLimit
          Spare,       \* spareKeysCount, and the keys of a new wallet
          Histories,   \* what the blocks may pay to the wallet
          NoPlan, Nobody,
          Mixes        \* bound: how often each Event can happen

Purpose == {"External", "Internal"}
Height == 0..Top
Key == Purpose \X Nat

(* A request that is sent while another one is not answered; a message of  *)
(* another kind; a connection that breaks; filters that cannot be decoded; *)
(* a block that the node does not find; a save of the storage; a kill of   *)
(* the wallet.                                                             *)
Event == {"again", "other", "lose", "garble", "notfound", "save", "crash"}

ASSUME BoundsAssumption ==
    /\ Top \in Nat \ {0} /\ Batch \in Nat \ {0} /\ GapLimit \in Nat \ {0}
    /\ Spare \in [Purpose -> Nat \ {0}]
ASSUME HistoriesAssumption == Histories \subseteq [Height -> SUBSET Key]
ASSUME MixesAssumption == Mixes \subseteq [Event -> Nat]
ASSUME NobodyAssumption == Nobody \notin Indexer

VARIABLES
    top, pays,        \* the chain
    served,           \* served[i]: the last block indexer i has a filter of
    inbox,            \* inbox[i]: the requests sent to it
    told,             \* told[i]: the height the wallet knows of it
    node,             \* the height the Bitcoin nodes have told, 0 if none
    listening,        \* the indexer whose next message is the answer
    chainHeight, scannedHeight, restoring, keys, found, \* the public storage
    disk,             \* the storage as it was saved
    stage,            \* where the workflow is
    batch, next,      \* the blocks being scanned, the height after them
    scanning,         \* the keys of this pass
    plan,             \* the keys refreshBtcKeys stores
    noticed, genPlan, \* the generator: the storage has changed; the keys it
                      \* is going to store
    left,             \* how often each Event can still happen
    happened,         \* history: which of them have happened
    start,            \* history: the height the wallet was made at
    tried,            \* history: the keys scanned against the batch
    outrun            \* history: the generator has worked next to a batch, or
                      \* refreshBtcKeys has met a last key that is used

chain == <<top, pays>>
indexers == <<served, told>>
storage == <<chainHeight, scannedHeight, restoring, keys, found>>
workflow == <<stage, batch, next, scanning, plan>>
generator == <<noticed, genPlan>>
bounds == <<left, happened>>
history == <<start, tried, outrun>>
vars == <<chain, indexers, inbox, node, listening, storage, disk, workflow,
          generator, bounds, history>>

KeyStore == [count : Nat, used : SUBSET Nat]
KeyStores == [Purpose -> KeyStore]
Request == [from : Nat, amount : Nat]

Happens(event) ==
    /\ left[event] > 0
    /\ left' = [left EXCEPT ![event] = @ - 1]
    /\ happened' = happened \cup {event}
MayHappen(event, really) ==
    IF really THEN Happens(event) ELSE UNCHANGED bounds

NoKeys == [p \in Purpose |-> {}]
Saved == [chainHeight |-> chainHeight, scannedHeight |-> scannedHeight,
          restoring |-> restoring, keys |-> keys, found |-> found]

(* A wallet that has been created, or one that is to be restored.          *)
Init ==
    /\ top = 1 /\ pays \in Histories
    /\ served = [i \in Indexer |-> 0] /\ told = [i \in Indexer |-> 0]
    /\ inbox = [i \in Indexer |-> <<>>]
    /\ node = 0 /\ listening = Nobody
    /\ chainHeight = 0 /\ scannedHeight = 0 /\ restoring \in BOOLEAN
    /\ keys = [p \in Purpose |-> [count |-> Spare[p], used |-> {}]]
    /\ found = {}
    /\ disk = Saved
    /\ stage = "check" /\ batch = {} /\ next = 0 /\ scanning = NoKeys
    /\ plan = NoPlan
    /\ noticed = FALSE /\ genPlan = NoPlan
    /\ left \in Mixes /\ happened = {}
    /\ start = 0 /\ tried = NoKeys /\ outrun = FALSE

-----------------------------------------------------------------------------
(* Keys                                                                    *)

KeysOf(ks) == 0..(ks.count - 1)

(* getLastUnusedKey walks back over the unused keys at the end.            *)
UnusedAtEnd(ks) == {k \in KeysOf(ks) : \A j \in ks.used : j < k}
LastKeyUsed(ks) == UnusedAtEnd(ks) = {}

(* refreshBtcKeys: how many keys are missing.  If the last key is used,    *)
(* all keys are taken for unused.                                          *)
GapMissing(ks) ==
    GapLimit - (IF LastKeyUsed(ks) THEN ks.count ELSE Cardinality(UnusedAtEnd(ks)))

(* calcMissingKeys: without an unused key at the end, all Spare keys are.   *)
SpareMissing(p, ks) == Spare[p] - Cardinality(UnusedAtEnd(ks))

(* addXPubKeyToKeystore, so many times                                     *)
Extended(ks, n) == IF n > 0 THEN [ks EXCEPT !.count = @ + n] ELSE ks

(* A mutant: a key that is not in the storage is marked too.               *)
MarkedAny(ks, ids) == [ks EXCEPT !.used = @ \cup ids]

(* updateKeyBoxWith: only a key of the storage is marked.                  *)
Marked(ks, ids) == [ks EXCEPT !.used = @ \cup (ids \cap KeysOf(ks))]

-----------------------------------------------------------------------------
(* The chain, the nodes and the indexers                                   *)

ChainGrows ==
    /\ top < Top
    /\ top' = top + 1
    /\ UNCHANGED <<pays, indexers, inbox, node, listening, storage, disk, workflow,
                   generator, bounds, history>>

(* addBlockInfo, then broadcastFilter if the block was the last one of the *)
(* chain when its scan began.  The event too is a message of the indexer.  *)
IndexerGrows(i) ==
    /\ served[i] < top
    /\ served' = [served EXCEPT ![i] = @ + 1]
    /\ \E heard \in BOOLEAN :
         /\ served'[i] = top => heard
         /\ told' = IF heard THEN [told EXCEPT ![i] = served'[i]] ELSE told
         /\ listening' = IF heard /\ listening = i THEN Nobody ELSE listening
    /\ UNCHANGED <<chain, inbox, node, storage, disk, workflow, generator, bounds,
                   history>>

(* getNodeHeightBtc changes.  The height worker stores it; a new wallet    *)
(* starts at it; listenHeight makes a new request.                         *)
NodeHeight ==
    /\ \E h \in (node + 1)..top :
         /\ node' = h
         /\ chainHeight' = h
         /\ IF stage = "check" /\ ~restoring /\ scannedHeight = 0
            THEN scannedHeight' = h /\ start' = h /\ stage' = "ask"
            ELSE UNCHANGED <<scannedHeight, start, stage>>
    /\ listening' = IF stage = "ask" /\ ~restoring THEN Nobody ELSE listening
    /\ noticed' = TRUE
    /\ UNCHANGED <<chain, indexers, inbox, restoring, keys, found, disk, batch, next,
                   scanning, plan, genPlan, bounds, tried, outrun>>

-----------------------------------------------------------------------------
(* Requests                                                                *)

(* getCurrentHeight                                                        *)
CurrentHeight == IF node > chainHeight THEN node ELSE chainHeight

(* checkScannedHeight and checkRestored, or the start of a restore         *)
CheckHeight ==
    /\ stage = "check"
    /\ restoring \/ scannedHeight # 0
    /\ stage' = "ask"
    /\ UNCHANGED <<chain, indexers, inbox, node, listening, storage, disk, batch, next,
                   scanning, plan, generator, bounds, history>>

(* A mutant: the last block is not asked for.                              *)
BehindOnly == IF restoring THEN scannedHeight < CurrentHeight - 1
                           ELSE scannedHeight < CurrentHeight

(* getFiltersBatch, listenHeight: filters are missing.                     *)
Behind == IF restoring THEN scannedHeight < CurrentHeight - 1
                       ELSE scannedHeight <= CurrentHeight

Amount == IF restoring THEN Batch
          ELSE IF scannedHeight = CurrentHeight THEN 1
          ELSE CurrentHeight - scannedHeight

(* getOpenSyncedConns                                                      *)
Synced(i) == CurrentHeight <= told[i] + 1

(* requester, at once, 5 seconds after a request that got no message, or   *)
(* at the next tick.  The request before may still be on its way.          *)
Ask(i) ==
    /\ stage = "ask"
    /\ CurrentHeight # 0 /\ Behind
    /\ Synced(i)
    /\ MayHappen("again", \E j \in Indexer : inbox[j] # <<>>)
    /\ inbox' = [inbox EXCEPT
                   ![i] = Append(@, [from |-> scannedHeight, amount |-> Amount])]
    /\ listening' = i
    /\ UNCHANGED <<chain, indexers, node, storage, disk, workflow, generator, history>>

(* getBlockMetaSlice: the end of the range is in it.                       *)
Slice(i, request) ==
    {b \in request.from..(request.from + request.amount) : b <= served[i]}

(* A mutant: the filters asked for are counted.                            *)
CountAsked(request, blocks, bad) == scannedHeight + request.amount + 1

(* prepareBatch counts the filters it got, getFiltersBatch those it could  *)
(* decode.                                                                 *)
NextHeight(request, blocks, bad) ==
    scannedHeight + Cardinality(IF restoring THEN blocks \ bad ELSE blocks)

(* The indexer answers while the requester listens to it: whatever it      *)
(* answers is taken for the batch at the scanned height.                   *)
Answer(i) ==
    /\ inbox[i] # <<>>
    /\ stage = "ask" /\ listening = i
    /\ LET request == Head(inbox[i])
           blocks == Slice(i, request)
       IN \E bad \in SUBSET blocks :
            /\ MayHappen("garble", bad # {})
            /\ batch' = blocks \ bad
            /\ next' = NextHeight(request, blocks, bad)
    /\ inbox' = [inbox EXCEPT ![i] = Tail(@)]
    /\ listening' = Nobody
    /\ scanning' = [p \in Purpose |-> KeysOf(keys[p])]
    /\ tried' = NoKeys
    /\ stage' = "scan"
    /\ UNCHANGED <<chain, indexers, node, storage, disk, plan, generator, start, outrun>>

(* Nobody listens any more.                                                *)
AnswerDropped(i) ==
    /\ inbox[i] # <<>>
    /\ ~(stage = "ask" /\ listening = i)
    /\ inbox' = [inbox EXCEPT ![i] = Tail(@)]
    /\ UNCHANGED <<chain, indexers, node, listening, storage, disk, workflow, generator,
                   bounds, history>>

(* A pong, a list of peers, fees: the requester takes it for the answer.   *)
OtherMessage(i) ==
    /\ listening = i
    /\ Happens("other")
    /\ listening' = Nobody
    /\ UNCHANGED <<chain, indexers, inbox, node, storage, disk, workflow, generator,
                   history>>

(* The connection breaks, and the handshake of the next one tells the      *)
(* height.                                                                 *)
Reconnect(i) ==
    /\ inbox[i] # <<>>
    /\ Happens("lose")
    /\ inbox' = [inbox EXCEPT ![i] = <<>>]
    /\ told' = [told EXCEPT ![i] = served[i]]
    /\ UNCHANGED <<chain, served, node, listening, storage, disk, workflow, generator,
                   history>>

-----------------------------------------------------------------------------
(* Scanning a batch                                                        *)

Paid(b, p) == {k \in scanning[p] : <<p, k>> \in pays[b]}
Matching == {b \in batch : \E p \in Purpose : Paid(b, p) # {}}

(* scanBatchKeys, scanBtcBlocks: the blocks that match are fetched, what   *)
(* they pay is stored.  A block that is not found is left out.             *)
ScanBlocks ==
    /\ stage = "scan"
    /\ \E lost \in SUBSET Matching :
         LET got == Matching \ lost
         IN /\ MayHappen("notfound", lost # {})
            /\ found' = found \cup
                 {q \in got \X Purpose \X UNION {scanning[p] : p \in Purpose} :
                     q[3] \in Paid(q[1], q[2])}
            /\ keys' = [p \in Purpose |->
                           Marked(keys[p], UNION {Paid(b, p) : b \in got})]
            /\ noticed' = (noticed \/ got # {})
    /\ tried' = [p \in Purpose |-> tried[p] \cup scanning[p]]
    /\ outrun' = (outrun \/ genPlan # NoPlan)
    /\ stage' = "refresh"
    /\ UNCHANGED <<chain, indexers, inbox, node, listening, chainHeight, scannedHeight,
                   restoring, disk, batch, next, scanning, plan, genPlan, start>>

Refreshed == [p \in Purpose |-> Extended(keys[p], GapMissing(keys[p]))]
Extra == [p \in Purpose |-> KeysOf(Refreshed[p]) \ KeysOf(keys[p])]

(* A mutant: the batch is not scanned with the keys that are derived.      *)
NeverRescan == "advance"

(* New keys are fed to scanBatchKeys again.                                *)
Rescan == "scan"

(* refreshBtcKeys, the sample                                              *)
Refresh ==
    /\ stage = "refresh"
    /\ IF Extra = NoKeys
       THEN stage' = "advance" /\ UNCHANGED <<scanning, plan>>
       ELSE stage' = "store" /\ scanning' = Extra /\ plan' = Refreshed
    /\ outrun' = (outrun \/ \E p \in Purpose : LastKeyUsed(keys[p]))
    /\ UNCHANGED <<chain, indexers, inbox, node, listening, storage, disk, batch, next,
                   generator, bounds, start, tried>>

(* refreshBtcKeys, modifyPubStorage: all keys are those of the sample.     *)
StoreRefreshed ==
    /\ stage = "store"
    /\ keys' = plan
    /\ plan' = NoPlan
    /\ noticed' = TRUE
    /\ stage' = Rescan
    /\ UNCHANGED <<chain, indexers, inbox, node, listening, chainHeight, scannedHeight,
                   restoring, found, disk, batch, next, scanning, genPlan, bounds, history>>

(* setScannedHeightE                                                       *)
Advance ==
    /\ stage = "advance"
    /\ scannedHeight' = next
    /\ stage' = "ask"
    /\ batch' = {} /\ next' = 0 /\ scanning' = NoKeys /\ tried' = NoKeys
    /\ noticed' = TRUE
    /\ UNCHANGED <<chain, indexers, inbox, node, listening, chainHeight, restoring, keys,
                   found, disk, plan, genPlan, bounds, start, outrun>>

(* finishScanning: the scanner goes on from there.                         *)
RestoreDone ==
    /\ stage = "ask" /\ restoring
    /\ CurrentHeight # 0 /\ ~Behind
    /\ restoring' = FALSE
    /\ listening' = Nobody
    /\ noticed' = TRUE
    /\ UNCHANGED <<chain, indexers, inbox, node, chainHeight, scannedHeight, keys, found,
                   disk, workflow, genPlan, bounds, history>>

-----------------------------------------------------------------------------
(* pubKeysGeneratorBtc                                                     *)

Generated ==
    [p \in Purpose |-> Extended(keys[p], SpareMissing(p, keys[p]))]
InBatch == stage \in {"scan", "refresh", "store", "advance"}

(* On a change of the storage the keys are derived from what it is now...  *)
Generate ==
    /\ noticed /\ genPlan = NoPlan
    /\ noticed' = FALSE
    /\ genPlan' = IF Generated = keys THEN NoPlan ELSE Generated
    /\ outrun' = (outrun \/ (InBatch /\ Generated # keys))
    /\ UNCHANGED <<chain, indexers, inbox, node, listening, storage, disk, workflow, bounds,
                   start, tried>>

(* ...and stored by modifyPubStorage, all of them.                         *)
StoreGenerated ==
    /\ genPlan # NoPlan
    /\ keys' = genPlan
    /\ genPlan' = NoPlan
    /\ noticed' = TRUE
    /\ outrun' = (outrun \/ InBatch)
    /\ UNCHANGED <<chain, indexers, inbox, node, listening, chainHeight, scannedHeight,
                   restoring, found, disk, workflow, bounds, start, tried>>

-----------------------------------------------------------------------------
(* The store thread saves the storage; a kill loses what came after.  Of   *)
(* the saves before a kill only the last one matters.                      *)

Save ==
    /\ disk # Saved
    /\ Happens("save")
    /\ disk' = Saved
    /\ UNCHANGED <<chain, indexers, inbox, node, listening, storage, workflow, generator,
                   history>>

Restart ==
    /\ Happens("crash")
    /\ chainHeight' = disk.chainHeight /\ scannedHeight' = disk.scannedHeight
    /\ restoring' = disk.restoring /\ keys' = disk.keys /\ found' = disk.found
    /\ told' = served
    /\ inbox' = [i \in Indexer |-> <<>>]
    /\ node' = 0 /\ listening' = Nobody
    /\ stage' = "check" /\ batch' = {} /\ next' = 0 /\ scanning' = NoKeys
    /\ plan' = NoPlan /\ noticed' = FALSE /\ genPlan' = NoPlan
    /\ tried' = NoKeys
    /\ UNCHANGED <<chain, served, disk, start, outrun>>

-----------------------------------------------------------------------------
Outside == ChainGrows \/ NodeHeight \/ \E i \in Indexer : IndexerGrows(i)
Requests == \E i \in Indexer : Ask(i) \/ Answer(i) \/ AnswerDropped(i)
Scan == CheckHeight \/ ScanBlocks \/ Refresh \/ StoreRefreshed \/ Advance \/ RestoreDone
Generator == Generate \/ StoreGenerated
Faults == Restart \/ \E i \in Indexer : OtherMessage(i) \/ Reconnect(i)

Next == Outside \/ Requests \/ Scan \/ Generator \/ Save \/ Faults

Spec == Init /\ [][Next]_vars

(* The indexers scan and answer, the nodes tell their height, and the      *)
(* wallet's threads run.  The chain need not grow.                         *)
FairSpec ==
    /\ Spec
    /\ WF_vars(NodeHeight) /\ WF_vars(Scan) /\ WF_vars(Generator)
    /\ \A i \in Indexer : /\ WF_vars(IndexerGrows(i)) /\ WF_vars(Ask(i))
                          /\ WF_vars(Answer(i)) /\ WF_vars(AnswerDropped(i))

-----------------------------------------------------------------------------
Payment == Height \X Purpose \X Nat
Storage == [chainHeight : Height, scannedHeight : Nat, restoring : BOOLEAN,
            keys : KeyStores, found : SUBSET Payment]

(* The types; a key that is marked is a key of the storage.                *)
TypeOK ==
    /\ top \in Height /\ pays \in Histories
    /\ served \in [Indexer -> Height] /\ told \in [Indexer -> Height]
    /\ inbox \in [Indexer -> Seq(Request)]
    /\ node \in Height /\ listening \in Indexer \cup {Nobody}
    /\ Saved \in Storage /\ disk \in Storage
    /\ \A p \in Purpose : keys[p].used \subseteq KeysOf(keys[p])
    /\ stage \in {"check", "ask", "scan", "refresh", "store", "advance"}
    /\ batch \in SUBSET Height /\ next \in Nat
    /\ scanning \in [Purpose -> SUBSET Nat]
    /\ plan \in KeyStores \cup {NoPlan}
    /\ noticed \in BOOLEAN /\ genPlan \in KeyStores \cup {NoPlan}
    /\ left \in [Event -> Nat] /\ happened \in SUBSET Event
    /\ start \in Height /\ tried \in [Purpose -> SUBSET Nat] /\ outrun \in BOOLEAN

(* Whoever pays the wallet keeps to its gap: the key is at most GapLimit   *)
(* behind the last one the blocks before have paid.                        *)
UsedBefore(b, p) == UNION {{k[2] : k \in {q \in pays[c] : q[1] = p}} : c \in start..(b - 1)}
Honest(b) == \A k \in pays[b] :
    \E last \in UsedBefore(b, k[1]) \cup {-1} : k[2] <= last + GapLimit

(* The filter scan loses no payment: whatever the order in which keys are  *)
(* derived, batches are cut, filters arrive and the wallet is killed, all  *)
(* that the scanned blocks pay is in the storage.  Except when an answer   *)
(* may be that to an older request, when a filter or a block is missing,   *)
(* when the generator has worked next to a batch, and when a batch uses    *)
(* the last key: a loss of these kinds, which the code has, is not caught. *)
AllFound ==
    ~outrun /\ happened \cap {"again", "garble", "notfound"} = {} =>
        \A b \in start..(scannedHeight - 1) :
            (\A c \in start..b : c <= Top /\ Honest(c)) =>
                \A k \in pays[b] : <<b, k[1], k[2]>> \in found

(* The scanned height stays within the chain, although the slice of an     *)
(* indexer has one filter more than was asked for, and the indexer may be  *)
(* ahead of the wallet.                                                    *)
ScannedExists == "again" \notin happened => scannedHeight <= top + 1

(* The wallet catches up with the chain, whichever messages, connections   *)
(* and filter events are lost on the way.                                  *)
CaughtUp == <>[](~restoring /\ CurrentHeight = top /\ scannedHeight > top)

(* "If there are new keys, feed them to scanBatchKeys again.  If there is  *)
(* none, set nextHeight" (Scan.hs:130): a batch is done when all keys of   *)
(* the wallet have been scanned against it.                                *)
KeysScanned ==
    stage = "advance" => \A p \in Purpose : KeysOf(keys[p]) \subseteq tried[p]
=============================================================================
