---------------------------- MODULE IndexerScan ----------------------------
(***************************************************************************)
(* The block scanner of the indexer and the three databases it writes:     *)
(* BlockchainScanning/Common.hs and Bitcoin.hs, DB/Queries.hs, App.hs.     *)
(*                                                                         *)
(* One thread walks the chain of a Bitcoin node.  It stores a filter per   *)
(* block, follows forks with an in-memory rollback sequence, and is        *)
(* restarted by Control.Immortal whenever it throws.  The main thread      *)
(* checks the databases at startup and dumps the rollback sequence on the  *)
(* way out.  Every database write is a step, so a crash or an exception    *)
(* can come between any two.                                               *)
(***************************************************************************)
EXTENDS Integers, Sequences, FiniteSets

CONSTANTS Block,         \* blocks, each standing for its hash
          ZeroHash,      \* the previous hash in the genesis header
          NoBlock,       \* no hash stored
          Prev,          \* Prev[b]: the previous hash in the header of b
          Chains,        \* the best chains the node can have, genesis first
          Tx,            \* transactions
          Adds,          \* Adds[b]: the transactions of b
          Spends,        \* Spends[b][t]: how many outputs of t b spends
          Outs,          \* Outs[t]: txOutputsCount, the spendable outputs of t
          RollbackSize,  \* btcRollbackSize (64 in the code)
          MaxWord,       \* the largest BlockHeight (2^64 - 1 in the code)
          SkipHack,      \* the option --no-btc-hack
          Budgets        \* bound: how many faults of each kind can happen,
                         \* one entry per mix of faults

(* A reorg within the reach of the rollback sequence, or below it; a kill  *)
(* outside a rollback, or inside; a shutdown; the node, a database or the  *)
(* disk space failing the scanner.                                         *)
FaultKind == {"reorg", "deepReorg", "crash", "rollCrash", "shutdown", "rpc",
              "io", "space"}
Word == 0..MaxWord
NoHeight == -1
NoCount == -1
Hash == Block \cup {ZeroHash}

ASSUME HashesDiffer == ZeroHash \notin Block /\ NoBlock \notin Hash
ASSUME SizesAssumption == /\ RollbackSize \in Nat \ {0}
                          /\ MaxWord \in Nat
                          /\ RollbackSize <= MaxWord
                          /\ SkipHack \in BOOLEAN
                          /\ Budgets \subseteq [FaultKind -> Nat]
ASSUME BlocksAssumption == /\ Prev \in [Block -> Hash]
                           /\ Adds \in [Block -> SUBSET Tx]
                           /\ Spends \in [Block -> [Tx -> Nat]]
                           /\ Outs \in [Tx -> Nat]
ASSUME ChainsAssumption ==
    /\ \E c \in Chains : Len(c) = 1
    /\ \A c \in Chains :
        /\ c \in Seq(Block)
        /\ Len(c) \in 1..MaxWord
        /\ Prev[c[1]] = ZeroHash
        /\ \A i \in 2..Len(c) : Prev[c[i]] = c[i - 1]

VARIABLES
    chain,        \* the node's best chain; the block of height h is chain[h + 1]
    \* filters database
    scanned,      \* ScannedHeightRec
    filter,       \* BlockInfoRec per height: the block its filter is of
    \* utxo database
    txHeight,     \* TxRecHeight
    txBytes,      \* the transactions with a TxRecBytes
    unspent,      \* TxRecUnspent
    \* indexer database
    lastScanned,  \* LastScannedBlockHeaderHashRec
    savedRoll,    \* the RollbackSequence on disk
    \* memory of the process
    roll,         \* envBtcRollback, newest item first
    flag,         \* envShutdownFlag
    main,         \* where the main thread is
    pc,           \* where the scanner thread is
    cur,          \* its argument current
    blk,          \* the block it has fetched
    left          \* faults still to come, per kind

disk == <<scanned, filter, txHeight, txBytes, unspent, lastScanned, savedRoll>>
utxo == <<txHeight, txBytes, unspent>>
local == <<cur, blk>>
vars == <<chain, disk, roll, flag, main, pc, local, left>>

BlockAt(h) == chain[h + 1]
Tip == Len(chain) - 1

(* BlockHeight is a Word64: subtraction wraps.                             *)
Minus(h, n) == IF n <= h THEN h - n ELSE h - n + MaxWord + 1

RollItem == [added : SUBSET Tx, prevHash : Hash, prevHeight : Word]

Fault(kind) ==
    /\ left[kind] > 0
    /\ left' = [left EXCEPT ![kind] = @ - 1]

Goto(label) == pc' = label
Next0(label) == Goto(label) /\ UNCHANGED left   \* a step without a fault

Init ==
    /\ chain \in {c \in Chains : Len(c) = 1}
    /\ scanned = NoHeight
    /\ filter = [h \in Word |-> NoBlock]
    /\ txHeight = [t \in Tx |-> NoHeight]
    /\ txBytes = {}
    /\ unspent = [t \in Tx |-> NoCount]
    /\ lastScanned = NoBlock
    /\ savedRoll = <<>>
    /\ roll = <<>>
    /\ flag = FALSE
    /\ main = "down"
    /\ pc = "off"
    /\ cur = 0
    /\ blk = NoBlock
    /\ left \in Budgets

-----------------------------------------------------------------------------
(* The node (external): its chain grows, or a longer fork replaces it.     *)
NodeGrows ==
    /\ chain' \in {c \in Chains : Len(c) = Len(chain) + 1
                                  /\ SubSeq(c, 1, Len(chain)) = chain}
    /\ UNCHANGED <<disk, roll, flag, main, pc, local, left>>

(* The height of the next block that goes into the rollback sequence       *)
Heading == IF pc \in {"off", "iter", "delay", "stopped"}
           THEN IF scanned = NoHeight THEN 0 ELSE scanned + 1
           ELSE IF pc \in {"addSpent", "addLast"} THEN cur + 1 ELSE cur

(* How many blocks below Heading the scanner can take back, once the block *)
(* of Heading is in the rollback sequence: none without a last block to    *)
(* compare with.                                                           *)
Reach == IF lastScanned = NoBlock /\ pc \notin {"addSpent", "addLast"} THEN 0
         ELSE IF Len(roll) < RollbackSize THEN Len(roll) ELSE RollbackSize - 1

Covered(c) ==
    /\ main = "run" /\ ~flag
    /\ \A h \in 0..(Heading - Reach - 1) : h < Len(c) /\ filter[h] = c[h + 1]

NodeReorgs ==
    /\ chain' \in {c \in Chains : Len(c) > Len(chain)
                                  /\ SubSeq(c, 1, Len(chain)) # chain}
    /\ Fault("deepReorg") \/ (Covered(chain') /\ Fault("reorg"))
    /\ UNCHANGED <<disk, roll, flag, main, pc, local>>

-----------------------------------------------------------------------------
(* scannerThread: the loop                                                 *)

(* scanIteration: toScanFrom = maybe currencyHeightStart succ scanned.     *)
(* succ maxBound throws when go asks for it: the thread is restarted, and  *)
(* nothing has changed.                                                    *)
ScanIteration ==
    /\ pc = "iter"
    /\ scanned # MaxWord
    /\ cur' = IF scanned = NoHeight THEN 0 ELSE scanned + 1
    /\ Next0("go")
    /\ UNCHANGED <<chain, disk, roll, flag, main, blk>>

(* go does not ask when it has to shut down.                               *)
ScanOverflow ==
    /\ pc = "iter"
    /\ scanned = MaxWord
    /\ flag
    /\ Next0("delay")
    /\ UNCHANGED <<chain, disk, roll, flag, main, local>>

(* go: leave on shutdown, or when the chain has no block of this height.   *)
Go ==
    /\ pc = "go"
    /\ Next0(IF ~flag /\ cur <= Tip THEN "fetch" ELSE "delay")
    /\ UNCHANGED <<chain, disk, roll, flag, main, local>>

(* The scanner thread throws: the RPC of actualHeight fails outside the    *)
(* try.  Control.Immortal starts scanIteration anew.                       *)
GoThrows ==
    /\ pc = "go"
    /\ ~flag
    /\ Fault("rpc")
    /\ Goto("iter")
    /\ UNCHANGED <<chain, disk, roll, flag, main, local>>

(* cancelableDelay, then stopThreadIfShutdown                              *)
Delay ==
    /\ pc = "delay"
    /\ Next0(IF flag THEN "stopped" ELSE "iter")
    /\ UNCHANGED <<chain, disk, roll, flag, main, local>>

-----------------------------------------------------------------------------
(* blockInfo: fetch the block, then the transactions its inputs spend      *)

(* getBtcBlockWithRepeat repeats until the node answers; told to shut      *)
(* down, it throws at the next timeout, and the throw counts as an error   *)
(* of the block.                                                           *)
Fetch ==
    /\ pc = "fetch"
    /\ cur <= Tip
    /\ blk' = BlockAt(cur)
    /\ Next0("resolve")
    /\ UNCHANGED <<chain, disk, roll, flag, main, cur>>

FetchThrows ==
    /\ pc \in {"fetch", "resolve"}
    /\ flag
    /\ Fault("rpc")
    /\ Goto("rollLast")
    /\ UNCHANGED <<chain, disk, roll, flag, main, local>>

(* spentTxSource: a spent transaction is in the block, in the cache, or in *)
(* the node's block of the height stored for it.                           *)
FromNode(b) == {t \in Tx \ (Adds[b] \cup txBytes) : Spends[b][t] > 0}
NodeHas(t) ==
    /\ txHeight[t] \in 0..Tip
    /\ t \in Adds[BlockAt(txHeight[t])]

Resolve ==
    /\ pc = "resolve"
    /\ \A t \in FromNode(blk) : NodeHas(t)
    /\ Next0("decide")
    /\ UNCHANGED <<chain, disk, roll, flag, main, local>>

(* getParsedExact or txGettingError throws.                                *)
ResolveFails ==
    /\ pc = "resolve"
    /\ \E t \in FromNode(blk) : txHeight[t] <= Tip /\ ~NodeHas(t)
    /\ Next0("rollLast")
    /\ UNCHANGED <<chain, disk, roll, flag, main, local>>

(* A database read of spentTxSource throws, inside the try.                *)
ResolveThrows ==
    /\ pc = "resolve"
    /\ Fault("io")
    /\ Goto("rollLast")
    /\ UNCHANGED <<chain, disk, roll, flag, main, local>>

(* A mutant: fork detection forgotten                                      *)
AlwaysSame == TRUE

(* isPreviousBlockSame: no last block counts as the same.                  *)
PreviousSame == lastScanned \in {NoBlock, Prev[blk]}

Decide ==
    /\ pc = "decide"
    /\ Next0(IF flag THEN "delay" ELSE IF PreviousSame THEN "addTxs" ELSE "rollLast")
    /\ UNCHANGED <<chain, disk, roll, flag, main, local>>

NotEnoughSpace ==
    /\ pc = "decide"
    /\ ~flag
    /\ Fault("space")
    /\ Goto("delay")
    /\ UNCHANGED <<chain, disk, roll, flag, main, local>>

-----------------------------------------------------------------------------
(* addBlockInfo                                                            *)

(* writeLDB dbu: bytes, height and output count of every transaction       *)
AddTxs ==
    /\ pc = "addTxs"
    /\ txBytes' = txBytes \cup Adds[blk]
    /\ txHeight' = [t \in Tx |-> IF t \in Adds[blk] THEN cur ELSE txHeight[t]]
    /\ unspent' = [t \in Tx |-> IF t \in Adds[blk] THEN Outs[t] ELSE unspent[t]]
    /\ Next0("addFilter")
    /\ UNCHANGED <<chain, scanned, filter, lastScanned, savedRoll, roll, flag,
                   main, local>>

(* writeLDB dbf: the filter and the scanned height in one batch            *)
AddFilter ==
    /\ pc = "addFilter"
    /\ filter' = [filter EXCEPT ![cur] = blk]
    /\ scanned' = cur
    /\ Next0("addRoll")
    /\ UNCHANGED <<chain, utxo, lastScanned, savedRoll, roll, flag, main, local>>

(* A mutant: a subtraction that goes below 0                               *)
ItemUnwrapped ==
    [added |-> Adds[blk], prevHash |-> Prev[blk], prevHeight |-> cur - 1]

(* RollbackRecItem txHashes prevHash (height - 1)                          *)
Item == [added |-> Adds[blk], prevHash |-> Prev[blk], prevHeight |-> Minus(cur, 1)]

(* insertBtcRollback: Seq.take btcRollbackSize $ item <| sequence          *)
AddRoll ==
    /\ pc = "addRoll"
    /\ LET kept == IF Len(roll) < RollbackSize THEN Len(roll) ELSE RollbackSize - 1
       IN  roll' = <<Item>> \o SubSeq(roll, 1, kept)
    /\ Next0("addSpent")
    /\ UNCHANGED <<chain, disk, flag, main, local>>

(* insertSpentTxUpdates: a transaction whose outputs are all spent loses   *)
(* its counter and its bytes.                                              *)
AddSpent ==
    /\ pc = "addSpent"
    /\ LET touched == {t \in Tx : Spends[blk][t] > 0 /\ unspent[t] # NoCount}
           done == {t \in touched : unspent[t] <= Spends[blk][t]}
       IN  /\ txBytes' = txBytes \ done
           /\ unspent' = [t \in Tx |->
                IF t \in done THEN NoCount
                ELSE IF t \in touched THEN unspent[t] - Spends[blk][t]
                ELSE unspent[t]]
    /\ Next0("addLast")
    /\ UNCHANGED <<chain, scanned, filter, txHeight, lastScanned, savedRoll,
                   roll, flag, main, local>>

(* setLastScannedBlock; then go (succ current)                             *)
AddLast ==
    /\ pc = "addLast"
    /\ lastScanned' = blk
    /\ cur' = cur + 1
    /\ Next0("go")
    /\ UNCHANGED <<chain, scanned, filter, utxo, savedRoll, roll, flag, main, blk>>

-----------------------------------------------------------------------------
(* previousBlockChanged: performBtcRollback, then setScannedHeight restart *)

(* A mutant: the wrong end of the sequence                                 *)
Newest == roll[1]

(* Seq.viewr                                                               *)
Oldest == roll[Len(roll)]

RollLast ==
    /\ pc = "rollLast"
    /\ lastScanned' = IF roll = <<>> THEN lastScanned ELSE Oldest.prevHash
    /\ Next0("rollHeight")
    /\ UNCHANGED <<chain, scanned, filter, utxo, savedRoll, roll, flag, main, local>>

RollHeight ==
    /\ pc = "rollHeight"
    /\ scanned' = IF roll = <<>> THEN scanned ELSE Oldest.prevHeight
    /\ Next0("rollTxs")
    /\ UNCHANGED <<chain, filter, utxo, lastScanned, savedRoll, roll, flag, main,
                   local>>

(* The transactions of every rolled back block lose bytes and height; the  *)
(* output counters stay.                                                   *)
RollTxs ==
    /\ pc = "rollTxs"
    /\ LET gone == UNION {roll[i].added : i \in DOMAIN roll}
       IN  /\ txBytes' = txBytes \ gone
           /\ txHeight' = [t \in Tx |-> IF t \in gone THEN NoHeight ELSE txHeight[t]]
    /\ Next0("rollSaved")
    /\ UNCHANGED <<chain, scanned, filter, unspent, lastScanned, savedRoll, roll,
                   flag, main, local>>

RollSaved ==
    /\ pc = "rollSaved"
    /\ savedRoll' = <<>>
    /\ Next0("rollVar")
    /\ UNCHANGED <<chain, scanned, filter, utxo, lastScanned, roll, flag, main, local>>

(* A mutant: one block too few is taken back                               *)
RestartAbove == Minus(cur, Len(roll)) + 1

(* restart = from - revertedBlocksCount                                    *)
Restart == Minus(cur, Len(roll))

(* The variable is emptied, the loop goes on from restart.                 *)
RollVar ==
    /\ pc = "rollVar"
    /\ roll' = <<>>
    /\ cur' = Restart
    /\ Next0("rollRestart")
    /\ UNCHANGED <<chain, disk, flag, main, blk>>

RollRestart ==
    /\ pc = "rollRestart"
    /\ scanned' = cur
    /\ Next0("go")
    /\ UNCHANGED <<chain, filter, utxo, lastScanned, savedRoll, roll, flag, main,
                   local>>

(* A database operation outside the try throws: the thread is restarted    *)
(* (logOnException has reopened the databases, Environment.hs:184-198).    *)
WriteThrows ==
    /\ pc \in {"decide", "addTxs", "addFilter", "addSpent", "addLast",
               "rollLast", "rollHeight", "rollTxs", "rollSaved", "rollRestart"}
    /\ Fault("io")
    /\ Goto("iter")
    /\ UNCHANGED <<chain, disk, roll, flag, main, local>>

Scanner ==
    \/ ScanIteration \/ ScanOverflow \/ Go \/ Delay
    \/ Fetch \/ Resolve \/ ResolveFails \/ Decide
    \/ AddTxs \/ AddFilter \/ AddRoll \/ AddSpent \/ AddLast
    \/ RollLast \/ RollHeight \/ RollTxs \/ RollSaved \/ RollVar \/ RollRestart

ScannerFaults ==
    GoThrows \/ FetchThrows \/ ResolveThrows \/ NotEnoughSpace \/ WriteThrows

-----------------------------------------------------------------------------
(* The main thread                                                         *)

(* withNewServerEnv loads the rollback sequence; onStartup runs the        *)
(* consistency check unless told to skip it.                               *)
Start ==
    /\ main = "down"
    /\ roll' = savedRoll
    /\ flag' = FALSE
    /\ main' = IF SkipHack THEN "run" ELSE "check"
    /\ pc' = IF SkipHack THEN "iter" ELSE "off"
    /\ UNCHANGED <<chain, disk, local, left>>

(* btcDbConsistencyCheck when nothing was scanned                          *)
CheckFresh ==
    /\ main = "check"
    /\ scanned = NoHeight
    /\ savedRoll' = <<>>
    /\ roll' = <<>>
    /\ lastScanned' = NoBlock
    /\ main' = "run"
    /\ Next0("iter")
    /\ UNCHANGED <<chain, scanned, filter, utxo, flag, local>>

(* Mutants: an inconsistency is left as it is.                             *)
KeepLast(b) == lastScanned
NeverStale == FALSE

(* The last block must be the node's: when (Just hash /= mhash) delete.    *)
CheckedLast(b) == IF lastScanned = b THEN b ELSE NoBlock

(* The rollback sequence must end just below the scanned height.           *)
StaleRoll == roll # <<>> /\ roll[1].prevHeight # Minus(scanned, 1)

(* A filter of that block, and a height for each of its transactions       *)
DbConsistent(b) ==
    /\ filter[scanned] = b
    /\ \A t \in Adds[b] : txHeight[t] # NoHeight

(* btcDbConsistencyCheck against the node's block of the scanned height;   *)
(* it repeats until the node has one.                                      *)
CheckScanned ==
    /\ main = "check"
    /\ scanned # NoHeight
    /\ scanned <= Tip
    /\ LET b == BlockAt(scanned)
       IN  /\ lastScanned' = CheckedLast(b)
           /\ main' = IF DbConsistent(b) THEN "run" ELSE "hackHeight"
           /\ Next0(IF DbConsistent(b) THEN "iter" ELSE "off")
    /\ roll' = IF StaleRoll THEN <<>> ELSE roll
    /\ savedRoll' = IF StaleRoll THEN <<>> ELSE savedRoll
    /\ UNCHANGED <<chain, scanned, filter, utxo, flag, local>>

(* A mutant: start from the scanned height itself                          *)
SameHeight == scanned

(* setScannedHeight BTC (h - 1)                                            *)
HackedHeight == Minus(scanned, 1)

(* cleanerBtcHack on an inconsistent database                              *)
HackHeight ==
    /\ main = "hackHeight"
    /\ scanned' = HackedHeight
    /\ main' = "hackLast"
    /\ UNCHANGED <<chain, filter, utxo, lastScanned, savedRoll, roll, flag, pc,
                   local, left>>

HackLast ==
    /\ main = "hackLast"
    /\ lastScanned' = NoBlock
    /\ main' = "hackRoll"
    /\ UNCHANGED <<chain, scanned, filter, utxo, savedRoll, roll, flag, pc, local,
                   left>>

HackRoll ==
    /\ main = "hackRoll"
    /\ savedRoll' = <<>>
    /\ main' = "run"
    /\ Next0("iter")
    /\ UNCHANGED <<chain, scanned, filter, utxo, lastScanned, roll, flag, local>>

(* A process that stops on a branch the node has left misses the fork      *)
(* (App.hs:43-48 knows): the process stops only when its databases, and    *)
(* the block in flight, are of the node's chain, or in a rollback.         *)
OnChain(h) == h <= Tip /\ filter[h] = BlockAt(h)
SyncedTo(h) == \A k \in 0..h : OnChain(k)
NoForkPending ==
    /\ scanned = MaxWord \/ SyncedTo(scanned)
    /\ pc \in {"resolve", "decide", "addTxs", "addFilter"} => blk = BlockAt(cur)

MidRollback == pc \in {"rollHeight", "rollTxs", "rollSaved", "rollVar",
                       "rollRestart"}

(* onShutdown: the handlers are installed once the threads run.            *)
Shutdown ==
    /\ main = "run"
    /\ ~flag
    /\ NoForkPending
    /\ Fault("shutdown")
    /\ flag' = TRUE
    /\ UNCHANGED <<chain, disk, roll, main, pc, local>>

(* finalize dumps the rollback sequence, and only then waits for the       *)
(* scanner.                                                                *)
Dump ==
    /\ main = "run"
    /\ flag
    /\ savedRoll' = roll
    /\ main' = "wait"
    /\ UNCHANGED <<chain, scanned, filter, utxo, lastScanned, roll, flag, pc, local,
                   left>>

ProcessEnds ==
    /\ main' = "down"
    /\ pc' = "off"
    /\ roll' = <<>>
    /\ flag' = FALSE
    /\ cur' = 0
    /\ blk' = NoBlock
    /\ UNCHANGED <<chain, disk>>

Exit ==
    /\ main = "wait"
    /\ pc = "stopped"
    /\ ProcessEnds
    /\ UNCHANGED left

Crash ==
    /\ main # "down"
    /\ (NoForkPending /\ Fault("crash")) \/ (MidRollback /\ Fault("rollCrash"))
    /\ ProcessEnds

Main == \/ Start \/ CheckFresh \/ CheckScanned
        \/ HackHeight \/ HackLast \/ HackRoll \/ Dump \/ Exit

Next == \/ NodeGrows \/ NodeReorgs
        \/ Scanner \/ ScannerFaults
        \/ Main \/ Shutdown \/ Crash

Spec == Init /\ [][Next]_vars

(* The threads run and the node answers; the chain need not change and no  *)
(* fault has to happen.                                                    *)
FairSpec == Spec /\ WF_vars(Scanner) /\ WF_vars(Main)

-----------------------------------------------------------------------------
ScannerPC == {"off", "iter", "go", "delay", "stopped", "fetch", "resolve",
              "decide", "addTxs", "addFilter", "addRoll", "addSpent", "addLast",
              "rollLast", "rollHeight", "rollTxs", "rollSaved", "rollVar",
              "rollRestart"}
MainPC == {"down", "check", "hackHeight", "hackLast", "hackRoll", "run", "wait"}

(* The types of the databases and of the scanner; heights are Words even   *)
(* after the subtractions of addBlockInfo and cleanerBtcHack.              *)
TypeOK ==
    /\ chain \in Chains
    /\ scanned \in Word \cup {NoHeight}
    /\ filter \in [Word -> Block \cup {NoBlock}]
    /\ txHeight \in [Tx -> Word \cup {NoHeight}]
    /\ txBytes \in SUBSET Tx
    /\ unspent \in [Tx -> Nat \cup {NoCount}]
    /\ lastScanned \in Hash \cup {NoBlock}
    /\ savedRoll \in Seq(RollItem)
    /\ roll \in Seq(RollItem)
    /\ flag \in BOOLEAN
    /\ main \in MainPC
    /\ pc \in ScannerPC
    /\ cur \in Word
    /\ blk \in Block \cup {NoBlock}
    /\ left \in [FaultKind -> Nat]

(* The scanner is between two blocks: all below cur is written, nothing of *)
(* cur is.                                                                 *)
Between == pc \in {"go", "fetch", "resolve", "decide", "addTxs"}

(* Fork detection compares the header of the next block with lastScanned:  *)
(* it must be the block whose filter is stored just below.  A rollback     *)
(* moves both back to the same place.                                      *)
LastIsBelow ==
    Between /\ lastScanned # NoBlock =>
        lastScanned = IF cur = 0 THEN ZeroHash ELSE filter[cur - 1]

(* The filters below cur are of blocks of one chain, from genesis on.      *)
FiltersLinked ==
    Between => \A h \in 0..(cur - 1) :
        /\ filter[h] \in Block
        /\ Prev[filter[h]] = IF h = 0 THEN ZeroHash ELSE filter[h - 1]

(* Every transaction of the blocks below cur is stored with the height of  *)
(* its block, so that getTxFromNode finds it.                              *)
TxsLocated ==
    Between => \A h \in 0..(cur - 1) :
        filter[h] \in Block => \A t \in Adds[filter[h]] : txHeight[t] = h

(* The rollback sequence describes the last blocks scanned, newest first.  *)
RollMatches ==
    Between => \A i \in 1..Len(roll) :
        /\ i <= cur
        /\ filter[cur - i] \in Block
        /\ roll[i] = [added |-> Adds[filter[cur - i]],
                      prevHash |-> Prev[filter[cur - i]],
                      prevHeight |-> Minus(cur, i + 1)]

(* A rollback of a fork that the sequence covers reaches below the fork:   *)
(* all the filters that stay are the node's.                               *)
RollbackReaches == pc = "rollRestart" => SyncedTo(cur - 1)

(* The filters stored up to the scanned height, which a rollback leaves    *)
(* one too high.  The steps of the scanner, its rollbacks and the repairs  *)
(* at startup implement a chain that only grows by one block, is cut, or   *)
(* has its last block replaced.  (A slice for a client does not stop at    *)
(* the scanned height, MessageHandler.hs:33-42: above it filters of a      *)
(* branch that was taken back are stored, which this says nothing about.)  *)
ShownCount == IF scanned \in {NoHeight, MaxWord} THEN 0
              ELSE IF filter[scanned] = NoBlock THEN scanned ELSE scanned + 1
Shown == [i \in 1..ShownCount |-> filter[i - 1]]
Promised == INSTANCE FilterChain WITH served <- Shown
ServesChain == Promised!Spec

(* The scanner always has a height to go on from: succ scanned is defined. *)
(* cleanerBtcHack sets out "to avoid checking for 0" (App.hs:76).          *)
HasNextHeight == pc = "iter" => scanned # MaxWord

(* The filters end up being those of the node's chain, and stay so.        *)
CatchesUp == <>[](scanned = Tip /\ SyncedTo(Tip))
=============================================================================
