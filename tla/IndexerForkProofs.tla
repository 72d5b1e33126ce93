------------------------- MODULE IndexerForkProofs -------------------------
(***************************************************************************)
(* Following forks, proved: as long as nothing else fails, the scanner     *)
(* keeps the filters of one chain and a rollback sequence that describes   *)
(* them, whatever the chains of the node, however deep and often they      *)
(* fork, whatever the size of the sequence.  The filters up to the scanned *)
(* height implement FilterChain, and the stored transactions have their    *)
(* heights.                                                                *)
(***************************************************************************)
EXTENDS IndexerScanProofs

USE SizesAssumption, HashesDiffer, BlocksAssumption

(* No fault but reorgs ever happens.                                       *)
Forks == {"reorg", "deepReorg"}
OnlyForks == \A b \in Budgets : \A k \in FaultKind \ Forks : b[k] = 0

Calm == flag = FALSE /\ \A k \in FaultKind \ Forks : left[k] = 0

(* The three facts the fork detection lives on, at n blocks: the filters   *)
(* below n are linked, lastScanned is the block below n, and the rollback  *)
(* sequence describes the blocks below n.                                  *)
HashBelow(n) == IF n = 0 THEN ZeroHash ELSE filter[n - 1]
LinkedTo(n) == \A h \in 0..(n - 1) :
    filter[h] \in Block /\ Prev[filter[h]] = HashBelow(h)
LastAt(n) == lastScanned = HashBelow(n) \/ (n = 0 /\ lastScanned = NoBlock)
ItemAt(h) == [added |-> Adds[filter[h]], prevHash |-> Prev[filter[h]],
              prevHeight |-> Minus(h, 1)]
RollAt(n) == \A i \in 1..Len(roll) : i <= n /\ roll[i] = ItemAt(n - i)
Settled(n) == LinkedTo(n) /\ LastAt(n) /\ RollAt(n)

Rolling == pc \in {"rollLast", "rollHeight", "rollTxs", "rollSaved", "rollVar",
                   "rollRestart"}

Starting ==
    main \in {"down", "check"} =>
        pc = "off" /\ scanned = NoHeight /\ roll = <<>> /\ savedRoll = <<>>
        /\ lastScanned = NoBlock
Waiting == pc \in {"iter", "delay"} => Settled(scanned + 1)
Going == pc = "go" => Settled(cur) /\ (scanned = cur - 1 \/ cur <= Tip)
Reading ==
    /\ pc \in {"fetch", "resolve", "decide", "addTxs", "addFilter"} => Settled(cur)
    /\ pc \in InFlight => (cur = 0 => Prev[blk] = ZeroHash)
    /\ pc \in {"addTxs", "addFilter"} => Prev[blk] = HashBelow(cur)
Storing ==
    /\ pc \in {"addRoll", "addSpent", "addLast"} =>
           LinkedTo(cur + 1) /\ filter[cur] = blk /\ scanned = cur
    /\ pc = "addRoll" => RollAt(cur)
    /\ pc \in {"addSpent", "addLast"} => RollAt(cur + 1)
Reverting ==
    /\ Rolling => cur <= Tip /\ LinkedTo(cur) /\ RollAt(cur)
    /\ pc \in {"rollLast", "rollRestart"} => LastAt(cur)
    /\ pc \in {"rollHeight", "rollTxs", "rollSaved", "rollVar"} =>
           LastAt(cur - Len(roll))
    /\ pc = "rollRestart" => roll = <<>>

FInv ==
    /\ main \in {"down", "check", "run"} /\ pc # "stopped"
    /\ Calm /\ Starting /\ Waiting /\ Going /\ Reading /\ Storing /\ Reverting

-----------------------------------------------------------------------------
(* A server that was never started.                                        *)
LEMMA InitFInv == OnlyForks /\ Init => FInv
  BY DEF OnlyForks, Init, FInv, Calm, Starting, Waiting, Going, Reading,
         Storing, Reverting, Rolling, InFlight

(* A step without a fault and a reorg keep the other budgets at zero; the  *)
(* other faults cannot happen.                                             *)
LEMMA CalmSteps ==
    ASSUME TInv, Calm
    PROVE  /\ ~ScannerFaults /\ ~Shutdown /\ ~Crash
           /\ ~ScanOverflow
           /\ UNCHANGED <<left, flag>> => Calm'
           /\ NodeReorgs => Calm'
  <1>1. \A k \in FaultKind \ Forks : ~Fault(k)
    BY DEF Fault, Calm
  <1>2. ~ScannerFaults /\ ~Shutdown /\ ~Crash
    BY <1>1 DEF ScannerFaults, GoThrows, FetchThrows, ResolveThrows,
                NotEnoughSpace, WriteThrows, Shutdown, Crash, FaultKind,
                Forks
  <1>3. NodeReorgs => Calm'
    BY DEF NodeReorgs, Fault, Calm, TInv, TypeOK, Forks
  <1> QED
    BY <1>2, <1>3 DEF Calm, ScanOverflow

-----------------------------------------------------------------------------
(* The node's moves do not touch the process, and the chain gets longer.   *)
LEMMA NodeKeepsFInv == TInv /\ FInv /\ (NodeGrows \/ NodeReorgs) => FInv'
  <1> SUFFICES ASSUME TInv, FInv, NodeGrows \/ NodeReorgs PROVE FInv'
    OBVIOUS
  <1>1. Len(chain') >= Len(chain) /\ Len(chain) \in Nat /\ Len(chain') \in Nat
    BY ChainFits DEF NodeGrows, NodeReorgs, TInv, TypeOK
  <1>2. UNCHANGED <<disk, roll, flag, main, pc, local>>
    BY DEF NodeGrows, NodeReorgs
  <1>3. Calm'
    BY CalmSteps DEF NodeGrows, NodeReorgs, FInv
  <1>4. cur <= Tip => (cur <= Tip)'
    BY <1>1, <1>2 DEF Tip, local, TInv, TypeOK, Word
  <1>5. Starting' /\ Waiting' /\ Going'
    BY <1>2, <1>4 DEF FInv, Starting, Waiting, Going, Settled, LinkedTo, LastAt,
       RollAt, ItemAt, HashBelow, disk, local
  <1>6. Reading' /\ Storing'
    BY <1>2 DEF FInv, Reading, Storing, Settled, LinkedTo, LastAt, RollAt,
       ItemAt, HashBelow, disk, local
  <1>7. Reverting'
    BY <1>2, <1>4 DEF FInv, Reverting, Rolling, LinkedTo, LastAt, RollAt,
       ItemAt, HashBelow, disk, local
  <1> QED
    BY <1>2, <1>3, <1>5, <1>6, <1>7 DEF FInv

(* scanIteration and go move to the height above the last block.           *)
LEMMA LoopKeepsFInv ==
    ASSUME TInv, FInv, ScanIteration \/ Go \/ Delay
    PROVE  FInv'
  <1>0. UNCHANGED <<left, flag, main, filter, lastScanned, roll, savedRoll, scanned,
                    chain>>
    BY DEF ScanIteration, Go, Delay, Next0, disk
  <1>1. Calm'
    BY <1>0, CalmSteps DEF FInv
  <1>2. pc # "off" /\ Starting'
    BY <1>0 DEF ScanIteration, Go, Delay, FInv, Starting
  <1>3. CASE ScanIteration
    <2>1. pc' = "go" /\ cur' = scanned + 1 /\ pc = "iter"
      BY <1>3 DEF ScanIteration, Next0, Goto, NoHeight
    <2>2. Settled(scanned + 1)
      BY <2>1 DEF FInv, Waiting
    <2>3. Settled(cur)'
      BY <1>0, <2>1, <2>2 DEF Settled, LinkedTo, LastAt, RollAt, ItemAt, HashBelow
    <2>4. scanned' = cur' - 1
      BY <2>1, <1>0 DEF TInv, TypeOK, Word, NoHeight
    <2> QED
      BY <1>0, <1>1, <1>2, <2>1, <2>3, <2>4 DEF FInv, Waiting, Going, Reading,
         Storing, Reverting, Rolling, InFlight
  <1>4. CASE Go
    <2>1. pc = "go" /\ cur' = cur /\ blk' = blk /\ Settled(cur)
      BY <1>4 DEF Go, local, FInv, Going
    <2>2. Settled(cur)'
      BY <1>0, <2>1 DEF Settled, LinkedTo, LastAt, RollAt, ItemAt, HashBelow
    <2>3. CASE cur <= Tip
      <3>1. pc' = "fetch"
        BY <1>4, <2>3 DEF Go, Next0, Goto, FInv, Calm
      <3> QED
        BY <1>0, <1>1, <1>2, <2>2, <3>1 DEF FInv, Waiting, Going, Reading,
           Storing, Reverting, Rolling, InFlight
    <2>4. CASE ~(cur <= Tip)
      <3>1. pc' = "delay" /\ scanned + 1 = cur
        BY <1>4, <2>4 DEF Go, Next0, Goto, FInv, Going, TInv, TypeOK, Word
      <3>2. Settled(scanned + 1)'
        BY <1>0, <2>1, <3>1
        DEF Settled, LinkedTo, LastAt, RollAt, ItemAt, HashBelow
      <3> QED
        BY <1>0, <1>1, <1>2, <3>1, <3>2 DEF FInv, Waiting, Going, Reading,
           Storing, Reverting, Rolling, InFlight
    <2> QED
      BY <2>3, <2>4
  <1>5. CASE Delay
    <2>1. pc = "delay" /\ pc' = "iter" /\ Settled(scanned + 1)
      BY <1>5 DEF Delay, Next0, Goto, FInv, Calm, Waiting
    <2>2. Settled(scanned + 1)'
      BY <1>0, <2>1 DEF Settled, LinkedTo, LastAt, RollAt, ItemAt, HashBelow
    <2> QED
      BY <1>0, <1>1, <1>2, <2>1, <2>2 DEF FInv, Waiting, Going, Reading,
         Storing, Reverting, Rolling, InFlight
  <1> QED
    BY <1>3, <1>4, <1>5

(* What the fetched block says of its parent at height 0 comes from the    *)
(* node; what it says above is compared with lastScanned.                  *)
LEMMA FetchKeepsFInv ==
    ASSUME TInv, FInv, Fetch \/ Resolve \/ ResolveFails \/ Decide
    PROVE  FInv'
  <1>0. UNCHANGED <<left, flag, main, filter, lastScanned, roll, savedRoll, scanned,
                    chain, cur>>
    BY DEF Fetch, Resolve, ResolveFails, Decide, Next0, disk, local
  <1>1. Calm'
    BY <1>0, CalmSteps DEF FInv
  <1>2. pc # "off" /\ Starting' /\ Settled(cur)
    BY <1>0 DEF Fetch, Resolve, ResolveFails, Decide, FInv, Starting, Reading
  <1>3. Settled(cur)'
    BY <1>0, <1>2 DEF Settled, LinkedTo, LastAt, RollAt, ItemAt, HashBelow
  <1>4. CASE Fetch
    <2>1. pc' = "resolve" /\ blk' = BlockAt(cur)
      BY <1>4 DEF Fetch, Next0, Goto
    <2>2. cur = 0 => Prev[BlockAt(cur)] = ZeroHash
      BY ChainsAssumption DEF BlockAt, TInv, TypeOK
    <2> QED
      BY <1>0, <1>1, <1>2, <1>3, <2>1, <2>2 DEF FInv, Waiting, Going, Reading,
         Storing, Reverting, Rolling, InFlight
  <1>5. CASE Resolve
    BY <1>0, <1>1, <1>2, <1>3, <1>5 DEF Resolve, Next0, Goto, local, FInv, Waiting,
       Going, Reading, Storing, Reverting, Rolling, InFlight
  <1>6. CASE pc' = "rollLast" /\ pc \in InFlight
    <2>1. cur <= Tip /\ (cur <= Tip)'
      BY <1>0, <1>6 DEF TInv, FlightBelowTip, Tip
    <2>2. LinkedTo(cur)' /\ LastAt(cur)' /\ RollAt(cur)'
      BY <1>3 DEF Settled
    <2> QED
      BY <1>0, <1>1, <1>2, <1>6, <2>1, <2>2 DEF FInv, Waiting, Going, Reading,
         Storing, Reverting, Rolling, InFlight
  <1>7. CASE Decide /\ PreviousSame
    <2>1. pc' = "addTxs" /\ pc = "decide" /\ blk' = blk
      BY <1>7 DEF Decide, Next0, Goto, local, FInv, Calm
    <2>2. Prev[blk] = HashBelow(cur)
      <3>1. LastAt(cur) /\ LinkedTo(cur) /\ (cur = 0 => Prev[blk] = ZeroHash)
        BY <1>2, <2>1 DEF Settled, FInv, Reading, InFlight
      <3>2. CASE cur = 0
        BY <3>1, <3>2 DEF HashBelow
      <3>3. CASE cur # 0
        <4>1. lastScanned = filter[cur - 1] /\ filter[cur - 1] \in Block
          BY <3>1, <3>3 DEF LastAt, LinkedTo, HashBelow, TInv, TypeOK, Word
        <4> QED
          BY <1>7, <3>3, <4>1, HashesDiffer DEF PreviousSame, HashBelow, Hash
      <3> QED
        BY <3>2, <3>3
    <2> QED
      BY <1>0, <1>1, <1>2, <1>3, <2>1, <2>2 DEF FInv, Waiting, Going, Reading,
         Storing, Reverting, Rolling, InFlight, HashBelow
  <1> QED
    BY <1>4, <1>5, <1>6, <1>7 DEF ResolveFails, Decide, Next0, Goto, FInv, Calm,
       InFlight

-----------------------------------------------------------------------------
(* addBlockInfo: the block is stored on top of its parent, and the rollback *)
(* sequence gets the item that describes it.                               *)
LEMMA AddKeepsFInv ==
    ASSUME TInv, FInv, AddTxs \/ AddFilter \/ AddRoll \/ AddSpent \/ AddLast
    PROVE  FInv'
  <1>0. UNCHANGED <<left, flag, main, savedRoll, chain, blk>>
    BY DEF AddTxs, AddFilter, AddRoll, AddSpent, AddLast, Next0, disk, local
  <1>1. Calm'
    BY <1>0, CalmSteps DEF FInv
  <1>2. pc # "off" /\ Starting' /\ pc \in InFlight /\ blk \in Block
        /\ cur \in Word /\ cur < MaxWord
    <2>1. pc # "off" /\ pc \in InFlight
      BY DEF AddTxs, AddFilter, AddRoll, AddSpent, AddLast, InFlight
    <2>2. chain \in Chains /\ cur \in Word /\ cur <= Tip /\ blk \in Block
      BY <2>1 DEF TInv, TypeOK, FlightBelowTip
    <2>3. cur < MaxWord
      <3>1. Len(chain) \in 1..MaxWord
        BY <2>2, ChainFits
      <3> QED
        BY <2>2, <3>1 DEF Tip, Word
    <2> QED
      BY <1>0, <2>1, <2>2, <2>3 DEF FInv, Starting
  <1> USE <1>0, <1>1, <1>2
  <1>3. CASE AddTxs
    <2>1. /\ pc = "addTxs" /\ pc' = "addFilter"
          /\ UNCHANGED <<filter, lastScanned, roll, scanned, cur>>
      BY <1>3 DEF AddTxs, Next0, Goto, local
    <2>2. Settled(cur)' /\ (Prev[blk] = HashBelow(cur))'
      BY <2>1 DEF FInv, Reading, Settled, LinkedTo, LastAt, RollAt, ItemAt, HashBelow
    <2> QED
      BY <2>1, <2>2 DEF FInv, Waiting, Going, Reading, Storing, Reverting,
         Rolling, InFlight
  <1>4. CASE AddFilter
    <2>1. /\ pc = "addFilter" /\ pc' = "addRoll" /\ scanned' = cur
          /\ filter' = [filter EXCEPT ![cur] = blk]
          /\ UNCHANGED <<lastScanned, roll, cur>>
      BY <1>4 DEF AddFilter, Next0, Goto, local
    <2>2. Settled(cur) /\ Prev[blk] = HashBelow(cur)
      BY <2>1 DEF FInv, Reading
    <2>3. filter'[cur] = blk /\ \A h \in Word : h # cur => filter'[h] = filter[h]
      BY <2>1 DEF TInv, TypeOK
    <2>4. \A h \in 0..(cur - 1) : filter'[h] = filter[h]
      BY <2>3 DEF Word
    <2>5. LinkedTo(cur + 1)'
      BY <2>1, <2>2, <2>3, <2>4 DEF Settled, LinkedTo, HashBelow, Word
    <2>6. RollAt(cur)'
      <3>1. SUFFICES ASSUME NEW i \in 1..Len(roll)
                     PROVE  i <= cur /\ roll[i] = ItemAt(cur - i)'
        BY <2>1 DEF RollAt
      <3>2. i <= cur /\ roll[i] = ItemAt(cur - i)
        BY <2>2 DEF Settled, RollAt
      <3>3. filter'[cur - i] = filter[cur - i]
        <4>1. i \in Nat /\ i >= 1 /\ cur \in Nat
          BY DEF TInv, TypeOK, Word
        <4>2. cur - i \in 0..(cur - 1)
          BY <3>2, <4>1
        <4> QED
          BY <2>4, <4>2
      <3> QED
        BY <2>1, <3>2, <3>3 DEF ItemAt
    <2> QED
      BY <2>1, <2>3, <2>5, <2>6 DEF FInv, Waiting, Going, Reading, Storing,
         Reverting, Rolling, InFlight
  <1>5. CASE AddRoll
    <2> DEFINE kept == IF Len(roll) < RollbackSize THEN Len(roll) ELSE RollbackSize - 1
               taken == SubSeq(roll, 1, kept)
    <2>1. /\ pc = "addRoll" /\ pc' = "addSpent"
          /\ roll' = <<Item>> \o taken
          /\ UNCHANGED <<filter, lastScanned, scanned, cur>>
      BY <1>5 DEF AddRoll, Next0, Goto, disk, local
    <2>2. LinkedTo(cur + 1) /\ filter[cur] = blk /\ scanned = cur /\ RollAt(cur)
      BY <2>1 DEF FInv, Storing
    <2>3. LinkedTo(cur + 1)'
      BY <2>1, <2>2 DEF LinkedTo, HashBelow
    <2>4. Item = ItemAt(cur)
      BY <2>2 DEF ItemAt, Item
    <2>5. /\ roll \in Seq(RollItem) /\ kept \in Nat /\ kept <= Len(roll)
      BY DEF TInv, TypeOK, RollsBounded
    <2>6. /\ Len(taken) = kept /\ \A i \in 1..kept : taken[i] = roll[i]
          /\ taken \in Seq(RollItem)
      BY <2>5
    <2> HIDE DEF kept, taken
    <2>7. /\ Len(roll') = kept + 1 /\ roll'[1] = Item
          /\ \A i \in 2..(kept + 1) : roll'[i] = taken[i - 1]
      BY <2>1, <2>5, <2>6
    <2>8. \A i \in 1..Len(roll') : i <= cur + 1 /\ roll'[i] = ItemAt(cur + 1 - i)
      <3> TAKE i \in 1..Len(roll')
      <3>1. CASE i = 1
        BY <2>4, <2>7, <3>1 DEF Word
      <3>2. CASE i # 1
        <4>1. i - 1 \in 1..kept /\ i - 1 \in 1..Len(roll)
          BY <2>5, <2>7, <3>2
        <4>2. i - 1 <= cur /\ roll[i - 1] = ItemAt(cur - (i - 1))
          BY <2>2, <4>1 DEF RollAt
        <4>3. cur - (i - 1) = cur + 1 - i
          BY <4>1 DEF Word
        <4> QED
          BY <2>5, <2>6, <2>7, <3>2, <4>1, <4>2, <4>3 DEF Word
      <3> QED
        BY <3>1, <3>2
    <2>9. RollAt(cur + 1)'
      <3>1. filter' = filter /\ cur' = cur /\ cur \in Nat
        BY <2>1 DEF Word
      <3> QED
        BY ONLY <2>8, <3>1 DEF RollAt, ItemAt
    <2> QED
      BY <2>1, <2>2, <2>3, <2>9 DEF FInv, Waiting, Going, Reading, Storing,
         Reverting, Rolling, InFlight
  <1>6. CASE AddSpent
    <2>1. /\ pc = "addSpent" /\ pc' = "addLast"
          /\ UNCHANGED <<filter, lastScanned, roll, scanned, cur>>
      BY <1>6 DEF AddSpent, Next0, Goto, local
    <2>2. LinkedTo(cur + 1)' /\ RollAt(cur + 1)'
      BY <2>1 DEF FInv, Storing, LinkedTo, RollAt, ItemAt, HashBelow
    <2> QED
      BY <2>1, <2>2 DEF FInv, Waiting, Going, Reading, Storing, Reverting,
         Rolling, InFlight
  <1>7. CASE AddLast
    <2>1. /\ pc = "addLast" /\ pc' = "go" /\ lastScanned' = blk /\ cur' = cur + 1
          /\ UNCHANGED <<filter, roll, scanned>>
      BY <1>7 DEF AddLast, Next0, Goto
    <2>2. LinkedTo(cur + 1) /\ filter[cur] = blk /\ scanned = cur /\ RollAt(cur + 1)
      BY <2>1 DEF FInv, Storing
    <2>3. LinkedTo(cur)' /\ RollAt(cur)'
      BY <2>1, <2>2 DEF LinkedTo, RollAt, ItemAt, HashBelow
    <2>4. LastAt(cur)' /\ scanned' = cur' - 1
      BY <2>1, <2>2 DEF LastAt, HashBelow, Word
    <2> QED
      BY <2>1, <2>3, <2>4 DEF FInv, Waiting, Going, Reading, Storing, Reverting,
         Rolling, InFlight, Settled
  <1> QED
    BY <1>3, <1>4, <1>5, <1>6, <1>7

-----------------------------------------------------------------------------
(* performBtcRollback: the oldest item says what lies below the blocks it  *)
(* takes back, so lastScanned and the restart height agree again.          *)
LEMMA RollKeepsFInv ==
    ASSUME TInv, FInv,
           RollLast \/ RollHeight \/ RollTxs \/ RollSaved \/ RollVar \/ RollRestart
    PROVE  FInv'
  <1>0. UNCHANGED <<left, flag, main, chain, filter, blk>>
    BY DEF RollLast, RollHeight, RollTxs, RollSaved, RollVar, RollRestart, Next0,
           disk, local
  <1>1. Calm'
    BY <1>0, CalmSteps DEF FInv
  <1>2. /\ pc # "off" /\ Starting' /\ Rolling
        /\ cur \in Nat /\ cur \in Word /\ cur <= Tip
        /\ LinkedTo(cur) /\ RollAt(cur)
        /\ roll \in Seq(RollItem) /\ Len(roll) <= cur
    <2>1. pc # "off" /\ Rolling
      BY DEF RollLast, RollHeight, RollTxs, RollSaved, RollVar, RollRestart, Rolling
    <2>2. cur <= Tip /\ LinkedTo(cur) /\ RollAt(cur) /\ roll \in Seq(RollItem)
          /\ cur \in Nat /\ cur \in Word
      BY <2>1 DEF FInv, Reverting, TInv, TypeOK, Word
    <2>3. Len(roll) <= cur
      <3>1. Len(roll) = 0 \/ Len(roll) \in 1..Len(roll)
        BY <2>2
      <3> QED
        BY <2>2, <3>1 DEF RollAt
    <2> QED
      BY <1>0, <2>1, <2>2, <2>3 DEF FInv, Starting
  <1> USE <1>0, <1>1, <1>2
  <1>3. CASE RollLast
    <2>1. /\ pc = "rollLast" /\ pc' = "rollHeight"
          /\ lastScanned' = IF roll = <<>> THEN lastScanned ELSE Oldest.prevHash
          /\ UNCHANGED <<scanned, roll, cur>>
      BY <1>3 DEF RollLast, Next0, Goto, local
    <2>2. LastAt(cur - Len(roll))'
      <3>1. CASE roll = <<>>
        <4>1. LastAt(cur) /\ Len(roll) = 0
          BY <2>1, <3>1 DEF FInv, Reverting
        <4> QED
          BY <2>1, <3>1, <4>1 DEF LastAt, HashBelow
      <3>2. CASE roll # <<>>
        <4>1. Len(roll) \in 1..Len(roll) /\ cur - Len(roll) \in 0..(cur - 1)
          BY <3>2
        <4>2. Oldest = ItemAt(cur - Len(roll))
          BY <4>1 DEF Oldest, RollAt
        <4>3. lastScanned' = Prev[filter[cur - Len(roll)]]
          BY <2>1, <3>2, <4>2 DEF ItemAt
        <4>4. Prev[filter[cur - Len(roll)]] = HashBelow(cur - Len(roll))
          BY <4>1 DEF LinkedTo
        <4> QED
          BY <2>1, <4>3, <4>4 DEF LastAt, HashBelow
      <3> QED
        BY <3>1, <3>2
    <2>3. LinkedTo(cur)' /\ RollAt(cur)'
      BY <2>1 DEF LinkedTo, RollAt, ItemAt, HashBelow
    <2> QED
      BY <2>1, <2>2, <2>3 DEF FInv, Waiting, Going, Reading, Storing, Reverting,
         Rolling, InFlight, Tip
  <1>4. CASE RollHeight \/ RollTxs \/ RollSaved
    <2>1. /\ pc \in {"rollHeight", "rollTxs", "rollSaved"}
          /\ pc' \in {"rollTxs", "rollSaved", "rollVar"}
          /\ UNCHANGED <<lastScanned, roll, cur>>
      BY <1>4 DEF RollHeight, RollTxs, RollSaved, Next0, Goto, disk, local
    <2>2. LinkedTo(cur)' /\ RollAt(cur)' /\ LastAt(cur - Len(roll))'
      BY <2>1 DEF LinkedTo, RollAt, ItemAt, HashBelow, LastAt, FInv, Reverting
    <2> QED
      BY <2>1, <2>2 DEF FInv, Waiting, Going, Reading, Storing, Reverting,
         Rolling, InFlight, Tip
  <1>5. CASE RollVar
    <2>1. /\ pc = "rollVar" /\ pc' = "rollRestart" /\ roll' = <<>>
          /\ cur' = cur - Len(roll)
          /\ UNCHANGED <<scanned, lastScanned>>
      BY <1>5 DEF RollVar, Next0, Goto, disk, Restart, Minus
    <2>2. LastAt(cur)'
      BY <2>1 DEF FInv, Reverting, LastAt, HashBelow
    <2>3. LinkedTo(cur)' /\ RollAt(cur)' /\ (cur <= Tip)'
      BY <2>1 DEF LinkedTo, HashBelow, RollAt, Tip
    <2> QED
      BY <2>1, <2>2, <2>3 DEF FInv, Waiting, Going, Reading, Storing, Reverting,
         Rolling, InFlight
  <1>6. CASE RollRestart
    <2>1. /\ pc = "rollRestart" /\ pc' = "go" /\ UNCHANGED <<lastScanned, roll, cur>>
      BY <1>6 DEF RollRestart, Next0, Goto, local
    <2>2. Settled(cur)' /\ (cur <= Tip)'
      BY <2>1 DEF FInv, Reverting, Settled, LinkedTo, LastAt, RollAt, ItemAt,
         HashBelow, Tip
    <2> QED
      BY <2>1, <2>2 DEF FInv, Waiting, Going, Reading, Storing, Reverting,
         Rolling, InFlight
  <1> QED
    BY <1>3, <1>4, <1>5, <1>6

(* The process starts once, on an empty database, and is never stopped.    *)
LEMMA MainKeepsFInv == TInv /\ FInv /\ Main => FInv'
  <1> SUFFICES ASSUME TInv, FInv, Main PROVE FInv'
    OBVIOUS
  <1>1. CASE Start
    <2>1. UNCHANGED <<scanned, savedRoll, lastScanned, left>> /\ roll' = savedRoll
          /\ main = "down" /\ flag' = FALSE /\ main' \in {"run", "check"}
          /\ pc' \in {"iter", "off"} /\ (main' = "check" => pc' = "off")
      BY <1>1 DEF Start, disk
    <2>2. scanned = NoHeight /\ savedRoll = <<>> /\ lastScanned = NoBlock
      BY <2>1 DEF FInv, Starting
    <2>3. Calm'
      BY <2>1, CalmSteps DEF FInv, Calm
    <2>4. Settled(scanned + 1)'
      BY <2>1, <2>2 DEF Settled, LinkedTo, LastAt, RollAt, NoHeight
    <2> QED
      BY <2>1, <2>2, <2>3, <2>4 DEF FInv, Starting, Waiting, Going, Reading,
         Storing, Reverting, Rolling, InFlight
  <1>2. CASE CheckFresh
    <2>1. UNCHANGED <<scanned, left, flag>> /\ roll' = <<>> /\ lastScanned' = NoBlock
          /\ main' = "run" /\ pc' = "iter" /\ scanned = NoHeight
      BY <1>2 DEF CheckFresh, Next0, Goto
    <2>2. Calm'
      BY <2>1, CalmSteps DEF FInv
    <2>3. Settled(scanned + 1)'
      BY <2>1 DEF Settled, LinkedTo, LastAt, RollAt, NoHeight
    <2> QED
      BY <2>1, <2>2, <2>3 DEF FInv, Starting, Waiting, Going, Reading, Storing,
         Reverting, Rolling, InFlight
  <1>3. ~(CheckScanned \/ HackHeight \/ HackLast \/ HackRoll \/ Dump \/ Exit)
    BY DEF CheckScanned, HackHeight, HackLast, HackRoll, Dump, Exit, FInv, Starting,
           Calm
  <1> QED
    BY <1>1, <1>2, <1>3 DEF Main

(* The scanner of BlockchainScanning/Common.hs keeps the filters below it  *)
(* linked, lastScanned at the last of them and the rollback sequence a     *)
(* description of the newest ones, at every step of adding a block and of  *)
(* a rollback.                                                             *)
THEOREM ForkInvariant == ASSUME OnlyForks PROVE Spec => []FInv
  <1>1. TInv /\ FInv /\ [Next]_vars => FInv'
    <2> SUFFICES ASSUME TInv, FInv, [Next]_vars PROVE FInv'
      OBVIOUS
    <2>1. CASE Scanner
      BY <2>1, LoopKeepsFInv, FetchKeepsFInv, AddKeepsFInv, RollKeepsFInv, CalmSteps DEF Scanner, FInv
    <2>2. CASE UNCHANGED vars
      <3>1. UNCHANGED <<chain, scanned, filter, lastScanned, savedRoll, roll, flag,
                        main, pc, cur, blk, left>>
        BY <2>2 DEF vars, disk, local
      <3>2. (Calm /\ Starting /\ Waiting /\ Going)'
        BY <3>1 DEF FInv, Calm, Starting, Waiting, Going, Settled, LinkedTo,
           LastAt, RollAt, ItemAt, HashBelow, Tip
      <3>3. (Reading /\ Storing /\ Reverting)'
        BY <3>1 DEF FInv, Reading, Storing, Reverting, Rolling, Settled, LinkedTo,
           LastAt, RollAt, ItemAt, HashBelow, Tip
      <3> QED
        BY <3>1, <3>2, <3>3 DEF FInv
    <2>3. ~ScannerFaults /\ ~Shutdown /\ ~Crash
      BY CalmSteps DEF FInv
    <2> QED
      BY <2>1, <2>2, <2>3, NodeKeepsFInv, MainKeepsFInv DEF Next
  <1>2. Init => FInv
    BY InitFInv
  <1> QED
    BY <1>1, <1>2, TypeInvariant, PTL DEF Spec

-----------------------------------------------------------------------------
(* Between two blocks the invariant says what the three properties ask.    *)
LEMMA FInvImplies == TInv /\ FInv => FiltersLinked /\ LastIsBelow /\ RollMatches
  <1> SUFFICES ASSUME TInv, FInv, Between PROVE FiltersLinked /\ LastIsBelow /\ RollMatches
    BY DEF FiltersLinked, LastIsBelow, RollMatches
  <1>1. Settled(cur) /\ cur \in Nat
    BY DEF FInv, Going, Reading, Between, TInv, TypeOK, Word
  <1>2. FiltersLinked
    BY <1>1 DEF Settled, LinkedTo, HashBelow, FiltersLinked
  <1>3. LastIsBelow
    BY <1>1 DEF Settled, LastAt, HashBelow, LastIsBelow
  <1>4. RollMatches
    <2>1. SUFFICES ASSUME NEW i \in 1..Len(roll)
                   PROVE  /\ i <= cur
                          /\ filter[cur - i] \in Block
                          /\ roll[i] = [added |-> Adds[filter[cur - i]],
                                        prevHash |-> Prev[filter[cur - i]],
                                        prevHeight |-> Minus(cur, i + 1)]
      BY DEF RollMatches
    <2>2. i \in Nat /\ 1 <= i
      BY DEF TInv, TypeOK
    <2>3. i <= cur /\ roll[i] = ItemAt(cur - i) /\ cur - i \in 0..(cur - 1)
      BY <1>1, <2>2 DEF Settled, RollAt
    <2>4. filter[cur - i] \in Block
      BY <1>1, <2>3 DEF Settled, LinkedTo
    <2>5. Minus(cur - i, 1) = Minus(cur, i + 1)
      BY <1>1, <2>2, <2>3 DEF Minus
    <2> QED
      BY <2>3, <2>4, <2>5 DEF ItemAt
  <1> QED
    BY <1>2, <1>3, <1>4

(* The filters below the next block are of one chain, from genesis on,     *)
(* after any number of forks of any depth (Common.hs:82-97).               *)
THEOREM FiltersStayLinked == ASSUME OnlyForks PROVE Spec => []FiltersLinked
  BY ForkInvariant, TypeInvariant, FInvImplies, PTL

(* Fork detection always compares with the block stored just below.        *)
THEOREM LastStaysBelow == ASSUME OnlyForks PROVE Spec => []LastIsBelow
  BY ForkInvariant, TypeInvariant, FInvImplies, PTL

(* A rollback always takes back the last blocks scanned.                   *)
THEOREM RollStaysTrue == ASSUME OnlyForks PROVE Spec => []RollMatches
  BY ForkInvariant, TypeInvariant, FInvImplies, PTL

-----------------------------------------------------------------------------
(* What follows from it: the filters up to the scanned height (Shown)      *)
(* implement FilterChain, and every transaction of a scanned block can be  *)
(* found.                                                                  *)

(* The scanned height is that of the last block or, after a rollback, that *)
(* of the next one.                                                        *)
Near(n) == \/ scanned = n
           \/ scanned = n - 1 /\ (roll = <<>> => n = 0 /\ filter[0] = NoBlock)

(* What a rollback leaves above it still continues the chain.              *)
LinksAt(n) == filter[n] \in Block => Prev[filter[n]] = HashBelow(n)

Nearby ==
    /\ pc = "off" => filter[0] = NoBlock
    /\ pc \in {"iter", "delay"} => Near(scanned + 1)
    /\ pc \in {"go", "fetch", "resolve", "decide", "addTxs", "addFilter",
               "rollLast", "rollHeight"} => Near(cur)
    /\ pc \in {"addSpent", "addLast"} => roll # <<>>
    /\ pc \in {"rollTxs", "rollSaved", "rollVar"} =>
           IF roll = <<>> THEN Near(cur) ELSE scanned = Minus(cur, Len(roll) + 1)
    /\ pc = "rollRestart" =>
           scanned = cur \/ (scanned \in {cur - 1, Minus(cur, 1)} /\ LinksAt(cur))

(* Every transaction of the first n blocks has the height of its block.    *)
Located(n) == \A h \in 0..(n - 1) : \A t \in Adds[filter[h]] : txHeight[t] = h

Findable ==
    /\ pc \in {"iter", "delay"} => Located(scanned + 1)
    /\ pc \in {"go", "fetch", "resolve", "decide", "addTxs", "addFilter",
               "rollLast", "rollHeight", "rollTxs", "rollRestart"} => Located(cur)
    /\ pc = "addFilter" => \A t \in Adds[blk] : txHeight[t] = cur
    /\ pc \in {"addRoll", "addSpent", "addLast"} => Located(cur + 1)
    /\ pc \in {"rollSaved", "rollVar"} => Located(cur - Len(roll))

-----------------------------------------------------------------------------
(* The scanned height keeps near the scanner                               *)

LEMMA InitNearby == Init => Nearby
  BY DEF Init, Nearby, Word

(* The steps that change neither the filters nor the rollback sequence.    *)
LEMMA QuietKeepsNearby ==
    ASSUME TInv, FInv, Nearby,
           \/ NodeGrows \/ NodeReorgs \/ ScanIteration \/ Go \/ Delay
           \/ Fetch \/ Resolve \/ ResolveFails \/ Decide
           \/ AddTxs \/ AddSpent \/ AddLast \/ RollLast \/ RollTxs \/ RollSaved
    PROVE  Nearby'
  <1>1. UNCHANGED <<scanned, filter, roll>>
    BY DEF NodeGrows, NodeReorgs, ScanIteration, Go, Delay, Fetch, Resolve,
       ResolveFails, Decide, AddTxs, AddSpent, AddLast, RollLast, RollTxs,
       RollSaved, disk
  <1> USE <1>1
  <1>2. CASE NodeGrows \/ NodeReorgs
    BY <1>2 DEF NodeGrows, NodeReorgs, local, Nearby, Near, LinksAt, HashBelow
  <1>3. CASE ScanIteration
    <2>1. pc = "iter" /\ pc' = "go" /\ cur' = scanned + 1
      BY <1>3 DEF ScanIteration, Next0, Goto, NoHeight
    <2> QED
      BY <2>1 DEF Nearby, Near
  <1>4. CASE Go
    <2>1. pc = "go" /\ cur' = cur /\ (pc' = "fetch" \/ (pc' = "delay" /\ ~(cur <= Tip)))
      BY <1>4 DEF Go, Next0, Goto, local, FInv, Calm
    <2>2. pc' = "delay" => cur = scanned + 1
      BY <2>1 DEF FInv, Going, TInv, TypeOK, Word
    <2> QED
      BY <2>1, <2>2 DEF Nearby, Near
  <1>5. CASE Delay
    BY <1>5 DEF Delay, Next0, Goto, FInv, Calm, Nearby, Near
  <1>6. CASE Fetch \/ Resolve \/ ResolveFails \/ Decide \/ AddTxs \/ RollLast
    BY <1>6 DEF Fetch, Resolve, ResolveFails, Decide, AddTxs, RollLast, Next0, Goto,
       local, FInv, Calm, Nearby, Near
  <1>7. CASE AddSpent \/ RollTxs \/ RollSaved
    BY <1>7 DEF AddSpent, RollTxs, RollSaved, Next0, Goto, local, Nearby, Near
  <1>8. CASE AddLast
    <2>1. pc = "addLast" /\ pc' = "go" /\ cur' = cur + 1 /\ scanned = cur
      BY <1>8 DEF AddLast, Next0, Goto, FInv, Storing
    <2> QED
      BY <2>1 DEF Nearby, Near, TInv, TypeOK, Word
  <1> QED
    BY <1>2, <1>3, <1>4, <1>5, <1>6, <1>7, <1>8

(* The oldest item of the sequence holds the height below the rollback.    *)
LEMMA OldestHeight ==
    ASSUME TInv, FInv, pc = "rollHeight", roll # <<>>
    PROVE  /\ Len(roll) \in 1..cur
           /\ Oldest.prevHeight = Minus(cur, Len(roll) + 1)
  <1>1. Len(roll) \in 1..Len(roll) /\ cur \in Nat /\ RollAt(cur)
    BY DEF TInv, TypeOK, Word, FInv, Reverting, Rolling
  <1>2. Len(roll) <= cur /\ Oldest = ItemAt(cur - Len(roll))
    BY <1>1 DEF RollAt, Oldest
  <1>3. Minus(cur - Len(roll), 1) = Minus(cur, Len(roll) + 1)
    BY <1>1, <1>2 DEF Minus, TInv, TypeOK
  <1> QED
    BY <1>1, <1>2, <1>3 DEF ItemAt

LEMMA WritesKeepNearby ==
    ASSUME TInv, FInv, Nearby,
           AddFilter \/ AddRoll \/ RollHeight \/ RollVar \/ RollRestart
    PROVE  Nearby'
  <1>0. cur \in Nat
    BY DEF TInv, TypeOK, Word
  <1>1. CASE AddFilter
    BY <1>1 DEF AddFilter, Next0, Goto, Nearby
  <1>2. CASE AddRoll
    <2>1. pc' = "addSpent" /\ roll' # <<>>
      BY <1>2 DEF AddRoll, Next0, Goto, TInv, TypeOK
    <2> QED
      BY <2>1 DEF Nearby
  <1>3. CASE RollHeight
    <2>1. pc = "rollHeight" /\ pc' = "rollTxs" /\ UNCHANGED <<filter, roll, cur>>
          /\ scanned' = IF roll = <<>> THEN scanned ELSE Oldest.prevHeight
      BY <1>3 DEF RollHeight, Next0, Goto, local
    <2>2. roll # <<>> => scanned' = Minus(cur, Len(roll) + 1)
      BY <2>1, OldestHeight
    <2> QED
      BY <2>1, <2>2 DEF Nearby, Near, Minus
  <1>4. CASE RollVar
    <2>1. pc = "rollVar" /\ pc' = "rollRestart" /\ UNCHANGED <<scanned, filter>>
          /\ cur' = Minus(cur, Len(roll))
      BY <1>4 DEF RollVar, Next0, Goto, disk, Restart
    <2>2. Len(roll) \in 0..cur /\ LinkedTo(cur) /\ cur' = cur - Len(roll)
      <3>1. RollAt(cur) /\ LinkedTo(cur)
        BY <2>1 DEF FInv, Reverting, Rolling
      <3>2. Len(roll) = 0 \/ Len(roll) \in 1..Len(roll)
        BY DEF TInv, TypeOK
      <3> QED
        BY <1>0, <2>1, <3>1, <3>2 DEF RollAt, Minus
    <2>3. CASE roll = <<>>
      <3>1. Near(cur) /\ cur' = cur
        BY <1>0, <2>1, <2>2, <2>3 DEF Nearby
      <3>2. scanned = cur \/ (scanned = cur - 1 /\ cur = 0 /\ filter[0] \notin Block)
        BY <2>3, <3>1 DEF Near, Hash
      <3> QED
        BY <2>1, <3>1, <3>2 DEF Nearby, LinksAt
    <2>4. CASE roll # <<>>
      <3>1. scanned = Minus(cur, Len(roll) + 1) /\ Len(roll) >= 1
        BY <2>1, <2>2, <2>4 DEF Nearby, TInv, TypeOK
      <3>2. scanned' = Minus(cur', 1)
        BY <1>0, <2>1, <2>2, <3>1 DEF Minus
      <3>3. cur' \in 0..(cur - 1) /\ filter' = filter
        BY <1>0, <2>1, <2>2, <3>1
      <3>4. LinksAt(cur)'
        BY <2>2, <3>3 DEF LinksAt, LinkedTo, HashBelow
      <3> QED
        BY <2>1, <3>2, <3>4 DEF Nearby
    <2> QED
      BY <2>3, <2>4
  <1>5. CASE RollRestart
    BY <1>5 DEF RollRestart, Next0, Goto, local, Nearby, Near
  <1> QED
    BY <1>1, <1>2, <1>3, <1>4, <1>5

LEMMA MainKeepsNearby ==
    ASSUME TInv, FInv, Nearby, Main
    PROVE  Nearby'
  <1>1. /\ Start \/ CheckFresh
        /\ scanned = NoHeight /\ pc = "off" /\ UNCHANGED <<scanned, filter>>
        /\ pc' \in {"off", "iter"} /\ roll' = <<>>
    BY DEF Main, Start, CheckFresh, CheckScanned, HackHeight, HackLast, HackRoll,
       Dump, Exit, Next0, Goto, FInv, Starting, Calm, disk
  <1> QED
    BY <1>1 DEF Nearby, Near, NoHeight

LEMMA StepNearby == TInv /\ FInv /\ Nearby /\ [Next]_vars => Nearby'
  <1> SUFFICES ASSUME TInv, FInv, Nearby, [Next]_vars PROVE Nearby'
    OBVIOUS
  <1>1. ~ScannerFaults /\ ~Shutdown /\ ~Crash /\ ~ScanOverflow
    BY CalmSteps DEF FInv
  <1>2. CASE UNCHANGED vars
    BY <1>2 DEF vars, disk, local, Nearby, Near, LinksAt, HashBelow
  <1>3. CASE NodeGrows \/ NodeReorgs \/ Scanner
    BY <1>1, <1>3, QuietKeepsNearby, WritesKeepNearby DEF Scanner
  <1> QED
    BY <1>1, <1>2, <1>3, MainKeepsNearby DEF Next

-----------------------------------------------------------------------------
(* The filters up to the scanned height implement FilterChain              *)

(* The filters of n linked blocks                                          *)
ChainTo(n) == [i \in 1..n |-> filter[i - 1]]

LEMMA ChainIsSeq ==
    ASSUME NEW n \in Nat, LinkedTo(n)
    PROVE  ChainTo(n) \in Seq(Block) /\ Len(ChainTo(n)) = n
  BY DEF ChainTo, LinkedTo

LEMMA PrefixOfChain ==
    ASSUME NEW n \in Nat, NEW m \in 0..n, LinkedTo(n)
    PROVE  SubSeq(ChainTo(n), 1, m) = ChainTo(m)
  BY DEF ChainTo, LinkedTo

(* Where the number of filters shown can be, seen from the scanner         *)
LEMMA ShownNear ==
    ASSUME TInv, NEW n \in Nat, n <= Tip, LinkedTo(n), Near(n)
    PROVE  /\ ShownCount = n \/ (ShownCount = n + 1 /\ scanned = n)
           /\ Shown = ChainTo(ShownCount)
  <1>1. n < MaxWord /\ n \in Word
    BY ChainFits DEF TInv, TypeOK, Tip, Word
  <1>2. scanned = n - 1 /\ n > 0 => filter[scanned] # NoBlock
    BY DEF LinkedTo, Hash
  <1> QED
    BY <1>1, <1>2 DEF Near, ShownCount, Shown, ChainTo, NoHeight, Word

(* The three steps that change what is shown: addBlockInfo puts a block on *)
(* top or over the one a rollback left, a rollback cuts, and its restart   *)
(* shows one of the blocks it took back again.                             *)
LEMMA AddShows ==
    ASSUME TInv, FInv, Nearby, AddFilter
    PROVE  Promised!Next
  <1>1. /\ pc = "addFilter" /\ scanned' = cur /\ filter' = [filter EXCEPT ![cur] = blk]
        /\ LinkedTo(cur) /\ Prev[blk] = HashBelow(cur) /\ Near(cur)
    BY DEF AddFilter, FInv, Reading, Settled, Nearby
  <1>2. cur \in Nat /\ cur \in Word /\ cur <= Tip /\ blk \in Block
    BY <1>1 DEF TInv, TypeOK, FlightBelowTip, InFlight, Word
  <1>3. Shown = ChainTo(ShownCount) /\ ShownCount \in {cur, cur + 1}
    BY <1>1, <1>2, ShownNear
  <1>4. cur < MaxWord /\ filter'[cur] = blk /\ blk # NoBlock
    BY <1>1, <1>2, ChainFits DEF TInv, TypeOK, Tip, Word, Hash
  <1>5. ShownCount' = cur + 1
    BY <1>1, <1>2, <1>4 DEF ShownCount, NoHeight
  <1>6. Len(Shown) = ShownCount /\ SubSeq(Shown, 1, cur) = ChainTo(cur)
        /\ (cur > 0 => Shown[cur] = filter[cur - 1])
    <2>1. Len(Shown) = ShownCount
      BY <1>2, <1>3 DEF ChainTo
    <2>2. SubSeq(Shown, 1, cur) = ChainTo(cur)
      BY <1>2, <1>3 DEF ChainTo
    <2> QED
      BY <1>2, <1>3, <2>1, <2>2 DEF ChainTo
  <1>7. Shown' = Append(ChainTo(cur), blk)
    <2>1. ChainTo(cur) \in Seq(Block) /\ Len(ChainTo(cur)) = cur
      BY <1>1, <1>2, ChainIsSeq
    <2>2. Shown' = [i \in 1..(cur + 1) |-> filter'[i - 1]]
      BY <1>5 DEF Shown
    <2>3. \A i \in 1..cur : filter'[i - 1] = filter[i - 1]
      BY <1>1, <1>2 DEF TInv, TypeOK
    <2> QED
      BY <1>2, <1>4, <2>1, <2>2, <2>3 DEF ChainTo
  <1>8. Promised!CutAndPut(cur, blk)
    BY <1>1, <1>2, <1>3, <1>6, <1>7 DEF Promised!CutAndPut, Promised!Follows, HashBelow
  <1>9. cur = Len(Shown) \/ cur = Len(Shown) - 1
    BY <1>2, <1>3, <1>6
  <1> QED
    BY <1>2, <1>8, <1>9 DEF Promised!Next, Promised!Grow, Promised!Replace

LEMMA RollShows ==
    ASSUME TInv, FInv, Nearby, RollHeight
    PROVE  Promised!Cut \/ UNCHANGED Shown
  <1>1. /\ pc = "rollHeight" /\ filter' = filter /\ LinkedTo(cur) /\ cur <= Tip
        /\ scanned' = (IF roll = <<>> THEN scanned ELSE Oldest.prevHeight) /\ Near(cur)
    BY DEF RollHeight, FInv, Reverting, Rolling, Nearby
  <1>2. cur \in Nat /\ cur < MaxWord
    BY <1>1, ChainFits DEF TInv, TypeOK, Word, Tip
  <1>3. CASE roll = <<>>
    BY <1>1, <1>3 DEF Shown, ShownCount
  <1>4. CASE roll # <<>>
    <2> DEFINE n == cur - Len(roll)
    <2>1. Len(roll) \in 1..cur /\ scanned' = Minus(cur, Len(roll) + 1)
      BY <1>1, <1>4, OldestHeight
    <2>2. n \in 0..(cur - 1)
      BY <1>2, <2>1
    <2>3. ShownCount' = n
      <3>1. CASE n = 0
        <4>1. Len(roll) = cur
          BY <1>2, <2>1, <3>1
        <4>2. scanned' = MaxWord
          BY <1>2, <2>1, <4>1 DEF Minus
        <4> QED
          BY <3>1, <4>2 DEF ShownCount
      <3>2. CASE n # 0
        <4>1. scanned' = n - 1 /\ n - 1 \in 0..(cur - 1)
          BY <1>2, <2>1, <2>2, <3>2 DEF Minus
        <4>2. filter'[n - 1] # NoBlock
          BY <1>1, <4>1 DEF LinkedTo, Hash
        <4> QED
          BY <1>2, <4>1, <4>2 DEF ShownCount, NoHeight
      <3> QED
        BY <3>1, <3>2
    <2> HIDE DEF n
    <2>4. Shown' = ChainTo(n)
      BY <1>1, <2>3 DEF Shown, ChainTo
    <2>5. Shown = ChainTo(ShownCount) /\ ShownCount \in {cur, cur + 1}
      BY <1>1, <1>2, ShownNear
    <2>6. SubSeq(Shown, 1, n) = ChainTo(n) /\ Len(Shown) = ShownCount
      BY <1>2, <2>2, <2>5 DEF ChainTo
    <2>7. n \in 0..(Len(Shown) - 1) /\ Shown' = SubSeq(Shown, 1, n)
      BY <1>2, <2>2, <2>4, <2>5, <2>6
    <2> QED
      BY <2>7 DEF Promised!Cut
  <1> QED
    BY <1>3, <1>4

LEMMA RestartShows ==
    ASSUME TInv, FInv, Nearby, RollRestart
    PROVE  Promised!Grow \/ UNCHANGED Shown
  <1>1. /\ pc = "rollRestart" /\ filter' = filter /\ scanned' = cur
        /\ LinkedTo(cur) /\ cur <= Tip
        /\ scanned = cur \/ (scanned \in {cur - 1, Minus(cur, 1)} /\ LinksAt(cur))
    BY DEF RollRestart, FInv, Reverting, Rolling, Nearby
  <1>2. cur \in Nat /\ cur < MaxWord /\ filter[cur] \in Block \cup {NoBlock}
    BY <1>1, ChainFits DEF TInv, TypeOK, Word, Tip
  <1>3. CASE scanned = cur
    BY <1>1, <1>3 DEF Shown, ShownCount
  <1>4. CASE scanned # cur
    <2>1. ShownCount = cur /\ Shown = ChainTo(cur)
      <3>1. CASE cur = 0
        BY <1>1, <1>2, <1>4, <3>1 DEF ShownCount, Shown, ChainTo, Minus, NoHeight
      <3>2. CASE cur # 0
        <4>1. scanned = cur - 1 /\ filter[cur - 1] # NoBlock
          BY <1>1, <1>2, <1>4, <3>2 DEF Minus, LinkedTo, Hash
        <4> QED
          BY <1>2, <3>2, <4>1 DEF ShownCount, Shown, ChainTo, NoHeight
      <3> QED
        BY <3>1, <3>2
    <2>2. Len(Shown) = cur /\ Shown \in Seq(Block)
      BY <1>1, <1>2, <2>1, ChainIsSeq
    <2>3. CASE filter[cur] = NoBlock
      BY <1>1, <1>2, <2>1, <2>3 DEF Shown, ShownCount, ChainTo, NoHeight
    <2>4. CASE filter[cur] \in Block
      <3>1. Shown' = ChainTo(cur + 1)
        BY <1>1, <1>2, <2>4 DEF Shown, ShownCount, ChainTo, NoHeight, Hash
      <3>2. Shown' = Append(SubSeq(Shown, 1, cur), filter[cur])
        BY <1>2, <2>1, <2>2, <3>1 DEF ChainTo
      <3>3. Prev[filter[cur]] = IF cur = 0 THEN ZeroHash ELSE Shown[cur]
        BY <1>1, <1>2, <1>4, <2>1, <2>4 DEF LinksAt, HashBelow, ChainTo
      <3> QED
        BY <1>2, <2>2, <2>4, <3>2, <3>3
        DEF Promised!Grow, Promised!CutAndPut, Promised!Follows
    <2> QED
      BY <1>2, <2>3, <2>4
  <1> QED
    BY <1>3, <1>4

(* BlockchainScanning/Common.hs and DB/Queries.hs, with any number of      *)
(* forks of any depth, implement FilterChain with the filters stored up to *)
(* the scanned height.                                                     *)
THEOREM ImplementsFilterChain == ASSUME OnlyForks PROVE Spec => ServesChain
  <1>1. Init => Promised!Init
    BY DEF Init, Promised!Init, Shown, ShownCount
  <1>2. TInv /\ FInv /\ Nearby /\ [Next]_vars => [Promised!Next]_Shown
    <2> SUFFICES ASSUME TInv, FInv, Nearby, [Next]_vars,
                        ~(AddFilter \/ RollHeight \/ RollRestart)
                 PROVE  UNCHANGED Shown
      BY AddShows, RollShows, RestartShows DEF Promised!Next
    <2>1. UNCHANGED <<scanned, filter>>
      <3>1. ~ScannerFaults /\ ~Shutdown /\ ~Crash
        BY CalmSteps DEF FInv
      <3>2. CASE Main
        BY <3>2 DEF Main, Start, CheckFresh, CheckScanned, HackHeight, HackLast,
           HackRoll, Dump, Exit, FInv, Starting, Calm, disk
      <3>3. CASE Scanner
        BY <3>3 DEF Scanner, ScanIteration, ScanOverflow, Go, Delay, Fetch, Resolve,
           ResolveFails, Decide, AddTxs, AddRoll, AddSpent, AddLast, RollLast,
           RollTxs, RollSaved, RollVar, disk
      <3> QED
        BY <3>1, <3>2, <3>3 DEF Next, NodeGrows, NodeReorgs, vars, disk
    <2> QED
      BY <2>1 DEF Shown, ShownCount
  <1>3. Spec => []Nearby
    BY InitNearby, StepNearby, ForkInvariant, TypeInvariant, PTL DEF Spec
  <1> QED
    BY <1>1, <1>2, <1>3, ForkInvariant, TypeInvariant, PTL
    DEF Spec, ServesChain, Promised!Spec

-----------------------------------------------------------------------------
(* Every transaction can be found                                          *)

(* Linked filters are of blocks without a transaction in common.           *)
LEMMA LinkedApart ==
    ASSUME NoRepeats, NEW n \in Nat, LinkedTo(n + 1)
    PROVE  \A i, j \in 0..n : i # j => Adds[filter[i]] \cap Adds[filter[j]] = {}
  <1> DEFINE s == [h \in 0..n |-> filter[h]]
  <1>1. s \in [0..n -> Block]
    BY DEF LinkedTo
  <1>2. \A h \in 0..n : Prev[s[h]] = IF h = 0 THEN ZeroHash ELSE s[h - 1]
    BY DEF LinkedTo, HashBelow
  <1>3. \A i, j \in 0..n : i # j => Adds[s[i]] \cap Adds[s[j]] = {}
    <2> HIDE DEF s
    <2> QED
      BY <1>1, <1>2 DEF NoRepeats
  <1> QED
    BY <1>3

LEMMA QuietKeepsFindable ==
    ASSUME TInv, FInv, Findable,
           \/ NodeGrows \/ NodeReorgs \/ ScanIteration \/ Go \/ Delay
           \/ Fetch \/ Resolve \/ ResolveFails \/ Decide
           \/ AddRoll \/ AddSpent \/ AddLast
           \/ RollLast \/ RollHeight \/ RollSaved \/ RollVar \/ RollRestart
    PROVE  Findable'
  <1>1. UNCHANGED <<filter, txHeight>>
    BY DEF NodeGrows, NodeReorgs, ScanIteration, Go, Delay, Fetch, Resolve,
       ResolveFails, Decide, AddRoll, AddSpent, AddLast, RollLast, RollHeight,
       RollSaved, RollVar, RollRestart, disk, utxo
  <1> USE <1>1
  <1>2. CASE NodeGrows \/ NodeReorgs
    BY <1>2 DEF NodeGrows, NodeReorgs, local, disk, Findable, Located
  <1>3. CASE ScanIteration
    <2>1. pc = "iter" /\ pc' = "go" /\ cur' = scanned + 1
      BY <1>3 DEF ScanIteration, Next0, Goto, NoHeight
    <2> QED
      BY <2>1 DEF Findable, Located
  <1>4. CASE Go
    <2>1. pc = "go" /\ cur' = cur /\ scanned' = scanned
          /\ (pc' = "fetch" \/ (pc' = "delay" /\ ~(cur <= Tip)))
      BY <1>4 DEF Go, Next0, Goto, local, disk, FInv, Calm
    <2>2. pc' = "delay" => cur = scanned + 1
      BY <2>1 DEF FInv, Going, TInv, TypeOK, Word
    <2> QED
      BY <2>1, <2>2 DEF Findable, Located
  <1>5. CASE Delay
    BY <1>5 DEF Delay, Next0, Goto, disk, FInv, Calm, Findable, Located
  <1>6. CASE Fetch \/ Resolve \/ ResolveFails \/ Decide \/ RollLast \/ RollHeight
    BY <1>6 DEF Fetch, Resolve, ResolveFails, Decide, RollLast, RollHeight, Next0,
       Goto, local, FInv, Calm, Findable, Located
  <1>7. CASE AddRoll \/ AddSpent \/ AddLast
    BY <1>7 DEF AddRoll, AddSpent, AddLast, Next0, Goto, local, Findable, Located
  <1>8. CASE RollSaved \/ RollRestart
    BY <1>8 DEF RollSaved, RollRestart, Next0, Goto, local, Findable, Located
  <1>9. CASE RollVar
    <2>1. pc = "rollVar" /\ pc' = "rollRestart" /\ cur' = Minus(cur, Len(roll))
      BY <1>9 DEF RollVar, Next0, Goto, Restart
    <2>2. cur' = cur - Len(roll)
      <3>1. RollAt(cur) /\ cur \in Nat /\ (Len(roll) = 0 \/ Len(roll) \in 1..Len(roll))
        BY <2>1 DEF FInv, Reverting, Rolling, TInv, TypeOK, Word
      <3> QED
        BY <2>1, <3>1 DEF RollAt, Minus
    <2> QED
      BY <2>1, <2>2 DEF Findable, Located
  <1> QED
    BY <1>2, <1>3, <1>4, <1>5, <1>6, <1>7, <1>8, <1>9

(* addBlockInfo locates the transactions of the block it adds and those of *)
(* no other.                                                               *)
LEMMA AddKeepsFindable ==
    ASSUME NoRepeats, TInv, FInv, Findable, AddTxs \/ AddFilter
    PROVE  Findable'
  <1>0. /\ cur \in Nat /\ cur \in Word /\ blk \in Block
        /\ LinkedTo(cur) /\ Located(cur) /\ Prev[blk] = HashBelow(cur)
    BY DEF AddTxs, AddFilter, TInv, TypeOK, FlightBelowTip, InFlight, Word,
       FInv, Reading, Settled, Findable
  <1>1. CASE AddTxs
    <2>1. /\ pc' = "addFilter" /\ UNCHANGED <<filter, cur, blk>>
          /\ txHeight' = [t \in Tx |-> IF t \in Adds[blk] THEN cur ELSE txHeight[t]]
      BY <1>1 DEF AddTxs, Next0, Goto, local
    <2>2. \A h \in 0..(cur - 1) : Adds[filter[h]] \cap Adds[blk] = {}
      <3> DEFINE s == [h \in 0..cur |-> IF h = cur THEN blk ELSE filter[h]]
      <3>1. s \in [0..cur -> Block]
        BY <1>0 DEF LinkedTo
      <3>2. \A h \in 0..cur : Prev[s[h]] = IF h = 0 THEN ZeroHash ELSE s[h - 1]
        BY <1>0 DEF LinkedTo, HashBelow
      <3>3. \A i, j \in 0..cur : i # j => Adds[s[i]] \cap Adds[s[j]] = {}
        <4> HIDE DEF s
        <4> QED
          BY <1>0, <3>1, <3>2 DEF NoRepeats
      <3>4. \A h \in 0..(cur - 1) : h \in 0..cur /\ h # cur /\ s[h] = filter[h]
        BY <1>0
      <3>5. cur \in 0..cur /\ s[cur] = blk
        BY <1>0
      <3> QED
        BY <3>3, <3>4, <3>5
    <2>3. \A h \in 0..(cur - 1) : Adds[filter[h]] \subseteq Tx
      BY <1>0 DEF LinkedTo
    <2>4. Adds[blk] \subseteq Tx
      BY <1>0
    <2>5. Located(cur)' /\ \A t \in Adds[blk] : txHeight'[t] = cur
      BY <1>0, <2>1, <2>2, <2>3, <2>4 DEF Located
    <2> QED
      BY <2>1, <2>5 DEF Findable
  <1>2. CASE AddFilter
    <2>1. /\ pc = "addFilter" /\ pc' = "addRoll" /\ UNCHANGED <<txHeight, cur>>
          /\ filter' = [filter EXCEPT ![cur] = blk]
      BY <1>2 DEF AddFilter, Next0, Goto, utxo, local
    <2>2. \A t \in Adds[blk] : txHeight[t] = cur
      BY <2>1 DEF Findable
    <2>3. filter'[cur] = blk /\ \A h \in 0..(cur - 1) : filter'[h] = filter[h]
      BY <1>0, <2>1 DEF TInv, TypeOK, Word
    <2>4. Located(cur + 1)'
      BY <1>0, <2>1, <2>2, <2>3 DEF Located
    <2> QED
      BY <2>1, <2>4 DEF Findable
  <1> QED
    BY <1>1, <1>2

(* performBtcRollback deletes the transactions of the blocks it takes back *)
(* and those of no other.                                                  *)
LEMMA RollKeepsFindable ==
    ASSUME NoRepeats, TInv, FInv, Findable, RollTxs
    PROVE  Findable'
  <1> DEFINE gone == UNION {roll[i].added : i \in DOMAIN roll}
  <1>1. /\ pc = "rollTxs" /\ pc' = "rollSaved" /\ UNCHANGED <<filter, roll, cur>>
        /\ txHeight' = [t \in Tx |-> IF t \in gone THEN NoHeight ELSE txHeight[t]]
    BY DEF RollTxs, Next0, Goto, local
  <1>2. /\ LinkedTo(cur) /\ RollAt(cur) /\ Located(cur) /\ cur \in Nat
        /\ DOMAIN roll = 1..Len(roll) /\ Len(roll) \in Nat
    BY <1>1 DEF FInv, Reverting, Rolling, Findable, TInv, TypeOK, Word
  <1>3. ASSUME NEW h \in 0..(cur - Len(roll) - 1), NEW t \in Adds[filter[h]]
        PROVE  t \notin gone
    <2>1. SUFFICES ASSUME NEW i \in 1..Len(roll) PROVE t \notin roll[i].added
      BY <1>2
    <2>2. roll[i] = ItemAt(cur - i) /\ i <= cur
      BY <1>2 DEF RollAt
    <2>3. roll[i].added = Adds[filter[cur - i]]
      BY <2>2 DEF ItemAt
    <2>4. cur - 1 \in Nat /\ h \in 0..(cur - 1) /\ cur - i \in 0..(cur - 1) /\ h # cur - i
          /\ cur = (cur - 1) + 1
      BY <1>2, <2>2
    <2>5. Adds[filter[h]] \cap Adds[filter[cur - i]] = {}
      BY <1>2, <2>4, LinkedApart
    <2> QED
      BY <2>3, <2>5
  <1>4. Located(cur - Len(roll))'
    <2>1. SUFFICES ASSUME NEW h \in 0..(cur - Len(roll) - 1), NEW t \in Adds[filter[h]]
                   PROVE  txHeight'[t] = h
      BY <1>1 DEF Located
    <2>2. h \in 0..(cur - 1) /\ txHeight[t] = h /\ t \in Tx
      BY <1>2 DEF Located, LinkedTo
    <2> QED
      BY <1>1, <1>3, <2>2
  <1> QED
    BY <1>1, <1>4 DEF Findable

(* spentTxSource finds every output a new block can spend: while the       *)
(* indexer follows forks, the transactions of the blocks below the scanner *)
(* are stored with the height of their block, provided no chain has the    *)
(* same transaction twice.                                                 *)
THEOREM TxsStayLocated == ASSUME OnlyForks, NoRepeats PROVE Spec => []TxsLocated
  <1>1. Init => Findable
    BY DEF Init, Findable
  <1>2. TInv /\ FInv /\ Findable /\ [Next]_vars => Findable'
    <2> SUFFICES ASSUME TInv, FInv, Findable, [Next]_vars PROVE Findable'
      OBVIOUS
    <2>1. ~ScannerFaults /\ ~Shutdown /\ ~Crash /\ ~ScanOverflow
      BY CalmSteps DEF FInv
    <2>2. CASE NodeGrows \/ NodeReorgs \/ Scanner
      BY <2>1, <2>2, QuietKeepsFindable, AddKeepsFindable, RollKeepsFindable DEF Scanner
    <2>3. CASE Main
      <3>1. scanned' = NoHeight /\ pc' \in {"off", "iter"}
        BY <2>3 DEF Main, Start, CheckFresh, CheckScanned, HackHeight, HackLast,
           HackRoll, Dump, Exit, Next0, Goto, FInv, Starting, Calm, disk
      <3> QED
        BY <3>1 DEF Findable, Located, NoHeight
    <2>4. CASE UNCHANGED vars
      BY <2>4 DEF vars, disk, utxo, local, Findable, Located
    <2> QED
      BY <2>1, <2>2, <2>3, <2>4 DEF Next
  <1>3. TInv /\ FInv /\ Findable => TxsLocated
    BY DEF Findable, Located, TxsLocated, Between
  <1> QED
    BY <1>1, <1>2, <1>3, ForkInvariant, TypeInvariant, PTL DEF Spec
=============================================================================
