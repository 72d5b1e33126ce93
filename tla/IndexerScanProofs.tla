------------------------- MODULE IndexerScanProofs -------------------------
(***************************************************************************)
(* Theorems about IndexerScan, for every node, every set of blocks and     *)
(* transactions, every size of the rollback sequence and every number of   *)
(* faults.                                                                 *)
(***************************************************************************)
EXTENDS IndexerScan, TLAPS

(* A block is in flight: fetched and not yet written completely.           *)
InFlight == {"resolve", "decide", "addTxs", "addFilter", "addRoll", "addSpent",
             "addLast"}

(* TypeOK is not inductive: the heights stay in range because the node's   *)
(* chain never shrinks below a block in flight, and a rollback never takes *)
(* back more blocks than btcRollbackSize.                                  *)
FlightBelowTip == pc \in InFlight => blk \in Block /\ cur <= Tip
RollsBounded == Len(roll) <= RollbackSize /\ Len(savedRoll) <= RollbackSize
TInv == TypeOK /\ FlightBelowTip /\ RollsBounded

(* No chain of blocks has a transaction twice.                             *)
NoRepeats ==
    \A n \in Nat : \A s \in [0..n -> Block] :
        (\A h \in 0..n : Prev[s[h]] = IF h = 0 THEN ZeroHash ELSE s[h - 1]) =>
            \A i, j \in 0..n : i # j => Adds[s[i]] \cap Adds[s[j]] = {}

USE SizesAssumption, HashesDiffer, BlocksAssumption

-----------------------------------------------------------------------------
(* currencyHeightStart is a height.                                        *)
LEMMA ZeroInWord == 0 \in Word
  BY DEF Word

(* The cleared rollback sequence is one.                                   *)
LEMMA EmptyTyped == <<>> \in Seq(RollItem) /\ Len(<<>>) = 0
  OBVIOUS

(* Word arithmetic stays in Word.                                          *)
LEMMA MinusInWord ==
    ASSUME NEW h \in Word, NEW n \in 0..MaxWord
    PROVE  Minus(h, n) \in Word
  BY DEF Minus, Word

(* The node's chain is a sequence of blocks that a height can address.     *)
LEMMA ChainFits ==
    ASSUME NEW c \in Chains
    PROVE  c \in Seq(Block) /\ Len(c) \in 1..MaxWord
  BY ChainsAssumption

(* A fault leaves the budgets natural numbers.                             *)
LEMMA FaultTyped ==
    ASSUME TypeOK, NEW kind \in FaultKind, Fault(kind)
    PROVE  left' \in [FaultKind -> Nat]
  BY DEF TypeOK, Fault

(* insertBtcRollback keeps the sequence typed and within btcRollbackSize.  *)
LEMMA InsertBounded ==
    ASSUME NEW s \in Seq(RollItem), Len(s) <= RollbackSize,
           NEW item \in RollItem,
           NEW kept, kept = IF Len(s) < RollbackSize THEN Len(s) ELSE RollbackSize - 1
    PROVE  /\ <<item>> \o SubSeq(s, 1, kept) \in Seq(RollItem)
           /\ Len(<<item>> \o SubSeq(s, 1, kept)) <= RollbackSize
  <1>1. kept \in Nat /\ kept <= Len(s) /\ kept + 1 <= RollbackSize
    OBVIOUS
  <1>2. SubSeq(s, 1, kept) \in Seq(RollItem) /\ Len(SubSeq(s, 1, kept)) = kept
    BY <1>1
  <1>3. <<item>> \in Seq(RollItem) /\ Len(<<item>>) = 1
    OBVIOUS
  <1> DEFINE tail == SubSeq(s, 1, kept)
  <1> HIDE DEF tail
  <1>4. tail \in Seq(RollItem) /\ Len(tail) = kept
    BY <1>2 DEF tail
  <1>5. <<item>> \o tail \in Seq(RollItem) /\ Len(<<item>> \o tail) = 1 + kept
    BY <1>3, <1>4
  <1> QED
    BY <1>1, <1>5 DEF tail

-----------------------------------------------------------------------------
(* The databases of a first start are well typed.                          *)
LEMMA InitTInv == Init => TInv
  <1> SUFFICES ASSUME Init PROVE TInv
    OBVIOUS
  <1>1. chain \in Chains /\ left \in [FaultKind -> Nat]
    BY DEF Init
  <1>2. TypeOK
    <2>1. /\ filter \in [Word -> Block \cup {NoBlock}]
          /\ txHeight \in [Tx -> Word \cup {NoHeight}]
          /\ unspent \in [Tx -> Nat \cup {NoCount}]
      BY DEF Init
    <2>2. /\ scanned \in Word \cup {NoHeight}
          /\ lastScanned \in Hash \cup {NoBlock}
          /\ txBytes \in SUBSET Tx
          /\ cur \in Word /\ blk \in Block \cup {NoBlock}
      BY ZeroInWord DEF Init
    <2>3. /\ savedRoll \in Seq(RollItem) /\ roll \in Seq(RollItem)
          /\ flag \in BOOLEAN /\ main \in MainPC /\ pc \in ScannerPC
      BY EmptyTyped DEF Init, MainPC, ScannerPC
    <2> QED
      BY <1>1, <2>1, <2>2, <2>3 DEF TypeOK
  <1>3. FlightBelowTip /\ RollsBounded
    BY DEF Init, FlightBelowTip, RollsBounded, InFlight
  <1> QED
    BY <1>2, <1>3 DEF TInv

(* The node's chain only gets longer.                                      *)
LEMMA NodeKeepsTInv == TInv /\ (NodeGrows \/ NodeReorgs) => TInv'
  <1> SUFFICES ASSUME TInv, NodeGrows \/ NodeReorgs PROVE TInv'
    OBVIOUS
  <1>1. chain \in Chains /\ chain' \in Chains /\ Len(chain') > Len(chain)
    BY ChainFits DEF NodeGrows, NodeReorgs, TInv, TypeOK
  <1>2. left' \in [FaultKind -> Nat]
    BY FaultTyped DEF NodeGrows, NodeReorgs, TInv, TypeOK, FaultKind
  <1>3. UNCHANGED <<disk, roll, flag, main, pc, local>>
    BY DEF NodeGrows, NodeReorgs
  <1>4. TypeOK'
    BY <1>1, <1>2, <1>3 DEF TInv, TypeOK, disk, local
  <1>5. Len(chain) \in Nat /\ Len(chain') \in Nat
    BY <1>1, ChainFits
  <1> QED
    BY <1>1, <1>3, <1>4, <1>5
    DEF TInv, TypeOK, FlightBelowTip, RollsBounded, Tip, disk, local, Word

(* The loop of scannerThread: a height below the tip has a successor.      *)
LEMMA LoopKeepsTInv ==
    TInv /\ (ScanIteration \/ ScanOverflow \/ Go \/ GoThrows \/ Delay) => TInv'
  <1> SUFFICES ASSUME TInv,
                      ScanIteration \/ ScanOverflow \/ Go \/ GoThrows \/ Delay
               PROVE  TInv'
    OBVIOUS
  <1> USE DEF TInv, TypeOK, FlightBelowTip, RollsBounded, InFlight, Next0, Goto,
              disk, local, ScannerPC
  <1>1. CASE ScanIteration
    BY <1>1 DEF ScanIteration, Word, NoHeight, Tip
  <1>2. CASE Go
    BY <1>2 DEF Go, Tip
  <1>3. CASE GoThrows
    BY <1>3, FaultTyped DEF GoThrows, FaultKind, Tip
  <1>4. CASE Delay
    BY <1>4 DEF Delay, Tip
  <1>5. CASE ScanOverflow
    BY <1>5 DEF ScanOverflow
  <1> QED
    BY <1>1, <1>2, <1>3, <1>4, <1>5

(* Fetching and checking a block, also when it fails.                      *)
LEMMA FetchKeepsTInv ==
    ASSUME TInv,
           \/ Fetch \/ FetchThrows \/ Resolve \/ ResolveFails \/ ResolveThrows
           \/ Decide \/ NotEnoughSpace
    PROVE  TInv'
  <1> USE DEF TInv, TypeOK, FlightBelowTip, RollsBounded, InFlight, Next0, Goto,
              disk, local, ScannerPC
  <1>1. CASE Fetch
    <2>1. BlockAt(cur) \in Block
      BY <1>1, ChainFits DEF Fetch, BlockAt, Tip, Word
    <2> QED
      BY <1>1, <2>1 DEF Fetch, Tip
  <1>2. CASE FetchThrows
    BY <1>2, FaultTyped DEF FetchThrows, FaultKind
  <1>3. CASE Resolve
    BY <1>3 DEF Resolve, Tip
  <1>4. CASE ResolveFails
    BY <1>4 DEF ResolveFails
  <1>5. CASE ResolveThrows
    BY <1>5, FaultTyped DEF ResolveThrows, FaultKind
  <1>6. CASE Decide
    BY <1>6 DEF Decide, Tip
  <1>7. CASE NotEnoughSpace
    BY <1>7, FaultTyped DEF NotEnoughSpace, FaultKind
  <1> QED
    BY <1>1, <1>2, <1>3, <1>4, <1>5, <1>6, <1>7

(* addBlockInfo: the block in flight is a block of a height in range.      *)
LEMMA AddKeepsTInv ==
    ASSUME TInv, AddTxs \/ AddFilter \/ AddRoll \/ AddSpent \/ AddLast
    PROVE  TInv'
  <1> USE DEF TInv, TypeOK, FlightBelowTip, RollsBounded, InFlight, Next0, Goto,
              disk, utxo, local, ScannerPC, Tip
  <1>1. CASE AddTxs
    <2>1. blk \in Block /\ Adds[blk] \in SUBSET Tx
      BY <1>1 DEF AddTxs
    <2>2. txBytes' \in SUBSET Tx
      BY <1>1, <2>1 DEF AddTxs
    <2>3. txHeight' \in [Tx -> Word \cup {NoHeight}]
      BY <1>1, <2>1 DEF AddTxs
    <2>4. unspent' \in [Tx -> Nat \cup {NoCount}]
      BY <1>1, <2>1 DEF AddTxs
    <2> QED
      BY <1>1, <2>1, <2>2, <2>3, <2>4 DEF AddTxs
  <1>2. CASE AddFilter
    BY <1>2 DEF AddFilter
  <1>3. CASE AddRoll
    <2> DEFINE kept == IF Len(roll) < RollbackSize THEN Len(roll) ELSE RollbackSize - 1
    <2>1. blk \in Block /\ Minus(cur, 1) \in Word
      BY <1>3, MinusInWord DEF AddRoll
    <2>2. Item \in RollItem
      BY <2>1 DEF RollItem, Item
    <2>3. roll' = <<Item>> \o SubSeq(roll, 1, kept)
      BY <1>3 DEF AddRoll
    <2>4. roll' \in Seq(RollItem) /\ Len(roll') <= RollbackSize
      <3> HIDE DEF kept
      <3>1. kept = IF Len(roll) < RollbackSize THEN Len(roll) ELSE RollbackSize - 1
        BY DEF kept
      <3> QED
        BY <2>2, <2>3, <3>1, InsertBounded
    <2> QED
      BY <1>3, <2>1, <2>4 DEF AddRoll
  <1>4. CASE AddSpent
    <2>1. blk \in Block /\ Spends[blk] \in [Tx -> Nat]
      BY <1>4 DEF AddSpent
    <2>2. unspent' \in [Tx -> Nat \cup {NoCount}]
      BY <1>4, <2>1 DEF AddSpent, NoCount
    <2>3. txBytes' \in SUBSET Tx
      BY <1>4 DEF AddSpent
    <2> QED
      BY <1>4, <2>1, <2>2, <2>3 DEF AddSpent
  <1>5. CASE AddLast
    BY <1>5, ChainFits DEF AddLast, Word, Hash
  <1> QED
    BY <1>1, <1>2, <1>3, <1>4, <1>5

(* performBtcRollback and setScannedHeight restart: the oldest item of a   *)
(* typed sequence is typed, and the restart height is a Word.              *)
LEMMA RollKeepsTInv ==
    ASSUME TInv,
           \/ RollLast \/ RollHeight \/ RollTxs \/ RollSaved \/ RollVar
           \/ RollRestart \/ WriteThrows
    PROVE  TInv'
  <1> USE DEF TInv, TypeOK, FlightBelowTip, RollsBounded, InFlight, Next0, Goto,
              disk, utxo, local, ScannerPC, Tip
  <1>0. roll # <<>> => Oldest \in RollItem
    BY DEF Oldest
  <1>1. CASE RollLast
    BY <1>0, <1>1 DEF RollLast, RollItem
  <1>2. CASE RollHeight
    BY <1>0, <1>2 DEF RollHeight, RollItem
  <1>3. CASE RollTxs
    <2>1. /\ txBytes' \in SUBSET Tx
          /\ txHeight' \in [Tx -> Word \cup {NoHeight}]
      BY <1>3 DEF RollTxs
    <2> QED
      BY <1>3, <2>1 DEF RollTxs
  <1>4. CASE RollSaved
    BY <1>4 DEF RollSaved
  <1>5. CASE RollVar
    <2>1. Minus(cur, Len(roll)) \in Word
      BY MinusInWord
    <2> QED
      BY <1>5, <2>1 DEF RollVar, Restart
  <1>6. CASE RollRestart
    BY <1>6 DEF RollRestart
  <1>7. CASE WriteThrows
    BY <1>7, FaultTyped DEF WriteThrows, FaultKind
  <1> QED
    BY <1>1, <1>2, <1>3, <1>4, <1>5, <1>6, <1>7

(* Startup, the hack, shutdown and a kill.                                 *)
LEMMA MainKeepsTInv ==
    ASSUME TInv, Main \/ Shutdown \/ Crash
    PROVE  TInv'
  <1> USE DEF TInv, TypeOK, FlightBelowTip, RollsBounded, InFlight, Next0, Goto,
              disk, utxo, local, ScannerPC, MainPC, Tip
  <1>0. ASSUME ProcessEnds, left' \in [FaultKind -> Nat]
        PROVE  TInv'
    <2>1. main' = "down" /\ pc' = "off" /\ roll' = <<>> /\ flag' = FALSE
          /\ cur' = 0 /\ blk' = NoBlock /\ UNCHANGED <<chain, disk>>
      BY <1>0 DEF ProcessEnds
    <2>2. roll' \in Seq(RollItem) /\ Len(roll') <= RollbackSize
      BY <2>1, EmptyTyped
    <2>3. main' \in MainPC /\ pc' \in ScannerPC /\ pc' \notin InFlight
          /\ flag' \in BOOLEAN /\ cur' \in Word /\ blk' \in Block \cup {NoBlock}
      BY <2>1, ZeroInWord
    <2> QED
      BY <1>0, <2>1, <2>2, <2>3
  <1>1. CASE Start
    BY <1>1 DEF Start
  <1>2. CASE CheckFresh
    BY <1>2 DEF CheckFresh
  <1>3. CASE CheckScanned
    <2>1. /\ lastScanned' \in {lastScanned, NoBlock}
          /\ roll' \in {roll, <<>>}
          /\ savedRoll' \in {savedRoll, <<>>}
          /\ main' \in {"run", "hackHeight"}
          /\ pc' \in {"iter", "off"}
          /\ UNCHANGED <<chain, scanned, filter, utxo, flag, local, left>>
      BY <1>3 DEF CheckScanned, CheckedLast
    <2>2. roll' \in Seq(RollItem) /\ savedRoll' \in Seq(RollItem)
      BY <2>1, EmptyTyped
    <2>3. Len(roll') <= RollbackSize /\ Len(savedRoll') <= RollbackSize
      BY <2>1, EmptyTyped
    <2>4. /\ main' \in MainPC /\ pc' \in ScannerPC /\ pc' \notin InFlight
          /\ lastScanned' \in Hash \cup {NoBlock}
      BY <2>1
    <2> QED
      BY <2>1, <2>2, <2>3, <2>4
  <1>4. CASE HackHeight
    <2>1. Minus(scanned, 1) \in Word
      BY MinusInWord DEF Minus, NoHeight, Word
    <2> QED
      BY <1>4, <2>1 DEF HackHeight, HackedHeight
  <1>5. CASE HackLast
    BY <1>5 DEF HackLast
  <1>6. CASE HackRoll
    BY <1>6 DEF HackRoll
  <1>7. CASE Dump
    BY <1>7 DEF Dump
  <1>8. CASE Exit
    BY <1>0, <1>8 DEF Exit
  <1>9. CASE Shutdown
    BY <1>9, FaultTyped DEF Shutdown, FaultKind
  <1>10. CASE Crash
    BY <1>0, <1>10, FaultTyped DEF Crash, FaultKind
  <1> QED
    BY <1>1, <1>2, <1>3, <1>4, <1>5, <1>6, <1>7, <1>8, <1>9, <1>10 DEF Main

(* Every height, counter and hash keeps its type in every reachable state, *)
(* the rollback sequence never exceeds btcRollbackSize and a block in      *)
(* flight never lies above the node's chain (whose height can be a Word).  *)
THEOREM TypeInvariant == Spec => []TInv
  <1>1. TInv /\ [Next]_vars => TInv'
    <2> SUFFICES ASSUME TInv, [Next]_vars PROVE TInv'
      OBVIOUS
    <2>1. CASE Scanner
      BY <2>1, LoopKeepsTInv, FetchKeepsTInv, AddKeepsTInv, RollKeepsTInv DEF Scanner
    <2>2. CASE ScannerFaults
      BY <2>2, LoopKeepsTInv, FetchKeepsTInv, RollKeepsTInv DEF ScannerFaults
    <2>3. CASE UNCHANGED vars
      BY <2>3 DEF vars, disk, local, TInv, TypeOK, FlightBelowTip, RollsBounded, Tip
    <2> QED
      BY <2>1, <2>2, <2>3, NodeKeepsTInv, MainKeepsTInv DEF Next
  <1> QED
    BY <1>1, InitTInv, PTL DEF Spec

(* The types of the scanner's state hold in every reachable state.         *)
THEOREM TypeCorrect == Spec => []TypeOK
  <1>1. TInv => TypeOK
    BY DEF TInv
  <1> QED
    BY <1>1, TypeInvariant, PTL
=============================================================================
