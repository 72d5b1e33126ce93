-------------------------- MODULE FilterScanProofs --------------------------
(***************************************************************************)
(* Theorems about FilterScan, for any number of indexers, any chain, any   *)
(* payments, any gap limit and any number of faults of each kind: the      *)
(* types, the heights, and that every payment is found.                    *)
(***************************************************************************)
EXTENDS FilterScan, FiniteSetTheorems, SequenceTheorems, WellFoundedInduction,
        TLAPS

USE BoundsAssumption, HistoriesAssumption, MixesAssumption, NobodyAssumption

-----------------------------------------------------------------------------
(* The invariant: the types, and the keys that are stored later on are key *)
(* stores like the one they replace.                                       *)
GoodKeys == {ks \in KeyStores : \A p \in Purpose : ks[p].used \subseteq KeysOf(ks[p])}
KeySets == [Purpose -> SUBSET Nat]

WorldTyped ==
    /\ top \in Height /\ pays \in Histories
    /\ served \in [Indexer -> Height] /\ told \in [Indexer -> Height]
    /\ node \in Height
RequestsTyped ==
    /\ inbox \in [Indexer -> Seq(Request)]
    /\ listening \in Indexer \cup {Nobody}
StorageTyped ==
    /\ chainHeight \in Height /\ scannedHeight \in Nat /\ restoring \in BOOLEAN
    /\ keys \in GoodKeys /\ found \in SUBSET Payment
DiskTyped == disk \in Storage /\ disk.keys \in GoodKeys
WorkflowTyped ==
    /\ stage \in {"check", "ask", "scan", "refresh", "store", "advance"}
    /\ batch \in SUBSET Height /\ next \in Nat
    /\ scanning \in KeySets
    /\ plan \in GoodKeys \cup {NoPlan}
    /\ stage = "store" => plan \in GoodKeys
GeneratorTyped == noticed \in BOOLEAN /\ genPlan \in GoodKeys \cup {NoPlan}
BoundsTyped == left \in [Event -> Nat] /\ happened \in SUBSET Event
HistoryTyped == start \in Height /\ tried \in KeySets /\ outrun \in BOOLEAN

Typed == /\ WorldTyped /\ RequestsTyped /\ StorageTyped /\ DiskTyped
         /\ WorkflowTyped /\ GeneratorTyped /\ BoundsTyped /\ HistoryTyped

-----------------------------------------------------------------------------
(* The helpers                                                             *)

LEMMA NoKeysTyped == NoKeys \in KeySets
  BY DEF NoKeys, KeySets

LEMMA HappensTyped ==
    ASSUME NEW e \in Event, BoundsTyped, Happens(e)
    PROVE  BoundsTyped'
  BY DEF BoundsTyped, Happens

LEMMA MayHappenTyped ==
    ASSUME NEW e \in Event, NEW really, BoundsTyped, MayHappen(e, really)
    PROVE  BoundsTyped'
  <1>1. CASE really
    BY <1>1, HappensTyped DEF MayHappen
  <1>2. CASE ~really
    BY <1>2 DEF MayHappen, bounds, BoundsTyped
  <1> QED
    BY <1>1, <1>2

(* A key store is good if each of its two halves is.                       *)
LEMMA GoodIs ==
    ASSUME NEW ks
    PROVE  ks \in GoodKeys <=>
             /\ ks = [p \in Purpose |-> ks[p]]
             /\ \A p \in Purpose : ks[p] \in KeyStore /\ ks[p].used \subseteq KeysOf(ks[p])
  BY DEF GoodKeys, KeyStores

LEMMA CountTyped ==
    ASSUME NEW s \in KeyStore
    PROVE  Cardinality(UnusedAtEnd(s)) \in Nat
  <1>1. s.count \in Nat
    BY DEF KeyStore
  <1>2. IsFiniteSet(KeysOf(s))
    BY <1>1, FS_Interval DEF KeysOf
  <1>3. UnusedAtEnd(s) \in SUBSET KeysOf(s)
    BY DEF UnusedAtEnd
  <1> QED
    BY <1>2, <1>3, FS_Subset, FS_CardinalityType

(* More keys: the ones that are marked are still keys of the store.        *)
LEMMA ExtendedGood ==
    ASSUME NEW s \in KeyStore, s.used \subseteq KeysOf(s), NEW n \in Int
    PROVE  /\ Extended(s, n) \in KeyStore
           /\ Extended(s, n).used \subseteq KeysOf(Extended(s, n))
  <1>1. s.count \in Nat /\ s.used \in SUBSET Nat
    BY DEF KeyStore
  <1>2. CASE n > 0
    <2> DEFINE t == [s EXCEPT !.count = @ + n]
    <2>1. Extended(s, n) = t
      BY <1>2 DEF Extended
    <2>2. t \in KeyStore /\ t.count = s.count + n /\ t.used = s.used
      BY <1>1, <1>2 DEF KeyStore
    <2>3. KeysOf(s) \subseteq KeysOf(t)
      BY <1>1, <1>2, <2>2 DEF KeysOf
    <2> QED
      BY <2>1, <2>2, <2>3
  <1>3. CASE ~(n > 0)
    BY <1>3 DEF Extended
  <1> QED
    BY <1>2, <1>3

LEMMA MarkedGood ==
    ASSUME NEW s \in KeyStore, s.used \subseteq KeysOf(s), NEW ids
    PROVE  /\ Marked(s, ids) \in KeyStore
           /\ Marked(s, ids).used \subseteq KeysOf(Marked(s, ids))
  <1>1. s.count \in Nat /\ s.used \in SUBSET Nat
    BY DEF KeyStore
  <1>2. KeysOf(s) \subseteq Nat
    BY <1>1 DEF KeysOf
  <1>3. /\ Marked(s, ids) \in KeyStore /\ Marked(s, ids).count = s.count
        /\ Marked(s, ids).used = s.used \cup (ids \cap KeysOf(s))
    BY <1>1, <1>2 DEF Marked, KeyStore
  <1> QED
    BY <1>3 DEF KeysOf

LEMMA GoodParts ==
    ASSUME StorageTyped, NEW p \in Purpose
    PROVE  /\ keys[p] \in KeyStore /\ keys[p].used \subseteq KeysOf(keys[p])
           /\ KeysOf(keys[p]) \subseteq Nat
  <1>1. keys[p] \in KeyStore /\ keys[p].used \subseteq KeysOf(keys[p])
    BY DEF StorageTyped, GoodKeys, KeyStores
  <1>2. keys[p].count \in Nat
    BY <1>1 DEF KeyStore
  <1> QED
    BY <1>1, <1>2 DEF KeysOf

LEMMA RefreshedGood == ASSUME StorageTyped PROVE Refreshed \in GoodKeys
  <1>1. ASSUME NEW p \in Purpose
        PROVE  /\ Refreshed[p] \in KeyStore
               /\ Refreshed[p].used \subseteq KeysOf(Refreshed[p])
    <2>1. GapMissing(keys[p]) \in Int
      <3>1. keys[p].count \in Nat /\ Cardinality(UnusedAtEnd(keys[p])) \in Nat
        BY GoodParts, CountTyped DEF KeyStore
      <3> QED
        BY <3>1 DEF GapMissing
    <2>2. Refreshed[p] = Extended(keys[p], GapMissing(keys[p]))
      BY DEF Refreshed
    <2> QED
      BY <2>1, <2>2, GoodParts, ExtendedGood
  <1>2. Refreshed = [p \in Purpose |-> Refreshed[p]]
    BY DEF Refreshed
  <1> QED
    BY <1>1, <1>2, GoodIs

LEMMA GeneratedGood == ASSUME StorageTyped PROVE Generated \in GoodKeys
  <1>1. ASSUME NEW p \in Purpose
        PROVE  /\ Generated[p] \in KeyStore
               /\ Generated[p].used \subseteq KeysOf(Generated[p])
    <2>1. SpareMissing(p, keys[p]) \in Int
      <3>1. Cardinality(UnusedAtEnd(keys[p])) \in Nat
        BY GoodParts, CountTyped
      <3> QED
        BY <3>1 DEF SpareMissing
    <2>2. Generated[p] = Extended(keys[p], SpareMissing(p, keys[p]))
      BY DEF Generated
    <2> QED
      BY <2>1, <2>2, GoodParts, ExtendedGood
  <1>2. Generated = [p \in Purpose |-> Generated[p]]
    BY DEF Generated
  <1> QED
    BY <1>1, <1>2, GoodIs

LEMMA SavedTyped ==
    ASSUME StorageTyped
    PROVE  Saved \in Storage /\ Saved.keys \in GoodKeys
  BY DEF StorageTyped, Saved, Storage, GoodKeys

(* The slice of an indexer: blocks that exist, from the one asked for on.  *)
LEMMA SliceTyped ==
    ASSUME NEW i \in Indexer, NEW r \in Request, WorldTyped
    PROVE  /\ Slice(i, r) \in SUBSET Height
           /\ IsFiniteSet(Slice(i, r))
           /\ Slice(i, r) \in SUBSET (r.from..served[i])
  <1>1. r.from \in Nat /\ r.amount \in Nat /\ served[i] \in 0..Top
    BY DEF WorldTyped, Height, Request
  <1>2. Slice(i, r) \in SUBSET (r.from..served[i])
    BY <1>1 DEF Slice
  <1>3. IsFiniteSet(r.from..served[i])
    <2>1. r.from \in Int /\ served[i] \in Int
      BY <1>1
    <2> QED
      BY ONLY <2>1, FS_Interval
  <1>4. (r.from..served[i]) \subseteq Height
    BY <1>1 DEF Height
  <1> QED
    BY <1>2, <1>3, <1>4, FS_Subset

LEMMA NextTyped ==
    ASSUME StorageTyped, NEW r, NEW blocks, IsFiniteSet(blocks), NEW bad \in SUBSET blocks
    PROVE  /\ NextHeight(r, blocks, bad) \in Nat
           /\ NextHeight(r, blocks, bad) <= scannedHeight + Cardinality(blocks)
  <1>1. blocks \ bad \in SUBSET blocks
    OBVIOUS
  <1>2. /\ Cardinality(blocks) \in Nat /\ Cardinality(blocks \ bad) \in Nat
        /\ Cardinality(blocks \ bad) <= Cardinality(blocks)
    BY <1>1, FS_Subset, FS_CardinalityType
  <1>3. scannedHeight \in Nat
    BY DEF StorageTyped
  <1>4. CASE restoring
    BY <1>2, <1>3, <1>4 DEF NextHeight
  <1>5. CASE ~restoring
    BY <1>2, <1>3, <1>5 DEF NextHeight
  <1> QED
    BY <1>4, <1>5

-----------------------------------------------------------------------------
(* Each action keeps the types.                                            *)

LEMMA TypedInit == Init => Typed
  <1> SUFFICES ASSUME Init PROVE Typed
    OBVIOUS
  <1>1. WorldTyped /\ RequestsTyped
    BY DEF Init, WorldTyped, RequestsTyped, Height
  <1>2. keys \in GoodKeys
    <2>1. keys = [p \in Purpose |-> keys[p]]
      BY DEF Init
    <2>2. ASSUME NEW p \in Purpose
          PROVE  keys[p] \in KeyStore /\ keys[p].used \subseteq KeysOf(keys[p])
      BY DEF Init, KeyStore
    <2> QED
      BY <2>1, <2>2, GoodIs
  <1>3. StorageTyped
    BY <1>2 DEF Init, StorageTyped, Height, Payment
  <1>4. DiskTyped
    BY <1>3, SavedTyped DEF Init, DiskTyped
  <1>5. WorkflowTyped
    BY NoKeysTyped DEF Init, WorkflowTyped
  <1>6. GeneratorTyped /\ BoundsTyped
    BY DEF Init, GeneratorTyped, BoundsTyped
  <1>7. HistoryTyped
    <2>1. start = 0 /\ tried = NoKeys /\ outrun = FALSE
      BY DEF Init
    <2>2. 0 \in Height
      BY DEF Height
    <2> QED
      BY <2>1, <2>2, NoKeysTyped DEF HistoryTyped
  <1> QED
    BY <1>1, <1>3, <1>4, <1>5, <1>6, <1>7 DEF Typed

LEMMA TypedOutside == ASSUME Typed, Outside PROVE Typed'
  <1> USE DEF Typed
  <1>1. CASE ChainGrows
    <2>1. WorldTyped'
      BY <1>1 DEF ChainGrows, WorldTyped, Height, indexers
    <2> QED
      BY <1>1, <2>1 DEF ChainGrows, RequestsTyped, StorageTyped, DiskTyped, WorkflowTyped,
         GeneratorTyped, BoundsTyped, HistoryTyped, storage, workflow, generator, bounds,
         history
  <1>2. CASE NodeHeight
    <2>1. PICK h \in (node + 1)..top : NodeHeight!1!(h)
      BY <1>2 DEF NodeHeight
    <2>2. h \in Height /\ h \in Nat
      BY <2>1 DEF WorldTyped, Height
    <2>3. WorldTyped'
      BY <1>2, <2>1, <2>2 DEF NodeHeight, WorldTyped, chain, indexers
    <2>4. RequestsTyped' /\ DiskTyped' /\ GeneratorTyped' /\ BoundsTyped'
      BY <1>2 DEF NodeHeight, RequestsTyped, DiskTyped, GeneratorTyped, BoundsTyped, bounds
    <2>5. StorageTyped'
      BY <1>2, <2>1, <2>2 DEF NodeHeight, StorageTyped
    <2>6. WorkflowTyped'
      BY <1>2, <2>1 DEF NodeHeight, WorkflowTyped
    <2>7. HistoryTyped'
      BY <1>2, <2>1, <2>2 DEF NodeHeight, HistoryTyped
    <2> QED
      BY <2>3, <2>4, <2>5, <2>6, <2>7
  <1>3. ASSUME NEW i \in Indexer, IndexerGrows(i) PROVE Typed'
    <2>1. served[i] + 1 \in Height
      BY <1>3 DEF IndexerGrows, WorldTyped, Height
    <2>2. WorldTyped'
      BY <1>3, <2>1 DEF IndexerGrows, WorldTyped, chain
    <2>3. RequestsTyped'
      BY <1>3 DEF IndexerGrows, RequestsTyped
    <2> QED
      BY <1>3, <2>2, <2>3 DEF IndexerGrows, StorageTyped, DiskTyped, WorkflowTyped,
         GeneratorTyped, BoundsTyped, HistoryTyped, storage, workflow, generator, bounds,
         history
  <1> QED
    BY <1>1, <1>2, <1>3 DEF Outside

LEMMA AmountTyped == ASSUME Typed, Behind PROVE Amount \in Nat
  <1>1. CurrentHeight \in Nat
    BY DEF Typed, WorldTyped, StorageTyped, CurrentHeight, Height
  <1> QED
    BY <1>1 DEF Typed, StorageTyped, Amount, Behind

LEMMA TypedRequests == ASSUME Typed, Requests PROVE Typed'
  <1> USE DEF Typed
  <1>1. ASSUME NEW i \in Indexer, Ask(i) PROVE Typed'
    <2>1. [from |-> scannedHeight, amount |-> Amount] \in Request
      BY <1>1, AmountTyped DEF Ask, StorageTyped, Request
    <2>2. Append(inbox[i], [from |-> scannedHeight, amount |-> Amount]) \in Seq(Request)
      BY <2>1 DEF RequestsTyped
    <2>3. RequestsTyped'
      BY <1>1, <2>2 DEF Ask, RequestsTyped
    <2>4. BoundsTyped'
      BY <1>1, MayHappenTyped DEF Ask, Event
    <2> QED
      BY <1>1, <2>3, <2>4 DEF Ask, WorldTyped, StorageTyped, DiskTyped, WorkflowTyped,
         GeneratorTyped, HistoryTyped, chain, indexers, storage, workflow, generator, history
  <1>2. ASSUME NEW i \in Indexer, Answer(i) PROVE Typed'
    <2> DEFINE r == Head(inbox[i])
               blocks == Slice(i, r)
    <2>1. r \in Request /\ Tail(inbox[i]) \in Seq(Request)
      BY <1>2 DEF Answer, RequestsTyped
    <2>2. PICK bad \in SUBSET blocks :
             /\ MayHappen("garble", bad # {})
             /\ batch' = blocks \ bad
             /\ next' = NextHeight(r, blocks, bad)
      BY <1>2 DEF Answer
    <2>3. blocks \in SUBSET Height /\ IsFiniteSet(blocks)
      BY <2>1, SliceTyped
    <2>4. BoundsTyped'
      BY <2>2, MayHappenTyped DEF Event
    <2>5. RequestsTyped'
      BY <1>2, <2>1 DEF Answer, RequestsTyped
    <2>6. next' \in Nat /\ batch' \in SUBSET Height
      BY <2>2, <2>3, NextTyped
    <2>7. scanning' \in KeySets
      BY <1>2, GoodParts DEF Answer, KeySets
    <2>8. WorkflowTyped'
      BY <1>2, <2>6, <2>7 DEF Answer, WorkflowTyped
    <2>9. HistoryTyped'
      BY <1>2, NoKeysTyped DEF Answer, HistoryTyped
    <2> QED
      BY <1>2, <2>4, <2>5, <2>8, <2>9 DEF Answer, WorldTyped, StorageTyped, DiskTyped,
         GeneratorTyped, chain, indexers, storage, generator
  <1>3. ASSUME NEW i \in Indexer, AnswerDropped(i) PROVE Typed'
    <2>1. Tail(inbox[i]) \in Seq(Request)
      BY <1>3 DEF AnswerDropped, RequestsTyped
    <2>2. RequestsTyped'
      BY <1>3, <2>1 DEF AnswerDropped, RequestsTyped
    <2> QED
      BY <1>3, <2>2 DEF AnswerDropped, WorldTyped, StorageTyped, DiskTyped, WorkflowTyped,
         GeneratorTyped, BoundsTyped, HistoryTyped, chain, indexers, storage, workflow,
         generator, bounds, history
  <1> QED
    BY <1>1, <1>2, <1>3 DEF Requests

LEMMA ScanBlocksTyped == ASSUME Typed, ScanBlocks PROVE StorageTyped' /\ BoundsTyped'
  <1> USE DEF Typed
  <1>1. PICK lost \in SUBSET Matching : ScanBlocks!2!(lost)
    BY DEF ScanBlocks
  <1> DEFINE got == Matching \ lost
             scanned == UNION {scanning[p] : p \in Purpose}
             paid(p) == UNION {Paid(b, p) : b \in got}
  <1>2. BoundsTyped'
    BY <1>1, MayHappenTyped DEF Event
  <1>3. found' \in SUBSET Payment
    <2>1. got \subseteq Height
      BY DEF Matching, WorkflowTyped
    <2>2. scanned \subseteq Nat
      BY DEF WorkflowTyped, KeySets
    <2>3. got \X Purpose \X scanned \subseteq Payment
      BY <2>1, <2>2 DEF Payment
    <2>4. found' \subseteq found \cup (got \X Purpose \X scanned)
      BY <1>1
    <2> QED
      BY <2>3, <2>4 DEF StorageTyped
  <1>4. keys' \in GoodKeys
    <2>1. keys' = [p \in Purpose |-> Marked(keys[p], paid(p))]
      BY <1>1
    <2>2. ASSUME NEW p \in Purpose
          PROVE  keys'[p] \in KeyStore /\ keys'[p].used \subseteq KeysOf(keys'[p])
      <3> HIDE DEF paid
      <3>1. keys'[p] = Marked(keys[p], paid(p))
        BY <2>1
      <3> QED
        BY <3>1, GoodParts, MarkedGood
    <2>3. keys' = [p \in Purpose |-> keys'[p]]
      BY <2>1
    <2> QED
      BY <2>2, <2>3, GoodIs
  <1> QED
    BY <1>2, <1>3, <1>4 DEF ScanBlocks, StorageTyped

LEMMA TypedScan == ASSUME Typed, Scan PROVE Typed'
  <1> USE DEF Typed
  <1>1. CASE CheckHeight
    BY <1>1 DEF CheckHeight, WorldTyped, RequestsTyped, StorageTyped, DiskTyped,
       WorkflowTyped, GeneratorTyped, BoundsTyped, HistoryTyped, chain, indexers, storage,
       generator, bounds, history
  <1>2. CASE ScanBlocks
    <2>1. StorageTyped' /\ BoundsTyped'
      BY <1>2, ScanBlocksTyped
    <2>2. HistoryTyped'
      <3>1. \A p \in Purpose : tried[p] \cup scanning[p] \in SUBSET Nat
        BY DEF HistoryTyped, WorkflowTyped, KeySets
      <3> QED
        BY <1>2, <3>1 DEF ScanBlocks, HistoryTyped, KeySets
    <2>3. GeneratorTyped'
      BY <1>2 DEF ScanBlocks, GeneratorTyped
    <2>4. WorkflowTyped'
      BY <1>2 DEF ScanBlocks, WorkflowTyped
    <2> QED
      BY <1>2, <2>1, <2>2, <2>3, <2>4 DEF ScanBlocks, WorldTyped, RequestsTyped, DiskTyped,
         chain, indexers
  <1>3. CASE Refresh
    <2>1. Refreshed \in GoodKeys
      BY RefreshedGood
    <2>2. Extra \in KeySets
      <3>1. ASSUME NEW p \in Purpose PROVE KeysOf(Refreshed[p]) \subseteq Nat
        <4>1. Refreshed[p].count \in Nat
          BY <2>1, GoodIs DEF KeyStore
        <4> QED
          BY <4>1 DEF KeysOf
      <3> QED
        BY <3>1 DEF Extra, KeySets
    <2>3. WorkflowTyped'
      BY <1>3, <2>1, <2>2 DEF Refresh, WorkflowTyped
    <2>4. HistoryTyped'
      BY <1>3 DEF Refresh, HistoryTyped
    <2> QED
      BY <1>3, <2>3, <2>4 DEF Refresh, WorldTyped, RequestsTyped, StorageTyped, DiskTyped,
         GeneratorTyped, BoundsTyped, chain, indexers, storage, generator, bounds
  <1>4. CASE StoreRefreshed
    <2>1. StorageTyped'
      BY <1>4 DEF StoreRefreshed, StorageTyped, WorkflowTyped
    <2>2. WorkflowTyped'
      BY <1>4 DEF StoreRefreshed, Rescan, WorkflowTyped
    <2>3. GeneratorTyped'
      BY <1>4 DEF StoreRefreshed, GeneratorTyped
    <2> QED
      BY <1>4, <2>1, <2>2, <2>3 DEF StoreRefreshed, WorldTyped, RequestsTyped, DiskTyped,
         BoundsTyped, HistoryTyped, chain, indexers, bounds, history
  <1>5. CASE Advance
    <2>1. StorageTyped'
      BY <1>5 DEF Advance, StorageTyped, WorkflowTyped
    <2>2. WorkflowTyped'
      BY <1>5, NoKeysTyped DEF Advance, WorkflowTyped
    <2>3. GeneratorTyped' /\ HistoryTyped'
      BY <1>5, NoKeysTyped DEF Advance, GeneratorTyped, HistoryTyped
    <2> QED
      BY <1>5, <2>1, <2>2, <2>3 DEF Advance, WorldTyped, RequestsTyped, DiskTyped,
         BoundsTyped, chain, indexers, bounds
  <1>6. CASE RestoreDone
    <2>1. StorageTyped' /\ RequestsTyped' /\ GeneratorTyped'
      BY <1>6 DEF RestoreDone, StorageTyped, RequestsTyped, GeneratorTyped
    <2> QED
      BY <1>6, <2>1 DEF RestoreDone, WorldTyped, DiskTyped, WorkflowTyped, BoundsTyped,
         HistoryTyped, chain, indexers, workflow, bounds, history
  <1> QED
    BY <1>1, <1>2, <1>3, <1>4, <1>5, <1>6 DEF Scan

LEMMA TypedGenerator == ASSUME Typed, Generator PROVE Typed'
  <1> USE DEF Typed
  <1>1. CASE Generate
    <2>1. GeneratorTyped' /\ HistoryTyped'
      BY <1>1, GeneratedGood DEF Generate, GeneratorTyped, HistoryTyped
    <2> QED
      BY <1>1, <2>1 DEF Generate, WorldTyped, RequestsTyped, StorageTyped, DiskTyped,
         WorkflowTyped, BoundsTyped, chain, indexers, storage, workflow, bounds
  <1>2. CASE StoreGenerated
    <2>1. StorageTyped' /\ GeneratorTyped' /\ HistoryTyped'
      BY <1>2 DEF StoreGenerated, StorageTyped, GeneratorTyped, HistoryTyped
    <2> QED
      BY <1>2, <2>1 DEF StoreGenerated, WorldTyped, RequestsTyped, DiskTyped,
         WorkflowTyped, BoundsTyped, chain, indexers, workflow, bounds
  <1> QED
    BY <1>1, <1>2 DEF Generator

LEMMA TypedSave == ASSUME Typed, Save PROVE Typed'
  <1>1. DiskTyped'
    BY SavedTyped DEF Typed, Save, DiskTyped
  <1>2. BoundsTyped'
    BY HappensTyped DEF Typed, Save, Event
  <1> QED
    BY <1>1, <1>2 DEF Save, Typed, WorldTyped, RequestsTyped, StorageTyped,
       WorkflowTyped, GeneratorTyped, HistoryTyped, chain, indexers, storage, workflow,
       generator, history

LEMMA TypedFaults == ASSUME Typed, Faults PROVE Typed'
  <1> USE DEF Typed
  <1>1. CASE Restart
    <2>1. BoundsTyped'
      BY <1>1, HappensTyped DEF Restart, Event
    <2>2. StorageTyped'
      BY <1>1 DEF Restart, StorageTyped, DiskTyped, Storage
    <2>3. WorldTyped'
      BY <1>1 DEF Restart, WorldTyped, chain, Height
    <2>4. RequestsTyped'
      BY <1>1 DEF Restart, RequestsTyped
    <2>5. WorkflowTyped' /\ HistoryTyped'
      BY <1>1, NoKeysTyped DEF Restart, WorkflowTyped, HistoryTyped
    <2>6. DiskTyped' /\ GeneratorTyped'
      BY <1>1 DEF Restart, DiskTyped, GeneratorTyped
    <2> QED
      BY <2>1, <2>2, <2>3, <2>4, <2>5, <2>6
  <1>2. ASSUME NEW i \in Indexer, OtherMessage(i) PROVE Typed'
    <2>1. RequestsTyped'
      BY <1>2 DEF OtherMessage, RequestsTyped
    <2>2. BoundsTyped'
      BY <1>2, HappensTyped DEF OtherMessage, Event
    <2> QED
      BY <1>2, <2>1, <2>2 DEF OtherMessage, WorldTyped, StorageTyped, DiskTyped,
         WorkflowTyped, GeneratorTyped, HistoryTyped, chain, indexers, storage, workflow,
         generator, history
  <1>3. ASSUME NEW i \in Indexer, Reconnect(i) PROVE Typed'
    <2>1. RequestsTyped'
      BY <1>3 DEF Reconnect, RequestsTyped
    <2>2. BoundsTyped'
      BY <1>3, HappensTyped DEF Reconnect, Event
    <2>3. WorldTyped'
      BY <1>3 DEF Reconnect, WorldTyped, chain
    <2> QED
      BY <1>3, <2>1, <2>2, <2>3 DEF Reconnect, StorageTyped, DiskTyped, WorkflowTyped,
         GeneratorTyped, HistoryTyped, storage, workflow, generator, history
  <1> QED
    BY <1>1, <1>2, <1>3 DEF Faults

LEMMA TypedStep == Typed /\ [Next]_vars => Typed'
  <1> SUFFICES ASSUME Typed, [Next]_vars PROVE Typed'
    OBVIOUS
  <1>1. CASE Next
    BY <1>1, TypedOutside, TypedRequests, TypedScan, TypedGenerator, TypedSave, TypedFaults
    DEF Next
  <1>2. CASE UNCHANGED vars
    BY <1>2 DEF vars, Typed, WorldTyped, RequestsTyped, StorageTyped, DiskTyped,
       WorkflowTyped, GeneratorTyped, BoundsTyped, HistoryTyped, chain, indexers, storage,
       workflow, generator, bounds, history
  <1> QED
    BY <1>1, <1>2

LEMMA TypedIsTypeOK == Typed => TypeOK
  <1> SUFFICES ASSUME Typed PROVE TypeOK
    OBVIOUS
  <1>1. Saved \in Storage
    BY SavedTyped DEF Typed
  <1>2. \A p \in Purpose : keys[p].used \subseteq KeysOf(keys[p])
    BY GoodParts DEF Typed
  <1>3. plan \in KeyStores \cup {NoPlan} /\ genPlan \in KeyStores \cup {NoPlan}
    BY DEF Typed, WorkflowTyped, GeneratorTyped, GoodKeys
  <1> QED
    BY <1>1, <1>2, <1>3 DEF Typed, TypeOK, WorldTyped, RequestsTyped, DiskTyped,
       WorkflowTyped, GeneratorTyped, BoundsTyped, HistoryTyped, KeySets

(* The types, and every key that is marked as used is a key of the wallet, *)
(* whichever of the two threads that derive keys has stored them last.     *)
THEOREM ScanTyped == Spec => []TypeOK
  <1>1. Spec => []Typed
    BY TypedInit, TypedStep, PTL DEF Spec
  <1> QED
    BY <1>1, TypedIsTypeOK, PTL

-----------------------------------------------------------------------------
(* The scanned height.  When no request is sent while another one is       *)
(* pending, the one that is pending was made at the scanned height: the    *)
(* scanned height changes only in a batch, and a batch begins with the     *)
(* only answer there is.                                                   *)
ServedExists == \A i \in Indexer : served[i] <= top
HeightsExist == scannedHeight <= top + 1 /\ disk.scannedHeight <= top + 1 /\ next <= top + 1
Current(i) == /\ stage = "ask"
              /\ Len(inbox[i]) = 1
              /\ Head(inbox[i]).from = scannedHeight
OnlyRequest ==
    /\ \A i \in Indexer : inbox[i] # <<>> => Current(i)
    /\ \A i, j \in Indexer : inbox[i] # <<>> /\ inbox[j] # <<>> => i = j
Within == ServedExists /\ ("again" \notin happened => HeightsExist /\ OnlyRequest)

LEMMA TailOfOne ==
    ASSUME NEW S, NEW s \in Seq(S), Len(s) = 1
    PROVE  Tail(s) = <<>>
  <1>1. s # <<>>
    OBVIOUS
  <1>2. Tail(s) \in Seq(S) /\ Len(Tail(s)) = 0
    BY <1>1, HeadTailProperties
  <1> QED
    BY <1>2, EmptySeq

LEMMA WithinInit == Init => Within
  BY DEF Init, Within, ServedExists, HeightsExist, OnlyRequest, Saved

LEMMA HappensGrows ==
    ASSUME NEW e, Happens(e) PROVE happened \subseteq happened'
  BY DEF Happens

LEMMA MayHappenGrows ==
    ASSUME NEW e, NEW really, MayHappen(e, really) PROVE happened \subseteq happened'
  BY HappensGrows DEF MayHappen, bounds

(* Steps that touch none of this.                                          *)
LEMMA WithinSame ==
    ASSUME Within, happened \subseteq happened',
           UNCHANGED <<served, top, inbox, stage, scannedHeight, next, disk>>
    PROVE  Within'
  BY DEF Within, ServedExists, HeightsExist, OnlyRequest, Current

(* Steps of the workflow outside the stage in which requests are made.     *)
LEMMA WithinBusy ==
    ASSUME Within, happened \subseteq happened', stage # "ask",
           UNCHANGED <<served, top, inbox>>,
           "again" \notin happened /\ HeightsExist => HeightsExist'
    PROVE  Within'
  BY DEF Within, ServedExists, OnlyRequest, Current

LEMMA WithinOutside == ASSUME Typed, Within, Outside PROVE Within'
  <1>1. CASE ChainGrows
    <2>1. /\ top' = top + 1 /\ top \in Nat
          /\ UNCHANGED <<served, inbox, stage, scannedHeight, next, disk, happened>>
      BY <1>1 DEF ChainGrows, indexers, storage, workflow, bounds, Typed, WorldTyped, Height
    <2>2. ServedExists'
      BY <2>1 DEF Within, ServedExists, Typed, WorldTyped, Height
    <2>3. HeightsExist => HeightsExist'
      <3>1. scannedHeight \in Nat /\ disk.scannedHeight \in Nat /\ next \in Nat
        BY DEF Typed, StorageTyped, DiskTyped, WorkflowTyped, Storage
      <3> QED
        BY <2>1, <3>1 DEF HeightsExist
    <2>4. OnlyRequest => OnlyRequest'
      BY <2>1 DEF OnlyRequest, Current
    <2> QED
      BY <2>1, <2>2, <2>3, <2>4 DEF Within
  <1>2. CASE NodeHeight
    <2>1. PICK h \in (node + 1)..top : NodeHeight!1!(h)
      BY <1>2 DEF NodeHeight
    <2>2. UNCHANGED <<served, top, inbox, next, disk, happened>>
      BY <1>2 DEF NodeHeight, chain, indexers, bounds
    <2>3. CASE stage = "check" /\ ~restoring /\ scannedHeight = 0
      <3>1. scannedHeight' = h /\ h <= top /\ top \in Nat /\ h \in Nat
        BY <2>1, <2>3 DEF Typed, WorldTyped, Height
      <3>2. HeightsExist => HeightsExist'
        BY <2>2, <3>1 DEF HeightsExist
      <3> QED
        BY <2>2, <2>3, <3>2, WithinBusy
    <2>4. CASE ~(stage = "check" /\ ~restoring /\ scannedHeight = 0)
      <3>1. UNCHANGED <<scannedHeight, stage>>
        BY <2>1, <2>4
      <3> QED
        BY <2>2, <3>1, WithinSame
    <2> QED
      BY <2>3, <2>4
  <1>3. ASSUME NEW i \in Indexer, IndexerGrows(i) PROVE Within'
    <2>1. /\ served' = [served EXCEPT ![i] = @ + 1] /\ served[i] < top
          /\ UNCHANGED <<top, inbox, stage, scannedHeight, next, disk, happened>>
      BY <1>3 DEF IndexerGrows, chain, storage, workflow, bounds
    <2>2. ServedExists'
      BY <2>1 DEF Within, ServedExists, Typed, WorldTyped, Height
    <2>3. HeightsExist' <=> HeightsExist
      BY <2>1 DEF HeightsExist
    <2>4. OnlyRequest' <=> OnlyRequest
      BY <2>1 DEF OnlyRequest, Current
    <2> QED
      BY <2>1, <2>2, <2>3, <2>4 DEF Within
  <1> QED
    BY <1>1, <1>2, <1>3 DEF Outside

(* The one request there is was made at the scanned height, and the slice  *)
(* of the indexer ends within the chain.                                   *)
LEMMA SliceEnds ==
    ASSUME Typed, ServedExists, NEW i \in Indexer, NEW r \in Request,
           r.from <= top + 1
    PROVE  r.from + Cardinality(Slice(i, r)) <= top + 1
  <1>1. /\ r.from \in Int /\ served[i] \in Int /\ top \in Int
        /\ served[i] <= top
    BY DEF Typed, WorldTyped, Request, Height, ServedExists
  <1>2. /\ IsFiniteSet(r.from..served[i])
        /\ Cardinality(r.from..served[i]) =
             IF r.from > served[i] THEN 0 ELSE served[i] - r.from + 1
    BY ONLY <1>1, FS_Interval
  <1>3. Slice(i, r) \in SUBSET (r.from..served[i])
    BY SliceTyped DEF Typed
  <1>4. /\ Cardinality(Slice(i, r)) <= Cardinality(r.from..served[i])
        /\ Cardinality(Slice(i, r)) \in Nat
    BY <1>2, <1>3, FS_Subset, FS_CardinalityType
  <1> QED
    BY <1>1, <1>2, <1>4

LEMMA WithinRequests == ASSUME Typed, Within, Requests PROVE Within'
  <1>1. ASSUME NEW i \in Indexer, Ask(i) PROVE Within'
    <2> DEFINE r == [from |-> scannedHeight, amount |-> Amount]
    <2>1. /\ inbox' = [inbox EXCEPT ![i] = Append(@, r)]
          /\ MayHappen("again", \E j \in Indexer : inbox[j] # <<>>)
          /\ stage = "ask"
          /\ UNCHANGED <<served, top, stage, scannedHeight, next, disk>>
      BY <1>1 DEF Ask, chain, indexers, storage, workflow
    <2>2. happened \subseteq happened'
      BY <2>1, MayHappenGrows
    <2>3. ServedExists' /\ (HeightsExist => HeightsExist')
      BY <2>1 DEF Within, ServedExists, HeightsExist
    <2>4. ASSUME "again" \notin happened' PROVE OnlyRequest'
      <3>1. \A j \in Indexer : inbox[j] = <<>>
        BY <2>1, <2>4 DEF MayHappen, Happens
      <3>2. inbox'[i] = Append(<<>>, r) /\ \A j \in Indexer \ {i} : inbox'[j] = <<>>
        BY <2>1, <3>1 DEF Typed, RequestsTyped
      <3>3. Append(<<>>, r) = <<r>>
        OBVIOUS
      <3>4. Len(inbox'[i]) = 1 /\ Head(inbox'[i]).from = scannedHeight
        BY <3>2, <3>3
      <3> QED
        BY <2>1, <3>2, <3>4 DEF OnlyRequest, Current
    <2> QED
      BY <2>2, <2>3, <2>4 DEF Within
  <1>2. ASSUME NEW i \in Indexer, Answer(i) PROVE Within'
    <2> DEFINE r == Head(inbox[i])
               blocks == Slice(i, r)
    <2>1. r \in Request
      BY <1>2 DEF Answer, Typed, RequestsTyped
    <2>2. PICK bad \in SUBSET blocks :
             /\ MayHappen("garble", bad # {})
             /\ next' = NextHeight(r, blocks, bad)
      BY <1>2 DEF Answer
    <2>3. /\ inbox' = [inbox EXCEPT ![i] = Tail(@)] /\ inbox[i] # <<>>
          /\ UNCHANGED <<served, top, scannedHeight, disk>>
      BY <1>2 DEF Answer, chain, indexers, storage
    <2>4. happened \subseteq happened'
      BY <2>2, MayHappenGrows
    <2>5. ServedExists'
      BY <2>3 DEF Within, ServedExists
    <2>6. ASSUME "again" \notin happened PROVE HeightsExist' /\ OnlyRequest'
      <3>1. HeightsExist /\ OnlyRequest
        BY <2>6 DEF Within
      <3>2. r.from = scannedHeight /\ Len(inbox[i]) = 1
            /\ \A j \in Indexer \ {i} : inbox[j] = <<>>
        BY <2>3, <3>1 DEF OnlyRequest, Current
      <3>3. inbox'[i] = <<>>
        <4>1. inbox[i] \in Seq(Request)
          BY DEF Typed, RequestsTyped
        <4>2. Tail(inbox[i]) = <<>>
          BY <3>2, <4>1, TailOfOne
        <4> QED
          BY <2>3, <4>2 DEF Typed, RequestsTyped
      <3>4. \A j \in Indexer : inbox'[j] = <<>>
        BY <2>3, <3>2, <3>3 DEF Typed, RequestsTyped
      <3>5. next' <= top + 1
        <4>1. scannedHeight <= top + 1
          BY <3>1 DEF HeightsExist
        <4>2. scannedHeight + Cardinality(blocks) <= top + 1
          BY <2>1, <3>2, <4>1, SliceEnds DEF Within
        <4>3. IsFiniteSet(blocks)
          BY <2>1, SliceTyped DEF Typed
        <4>4. next' \in Nat /\ next' <= scannedHeight + Cardinality(blocks)
          BY <2>2, <4>3, NextTyped DEF Typed
        <4>5. Cardinality(blocks) \in Nat /\ scannedHeight \in Nat /\ top \in Nat
          BY <4>3, FS_CardinalityType DEF Typed, StorageTyped, WorldTyped, Height
        <4> HIDE DEF blocks
        <4> QED
          BY <4>2, <4>4, <4>5
      <3>6. HeightsExist'
        BY <2>3, <3>1, <3>5 DEF HeightsExist
      <3> QED
        BY <3>4, <3>6 DEF OnlyRequest
    <2> QED
      BY <2>4, <2>5, <2>6 DEF Within
  <1>3. ASSUME NEW i \in Indexer, AnswerDropped(i) PROVE Within'
    <2>1. /\ inbox' = [inbox EXCEPT ![i] = Tail(@)] /\ inbox[i] # <<>>
          /\ UNCHANGED <<served, top, stage, scannedHeight, next, disk, happened>>
      BY <1>3 DEF AnswerDropped, chain, indexers, storage, workflow, bounds
    <2>2. ServedExists' /\ (HeightsExist => HeightsExist')
      BY <2>1 DEF Within, ServedExists, HeightsExist
    <2>3. ASSUME OnlyRequest PROVE OnlyRequest'
      <3>1. Len(inbox[i]) = 1 /\ \A j \in Indexer \ {i} : inbox[j] = <<>>
        BY <2>1, <2>3 DEF OnlyRequest, Current
      <3>2. inbox[i] \in Seq(Request)
        BY DEF Typed, RequestsTyped
      <3>3. Tail(inbox[i]) = <<>>
        BY <3>1, <3>2, TailOfOne
      <3>4. \A j \in Indexer : inbox'[j] = <<>>
        BY <2>1, <3>1, <3>3 DEF Typed, RequestsTyped
      <3> QED
        BY <3>4 DEF OnlyRequest
    <2> QED
      BY <2>1, <2>2, <2>3 DEF Within
  <1> QED
    BY <1>1, <1>2, <1>3 DEF Requests

LEMMA WithinScan == ASSUME Typed, Within, Scan PROVE Within'
  <1>1. CASE CheckHeight
    <2>1. stage # "ask" /\ UNCHANGED <<served, top, inbox, scannedHeight, next, disk, happened>>
      BY <1>1 DEF CheckHeight, chain, indexers, storage, bounds
    <2> QED
      BY <2>1, WithinBusy DEF HeightsExist
  <1>2. CASE ScanBlocks
    <2>1. stage # "ask" /\ UNCHANGED <<served, top, inbox, scannedHeight, next, disk>>
      BY <1>2 DEF ScanBlocks, chain, indexers
    <2>2. happened \subseteq happened'
      BY <1>2, MayHappenGrows DEF ScanBlocks
    <2> QED
      BY <2>1, <2>2, WithinBusy DEF HeightsExist
  <1>3. CASE Refresh
    <2>1. stage # "ask" /\ UNCHANGED <<served, top, inbox, scannedHeight, next, disk, happened>>
      BY <1>3 DEF Refresh, chain, indexers, storage, bounds
    <2> QED
      BY <2>1, WithinBusy DEF HeightsExist
  <1>4. CASE StoreRefreshed
    <2>1. stage # "ask" /\ UNCHANGED <<served, top, inbox, scannedHeight, next, disk, happened>>
      BY <1>4 DEF StoreRefreshed, chain, indexers, bounds
    <2> QED
      BY <2>1, WithinBusy DEF HeightsExist
  <1>5. CASE Advance
    <2>1. /\ stage # "ask" /\ UNCHANGED <<served, top, inbox, disk, happened>>
          /\ scannedHeight' = next /\ next' = 0
      BY <1>5 DEF Advance, chain, indexers, bounds
    <2>2. 0 <= top + 1
      BY DEF Typed, WorldTyped, Height
    <2> QED
      BY <2>1, <2>2, WithinBusy DEF HeightsExist
  <1>6. CASE RestoreDone
    <2>1. UNCHANGED <<served, top, inbox, stage, scannedHeight, next, disk, happened>>
      BY <1>6 DEF RestoreDone, chain, indexers, workflow, bounds
    <2> QED
      BY <2>1, WithinSame
  <1> QED
    BY <1>1, <1>2, <1>3, <1>4, <1>5, <1>6 DEF Scan

LEMMA WithinGenerator == ASSUME Within, Generator PROVE Within'
  <1>1. UNCHANGED <<served, top, inbox, stage, scannedHeight, next, disk, happened>>
    BY DEF Generator, Generate, StoreGenerated, chain, indexers, storage, workflow, bounds
  <1> QED
    BY <1>1, WithinSame

LEMMA WithinSave == ASSUME Within, Save PROVE Within'
  <1>1. /\ UNCHANGED <<served, top, inbox, stage, scannedHeight, next>>
        /\ disk'.scannedHeight = scannedHeight
    BY DEF Save, Saved, chain, indexers, storage, workflow
  <1>2. happened \subseteq happened'
    BY HappensGrows DEF Save
  <1> QED
    BY <1>1, <1>2 DEF Within, ServedExists, HeightsExist, OnlyRequest, Current

LEMMA WithinFaults == ASSUME Typed, Within, Faults PROVE Within'
  <1>1. CASE Restart
    <2>1. /\ UNCHANGED <<served, top, disk>>
          /\ scannedHeight' = disk.scannedHeight /\ next' = 0
          /\ inbox' = [i \in Indexer |-> <<>>]
      BY <1>1 DEF Restart, chain
    <2>2. happened \subseteq happened'
      BY <1>1, HappensGrows DEF Restart
    <2>3. ServedExists' /\ OnlyRequest'
      BY <2>1 DEF Within, ServedExists, OnlyRequest
    <2>4. HeightsExist => HeightsExist'
      <3>1. 0 <= top + 1
        BY DEF Typed, WorldTyped, Height
      <3> QED
        BY <2>1, <3>1 DEF HeightsExist
    <2> QED
      BY <2>2, <2>3, <2>4 DEF Within
  <1>2. ASSUME NEW i \in Indexer, OtherMessage(i) PROVE Within'
    <2>1. UNCHANGED <<served, top, inbox, stage, scannedHeight, next, disk>>
      BY <1>2 DEF OtherMessage, chain, indexers, storage, workflow
    <2>2. happened \subseteq happened'
      BY <1>2, HappensGrows DEF OtherMessage
    <2> QED
      BY <2>1, <2>2, WithinSame
  <1>3. ASSUME NEW i \in Indexer, Reconnect(i) PROVE Within'
    <2>1. /\ UNCHANGED <<served, top, stage, scannedHeight, next, disk>>
          /\ inbox' = [inbox EXCEPT ![i] = <<>>]
      BY <1>3 DEF Reconnect, chain, storage, workflow
    <2>2. happened \subseteq happened'
      BY <1>3, HappensGrows DEF Reconnect
    <2>3. OnlyRequest => OnlyRequest'
      <3>1. \A j \in Indexer : inbox'[j] = <<>> \/ inbox'[j] = inbox[j]
        BY <2>1 DEF Typed, RequestsTyped
      <3> QED
        BY <2>1, <3>1 DEF OnlyRequest, Current
    <2> QED
      BY <2>1, <2>2, <2>3 DEF Within, ServedExists, HeightsExist
  <1> QED
    BY <1>1, <1>2, <1>3 DEF Faults

(* The scanned height never passes the end of the chain, although an       *)
(* indexer answers with one filter more than was asked for and the scanner *)
(* counts them all - as long as no request is sent while another one is    *)
(* pending, which the requester's timeout does.                            *)
THEOREM ScannedHeightExists == Spec => []ScannedExists
  <1>1. Init => Typed /\ Within
    BY TypedInit, WithinInit
  <1>2. Typed /\ Within /\ [Next]_vars => Typed' /\ Within'
    <2> SUFFICES ASSUME Typed, Within, [Next]_vars PROVE Typed' /\ Within'
      OBVIOUS
    <2>1. CASE Next
      BY <2>1, TypedStep, WithinOutside, WithinRequests, WithinScan, WithinGenerator,
         WithinSave, WithinFaults DEF Next
    <2>2. CASE UNCHANGED vars
      <3>1. UNCHANGED <<served, top, inbox, stage, scannedHeight, next, disk, happened>>
        BY <2>2 DEF vars, chain, indexers, storage, workflow, bounds
      <3> QED
        BY <3>1, TypedStep, WithinSame
    <2> QED
      BY <2>1, <2>2
  <1>3. Within => ScannedExists
    BY DEF Within, HeightsExist, ScannedExists
  <1> QED
    BY <1>1, <1>2, <1>3, PTL DEF Spec

-----------------------------------------------------------------------------
(* That every payment is found.  While nothing has happened that excuses a *)
(* loss, all payments below the scanned height are stored and their keys   *)
(* marked, in memory and on disk; the keys tried against a batch have      *)
(* found what it pays them; and nobody but the workflow changes the keys   *)
(* during a batch.                                                         *)
Calm == ~outrun /\ happened \cap {"again", "garble", "notfound"} = {}

Trusted(b) == \A c \in start..b : c <= Top /\ Honest(c)
Complete(h, fnd, ks) == \A b \in start..(h - 1) :
    Trusted(b) => \A k \in pays[b] :
        <<b, k[1], k[2]>> \in fnd /\ k[2] \in ks[k[1]].used
Spared(ks) == \A u \in ks.used \cup {-1} : u + GapLimit < ks.count

TriedFound == \A b \in batch, p \in Purpose : \A k \in tried[p] :
    <<p, k>> \in pays[b] => <<b, p, k>> \in found /\ k \in keys[p].used
AllTried == \A p \in Purpose : tried[p] = KeysOf(keys[p])

DiskComplete ==
    /\ disk.scannedHeight <= scannedHeight
    /\ Complete(disk.scannedHeight, disk.found, disk.keys)
BatchComplete ==
    /\ InBatch => /\ scannedHeight <= next /\ batch = scannedHeight..(next - 1)
                  /\ TriedFound
    /\ stage = "scan" => \A p \in Purpose : tried[p] \cup scanning[p] = KeysOf(keys[p])
    /\ stage \in {"refresh", "store", "advance"} => AllTried
    /\ stage = "store" => scanning = Extra /\ plan = Refreshed
    /\ stage = "advance" => \A p \in Purpose : Spared(keys[p])
GeneratorApart ==
    genPlan # NoPlan => stage \notin {"refresh", "store", "advance"} /\ genPlan = Generated

FoundBelow == Complete(scannedHeight, found, keys)
Finding == Calm => FoundBelow /\ DiskComplete /\ BatchComplete /\ GeneratorApart

-----------------------------------------------------------------------------
(* Numbers and keys                                                        *)

Below == OpToRel(<, Nat)

LEMMA BelowDef == Below = {p \in Nat \X Nat : p[1] < p[2]}
  BY DEF Below, OpToRel

(* A set of numbers that is not empty has a least one.                     *)
LEMMA LeastNumber ==
    ASSUME NEW S \in SUBSET Nat, S # {}
    PROVE  \E m \in S : \A n \in S : m <= n
  <1>1. IsWellFoundedOn(Below, Nat)
    BY NatLessThanWellFounded DEF Below
  <1>2. PICK m \in S : \A n \in S : ~(<<n, m>> \in Below)
    <2> HIDE DEF Below
    <2> QED
      BY <1>1, WFMin
  <1>3. \A n \in S : ~(n < m)
    BY <1>2, BelowDef
  <1>4. \A n \in S : m <= n
    BY <1>3
  <1> QED
    BY <1>2, <1>4

(* When the gap is not missing keys, and the last key is not used, a whole *)
(* gap of keys follows every used one.                                     *)
LEMMA GapIsSpare ==
    ASSUME NEW s \in KeyStore, s.used \subseteq KeysOf(s),
           ~LastKeyUsed(s), GapMissing(s) <= 0
    PROVE  Spared(s)
  <1>1. s.count \in Nat /\ s.used \in SUBSET Nat
    BY DEF KeyStore
  <1>2. UnusedAtEnd(s) \in SUBSET Nat /\ UnusedAtEnd(s) # {}
    BY <1>1 DEF UnusedAtEnd, LastKeyUsed, KeysOf
  <1>3. PICK m \in UnusedAtEnd(s) : \A n \in UnusedAtEnd(s) : m <= n
    BY <1>2, LeastNumber
  <1>4. m \in Nat /\ m < s.count /\ \A u \in s.used : u < m
    BY <1>1, <1>3 DEF UnusedAtEnd, KeysOf
  <1>5. UnusedAtEnd(s) = m..(s.count - 1)
    BY <1>1, <1>3, <1>4 DEF UnusedAtEnd, KeysOf
  <1>6. Cardinality(UnusedAtEnd(s)) = s.count - m
    <2>1. m \in Int /\ s.count - 1 \in Int /\ m <= s.count - 1
      BY <1>1, <1>4
    <2>2. Cardinality(m..(s.count - 1)) = (s.count - 1) - m + 1
      BY ONLY <2>1, FS_Interval
    <2> QED
      BY <1>1, <1>4, <1>5, <2>2
  <1>7. m + GapLimit <= s.count
    BY <1>1, <1>4, <1>6 DEF GapMissing
  <1>8. \A u \in s.used \cup {-1} : u \in Int /\ u < m
    BY <1>1, <1>4
  <1> QED
    BY <1>1, <1>4, <1>7, <1>8 DEF Spared

LEMMA GapIsNumber == ASSUME StorageTyped, NEW p \in Purpose PROVE GapMissing(keys[p]) \in Int
  <1>1. keys[p].count \in Nat /\ Cardinality(UnusedAtEnd(keys[p])) \in Nat
    BY GoodParts, CountTyped DEF KeyStore
  <1> QED
    BY <1>1 DEF GapMissing

(* refreshBtcKeys answers no extra key when the gap misses none.           *)
LEMMA NoExtraNoGap ==
    ASSUME StorageTyped, Extra = NoKeys, NEW p \in Purpose
    PROVE  GapMissing(keys[p]) <= 0
  <1>1. keys[p] \in KeyStore /\ keys[p].count \in Nat
    BY GoodParts DEF KeyStore
  <1>2. GapMissing(keys[p]) \in Int
    BY GapIsNumber
  <1>3. Extra[p] = {} /\ Extra[p] = KeysOf(Refreshed[p]) \ KeysOf(keys[p])
    BY DEF Extra, NoKeys
  <1>4. Refreshed[p] = Extended(keys[p], GapMissing(keys[p]))
    BY DEF Refreshed
  <1>5. SUFFICES ASSUME GapMissing(keys[p]) > 0 PROVE FALSE
    BY <1>2
  <1>6. Refreshed[p].count = keys[p].count + GapMissing(keys[p])
    BY <1>1, <1>4, <1>5 DEF Extended, KeyStore
  <1>7. keys[p].count \in Extra[p]
    BY <1>1, <1>2, <1>3, <1>5, <1>6 DEF KeysOf
  <1> QED
    BY <1>3, <1>7

LEMMA ExtendedKeeps ==
    ASSUME NEW s \in KeyStore, NEW n \in Int
    PROVE  /\ Extended(s, n).used = s.used
           /\ KeysOf(s) \subseteq KeysOf(Extended(s, n))
  <1>1. s.count \in Nat
    BY DEF KeyStore
  <1>2. CASE n > 0
    BY <1>1, <1>2 DEF Extended, KeyStore, KeysOf
  <1>3. CASE ~(n > 0)
    BY <1>3 DEF Extended
  <1> QED
    BY <1>2, <1>3

LEMMA RefreshedKeeps ==
    ASSUME StorageTyped, NEW p \in Purpose
    PROVE  /\ Refreshed[p].used = keys[p].used
           /\ KeysOf(Refreshed[p]) = KeysOf(keys[p]) \cup Extra[p]
  <1>1. keys[p] \in KeyStore /\ GapMissing(keys[p]) \in Int
    BY GoodParts, GapIsNumber
  <1>2. Refreshed[p] = Extended(keys[p], GapMissing(keys[p]))
    BY DEF Refreshed
  <1>3. Refreshed[p].used = keys[p].used /\ KeysOf(keys[p]) \subseteq KeysOf(Refreshed[p])
    BY <1>1, <1>2, ExtendedKeeps
  <1>4. Extra[p] = KeysOf(Refreshed[p]) \ KeysOf(keys[p])
    BY DEF Extra
  <1> QED
    BY <1>3, <1>4

LEMMA GeneratedKeeps ==
    ASSUME StorageTyped, NEW p \in Purpose
    PROVE  Generated[p].used = keys[p].used
  <1>1. keys[p] \in KeyStore /\ Cardinality(UnusedAtEnd(keys[p])) \in Nat
    BY GoodParts, CountTyped
  <1>2. SpareMissing(p, keys[p]) \in Int
    BY <1>1 DEF SpareMissing
  <1>3. Generated[p] = Extended(keys[p], SpareMissing(p, keys[p]))
    BY DEF Generated
  <1> QED
    BY <1>1, <1>2, <1>3, ExtendedKeeps

-----------------------------------------------------------------------------
(* Payments                                                                *)

LEMMA CalmBefore ==
    ASSUME Calm', outrun => outrun', happened \subseteq happened'
    PROVE  Calm
  BY DEF Calm

LEMMA PaymentTyped ==
    ASSUME WorldTyped, NEW b \in Height, NEW k \in pays[b]
    PROVE  k \in Key /\ k[1] \in Purpose /\ k[2] \in Nat /\ k = <<k[1], k[2]>>
  <1>1. pays[b] \in SUBSET Key
    BY DEF WorldTyped
  <1> QED
    BY <1>1 DEF Key

LEMMA TrustedSame ==
    ASSUME UNCHANGED <<pays, start>>, NEW b
    PROVE  Trusted(b)' <=> Trusted(b)
  <1>1. \A c : Honest(c)' <=> Honest(c)
    BY DEF Honest, UsedBefore
  <1> QED
    BY <1>1 DEF Trusted

(* What is complete stays so when payments and marks are added.            *)
LEMMA CompleteKept ==
    ASSUME WorldTyped, HistoryTyped, UNCHANGED <<pays, start>>,
           NEW h, NEW f1, NEW k1, NEW f2, NEW k2, Complete(h, f1, k1),
           f1 \subseteq f2, \A p \in Purpose : k1[p].used \subseteq k2[p].used
    PROVE  \A b \in start'..(h - 1) :
               Trusted(b)' => \A k \in pays'[b] :
                   <<b, k[1], k[2]>> \in f2 /\ k[2] \in k2[k[1]].used
  <1> SUFFICES ASSUME NEW b \in start..(h - 1), Trusted(b), NEW k \in pays[b]
               PROVE  <<b, k[1], k[2]>> \in f2 /\ k[2] \in k2[k[1]].used
    BY TrustedSame
  <1>1. b \in start..b /\ start \in Nat /\ b \in Nat
    BY DEF HistoryTyped, Height
  <1>2. b \in Height
    BY <1>1 DEF Trusted, Height
  <1>3. k[1] \in Purpose
    BY <1>2, PaymentTyped
  <1>4. <<b, k[1], k[2]>> \in f1 /\ k[2] \in k1[k[1]].used
    BY DEF Complete
  <1> QED
    BY <1>3, <1>4

(* A batch that has been matched with all keys, and leaves a gap of keys   *)
(* behind, has lost nothing: the first block with a payment that is not    *)
(* found would pay a key beyond the gap.                                   *)
LEMMA BatchFindsAll ==
    ASSUME WorldTyped, StorageTyped, HistoryTyped, next \in Nat,
           Complete(scannedHeight, found, keys),
           batch = scannedHeight..(next - 1), TriedFound, AllTried,
           \A p \in Purpose : Spared(keys[p])
    PROVE  Complete(next, found, keys)
  <1> DEFINE Missed(b) == \E k \in pays[b] :
                 ~(<<b, k[1], k[2]>> \in found /\ k[2] \in keys[k[1]].used)
             S == {b \in start..(next - 1) : Trusted(b) /\ Missed(b)}
  <1>1. start \in Nat /\ scannedHeight \in Nat
    BY DEF HistoryTyped, StorageTyped, Height
  <1>2. S = {} => Complete(next, found, keys)
    BY DEF Complete
  <1>3. SUFFICES ASSUME S # {} PROVE FALSE
    BY <1>2
  <1>4. S \in SUBSET Nat
    BY <1>1
  <1>5. PICK b \in S : \A c \in S : b <= c
    <2> HIDE DEF S
    <2> QED
      BY <1>3, <1>4, LeastNumber
  <1>6. PICK k \in pays[b] : ~(<<b, k[1], k[2]>> \in found /\ k[2] \in keys[k[1]].used)
    BY <1>5
  <1>7. b \in Nat /\ b \in start..(next - 1) /\ Trusted(b)
    BY <1>1, <1>5
  <1>8. b \in Height /\ Honest(b)
    <2>1. b \in start..b
      BY <1>1, <1>7
    <2> QED
      BY <1>7, <2>1 DEF Trusted, Height
  <1>9. k[1] \in Purpose /\ k[2] \in Nat /\ k = <<k[1], k[2]>>
    BY <1>8, PaymentTyped
  <1>10. b \in batch
    <2>1. CASE b < scannedHeight
      <3>1. b \in start..(scannedHeight - 1)
        BY <1>1, <1>7, <2>1
      <3> QED
        BY <1>6, <1>7, <3>1 DEF Complete
    <2>2. CASE b >= scannedHeight
      BY <1>1, <1>7, <2>2
    <2> QED
      BY <1>1, <1>7, <2>1, <2>2
  <1>11. \A u \in UsedBefore(b, k[1]) : u \in keys[k[1]].used
    <2>1. SUFFICES ASSUME NEW c \in start..(b - 1), NEW q \in pays[c], q[1] = k[1]
                   PROVE  q[2] \in keys[k[1]].used
      BY DEF UsedBefore
    <2>2. c \in start..(next - 1) /\ c < b /\ c \in Nat
      BY <1>1, <1>7, <2>1
    <2>3. Trusted(c)
      <3>1. \A d \in start..c : d \in start..b
        BY <1>1, <1>7, <2>2
      <3> QED
        BY <1>7, <3>1 DEF Trusted
    <2>4. ~Missed(c)
      <3>1. c \notin S
        BY <1>5, <1>7, <2>2
      <3> QED
        BY <2>2, <2>3, <3>1
    <2> QED
      BY <2>1, <2>4
  <1>12. PICK last \in UsedBefore(b, k[1]) \cup {-1} : k[2] <= last + GapLimit
    BY <1>8 DEF Honest
  <1>13. last \in keys[k[1]].used \cup {-1}
    BY <1>11, <1>12
  <1>14. last + GapLimit < keys[k[1]].count
    BY <1>9, <1>13 DEF Spared
  <1>15. k[2] \in KeysOf(keys[k[1]])
    <2>1. keys[k[1]].count \in Nat /\ keys[k[1]].used \in SUBSET Nat
      BY <1>9, GoodParts DEF KeyStore
    <2>2. last \in Int /\ k[2] \in Nat /\ GapLimit \in Nat
      BY <1>9, <1>13, <2>1
    <2>3. k[2] <= last + GapLimit
      BY <1>12
    <2>4. k[2] \in 0..(keys[k[1]].count - 1)
      BY ONLY <1>14, <2>1, <2>2, <2>3
    <2> QED
      BY <2>4 DEF KeysOf
  <1>16. k[2] \in tried[k[1]]
    BY <1>9, <1>15 DEF AllTried
  <1>17. <<k[1], k[2]>> \in pays[b]
    BY <1>9
  <1> QED
    BY <1>6, <1>9, <1>10, <1>16, <1>17 DEF TriedFound

-----------------------------------------------------------------------------
(* What a step leaves alone.                                               *)

LEMMA FoundSame ==
    ASSUME UNCHANGED <<pays, start, keys, found, scannedHeight>>, FoundBelow
    PROVE  FoundBelow'
  BY DEF FoundBelow, Complete, Trusted, Honest, UsedBefore

(* Payments and marks are added.                                           *)
LEMMA FoundKept ==
    ASSUME WorldTyped, HistoryTyped, UNCHANGED <<pays, start, scannedHeight>>, FoundBelow,
           found \subseteq found', \A p \in Purpose : keys[p].used \subseteq keys'[p].used
    PROVE  FoundBelow'
  <1>1. Complete(scannedHeight, found, keys)
    BY DEF FoundBelow
  <1>2. \A b \in start'..(scannedHeight - 1) :
           Trusted(b)' => \A k \in pays'[b] :
               <<b, k[1], k[2]>> \in found' /\ k[2] \in keys'[k[1]].used
    BY <1>1, CompleteKept
  <1> QED
    BY <1>2 DEF FoundBelow, Complete

LEMMA DiskSame ==
    ASSUME UNCHANGED <<pays, start, disk, scannedHeight>>, DiskComplete
    PROVE  DiskComplete'
  BY DEF DiskComplete, Complete, Trusted, Honest, UsedBefore

LEMMA BatchSame ==
    ASSUME UNCHANGED <<pays, found, keys, scannedHeight, stage, batch, next, scanning, plan,
                       tried>>, BatchComplete
    PROVE  BatchComplete'
  BY DEF BatchComplete, InBatch, TriedFound, AllTried, Extra, Refreshed

LEMMA NoBatch == ASSUME stage' \in {"check", "ask"} PROVE BatchComplete'
  BY DEF BatchComplete, InBatch

LEMMA GeneratorSame ==
    ASSUME UNCHANGED <<keys, genPlan>>, stage' = stage \/ stage' \in {"check", "ask", "scan"},
           GeneratorApart
    PROVE  GeneratorApart'
  BY DEF GeneratorApart, Generated

LEMMA NoGenerator == ASSUME genPlan' = NoPlan PROVE GeneratorApart'
  BY DEF GeneratorApart

LEMMA FindingSame ==
    ASSUME Finding, outrun => outrun', happened \subseteq happened',
           UNCHANGED <<pays, start, keys, found, scannedHeight, disk, stage, batch, next,
                       scanning, plan, tried, genPlan>>
    PROVE  Finding'
  <1> SUFFICES ASSUME Calm'
               PROVE  FoundBelow' /\ DiskComplete' /\ BatchComplete' /\ GeneratorApart'
    BY DEF Finding
  <1>1. FoundBelow /\ DiskComplete /\ BatchComplete /\ GeneratorApart
    BY CalmBefore DEF Finding
  <1> QED
    BY <1>1, FoundSame, DiskSame, BatchSame, GeneratorSame

LEMMA FindingInit == Init => Finding
  <1> SUFFICES ASSUME Init PROVE Finding
    OBVIOUS
  <1>1. start = 0 /\ scannedHeight = 0 /\ disk.scannedHeight = 0 /\ stage = "check"
        /\ genPlan = NoPlan
    BY DEF Init, Saved
  <1>2. start..(scannedHeight - 1) = {}
    BY <1>1
  <1>3. FoundBelow /\ DiskComplete
    BY <1>1, <1>2 DEF FoundBelow, DiskComplete, Complete
  <1> QED
    BY <1>1, <1>3 DEF Finding, BatchComplete, InBatch, GeneratorApart

-----------------------------------------------------------------------------
(* The steps                                                               *)

LEMMA FindingOutside == ASSUME Typed, Finding, Outside PROVE Finding'
  <1>1. CASE ChainGrows
    BY <1>1, FindingSame DEF ChainGrows, storage, workflow, generator, bounds, history
  <1>2. CASE NodeHeight
    <2>1. PICK h \in (node + 1)..top : NodeHeight!1!(h)
      BY <1>2 DEF NodeHeight
    <2>2. UNCHANGED <<pays, keys, found, disk, batch, next, scanning, plan, tried, genPlan,
                      outrun, happened>>
      BY <1>2 DEF NodeHeight, chain, bounds
    <2>3. CASE ~(stage = "check" /\ ~restoring /\ scannedHeight = 0)
      <3>1. UNCHANGED <<scannedHeight, start, stage>>
        BY <2>1, <2>3
      <3> QED
        BY <2>2, <3>1, FindingSame
    <2>4. CASE stage = "check" /\ ~restoring /\ scannedHeight = 0
      <3> SUFFICES ASSUME Calm'
                   PROVE  FoundBelow' /\ DiskComplete' /\ BatchComplete' /\ GeneratorApart'
        BY DEF Finding
      <3>1. DiskComplete /\ GeneratorApart
        BY <2>2, CalmBefore DEF Finding
      <3>2. h \in Nat /\ h > 0 /\ scannedHeight' = h /\ start' = h /\ stage' = "ask"
        BY <2>1, <2>4 DEF Typed, WorldTyped, Height
      <3>3. disk'.scannedHeight \in Nat /\ disk'.scannedHeight <= 0
        BY <2>2, <2>4, <3>1 DEF DiskComplete, Typed, DiskTyped, Storage
      <3>4. start'..(scannedHeight' - 1) = {} /\ start'..(disk'.scannedHeight - 1) = {}
        BY <3>2, <3>3
      <3>5. FoundBelow' /\ DiskComplete'
        BY <3>2, <3>3, <3>4 DEF FoundBelow, DiskComplete, Complete
      <3> QED
        BY <2>2, <3>1, <3>2, <3>5, NoBatch, GeneratorSame
    <2> QED
      BY <2>3, <2>4
  <1>3. ASSUME NEW i \in Indexer, IndexerGrows(i) PROVE Finding'
    BY <1>3, FindingSame
       DEF IndexerGrows, chain, storage, workflow, generator, bounds, history
  <1> QED
    BY <1>1, <1>2, <1>3 DEF Outside

(* The answer to the only request there is starts at the scanned height.   *)
LEMMA SliceIs ==
    ASSUME Typed, NEW i \in Indexer, NEW r \in Request, r.from = scannedHeight
    PROVE  Slice(i, r) = scannedHeight..(scannedHeight + Cardinality(Slice(i, r)) - 1)
  <1> DEFINE end == IF r.from + r.amount <= served[i] THEN r.from + r.amount ELSE served[i]
  <1>1. r.from \in Int /\ r.amount \in Int /\ served[i] \in Int /\ end \in Int
    BY DEF Typed, WorldTyped, Height, Request
  <1>2. Slice(i, r) = r.from..end
    BY <1>1 DEF Slice
  <1>3. Cardinality(r.from..end) = IF r.from > end THEN 0 ELSE end - r.from + 1
    <2> HIDE DEF end
    <2> QED
      BY ONLY <1>1, FS_Interval
  <1> HIDE DEF end
  <1>4. CASE r.from > end
    BY <1>1, <1>2, <1>3, <1>4
  <1>5. CASE ~(r.from > end)
    BY <1>1, <1>2, <1>3, <1>5
  <1> QED
    BY <1>4, <1>5

LEMMA FindingAnswer ==
    ASSUME Typed, Within, Finding, NEW i \in Indexer, Answer(i) PROVE Finding'
  <1> DEFINE r == Head(inbox[i])
             blocks == Slice(i, r)
  <1>1. r \in Request
    BY DEF Answer, Typed, RequestsTyped
  <1>2. PICK bad \in SUBSET blocks :
           /\ MayHappen("garble", bad # {})
           /\ batch' = blocks \ bad
           /\ next' = NextHeight(r, blocks, bad)
    BY DEF Answer
  <1>3. happened \subseteq happened'
    BY <1>2, MayHappenGrows
  <1>4. /\ UNCHANGED <<pays, start, keys, found, scannedHeight, disk, plan, genPlan, outrun>>
        /\ scanning' = [p \in Purpose |-> KeysOf(keys[p])] /\ tried' = NoKeys
        /\ stage' = "scan" /\ inbox[i] # <<>>
    BY DEF Answer, chain, storage, generator
  <1> SUFFICES ASSUME Calm'
               PROVE  FoundBelow' /\ DiskComplete' /\ BatchComplete' /\ GeneratorApart'
    BY DEF Finding
  <1>5. Calm /\ FoundBelow /\ DiskComplete /\ GeneratorApart
    BY <1>3, <1>4, CalmBefore DEF Finding
  <1>6. bad = {}
    BY <1>2 DEF MayHappen, Happens, Calm
  <1>7. r.from = scannedHeight
    BY <1>4, <1>5 DEF Within, Calm, OnlyRequest, Current
  <1>8. batch' = blocks /\ next' = scannedHeight + Cardinality(blocks)
    <2>1. blocks \ bad = blocks
      BY <1>6
    <2> QED
      BY <1>2, <2>1 DEF NextHeight
  <1>9. Cardinality(blocks) \in Nat /\ scannedHeight \in Nat
    BY <1>1, SliceTyped, FS_CardinalityType DEF Typed, StorageTyped
  <1>10. scannedHeight' <= next' /\ batch' = scannedHeight'..(next' - 1)
    <2>1. blocks = scannedHeight..(scannedHeight + Cardinality(blocks) - 1)
      BY <1>1, <1>7, SliceIs
    <2> HIDE DEF blocks
    <2> QED
      BY <1>4, <1>8, <1>9, <2>1
  <1>11. TriedFound'
    BY <1>4 DEF TriedFound, NoKeys
  <1>12. BatchComplete'
    BY <1>4, <1>10, <1>11 DEF BatchComplete, InBatch, NoKeys
  <1> QED
    BY <1>4, <1>5, <1>12, FoundSame, DiskSame, GeneratorSame

LEMMA FindingRequests == ASSUME Typed, Within, Finding, Requests PROVE Finding'
  <1>1. ASSUME NEW i \in Indexer, Ask(i) PROVE Finding'
    <2>1. happened \subseteq happened'
      BY <1>1, MayHappenGrows DEF Ask
    <2> QED
      BY <1>1, <2>1, FindingSame DEF Ask, chain, storage, workflow, generator, history
  <1>2. ASSUME NEW i \in Indexer, AnswerDropped(i) PROVE Finding'
    BY <1>2, FindingSame
       DEF AnswerDropped, chain, storage, workflow, generator, bounds, history
  <1> QED
    BY <1>1, <1>2, FindingAnswer DEF Requests

(* All keys of the pass that a block of the batch pays are stored and      *)
(* marked.                                                                 *)
LEMMA FindingScanBlocks == ASSUME Typed, Finding, ScanBlocks PROVE Finding'
  <1>1. PICK lost \in SUBSET Matching : ScanBlocks!2!(lost)
    BY DEF ScanBlocks
  <1> DEFINE got == Matching \ lost
             paid(p) == UNION {Paid(b, p) : b \in got}
  <1>2. /\ UNCHANGED <<pays, start, scannedHeight, disk, batch, next, scanning, plan, genPlan>>
        /\ stage = "scan" /\ stage' = "refresh"
        /\ tried' = [p \in Purpose |-> tried[p] \cup scanning[p]]
        /\ outrun' = (outrun \/ genPlan # NoPlan)
    BY DEF ScanBlocks, chain
  <1>3. happened \subseteq happened'
    BY <1>1, MayHappenGrows
  <1> SUFFICES ASSUME Calm'
               PROVE  FoundBelow' /\ DiskComplete' /\ BatchComplete' /\ GeneratorApart'
    BY DEF Finding
  <1>4. Calm /\ FoundBelow /\ DiskComplete /\ BatchComplete
    BY <1>2, <1>3, CalmBefore DEF Finding
  <1>5. genPlan' = NoPlan /\ got = Matching
    <2>1. genPlan = NoPlan
      BY <1>2 DEF Calm
    <2>2. lost = {}
      BY <1>1 DEF MayHappen, Happens, Calm
    <2> QED
      BY <1>2, <2>1, <2>2
  <1>6. ASSUME NEW p \in Purpose
        PROVE  /\ keys'[p].used = keys[p].used \cup (paid(p) \cap KeysOf(keys[p]))
               /\ KeysOf(keys'[p]) = KeysOf(keys[p])
    <2>1. keys'[p] = Marked(keys[p], paid(p))
      BY <1>1
    <2>2. keys[p] \in KeyStore
      BY GoodParts DEF Typed
    <2> HIDE DEF paid
    <2>3. keys'[p].count = keys[p].count
          /\ keys'[p].used = keys[p].used \cup (paid(p) \cap KeysOf(keys[p]))
      BY <2>1, <2>2 DEF Marked, KeyStore
    <2> QED
      BY <2>3 DEF KeysOf
  <1>7. found \subseteq found'
    BY <1>1
  <1>8. FoundBelow'
    <2>1. \A p \in Purpose : keys[p].used \subseteq keys'[p].used
      BY <1>6
    <2> QED
      BY <1>2, <1>4, <1>7, <2>1, FoundKept DEF Typed
  <1>9. ASSUME NEW b \in batch, NEW p \in Purpose, NEW k \in scanning[p], <<p, k>> \in pays[b]
        PROVE  <<b, p, k>> \in found' /\ k \in keys'[p].used
    <2>1. k \in Paid(b, p)
      BY <1>9 DEF Paid
    <2>2. b \in got /\ k \in UNION {scanning[q] : q \in Purpose}
      BY <1>5, <2>1 DEF Matching
    <2>3. <<b, p, k>> \in got \X Purpose \X UNION {scanning[q] : q \in Purpose}
      BY <2>2
    <2>4. <<b, p, k>> \in found'
      BY <1>1, <2>1, <2>3
    <2>5. k \in paid(p)
      BY <2>1, <2>2
    <2>6. k \in KeysOf(keys[p])
      BY <1>2, <1>4 DEF BatchComplete
    <2> QED
      BY <1>6, <2>4, <2>5, <2>6
  <1>10. TriedFound'
    <2> SUFFICES ASSUME NEW b \in batch, NEW p \in Purpose,
                        NEW k \in tried[p] \cup scanning[p], <<p, k>> \in pays[b]
                 PROVE  <<b, p, k>> \in found' /\ k \in keys'[p].used
      BY <1>2 DEF TriedFound
    <2>1. CASE k \in tried[p]
      BY <1>2, <1>4, <1>6, <1>7, <2>1 DEF BatchComplete, InBatch, TriedFound
    <2>2. CASE k \in scanning[p]
      BY <1>9, <2>2
    <2> QED
      BY <2>1, <2>2
  <1>11. AllTried'
    BY <1>2, <1>4, <1>6 DEF BatchComplete, AllTried
  <1>12. BatchComplete'
    BY <1>2, <1>4, <1>10, <1>11 DEF BatchComplete, InBatch
  <1> QED
    BY <1>2, <1>4, <1>5, <1>8, <1>12, DiskSame, NoGenerator

(* No key is missing: the gap is whole.  Otherwise the batch is scanned    *)
(* again, with the keys it has not been scanned with.                      *)
LEMMA FindingRefresh == ASSUME Typed, Finding, Refresh PROVE Finding'
  <1>1. /\ UNCHANGED <<pays, start, keys, found, scannedHeight, disk, batch, next, tried,
                       genPlan, happened>>
        /\ stage = "refresh"
        /\ outrun' = (outrun \/ \E p \in Purpose : LastKeyUsed(keys[p]))
    BY DEF Refresh, chain, storage, generator, bounds
  <1> SUFFICES ASSUME Calm'
               PROVE  FoundBelow' /\ DiskComplete' /\ BatchComplete' /\ GeneratorApart'
    BY DEF Finding
  <1>2. FoundBelow /\ DiskComplete /\ BatchComplete /\ GeneratorApart
    BY <1>1, CalmBefore DEF Finding
  <1>3. /\ scannedHeight <= next /\ batch = scannedHeight..(next - 1)
        /\ TriedFound /\ AllTried
    BY <1>1, <1>2 DEF BatchComplete, InBatch
  <1>4. TriedFound' /\ AllTried'
    BY <1>1, <1>3 DEF TriedFound, AllTried
  <1>5. BatchComplete'
    <2>1. CASE Extra = NoKeys
      <3>1. stage' = "advance"
        BY <2>1 DEF Refresh
      <3>2. ASSUME NEW p \in Purpose PROVE Spared(keys'[p])
        <4>1. ~LastKeyUsed(keys[p])
          BY <1>1 DEF Calm
        <4>2. GapMissing(keys[p]) <= 0
          BY <2>1, NoExtraNoGap DEF Typed
        <4> QED
          BY <1>1, <4>1, <4>2, GapIsSpare, GoodParts DEF Typed
      <3> QED
        BY <1>1, <1>3, <1>4, <3>1, <3>2 DEF BatchComplete, InBatch
    <2>2. CASE Extra # NoKeys
      <3>1. stage' = "store" /\ scanning' = Extra /\ plan' = Refreshed
        BY <2>2 DEF Refresh
      <3>2. Extra' = Extra /\ Refreshed' = Refreshed
        BY <1>1 DEF Extra, Refreshed
      <3> QED
        BY <1>1, <1>3, <1>4, <3>1, <3>2 DEF BatchComplete, InBatch
    <2> QED
      BY <2>1, <2>2
  <1>6. GeneratorApart'
    <2>1. genPlan' = NoPlan
      BY <1>1, <1>2 DEF GeneratorApart
    <2> QED
      BY <2>1, NoGenerator
  <1> QED
    BY <1>1, <1>2, <1>5, <1>6, FoundSame, DiskSame

LEMMA FindingStoreRefreshed == ASSUME Typed, Finding, StoreRefreshed PROVE Finding'
  <1>1. /\ UNCHANGED <<pays, start, found, scannedHeight, disk, batch, next, scanning, tried,
                       genPlan, outrun, happened>>
        /\ stage = "store" /\ stage' = "scan" /\ keys' = plan
    BY DEF StoreRefreshed, Rescan, chain, bounds, history
  <1> SUFFICES ASSUME Calm'
               PROVE  FoundBelow' /\ DiskComplete' /\ BatchComplete' /\ GeneratorApart'
    BY DEF Finding
  <1>2. FoundBelow /\ DiskComplete /\ BatchComplete /\ GeneratorApart
    BY <1>1, CalmBefore DEF Finding
  <1>3. /\ scannedHeight <= next /\ batch = scannedHeight..(next - 1)
        /\ TriedFound /\ AllTried /\ scanning = Extra /\ keys' = Refreshed
    BY <1>1, <1>2 DEF BatchComplete, InBatch
  <1>4. ASSUME NEW p \in Purpose
        PROVE  /\ keys'[p].used = keys[p].used
               /\ KeysOf(keys'[p]) = KeysOf(keys[p]) \cup scanning[p]
    BY <1>3, RefreshedKeeps DEF Typed
  <1>5. FoundBelow'
    BY <1>1, <1>2, <1>4, FoundKept DEF Typed
  <1>6. TriedFound'
    BY <1>1, <1>3, <1>4 DEF TriedFound
  <1>7. \A p \in Purpose : tried'[p] \cup scanning'[p] = KeysOf(keys'[p])
    BY <1>1, <1>3, <1>4 DEF AllTried
  <1>8. BatchComplete'
    BY <1>1, <1>3, <1>6, <1>7 DEF BatchComplete, InBatch
  <1>9. genPlan' = NoPlan
    BY <1>1, <1>2 DEF GeneratorApart
  <1> QED
    BY <1>1, <1>2, <1>5, <1>8, <1>9, DiskSame, NoGenerator

LEMMA FindingAdvance == ASSUME Typed, Finding, Advance PROVE Finding'
  <1>1. /\ UNCHANGED <<pays, start, found, keys, disk, genPlan, outrun, happened>>
        /\ stage = "advance" /\ stage' = "ask" /\ scannedHeight' = next
    BY DEF Advance, chain, bounds
  <1> SUFFICES ASSUME Calm'
               PROVE  FoundBelow' /\ DiskComplete' /\ BatchComplete' /\ GeneratorApart'
    BY DEF Finding
  <1>2. FoundBelow /\ DiskComplete /\ BatchComplete /\ GeneratorApart
    BY <1>1, CalmBefore DEF Finding
  <1>3. /\ scannedHeight <= next /\ batch = scannedHeight..(next - 1)
        /\ TriedFound /\ AllTried /\ \A p \in Purpose : Spared(keys[p])
    BY <1>1, <1>2 DEF BatchComplete, InBatch
  <1>4. Complete(next, found, keys)
    BY <1>2, <1>3, BatchFindsAll DEF FoundBelow, Typed, WorkflowTyped
  <1>5. FoundBelow'
    BY <1>1, <1>4 DEF FoundBelow, Complete, Trusted, Honest, UsedBefore
  <1>6. DiskComplete'
    <2>1. disk.scannedHeight \in Nat /\ scannedHeight \in Nat /\ next \in Nat
      BY DEF Typed, DiskTyped, Storage, StorageTyped, WorkflowTyped
    <2>2. disk'.scannedHeight <= scannedHeight'
      BY <1>1, <1>2, <1>3, <2>1 DEF DiskComplete
    <2> QED
      BY <1>1, <1>2, <2>2 DEF DiskComplete, Complete, Trusted, Honest, UsedBefore
  <1> QED
    BY <1>1, <1>2, <1>5, <1>6, NoBatch, GeneratorSame

LEMMA FindingScan == ASSUME Typed, Finding, Scan PROVE Finding'
  <1>1. CASE CheckHeight
    <2>1. UNCHANGED <<pays, start, found, keys, scannedHeight, disk, genPlan, outrun, happened>>
          /\ stage' = "ask"
      BY <1>1 DEF CheckHeight, chain, storage, generator, bounds, history
    <2> SUFFICES ASSUME Calm'
                 PROVE  FoundBelow' /\ DiskComplete' /\ BatchComplete' /\ GeneratorApart'
      BY DEF Finding
    <2>2. FoundBelow /\ DiskComplete /\ GeneratorApart
      BY <2>1, CalmBefore DEF Finding
    <2> QED
      BY <2>1, <2>2, FoundSame, DiskSame, NoBatch, GeneratorSame
  <1>2. CASE RestoreDone
    BY <1>2, FindingSame DEF RestoreDone, chain, workflow, bounds, history
  <1> QED
    BY <1>1, <1>2, FindingScanBlocks, FindingRefresh, FindingStoreRefreshed, FindingAdvance
       DEF Scan

(* The generator derives more keys than the gap needs; next to a batch it  *)
(* does so unseen.                                                         *)
LEMMA FindingGenerator == ASSUME Typed, Finding, Generator PROVE Finding'
  <1>1. CASE Generate
    <2>1. /\ UNCHANGED <<pays, start, keys, found, scannedHeight, disk, stage, batch, next,
                         scanning, plan, tried, happened>>
          /\ genPlan' = IF Generated = keys THEN NoPlan ELSE Generated
          /\ outrun' = (outrun \/ (InBatch /\ Generated # keys))
      BY <1>1 DEF Generate, chain, storage, workflow, bounds
    <2> SUFFICES ASSUME Calm'
                 PROVE  FoundBelow' /\ DiskComplete' /\ BatchComplete' /\ GeneratorApart'
      BY DEF Finding
    <2>2. FoundBelow /\ DiskComplete /\ BatchComplete
      BY <2>1, CalmBefore DEF Finding
    <2>3. GeneratorApart'
      <3>1. CASE Generated = keys
        BY <2>1, <3>1, NoGenerator
      <3>2. CASE Generated # keys
        <4>1. ~InBatch
          BY <2>1, <3>2 DEF Calm
        <4>2. genPlan' = Generated /\ Generated' = Generated
          BY <2>1, <3>2 DEF Generated
        <4> QED
          BY <2>1, <4>1, <4>2 DEF GeneratorApart, InBatch
      <3> QED
        BY <3>1, <3>2
    <2> QED
      BY <2>1, <2>2, <2>3, FoundSame, DiskSame, BatchSame
  <1>2. CASE StoreGenerated
    <2>1. /\ UNCHANGED <<pays, start, found, scannedHeight, disk, stage, happened>>
          /\ genPlan # NoPlan /\ genPlan' = NoPlan /\ keys' = genPlan
          /\ outrun' = (outrun \/ InBatch)
      BY <1>2 DEF StoreGenerated, chain, workflow, bounds
    <2> SUFFICES ASSUME Calm'
                 PROVE  FoundBelow' /\ DiskComplete' /\ BatchComplete' /\ GeneratorApart'
      BY DEF Finding
    <2>2. FoundBelow /\ DiskComplete /\ GeneratorApart
      BY <2>1, CalmBefore DEF Finding
    <2>3. stage' \in {"check", "ask"}
      BY <2>1 DEF Calm, InBatch, Typed, WorkflowTyped
    <2>4. \A p \in Purpose : keys[p].used \subseteq keys'[p].used
      BY <2>1, <2>2, GeneratedKeeps DEF GeneratorApart, Typed
    <2>5. FoundBelow'
      BY <2>1, <2>2, <2>4, FoundKept DEF Typed
    <2> QED
      BY <2>1, <2>2, <2>3, <2>5, DiskSame, NoBatch, NoGenerator
  <1> QED
    BY <1>1, <1>2 DEF Generator

LEMMA FindingSave == ASSUME Typed, Finding, Save PROVE Finding'
  <1>1. UNCHANGED <<pays, start, keys, found, scannedHeight, stage, batch, next, scanning,
                    plan, tried, genPlan, outrun>>
        /\ disk' = Saved
    BY DEF Save, chain, storage, workflow, generator, history
  <1>2. happened \subseteq happened'
    BY HappensGrows DEF Save
  <1> SUFFICES ASSUME Calm'
               PROVE  FoundBelow' /\ DiskComplete' /\ BatchComplete' /\ GeneratorApart'
    BY DEF Finding
  <1>3. FoundBelow /\ BatchComplete /\ GeneratorApart
    BY <1>1, <1>2, CalmBefore DEF Finding
  <1>4. FoundBelow'
    BY <1>1, <1>3, FoundSame
  <1>5. DiskComplete'
    <2>1. /\ disk'.scannedHeight = scannedHeight' /\ disk'.found = found'
          /\ disk'.keys = keys' /\ scannedHeight' \in Nat
      BY <1>1 DEF Saved, Typed, StorageTyped
    <2> QED
      BY <1>4, <2>1 DEF DiskComplete, FoundBelow
  <1> QED
    BY <1>1, <1>3, <1>4, <1>5, BatchSame, GeneratorSame

LEMMA FindingFaults == ASSUME Typed, Finding, Faults PROVE Finding'
  <1>1. CASE Restart
    <2>1. /\ UNCHANGED <<pays, start, disk, outrun>> /\ stage' = "check" /\ genPlan' = NoPlan
          /\ scannedHeight' = disk.scannedHeight /\ keys' = disk.keys /\ found' = disk.found
      BY <1>1 DEF Restart, chain
    <2>2. happened \subseteq happened'
      BY <1>1, HappensGrows DEF Restart
    <2> SUFFICES ASSUME Calm'
                 PROVE  FoundBelow' /\ DiskComplete' /\ BatchComplete' /\ GeneratorApart'
      BY DEF Finding
    <2>3. DiskComplete
      BY <2>1, <2>2, CalmBefore DEF Finding
    <2>4. FoundBelow' /\ DiskComplete'
      <3>1. disk.scannedHeight \in Nat
        BY DEF Typed, DiskTyped, Storage
      <3> QED
        BY <2>1, <2>3, <3>1
           DEF DiskComplete, FoundBelow, Complete, Trusted, Honest, UsedBefore
    <2> QED
      BY <2>1, <2>4, NoBatch, NoGenerator
  <1>2. ASSUME NEW i \in Indexer, OtherMessage(i) PROVE Finding'
    <2>1. happened \subseteq happened'
      BY <1>2, HappensGrows DEF OtherMessage
    <2> QED
      BY <1>2, <2>1, FindingSame DEF OtherMessage, chain, storage, workflow, generator, history
  <1>3. ASSUME NEW i \in Indexer, Reconnect(i) PROVE Finding'
    <2>1. happened \subseteq happened'
      BY <1>3, HappensGrows DEF Reconnect
    <2> QED
      BY <1>3, <2>1, FindingSame DEF Reconnect, chain, storage, workflow, generator, history
  <1> QED
    BY <1>1, <1>2, <1>3 DEF Faults

(* The scan loses no payment, whichever batches the indexers cut, however  *)
(* often the wallet is killed and whatever was saved before: all that the  *)
(* scanned blocks pay is in the storage.                                   *)
THEOREM ScanFindsAll == Spec => []AllFound
  <1> DEFINE Inv == Typed /\ Within /\ Finding
  <1>1. Init => Inv
    BY TypedInit, WithinInit, FindingInit
  <1>2. Inv /\ [Next]_vars => Inv'
    <2> SUFFICES ASSUME Inv, [Next]_vars PROVE Inv'
      OBVIOUS
    <2>1. CASE Next
      BY <2>1, TypedStep, WithinOutside, WithinRequests, WithinScan, WithinGenerator,
         WithinSave, WithinFaults, FindingOutside, FindingRequests, FindingScan,
         FindingGenerator, FindingSave, FindingFaults DEF Next
    <2>2. CASE UNCHANGED vars
      <3>1. UNCHANGED <<served, top, inbox, stage, scannedHeight, next, disk, happened>>
        BY <2>2 DEF vars, chain, indexers, storage, workflow, bounds
      <3>2. UNCHANGED <<pays, start, keys, found, batch, scanning, plan, tried, genPlan, outrun>>
        BY <2>2 DEF vars, chain, storage, workflow, generator, history
      <3> QED
        BY <3>1, <3>2, TypedStep, WithinSame, FindingSame
    <2> QED
      BY <2>1, <2>2
  <1>3. Finding => AllFound
    BY DEF Finding, Calm, FoundBelow, Complete, Trusted, AllFound
  <1> QED
    BY <1>1, <1>2, <1>3, PTL DEF Spec
=============================================================================
