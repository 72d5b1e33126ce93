------------------------- MODULE IndexerKillProofs -------------------------
(***************************************************************************)
(* What an indexer keeps that is killed and started again, any number of   *)
(* times, between any number of forks that the rollback sequence covers,   *)
(* proved: a rollback always reaches the node's chain, every transaction   *)
(* of a scanned block can be found, and the filters up to the scanned      *)
(* height implement FilterChain, whatever the chains and sizes.            *)
(***************************************************************************)
EXTENDS IndexerStopProofs

USE SizesAssumption, HashesDiffer, BlocksAssumption

(* No chain spends a transaction below the block that has it.              *)
ValidSpends == \A c \in Chains : \A i \in 1..Len(c) : \A x \in Tx :
    Spends[c[i]][x] > 0 => \E j \in 1..i : x \in Adds[c[j]]

-----------------------------------------------------------------------------
(* The transactions of the first n blocks have the heights of their        *)
(* blocks; those of the block of height n have it, or none.                *)
Located(f, t, n) == \A h \in 0..(n - 1) : \A x \in Adds[f[h]] : t[x] = h
Placed(f, t, n) == \A x \in Adds[f[n]] : t[x] \in {n, NoHeight}

(* How many items stay when another one is put on top                      *)
Room == IF Len(roll) < RollbackSize THEN Len(roll) ELSE RollbackSize - 1

(* With n blocks stored, a rollback of all items, or of all that the block *)
(* in flight leaves, ends on the node's chain.                             *)
Covers(n) == Synced(chain, filter, n - Len(roll) - 1)
CoversNext == Synced(chain, filter, cur - Room - 1)

(* What is stored up to the scanned height, and a process can start on     *)
Stored ==
    /\ Linked(filter, scanned + 1)
    /\ Located(filter, txHeight, scanned)
    /\ Placed(filter, txHeight, scanned)

Offline == pc = "off" /\ scanned \notin {NoHeight, MaxWord} =>
    /\ Synced(chain, filter, scanned)
    /\ Stored
    /\ main \in {"hackLast", "hackRoll"} => Located(filter, txHeight, scanned + 1)

Idle == pc \in {"iter", "delay"} /\ scanned # MaxWord =>
    Covers(scanned + 1) /\ Located(filter, txHeight, scanned + 1)

(* A block to be fetched, in flight, or not the one to follow              *)
Reading == pc \in WorkPC =>
    /\ Located(filter, txHeight, cur)
    /\ scanned = cur => Linked(filter, cur + 1) /\ Placed(filter, txHeight, cur)
    /\ pc \in WorkPC \ {"addTxs", "addFilter"} => Covers(cur)
    /\ pc \in {"resolve", "decide"} =>
           /\ roll = <<>> => Prev[blk] = Below(filter, cur)
           /\ Prev[blk] = Below(filter, cur) => CoversNext
    /\ pc \in {"addTxs", "addFilter"} => CoversNext
    /\ pc = "addFilter" => \A x \in Adds[blk] : txHeight[x] = cur
    /\ pc \in {"rollLast", "rollHeight"} => roll # <<>>

Written == pc \in {"addRoll", "addSpent", "addLast"} =>
    /\ Located(filter, txHeight, cur + 1)
    /\ pc = "addRoll" => CoversNext
    /\ pc # "addRoll" => Covers(cur + 1)

Undoing ==
    /\ pc \in Midway => roll # <<>> /\ Synced(chain, filter, Kept - 1)
    /\ pc = "rollTxs" => Located(filter, txHeight, cur)
    /\ pc \in {"rollSaved", "rollVar"} =>
           Located(filter, txHeight, Kept) /\ Placed(filter, txHeight, Kept)
    /\ pc = "rollRestart" =>
           /\ Synced(chain, filter, cur - 1)
           /\ Linked(filter, cur + 1)
           /\ Located(filter, txHeight, cur) /\ Placed(filter, txHeight, cur)

LInv == Offline /\ Idle /\ Reading /\ Written /\ Undoing

-----------------------------------------------------------------------------
(* Located transactions and covered blocks                                 *)

LEMMA LowerLocated ==
    ASSUME NEW f, NEW t, NEW n \in Int, NEW m \in Int, m <= n, Located(f, t, n)
    PROVE  Located(f, t, m)
  BY DEF Located

LEMMA LocatedPlaced ==
    ASSUME NEW f, NEW t, NEW n \in Nat, Located(f, t, n + 1)
    PROVE  Located(f, t, n) /\ Placed(f, t, n)
  <1>1. Located(f, t, n)
    BY LowerLocated
  <1>2. n \in 0..(n + 1 - 1)
    OBVIOUS
  <1>3. Placed(f, t, n)
    BY <1>2 DEF Located, Placed
  <1> QED
    BY <1>1, <1>3

LEMMA NothingLocated ==
    ASSUME NEW f, NEW t, NEW n \in Int, n <= 0
    PROVE  Located(f, t, n)
  BY DEF Located

(* A chain with a block that follows linked filters has the blocks of all  *)
(* those filters.                                                          *)
LEMMA LinkedAgree ==
    ASSUME NEW c \in Chains, NEW f, NEW n \in Nat, n < Len(c), Linked(f, n),
           Prev[c[n + 1]] = Below(f, n)
    PROVE  Synced(c, f, n - 1)
  <1>1. Len(c) \in Nat
    BY ChainFits
  <1> DEFINE S == {k \in 0..n : \A h \in k..(n - 1) : f[h] = c[h + 1]}
  <1>2. n \in S /\ S \in SUBSET Nat
    OBVIOUS
  <1>3. PICK m \in S : \A k \in S : m <= k
    <2> HIDE DEF S
    <2> QED
      BY <1>2, LowestHeight
  <1>4. m \in 0..n /\ \A h \in m..(n - 1) : f[h] = c[h + 1]
    OBVIOUS
  <1>5. ASSUME m # 0
        PROVE  m - 1 \in S
    <2>1. m + 1 \in 1..Len(c) /\ m - 1 \in 0..(n - 1)
      BY <1>1, <1>4, <1>5
    <2>2. Prev[c[m + 1]] = c[m]
      BY <1>4, <1>5, <2>1, ChainLinked
    <2>3. Prev[c[m + 1]] = Below(f, m)
      <3>1. CASE m = n
        BY <3>1
      <3>2. CASE m # n
        <4>1. m \in m..(n - 1) /\ m \in 0..(n - 1)
          BY <1>4, <3>2
        <4>2. f[m] = c[m + 1] /\ Prev[f[m]] = Below(f, m)
          BY <1>4, <4>1 DEF Linked
        <4> QED
          BY <4>2
      <3> QED
        BY <3>1, <3>2
    <2>4. f[m - 1] = c[m]
      BY <1>5, <2>2, <2>3 DEF Below
    <2>5. ASSUME NEW h \in (m - 1)..(n - 1)
          PROVE  f[h] = c[h + 1]
      <3>1. CASE h = m - 1
        <4>1. h + 1 = m
          BY <1>4, <3>1
        <4> QED
          BY <2>4, <3>1, <4>1
      <3>2. CASE h # m - 1
        <4>1. h \in m..(n - 1)
          BY <1>4, <3>2
        <4> QED
          BY <1>4, <4>1
      <3> QED
        BY <3>1, <3>2
    <2> QED
      BY <1>4, <2>1, <2>5
  <1>6. m = 0
    <2> HIDE DEF S
    <2>1. m # 0 => m <= m - 1
      BY <1>3, <1>5
    <2> QED
      BY <1>4, <2>1
  <1>7. \A h \in 0..(n - 1) : h < Len(c) /\ f[h] = c[h + 1]
    BY <1>1, <1>4, <1>6
  <1> QED
    BY <1>7 DEF Synced

(* Facts every step needs                                                  *)
LEMMA KillFacts ==
    ASSUME ~Stops, TInv, KInv
    PROVE  /\ flag = FALSE /\ main # "wait" /\ pc # "stopped"
           /\ main \in Startup <=> pc = "off"
           /\ cur \in Nat /\ cur \in Word /\ chain \in Chains /\ chain \in Seq(Block)
           /\ Len(chain) \in 1..MaxWord
           /\ scanned \in Word \cup {NoHeight}
           /\ scanned \in Int /\ scanned + 1 \in Nat
           /\ roll \in Seq(RollItem) /\ Len(roll) \in Nat /\ Room \in 0..Len(roll)
           /\ filter \in [Word -> Block \cup {NoBlock}]
           /\ txHeight \in [Tx -> Word \cup {NoHeight}]
  <1>1. /\ cur \in Word /\ chain \in Chains /\ scanned \in Word \cup {NoHeight}
        /\ roll \in Seq(RollItem) /\ flag \in BOOLEAN
        /\ filter \in [Word -> Block \cup {NoBlock}]
        /\ txHeight \in [Tx -> Word \cup {NoHeight}]
    BY DEF TInv, TypeOK
  <1>2. flag = FALSE /\ main # "wait" /\ pc # "stopped" /\ (main \in Startup <=> pc = "off")
    BY <1>1 DEF KInv, Threads
  <1>3. chain \in Seq(Block) /\ Len(chain) \in 1..MaxWord
    BY <1>1, ChainFits
  <1>4. Len(roll) \in Nat /\ Len(roll) <= RollbackSize
    BY <1>1 DEF TInv, RollsBounded
  <1>5. Room \in 0..Len(roll)
    BY <1>4 DEF Room
  <1> QED
    BY <1>1, <1>2, <1>3, <1>4, <1>5 DEF Word, NoHeight

(* Without shutdowns the items are of the blocks stored just below, and    *)
(* the last block is the one to compare with.                              *)
LEMMA OnlyExact ==
    ASSUME ~Stops, NEW f, NEW s, NEW n, Describes(f, s, n), NEW i \in 1..Len(s)
    PROVE  i <= n /\ s[i].added = Adds[f[n - i]] /\ s[i].prevHeight = Minus(n - i, 1)
  <1>1. i <= n /\ Fits(f, s[i], n - i)
    BY DEF Describes, Exact
  <1> QED
    BY <1>1 DEF Fits


-----------------------------------------------------------------------------
(* The first start and the node                                            *)

LEMMA InitLInv == Init => LInv
  BY DEF Init, LInv, Offline, Idle, Reading, Written, Undoing, WorkPC, Midway

LEMMA GrowsKeepsLInv == ASSUME ~Stops, TInv, KInv, LInv, NodeGrows PROVE LInv'
  <1>1. UNCHANGED <<scanned, filter, txHeight, roll, main, pc, cur, blk>>
    BY DEF NodeGrows, disk, local, utxo
  <1>2. TypeOK
    BY DEF TInv
  <1>3. \A n : Synced(chain, filter, n) => Synced(chain', filter, n)
    BY <1>2, GrowsSynced
  <1>4. Room' = Room /\ Kept' = Kept
    BY <1>1 DEF Room, Kept
  <1>5. Offline' /\ Idle'
    BY <1>1, <1>3 DEF LInv, Offline, Idle, Covers, Stored
  <1>6. Reading' /\ Written'
    BY <1>1, <1>3, <1>4 DEF LInv, Reading, Written, Covers, CoversNext
  <1>7. Undoing'
    BY <1>1, <1>3, <1>4 DEF LInv, Undoing
  <1> QED
    BY <1>5, <1>6, <1>7 DEF LInv

(* A covered fork leaves the blocks below the reach of the sequence.       *)
LEMMA ReorgKeepsLInv == ASSUME ~Stops, TInv, KInv, LInv, NodeReorgs PROVE LInv'
  <1>1. UNCHANGED <<scanned, filter, txHeight, roll, main, pc, cur, blk>>
    BY DEF NodeReorgs, disk, local, utxo
  <1>2. Covered(chain') /\ main = "run"
    <2>1. ~Fault("deepReorg")
      BY NoOtherFault DEF KInv, Stopping, FaultKind
    <2> QED
      BY <2>1 DEF NodeReorgs, Covered
  <1>3. pc \notin {"off", "stopped"}
    BY <1>2, KillFacts DEF Startup
  <1>4. /\ Heading \in Int /\ Reach \in 0..Room /\ Room \in 0..Len(roll)
        /\ Len(roll) \in Nat /\ cur \in Nat /\ scanned \in Int /\ scanned + 1 \in Nat
        /\ pc \in {"addSpent", "addLast"} => Reach = Room
    BY KillFacts DEF Heading, Reach, Room, NoHeight, Word
  <1>5. ASSUME NEW n \in Int, n < Heading - Reach
        PROVE  Synced(chain', filter, n)
    BY <1>2, <1>4, <1>5 DEF Covered, Synced
  <1>6. Room' = Room /\ Kept' = Kept
    BY <1>1 DEF Room, Kept
  <1>7. Offline'
    BY <1>1, <1>3 DEF Offline
  <1>8. Idle'
    <2>1. pc \in {"iter", "delay"} => Heading = scanned + 1
      BY <1>4 DEF Heading, NoHeight
    <2>2. pc \in {"iter", "delay"} => Synced(chain', filter, scanned + 1 - Len(roll) - 1)
      <3> DEFINE n == scanned + 1 - Len(roll) - 1
      <3>1. n \in Int /\ (Heading = scanned + 1 => n < Heading - Reach)
        BY <1>4
      <3> QED
        BY <1>5, <2>1, <3>1
    <2>3. pc \in {"iter", "delay"} => Covers(scanned + 1)'
      BY <1>1, <1>4, <2>2 DEF Covers
    <2> QED
      BY <1>1, <2>3 DEF LInv, Idle
  <1>9. pc \in WorkPC => /\ Synced(chain', filter, cur - Len(roll) - 1)
                         /\ Synced(chain', filter, cur - Room - 1)
    <2> SUFFICES ASSUME pc \in WorkPC
                 PROVE  /\ Synced(chain', filter, cur - Len(roll) - 1)
                        /\ Synced(chain', filter, cur - Room - 1)
      OBVIOUS
    <2>1. Heading = cur
      BY DEF Heading, WorkPC
    <2>2. /\ cur - Len(roll) - 1 \in Int /\ cur - Len(roll) - 1 < Heading - Reach
          /\ cur - Room - 1 \in Int /\ cur - Room - 1 < Heading - Reach
      BY <1>4, <2>1
    <2> QED
      BY <1>5, <2>2
  <1>10. Reading'
    BY <1>1, <1>6, <1>9 DEF LInv, Reading, Covers, CoversNext
  <1>11. Written'
    <2>1. pc = "addRoll" => Synced(chain', filter, cur - Room - 1)
      <3>1. pc = "addRoll" => Heading = cur
        BY DEF Heading
      <3>2. cur - Room - 1 \in Int /\ (Heading = cur => cur - Room - 1 < Heading - Reach)
        BY <1>4
      <3> QED
        BY <1>5, <3>1, <3>2
    <2>2. pc \in {"addSpent", "addLast"} => Synced(chain', filter, cur + 1 - Len(roll) - 1)
      <3>1. pc \in {"addSpent", "addLast"} => Heading = cur + 1
        BY DEF Heading
      <3> DEFINE n == cur + 1 - Len(roll) - 1
      <3>2. n \in Int /\ (Heading = cur + 1 => n < Heading - Reach)
        BY <1>4
      <3> QED
        BY <1>5, <3>1, <3>2
    <2>3. pc = "addRoll" => CoversNext'
      BY <1>1, <1>6, <2>1 DEF CoversNext
    <2>4. pc \in {"addSpent", "addLast"} => Covers(cur + 1)'
      BY <1>1, <1>4, <2>2 DEF Covers
    <2> QED
      BY <1>1, <2>3, <2>4 DEF LInv, Written
  <1>12. Undoing'
    <2>1. pc \in Midway \cup {"rollRestart"} => Heading = cur
      BY DEF Heading, Midway
    <2>2. pc \in Midway => Synced(chain', filter, Kept - 1)
      <3>1. Kept - 1 \in Int /\ (Heading = cur => Kept - 1 < Heading - Reach)
        BY <1>4 DEF Kept
      <3> QED
        BY <1>5, <2>1, <3>1
    <2>3. pc = "rollRestart" => Synced(chain', filter, cur - 1)
      <3>1. pc = "rollRestart" => Len(roll) = 0
        BY DEF KInv, Reverting
      <3>2. cur - 1 \in Int /\ (Heading = cur /\ Len(roll) = 0 => cur - 1 < Heading - Reach)
        BY <1>4
      <3> QED
        BY <1>5, <2>1, <3>1, <3>2
    <2> QED
      BY <1>1, <1>6, <2>2, <2>3 DEF LInv, Undoing
  <1> QED
    BY <1>7, <1>8, <1>10, <1>11, <1>12 DEF LInv

-----------------------------------------------------------------------------
(* The loop and blockInfo                                                  *)

LEMMA LoopKeepsLInv ==
    ASSUME ~Stops, TInv, KInv, LInv, ScanIteration \/ ScanOverflow \/ Go \/ Delay
    PROVE  LInv'
  <1>1. UNCHANGED <<chain, scanned, filter, txHeight, roll, main>>
    BY DEF ScanIteration, ScanOverflow, Go, Delay, disk, utxo
  <1>2. /\ flag = FALSE /\ scanned \in Int /\ cur \in Nat /\ Len(roll) \in Nat
        /\ main \notin Startup /\ pc # "off"
    BY KillFacts DEF ScanIteration, ScanOverflow, Go, Delay
  <1>3. CASE ScanIteration
    <2>1. pc = "iter" /\ pc' = "go" /\ scanned # MaxWord /\ cur' = scanned + 1
      BY <1>3 DEF ScanIteration, Next0, Goto, NoHeight
    <2>2. Covers(scanned + 1) /\ Located(filter, txHeight, scanned + 1)
      BY <2>1 DEF LInv, Idle
    <2>3. Covers(cur)' /\ scanned' # cur'
      BY <1>1, <1>2, <2>1, <2>2 DEF Covers
    <2>4. Reading'
      BY <1>1, <2>1, <2>2, <2>3 DEF Reading, WorkPC
    <2> QED
      BY <2>1, <2>4 DEF LInv, Offline, Idle, Written, Undoing, Midway
  <1>4. CASE ScanOverflow
    BY <1>2, <1>4 DEF ScanOverflow
  <1>5. CASE Go
    <2>1. pc = "go" /\ cur' = cur /\ (pc' = "fetch" \/ (pc' = "delay" /\ ~(cur <= Tip)))
      BY <1>2, <1>5 DEF Go, Next0, Goto, local
    <2>2. /\ Located(filter, txHeight, cur) /\ Covers(cur)
          /\ scanned = cur => Linked(filter, cur + 1) /\ Placed(filter, txHeight, cur)
      BY <2>1 DEF LInv, Reading, WorkPC
    <2>3. Covers(cur)'
      BY <1>1, <2>1, <2>2 DEF Covers
    <2>4. CASE pc' = "fetch"
      <3>1. Reading'
        BY <1>1, <2>1, <2>2, <2>3, <2>4 DEF Reading, WorkPC
      <3> QED
        BY <2>4, <3>1 DEF LInv, Offline, Idle, Written, Undoing, Midway
    <2>5. CASE pc' = "delay"
      <3>1. scanned = cur - 1
        BY <2>1, <2>5 DEF KInv, Working
      <3>2. scanned + 1 = cur
        BY <1>2, <3>1
      <3>3. Covers(scanned + 1)' /\ Located(filter, txHeight, scanned + 1)'
        BY <1>1, <1>2, <2>2, <3>2 DEF Covers
      <3> QED
        BY <2>5, <3>3 DEF LInv, Offline, Idle, Reading, WorkPC, Written, Undoing, Midway
    <2> QED
      BY <2>1, <2>4, <2>5
  <1>6. CASE Delay
    <2>1. pc = "delay" /\ pc' = "iter"
      BY <1>2, <1>6 DEF Delay, Next0, Goto
    <2>2. Idle'
      BY <1>1, <2>1 DEF LInv, Idle, Covers
    <2> QED
      BY <2>1, <2>2 DEF LInv, Offline, Reading, WorkPC, Written, Undoing, Midway
  <1> QED
    BY <1>3, <1>4, <1>5, <1>6

(* A block that follows the filters has the node's chain below it: the     *)
(* sequence, with the block in it, reaches that chain.                     *)
LEMMA FetchKeepsLInv == ASSUME ~Stops, TInv, KInv, LInv, Fetch PROVE LInv'
  <1>1. /\ pc = "fetch" /\ pc' = "resolve" /\ cur <= Tip /\ blk' = chain[cur + 1]
        /\ UNCHANGED <<chain, scanned, filter, txHeight, roll, main, cur>>
    BY DEF Fetch, Next0, Goto, BlockAt, disk, utxo
  <1>2. cur \in Nat /\ chain \in Chains /\ cur < Len(chain) /\ Len(roll) \in Nat
        /\ Room \in 0..Len(roll)
    BY <1>1, KillFacts DEF Tip
  <1>3. /\ Located(filter, txHeight, cur) /\ Covers(cur) /\ Linked(filter, cur)
        /\ scanned = cur => Linked(filter, cur + 1) /\ Placed(filter, txHeight, cur)
    BY <1>1 DEF LInv, Reading, WorkPC, KInv, Working, Ground
  <1>4. roll = <<>> => Prev[blk'] = Below(filter, cur)
    <2>1. roll = <<>> => cur - Len(roll) - 1 = cur - 1
      BY <1>2
    <2>2. roll = <<>> => Synced(chain, filter, cur - 1)
      BY <1>3, <2>1 DEF Covers
    <2> QED
      BY <1>1, <1>2, <2>2, SyncedContinues
  <1>5. Prev[blk'] = Below(filter, cur) => CoversNext
    <2>1. cur - Room - 1 \in Int /\ cur - 1 \in Int /\ cur - Room - 1 <= cur - 1
      BY <1>2
    <2>2. Prev[blk'] = Below(filter, cur) => Synced(chain, filter, cur - 1)
      BY <1>1, <1>2, <1>3, LinkedAgree
    <2> QED
      BY <2>1, <2>2, LowerSynced DEF CoversNext
  <1>6. Covers(cur)' /\ CoversNext' = CoversNext
    BY <1>1, <1>3 DEF Covers, CoversNext, Room
  <1>7. Reading'
    BY <1>1, <1>3, <1>4, <1>5, <1>6 DEF Reading, WorkPC
  <1> QED
    BY <1>1, <1>7 DEF LInv, Offline, Idle, Written, Undoing, Midway

(* spentTxSource finds every transaction that a block following the node's *)
(* filters spends.                                                         *)
LEMMA SpentFound ==
    ASSUME ValidSpends, ~Stops, TInv, KInv, LInv, pc = "resolve", roll = <<>>,
           NEW x \in FromNode(blk)
    PROVE  NodeHas(x)
  <1>1. cur \in Nat /\ chain \in Chains /\ cur <= Tip /\ Tip = Len(chain) - 1
        /\ Len(chain) \in Nat
    <2>1. cur <= Tip
      BY DEF KInv, Working
    <2> QED
      BY <2>1, KillFacts DEF Tip
  <1>2. PICK c \in Chains : cur < Len(c) /\ blk = c[cur + 1]
    BY DEF KInv, InHand
  <1>3. /\ Located(filter, txHeight, cur) /\ Covers(cur) /\ Linked(filter, cur)
        /\ Prev[blk] = Below(filter, cur)
    BY DEF LInv, Reading, WorkPC, KInv, Working, Ground
  <1>4. Synced(chain, filter, cur - 1)
    <2>1. cur - Len(roll) - 1 = cur - 1
      BY <1>1
    <2> QED
      BY <1>3, <2>1 DEF Covers
  <1>5. Synced(c, filter, cur - 1)
    BY <1>1, <1>2, <1>3, LinkedAgree
  <1>6. x \in Tx /\ x \notin Adds[blk] /\ Spends[blk][x] > 0
    BY DEF FromNode
  <1>7. PICK j \in 1..(cur + 1) : x \in Adds[c[j]]
    <2>1. cur + 1 \in 1..Len(c)
      BY <1>1, <1>2, ChainFits
    <2> QED
      BY <1>2, <1>6, <2>1 DEF ValidSpends
  <1>8. j - 1 \in 0..(cur - 1) /\ j - 1 + 1 = j
    <2>1. j # cur + 1
      BY <1>2, <1>6, <1>7
    <2> QED
      BY <1>1, <2>1
  <1>9. filter[j - 1] = c[j] /\ filter[j - 1] = chain[j]
    BY <1>4, <1>5, <1>8 DEF Synced
  <1>10. txHeight[x] = j - 1
    BY <1>3, <1>7, <1>8, <1>9 DEF Located
  <1>11. j - 1 \in 0..Tip
    BY <1>1, <1>8
  <1> QED
    BY <1>7, <1>8, <1>9, <1>10, <1>11 DEF NodeHas, BlockAt

LEMMA ResolveKeepsLInv ==
    ASSUME ValidSpends, ~Stops, TInv, KInv, LInv, Resolve \/ ResolveFails
    PROVE  LInv'
  <1>1. /\ pc = "resolve" /\ pc' \in {"decide", "rollLast"}
        /\ UNCHANGED <<chain, scanned, filter, txHeight, roll, main, cur, blk>>
    BY DEF Resolve, ResolveFails, Next0, Goto, local, disk, utxo
  <1>2. pc' = "rollLast" => roll # <<>>
    BY <1>1, SpentFound DEF Resolve, ResolveFails, Next0, Goto
  <1>3. Covers(cur)' = Covers(cur) /\ CoversNext' = CoversNext
    BY <1>1 DEF Covers, CoversNext, Room
  <1>4. Reading'
    BY <1>1, <1>2, <1>3 DEF LInv, Reading, WorkPC
  <1> QED
    BY <1>1, <1>4 DEF LInv, Offline, Idle, Written, Undoing, Midway

(* A fork is detected only above blocks that the sequence can take back.   *)
LEMMA DecideKeepsLInv == ASSUME ~Stops, TInv, KInv, KInv', LInv, Decide PROVE LInv'
  <1>1. /\ pc = "decide" /\ pc' = (IF PreviousSame THEN "addTxs" ELSE "rollLast")
        /\ UNCHANGED <<chain, scanned, filter, txHeight, roll, main, cur, blk>>
    BY KillFacts DEF Decide, Next0, Goto, local, disk, utxo
  <1>2. pc' = "addTxs" => Prev[blk] = Below(filter, cur)
    BY <1>1 DEF KInv, InHand
  <1>3. pc' = "rollLast" => roll # <<>>
    <2> SUFFICES ASSUME ~PreviousSame, roll = <<>> PROVE FALSE
      BY <1>1
    <2>1. Prev[blk] = Below(filter, cur)
      BY <1>1 DEF LInv, Reading, WorkPC
    <2>2. lastScanned \in {Below(filter, cur), NoBlock}
      BY <1>1 DEF KInv, Working, LastOk
    <2> QED
      BY <2>1, <2>2 DEF PreviousSame
  <1>4. Covers(cur)' = Covers(cur) /\ CoversNext' = CoversNext
    BY <1>1 DEF Covers, CoversNext, Room
  <1>5. Reading'
    BY <1>1, <1>2, <1>3, <1>4 DEF LInv, Reading, WorkPC
  <1> QED
    BY <1>1, <1>5 DEF LInv, Offline, Idle, Written, Undoing, Midway

-----------------------------------------------------------------------------
(* addBlockInfo                                                            *)

(* The transactions of the block get its height, and those of the blocks   *)
(* below are others.                                                       *)
LEMMA AddTxsKeepsLInv ==
    ASSUME NoRepeats, ~Stops, TInv, KInv, LInv, AddTxs
    PROVE  LInv'
  <1>1. /\ pc = "addTxs" /\ pc' = "addFilter"
        /\ txHeight' = [x \in Tx |-> IF x \in Adds[blk] THEN cur ELSE txHeight[x]]
        /\ UNCHANGED <<chain, scanned, filter, roll, main, cur, blk>>
    BY DEF AddTxs, Next0, Goto, local
  <1>2. cur \in Nat /\ blk \in Block
    BY <1>1, FlightFacts DEF InFlight
  <1>3. /\ Located(filter, txHeight, cur) /\ CoversNext /\ Linked(filter, cur)
        /\ Prev[blk] = Below(filter, cur)
        /\ scanned = cur => Linked(filter, cur + 1) /\ Placed(filter, txHeight, cur)
    BY <1>1 DEF LInv, Reading, WorkPC, KInv, Working, Ground, InHand
  <1>4. Adds[blk] \subseteq Tx /\ \A h \in 0..(cur - 1) : Adds[filter[h]] \subseteq Tx
    BY <1>2, <1>3 DEF Linked
  <1>5. \A x \in Adds[blk] : txHeight'[x] = cur
    BY <1>1, <1>4
  <1>6. Located(filter, txHeight', cur)
    <2> SUFFICES ASSUME NEW h \in 0..(cur - 1), NEW x \in Adds[filter[h]]
                 PROVE  txHeight'[x] = h
      BY DEF Located
    <2>1. Adds[filter[h]] \cap Adds[blk] = {}
      BY <1>2, <1>3, Apart
    <2>2. x \in Tx /\ x \notin Adds[blk] /\ txHeight[x] = h
      BY <1>3, <1>4, <2>1 DEF Located
    <2> QED
      BY <1>1, <2>2
  <1>7. scanned = cur => Placed(filter, txHeight', cur)
    <2> SUFFICES ASSUME scanned = cur, NEW x \in Adds[filter[cur]]
                 PROVE  txHeight'[x] \in {cur, NoHeight}
      BY DEF Placed
    <2>1. filter[cur] \in Block
      BY <1>2, <1>3 DEF Linked
    <2>2. x \in Tx /\ txHeight[x] \in {cur, NoHeight}
      BY <1>3, <2>1 DEF Placed
    <2> QED
      BY <1>1, <2>2
  <1>8. CoversNext'
    BY <1>1, <1>3 DEF CoversNext, Room
  <1>9. Reading'
    BY <1>1, <1>3, <1>5, <1>6, <1>7, <1>8 DEF Reading, WorkPC
  <1> QED
    BY <1>1, <1>9 DEF LInv, Offline, Idle, Written, Undoing, Midway

LEMMA AddFilterKeepsLInv == ASSUME ~Stops, TInv, KInv, LInv, AddFilter PROVE LInv'
  <1>1. /\ pc = "addFilter" /\ pc' = "addRoll"
        /\ filter' = [filter EXCEPT ![cur] = blk]
        /\ UNCHANGED <<chain, txHeight, roll, main, cur, blk>>
    BY DEF AddFilter, Next0, Goto, local, utxo
  <1>2. cur \in Nat /\ cur \in Word /\ filter \in [Word -> Block \cup {NoBlock}]
        /\ Room \in Nat
    BY KillFacts
  <1>3. /\ Located(filter, txHeight, cur) /\ CoversNext
        /\ \A x \in Adds[blk] : txHeight[x] = cur
    BY <1>1 DEF LInv, Reading, WorkPC
  <1>4. filter'[cur] = blk /\ \A h \in 0..(cur - 1) : filter'[h] = filter[h]
    BY <1>1, <1>2 DEF Word
  <1>5. Located(filter', txHeight, cur + 1)
    <2> SUFFICES ASSUME NEW h \in 0..cur, NEW x \in Adds[filter'[h]]
                 PROVE  txHeight[x] = h
      BY <1>2 DEF Located
    <2>1. h # cur => h \in 0..(cur - 1)
      BY <1>2
    <2> QED
      BY <1>3, <1>4, <2>1 DEF Located
  <1>6. Synced(chain, filter', cur - Room - 1)
    <2> SUFFICES ASSUME NEW h \in 0..(cur - Room - 1)
                 PROVE  h < Len(chain) /\ filter'[h] = chain[h + 1]
      BY DEF Synced
    <2>1. h \in 0..(cur - 1)
      BY <1>2
    <2> QED
      BY <1>3, <1>4, <2>1 DEF CoversNext, Synced
  <1>7. CoversNext'
    BY <1>1, <1>6 DEF CoversNext, Room
  <1>8. Written'
    BY <1>1, <1>5, <1>7 DEF Written
  <1> QED
    BY <1>1, <1>8 DEF LInv, Offline, Idle, Reading, WorkPC, Undoing, Midway

(* insertBtcRollback drops at most the oldest item.                        *)
LEMMA AddRollKeepsLInv == ASSUME ~Stops, TInv, KInv, LInv, AddRoll PROVE LInv'
  <1>1. /\ pc = "addRoll" /\ pc' = "addSpent" /\ roll' = <<Item>> \o SubSeq(roll, 1, Room)
        /\ UNCHANGED <<chain, scanned, filter, txHeight, main, cur, blk>>
    BY DEF AddRoll, Next0, Goto, local, disk, utxo, Room
  <1>2. cur \in Nat /\ roll \in Seq(RollItem) /\ Room \in 0..Len(roll)
    BY KillFacts
  <1>3. Item \in RollItem
    <2>1. cur \in Word /\ blk \in Block
      BY <1>1, FlightFacts DEF InFlight
    <2> QED
      BY <2>1, MinusInWord DEF Item, RollItem
  <1>4. Len(roll') = Room + 1
    <2>1. SubSeq(roll, 1, Room) \in Seq(RollItem) /\ Len(SubSeq(roll, 1, Room)) = Room
      BY <1>2
    <2> QED
      BY <1>1, <1>2, <1>3, <2>1
  <1>5. Located(filter, txHeight, cur + 1) /\ CoversNext
    BY <1>1 DEF LInv, Written
  <1>6. Covers(cur + 1)'
    <2>1. cur + 1 - Len(roll') - 1 = cur - Room - 1
      BY <1>2, <1>4
    <2>2. Synced(chain, filter, cur + 1 - Len(roll') - 1)
      BY <1>5, <2>1 DEF CoversNext
    <2>3. chain' = chain /\ filter' = filter /\ cur' = cur
      BY <1>1
    <2> QED
      BY <1>2, <1>4, <2>2, <2>3 DEF Covers
  <1>7. Written'
    BY <1>1, <1>5, <1>6 DEF Written
  <1> QED
    BY <1>1, <1>7 DEF LInv, Offline, Idle, Reading, WorkPC, Undoing, Midway

LEMMA AddLastKeepsLInv ==
    ASSUME ~Stops, TInv, KInv, LInv, AddSpent \/ AddLast
    PROVE  LInv'
  <1>1. /\ UNCHANGED <<chain, scanned, filter, txHeight, roll, main, blk>>
        /\ pc \in {"addSpent", "addLast"}
    BY DEF AddSpent, AddLast, local, utxo
  <1>2. /\ cur \in Nat /\ scanned = cur /\ Len(roll) \in Nat
        /\ Located(filter, txHeight, cur + 1) /\ Covers(cur + 1)
    BY <1>1, KillFacts DEF KInv, Storing, LInv, Written
  <1>3. CASE AddSpent
    <2>1. pc' = "addLast" /\ cur' = cur
      BY <1>3 DEF AddSpent, Next0, Goto, local
    <2>2. Covers(cur + 1)'
      BY <1>1, <1>2, <2>1 DEF Covers
    <2>3. Written'
      BY <1>1, <1>2, <2>1, <2>2 DEF Written
    <2> QED
      BY <2>1, <2>3 DEF LInv, Offline, Idle, Reading, WorkPC, Undoing, Midway
  <1>4. CASE AddLast
    <2>1. pc' = "go" /\ cur' = cur + 1
      BY <1>4 DEF AddLast, Next0, Goto
    <2>2. Covers(cur)' /\ scanned' # cur'
      BY <1>1, <1>2, <2>1 DEF Covers
    <2>3. Reading'
      BY <1>1, <1>2, <2>1, <2>2 DEF Reading, WorkPC
    <2> QED
      BY <2>1, <2>3 DEF LInv, Offline, Idle, Written, Undoing, Midway
  <1> QED
    BY <1>3, <1>4

-----------------------------------------------------------------------------
(* performBtcRollback and setScannedHeight restart                         *)

LEMMA RollHeightKeepsLInv ==
    ASSUME ~Stops, TInv, KInv, LInv, RollLast \/ RollHeight
    PROVE  LInv'
  <1>1. /\ pc \in {"rollLast", "rollHeight"}
        /\ UNCHANGED <<chain, filter, txHeight, roll, main, cur, blk>>
    BY DEF RollLast, RollHeight, local, utxo
  <1>2. /\ Located(filter, txHeight, cur) /\ Covers(cur) /\ roll # <<>>
        /\ scanned = cur => Linked(filter, cur + 1) /\ Placed(filter, txHeight, cur)
    BY <1>1 DEF LInv, Reading, WorkPC
  <1>3. CASE RollLast
    <2>1. pc' = "rollHeight" /\ scanned' = scanned
      BY <1>3 DEF RollLast, Next0, Goto
    <2>2. Covers(cur)'
      BY <1>1, <1>2 DEF Covers
    <2>3. Reading'
      BY <1>1, <1>2, <2>1, <2>2 DEF Reading, WorkPC
    <2> QED
      BY <2>1, <2>3 DEF LInv, Offline, Idle, Written, Undoing, Midway
  <1>4. CASE RollHeight
    <2>1. pc' = "rollTxs"
      BY <1>4 DEF RollHeight, Next0, Goto
    <2>2. Synced(chain, filter, Kept - 1)'
      BY <1>1, <1>2 DEF Covers, Kept
    <2>3. Undoing'
      BY <1>1, <1>2, <2>1, <2>2 DEF Undoing, Midway
    <2> QED
      BY <2>1, <2>3 DEF LInv, Offline, Idle, Reading, WorkPC, Written
  <1> QED
    BY <1>3, <1>4

(* The transactions taken back are those of the blocks from Kept on.       *)
LEMMA RollTxsKeepsLInv ==
    ASSUME NoRepeats, ~Stops, TInv, KInv, LInv, RollTxs
    PROVE  LInv'
  <1> DEFINE gone == UNION {roll[i].added : i \in DOMAIN roll}
  <1>1. /\ pc = "rollTxs" /\ pc' = "rollSaved"
        /\ txHeight' = [x \in Tx |-> IF x \in gone THEN NoHeight ELSE txHeight[x]]
        /\ UNCHANGED <<chain, filter, roll, main, cur, blk>>
    BY DEF RollTxs, Next0, Goto, local
  <1>2. /\ cur \in Nat /\ Linked(filter, cur) /\ Kept \in 0..cur
        /\ Describes(filter, roll, cur) /\ Len(roll) \in Nat /\ Kept = cur - Len(roll)
        /\ roll \in Seq(RollItem)
    BY <1>1, RollFacts, KillFacts DEF RollPC, Kept
  <1>3. /\ roll # <<>> /\ Synced(chain, filter, Kept - 1)
        /\ Located(filter, txHeight, cur) /\ Kept < cur
    BY <1>1, RollFacts DEF LInv, Undoing, Midway, RollPC
  <1>4. Located(filter, txHeight', Kept)
    <2> SUFFICES ASSUME NEW h \in 0..(Kept - 1), NEW x \in Adds[filter[h]]
                 PROVE  txHeight'[x] = h
      BY DEF Located
    <2>1. h \in 0..(cur - 1) /\ filter[h] \in Block /\ x \in Tx /\ txHeight[x] = h
      BY <1>2, <1>3 DEF Linked, Located
    <2>2. ASSUME NEW i \in 1..Len(roll), x \in roll[i].added
          PROVE  FALSE
      <3>1. i <= cur /\ x \in Adds[filter[cur - i]]
        BY <1>2, <2>2, OnlyExact
      <3>2. /\ cur - i \in Nat /\ cur - i < cur /\ cur - i \in 0..(cur - 1)
            /\ h \in 0..(cur - i - 1) /\ cur - i <= cur /\ cur - i \in Int /\ cur \in Int
        <4> DEFINE n == Len(roll)
        <4>1. n \in Nat /\ i \in 1..n /\ h \in 0..(cur - n - 1)
          BY <1>2, <2>2
        <4> HIDE DEF n
        <4>2. cur \in Nat /\ i \in Nat /\ 1 <= i /\ i <= n /\ i <= cur
          BY <1>2, <3>1, <4>1
        <4> QED
          BY <4>1, <4>2
      <3>3. /\ filter[cur - i] \in Block
            /\ Prev[filter[cur - i]] = Below(filter, cur - i)
            /\ Linked(filter, cur - i)
        BY <1>2, <3>2, LowerLinked DEF Linked
      <3>4. Adds[filter[h]] \cap Adds[filter[cur - i]] = {}
        BY <3>2, <3>3, Apart
      <3> QED
        BY <3>1, <3>4
    <2>3. x \notin gone
      BY <1>2, <2>2
    <2> QED
      BY <1>1, <2>1, <2>3
  <1>5. Placed(filter, txHeight', Kept)
    <2> SUFFICES ASSUME NEW x \in Adds[filter[Kept]]
                 PROVE  txHeight'[x] \in {Kept, NoHeight}
      BY DEF Placed
    <2>1. Kept \in 0..(cur - 1)
      BY <1>2, <1>3
    <2>2. x \in Tx /\ txHeight[x] = Kept
      BY <1>2, <1>3, <2>1 DEF Linked, Located
    <2> QED
      BY <1>1, <2>2
  <1>6. Kept' = Kept
    BY <1>1 DEF Kept
  <1>7. Undoing'
    BY <1>1, <1>3, <1>4, <1>5, <1>6 DEF Undoing, Midway
  <1> QED
    BY <1>1, <1>7 DEF LInv, Offline, Idle, Reading, WorkPC, Written

(* The loop goes on from the height below which all is the node's.         *)
LEMMA RollVarKeepsLInv ==
    ASSUME ~Stops, TInv, KInv, LInv, RollSaved \/ RollVar
    PROVE  LInv'
  <1>1. /\ pc \in {"rollSaved", "rollVar"}
        /\ UNCHANGED <<chain, scanned, filter, txHeight, main, blk>>
    BY DEF RollSaved, RollVar, local, disk, utxo
  <1>2. /\ roll # <<>> /\ Synced(chain, filter, Kept - 1)
        /\ Located(filter, txHeight, Kept) /\ Placed(filter, txHeight, Kept)
    BY <1>1 DEF LInv, Undoing, Midway
  <1>3. CASE RollSaved
    <2>1. pc' = "rollVar" /\ roll' = roll /\ Kept' = Kept
      BY <1>3 DEF RollSaved, Next0, Goto, local, Kept
    <2>2. Undoing'
      BY <1>1, <1>2, <2>1 DEF Undoing, Midway
    <2> QED
      BY <2>1, <2>2 DEF LInv, Offline, Idle, Reading, WorkPC, Written
  <1>4. CASE RollVar
    <2>1. pc' = "rollRestart" /\ cur' = Restart
      BY <1>4 DEF RollVar, Next0, Goto
    <2>2. /\ cur \in Nat /\ Len(roll) \in 0..cur /\ Linked(filter, cur)
          /\ Kept \in 0..cur /\ Kept < cur
      BY <1>1, <1>2, RollFacts DEF RollPC
    <2>3. cur' = Kept
      BY <2>1, <2>2 DEF Restart, Minus, Kept
    <2>4. Linked(filter, Kept + 1)
      BY <2>2, LowerLinked
    <2>5. Undoing'
      BY <1>1, <1>2, <2>1, <2>3, <2>4 DEF Undoing, Midway
    <2> QED
      BY <2>1, <2>5 DEF LInv, Offline, Idle, Reading, WorkPC, Written
  <1> QED
    BY <1>3, <1>4

LEMMA RollRestartKeepsLInv == ASSUME ~Stops, TInv, KInv, LInv, RollRestart PROVE LInv'
  <1>1. /\ pc = "rollRestart" /\ pc' = "go" /\ scanned' = cur
        /\ UNCHANGED <<chain, filter, txHeight, roll, main, cur, blk>>
    BY DEF RollRestart, Next0, Goto, local, utxo
  <1>2. /\ Synced(chain, filter, cur - 1) /\ Linked(filter, cur + 1)
        /\ Located(filter, txHeight, cur) /\ Placed(filter, txHeight, cur)
        /\ roll = <<>> /\ cur \in Nat
    BY <1>1, KillFacts DEF LInv, Undoing, KInv, Reverting
  <1>3. Covers(cur)'
    <2>1. cur - Len(roll) - 1 = cur - 1
      BY <1>2
    <2>2. Covers(cur)
      BY <1>2, <2>1 DEF Covers
    <2> QED
      BY <1>1, <2>2 DEF Covers
  <1>4. Reading'
    BY <1>1, <1>2, <1>3 DEF Reading, WorkPC
  <1> QED
    BY <1>1, <1>4 DEF LInv, Offline, Idle, Written, Undoing, Midway

-----------------------------------------------------------------------------
(* Kills                                                                   *)

(* Whatever the scanner is doing, the databases are ones a process can     *)
(* start on: the check and the repair at startup need no more.             *)
LEMMA StoredAlways ==
    ASSUME ~Stops, TInv, KInv, LInv, scanned \notin {NoHeight, MaxWord}
    PROVE  Stored
  <1>1. /\ scanned \in Nat /\ scanned \in Int /\ cur \in Nat /\ MaxWord \in Nat
        /\ flag = FALSE /\ pc # "stopped" /\ Len(roll) \in Nat
    BY KillFacts DEF Word
  <1>2. ASSUME Linked(filter, scanned + 1), Located(filter, txHeight, scanned + 1)
        PROVE  Stored
    BY <1>1, <1>2, LocatedPlaced DEF Stored
  <1>3. CASE pc = "off"
    BY <1>3 DEF LInv, Offline
  <1>4. CASE pc \in {"iter", "delay"}
    <2>1. Linked(filter, scanned + 1)
      BY <1>1, <1>4 DEF KInv, Waiting, Ground
    <2>2. Located(filter, txHeight, scanned + 1)
      BY <1>4 DEF LInv, Idle
    <2> QED
      BY <1>2, <2>1, <2>2
  <1>5. CASE pc \in WorkPC
    <2>1. /\ Located(filter, txHeight, cur) /\ Linked(filter, cur)
          /\ scanned = cur => Linked(filter, cur + 1) /\ Placed(filter, txHeight, cur)
          /\ scanned = cur - 1 \/ scanned = cur
      BY <1>5 DEF LInv, Reading, KInv, Working, Ground, WorkPC
    <2>2. CASE scanned = cur
      BY <2>1, <2>2 DEF Stored
    <2>3. CASE scanned = cur - 1
      <3>1. scanned + 1 = cur
        BY <1>1, <2>3
      <3> QED
        BY <1>2, <2>1, <3>1
    <2> QED
      BY <2>1, <2>2, <2>3
  <1>6. CASE pc \in {"addRoll", "addSpent", "addLast"}
    BY <1>2, <1>6 DEF LInv, Written, KInv, Storing
  <1>7. CASE pc \in Midway
    <2>1. /\ roll # <<>> /\ Linked(filter, cur) /\ Kept \in Nat /\ Kept < cur
          /\ scanned = Kept - 1
      BY <1>7, RollFacts, MidwayHeight DEF LInv, Undoing, Midway, RollPC
    <2>2. scanned + 1 = Kept /\ scanned + 1 <= cur /\ Kept \in Int /\ cur \in Int
      BY <1>1, <2>1
    <2>3. Linked(filter, scanned + 1)
      BY <2>1, <2>2, LowerLinked
    <2>4. Located(filter, txHeight, scanned + 1)
      <3>1. CASE pc = "rollTxs"
        <4>1. Located(filter, txHeight, cur)
          BY <3>1 DEF LInv, Undoing
        <4> QED
          BY <2>2, <4>1, LowerLocated
      <3>2. CASE pc # "rollTxs"
        BY <1>7, <2>2, <3>2 DEF LInv, Undoing, Midway
      <3> QED
        BY <3>1, <3>2
    <2> QED
      BY <1>2, <2>3, <2>4
  <1>8. CASE pc = "rollRestart"
    <2>1. /\ Linked(filter, cur + 1) /\ Linked(filter, cur)
          /\ Located(filter, txHeight, cur) /\ Placed(filter, txHeight, cur)
          /\ scanned \in {cur, cur - 1, Minus(cur, 1)}
      BY <1>8 DEF LInv, Undoing, KInv, Reverting
    <2>2. CASE scanned = cur
      BY <2>1, <2>2 DEF Stored
    <2>3. CASE scanned = cur - 1
      <3>1. scanned + 1 = cur
        BY <1>1, <2>3
      <3> QED
        BY <1>2, <2>1, <3>1
    <2>4. Minus(cur, 1) \in {cur - 1, MaxWord}
      BY <1>1 DEF Minus
    <2> QED
      BY <2>1, <2>2, <2>3, <2>4
  <1>9. pc \in ScannerPC
    BY DEF TInv, TypeOK
  <1> QED
    BY <1>1, <1>3, <1>4, <1>5, <1>6, <1>7, <1>8, <1>9 DEF ScannerPC, WorkPC, Midway

(* A process is killed only when its filters are the node's.               *)
LEMMA CrashKeepsLInv == ASSUME ~Stops, TInv, KInv, LInv, Crash PROVE LInv'
  <1>1. NoForkPending /\ ProcessEnds
    <2>1. ~Fault("rollCrash")
      BY NoOtherFault DEF KInv, Stopping, FaultKind
    <2> QED
      BY <2>1 DEF Crash
  <1>2. /\ pc' = "off" /\ main' = "down"
        /\ UNCHANGED <<chain, scanned, filter, txHeight>>
    BY <1>1 DEF ProcessEnds, disk, utxo
  <1>3. scanned \notin {NoHeight, MaxWord} => Synced(chain, filter, scanned) /\ Stored
    BY <1>1, StopsSynced, StoredAlways
  <1>4. Offline'
    BY <1>2, <1>3 DEF Offline, Stored
  <1> QED
    BY <1>2, <1>4 DEF LInv, Idle, Reading, WorkPC, Written, Undoing, Midway

-----------------------------------------------------------------------------
(* Startup                                                                 *)

LEMMA CheckKeepsLInv ==
    ASSUME ~Stops, ~SkipHack, TInv, KInv, LInv, Start \/ CheckFresh \/ CheckScanned
    PROVE  LInv'
  <1>1. UNCHANGED <<chain, scanned, filter, txHeight>>
    BY DEF Start, CheckFresh, CheckScanned, disk, utxo
  <1>2. scanned \in Word \cup {NoHeight} /\ scanned \in Int /\ pc = "off"
    BY KillFacts DEF Start, CheckFresh, CheckScanned, Startup
  <1>3. CASE Start
    <2>1. pc' = "off" /\ main' = "check"
      BY <1>3 DEF Start
    <2>2. Offline'
      BY <1>1, <1>2, <2>1 DEF LInv, Offline, Stored
    <2> QED
      BY <2>1, <2>2 DEF LInv, Idle, Reading, WorkPC, Written, Undoing, Midway
  <1>4. CASE CheckFresh
    <2>1. pc' = "iter" /\ scanned = NoHeight /\ roll' = <<>>
      BY <1>4 DEF CheckFresh, Next0, Goto
    <2>2. scanned + 1 = 0 /\ scanned + 1 - Len(roll') - 1 < 0
          /\ scanned + 1 - Len(roll') - 1 \in Int
      BY <1>2, <2>1 DEF NoHeight
    <2>3. Covers(scanned + 1)' /\ Located(filter, txHeight, scanned + 1)'
      BY <1>1, <2>1, <2>2, NothingLocated DEF Covers, Synced
    <2> QED
      BY <2>1, <2>3 DEF LInv, Offline, Idle, Reading, WorkPC, Written, Undoing, Midway
  <1>5. CASE CheckScanned
    <2> DEFINE b == BlockAt(scanned)
    <2>1. /\ main = "check" /\ scanned # NoHeight /\ scanned <= Tip
          /\ main' = (IF DbConsistent(b) THEN "run" ELSE "hackHeight")
          /\ pc' = (IF DbConsistent(b) THEN "iter" ELSE "off")
      BY <1>5 DEF CheckScanned, Next0, Goto
    <2>2. /\ scanned \in Nat /\ scanned # MaxWord /\ scanned \notin {NoHeight, MaxWord}
      BY <1>2, <2>1, KillFacts DEF Tip, Word, NoHeight
    <2>3. /\ Synced(chain, filter, scanned) /\ Linked(filter, scanned + 1)
          /\ Located(filter, txHeight, scanned) /\ Placed(filter, txHeight, scanned)
      BY <1>2, <2>2 DEF LInv, Offline, Stored
    <2>4. CASE DbConsistent(b)
      <3>1. Located(filter, txHeight, scanned + 1)
        <4> SUFFICES ASSUME NEW h \in 0..scanned, NEW x \in Adds[filter[h]]
                     PROVE  txHeight[x] = h
          BY <2>2 DEF Located
        <4>1. CASE h = scanned
          BY <2>3, <2>4, <4>1 DEF DbConsistent, Placed
        <4>2. CASE h # scanned
          <5>1. h \in 0..(scanned - 1)
            BY <2>2, <4>2
          <5> QED
            BY <2>3, <5>1 DEF Located
        <4> QED
          BY <4>1, <4>2
      <3>2. Len(roll') \in Nat
        <4>1. roll' \in Seq(RollItem)
          BY <1>5, CheckedRoll
        <4> QED
          BY <4>1
      <3>3. scanned + 1 - Len(roll') - 1 \in Int /\ scanned + 1 - Len(roll') - 1 <= scanned
        BY <2>2, <3>2
      <3>4. Synced(chain, filter, scanned + 1 - Len(roll') - 1)
        BY <1>2, <2>3, <3>3, LowerSynced
      <3>5. Covers(scanned + 1)'
        BY <1>1, <1>2, <3>2, <3>4 DEF Covers
      <3>6. Idle'
        BY <1>1, <1>2, <3>1, <3>5 DEF Idle
      <3> QED
        BY <2>1, <2>4, <3>6 DEF LInv, Offline, Reading, WorkPC, Written, Undoing, Midway
    <2>5. CASE ~DbConsistent(b)
      <3>1. Offline'
        BY <1>1, <2>1, <2>3, <2>5 DEF Offline, Stored
      <3> QED
        BY <2>1, <2>5, <3>1 DEF LInv, Idle, Reading, WorkPC, Written, Undoing, Midway
    <2> QED
      BY <2>4, <2>5
  <1> QED
    BY <1>3, <1>4, <1>5

(* cleanerBtcHack: below the last block all transactions are located.      *)
LEMMA HackKeepsLInv ==
    ASSUME ~Stops, TInv, KInv, LInv, HackHeight \/ HackLast \/ HackRoll
    PROVE  LInv'
  <1>1. UNCHANGED <<chain, filter, txHeight, roll>>
    BY DEF HackHeight, HackLast, HackRoll, utxo
  <1>2. scanned \in Word \cup {NoHeight} /\ scanned \in Int /\ pc = "off" /\ MaxWord \in Nat
        /\ Len(roll) \in Nat
    BY KillFacts DEF HackHeight, HackLast, HackRoll, Startup
  <1>3. CASE HackHeight
    <2>1. main' = "hackLast" /\ pc' = "off" /\ scanned' = Minus(scanned, 1)
          /\ scanned \in 0..Tip
      BY <1>2, <1>3 DEF HackHeight, HackedHeight, KInv, Down
    <2>2. scanned \in Nat /\ scanned \notin {NoHeight, MaxWord}
      BY <2>1, KillFacts DEF Tip, NoHeight
    <2>3. /\ Synced(chain, filter, scanned) /\ Linked(filter, scanned + 1)
          /\ Located(filter, txHeight, scanned)
      BY <1>2, <2>2 DEF LInv, Offline, Stored
    <2>4. CASE scanned = 0
      <3>1. scanned' = MaxWord
        BY <2>1, <2>4 DEF Minus
      <3> QED
        BY <2>1, <3>1 DEF LInv, Offline, Idle, Reading, WorkPC, Written, Undoing, Midway
    <2>5. CASE scanned # 0
      <3> DEFINE n == scanned - 1
      <3>1. scanned' = n /\ n \in Nat /\ n \in Int /\ n + 1 = scanned /\ n <= scanned
            /\ n + 1 <= scanned + 1
        BY <2>1, <2>2, <2>5 DEF Minus
      <3> HIDE DEF n
      <3>2. Synced(chain, filter, n) /\ Linked(filter, n + 1)
        BY <1>2, <2>2, <2>3, <3>1, LowerSynced, LowerLinked
      <3>3. Located(filter, txHeight, n + 1) /\ Located(filter, txHeight, n)
            /\ Placed(filter, txHeight, n)
        BY <2>3, <3>1, LocatedPlaced
      <3>4. Offline'
        BY <1>1, <3>1, <3>2, <3>3 DEF Offline, Stored
      <3> QED
        BY <2>1, <3>4 DEF LInv, Idle, Reading, WorkPC, Written, Undoing, Midway
    <2> QED
      BY <2>4, <2>5
  <1>4. CASE HackLast
    <2>1. main = "hackLast" /\ main' = "hackRoll" /\ pc' = "off" /\ scanned' = scanned
      BY <1>2, <1>4 DEF HackLast
    <2>2. Offline'
      BY <1>1, <1>2, <2>1 DEF LInv, Offline, Stored
    <2> QED
      BY <2>1, <2>2 DEF LInv, Idle, Reading, WorkPC, Written, Undoing, Midway
  <1>5. CASE HackRoll
    <2>1. main = "hackRoll" /\ pc' = "iter" /\ scanned' = scanned
      BY <1>5 DEF HackRoll, Next0, Goto
    <2>2. scanned # MaxWord => /\ Synced(chain, filter, scanned)
                               /\ Located(filter, txHeight, scanned + 1)
      <3>1. scanned # MaxWord => scanned \notin {NoHeight, MaxWord}
        BY <2>1 DEF KInv, Down, Word, NoHeight
      <3> QED
        BY <1>2, <2>1, <3>1 DEF LInv, Offline
    <2>3. scanned # MaxWord => Covers(scanned + 1)'
      <3>1. scanned + 1 - Len(roll) - 1 \in Int /\ scanned + 1 - Len(roll) - 1 <= scanned
        BY <1>2
      <3>2. scanned # MaxWord => Synced(chain, filter, scanned + 1 - Len(roll) - 1)
        BY <1>2, <2>2, <3>1, LowerSynced
      <3> QED
        BY <1>1, <1>2, <2>1, <3>2 DEF Covers
    <2>4. Idle'
      BY <1>1, <2>1, <2>2, <2>3 DEF Idle
    <2> QED
      BY <2>1, <2>4 DEF LInv, Offline, Reading, WorkPC, Written, Undoing, Midway
  <1> QED
    BY <1>3, <1>4, <1>5

-----------------------------------------------------------------------------
(* Every step keeps the invariant: nobody shuts the process down.          *)
LEMMA NoShutdown ==
    ASSUME ~Stops, TInv, KInv
    PROVE  ~Shutdown /\ ~Dump /\ ~Exit
  <1>1. ~Shutdown
    BY DEF KInv, Spared, Shutdown, Fault
  <1> QED
    BY <1>1, KillFacts DEF Dump, Exit

LEMMA StutterKeepsLInv == ASSUME LInv, UNCHANGED vars PROVE LInv'
  <1>1. UNCHANGED <<chain, scanned, filter, txHeight, roll, main, pc, cur, blk>>
    BY DEF vars, disk, local, utxo
  <1>2. Offline' /\ Idle'
    BY <1>1 DEF LInv, Offline, Idle, Covers, Stored
  <1>3. Reading' /\ Written'
    BY <1>1 DEF LInv, Reading, Written, Covers, CoversNext, Room
  <1>4. Undoing'
    BY <1>1 DEF LInv, Undoing, Kept
  <1> QED
    BY <1>2, <1>3, <1>4 DEF LInv

(* With covered reorgs and kills between rollbacks, in any number and      *)
(* order, the rollback sequence reaches the node's chain and the stored    *)
(* transactions have their heights, in every phase of the scanner          *)
(* (Common.hs:57-108) and of the startup (App.hs:35-95).                   *)
THEOREM KillInvariant ==
    ASSUME OnlyStops, ~Stops, ~SkipHack, NoRepeats, ValidSpends
    PROVE  Spec => []LInv
  <1>1. TInv /\ KInv /\ KInv' /\ LInv /\ [Next]_vars => LInv'
    <2> SUFFICES ASSUME TInv, KInv, KInv', LInv, [Next]_vars PROVE LInv'
      OBVIOUS
    <2>1. CASE Scanner
      BY <2>1, LoopKeepsLInv, FetchKeepsLInv, ResolveKeepsLInv, DecideKeepsLInv,
         AddTxsKeepsLInv, AddFilterKeepsLInv, AddRollKeepsLInv, AddLastKeepsLInv,
         RollHeightKeepsLInv, RollTxsKeepsLInv, RollVarKeepsLInv,
         RollRestartKeepsLInv DEF Scanner
    <2>2. CASE Main
      BY <2>2, CheckKeepsLInv, HackKeepsLInv, NoShutdown DEF Main
    <2>3. CASE NodeGrows \/ NodeReorgs \/ Shutdown \/ Crash
      BY <2>3, GrowsKeepsLInv, ReorgKeepsLInv, NoShutdown, CrashKeepsLInv
    <2>4. CASE UNCHANGED vars
      BY <2>4, StutterKeepsLInv
    <2>5. ~ScannerFaults
      BY SparedFaults
    <2> QED
      BY <2>1, <2>2, <2>3, <2>4, <2>5 DEF Next
  <1>2. Init => LInv
    BY InitLInv
  <1>3. Spec => [](TInv /\ KInv)
    BY StopInvariant, TypeInvariant, PTL
  <1> QED
    BY <1>1, <1>2, <1>3, PTL DEF Spec

-----------------------------------------------------------------------------
(* Located transactions, and the reach of a rollback                       *)

LEMMA LInvLocated == ASSUME TInv, KInv, LInv PROVE TxsLocated
  <1> SUFFICES ASSUME Between, NEW h \in 0..(cur - 1), filter[h] \in Block,
                      NEW x \in Adds[filter[h]]
               PROVE  txHeight[x] = h
    BY DEF TxsLocated
  <1>1. Located(filter, txHeight, cur)
    BY DEF LInv, Reading, WorkPC, Between
  <1> QED
    BY <1>1 DEF Located

LEMMA LInvReaches == ASSUME TInv, KInv, LInv PROVE RollbackReaches
  <1> SUFFICES ASSUME pc = "rollRestart", NEW k \in 0..(cur - 1) PROVE OnChain(k)
    BY DEF RollbackReaches, SyncedTo
  <1>1. Synced(chain, filter, cur - 1)
    BY DEF LInv, Undoing
  <1>2. k < Len(chain) /\ filter[k] = chain[k + 1]
    BY <1>1 DEF Synced
  <1>3. k \in Int /\ Len(chain) \in Int
    BY ChainFits DEF TInv, TypeOK
  <1> QED
    BY <1>2, <1>3 DEF OnChain, Tip, BlockAt

(* spentTxSource (Bitcoin.hs:64-74) finds every output a new block can     *)
(* spend although the process is killed and started again, any number of   *)
(* times: the check, the repair and the scan that follow leave every       *)
(* transaction of the stored blocks with the height of its block.          *)
THEOREM LocatedAcrossKills ==
    ASSUME OnlyStops, ~Stops, ~SkipHack, NoRepeats, ValidSpends
    PROVE  Spec => []TxsLocated
  BY KillInvariant, StopInvariant, TypeInvariant, LInvLocated, PTL

(* performBtcRollback (DB/Queries.hs:216-235) takes a covered fork back to *)
(* the node's chain: when previousBlockChanged (Common.hs:96-104) restarts *)
(* the scan, no filter of the branch is left below, so one is enough.      *)
THEOREM ReachesAcrossKills ==
    ASSUME OnlyStops, ~Stops, ~SkipHack, NoRepeats, ValidSpends
    PROVE  Spec => []RollbackReaches
  BY KillInvariant, StopInvariant, TypeInvariant, LInvReaches, PTL

-----------------------------------------------------------------------------
(* The filters up to the scanned height implement FilterChain              *)

(* The first n filters                                                     *)
ChainOf(f, n) == [i \in 1..n |-> f[i - 1]]

LEMMA ChainOfSeq ==
    ASSUME NEW f, NEW n \in Nat, Linked(f, n)
    PROVE  ChainOf(f, n) \in Seq(Block) /\ Len(ChainOf(f, n)) = n
  BY DEF ChainOf, Linked

LEMMA ChainOfLower ==
    ASSUME NEW f, NEW n \in Nat, NEW m \in 0..n, Linked(f, n)
    PROVE  SubSeq(ChainOf(f, n), 1, m) = ChainOf(f, m)
  BY DEF ChainOf, Linked

(* All filters up to the scanned height are shown, and none is missing.    *)
LEMMA ShownIs ==
    ASSUME ~Stops, TInv, KInv, LInv, NEW n \in Nat,
           \/ n = 0 /\ scanned \in {NoHeight, MaxWord}
           \/ n = scanned + 1 /\ scanned \notin {NoHeight, MaxWord}
    PROVE  Shown = ChainOf(filter, n) /\ Linked(filter, n)
           /\ Shown \in Seq(Block) /\ Len(Shown) = n
  <1>1. ShownCount = n /\ Linked(filter, n)
    <2>1. CASE scanned \in {NoHeight, MaxWord}
      BY <2>1 DEF ShownCount, Linked
    <2>2. CASE scanned \notin {NoHeight, MaxWord}
      <3>1. Linked(filter, scanned + 1)
        BY <2>2, StoredAlways DEF Stored
      <3>2. scanned \in Nat /\ n = scanned + 1
        BY <2>2, KillFacts DEF Word
      <3>3. filter[scanned] # NoBlock
        BY <3>1, <3>2 DEF Linked, Hash
      <3> QED
        BY <2>2, <3>1, <3>2, <3>3 DEF ShownCount
    <2> QED
      BY <2>1, <2>2
  <1>2. Shown = ChainOf(filter, n)
    BY <1>1 DEF Shown, ChainOf
  <1> QED
    BY <1>1, <1>2, ChainOfSeq

(* addBlockInfo puts a block on top, or over the one a rollback left.      *)
LEMMA AddServes ==
    ASSUME ~Stops, TInv, KInv, LInv, AddFilter
    PROVE  Promised!Next
  <1>1. /\ pc = "addFilter" /\ scanned' = cur /\ filter' = [filter EXCEPT ![cur] = blk]
    BY DEF AddFilter
  <1>2. /\ Linked(filter, cur) /\ cur <= Tip /\ Prev[blk] = Below(filter, cur)
        /\ scanned = cur - 1 \/ scanned = cur
    BY <1>1 DEF KInv, Working, Ground, InHand
  <1>3. blk \in Block
    BY <1>1, FlightFacts DEF InFlight
  <1>4. /\ cur \in Nat /\ cur \in Word /\ cur # MaxWord /\ cur - 1 # MaxWord
        /\ filter \in [Word -> Block \cup {NoBlock}]
    BY <1>2, KillFacts DEF Tip, Word
  <1>5. PICK n \in {cur, cur + 1} :
            /\ Shown = ChainOf(filter, n) /\ Shown \in Seq(Block) /\ Len(Shown) = n
            /\ Linked(filter, n)
    <2>1. CASE scanned = cur
      BY <1>4, <2>1, ShownIs DEF NoHeight
    <2>2. CASE scanned = cur - 1
      BY <1>4, <2>2, ShownIs DEF NoHeight
    <2> QED
      BY <1>2, <2>1, <2>2
  <1>6. filter'[cur] = blk /\ \A i \in 1..cur : filter'[i - 1] = filter[i - 1]
    BY <1>1, <1>4 DEF Word
  <1>7. ShownCount' = cur + 1
    BY <1>1, <1>3, <1>4, <1>6 DEF ShownCount, NoHeight, Hash
  <1>8. SubSeq(Shown, 1, cur) = ChainOf(filter, cur)
    BY <1>4, <1>5, ChainOfLower
  <1>9. Shown' = Append(ChainOf(filter, cur), blk)
    <2>1. ChainOf(filter, cur) \in Seq(Block) /\ Len(ChainOf(filter, cur)) = cur
      BY <1>2, <1>4, ChainOfSeq
    <2>2. Shown' = [i \in 1..(cur + 1) |-> filter'[i - 1]]
      BY <1>7 DEF Shown
    <2> QED
      BY <1>4, <1>6, <2>1, <2>2 DEF ChainOf
  <1>10. cur > 0 => Shown[cur] = filter[cur - 1]
    BY <1>4, <1>5 DEF ChainOf
  <1>11. Promised!CutAndPut(cur, blk)
    <2>1. Promised!Follows(blk, cur)
      BY <1>2, <1>4, <1>10 DEF Promised!Follows, Below
    <2>2. cur \in 0..Len(Shown)
      BY <1>4, <1>5
    <2> QED
      BY <1>8, <1>9, <2>1, <2>2 DEF Promised!CutAndPut
  <1>12. cur = Len(Shown) \/ cur = Len(Shown) - 1
    BY <1>4, <1>5
  <1> QED
    BY <1>3, <1>11, <1>12 DEF Promised!Next, Promised!Grow, Promised!Replace

(* Where a rollback or a repair lowers the scanned height, it cuts.        *)
LEMMA CutServes ==
    ASSUME ~Stops, TInv, KInv, LInv, filter' = filter,
           NEW n \in Nat, n = scanned + 1, scanned \notin {NoHeight, MaxWord},
           NEW m \in 0..(n - 1), scanned' = Minus(m, 1)
    PROVE  Promised!Cut
  <1>1. Shown = ChainOf(filter, n) /\ Linked(filter, n) /\ Len(Shown) = n
    BY ShownIs
  <1>2. scanned \in Word /\ MaxWord \in Nat /\ m \in Nat
    BY KillFacts
  <1>3. ShownCount' = m
    <2>1. CASE m = 0
      <3>1. scanned' = MaxWord
        BY <1>2, <2>1 DEF Minus
      <3> QED
        BY <2>1, <3>1 DEF ShownCount
    <2>2. CASE m # 0
      <3>1. scanned' = m - 1 /\ m - 1 \in 0..(n - 1) /\ m - 1 < MaxWord
        BY <1>2, <2>2 DEF Minus, Word
      <3>2. filter'[scanned'] # NoBlock
        BY <1>1, <3>1 DEF Linked, Hash
      <3>3. m - 1 # MaxWord /\ m - 1 # -1 /\ m - 1 + 1 = m
        BY <1>2, <2>2, <3>1
      <3> QED
        BY <3>1, <3>2, <3>3 DEF ShownCount, NoHeight
    <2> QED
      BY <2>1, <2>2
  <1>4. Shown' = ChainOf(filter, m)
    BY <1>3 DEF Shown, ChainOf
  <1>5. SubSeq(Shown, 1, m) = ChainOf(filter, m)
    <2>1. m \in 0..n
      BY <1>2
    <2> QED
      BY <1>1, <2>1, ChainOfLower
  <1> QED
    BY <1>1, <1>4, <1>5 DEF Promised!Cut

LEMMA RollServes ==
    ASSUME ~Stops, TInv, KInv, LInv, RollHeight
    PROVE  Promised!Cut
  <1>1. /\ pc = "rollHeight" /\ filter' = filter
        /\ scanned' = (IF roll = <<>> THEN scanned ELSE Oldest.prevHeight)
    BY DEF RollHeight
  <1>2. /\ roll # <<>> /\ scanned = cur - 1 /\ cur <= Tip
    BY <1>1 DEF LInv, Reading, WorkPC, KInv, Working
  <1>3. /\ cur \in Nat /\ Kept \in Nat /\ Kept < cur /\ cur - 1 # MaxWord
        /\ scanned' = Minus(Kept, 1)
    BY <1>1, <1>2, RollFacts, OldestSays, KillFacts DEF RollPC, Tip
  <1> QED
    BY <1>1, <1>2, <1>3, CutServes DEF NoHeight

(* cleanerBtcHack steps back from the scanned height.                      *)
LEMMA HackServes ==
    ASSUME ~Stops, TInv, KInv, LInv, HackHeight
    PROVE  Promised!Cut
  <1>1. filter' = filter /\ scanned' = Minus(scanned, 1) /\ scanned \in 0..Tip
    BY DEF HackHeight, HackedHeight, KInv, Down
  <1>2. /\ scanned \in Nat /\ scanned \in 0..(scanned + 1 - 1) /\ scanned + 1 \in Nat
        /\ scanned \notin {NoHeight, MaxWord}
    BY <1>1, KillFacts DEF Tip, NoHeight
  <1> QED
    BY <1>1, <1>2, CutServes

(* setScannedHeight restart shows one of the reverted blocks again.        *)
LEMMA RestartServes ==
    ASSUME ~Stops, TInv, KInv, LInv, RollRestart
    PROVE  Promised!Grow \/ UNCHANGED Shown
  <1>1. pc = "rollRestart" /\ filter' = filter /\ scanned' = cur
    BY DEF RollRestart
  <1>2. /\ Linked(filter, cur + 1) /\ cur <= Tip
        /\ scanned \in {cur, cur - 1, Minus(cur, 1)}
    BY <1>1 DEF LInv, Undoing, KInv, Reverting
  <1>3. cur \in Nat /\ cur # MaxWord /\ cur - 1 # MaxWord /\ cur \in 0..cur
    BY <1>2, KillFacts DEF Tip
  <1>4. CASE scanned = cur
    BY <1>1, <1>4 DEF Shown, ShownCount
  <1>5. CASE scanned # cur
    <2>1. Shown = ChainOf(filter, cur) /\ Len(Shown) = cur /\ Shown \in Seq(Block)
      <3>1. \/ cur = 0 /\ scanned \in {NoHeight, MaxWord}
            \/ cur = scanned + 1 /\ scanned \notin {NoHeight, MaxWord}
        BY <1>2, <1>3, <1>5 DEF Minus, NoHeight
      <3> QED
        BY <1>3, <3>1, ShownIs
    <2>2. filter[cur] \in Block /\ Prev[filter[cur]] = Below(filter, cur)
      BY <1>2, <1>3 DEF Linked
    <2>3. ShownCount' = cur + 1
      BY <1>1, <1>3, <2>2 DEF ShownCount, NoHeight, Hash
    <2>4. Shown' = [i \in 1..(cur + 1) |-> filter[i - 1]]
      BY <1>1, <2>3 DEF Shown
    <2>5. Shown' = Append(SubSeq(Shown, 1, cur), filter[cur])
      BY <1>3, <2>1, <2>2, <2>4 DEF ChainOf
    <2>6. cur > 0 => Shown[cur] = filter[cur - 1]
      BY <1>3, <2>1 DEF ChainOf
    <2>7. Promised!CutAndPut(Len(Shown), filter[cur])
      BY <1>3, <2>1, <2>2, <2>5, <2>6 DEF Promised!CutAndPut, Promised!Follows, Below
    <2> QED
      BY <2>2, <2>7 DEF Promised!Grow
  <1> QED
    BY <1>4, <1>5

(* Kills, the check and the repair at startup, and the forks followed      *)
(* between them (App.hs:35-95, Common.hs:57-108), in any number and order, *)
(* still implement FilterChain with the filters stored up to the scanned   *)
(* height.                                                                 *)
THEOREM ServesAcrossKills ==
    ASSUME OnlyStops, ~Stops, ~SkipHack, NoRepeats, ValidSpends
    PROVE  Spec => ServesChain
  <1>1. Init => Promised!Init
    BY DEF Init, Promised!Init, Shown, ShownCount
  <1>2. TInv /\ KInv /\ LInv /\ [Next]_vars => [Promised!Next]_Shown
    <2> SUFFICES ASSUME TInv, KInv, LInv, [Next]_vars,
                        ~(AddFilter \/ RollHeight \/ RollRestart \/ HackHeight)
                 PROVE  UNCHANGED Shown
      BY AddServes, RollServes, RestartServes, HackServes DEF Promised!Next
    <2>1. UNCHANGED <<scanned, filter>>
      <3>1. ~ScannerFaults /\ ~Shutdown /\ ~Dump /\ ~Exit
        BY SparedFaults, NoShutdown
      <3>2. CASE Main
        BY <3>1, <3>2 DEF Main, Start, CheckFresh, CheckScanned, HackLast,
           HackRoll, disk
      <3>3. CASE Scanner
        BY <3>3 DEF Scanner, ScanIteration, ScanOverflow, Go, Delay, Fetch, Resolve,
           ResolveFails, Decide, AddTxs, AddRoll, AddSpent, AddLast, RollLast,
           RollTxs, RollSaved, RollVar, disk
      <3> QED
        BY <3>1, <3>2, <3>3 DEF Next, NodeGrows, NodeReorgs, Crash, ProcessEnds,
           vars, disk
    <2> QED
      BY <2>1 DEF Shown, ShownCount
  <1> QED
    BY <1>1, <1>2, KillInvariant, StopInvariant, TypeInvariant, PTL
    DEF Spec, ServesChain, Promised!Spec
=============================================================================
