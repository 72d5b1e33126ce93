------------------------- MODULE IndexerStopProofs -------------------------
(***************************************************************************)
(* Following forks across restarts, proved: the process may be killed, or  *)
(* told to shut down, any number of times, between any number of reorgs    *)
(* that the rollback sequence covers, whatever the chains and sizes.  The  *)
(* filters stay linked.  Without shutdowns the last block and the rollback *)
(* sequence stay true too; the dump of a shutdown can be of a sequence     *)
(* that a rollback has just used up, and then they need not.               *)
(***************************************************************************)
EXTENDS IndexerScanProofs, WellFoundedInduction

USE SizesAssumption, HashesDiffer, BlocksAssumption

(* No fault but covered reorgs, kills outside a rollback and shutdowns.    *)
Stopping == {"reorg", "crash", "shutdown"}
OnlyStops == \A b \in Budgets : \A k \in FaultKind \ Stopping : b[k] = 0

(* Somebody shuts the process down.                                        *)
Stops == \E b \in Budgets : b["shutdown"] # 0

-----------------------------------------------------------------------------
(* Facts about databases as values: f the filters, t the heights of the    *)
(* transactions, c the node's chain, s a rollback sequence.                *)
Below(f, n) == IF n = 0 THEN ZeroHash ELSE f[n - 1]
Linked(f, n) == \A h \in 0..(n - 1) : f[h] \in Block /\ Prev[f[h]] = Below(f, h)
Synced(c, f, n) == \A h \in 0..n : h < Len(c) /\ f[h] = c[h + 1]

(* The consistency check looks up the transactions only after a stop.      *)
Recorded(f, t, n) ==
    Stops => \A h \in 0..(n - 1) : \A x \in Adds[f[h]] : t[x] # NoHeight

(* The item is of a block that continues the filters at height h, that     *)
(* block being the stored one as long as nothing dumps old sequences.      *)
Fits(f, item, h) == \E b \in Block :
    /\ item = [added |-> Adds[b], prevHash |-> Prev[b], prevHeight |-> Minus(h, 1)]
    /\ Prev[b] = Below(f, h)
    /\ Stops \/ b = f[h]

(* The items are of the blocks below n, newest first.  Or, where a repair  *)
(* at startup left an item and the block after it was scanned again, the   *)
(* oldest item is of the block just above its place.                       *)
Exact(f, s, n) == \A i \in 1..Len(s) : i <= n /\ Fits(f, s[i], n - i)
Twice(f, s, n) ==
    /\ Len(s) \in 1..n
    /\ \A i \in 1..(Len(s) - 1) : Fits(f, s[i], n - i)
    /\ Fits(f, s[Len(s)], n - Len(s) + 1)
Describes(f, s, n) == Exact(f, s, n) \/ (Stops /\ Twice(f, s, n))

(* lastScanned is what fork detection needs with n blocks stored: the last *)
(* of them; nothing, if all of them are the node's; or, after a rollback   *)
(* of a doubled item, a block that no block of height n has below it.      *)
LastOk(c, f, l, n) ==
    \/ l = Below(f, n)
    \/ l = NoBlock /\ Synced(c, f, n - 1)
    \/ Stops /\ l = f[n] /\ Linked(f, n + 1)

(* A sequence the check at startup would drop or could keep, n scanned     *)
Ready(c, f, t, n, s) == s # <<>> =>
    /\ Stops
    /\ \E m \in Word :
        /\ Describes(f, s, m)
        /\ \/ m # n + 1
           \/ Len(s) = 1
           \/ Synced(c, f, n) /\ Recorded(f, t, n + 1)

(* Databases a process can be started on, r the sequence about to be       *)
(* dumped.  The repair of height 0 wraps to MaxWord and nothing follows.   *)
Closed(c, f, t, n, s, r) ==
    \/ n \in {NoHeight, MaxWord}
    \/ /\ Synced(c, f, n - 1) /\ Recorded(f, t, n)
       /\ Ready(c, f, t, n, s) /\ Ready(c, f, t, n, r)

(* The single item an inconsistent database can have, of height n          *)
Leftover(f, s, n) == s # <<>> => Stops /\ Len(s) = 1 /\ Fits(f, s[1], n)

(* The dumped sequence s is older than the one in memory, r, or (a         *)
(* rollback overtook the dump) reaches above the n blocks stored.          *)
SavedBelow(f, s, r, n) == s # <<>> =>
    Stops /\ r # <<>> /\ \E m \in 0..n : Describes(f, s, m)
SavedAcross(f, s, n) == s # <<>> =>
    Stops /\ n + Len(s) \in Word /\ Describes(f, s, n + Len(s))

-----------------------------------------------------------------------------
(* The invariant, thread by thread and phase by phase                      *)
Startup == {"down", "check", "hackHeight", "hackLast", "hackRoll"}
Threads ==
    /\ main \in Startup <=> pc = "off"
    /\ flag => Stops /\ main \in {"run", "wait"}
    /\ main = "wait" \/ pc = "stopped" => flag

Spared == /\ \A k \in FaultKind \ Stopping : left[k] = 0
          /\ ~Stops => left["shutdown"] = 0

Down ==
    /\ pc \in {"off", "stopped"} \/ (pc = "delay" /\ flag) =>
           Closed(chain, filter, txHeight, scanned, savedRoll, roll)
    /\ main \in Startup \ {"down"} => roll = savedRoll
    /\ main = "hackHeight" => scanned \in 0..Tip /\ Leftover(filter, roll, scanned)
    /\ main \in {"hackLast", "hackRoll"} /\ scanned # MaxWord =>
           /\ scanned \in Word
           /\ Synced(chain, filter, scanned)
           /\ Recorded(filter, txHeight, scanned + 1)
           /\ Leftover(filter, roll, scanned + 1)
    /\ main = "hackRoll" => lastScanned = NoBlock

Ground(n) == /\ Linked(filter, n) /\ Describes(filter, roll, n)
             /\ Recorded(filter, txHeight, n)

Waiting == (pc = "iter" \/ (pc = "delay" /\ ~flag)) /\ scanned # MaxWord =>
    /\ Ground(scanned + 1)
    /\ LastOk(chain, filter, lastScanned, scanned + 1)
    /\ SavedBelow(filter, savedRoll, roll, scanned + 1)
    /\ flag => Synced(chain, filter, scanned)

(* A rollback leaves the scanned height at the next block's (RollRestart). *)
Working == pc \in {"go", "fetch", "resolve", "decide", "addTxs", "addFilter",
                   "rollLast", "rollHeight"} =>
    /\ Ground(cur)
    /\ flag => Synced(chain, filter, cur - 1)
    /\ scanned = cur - 1 \/ (scanned = cur /\ roll = <<>>)
    /\ (pc = "go" /\ scanned = cur - 1) \/ cur <= Tip
    /\ \/ SavedBelow(filter, savedRoll, roll, cur)
       \/ /\ pc = "go" /\ scanned = cur /\ flag /\ main = "wait"
          /\ SavedAcross(filter, savedRoll, cur)
    /\ pc \in {"go", "fetch", "resolve", "decide", "addTxs", "rollLast"} =>
           LastOk(chain, filter, lastScanned, cur)

InHand == pc \in {"resolve", "decide", "addTxs", "addFilter"} =>
    /\ \E c \in Chains : cur < Len(c) /\ blk = c[cur + 1]
    /\ flag => blk = BlockAt(cur)
    /\ pc \in {"resolve", "decide"} /\ lastScanned = NoBlock =>
           Prev[blk] = Below(filter, cur)
    /\ pc \in {"addTxs", "addFilter"} => Prev[blk] = Below(filter, cur)
    /\ pc = "addFilter" /\ Stops => \A x \in Adds[blk] : txHeight[x] # NoHeight

Storing == pc \in {"addRoll", "addSpent", "addLast"} =>
    /\ Linked(filter, cur + 1) /\ filter[cur] = blk /\ scanned = cur
    /\ Recorded(filter, txHeight, cur + 1)
    /\ flag => Synced(chain, filter, cur)
    /\ pc = "addRoll" => /\ Describes(filter, roll, cur)
                         /\ SavedBelow(filter, savedRoll, roll, cur)
    /\ pc # "addRoll" => /\ Describes(filter, roll, cur + 1)
                         /\ SavedBelow(filter, savedRoll, roll, cur + 1)

(* The height a rollback restarts from                                     *)
Kept == cur - Len(roll)

(* Between the steps of a rollback that change the databases               *)
Midway == {"rollTxs", "rollSaved", "rollVar"}
Reverting ==
    /\ pc \in {"rollHeight", "rollRestart"} \cup Midway =>
           LastOk(chain, filter, lastScanned, Kept)
    /\ pc \in Midway =>
           /\ cur <= Tip
           /\ Linked(filter, cur) /\ Describes(filter, roll, cur)
           /\ IF roll = <<>> THEN scanned \in {cur - 1, cur}
              ELSE scanned = Oldest.prevHeight
           /\ flag => Synced(chain, filter, Kept - 1)
    /\ pc = "rollTxs" => Recorded(filter, txHeight, cur)
    /\ pc \in {"rollSaved", "rollVar"} => Recorded(filter, txHeight, Kept)
    /\ pc = "rollSaved" /\ roll # <<>> /\ scanned # MaxWord =>
           Recorded(filter, txHeight, scanned + 1)
    /\ pc \in {"rollTxs", "rollSaved"} => SavedBelow(filter, savedRoll, roll, cur)
    /\ pc = "rollVar" /\ savedRoll # <<>> =>
           flag /\ main = "wait" /\ savedRoll = roll
    /\ pc = "rollRestart" =>
           /\ cur <= Tip /\ roll = <<>>
           /\ Linked(filter, cur) /\ Recorded(filter, txHeight, cur)
           /\ savedRoll # <<>> => flag /\ main = "wait"
           /\ SavedAcross(filter, savedRoll, cur)
           /\ scanned \in {cur, cur - 1, Minus(cur, 1)}
           /\ flag => Synced(chain, filter, cur - 1)

KInv == Threads /\ Spared /\ Down /\ Waiting /\ Working /\ InHand /\ Storing /\ Reverting

-----------------------------------------------------------------------------
(* Linked filters and the node's chain                                     *)

LessThan == OpToRel(<, Nat)

LEMMA LessThanDef == LessThan = {p \in Nat \X Nat : p[1] < p[2]}
  BY DEF LessThan, OpToRel

(* A set of heights that is not empty has a lowest one.                    *)
LEMMA LowestHeight ==
    ASSUME NEW S \in SUBSET Nat, S # {}
    PROVE  \E m \in S : \A n \in S : m <= n
  <1>1. IsWellFoundedOn(LessThan, Nat)
    BY NatLessThanWellFounded DEF LessThan
  <1>2. PICK m \in S : \A n \in S : ~(<<n, m>> \in LessThan)
    <2> HIDE DEF LessThan
    <2> QED
      BY <1>1, WFMin
  <1>3. \A n \in S : ~(n < m)
    BY <1>2, LessThanDef
  <1> QED
    BY <1>2, <1>3

(* Facts about the lower blocks are kept when blocks are taken away.       *)
LEMMA LowerLinked ==
    ASSUME NEW f, NEW n \in Int, NEW m \in Int, m <= n, Linked(f, n)
    PROVE  Linked(f, m)
  BY DEF Linked

LEMMA LowerSynced ==
    ASSUME NEW c, NEW f, NEW n \in Int, NEW m \in Int, m <= n, Synced(c, f, n)
    PROVE  Synced(c, f, m)
  BY DEF Synced

LEMMA LowerRecorded ==
    ASSUME NEW f, NEW t, NEW n \in Int, NEW m \in Int, m <= n, Recorded(f, t, n)
    PROVE  Recorded(f, t, m)
  BY DEF Recorded

(* The facts about no blocks at all                                        *)
LEMMA NothingStored ==
    ASSUME NEW c, NEW f, NEW t, NEW n \in Int, n <= 0
    PROVE  Linked(f, n) /\ Synced(c, f, n - 1) /\ Recorded(f, t, n)
  BY DEF Linked, Synced, Recorded

(* A chain of the node is linked.                                          *)
LEMMA ChainLinked ==
    ASSUME NEW c \in Chains, NEW k \in 1..Len(c)
    PROVE  /\ c[k] \in Block
           /\ Prev[c[k]] = IF k = 1 THEN ZeroHash ELSE c[k - 1]
  BY ChainsAssumption

(* Filters that are the node's are linked.                                 *)
LEMMA SyncedLinked ==
    ASSUME NEW c \in Chains, NEW f, NEW n \in Int, Synced(c, f, n - 1)
    PROVE  Linked(f, n)
  <1> SUFFICES ASSUME NEW h \in 0..(n - 1)
               PROVE  f[h] \in Block /\ Prev[f[h]] = Below(f, h)
    BY DEF Linked
  <1>1. h \in Nat /\ h < Len(c) /\ f[h] = c[h + 1] /\ Len(c) \in Nat
    BY ChainFits DEF Synced
  <1>2. h # 0 => f[h - 1] = c[h]
    BY DEF Synced
  <1>3. h + 1 \in 1..Len(c)
    BY <1>1
  <1>4. f[h] \in Block /\ Prev[f[h]] = IF h = 0 THEN ZeroHash ELSE c[h]
    BY <1>1, <1>3, ChainLinked
  <1> QED
    BY <1>1, <1>2, <1>4 DEF Below

(* The next block of a chain the filters follow continues them.            *)
LEMMA SyncedContinues ==
    ASSUME NEW c \in Chains, NEW f, NEW n \in Nat, Synced(c, f, n - 1), n < Len(c)
    PROVE  c[n + 1] \in Block /\ Prev[c[n + 1]] = Below(f, n)
  <1>1. n + 1 \in 1..Len(c)
    BY ChainFits
  <1>2. n # 0 => f[n - 1] = c[n]
    BY DEF Synced
  <1> QED
    BY <1>1, <1>2, ChainLinked DEF Below

(* A block has one height: the previous hash of a block of height n is not *)
(* a block that linked filters have at height n.                           *)
LEMMA OneHeight ==
    ASSUME NEW c \in Chains, NEW f, NEW n \in Nat, n < Len(c), Linked(f, n + 1)
    PROVE  Prev[c[n + 1]] # f[n]
  <1> SUFFICES ASSUME Prev[c[n + 1]] = f[n] PROVE FALSE
    OBVIOUS
  <1>1. Len(c) \in Nat
    BY ChainFits
  <1>2. f[n] \in Block
    BY DEF Linked
  <1>3. n # 0
    <2>1. n + 1 \in 1..Len(c)
      BY <1>1
    <2> QED
      BY <1>2, <2>1, ChainLinked
  <1> DEFINE S == {k \in 1..n : c[k] = f[k]}
  <1>4. n \in S
    <2>1. n + 1 \in 1..Len(c)
      BY <1>1
    <2> QED
      BY <1>3, <2>1, ChainLinked
  <1>5. PICK m \in S : \A k \in S : m <= k
    <2>1. S \in SUBSET Nat
      OBVIOUS
    <2> HIDE DEF S
    <2> QED
      BY <1>4, <2>1, LowestHeight
  <1>6. m \in 1..n /\ c[m] = f[m] /\ m \in 1..Len(c)
    BY <1>1, <1>5
  <1>7. Prev[c[m]] = f[m - 1] /\ f[m - 1] \in Block
    <2>1. Prev[f[m]] = Below(f, m)
      BY <1>6 DEF Linked
    <2>2. f[m - 1] \in Block
      BY <1>6 DEF Linked
    <2> QED
      BY <1>6, <2>1, <2>2 DEF Below
  <1>8. m # 1
    BY <1>6, <1>7, ChainLinked
  <1>9. c[m - 1] = f[m - 1]
    BY <1>6, <1>7, <1>8, ChainLinked
  <1>10. m - 1 \in S
    BY <1>6, <1>8, <1>9
  <1> QED
    BY <1>5, <1>6, <1>10

-----------------------------------------------------------------------------
(* What a rollback sequence describes                                      *)

(* The empty sequence describes any number of blocks.                      *)
LEMMA EmptyDescribes ==
    ASSUME NEW f, NEW n
    PROVE  Describes(f, <<>>, n)
  BY DEF Describes, Exact

(* A sequence is not longer than the chain it describes.                   *)
LEMMA DescribedLength ==
    ASSUME NEW f, NEW s \in Seq(RollItem), NEW n \in Nat, Describes(f, s, n)
    PROVE  Len(s) \in 0..n
  <1>1. CASE Exact(f, s, n)
    <2>1. Len(s) \in Nat /\ (Len(s) = 0 \/ Len(s) \in 1..Len(s))
      OBVIOUS
    <2> QED
      BY <1>1, <2>1 DEF Exact
  <1>2. CASE Twice(f, s, n)
    BY <1>2 DEF Twice
  <1> QED
    BY <1>1, <1>2 DEF Describes

(* An item tells what lies below it.                                       *)
LEMMA FitsSays ==
    ASSUME NEW f, NEW item, NEW h, Fits(f, item, h)
    PROVE  item.prevHash = Below(f, h) /\ item.prevHeight = Minus(h, 1)
  BY DEF Fits

(* The item of the block stored at a height fits there.                    *)
LEMMA StoredFits ==
    ASSUME NEW f, NEW n \in Nat, Linked(f, n + 1)
    PROVE  Fits(f, [added |-> Adds[f[n]], prevHash |-> Prev[f[n]],
                    prevHeight |-> Minus(n, 1)], n)
  <1>1. f[n] \in Block /\ Prev[f[n]] = Below(f, n)
    BY DEF Linked
  <1> QED
    BY <1>1 DEF Fits

(* Storing a block of height n changes no description of lower blocks.     *)
LEMMA FitsBelow ==
    ASSUME NEW f, NEW g, NEW n \in Nat, \A h \in 0..(n - 1) : g[h] = f[h],
           NEW item, NEW h \in Nat, h < n \/ (Stops /\ h <= n), Fits(f, item, h)
    PROVE  Fits(g, item, h)
  <1>1. Below(g, h) = Below(f, h)
    BY DEF Below
  <1>2. Stops \/ g[h] = f[h]
    OBVIOUS
  <1> QED
    BY <1>1, <1>2 DEF Fits

LEMMA DescribesBelow ==
    ASSUME NEW f, NEW g, NEW n \in Nat, \A h \in 0..(n - 1) : g[h] = f[h],
           NEW s \in Seq(RollItem), NEW m \in 0..n, Describes(f, s, m)
    PROVE  Describes(g, s, m)
  <1>0. Len(s) \in Nat /\ m \in Nat /\ m <= n
    OBVIOUS
  <1>1. CASE Exact(f, s, m)
    <2>1. ASSUME NEW i \in 1..Len(s)
          PROVE  i <= m /\ Fits(g, s[i], m - i)
      <3>1. i <= m /\ Fits(f, s[i], m - i)
        BY <1>1 DEF Exact
      <3>2. m - i \in Nat /\ m - i < n
        BY <1>0, <3>1
      <3> QED
        BY <3>1, <3>2, FitsBelow
    <2> QED
      BY <2>1 DEF Exact, Describes
  <1>2. CASE Stops /\ Twice(f, s, m)
    <2>1. Len(s) \in 1..m
      BY <1>2 DEF Twice
    <2>2. ASSUME NEW i \in 1..(Len(s) - 1)
          PROVE  Fits(g, s[i], m - i)
      <3>1. Fits(f, s[i], m - i)
        BY <1>2 DEF Twice
      <3>2. m - i \in Nat /\ m - i < n
        BY <1>0, <2>1
      <3> QED
        BY <3>1, <3>2, FitsBelow
    <2>3. Fits(g, s[Len(s)], m - Len(s) + 1)
      <3>1. Fits(f, s[Len(s)], m - Len(s) + 1)
        BY <1>2 DEF Twice
      <3>2. m - Len(s) + 1 \in Nat /\ m - Len(s) + 1 <= n
        BY <1>0, <2>1
      <3> QED
        BY <1>2, <3>1, <3>2, FitsBelow
    <2> QED
      BY <1>2, <2>1, <2>2, <2>3 DEF Twice, Describes
  <1> QED
    BY <1>1, <1>2 DEF Describes

(* insertBtcRollback: a new item on top describes one block more; a        *)
(* doubled item that drops off the end leaves an exact sequence.           *)
LEMMA PushDescribes ==
    ASSUME NEW f, NEW s \in Seq(RollItem), NEW n \in Nat, Describes(f, s, n),
           NEW item \in RollItem, Fits(f, item, n),
           NEW kept \in 0..Len(s)
    PROVE  Describes(f, <<item>> \o SubSeq(s, 1, kept), n + 1)
  <1> DEFINE r == <<item>> \o SubSeq(s, 1, kept)
  <1>1. /\ Len(r) = kept + 1 /\ r[1] = item
        /\ \A i \in 2..(kept + 1) : r[i] = s[i - 1]
        /\ kept \in Nat /\ Len(s) \in Nat /\ kept <= Len(s)
    <2> DEFINE q == SubSeq(s, 1, kept)
    <2>1. q \in Seq(RollItem) /\ Len(q) = kept /\ \A i \in 1..kept : q[i] = s[i]
      OBVIOUS
    <2>2. <<item>> \in Seq(RollItem) /\ Len(<<item>>) = 1
      OBVIOUS
    <2> HIDE DEF q
    <2>3. /\ Len(<<item>> \o q) = kept + 1 /\ (<<item>> \o q)[1] = item
          /\ \A i \in 2..(kept + 1) : (<<item>> \o q)[i] = q[i - 1]
      BY <2>1, <2>2
    <2> QED
      BY <2>1, <2>3 DEF q
  <1> SUFFICES Describes(f, r, n + 1)
    OBVIOUS
  <1> HIDE DEF r
  <1>2. ASSUME NEW i \in 2..Len(r), Fits(f, s[i - 1], n - (i - 1))
        PROVE  Fits(f, r[i], n + 1 - i)
    <2>1. n - (i - 1) = n + 1 - i
      BY <1>1
    <2>2. r[i] = s[i - 1]
      BY <1>1
    <2> QED
      BY <1>2, <2>1, <2>2
  <1>3. Fits(f, r[1], n + 1 - 1)
    BY <1>1
  <1>4. CASE Exact(f, s, n) \/ (Twice(f, s, n) /\ kept < Len(s))
    <2>1. ASSUME NEW i \in 1..Len(r)
          PROVE  i <= n + 1 /\ Fits(f, r[i], n + 1 - i)
      <3>1. CASE i = 1
        BY <1>3, <3>1
      <3>2. CASE i # 1
        <4>1. i \in 2..Len(r) /\ i - 1 \in 1..Len(s) /\ i - 1 \in 1..kept
          BY <1>1, <3>2
        <4>2. CASE Exact(f, s, n)
          <5>1. i - 1 <= n /\ Fits(f, s[i - 1], n - (i - 1))
            BY <4>1, <4>2 DEF Exact
          <5> QED
            BY <1>2, <4>1, <5>1
        <4>3. CASE Twice(f, s, n) /\ kept < Len(s)
          <5>1. i - 1 \in 1..(Len(s) - 1) /\ Len(s) \in 1..n
            BY <1>1, <4>1, <4>3 DEF Twice
          <5>2. Fits(f, s[i - 1], n - (i - 1))
            BY <4>3, <5>1 DEF Twice
          <5> QED
            BY <1>2, <4>1, <5>1, <5>2
        <4> QED
          BY <1>4, <4>2, <4>3 DEF Describes
      <3> QED
        BY <3>1, <3>2
    <2> QED
      BY <2>1 DEF Exact, Describes
  <1>5. CASE Stops /\ Twice(f, s, n) /\ kept = Len(s)
    <2>1. Len(s) \in 1..n /\ Len(r) = Len(s) + 1 /\ Len(r) \in 1..(n + 1)
      BY <1>1, <1>5 DEF Twice
    <2>2. ASSUME NEW i \in 1..(Len(r) - 1)
          PROVE  Fits(f, r[i], n + 1 - i)
      <3>1. CASE i = 1
        BY <1>3, <3>1
      <3>2. CASE i # 1
        <4>1. i \in 2..Len(r) /\ i - 1 \in 1..(Len(s) - 1)
          BY <2>1, <3>2
        <4>2. Fits(f, s[i - 1], n - (i - 1))
          BY <1>5, <4>1 DEF Twice
        <4> QED
          BY <1>2, <4>1, <4>2
      <3> QED
        BY <3>1, <3>2
    <2>3. Fits(f, r[Len(r)], n + 1 - Len(r) + 1)
      <3>1. r[Len(r)] = s[Len(s)] /\ n + 1 - Len(r) + 1 = n - Len(s) + 1
        <4>1. Len(r) \in 2..(kept + 1) /\ Len(r) - 1 = Len(s)
          BY <1>1, <1>5, <2>1
        <4>2. r[Len(r)] = s[Len(s)]
          BY <1>1, <4>1
        <4>3. n + 1 - Len(r) + 1 = n - Len(s) + 1
          <5>1. \A x, y \in Int : y = x + 1 => n + 1 - y + 1 = n - x + 1
            OBVIOUS
          <5>2. Len(s) \in Int /\ Len(r) \in Int /\ Len(r) = Len(s) + 1
            BY <1>1, <2>1
          <5> QED
            BY <5>1, <5>2
        <4> QED
          BY <4>2, <4>3
      <3> QED
        BY <1>5, <3>1 DEF Twice
    <2> QED
      BY <1>5, <2>1, <2>2, <2>3 DEF Twice, Describes
  <1> QED
    BY <1>1, <1>4, <1>5 DEF Describes

LEMMA PushSome ==
    ASSUME NEW s \in Seq(RollItem), NEW item \in RollItem, NEW kept \in 0..Len(s)
    PROVE  <<item>> \o SubSeq(s, 1, kept) # <<>>
  <1> DEFINE q == SubSeq(s, 1, kept)
  <1>1. q \in Seq(RollItem) /\ Len(q) \in Nat
    OBVIOUS
  <1> HIDE DEF q
  <1>2. Len(<<item>> \o q) = 1 + Len(q)
    BY <1>1
  <1>3. Len(<<item>> \o q) # Len(<<>>)
    BY <1>1, <1>2
  <1> QED
    BY <1>3 DEF q

(* Seq.viewr: what lies below the oldest item                              *)
LEMMA OldestFits ==
    ASSUME NEW f, NEW s \in Seq(RollItem), s # <<>>, NEW n \in Nat, Describes(f, s, n)
    PROVE  /\ Len(s) \in 1..n
           /\ \/ Fits(f, s[Len(s)], n - Len(s))
              \/ Stops /\ Fits(f, s[Len(s)], n - Len(s) + 1)
  <1>1. Len(s) \in 1..n
    BY DescribedLength
  <1>2. CASE Exact(f, s, n)
    BY <1>1, <1>2 DEF Exact
  <1>3. CASE Stops /\ Twice(f, s, n)
    BY <1>1, <1>3 DEF Twice
  <1> QED
    BY <1>1, <1>2, <1>3 DEF Describes

(* No two heights have the same height below.                              *)
LEMMA MinusInjective ==
    ASSUME NEW h \in Word, NEW k \in Word, Minus(h, 1) = Minus(k, 1)
    PROVE  h = k
  BY DEF Minus, Word

(* The check of the newest item at startup: a sequence that ends just      *)
(* below height n describes the blocks below n + 1, or is a single item of *)
(* the block of n and so describes them as well.                           *)
LEMMA FreshDescribes ==
    ASSUME NEW f, NEW s \in Seq(RollItem), s # <<>>, NEW m \in Word, Describes(f, s, m),
           NEW n \in Word, s[1].prevHeight = Minus(n, 1)
    PROVE  Describes(f, s, n + 1) /\ (m = n + 1 \/ Len(s) = 1)
  <1>1. Len(s) \in 1..m /\ m \in Nat /\ n \in Nat
    BY DescribedLength DEF Word
  <1>2. ASSUME Fits(f, s[1], m - 1)
        PROVE  m = n + 1
    <2>1. s[1].prevHeight = Minus(m - 1, 1) /\ m - 1 \in Word
      BY <1>1, <1>2, FitsSays DEF Word
    <2>2. m - 1 = n
      BY <2>1, MinusInjective
    <2> QED
      BY <1>1, <2>2
  <1>3. CASE Exact(f, s, m) \/ Len(s) > 1
    <2>1. Fits(f, s[1], m - 1)
      BY <1>1, <1>3 DEF Describes, Exact, Twice
    <2> QED
      BY <1>2, <2>1
  <1>4. CASE Twice(f, s, m) /\ Len(s) = 1
    <2>1. Fits(f, s[1], m)
      BY <1>1, <1>4 DEF Twice
    <2>2. m = n
      BY <1>1, <2>1, FitsSays, MinusInjective
    <2>3. Exact(f, s, n + 1)
      BY <1>1, <1>4, <2>1, <2>2 DEF Exact
    <2> QED
      BY <1>4, <2>3 DEF Describes
  <1>5. Len(s) > 1 \/ Len(s) = 1
    <2>1. \A k \in 1..m : k > 1 \/ k = 1
      OBVIOUS
    <2> QED
      BY <1>1, <2>1
  <1>6. Exact(f, s, m) \/ Twice(f, s, m)
    BY DEF Describes
  <1> QED
    BY <1>3, <1>4, <1>5, <1>6

(* A single item of height n describes the blocks below n, and below       *)
(* n + 1.                                                                  *)
LEMMA LeftoverDescribes ==
    ASSUME NEW f, NEW s \in Seq(RollItem), NEW n \in Nat, Leftover(f, s, n)
    PROVE  /\ Describes(f, s, n + 1)
           /\ n > 0 => Describes(f, s, n)
  <1>1. CASE s = <<>>
    BY <1>1, EmptyDescribes
  <1>2. CASE s # <<>>
    <2>1. Stops /\ Len(s) = 1 /\ Fits(f, s[1], n)
      BY <1>2 DEF Leftover
    <2>2. Exact(f, s, n + 1)
      BY <2>1 DEF Exact
    <2>3. n > 0 => Twice(f, s, n)
      BY <2>1 DEF Twice
    <2> QED
      BY <2>1, <2>2, <2>3 DEF Describes
  <1> QED
    BY <1>1, <1>2

(* What a process on the node's chain has in memory or on disk is ready    *)
(* for the check.                                                          *)
LEMMA SyncedReady ==
    ASSUME NEW c, NEW f, NEW t, NEW n, NEW s, Synced(c, f, n), Recorded(f, t, n + 1),
           s # <<>> => Stops /\ \E m \in Word : Describes(f, s, m)
    PROVE  Ready(c, f, t, n, s)
  BY DEF Ready

LEMMA AcrossReady ==
    ASSUME NEW c, NEW f, NEW t, NEW n \in Int, NEW s \in Seq(RollItem),
           s # <<>> => Stops,
           NEW m \in Word, Describes(f, s, m), m # n + 1 \/ Len(s) = 1
    PROVE  Ready(c, f, t, n, s)
  BY DEF Ready

(* A block has no transaction of the blocks below it.                      *)
LEMMA Apart ==
    ASSUME NoRepeats, NEW f, NEW n \in Nat, Linked(f, n),
           NEW b \in Block, Prev[b] = Below(f, n), NEW k \in 0..(n - 1)
    PROVE  Adds[f[k]] \cap Adds[b] = {}
  <1> DEFINE q == [j \in 0..n |-> IF j = n THEN b ELSE f[j]]
  <1>1. q \in [0..n -> Block]
    <2>1. ASSUME NEW j \in 0..n
          PROVE  (IF j = n THEN b ELSE f[j]) \in Block
      <3>1. j # n => j \in 0..(n - 1)
        OBVIOUS
      <3> QED
        BY <3>1 DEF Linked
    <2> QED
      BY <2>1
  <1>2. ASSUME NEW j \in 0..n
        PROVE  Prev[q[j]] = IF j = 0 THEN ZeroHash ELSE q[j - 1]
    <2>1. CASE j = n
      BY <2>1 DEF Below
    <2>2. CASE j # n
      <3>1. j \in 0..(n - 1)
        BY <2>2
      <3>2. Prev[f[j]] = Below(f, j)
        BY <3>1 DEF Linked
      <3> QED
        BY <2>2, <3>2 DEF Below
    <2> QED
      BY <2>1, <2>2
  <1>3. k \in 0..n /\ n \in 0..n /\ k # n /\ q[k] = f[k] /\ q[n] = b
    OBVIOUS
  <1> HIDE DEF q
  <1>4. \A i, j \in 0..n : i # j => Adds[q[i]] \cap Adds[q[j]] = {}
    BY <1>1, <1>2 DEF NoRepeats
  <1>5. Adds[q[k]] \cap Adds[q[n]] = {}
    BY <1>3, <1>4
  <1> QED
    BY <1>3, <1>5

(* RollTxs deletes only transactions of the blocks the items fit: the      *)
(* blocks below the lowest of them keep theirs.                            *)
LEMMA RollTxsKeep ==
    ASSUME Stops => NoRepeats, NEW f, NEW n \in Nat, Linked(f, n),
           NEW s \in Seq(RollItem), NEW z \in 0..n,
           \A i \in 1..Len(s) : \E h \in z..n : Fits(f, s[i], h),
           NEW t, Recorded(f, t, n),
           NEW u, \A x \in Tx : (\A i \in 1..Len(s) : x \notin s[i].added) => u[x] = t[x]
    PROVE  Recorded(f, u, z)
  <1> SUFFICES ASSUME Stops, NEW k \in 0..(z - 1), NEW x \in Adds[f[k]]
               PROVE  u[x] # NoHeight
    BY DEF Recorded
  <1>1. k \in Nat /\ k < z /\ k < n /\ f[k] \in Block /\ x \in Tx
    BY DEF Linked
  <1>2. t[x] # NoHeight
    BY <1>1 DEF Recorded
  <1>3. ASSUME NEW i \in 1..Len(s), x \in s[i].added
        PROVE  FALSE
    <2>1. PICK h \in z..n : Fits(f, s[i], h)
      OBVIOUS
    <2>2. PICK b \in Block : s[i].added = Adds[b] /\ Prev[b] = Below(f, h)
      BY <2>1 DEF Fits
    <2>3. h \in Nat /\ k < h /\ h <= n
      BY <1>1
    <2>4. Linked(f, h)
      BY <2>3, LowerLinked
    <2>5. NoRepeats /\ h \in Nat /\ k \in 0..(h - 1) /\ b \in Block
      BY <1>1, <2>3
    <2>6. Adds[f[k]] \cap Adds[b] = {}
      BY ONLY <2>2, <2>4, <2>5, Apart
    <2> QED
      BY <1>3, <2>2, <2>6
  <1> QED
    BY <1>1, <1>2, <1>3

-----------------------------------------------------------------------------
(* The first start and the node                                            *)

(* Only the spared faults stay away.                                       *)
LEMMA SparedKept ==
    ASSUME TypeOK, Spared, UNCHANGED left \/ \E kind \in Stopping : Fault(kind)
    PROVE  Spared'
  <1>1. left \in [FaultKind -> Nat] /\ "shutdown" \in FaultKind
    BY DEF TypeOK, FaultKind
  <1>2. ASSUME NEW kind \in Stopping, Fault(kind)
        PROVE  Spared'
    BY <1>1, <1>2 DEF Spared, Fault, Stopping, FaultKind
  <1>3. CASE UNCHANGED left
    BY <1>3 DEF Spared
  <1> QED
    BY <1>2, <1>3

LEMMA NoOtherFault ==
    ASSUME Spared, NEW kind \in FaultKind \ Stopping
    PROVE  ~Fault(kind)
  BY DEF Spared, Fault

LEMMA InitKInv == ASSUME OnlyStops, Init PROVE KInv
  <1>1. /\ main = "down" /\ pc = "off" /\ flag = FALSE /\ scanned = NoHeight
        /\ roll = <<>> /\ savedRoll = <<>> /\ left \in Budgets
    BY DEF Init
  <1>2. Threads /\ Down /\ Waiting /\ Working /\ InHand /\ Storing /\ Reverting
    BY <1>1 DEF Threads, Down, Waiting, Working, InHand, Storing, Reverting,
       Midway, Startup, Closed
  <1>3. Spared
    BY <1>1 DEF Spared, OnlyStops, Stops
  <1> QED
    BY <1>2, <1>3 DEF KInv

(* A longer chain of the node has everything the shorter one had.          *)
LEMMA GrowsSynced ==
    ASSUME TypeOK, NodeGrows, NEW f, NEW n, Synced(chain, f, n)
    PROVE  Synced(chain', f, n)
  <1>1. /\ chain \in Seq(Block) /\ chain' \in Seq(Block)
        /\ Len(chain') = Len(chain) + 1 /\ SubSeq(chain', 1, Len(chain)) = chain
    BY ChainFits DEF NodeGrows, TypeOK
  <1>2. \A k \in 1..Len(chain) : chain'[k] = chain[k]
    BY <1>1
  <1> SUFFICES ASSUME NEW h \in 0..n
               PROVE  h < Len(chain') /\ f[h] = chain'[h + 1]
    BY DEF Synced
  <1>3. h \in Int /\ 0 <= h /\ h < Len(chain) /\ f[h] = chain[h + 1]
    BY DEF Synced
  <1> QED
    BY <1>1, <1>2, <1>3

LEMMA GrowsKeepsKInv ==
    ASSUME TInv, KInv, NodeGrows
    PROVE  KInv'
  <1>1. UNCHANGED <<scanned, filter, txHeight, lastScanned, savedRoll, roll, flag,
                    main, pc, cur, blk, left>>
    BY DEF NodeGrows, disk, local
  <1>2. TypeOK /\ chain \in Chains /\ chain' \in Chains /\ cur \in Word
    BY DEF TInv, TypeOK, NodeGrows
  <1>3. Len(chain') = Len(chain) + 1 /\ Len(chain) \in Nat
    BY <1>2, ChainFits DEF NodeGrows
  <1>4. \A f, n : Synced(chain, f, n) => Synced(chain', f, n)
    BY <1>2, GrowsSynced
  <1>5. \A f, l, n : LastOk(chain, f, l, n) => LastOk(chain', f, l, n)
    BY <1>4 DEF LastOk
  <1>6. \A f, t, n, s : Ready(chain, f, t, n, s) => Ready(chain', f, t, n, s)
    BY <1>4 DEF Ready
  <1>7. \A f, t, n, s, r : Closed(chain, f, t, n, s, r) => Closed(chain', f, t, n, s, r)
    BY <1>4, <1>6 DEF Closed
  <1>8. pc \in InFlight => BlockAt(cur)' = BlockAt(cur)
    <2>1. \A k \in 1..Len(chain) : chain'[k] = chain[k]
      <3>1. /\ chain \in Seq(Block) /\ chain' \in Seq(Block)
            /\ SubSeq(chain', 1, Len(chain)) = chain
        BY <1>2, ChainFits DEF NodeGrows
      <3> QED
        BY <1>3, <3>1
    <2>2. pc \in InFlight => cur + 1 \in 1..Len(chain)
      BY <1>2, <1>3 DEF TInv, FlightBelowTip, Tip, Word
    <2> QED
      BY <1>1, <2>1, <2>2 DEF BlockAt
  <1>9. Tip' = Tip + 1 /\ Tip \in Int
    BY <1>3 DEF Tip
  <1>10. Threads' /\ Spared'
    BY <1>1 DEF KInv, Threads, Spared
  <1>11. Down'
    BY <1>1, <1>4, <1>7, <1>9 DEF KInv, Down
  <1>12. Waiting'
    BY <1>1, <1>4, <1>5 DEF KInv, Waiting, Ground
  <1>13. Working'
    <2>1. cur \in Int
      BY <1>2 DEF Word
    <2> QED
      BY <1>1, <1>4, <1>5, <1>9, <2>1 DEF KInv, Working, Ground
  <1>14. InHand'
    BY <1>1, <1>8 DEF KInv, InHand, InFlight
  <1>15. Storing'
    BY <1>1, <1>4 DEF KInv, Storing
  <1>16. Reverting'
    <2>1. cur \in Int
      BY <1>2 DEF Word
    <2> QED
      BY <1>1, <1>4, <1>5, <1>9, <2>1 DEF KInv, Reverting, Kept, Midway, Oldest
  <1> QED
    BY <1>10, <1>11, <1>12, <1>13, <1>14, <1>15, <1>16 DEF KInv

(* A covered fork keeps the blocks below the scanner when there is no last *)
(* block to compare with; nothing else that holds now depends on the       *)
(* node's chain, as no shutdown is under way.                              *)
LEMMA ReorgKeepsKInv ==
    ASSUME TInv, KInv, NodeReorgs
    PROVE  KInv'
  <1>1. UNCHANGED <<scanned, filter, txHeight, lastScanned, savedRoll, roll, flag,
                    main, pc, cur, blk>>
    BY DEF NodeReorgs, disk, local
  <1>2. Covered(chain') /\ Fault("reorg")
    <2>1. ~Fault("deepReorg")
      BY NoOtherFault DEF KInv, Stopping, FaultKind
    <2> QED
      BY <2>1 DEF NodeReorgs
  <1>3. main = "run" /\ ~flag /\ pc \notin {"off", "stopped"}
    BY <1>2 DEF Covered, KInv, Threads, Startup
  <1>4. TypeOK /\ chain \in Chains /\ chain' \in Chains /\ cur \in Word
        /\ roll \in Seq(RollItem)
        /\ scanned \in Word \cup {NoHeight}
    BY DEF TInv, TypeOK, NodeReorgs
  <1>5. Len(chain') > Len(chain) /\ Len(chain) \in Nat /\ Len(chain') \in Nat
    BY <1>4, ChainFits DEF NodeReorgs
  <1>6. Tip' >= Tip /\ Tip \in Int /\ Tip' \in Int
    BY <1>5 DEF Tip
  <1> DEFINE pushed == pc \in {"addSpent", "addLast"}
  <1>7. lastScanned = NoBlock /\ ~pushed => Synced(chain', filter, Heading - 1)
    <2> SUFFICES ASSUME lastScanned = NoBlock, ~pushed
                 PROVE  Synced(chain', filter, Heading - 1)
      OBVIOUS
    <2>1. Reach = 0
      BY DEF Reach
    <2>2. Heading \in Int
      BY <1>4 DEF Heading, Word, NoHeight
    <2>3. Heading - Reach - 1 = Heading - 1
      BY <2>1, <2>2
    <2> QED
      BY <1>2, <2>3 DEF Covered, Synced
  <1>8. ASSUME ~pushed, NEW n \in Int, n <= Heading, LastOk(chain, filter, lastScanned, n)
        PROVE  LastOk(chain', filter, lastScanned, n)
    <2>1. Heading - 1 \in Int
      BY <1>4 DEF Heading, Word, NoHeight
    <2>2. lastScanned = NoBlock => Synced(chain', filter, n - 1)
      <3>1. n - 1 \in Int /\ n - 1 <= Heading - 1
        <4>1. Heading \in Int
          BY <1>4 DEF Heading, Word, NoHeight
        <4> QED
          BY <1>8, <4>1
      <3> QED
        BY <1>7, <1>8, <2>1, <3>1, LowerSynced
    <2> QED
      BY <1>8, <2>2 DEF LastOk
  <1>9. Spared'
    BY <1>2, <1>4, SparedKept DEF KInv, Stopping
  <1>10. Threads'
    BY <1>1 DEF KInv, Threads
  <1>11. Down'
    BY <1>1, <1>3 DEF Down, Startup
  <1>12. Waiting'
    <2>1. pc \in {"iter", "delay"} => scanned + 1 = Heading /\ scanned + 1 \in Int
      BY <1>4 DEF Heading, NoHeight, Word
    <2>2. pc \in {"iter", "delay"} /\ LastOk(chain, filter, lastScanned, scanned + 1)
             => LastOk(chain', filter, lastScanned, scanned + 1)
      BY <1>8, <2>1
    <2> QED
      BY <1>1, <1>3, <2>2 DEF KInv, Waiting, Ground
  <1>13. ASSUME pc \notin {"off", "iter", "delay", "stopped"}, ~pushed
         PROVE  cur = Heading /\ cur \in Int
    BY <1>4, <1>13 DEF Heading, Word
  <1>14. Working'
    <2>1. pc \in {"go", "fetch", "resolve", "decide", "addTxs", "rollLast"}
             /\ LastOk(chain, filter, lastScanned, cur)
             => LastOk(chain', filter, lastScanned, cur)
      BY <1>8, <1>13
    <2>2. cur <= Tip => cur <= Tip'
      BY <1>4, <1>6 DEF Word
    <2> QED
      BY <1>1, <1>3, <2>1, <2>2 DEF KInv, Working, Ground
  <1>15. InHand'
    BY <1>1, <1>3 DEF KInv, InHand
  <1>16. Storing'
    BY <1>1, <1>3 DEF KInv, Storing
  <1>17. Reverting'
    <2>1. Kept \in Int /\ Kept <= cur
      BY <1>4 DEF Kept, Word
    <2>2. pc \in {"rollHeight", "rollRestart"} \cup Midway
             /\ LastOk(chain, filter, lastScanned, Kept)
             => LastOk(chain', filter, lastScanned, Kept)
      BY <1>8, <1>13, <2>1 DEF Midway
    <2>3. cur <= Tip => cur <= Tip'
      BY <1>4, <1>6 DEF Word
    <2>4. Kept' = Kept /\ (roll # <<>> => Oldest' = Oldest)
      BY <1>1 DEF Kept, Oldest
    <2> QED
      BY <1>1, <1>3, <2>2, <2>3, <2>4 DEF KInv, Reverting
  <1> QED
    BY <1>9, <1>10, <1>11, <1>12, <1>14, <1>15, <1>16, <1>17 DEF KInv

-----------------------------------------------------------------------------
(* Where the process may stop.  With the filters below the next block the  *)
(* node's, the databases are closed, with the sequence in memory dumped    *)
(* (if anything ever dumps it) or lost.                                    *)
Resting == /\ Closed(chain, filter, txHeight, scanned, savedRoll, <<>>)
           /\ Stops => Closed(chain, filter, txHeight, scanned, savedRoll, roll)

(* An empty sequence is always ready.                                      *)
LEMMA EmptyReady ==
    ASSUME NEW c, NEW f, NEW t, NEW n
    PROVE  Ready(c, f, t, n, <<>>)
  BY DEF Ready

(* Two ways to be closed: all the filters scanned are the node's ...       *)
LEMMA SyncedRests ==
    ASSUME TInv, scanned # MaxWord,
           Synced(chain, filter, scanned), Recorded(filter, txHeight, scanned + 1),
           SavedBelow(filter, savedRoll, roll, scanned + 1),
           Describes(filter, roll, scanned + 1)
    PROVE  Resting
  <1>1. scanned \in Word \cup {NoHeight}
    BY DEF TInv, TypeOK
  <1>2. CASE scanned = NoHeight
    BY <1>2 DEF Resting, Closed
  <1>3. CASE scanned # NoHeight
    <2>1. scanned \in Int /\ scanned + 1 \in Word /\ 0..(scanned + 1) \subseteq Word
      BY <1>1, <1>3 DEF Word
    <2>2. Synced(chain, filter, scanned - 1) /\ Recorded(filter, txHeight, scanned)
      BY <2>1, LowerSynced, LowerRecorded
    <2>3. savedRoll # <<>> => Stops /\ \E m \in Word : Describes(filter, savedRoll, m)
      BY <2>1 DEF SavedBelow
    <2>4. Ready(chain, filter, txHeight, scanned, savedRoll)
      BY <2>3, SyncedReady
    <2>5. Stops => Ready(chain, filter, txHeight, scanned, roll)
      BY <2>1, SyncedReady
    <2> QED
      BY <2>2, <2>4, <2>5, EmptyReady DEF Resting, Closed
  <1> QED
    BY <1>2, <1>3

(* ... or the scanned height is one too high after a rollback, and the     *)
(* sequence on disk is the one the rollback has used up.                   *)
LEMMA AcrossRests ==
    ASSUME TInv, roll = <<>>, scanned \in Word,
           Synced(chain, filter, scanned - 1), Recorded(filter, txHeight, scanned),
           SavedAcross(filter, savedRoll, scanned)
    PROVE  Resting
  <1>1. savedRoll \in Seq(RollItem) /\ Len(savedRoll) \in Nat /\ scanned \in Int
    BY DEF TInv, TypeOK, Word
  <1>2. Ready(chain, filter, txHeight, scanned, savedRoll)
    <2>1. CASE savedRoll = <<>>
      BY <2>1, EmptyReady
    <2>2. CASE savedRoll # <<>>
      <3>1. /\ Stops /\ scanned + Len(savedRoll) \in Word
            /\ Describes(filter, savedRoll, scanned + Len(savedRoll))
        BY <2>2 DEF SavedAcross
      <3>2. scanned + Len(savedRoll) # scanned + 1 \/ Len(savedRoll) = 1
        <4> DEFINE n == Len(savedRoll)
        <4>1. n \in Int
          BY <1>1
        <4> HIDE DEF n
        <4>2. scanned + n # scanned + 1 \/ n = 1
          BY <1>1, <4>1
        <4> QED
          BY <4>2 DEF n
      <3> QED
        BY <1>1, <3>1, <3>2, AcrossReady
    <2> QED
      BY <2>1, <2>2
  <1> QED
    BY <1>2, EmptyReady DEF Resting, Closed

WorkPC == {"go", "fetch", "resolve", "decide", "addTxs", "addFilter", "rollLast",
           "rollHeight"}
LEMMA WorkingRests ==
    ASSUME TInv, KInv, pc \in WorkPC, Synced(chain, filter, cur - 1)
    PROVE  Resting
  <1>1. /\ Ground(cur) /\ cur \in Word /\ MaxWord \in Nat
        /\ scanned = cur - 1 \/ (scanned = cur /\ roll = <<>>)
        /\ \/ SavedBelow(filter, savedRoll, roll, cur)
           \/ scanned = cur /\ SavedAcross(filter, savedRoll, cur)
    BY DEF KInv, Working, WorkPC, TInv, TypeOK
  <1>2. CASE scanned = cur - 1
    <2>1. scanned + 1 = cur /\ scanned # cur /\ scanned # MaxWord
      BY <1>1, <1>2 DEF Word
    <2>2. Synced(chain, filter, scanned)
      BY <1>2
    <2> QED
      BY <1>1, <2>1, <2>2, SyncedRests DEF Ground
  <1>3. CASE scanned = cur /\ roll = <<>>
    <2>1. SavedAcross(filter, savedRoll, cur)
      BY <1>1, <1>3 DEF SavedBelow, SavedAcross
    <2> QED
      BY <1>1, <1>3, <2>1, AcrossRests DEF Ground
  <1> QED
    BY <1>1, <1>2, <1>3

LEMMA WaitingRests ==
    ASSUME TInv, KInv, pc = "iter" \/ (pc = "delay" /\ ~flag), scanned # MaxWord,
           Synced(chain, filter, scanned)
    PROVE  Resting
  BY SyncedRests DEF KInv, Waiting, Ground

-----------------------------------------------------------------------------
(* The loop of scannerThread                                               *)

LEMMA LoopKeepsKInv ==
    ASSUME TInv, KInv, ScanIteration \/ ScanOverflow \/ Go \/ Delay
    PROVE  KInv'
  <1>0. UNCHANGED <<chain, scanned, filter, txHeight, lastScanned, savedRoll, roll,
                    flag, main, blk, left>>
    BY DEF ScanIteration, ScanOverflow, Go, Delay, Next0, disk, local
  <1>1. Spared'
    BY <1>0 DEF KInv, Spared
  <1>2. scanned \in Word \cup {NoHeight} /\ cur \in Word /\ MaxWord \in Nat
    BY DEF TInv, TypeOK
  <1>3. main \notin Startup /\ pc # "off"
    BY DEF KInv, Threads, ScanIteration, ScanOverflow, Go, Delay
  <1> USE <1>0, <1>1, <1>3
  <1>4. CASE ScanIteration
    <2>1. pc = "iter" /\ pc' = "go" /\ scanned # MaxWord /\ cur' = scanned + 1
      BY <1>4 DEF ScanIteration, Next0, Goto, NoHeight
    <2>2. scanned = cur' - 1 /\ cur' \in Int
      BY <1>2, <2>1 DEF Word, NoHeight
    <2>3. Threads' /\ Down'
      BY <2>1 DEF KInv, Threads, Down, Startup
    <2>4. Working'
      BY <2>1, <2>2 DEF KInv, Waiting, Working, Ground
    <2> QED
      BY <2>1, <2>3, <2>4 DEF KInv, Waiting, InHand, Storing, Reverting, Midway
  <1>5. CASE ScanOverflow
    <2>1. pc = "iter" /\ pc' = "delay" /\ scanned = MaxWord /\ flag
      BY <1>5 DEF ScanOverflow, Next0, Goto
    <2>2. Threads' /\ Down'
      BY <2>1 DEF KInv, Threads, Down, Startup, Closed
    <2> QED
      BY <2>1, <2>2 DEF KInv, Waiting, Working, InHand, Storing, Reverting, Midway
  <1>6. CASE Go
    <2>1. pc = "go" /\ cur' = cur
          /\ \/ pc' = "fetch" /\ ~flag /\ cur <= Tip
             \/ pc' = "delay" /\ (flag \/ ~(cur <= Tip))
      BY <1>6 DEF Go, Next0, Goto, local
    <2>2. Threads'
      BY <2>1 DEF KInv, Threads, Startup
    <2>3. CASE pc' = "fetch"
      <3>1. Working'
        BY <2>1, <2>3 DEF KInv, Working, Ground, Tip
      <3> QED
        BY <2>1, <2>2, <2>3, <3>1 DEF KInv, Down, Startup, Waiting, InHand, Storing,
           Reverting, Midway
    <2>4. CASE pc' = "delay" /\ ~flag
      <3>1. scanned = cur - 1
        BY <2>1, <2>4 DEF KInv, Working
      <3>2. scanned + 1 = cur
        BY <1>2, <3>1 DEF Word
      <3>3. Waiting'
        BY <2>1, <2>4, <3>2 DEF KInv, Working, Waiting, Ground
      <3> QED
        BY <2>1, <2>2, <2>4, <3>3 DEF KInv, Down, Startup, Working, InHand, Storing,
           Reverting, Midway
    <2>5. CASE pc' = "delay" /\ flag
      <3>1. Synced(chain, filter, cur - 1) /\ Stops
        BY <2>1, <2>5 DEF KInv, Working, Threads
      <3>2. Closed(chain, filter, txHeight, scanned, savedRoll, roll)
        BY <2>1, <3>1, WorkingRests DEF Resting, WorkPC
      <3>3. Down'
        BY <2>5, <3>2 DEF Down, Startup
      <3> QED
        BY <2>1, <2>2, <2>5, <3>3 DEF KInv, Waiting, Working, InHand, Storing,
           Reverting, Midway
    <2> QED
      BY <2>1, <2>3, <2>4, <2>5
  <1>7. CASE Delay
    <2>1. pc = "delay" /\ pc' = (IF flag THEN "stopped" ELSE "iter") /\ cur' = cur
      BY <1>7 DEF Delay, Next0, Goto, local
    <2>2. Threads'
      BY <2>1 DEF KInv, Threads, Startup
    <2>3. Down'
      BY <2>1 DEF KInv, Down, Startup
    <2>4. Waiting'
      BY <2>1 DEF KInv, Waiting, Ground
    <2> QED
      BY <2>1, <2>2, <2>3, <2>4 DEF KInv, Working, InHand, Storing, Reverting, Midway
  <1> QED
    BY <1>4, <1>5, <1>6, <1>7

-----------------------------------------------------------------------------
(* blockInfo and the fork detection                                        *)

(* With no last block, the filters are the node's.                         *)
LEMMA NoLastSynced ==
    ASSUME NEW c, NEW f, NEW n \in Nat, Linked(f, n), LastOk(c, f, NoBlock, n)
    PROVE  Synced(c, f, n - 1)
  <1>0. NoBlock \notin Block /\ NoBlock # ZeroHash
    BY DEF Hash
  <1>1. NoBlock # Below(f, n)
    <2>1. n # 0 => f[n - 1] \in Block
      BY DEF Linked
    <2> QED
      BY <1>0, <2>1 DEF Below
  <1>2. Linked(f, n + 1) => NoBlock # f[n]
    BY <1>0 DEF Linked
  <1> QED
    BY <1>1, <1>2 DEF LastOk

LEMMA FetchKeepsKInv ==
    ASSUME TInv, KInv, Fetch \/ Resolve \/ ResolveFails \/ Decide
    PROVE  KInv'
  <1>0. UNCHANGED <<chain, scanned, filter, txHeight, lastScanned, savedRoll, roll,
                    flag, main, cur, left>>
    BY DEF Fetch, Resolve, ResolveFails, Decide, Next0, disk, local
  <1>1. Spared'
    BY <1>0 DEF KInv, Spared
  <1>2. cur \in Word /\ cur \in Nat /\ chain \in Chains /\ Len(chain) \in Nat
    BY ChainFits DEF TInv, TypeOK, Word
  <1>3. main \notin Startup
    BY DEF KInv, Threads, Fetch, Resolve, ResolveFails, Decide
  <1> USE <1>0, <1>1, <1>3
  <1>4. CASE Fetch
    <2>1. pc = "fetch" /\ pc' = "resolve" /\ cur <= Tip /\ blk' = BlockAt(cur)
      BY <1>4 DEF Fetch, Next0, Goto
    <2>2. cur < Len(chain)
      BY <1>2, <2>1 DEF Tip
    <2>3. Linked(filter, cur) /\ LastOk(chain, filter, lastScanned, cur)
      BY <2>1 DEF KInv, Working, Ground
    <2>4. lastScanned = NoBlock => Prev[blk'] = Below(filter, cur)
      BY <1>2, <2>1, <2>2, <2>3, NoLastSynced, SyncedContinues DEF BlockAt
    <2>5. InHand'
      BY <1>2, <2>1, <2>2, <2>4 DEF InHand, BlockAt
    <2>6. Working' /\ Threads'
      BY <2>1 DEF KInv, Working, Ground, Tip, Threads, Startup
    <2> QED
      BY <2>1, <2>5, <2>6 DEF KInv, Down, Startup, Waiting, Storing, Reverting,
         Midway
  <1>5. CASE Resolve
    <2>1. pc = "resolve" /\ pc' = "decide" /\ blk' = blk
      BY <1>5 DEF Resolve, Next0, Goto, local
    <2>2. InHand'
      BY <2>1 DEF KInv, InHand, BlockAt
    <2>3. Working' /\ Threads'
      BY <2>1 DEF KInv, Working, Ground, Tip, Threads, Startup
    <2> QED
      BY <2>1, <2>2, <2>3 DEF KInv, Down, Startup, Waiting, Storing, Reverting,
         Midway
  <1>6. CASE ResolveFails
    <2>1. pc = "resolve" /\ pc' = "rollLast" /\ blk' = blk
      BY <1>6 DEF ResolveFails, Next0, Goto, local
    <2>2. Working' /\ Threads'
      BY <2>1 DEF KInv, Working, Ground, Tip, Threads, Startup
    <2> QED
      BY <2>1, <2>2 DEF KInv, Down, Startup, Waiting, InHand, Storing,
         Reverting, Midway
  <1>7. CASE Decide
    <2>1. /\ pc = "decide" /\ blk' = blk
          /\ pc' = IF flag THEN "delay" ELSE IF PreviousSame THEN "addTxs" ELSE "rollLast"
      BY <1>7 DEF Decide, Next0, Goto, local
    <2>2. Threads'
      BY <2>1 DEF KInv, Threads, Startup
    <2>3. CASE flag
      <3>1. Synced(chain, filter, cur - 1) /\ Stops
        BY <2>1, <2>3 DEF KInv, Working, Threads
      <3>2. Closed(chain, filter, txHeight, scanned, savedRoll, roll)
        BY <2>1, <3>1, WorkingRests DEF Resting, WorkPC
      <3>3. Down'
        BY <2>1, <2>3, <3>2 DEF Down, Startup
      <3> QED
        BY <2>1, <2>2, <2>3, <3>3 DEF KInv, Waiting, Working, InHand, Storing,
           Reverting, Midway
    <2>4. CASE ~flag /\ PreviousSame
      <3>1. PICK c \in Chains : cur < Len(c) /\ blk = c[cur + 1]
        BY <2>1 DEF KInv, InHand
      <3>2. Linked(filter, cur) /\ LastOk(chain, filter, lastScanned, cur)
        BY <2>1 DEF KInv, Working, Ground
      <3>3. lastScanned = NoBlock => Prev[blk] = Below(filter, cur)
        BY <2>1 DEF KInv, InHand
      <3>4. Linked(filter, cur + 1) => Prev[blk] # filter[cur]
        BY <1>2, <3>1, OneHeight
      <3>5. lastScanned = NoBlock \/ lastScanned = Prev[blk]
        BY <2>4 DEF PreviousSame
      <3>6. Prev[blk] = Below(filter, cur)
        BY <3>2, <3>3, <3>4, <3>5 DEF LastOk
      <3>7. Working'
        BY <2>1, <2>4 DEF KInv, Working, Ground, Tip
      <3>8. InHand'
        BY <2>1, <2>4, <3>6 DEF KInv, InHand, BlockAt
      <3> QED
        BY <2>1, <2>2, <2>4, <3>7, <3>8 DEF KInv, Down, Startup, Waiting, Storing, Reverting,
           Midway
    <2>5. CASE ~flag /\ ~PreviousSame
      <3>1. Working'
        BY <2>1, <2>5 DEF KInv, Working, Ground, Tip
      <3> QED
        BY <2>1, <2>2, <2>5, <3>1 DEF KInv, Down, Startup, Waiting, InHand, Storing, Reverting,
           Midway
    <2> QED
      BY <2>3, <2>4, <2>5
  <1> QED
    BY <1>4, <1>5, <1>6, <1>7

-----------------------------------------------------------------------------
(* addBlockInfo                                                            *)

(* What AddTxs, AddFilter and AddRoll start from                           *)
LEMMA FlightFacts ==
    ASSUME TInv, KInv, pc \in InFlight
    PROVE  /\ cur \in Word /\ cur \in Nat /\ cur + 1 \in Word /\ cur <= Tip
           /\ blk \in Block /\ chain \in Chains /\ cur < Len(chain)
           /\ main \notin Startup /\ pc # "off"
           /\ filter \in [Word -> Block \cup {NoBlock}]
           /\ txHeight \in [Tx -> Word \cup {NoHeight}]
           /\ roll \in Seq(RollItem) /\ savedRoll \in Seq(RollItem)
  <1>1. /\ cur \in Word /\ cur <= Tip /\ blk \in Block /\ chain \in Chains
        /\ filter \in [Word -> Block \cup {NoBlock}]
        /\ txHeight \in [Tx -> Word \cup {NoHeight}]
        /\ roll \in Seq(RollItem) /\ savedRoll \in Seq(RollItem)
    BY DEF TInv, TypeOK, FlightBelowTip
  <1>2. Len(chain) \in 1..MaxWord
    BY <1>1, ChainFits
  <1>3. cur \in Nat /\ cur + 1 \in Word /\ cur < Len(chain)
    BY <1>1, <1>2 DEF Tip, Word
  <1>4. pc # "off" /\ main \notin Startup
    BY DEF InFlight, KInv, Threads
  <1> QED
    BY <1>1, <1>3, <1>4

(* writeLDB dbu: the heights of the block's transactions are recorded.     *)
LEMMA AddTxsKeepsKInv == ASSUME TInv, KInv, AddTxs PROVE KInv'
  <1>1. /\ pc = "addTxs" /\ pc' = "addFilter"
        /\ txHeight' = [x \in Tx |-> IF x \in Adds[blk] THEN cur ELSE txHeight[x]]
        /\ UNCHANGED <<chain, scanned, filter, lastScanned, savedRoll, roll, flag,
                       main, cur, blk, left>>
    BY DEF AddTxs, Next0, Goto, local
  <1>2. /\ cur \in Nat /\ blk \in Block /\ main \notin Startup
        /\ txHeight \in [Tx -> Word \cup {NoHeight}]
    BY <1>1, FlightFacts DEF InFlight
  <1>3. cur # NoHeight /\ Adds[blk] \subseteq Tx
    BY <1>2 DEF NoHeight
  <1>4. \A x \in Adds[blk] : txHeight'[x] # NoHeight
    BY <1>1, <1>3
  <1>5. Recorded(filter, txHeight, cur) /\ Linked(filter, cur)
    BY <1>1 DEF KInv, Working, Ground
  <1>6. Recorded(filter, txHeight', cur)
    <2> SUFFICES ASSUME Stops, NEW h \in 0..(cur - 1), NEW x \in Adds[filter[h]]
                 PROVE  txHeight'[x] # NoHeight
      BY DEF Recorded
    <2>1. filter[h] \in Block
      BY <1>5 DEF Linked
    <2>2. x \in Tx /\ txHeight[x] # NoHeight
      BY <1>5, <2>1 DEF Recorded
    <2> QED
      BY <1>1, <1>3, <2>2
  <1>7. Threads' /\ Spared'
    BY <1>1 DEF KInv, Threads, Spared, Startup
  <1>8. Working'
    BY <1>1, <1>6 DEF KInv, Working, Ground, Tip
  <1>9. InHand'
    BY <1>1, <1>4 DEF KInv, InHand, BlockAt
  <1> QED
    BY <1>1, <1>2, <1>7, <1>8, <1>9 DEF KInv, Down, Startup, Waiting, Storing,
       Reverting, Midway

(* writeLDB dbf: one more filter on the same chain                         *)
LEMMA AddFilterKeepsKInv == ASSUME TInv, KInv, AddFilter PROVE KInv'
  <1>1. /\ pc = "addFilter" /\ pc' = "addRoll"
        /\ filter' = [filter EXCEPT ![cur] = blk] /\ scanned' = cur
        /\ UNCHANGED <<chain, txHeight, lastScanned, savedRoll, roll, flag, main,
                       cur, blk, left>>
    BY DEF AddFilter, Next0, Goto, local, utxo
  <1>2. /\ cur \in Nat /\ cur \in Word /\ blk \in Block /\ main \notin Startup
        /\ cur < Len(chain) /\ filter \in [Word -> Block \cup {NoBlock}]
        /\ roll \in Seq(RollItem) /\ savedRoll \in Seq(RollItem)
    BY <1>1, FlightFacts DEF InFlight
  <1>3. /\ Ground(cur) /\ SavedBelow(filter, savedRoll, roll, cur)
        /\ flag => Synced(chain, filter, cur - 1)
        /\ Prev[blk] = Below(filter, cur)
        /\ flag => blk = BlockAt(cur)
        /\ Stops => \A x \in Adds[blk] : txHeight[x] # NoHeight
    BY <1>1 DEF KInv, Working, InHand
  <1>4. filter'[cur] = blk /\ \A h \in 0..(cur - 1) : filter'[h] = filter[h]
    BY <1>1, <1>2 DEF Word
  <1>5. Linked(filter', cur + 1)
    <2> SUFFICES ASSUME NEW h \in 0..cur
                 PROVE  filter'[h] \in Block /\ Prev[filter'[h]] = Below(filter', h)
      BY <1>2 DEF Linked
    <2>1. Below(filter', h) = Below(filter, h)
      BY <1>2, <1>4 DEF Below
    <2>2. h # cur => h \in 0..(cur - 1)
      BY <1>2
    <2> QED
      BY <1>2, <1>3, <1>4, <2>1, <2>2 DEF Ground, Linked
  <1>6. Recorded(filter', txHeight, cur + 1)
    <2> SUFFICES ASSUME Stops, NEW h \in 0..cur, NEW x \in Adds[filter'[h]]
                 PROVE  txHeight[x] # NoHeight
      BY <1>2 DEF Recorded
    <2>1. h # cur => h \in 0..(cur - 1)
      BY <1>2
    <2> QED
      BY <1>3, <1>4, <2>1 DEF Ground, Recorded
  <1>7. Describes(filter', roll, cur)
    <2>1. cur \in 0..cur /\ Describes(filter, roll, cur)
      BY <1>2, <1>3 DEF Ground
    <2> QED
      BY <1>2, <1>4, <2>1, DescribesBelow
  <1>8. SavedBelow(filter', savedRoll, roll, cur)
    BY <1>2, <1>3, <1>4, DescribesBelow DEF SavedBelow
  <1>9. flag => Synced(chain, filter', cur)
    <2> SUFFICES ASSUME flag, NEW h \in 0..cur
                 PROVE  h < Len(chain) /\ filter'[h] = chain[h + 1]
      BY DEF Synced
    <2>1. h # cur => h \in 0..(cur - 1)
      BY <1>2
    <2> QED
      BY <1>2, <1>3, <1>4, <2>1 DEF Synced, BlockAt
  <1>10. Storing'
    BY <1>1, <1>4, <1>5, <1>6, <1>7, <1>8, <1>9 DEF Storing
  <1>11. Threads' /\ Spared'
    BY <1>1 DEF KInv, Threads, Spared, Startup
  <1> QED
    BY <1>1, <1>2, <1>10, <1>11 DEF KInv, Down, Startup, Waiting, Working, InHand,
       Reverting, Midway

(* insertBtcRollback: the new item is that of the block just stored.       *)
LEMMA AddRollKeepsKInv == ASSUME TInv, KInv, AddRoll PROVE KInv'
  <1> DEFINE kept == IF Len(roll) < RollbackSize THEN Len(roll) ELSE RollbackSize - 1
             pushed == <<Item>> \o SubSeq(roll, 1, kept)
  <1>1. /\ pc = "addRoll" /\ pc' = "addSpent" /\ roll' = pushed
        /\ UNCHANGED <<chain, scanned, filter, txHeight, lastScanned, savedRoll, flag,
                       main, cur, blk, left>>
    BY DEF AddRoll, Next0, Goto, disk, local
  <1>2. /\ cur \in Nat /\ cur \in Word /\ blk \in Block /\ main \notin Startup
        /\ roll \in Seq(RollItem) /\ kept \in 0..Len(roll)
    <2>1. Len(roll) <= RollbackSize
      BY DEF TInv, RollsBounded
    <2>2. roll \in Seq(RollItem) /\ Len(roll) \in Nat
      BY <1>1, FlightFacts DEF InFlight
    <2>3. kept \in 0..Len(roll)
      BY <2>1, <2>2
    <2> QED
      BY <1>1, <2>3, FlightFacts DEF InFlight
  <1>3. /\ Linked(filter, cur + 1) /\ filter[cur] = blk /\ Describes(filter, roll, cur)
        /\ SavedBelow(filter, savedRoll, roll, cur)
    BY <1>1 DEF KInv, Storing
  <1>4. Item \in RollItem
    BY <1>2, MinusInWord DEF Item, RollItem
  <1>5. Fits(filter, Item, cur)
    BY <1>2, <1>3, StoredFits DEF Item
  <1>6. pushed # <<>>
    <2> HIDE DEF kept
    <2> QED
      BY <1>2, <1>4, PushSome
  <1> HIDE DEF kept
  <1>7. Describes(filter, pushed, cur + 1)
    BY <1>2, <1>3, <1>4, <1>5, PushDescribes
  <1> HIDE DEF pushed
  <1>8. SavedBelow(filter, savedRoll, roll', cur + 1)
    <2>1. \A m \in 0..cur : m \in 0..(cur + 1)
      BY <1>2
    <2> QED
      BY <1>1, <1>3, <1>6, <2>1 DEF SavedBelow
  <1>9. Storing'
    BY <1>1, <1>7, <1>8 DEF KInv, Storing
  <1>10. Threads' /\ Spared'
    BY <1>1 DEF KInv, Threads, Spared, Startup
  <1> QED
    BY <1>1, <1>2, <1>9, <1>10 DEF KInv, Down, Startup, Waiting, Working, InHand,
       Reverting, Midway

(* insertSpentTxUpdates and setLastScannedBlock                            *)
LEMMA AddLastKeepsKInv == ASSUME TInv, KInv, AddSpent \/ AddLast PROVE KInv'
  <1>0. UNCHANGED <<chain, scanned, filter, txHeight, savedRoll, roll, flag, main,
                    blk, left>>
    BY DEF AddSpent, AddLast, Next0, local, utxo
  <1>1. cur \in Nat /\ cur <= Tip /\ main \notin Startup
    BY FlightFacts DEF AddSpent, AddLast, InFlight
  <1>2. CASE AddSpent
    <2>1. pc = "addSpent" /\ pc' = "addLast" /\ UNCHANGED <<lastScanned, cur>>
      BY <1>2 DEF AddSpent, Next0, Goto, local
    <2>2. Storing'
      BY <1>0, <2>1 DEF KInv, Storing
    <2>3. Threads' /\ Spared'
      BY <1>0, <2>1 DEF KInv, Threads, Spared, Startup
    <2> QED
      BY <1>0, <1>1, <2>1, <2>2, <2>3 DEF KInv, Down, Startup, Waiting, Working,
         InHand, Reverting, Midway
  <1>3. CASE AddLast
    <2>1. pc = "addLast" /\ pc' = "go" /\ lastScanned' = blk /\ cur' = cur + 1
      BY <1>3 DEF AddLast, Next0, Goto
    <2>2. scanned = cur' - 1 /\ cur' - 1 = cur /\ cur' # 0
      BY <1>1, <2>1 DEF KInv, Storing
    <2>3. lastScanned' = Below(filter, cur')
      BY <2>1, <2>2 DEF KInv, Storing, Below
    <2>4. Working'
      BY <1>0, <2>1, <2>2, <2>3 DEF KInv, Storing, Working, Ground, LastOk
    <2>5. Threads' /\ Spared'
      BY <1>0, <2>1 DEF KInv, Threads, Spared, Startup
    <2> QED
      BY <1>0, <1>1, <2>1, <2>4, <2>5 DEF KInv, Down, Startup, Waiting, InHand,
         Storing, Reverting, Midway
  <1> QED
    BY <1>2, <1>3

-----------------------------------------------------------------------------
(* performBtcRollback and setScannedHeight restart                         *)

RollPC == {"rollLast", "rollHeight", "rollTxs", "rollSaved", "rollVar", "rollRestart"}

LEMMA RollFacts ==
    ASSUME TInv, KInv, pc \in RollPC
    PROVE  /\ cur \in Word /\ cur \in Nat /\ cur <= Tip /\ main \notin Startup
           /\ roll \in Seq(RollItem) /\ savedRoll \in Seq(RollItem)
           /\ Linked(filter, cur) /\ Describes(filter, roll, cur)
           /\ Len(roll) \in 0..cur /\ Kept \in 0..cur /\ Kept \in Word
           /\ (roll = <<>> => Kept = cur) /\ (roll # <<>> => Kept < cur)
  <1>1. /\ cur \in Word /\ cur \in Nat /\ roll \in Seq(RollItem)
        /\ savedRoll \in Seq(RollItem) /\ main \notin Startup
    BY DEF TInv, TypeOK, Word, KInv, Threads, RollPC
  <1>2. Linked(filter, cur) /\ Describes(filter, roll, cur) /\ cur <= Tip
    BY EmptyDescribes DEF KInv, Working, Ground, Reverting, Midway, RollPC
  <1>3. Len(roll) \in 0..cur
    BY <1>1, <1>2, DescribedLength
  <1>4. Kept \in 0..cur /\ Kept \in Word
    <2> DEFINE n == Len(roll)
    <2>1. n \in 0..cur
      BY <1>3
    <2> HIDE DEF n
    <2>2. cur - n \in 0..cur /\ cur - n \in Word
      BY <1>1, <2>1 DEF Word
    <2> QED
      BY <2>2 DEF Kept, n
  <1>5. (roll = <<>> => Kept = cur) /\ (roll # <<>> => Kept < cur)
    <2>1. roll = <<>> => Len(roll) = 0
      OBVIOUS
    <2>2. roll # <<>> => Len(roll) # 0
      BY <1>1
    <2> DEFINE n == Len(roll)
    <2> HIDE DEF n
    <2>3. n \in 0..cur
      BY <1>3 DEF n
    <2>4. (n = 0 => cur - n = cur) /\ (n # 0 => cur - n < cur)
      BY <1>1, <2>3
    <2> QED
      BY <2>1, <2>2, <2>4 DEF Kept, n
  <1> QED
    BY <1>1, <1>2, <1>3, <1>4, <1>5

(* The oldest item, as the invariant sees it                               *)
LEMMA OldestSays ==
    ASSUME TInv, KInv, pc \in RollPC, roll # <<>>
    PROVE  \/ /\ Oldest.prevHash = Below(filter, Kept)
              /\ Oldest.prevHeight = Minus(Kept, 1)
           \/ /\ Stops
              /\ Oldest.prevHash = filter[Kept]
              /\ Oldest.prevHeight = Kept
  <1>1. /\ roll \in Seq(RollItem) /\ cur \in Nat /\ Describes(filter, roll, cur)
        /\ Kept \in 0..cur
    BY RollFacts
  <1>2. \/ Fits(filter, Oldest, Kept)
        \/ Stops /\ Fits(filter, Oldest, Kept + 1)
    BY <1>1, OldestFits DEF Oldest, Kept
  <1>3. Below(filter, Kept + 1) = filter[Kept] /\ Minus(Kept + 1, 1) = Kept
    BY <1>1 DEF Below, Minus
  <1>4. CASE Fits(filter, Oldest, Kept)
    BY <1>4, FitsSays
  <1>5. CASE Stops /\ Fits(filter, Oldest, Kept + 1)
    BY <1>3, <1>5, FitsSays
  <1> QED
    BY <1>2, <1>4, <1>5

(* The last block becomes the one below the blocks taken back.             *)
LEMMA RollLastKeepsKInv == ASSUME TInv, KInv, RollLast PROVE KInv'
  <1>1. /\ pc = "rollLast" /\ pc' = "rollHeight"
        /\ lastScanned' = IF roll = <<>> THEN lastScanned ELSE Oldest.prevHash
        /\ UNCHANGED <<chain, scanned, filter, txHeight, savedRoll, roll, flag, main,
                       cur, blk, left>>
    BY DEF RollLast, Next0, Goto, local, utxo
  <1>2. /\ cur \in Nat /\ main \notin Startup /\ Linked(filter, cur) /\ cur <= Tip
        /\ Kept \in 0..cur
        /\ (roll = <<>> => Kept = cur) /\ (roll # <<>> => Kept < cur)
    BY <1>1, RollFacts DEF RollPC
  <1>3. LastOk(chain, filter, lastScanned', Kept)
    <2>1. CASE roll = <<>>
      BY <1>1, <1>2, <2>1 DEF KInv, Working
    <2>2. CASE roll # <<>>
      <3>1. Linked(filter, Kept + 1)
        BY <1>2, <2>2, LowerLinked
      <3> QED
        BY <1>1, <2>2, <3>1, OldestSays DEF LastOk, RollPC
    <2> QED
      BY <2>1, <2>2
  <1>4. Reverting'
    <2>1. Kept' = Kept
      BY <1>1 DEF Kept
    <2> QED
      BY <1>1, <1>3, <2>1 DEF Reverting, Midway
  <1>5. Working'
    BY <1>1 DEF KInv, Working, Ground, Tip
  <1>6. Threads' /\ Spared'
    BY <1>1 DEF KInv, Threads, Spared, Startup
  <1> QED
    BY <1>1, <1>2, <1>4, <1>5, <1>6 DEF KInv, Down, Startup, Waiting, InHand, Storing

(* The scanned height follows.                                             *)
LEMMA RollHeightKeepsKInv == ASSUME TInv, KInv, RollHeight PROVE KInv'
  <1>1. /\ pc = "rollHeight" /\ pc' = "rollTxs"
        /\ scanned' = IF roll = <<>> THEN scanned ELSE Oldest.prevHeight
        /\ UNCHANGED <<chain, lastScanned, filter, txHeight, savedRoll, roll, flag,
                       main, cur, blk, left>>
    BY DEF RollHeight, Next0, Goto, local, utxo
  <1>2. /\ cur \in Nat /\ main \notin Startup /\ Linked(filter, cur) /\ cur <= Tip
        /\ Kept \in 0..cur /\ Describes(filter, roll, cur)
    BY <1>1, RollFacts DEF RollPC
  <1>3. /\ Recorded(filter, txHeight, cur) /\ SavedBelow(filter, savedRoll, roll, cur)
        /\ scanned \in {cur - 1, cur}
        /\ flag => Synced(chain, filter, cur - 1)
        /\ LastOk(chain, filter, lastScanned, Kept)
    BY <1>1 DEF KInv, Working, Reverting, Ground
  <1>4. flag => Synced(chain, filter, Kept - 1)
    <2>1. Kept - 1 \in Int /\ cur - 1 \in Int /\ Kept - 1 <= cur - 1
      BY <1>2
    <2> QED
      BY <1>3, <2>1, LowerSynced
  <1>5. Reverting'
    <2>1. Kept' = Kept /\ (roll # <<>> => Oldest' = Oldest) /\ Tip' = Tip
      BY <1>1 DEF Kept, Oldest, Tip
    <2> QED
      BY <1>1, <1>2, <1>3, <1>4, <2>1 DEF Reverting, Midway
  <1>6. Threads' /\ Spared'
    BY <1>1 DEF KInv, Threads, Spared, Startup
  <1> QED
    BY <1>1, <1>2, <1>5, <1>6 DEF KInv, Down, Startup, Waiting, Working, InHand,
       Storing

(* The blocks that stay keep their transactions.                           *)
LEMMA RollTxsKeepsKInv == ASSUME Stops => NoRepeats, TInv, KInv, RollTxs PROVE KInv'
  <1>1. /\ pc = "rollTxs" /\ pc' = "rollSaved"
        /\ txHeight' = [x \in Tx |-> IF x \in UNION {roll[i].added : i \in DOMAIN roll}
                                     THEN NoHeight ELSE txHeight[x]]
        /\ UNCHANGED <<chain, scanned, lastScanned, filter, savedRoll, roll, flag,
                       main, cur, blk, left>>
    BY DEF RollTxs, Next0, Goto, local
  <1>2. /\ cur \in Nat /\ main \notin Startup /\ Linked(filter, cur)
        /\ Kept \in 0..cur /\ Describes(filter, roll, cur) /\ Len(roll) \in 0..cur
        /\ roll \in Seq(RollItem) /\ txHeight \in [Tx -> Word \cup {NoHeight}]
        /\ (roll # <<>> => Kept < cur)
    BY <1>1, RollFacts DEF RollPC, TInv, TypeOK
  <1>3. Recorded(filter, txHeight, cur)
    BY <1>1 DEF KInv, Reverting
  <1>4. ASSUME NEW z \in 0..cur, \A i \in 1..Len(roll) : \E h \in z..cur : Fits(filter, roll[i], h)
        PROVE  Recorded(filter, txHeight', z)
    <2>1. ASSUME NEW x \in Tx, \A i \in 1..Len(roll) : x \notin roll[i].added
          PROVE  txHeight'[x] = txHeight[x]
      BY <1>1, <1>2, <2>1
    <2>2. \A x \in Tx : (\A i \in 1..Len(roll) : x \notin roll[i].added)
                           => txHeight'[x] = txHeight[x]
      BY <2>1
    <2>3. cur \in Nat /\ Linked(filter, cur) /\ roll \in Seq(RollItem)
      BY <1>2
    <2> QED
      BY ONLY Stops => NoRepeats, <1>3, <1>4, <2>2, <2>3, RollTxsKeep
  <1>5. ASSUME Exact(filter, roll, cur)
        PROVE  Recorded(filter, txHeight', Kept)
    <2>1. ASSUME NEW i \in 1..Len(roll)
          PROVE  \E h \in Kept..cur : Fits(filter, roll[i], h)
      <3>1. Fits(filter, roll[i], cur - i)
        BY <1>5 DEF Exact
      <3>2. cur - i \in Kept..cur
        BY <1>2 DEF Kept
      <3> QED
        BY <3>1, <3>2
    <2> QED
      BY <1>2, <1>4, <2>1
  <1>6. ASSUME Stops, Twice(filter, roll, cur)
        PROVE  Kept + 1 \in 0..cur /\ Recorded(filter, txHeight', Kept + 1)
    <2>1. Len(roll) \in 1..cur /\ Kept + 1 \in 0..cur
      BY <1>2, <1>6 DEF Twice, Kept
    <2>2. ASSUME NEW i \in 1..Len(roll)
          PROVE  \E h \in (Kept + 1)..cur : Fits(filter, roll[i], h)
      <3>1. CASE i = Len(roll)
        <4>1. Fits(filter, roll[i], Kept + 1)
          BY <1>6, <3>1 DEF Twice, Kept
        <4>2. Kept + 1 \in (Kept + 1)..cur
          BY <2>1
        <4> QED
          BY <4>1, <4>2
      <3>2. CASE i # Len(roll)
        <4>1. i \in 1..(Len(roll) - 1)
          BY <2>1, <3>2
        <4>2. Fits(filter, roll[i], cur - i)
          BY <1>6, <4>1 DEF Twice
        <4>3. cur - i \in (Kept + 1)..cur
          BY <1>2, <2>1, <4>1 DEF Kept
        <4> QED
          BY <4>2, <4>3
      <3> QED
        BY <3>1, <3>2
    <2> QED
      BY <1>4, <2>1, <2>2
  <1>7. Recorded(filter, txHeight', Kept)
    <2>1. ASSUME Stops, Twice(filter, roll, cur)
          PROVE  Recorded(filter, txHeight', Kept)
      <3>1. Kept \in Int /\ Kept + 1 \in Int /\ Kept <= Kept + 1
        BY <1>2
      <3> QED
        BY <1>6, <2>1, <3>1, LowerRecorded
    <2> QED
      BY <1>2, <1>5, <2>1 DEF Describes
  <1>8. roll # <<>> /\ scanned # MaxWord => Recorded(filter, txHeight', scanned + 1)
    <2> SUFFICES ASSUME roll # <<>>, scanned # MaxWord
                 PROVE  Recorded(filter, txHeight', scanned + 1)
      OBVIOUS
    <2>1. scanned = Oldest.prevHeight
      BY <1>1 DEF KInv, Reverting, Midway
    <2>2. Fits(filter, Oldest, Kept) \/ (Stops /\ Twice(filter, roll, cur))
      <3>1. Len(roll) \in 1..Len(roll)
        BY <1>2
      <3>2. Exact(filter, roll, cur) => Fits(filter, Oldest, Kept)
        BY <3>1 DEF Exact, Oldest, Kept
      <3> QED
        BY <1>2, <3>2 DEF Describes
    <2>3. CASE Fits(filter, Oldest, Kept)
      <3>1. scanned = Minus(Kept, 1)
        BY <2>1, <2>3, FitsSays
      <3>2. scanned + 1 = Kept
        BY <1>2, <3>1 DEF Minus
      <3> QED
        BY <1>7, <3>2
    <2>4. CASE Stops /\ Twice(filter, roll, cur)
      <3>1. Fits(filter, Oldest, Kept + 1)
        BY <2>4 DEF Twice, Oldest, Kept
      <3>2. scanned = Minus(Kept + 1, 1)
        BY <2>1, <3>1, FitsSays
      <3>3. scanned = Kept
        BY <1>2, <3>2 DEF Minus
      <3> QED
        BY <1>6, <2>4, <3>3
    <2> QED
      BY <2>2, <2>3, <2>4
  <1>9. Reverting'
    <2>1. Kept' = Kept /\ (roll # <<>> => Oldest' = Oldest) /\ Tip' = Tip
      BY <1>1 DEF Kept, Oldest, Tip
    <2> QED
      BY <1>1, <1>7, <1>8, <2>1 DEF KInv, Reverting, Midway
  <1>10. Threads' /\ Spared'
    BY <1>1 DEF KInv, Threads, Spared, Startup
  <1> QED
    BY <1>1, <1>2, <1>9, <1>10 DEF KInv, Down, Startup, Waiting, Working, InHand,
       Storing

(* The dumped sequence, if any, is dropped.                                *)
LEMMA RollSavedKeepsKInv == ASSUME TInv, KInv, RollSaved PROVE KInv'
  <1>1. /\ pc = "rollSaved" /\ pc' = "rollVar" /\ savedRoll' = <<>>
        /\ UNCHANGED <<chain, scanned, lastScanned, filter, txHeight, roll, flag,
                       main, cur, blk, left>>
    BY DEF RollSaved, Next0, Goto, local, utxo
  <1>2. main \notin Startup
    BY <1>1, RollFacts DEF RollPC
  <1>3. Reverting'
    <2>1. Kept' = Kept /\ (roll # <<>> => Oldest' = Oldest) /\ Tip' = Tip
      BY <1>1 DEF Kept, Oldest, Tip
    <2> QED
      BY <1>1, <2>1 DEF KInv, Reverting, Midway
  <1>4. Threads' /\ Spared'
    BY <1>1 DEF KInv, Threads, Spared, Startup
  <1> QED
    BY <1>1, <1>2, <1>3, <1>4 DEF KInv, Down, Startup, Waiting, Working, InHand,
       Storing

(* The loop goes on from the blocks that stay; what main dumped since      *)
(* RollSaved reaches above them.                                           *)
LEMMA RollVarKeepsKInv == ASSUME TInv, KInv, RollVar PROVE KInv'
  <1>1. /\ pc = "rollVar" /\ pc' = "rollRestart" /\ roll' = <<>> /\ cur' = Restart
        /\ UNCHANGED <<chain, scanned, lastScanned, filter, txHeight, savedRoll, flag,
                       main, blk, left>>
    BY DEF RollVar, Next0, Goto, disk
  <1>2. /\ cur \in Nat /\ cur \in Word /\ main \notin Startup /\ Linked(filter, cur)
        /\ cur <= Tip /\ Kept \in 0..cur /\ Describes(filter, roll, cur)
        /\ Len(roll) \in 0..cur /\ (roll = <<>> => Kept = cur)
        /\ roll \in Seq(RollItem)
    BY <1>1, RollFacts DEF RollPC
  <1>3. cur' = Kept /\ Kept' = Kept
    <2>1. Restart = Kept
      BY <1>2 DEF Restart, Minus, Kept
    <2> QED
      BY <1>1, <1>2, <2>1 DEF Kept
  <1>4. /\ LastOk(chain, filter, lastScanned, Kept) /\ Recorded(filter, txHeight, Kept)
        /\ flag => Synced(chain, filter, Kept - 1)
        /\ savedRoll # <<>> => flag /\ main = "wait" /\ savedRoll = roll
        /\ IF roll = <<>> THEN scanned \in {cur - 1, cur} ELSE scanned = Oldest.prevHeight
    BY <1>1 DEF KInv, Reverting, Midway
  <1>5. Linked(filter, Kept)
    BY <1>2, LowerLinked
  <1>6. SavedAcross(filter, savedRoll, Kept)
    <2> SUFFICES ASSUME savedRoll # <<>>
                 PROVE  /\ Stops /\ Kept + Len(savedRoll) \in Word
                        /\ Describes(filter, savedRoll, Kept + Len(savedRoll))
      BY DEF SavedAcross
    <2>1. savedRoll = roll /\ flag
      BY <1>4
    <2>2. Kept + Len(roll) = cur
      BY <1>2 DEF Kept
    <2>3. Stops
      BY <2>1 DEF KInv, Threads
    <2> QED
      BY <1>2, <2>1, <2>2, <2>3
  <1>7. scanned \in {Kept, Kept - 1, Minus(Kept, 1)}
    <2>1. CASE roll = <<>>
      BY <1>2, <1>4, <2>1
    <2>2. CASE roll # <<>>
      BY <1>1, <1>4, <2>2, OldestSays DEF RollPC
    <2> QED
      BY <2>1, <2>2
  <1>8. Reverting'
    <2>1. Tip' = Tip /\ Kept <= Tip
      BY <1>1, <1>2, ChainFits DEF Tip, TInv, TypeOK
    <2> QED
      BY <1>1, <1>3, <1>4, <1>5, <1>6, <1>7, <2>1 DEF Reverting, Midway
  <1>9. Threads' /\ Spared'
    BY <1>1 DEF KInv, Threads, Spared, Startup
  <1> QED
    BY <1>1, <1>2, <1>8, <1>9 DEF KInv, Down, Startup, Waiting, Working, InHand,
       Storing

(* The scanned height is set to that of the next block.                    *)
LEMMA RollRestartKeepsKInv == ASSUME TInv, KInv, RollRestart PROVE KInv'
  <1>1. /\ pc = "rollRestart" /\ pc' = "go" /\ scanned' = cur
        /\ UNCHANGED <<chain, lastScanned, filter, txHeight, savedRoll, roll, flag,
                       main, cur, blk, left>>
    BY DEF RollRestart, Next0, Goto, local, utxo
  <1>2. cur \in Nat /\ main \notin Startup /\ cur <= Tip /\ (roll = <<>> => Kept = cur)
    BY <1>1, RollFacts DEF RollPC
  <1>3. /\ roll = <<>> /\ LastOk(chain, filter, lastScanned, cur)
        /\ Linked(filter, cur) /\ Recorded(filter, txHeight, cur)
        /\ savedRoll # <<>> => flag /\ main = "wait"
        /\ SavedAcross(filter, savedRoll, cur)
        /\ flag => Synced(chain, filter, cur - 1)
    BY <1>1, <1>2 DEF KInv, Reverting
  <1>4. Ground(cur)' /\ (cur <= Tip)'
    BY <1>1, <1>2, <1>3, EmptyDescribes DEF Ground, Tip
  <1>5. savedRoll = <<>> => SavedBelow(filter, savedRoll, roll, cur)
    BY DEF SavedBelow
  <1>6. Working'
    BY <1>1, <1>3, <1>4, <1>5 DEF Working
  <1>7. Threads' /\ Spared'
    BY <1>1 DEF KInv, Threads, Spared, Startup
  <1> QED
    BY <1>1, <1>2, <1>6, <1>7 DEF KInv, Down, Startup, Waiting, InHand, Storing,
       Reverting, Midway

-----------------------------------------------------------------------------
(* Kills and shutdowns                                                     *)

(* A process stops when its databases are of the node's chain.             *)
LEMMA StopsSynced ==
    ASSUME TInv, NoForkPending
    PROVE  scanned = MaxWord \/ Synced(chain, filter, scanned)
  <1>1. \A h \in 0..scanned : h <= Tip => h < Len(chain)
    <2>1. Len(chain) \in Nat /\ scanned \in Int
      BY ChainFits DEF TInv, TypeOK, Word, NoHeight
    <2> QED
      BY <2>1 DEF Tip
  <1> QED
    BY <1>1 DEF NoForkPending, SyncedTo, OnChain, BlockAt, Synced

LEMMA WorkingSynced ==
    ASSUME TInv, KInv, NoForkPending, pc \in WorkPC
    PROVE  Synced(chain, filter, cur - 1)
  <1>1. /\ cur \in Word /\ cur \in Int /\ MaxWord \in Int /\ Tip < MaxWord /\ Tip \in Int
    BY ChainFits DEF TInv, TypeOK, Word, Tip
  <1>2. /\ scanned = cur - 1 \/ scanned = cur
        /\ scanned = cur - 1 \/ cur <= Tip
    BY DEF KInv, Working, WorkPC
  <1>3. scanned # MaxWord /\ scanned \in Int /\ cur - 1 \in Int /\ cur - 1 <= scanned
    BY <1>1, <1>2 DEF Word
  <1>4. Synced(chain, filter, scanned)
    BY <1>3, StopsSynced
  <1> QED
    BY <1>3, <1>4, LowerSynced

LEMMA StoringSynced ==
    ASSUME TInv, KInv, NoForkPending, pc \in {"addRoll", "addSpent", "addLast"}
    PROVE  scanned = cur /\ scanned # MaxWord /\ Synced(chain, filter, cur)
  <1>1. cur \in Word /\ cur + 1 \in Word /\ scanned = cur
    BY FlightFacts DEF InFlight, KInv, Storing
  <1>2. scanned # MaxWord
    BY <1>1 DEF Word
  <1> QED
    BY <1>1, <1>2, StopsSynced

(* In a rollback the scanned height is that of the blocks that stay, or of *)
(* the next one, or it has wrapped below 0.                                *)
LEMMA MidwayHeight ==
    ASSUME TInv, KInv, pc \in Midway
    PROVE  \/ scanned = Kept - 1
           \/ scanned = Kept /\ (roll # <<>> => Stops)
           \/ scanned = MaxWord /\ Kept = 0
  <1>1. cur \in Nat /\ Kept \in 0..cur /\ (roll = <<>> => Kept = cur)
    BY RollFacts DEF Midway, RollPC
  <1>2. IF roll = <<>> THEN scanned \in {cur - 1, cur} ELSE scanned = Oldest.prevHeight
    BY DEF KInv, Reverting
  <1>3. CASE roll = <<>>
    BY <1>1, <1>2, <1>3
  <1>4. CASE roll # <<>>
    <2>1. Minus(Kept, 1) = IF Kept = 0 THEN MaxWord ELSE Kept - 1
      BY <1>1 DEF Minus
    <2> QED
      BY <1>2, <1>4, <2>1, OldestSays DEF Midway, RollPC
  <1> QED
    BY <1>3, <1>4

LEMMA MidwaySynced ==
    ASSUME TInv, KInv, NoForkPending, pc \in Midway
    PROVE  Synced(chain, filter, Kept - 1)
  <1>1. /\ cur \in Nat /\ cur \in Word /\ Kept \in 0..cur /\ cur <= Tip
        /\ Tip < MaxWord /\ Tip \in Int /\ MaxWord \in Int
    BY RollFacts, ChainFits DEF Midway, RollPC, TInv, TypeOK, Tip
  <1>2. CASE Kept = 0
    BY <1>2 DEF Synced
  <1>3. CASE Kept # 0
    <2>1. scanned \in {Kept - 1, Kept}
      BY <1>3, MidwayHeight
    <2>2. scanned # MaxWord /\ scanned \in Int /\ Kept - 1 \in Int /\ Kept - 1 <= scanned
      BY <1>1, <2>1
    <2>3. Synced(chain, filter, scanned)
      BY <2>2, StopsSynced
    <2> QED
      BY <2>2, <2>3, LowerSynced
  <1> QED
    BY <1>2, <1>3

LEMMA RestartSynced ==
    ASSUME TInv, KInv, NoForkPending, pc = "rollRestart"
    PROVE  Synced(chain, filter, cur - 1)
  <1>1. /\ cur \in Nat /\ cur <= Tip
        /\ Tip < MaxWord /\ Tip \in Int /\ MaxWord \in Int
    BY RollFacts, ChainFits DEF RollPC, TInv, TypeOK, Tip
  <1>2. scanned \in {cur, cur - 1, Minus(cur, 1)}
    BY DEF KInv, Reverting
  <1>3. CASE cur = 0
    BY <1>3 DEF Synced
  <1>4. CASE cur # 0
    <2>1. scanned \in {cur - 1, cur}
      BY <1>1, <1>2, <1>4 DEF Minus
    <2>2. scanned # MaxWord /\ scanned \in Int /\ cur - 1 \in Int /\ cur - 1 <= scanned
      BY <1>1, <2>1
    <2>3. Synced(chain, filter, scanned)
      BY <2>2, StopsSynced
    <2> QED
      BY <2>2, <2>3, LowerSynced
  <1> QED
    BY <1>3, <1>4

(* In every phase, the databases of a process on the node's chain are      *)
(* closed when what is in memory is lost.                                  *)
Lost == Closed(chain, filter, txHeight, scanned, savedRoll, <<>>)

LEMMA RestLost == Resting => Lost
  BY DEF Resting, Lost

LEMMA StoringLost ==
    ASSUME TInv, KInv, NoForkPending, pc \in {"addRoll", "addSpent", "addLast"}
    PROVE  Lost
  <1>1. /\ scanned = cur /\ Synced(chain, filter, cur)
        /\ Recorded(filter, txHeight, cur + 1)
        /\ savedRoll # <<>> => Stops /\ \E m \in 0..(cur + 1) : Describes(filter, savedRoll, m)
    <2>1. cur \in Nat
      BY FlightFacts DEF InFlight
    <2>2. \A m \in 0..cur : m \in 0..(cur + 1)
      BY <2>1
    <2> QED
      BY <2>2, StoringSynced DEF KInv, Storing, SavedBelow
  <1>2. cur \in Int /\ cur - 1 \in Int /\ cur + 1 \in Int /\ 0..(cur + 1) \subseteq Word
    BY FlightFacts DEF InFlight, Word
  <1>3. Synced(chain, filter, cur - 1) /\ Recorded(filter, txHeight, cur)
    BY <1>1, <1>2, LowerSynced, LowerRecorded
  <1>4. Ready(chain, filter, txHeight, cur, savedRoll)
    BY <1>1, <1>2, SyncedReady
  <1> QED
    BY <1>1, <1>3, <1>4, EmptyReady DEF Lost, Closed

LEMMA MidwayLost ==
    ASSUME TInv, KInv, NoForkPending, pc \in Midway, scanned # MaxWord
    PROVE  Lost
  <1>1. /\ cur \in Nat /\ cur \in Word /\ Kept \in 0..cur
        /\ (roll = <<>> => Kept = cur) /\ (roll # <<>> => Kept < cur)
        /\ Describes(filter, roll, cur) /\ Len(roll) \in 0..cur
        /\ roll \in Seq(RollItem) /\ savedRoll \in Seq(RollItem)
    BY RollFacts DEF Midway, RollPC
  <1>2. scanned \in {Kept - 1, Kept} /\ scanned \in Int /\ scanned <= Kept /\ Kept \in Int
    BY <1>1, MidwayHeight
  <1>3. Synced(chain, filter, scanned)
    BY StopsSynced
  <1>4. Synced(chain, filter, scanned - 1)
    BY <1>2, <1>3, LowerSynced
  <1>5. Recorded(filter, txHeight, Kept)
    <2>1. CASE pc = "rollTxs"
      <3>1. Recorded(filter, txHeight, cur)
        BY <2>1 DEF KInv, Reverting
      <3> QED
        BY <1>1, <1>2, <3>1, LowerRecorded
    <2>2. CASE pc # "rollTxs"
      BY <2>2 DEF KInv, Reverting, Midway
    <2> QED
      BY <2>1, <2>2
  <1>6. Recorded(filter, txHeight, scanned)
    BY <1>2, <1>5, LowerRecorded
  <1>7. Ready(chain, filter, txHeight, scanned, savedRoll)
    <2>1. CASE savedRoll = <<>>
      BY <2>1, EmptyReady
    <2>2. CASE savedRoll # <<>> /\ pc \in {"rollTxs", "rollSaved"}
      <3>1. /\ Stops /\ roll # <<>> /\ \E m \in 0..cur : Describes(filter, savedRoll, m)
        BY <2>2 DEF KInv, Reverting, SavedBelow
      <3>2. Recorded(filter, txHeight, scanned + 1)
        <4>1. CASE pc = "rollTxs"
          <5>1. Recorded(filter, txHeight, cur)
            BY <4>1 DEF KInv, Reverting
          <5>2. scanned + 1 \in Int /\ cur \in Int /\ scanned + 1 <= cur
            BY <1>1, <1>2, <3>1
          <5> QED
            BY <5>1, <5>2, LowerRecorded
        <4>2. CASE pc = "rollSaved"
          BY <3>1, <4>2 DEF KInv, Reverting
        <4> QED
          BY <2>2, <4>1, <4>2
      <3>3. 0..cur \subseteq Word
        BY <1>1 DEF Word
      <3> QED
        BY <1>3, <3>1, <3>2, <3>3, SyncedReady
    <2>3. CASE savedRoll # <<>> /\ pc = "rollVar"
      <3>1. savedRoll = roll /\ flag
        BY <2>3 DEF KInv, Reverting
      <3>2. Stops
        BY <3>1 DEF KInv, Threads
      <3>3. CASE scanned = Kept - 1
        <4>1. scanned + 1 = Kept
          BY <1>2, <3>3
        <4> QED
          BY <1>1, <1>3, <1>5, <3>1, <3>2, <4>1, SyncedReady
      <3>4. CASE scanned = Kept
        <4>1. cur # Kept + 1 \/ Len(roll) = 1
          <5> DEFINE n == Len(roll)
          <5>1. n \in Int
            BY <1>1
          <5> HIDE DEF n
          <5>2. cur # (cur - n) + 1 \/ n = 1
            BY <1>1, <5>1
          <5> QED
            BY <5>2 DEF n, Kept
        <4> QED
          BY <1>1, <1>2, <3>1, <3>2, <3>4, <4>1, AcrossReady
      <3> QED
        BY <1>2, <3>3, <3>4
    <2> QED
      BY <2>1, <2>2, <2>3 DEF Midway
  <1> QED
    BY <1>4, <1>6, <1>7, EmptyReady DEF Lost, Closed

LEMMA RestartLost ==
    ASSUME TInv, KInv, NoForkPending, pc = "rollRestart", scanned # MaxWord
    PROVE  Lost
  <1>1. /\ cur \in Nat /\ cur \in Word /\ roll = <<>>
        /\ Recorded(filter, txHeight, cur) /\ SavedAcross(filter, savedRoll, cur)
        /\ scanned \in {cur, cur - 1, Minus(cur, 1)}
    BY RollFacts DEF RollPC, KInv, Reverting
  <1>2. scanned \in {cur, cur - 1}
    BY <1>1 DEF Minus
  <1>3. CASE scanned = cur
    BY <1>1, <1>3, RestartSynced, AcrossRests, RestLost
  <1>4. CASE scanned = cur - 1
    <2>1. scanned + 1 = cur /\ scanned \in Int /\ scanned - 1 \in Int /\ cur \in Int
      BY <1>1, <1>4
    <2>2. Synced(chain, filter, scanned)
      BY <1>4, RestartSynced
    <2>3. Synced(chain, filter, scanned - 1) /\ Recorded(filter, txHeight, scanned)
      BY <1>1, <1>4, <2>1, <2>2, LowerSynced, LowerRecorded
    <2>4. savedRoll # <<>> => Stops /\ \E m \in Word : Describes(filter, savedRoll, m)
      BY <1>1 DEF SavedAcross
    <2>5. Ready(chain, filter, txHeight, scanned, savedRoll)
      BY <1>1, <2>1, <2>2, <2>4, SyncedReady
    <2> QED
      BY <2>3, <2>5, EmptyReady DEF Lost, Closed
  <1> QED
    BY <1>2, <1>3, <1>4

LEMMA StopLost == ASSUME TInv, KInv, NoForkPending PROVE Lost
  <1>1. CASE scanned = MaxWord
    BY <1>1 DEF Lost, Closed
  <1>2. CASE scanned # MaxWord
    <2>1. Synced(chain, filter, scanned)
      BY <1>2, StopsSynced
    <2>2. CASE pc \in {"off", "stopped"} \/ (pc = "delay" /\ flag)
      BY <2>2, EmptyReady DEF KInv, Down, Closed, Lost
    <2>3. CASE pc = "iter" \/ (pc = "delay" /\ ~flag)
      BY <1>2, <2>1, <2>3, WaitingRests, RestLost
    <2>4. CASE pc \in WorkPC
      BY <2>4, WorkingSynced, WorkingRests, RestLost
    <2>5. CASE pc \in {"addRoll", "addSpent", "addLast"}
      BY <2>5, StoringLost
    <2>6. CASE pc \in Midway
      BY <1>2, <2>6, MidwayLost
    <2>7. CASE pc = "rollRestart"
      BY <1>2, <2>7, RestartLost
    <2>8. pc \in ScannerPC
      BY DEF TInv, TypeOK
    <2> QED
      BY <2>2, <2>3, <2>4, <2>5, <2>6, <2>7, <2>8 DEF ScannerPC, WorkPC, Midway
  <1> QED
    BY <1>1, <1>2

-----------------------------------------------------------------------------
(* The process is gone: what is on disk is all there is.                   *)
LEMMA EndKeepsKInv ==
    ASSUME TInv, KInv, Lost, ProcessEnds, Spared'
    PROVE  KInv'
  <1>1. /\ main' = "down" /\ pc' = "off" /\ roll' = <<>> /\ flag' = FALSE
        /\ UNCHANGED <<chain, scanned, filter, txHeight, savedRoll>>
    BY DEF ProcessEnds, disk
  <1>2. Threads'
    BY <1>1 DEF Threads, Startup
  <1>3. Down'
    BY <1>1 DEF Down, Startup, Lost
  <1> QED
    BY <1>1, <1>2, <1>3 DEF KInv, Waiting, Working, InHand, Storing, Reverting, Midway

(* Told to shut down, the scanner is on the node's chain and stays there.  *)
LEMMA ShutdownKeepsKInv == ASSUME TInv, KInv, Shutdown PROVE KInv'
  <1>1. /\ main = "run" /\ ~flag /\ NoForkPending /\ flag' = TRUE /\ Fault("shutdown")
        /\ UNCHANGED <<chain, scanned, filter, txHeight, lastScanned, savedRoll, roll,
                       main, pc, cur, blk>>
    BY DEF Shutdown, disk, local
  <1>2. Spared'
    BY <1>1, SparedKept DEF TInv, KInv, Stopping
  <1>3. Stops
    BY <1>1 DEF KInv, Spared, Fault, TInv, TypeOK
  <1>4. Threads' /\ pc \notin {"off", "stopped"}
    BY <1>1, <1>3 DEF KInv, Threads, Startup
  <1>5. pc = "delay" => Closed(chain, filter, txHeight, scanned, savedRoll, roll)
    <2>1. CASE scanned = MaxWord
      BY <2>1 DEF Closed
    <2>2. CASE scanned # MaxWord
      BY <1>1, <1>3, <2>2, StopsSynced, WaitingRests DEF Resting
    <2> QED
      BY <2>1, <2>2
  <1>6. Down'
    BY <1>1, <1>4, <1>5 DEF Down, Startup
  <1>7. Waiting'
    BY <1>1, StopsSynced DEF KInv, Waiting, Ground
  <1>8. Working'
    BY <1>1, WorkingSynced DEF KInv, Working, WorkPC, Ground, Tip
  <1>9. InHand'
    BY <1>1 DEF KInv, InHand, NoForkPending, BlockAt
  <1>10. Storing'
    BY <1>1, StoringSynced DEF KInv, Storing
  <1>11. Reverting'
    <2>1. Kept' = Kept /\ (roll # <<>> => Oldest' = Oldest) /\ Tip' = Tip
      BY <1>1 DEF Kept, Oldest, Tip
    <2> QED
      BY <1>1, <2>1, MidwaySynced, RestartSynced DEF KInv, Reverting, Midway
  <1> QED
    BY <1>2, <1>4, <1>6, <1>7, <1>8, <1>9, <1>10, <1>11 DEF KInv

LEMMA CrashKeepsKInv == ASSUME TInv, KInv, Crash PROVE KInv'
  <1>1. NoForkPending /\ Fault("crash") /\ ProcessEnds
    <2>1. ~Fault("rollCrash")
      BY NoOtherFault DEF KInv, Stopping, FaultKind
    <2> QED
      BY <2>1 DEF Crash
  <1>2. Spared'
    BY <1>1, SparedKept DEF TInv, KInv, Stopping
  <1> QED
    BY <1>1, <1>2, StopLost, EndKeepsKInv

-----------------------------------------------------------------------------
(* Startup and the end of a process                                        *)

(* The sequence of the last process becomes the one in memory.             *)
LEMMA StartKeepsKInv == ASSUME KInv, ~SkipHack, Start PROVE KInv'
  <1>1. /\ main = "down" /\ main' = "check" /\ pc' = "off" /\ roll' = savedRoll
        /\ flag' = FALSE
        /\ UNCHANGED <<chain, scanned, filter, txHeight, lastScanned, savedRoll, left>>
    BY DEF Start, disk
  <1>2. Closed(chain, filter, txHeight, scanned, savedRoll, roll)
    BY <1>1 DEF KInv, Down, Threads, Startup
  <1>3. Down'
    BY <1>1, <1>2 DEF Down, Startup, Closed
  <1> QED
    BY <1>1, <1>3 DEF KInv, Threads, Spared, Startup, Waiting, Working, InHand,
       Storing, Reverting, Midway

(* Nothing was scanned: the scanner begins with no blocks at all.          *)
LEMMA CheckFreshKeepsKInv == ASSUME KInv, CheckFresh PROVE KInv'
  <1>1. /\ main = "check" /\ main' = "run" /\ pc' = "iter" /\ scanned = NoHeight
        /\ roll' = <<>> /\ savedRoll' = <<>> /\ lastScanned' = NoBlock
        /\ UNCHANGED <<chain, scanned, filter, txHeight, flag, left>>
    BY DEF CheckFresh, Next0, Goto, utxo
  <1>2. flag = FALSE /\ scanned + 1 = 0 /\ scanned = -1
    BY <1>1 DEF KInv, Threads, NoHeight
  <1>3. /\ Linked(filter, 0) /\ Recorded(filter, txHeight, 0)
        /\ Synced(chain, filter, 0 - 1)
    BY ONLY NothingStored, 0 \in Int, 0 <= 0
  <1>4. Ground(0)'
    BY <1>1, <1>3, EmptyDescribes DEF Ground
  <1>5. LastOk(chain, filter, NoBlock, 0)
    BY <1>3 DEF LastOk
  <1>6. Waiting'
    BY <1>1, <1>2, <1>4, <1>5 DEF Waiting, SavedBelow
  <1> QED
    BY <1>1, <1>2, <1>6 DEF KInv, Threads, Spared, Startup, Down, Working, InHand,
       Storing, Reverting, Midway

(* What the check at startup leaves of the sequence ends at the scanned    *)
(* height; only a sequence of one item can do so on a database that lacks  *)
(* that block.                                                             *)
LEMMA CheckedRoll ==
    ASSUME TInv, KInv, CheckScanned
    PROVE  /\ scanned \in Nat /\ scanned + 1 \in Word /\ scanned < Len(chain)
           /\ Synced(chain, filter, scanned - 1) /\ Recorded(filter, txHeight, scanned)
           /\ roll' = savedRoll' /\ roll' \in Seq(RollItem)
           /\ Describes(filter, roll', scanned + 1)
           /\ roll' # <<>> =>
                /\ Stops /\ roll'[1].prevHeight = Minus(scanned, 1)
                /\ \/ Len(roll') = 1
                   \/ Synced(chain, filter, scanned)
                      /\ Recorded(filter, txHeight, scanned + 1)
  <1>1. /\ main = "check" /\ scanned # NoHeight /\ scanned <= Tip
        /\ roll' = (IF StaleRoll THEN <<>> ELSE roll)
        /\ savedRoll' = (IF StaleRoll THEN <<>> ELSE savedRoll)
    BY DEF CheckScanned
  <1>2. roll = savedRoll /\ pc = "off"
    BY <1>1 DEF KInv, Down, Threads, Startup
  <1>3. /\ scanned \in Nat /\ scanned \in Word /\ scanned + 1 \in Word
        /\ scanned < Len(chain) /\ scanned # MaxWord
    BY <1>1, ChainFits DEF TInv, TypeOK, Word, Tip
  <1>4. /\ Synced(chain, filter, scanned - 1) /\ Recorded(filter, txHeight, scanned)
        /\ Ready(chain, filter, txHeight, scanned, roll)
    BY <1>1, <1>2, <1>3 DEF KInv, Down, Closed
  <1>5. CASE StaleRoll \/ roll = <<>>
    <2>1. roll' = <<>> /\ savedRoll' = <<>>
      BY <1>1, <1>2, <1>5
    <2> QED
      BY <1>3, <1>4, <2>1, EmptyTyped, EmptyDescribes
  <1>6. CASE ~StaleRoll /\ roll # <<>>
    <2>1. roll' = roll /\ savedRoll' = roll /\ roll \in Seq(RollItem)
      BY <1>1, <1>2, <1>6 DEF TInv, TypeOK
    <2>2. roll[1].prevHeight = Minus(scanned, 1)
      BY <1>6 DEF StaleRoll
    <2>3. Stops
      BY <1>4, <1>6 DEF Ready
    <2>4. PICK m \in Word :
            /\ Describes(filter, roll, m)
            /\ \/ m # scanned + 1
               \/ Len(roll) = 1
               \/ Synced(chain, filter, scanned) /\ Recorded(filter, txHeight, scanned + 1)
      BY <1>4, <1>6 DEF Ready
    <2>5. Describes(filter, roll, scanned + 1) /\ (m = scanned + 1 \/ Len(roll) = 1)
      BY <1>3, <1>6, <2>1, <2>2, <2>4, FreshDescribes
    <2> QED
      BY <1>3, <1>4, <2>1, <2>2, <2>3, <2>4, <2>5
  <1> QED
    BY <1>5, <1>6

LEMMA CheckScannedKeepsKInv == ASSUME TInv, KInv, CheckScanned PROVE KInv'
  <1> DEFINE b == BlockAt(scanned)
  <1>1. /\ main = "check" /\ scanned <= Tip /\ lastScanned' = CheckedLast(b)
        /\ main' = (IF DbConsistent(b) THEN "run" ELSE "hackHeight")
        /\ pc' = (IF DbConsistent(b) THEN "iter" ELSE "off")
        /\ UNCHANGED <<chain, scanned, filter, txHeight, flag, left>>
    BY DEF CheckScanned, Next0, Goto, utxo
  <1>2. /\ scanned \in Nat /\ scanned + 1 \in Word /\ scanned < Len(chain)
        /\ Synced(chain, filter, scanned - 1) /\ Recorded(filter, txHeight, scanned)
        /\ roll' = savedRoll' /\ roll' \in Seq(RollItem)
        /\ Describes(filter, roll', scanned + 1)
    BY CheckedRoll
  <1>3. roll' # <<>> =>
          /\ Stops /\ roll'[1].prevHeight = Minus(scanned, 1)
          /\ \/ Len(roll') = 1
             \/ Synced(chain, filter, scanned) /\ Recorded(filter, txHeight, scanned + 1)
    BY CheckedRoll
  <1>4. flag = FALSE /\ chain \in Chains /\ b = chain[scanned + 1]
    BY <1>1 DEF KInv, Threads, TInv, TypeOK, BlockAt
  <1>5. Spared'
    BY <1>1 DEF KInv, Spared
  <1> HIDE DEF b
  <1>6. CASE DbConsistent(b)
    <2>1. Synced(chain, filter, scanned)
      <3> SUFFICES ASSUME NEW h \in 0..scanned
                   PROVE  h < Len(chain) /\ filter[h] = chain[h + 1]
        BY DEF Synced
      <3>1. CASE h = scanned
        BY <1>2, <1>4, <1>6, <3>1 DEF DbConsistent
      <3>2. CASE h # scanned
        <4>1. h \in 0..(scanned - 1)
          BY <1>2, <3>2
        <4> QED
          BY <1>2, <4>1 DEF Synced
      <3> QED
        BY <3>1, <3>2
    <2>2. Recorded(filter, txHeight, scanned + 1)
      <3> SUFFICES ASSUME Stops, NEW h \in 0..scanned, NEW x \in Adds[filter[h]]
                   PROVE  txHeight[x] # NoHeight
        BY <1>2 DEF Recorded
      <3>1. CASE h = scanned
        BY <1>6, <3>1 DEF DbConsistent
      <3>2. CASE h # scanned
        <4>1. h \in 0..(scanned - 1)
          BY <1>2, <3>2
        <4> QED
          BY <1>2, <4>1 DEF Recorded
      <3> QED
        BY <3>1, <3>2
    <2>3. Linked(filter, scanned + 1) /\ scanned + 1 - 1 = scanned
      BY <1>2, <1>4, <2>1, SyncedLinked
    <2>4. LastOk(chain, filter, lastScanned', scanned + 1)
      <3>1. Below(filter, scanned + 1) = b
        BY <1>2, <1>6 DEF Below, DbConsistent
      <3>2. lastScanned' = b \/ lastScanned' = NoBlock
        BY <1>1 DEF CheckedLast
      <3>3. LastOk(chain, filter, b, scanned + 1)
        BY <3>1 DEF LastOk
      <3>4. LastOk(chain, filter, NoBlock, scanned + 1)
        <4> DEFINE n == scanned + 1
        <4>1. n - 1 = scanned
          BY <1>2
        <4> HIDE DEF n
        <4>2. LastOk(chain, filter, NoBlock, n)
          BY <2>1, <4>1 DEF LastOk
        <4> QED
          BY <4>2 DEF n
      <3> QED
        BY <3>2, <3>3, <3>4
    <2>5. SavedBelow(filter, savedRoll', roll', scanned + 1)
      BY <1>2, <1>3 DEF SavedBelow
    <2>6. Waiting'
      BY <1>1, <1>2, <1>4, <2>2, <2>3, <2>4, <2>5 DEF Waiting, Ground
    <2> QED
      BY <1>1, <1>4, <1>5, <1>6, <2>6 DEF KInv, Threads, Startup, Down, Working,
         InHand, Storing, Reverting, Midway
  <1>7. CASE ~DbConsistent(b)
    <2>1. roll' # <<>> => Stops /\ Len(roll') = 1
      <3>1. ASSUME Stops, Synced(chain, filter, scanned),
                   Recorded(filter, txHeight, scanned + 1)
            PROVE  FALSE
        <4>1. filter[scanned] = b
          BY <1>2, <1>4, <3>1 DEF Synced
        <4>2. \A x \in Adds[filter[scanned]] : txHeight[x] # NoHeight
          BY <1>2, <3>1 DEF Recorded
        <4> QED
          BY <1>7, <4>1, <4>2 DEF DbConsistent
      <3> QED
        BY <1>3, <3>1
    <2>2. Leftover(filter, roll', scanned)
      <3> SUFFICES ASSUME roll' # <<>> PROVE Fits(filter, roll'[1], scanned)
        BY <2>1 DEF Leftover
      <3>1. Len(roll') = 1
        BY <2>1
      <3>2. ASSUME Twice(filter, roll', scanned + 1)
            PROVE  FALSE
        <4>1. Fits(filter, roll'[1], scanned + 1)
          BY <1>2, <3>1, <3>2 DEF Twice
        <4>2. Minus(scanned, 1) = Minus(scanned + 1, 1) /\ scanned \in Word
          BY <1>2, <1>3, <4>1, FitsSays DEF Word
        <4>3. scanned = scanned + 1
          BY <1>2, <4>2, MinusInjective
        <4> QED
          BY <1>2, <4>3
      <3> QED
        BY <1>2, <3>1, <3>2 DEF Describes, Exact
    <2>3. Ready(chain, filter, txHeight, scanned, roll')
      <3>1. CASE roll' = <<>>
        BY <3>1, EmptyReady
      <3>2. CASE roll' # <<>>
        <4>1. Stops /\ Len(roll') = 1 /\ scanned \in Int
          BY <1>2, <2>1, <3>2
        <4> QED
          BY <1>2, <4>1, AcrossReady
      <3> QED
        BY <3>1, <3>2
    <2>4. Down'
      BY <1>1, <1>2, <1>7, <2>2, <2>3 DEF Down, Startup, Closed, Tip
    <2> QED
      BY <1>1, <1>4, <1>5, <1>7, <2>4 DEF KInv, Threads, Startup, Waiting, Working,
         InHand, Storing, Reverting, Midway
  <1> QED
    BY <1>6, <1>7

(* cleanerBtcHack goes one block back, where everything is in order; from  *)
(* height 0 it goes to MaxWord.                                            *)
LEMMA HackHeightKeepsKInv == ASSUME TInv, KInv, HackHeight PROVE KInv'
  <1>1. /\ main = "hackHeight" /\ main' = "hackLast" /\ scanned' = Minus(scanned, 1)
        /\ UNCHANGED <<chain, filter, txHeight, savedRoll, roll, flag, pc, left>>
    BY DEF HackHeight, HackedHeight, utxo
  <1>2. pc = "off" /\ roll = savedRoll /\ Leftover(filter, roll, scanned)
        /\ scanned \in Nat /\ scanned # MaxWord /\ scanned # NoHeight
        /\ scanned + 1 \in Word /\ roll \in Seq(RollItem)
    BY <1>1, ChainFits DEF KInv, Down, Threads, Startup, TInv, TypeOK, Tip, Word,
       NoHeight
  <1>3. Synced(chain, filter, scanned - 1) /\ Recorded(filter, txHeight, scanned)
    BY <1>2 DEF KInv, Down, Closed
  <1>4. Threads' /\ Spared'
    BY <1>1 DEF KInv, Threads, Spared, Startup
  <1>5. Down'
    <2>1. CASE scanned = 0
      <3>1. scanned' = MaxWord
        BY <1>1, <2>1 DEF Minus
      <3> QED
        BY <1>1, <1>2, <3>1 DEF Down, Startup, Closed
    <2>2. CASE scanned # 0
      <3>1. scanned' = scanned - 1 /\ scanned' \in Nat /\ scanned' \in Word
            /\ scanned' + 1 = scanned /\ scanned' - 1 \in Int
        BY <1>1, <1>2, <2>2 DEF Minus, Word
      <3>2. Synced(chain, filter, scanned' - 1) /\ Recorded(filter, txHeight, scanned')
        BY <1>2, <1>3, <3>1, LowerSynced, LowerRecorded
      <3>3. Ready(chain, filter, txHeight, scanned', roll)
        <4>1. Describes(filter, roll, scanned + 1)
              /\ (roll # <<>> => Stops /\ Len(roll) = 1)
          BY <1>2, LeftoverDescribes DEF Leftover
        <4>2. CASE roll = <<>>
          BY <4>2, EmptyReady
        <4>3. CASE roll # <<>>
          BY <1>2, <3>1, <4>1, <4>3, AcrossReady
        <4> QED
          BY <4>2, <4>3
      <3> QED
        BY <1>1, <1>2, <1>3, <3>1, <3>2, <3>3 DEF Down, Startup, Closed
    <2> QED
      BY <2>1, <2>2
  <1> QED
    BY <1>1, <1>2, <1>4, <1>5 DEF KInv, Waiting, Working, InHand, Storing,
       Reverting, Midway

LEMMA HackLastKeepsKInv == ASSUME KInv, HackLast PROVE KInv'
  <1>1. /\ main = "hackLast" /\ main' = "hackRoll" /\ lastScanned' = NoBlock
        /\ UNCHANGED <<chain, scanned, filter, txHeight, savedRoll, roll, flag, pc, left>>
    BY DEF HackLast, utxo
  <1>2. pc = "off"
    BY <1>1 DEF KInv, Threads, Startup
  <1> QED
    BY <1>1, <1>2 DEF KInv, Threads, Spared, Startup, Down, Waiting, Working, InHand,
       Storing, Reverting, Midway

(* The item a repair leaves in memory is of the block that is scanned next. *)
LEMMA HackRollKeepsKInv == ASSUME TInv, KInv, HackRoll PROVE KInv'
  <1>1. /\ main = "hackRoll" /\ main' = "run" /\ pc' = "iter" /\ savedRoll' = <<>>
        /\ UNCHANGED <<chain, scanned, filter, txHeight, lastScanned, roll, flag, left>>
    BY DEF HackRoll, Next0, Goto, utxo
  <1>2. flag = FALSE /\ lastScanned = NoBlock /\ chain \in Chains
        /\ roll \in Seq(RollItem)
    BY <1>1 DEF KInv, Threads, Down, TInv, TypeOK
  <1>3. scanned # MaxWord =>
          /\ Ground(scanned + 1)
          /\ LastOk(chain, filter, NoBlock, scanned + 1)
    <2> SUFFICES ASSUME scanned # MaxWord
                 PROVE  Ground(scanned + 1) /\ LastOk(chain, filter, NoBlock, scanned + 1)
      OBVIOUS
    <2>1. /\ scanned \in Nat /\ Synced(chain, filter, scanned)
          /\ Recorded(filter, txHeight, scanned + 1)
          /\ Leftover(filter, roll, scanned + 1)
      BY <1>1 DEF KInv, Down, Word
    <2>2. scanned + 1 \in Nat /\ scanned + 1 > 0 /\ scanned + 1 - 1 = scanned
      BY <2>1
    <2>3. Linked(filter, scanned + 1)
      BY <1>2, <2>1, <2>2, SyncedLinked
    <2>4. Describes(filter, roll, scanned + 1)
      BY <1>2, <2>1, <2>2, LeftoverDescribes
    <2> QED
      BY <2>1, <2>2, <2>3, <2>4 DEF Ground, LastOk
  <1>4. Waiting'
    BY <1>1, <1>2, <1>3 DEF Waiting, Ground, SavedBelow
  <1> QED
    BY <1>1, <1>2, <1>4 DEF KInv, Threads, Spared, Startup, Down, Working, InHand,
       Storing, Reverting, Midway

(* finalize dumps what describes the blocks stored, or what a rollback has *)
(* just used up.                                                           *)
LEMMA DumpKeepsKInv == ASSUME TInv, KInv, Dump PROVE KInv'
  <1>1. /\ main = "run" /\ main' = "wait" /\ flag /\ savedRoll' = roll
        /\ UNCHANGED <<chain, scanned, filter, txHeight, lastScanned, roll, flag, pc,
                       cur, blk, left>>
    BY DEF Dump, utxo, local
  <1>2. Stops /\ pc # "off"
    BY <1>1 DEF KInv, Threads, Startup
  <1>3. Threads' /\ Spared'
    BY <1>1, <1>2 DEF KInv, Threads, Spared, Startup
  <1>4. Down'
    BY <1>1, <1>2 DEF KInv, Down, Startup, Closed
  <1>5. ASSUME NEW n \in Nat, Describes(filter, roll, n)
        PROVE  SavedBelow(filter, roll, roll, n)
    BY <1>2, <1>5 DEF SavedBelow
  <1>6. cur \in Nat /\ cur + 1 \in Nat /\ scanned + 1 \in Nat
    BY DEF TInv, TypeOK, Word, NoHeight
  <1>7. Waiting'
    BY <1>1, <1>5, <1>6 DEF KInv, Waiting, Ground
  <1>8. Working'
    BY <1>1, <1>5, <1>6 DEF KInv, Working, Ground, Tip
  <1>9. Storing'
    BY <1>1, <1>5, <1>6 DEF KInv, Storing
  <1>10. Reverting'
    <2>1. Kept' = Kept /\ (roll # <<>> => Oldest' = Oldest) /\ Tip' = Tip
      BY <1>1 DEF Kept, Oldest, Tip
    <2> QED
      BY <1>1, <1>5, <1>6, <2>1 DEF KInv, Reverting, Midway, SavedAcross
  <1> QED
    BY <1>1, <1>3, <1>4, <1>7, <1>8, <1>9, <1>10 DEF KInv, InHand, BlockAt

LEMMA ExitKeepsKInv == ASSUME TInv, KInv, Exit PROVE KInv'
  <1>1. pc = "stopped" /\ ProcessEnds /\ UNCHANGED left
    BY DEF Exit
  <1>2. Lost
    BY <1>1, EmptyReady DEF KInv, Down, Closed, Lost
  <1>3. Spared'
    BY <1>1 DEF KInv, Spared
  <1> QED
    BY <1>1, <1>2, <1>3, EndKeepsKInv

-----------------------------------------------------------------------------
(* Every step keeps the invariant: the faults left out cannot happen.      *)
LEMMA SparedFaults == KInv => ~ScannerFaults
  BY NoOtherFault DEF KInv, ScannerFaults, GoThrows, FetchThrows, ResolveThrows,
     NotEnoughSpace, WriteThrows, Stopping, FaultKind

LEMMA StutterKeepsKInv == ASSUME KInv, UNCHANGED vars PROVE KInv'
  <1>1. UNCHANGED <<chain, scanned, filter, txHeight, lastScanned, savedRoll, roll,
                    flag, main, pc, cur, blk, left>>
    BY DEF vars, disk, local
  <1>2. Threads' /\ Spared' /\ Down' /\ Waiting'
    BY <1>1 DEF KInv, Threads, Spared, Down, Waiting, Ground, Tip
  <1>3. Working' /\ InHand' /\ Storing'
    BY <1>1 DEF KInv, Working, InHand, Storing, Ground, Tip, BlockAt
  <1>4. Reverting'
    <2>1. Kept' = Kept /\ Oldest' = Oldest /\ Tip' = Tip
      BY <1>1 DEF Kept, Oldest, Tip
    <2> QED
      BY <1>1, <2>1 DEF KInv, Reverting
  <1> QED
    BY <1>2, <1>3, <1>4 DEF KInv

(* With covered reorgs, kills between rollbacks and shutdowns, in any      *)
(* number and order, the databases and the sequence in memory stay as KInv *)
(* describes them, in every phase of the scanner (Common.hs:57-108) and of *)
(* startup and shutdown (App.hs:35-95).                                    *)
THEOREM StopInvariant ==
    ASSUME OnlyStops, ~SkipHack, Stops => NoRepeats
    PROVE  Spec => []KInv
  <1>1. TInv /\ KInv /\ [Next]_vars => KInv'
    <2> SUFFICES ASSUME TInv, KInv, [Next]_vars PROVE KInv'
      OBVIOUS
    <2>1. CASE Scanner
      BY <2>1, LoopKeepsKInv, FetchKeepsKInv, AddTxsKeepsKInv, AddFilterKeepsKInv,
         AddRollKeepsKInv, AddLastKeepsKInv, RollLastKeepsKInv, RollHeightKeepsKInv,
         RollTxsKeepsKInv, RollSavedKeepsKInv, RollVarKeepsKInv,
         RollRestartKeepsKInv DEF Scanner
    <2>2. CASE Main
      BY <2>2, StartKeepsKInv, CheckFreshKeepsKInv, CheckScannedKeepsKInv,
         HackHeightKeepsKInv, HackLastKeepsKInv, HackRollKeepsKInv, DumpKeepsKInv,
         ExitKeepsKInv DEF Main
    <2>3. CASE NodeGrows \/ NodeReorgs \/ Shutdown \/ Crash
      BY <2>3, GrowsKeepsKInv, ReorgKeepsKInv, ShutdownKeepsKInv, CrashKeepsKInv
    <2>4. CASE UNCHANGED vars
      BY <2>4, StutterKeepsKInv
    <2>5. ~ScannerFaults
      BY SparedFaults
    <2> QED
      BY <2>1, <2>2, <2>3, <2>4, <2>5 DEF Next
  <1>2. Init => KInv
    BY InitKInv
  <1> QED
    BY <1>1, <1>2, TypeInvariant, PTL DEF Spec

-----------------------------------------------------------------------------
(* Between two blocks the invariant says what the properties ask.          *)
LEMMA KInvLinked == TInv /\ KInv => FiltersLinked
  BY DEF KInv, Working, Ground, Linked, Below, Between, FiltersLinked

(* No dump, no doubled item: what the sequence describes is what is stored. *)
LEMMA KInvExact ==
    ASSUME TInv, KInv, ~Stops
    PROVE  LastIsBelow /\ RollMatches
  <1> SUFFICES ASSUME Between PROVE LastIsBelow /\ RollMatches
    BY DEF LastIsBelow, RollMatches
  <1>1. /\ cur \in Nat /\ cur <= MaxWord /\ roll \in Seq(RollItem)
        /\ Linked(filter, cur) /\ Describes(filter, roll, cur)
        /\ LastOk(chain, filter, lastScanned, cur)
    BY DEF TInv, TypeOK, Word, KInv, Working, Ground, Between
  <1>2. LastIsBelow
    BY <1>1 DEF LastOk, Below, LastIsBelow
  <1>3. RollMatches
    <2> SUFFICES ASSUME NEW i \in 1..Len(roll)
                 PROVE  /\ i <= cur
                        /\ filter[cur - i] \in Block
                        /\ roll[i] = [added |-> Adds[filter[cur - i]],
                                      prevHash |-> Prev[filter[cur - i]],
                                      prevHeight |-> Minus(cur, i + 1)]
      BY DEF RollMatches
    <2>1. i <= cur /\ Fits(filter, roll[i], cur - i)
      BY <1>1 DEF Describes, Exact
    <2>2. i \in Nat /\ 1 <= i /\ cur - i \in 0..(cur - 1)
      BY <1>1, <2>1
    <2>3. filter[cur - i] \in Block
      BY <1>1, <2>2 DEF Linked
    <2>4. roll[i] = [added |-> Adds[filter[cur - i]],
                     prevHash |-> Prev[filter[cur - i]],
                     prevHeight |-> Minus(cur - i, 1)]
      BY <2>1 DEF Fits
    <2>5. Minus(cur - i, 1) = Minus(cur, i + 1)
      BY <1>1, <2>2 DEF Minus
    <2> QED
      BY <2>1, <2>3, <2>4, <2>5
  <1> QED
    BY <1>2, <1>3

(* The filters below the next block are of one chain, from genesis on,     *)
(* although the process is killed or shut down and started again, any      *)
(* number of times, between forks that the rollback sequence covers: the   *)
(* check at startup, the repair and the dumped sequence never leave a gap. *)
THEOREM LinkedAcrossStops ==
    ASSUME OnlyStops, ~SkipHack, Stops => NoRepeats
    PROVE  Spec => []FiltersLinked
  BY StopInvariant, TypeInvariant, KInvLinked, PTL

(* When the process is only ever killed, fork detection compares with the  *)
(* block stored just below after every restart (App.hs:57-84 and           *)
(* Bitcoin.hs:160-201).                                                    *)
THEOREM LastBelowAcrossKills ==
    ASSUME OnlyStops, ~SkipHack, ~Stops
    PROVE  Spec => []LastIsBelow
  BY StopInvariant, TypeInvariant, KInvExact, PTL

(* When the process is only ever killed, a rollback always takes back the  *)
(* last blocks scanned, also in a process that started with an empty       *)
(* sequence.                                                               *)
THEOREM RollTrueAcrossKills ==
    ASSUME OnlyStops, ~SkipHack, ~Stops
    PROVE  Spec => []RollMatches
  BY StopInvariant, TypeInvariant, KInvExact, PTL
=============================================================================
