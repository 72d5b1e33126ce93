---------------------------- MODULE FilterChain ----------------------------
(***************************************************************************)
(* What an indexer promises of the filters it has stored up to its scanned *)
(* height: at any time they are those of one chain, from the first block   *)
(* on.  The chain gets longer by one block, a rollback cuts it, and the    *)
(* rescan that follows replaces its last block.                            *)
(***************************************************************************)
EXTENDS Integers, Sequences, TLAPS

CONSTANTS Block, ZeroHash, Prev

VARIABLE served     \* the blocks the filters are of, the first block first

(* b follows the first n blocks.                                           *)
Follows(b, n) == Prev[b] = IF n = 0 THEN ZeroHash ELSE served[n]

CutAndPut(n, b) ==
    /\ n \in 0..Len(served)
    /\ Follows(b, n)
    /\ served' = Append(SubSeq(served, 1, n), b)

Init == served = <<>>
Grow == \E b \in Block : CutAndPut(Len(served), b)
Replace == \E b \in Block : CutAndPut(Len(served) - 1, b)
Cut == \E n \in 0..(Len(served) - 1) : served' = SubSeq(served, 1, n)

Next == Grow \/ Replace \/ Cut
Spec == Init /\ [][Next]_served

-----------------------------------------------------------------------------
Linked ==
    /\ served \in Seq(Block)
    /\ \A i \in 1..Len(served) : Follows(served[i], i - 1)

(* The filters up to the scanned height are those of one chain, in the     *)
(* order of their heights: cutting and putting keep the blocks linked.     *)
THEOREM ServedLinked == Spec => []Linked
  <1>1. Init => Linked
    BY DEF Init, Linked
  <1>2. Linked /\ [Next]_served => Linked'
    <2> SUFFICES ASSUME Linked, [Next]_served PROVE Linked'
      OBVIOUS
    <2>1. ASSUME NEW n, NEW b \in Block, CutAndPut(n, b) PROVE Linked'
      <3>1. n \in 0..Len(served) /\ n \in Nat /\ Prev[b] = IF n = 0 THEN ZeroHash ELSE served[n]
        BY <2>1 DEF CutAndPut, Follows, Linked
      <3>2. served' = Append(SubSeq(served, 1, n), b)
        BY <2>1 DEF CutAndPut
      <3>3. /\ SubSeq(served, 1, n) \in Seq(Block)
            /\ Len(SubSeq(served, 1, n)) = n
            /\ \A i \in 1..n : SubSeq(served, 1, n)[i] = served[i]
        BY <3>1 DEF Linked
      <3>4. /\ served' \in Seq(Block) /\ Len(served') = n + 1
            /\ served'[n + 1] = b
            /\ \A i \in 1..n : served'[i] = served[i]
        BY <3>1, <3>2, <3>3
      <3>5. ASSUME NEW i \in 1..(n + 1)
            PROVE  Prev[served'[i]] = IF i - 1 = 0 THEN ZeroHash ELSE served'[i - 1]
        <4>1. CASE i = n + 1
          BY <3>1, <3>4, <4>1
        <4>2. CASE i \in 1..n
          BY <3>1, <3>4, <4>2 DEF Linked, Follows
        <4> QED
          BY <4>1, <4>2, <3>1
      <3> QED
        BY <3>4, <3>5 DEF Linked, Follows
    <2>2. CASE Cut
      BY <2>2 DEF Cut, Linked, Follows
    <2>3. CASE UNCHANGED served
      BY <2>3 DEF Linked, Follows
    <2> QED
      BY <2>1, <2>2, <2>3 DEF Next, Grow, Replace
  <1> QED
    BY <1>1, <1>2, PTL DEF Spec
=============================================================================
