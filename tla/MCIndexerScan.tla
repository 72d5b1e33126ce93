--------------------------- MODULE MCIndexerScan ---------------------------
(* Instances of IndexerScan for TLC: three branches, and transactions that *)
(* are spent in the same block, in a later block and across the forks.     *)
EXTENDS IndexerScan

MCMain == <<"a0", "a1", "a2", "a3", "a4">>
MCFork == <<"a0", "a1", "b2", "b3", "b4">>
MCLate == <<"a0", "a1", "a2", "c3", "c4", "c5">>
MCRange(s) == {s[i] : i \in DOMAIN s}
MCBlock == MCRange(MCMain) \cup MCRange(MCFork) \cup MCRange(MCLate)

MCChains == {SubSeq(s, 1, n) : s \in {MCMain, MCFork}, n \in 1..5}
            \cup {SubSeq(MCLate, 1, n) : n \in 1..6}

MCPrev == [b \in MCBlock |->
    IF b = "a0" THEN "zero"
    ELSE LET c == CHOOSE c \in MCChains : c[Len(c)] = b IN c[Len(c) - 1]]

(* A block names its coinbase too.  The coinbase of a0 has two outputs,    *)
(* spent one by one; t sits at a different height in each branch that has  *)
(* it; u is not in the second one.                                         *)
MCTx == MCBlock \cup {"t", "u"}
MCOuts == [x \in MCTx |-> IF x = "a0" THEN 2 ELSE 1]
MCAdds == [b \in MCBlock |->
    {b} \cup (IF b \in {"a2", "b3"} THEN {"t"} ELSE {})
        \cup (IF b \in {"a3", "c4"} THEN {"u"} ELSE {})]
MCSpends == [b \in MCBlock |-> [x \in MCTx |->
    IF \/ x = "a0" /\ b \in {"a2", "b3", "a3", "c4"}
       \/ x = "t" /\ b \in {"a3", "b3", "c4"}
    THEN 1 ELSE 0]]

(* Mixes of faults                                                         *)
NoFaults == [k \in FaultKind |-> 0]

TwoReorgs == [NoFaults EXCEPT !["reorg"] = 2]
DeepReorgs == [NoFaults EXCEPT !["deepReorg"] = 2]
Restarts == [NoFaults EXCEPT !["crash"] = 2, !["shutdown"] = 1]
ForkRestarts == [NoFaults EXCEPT !["reorg"] = 1, !["crash"] = 1, !["shutdown"] = 1]
NodeErrors == [NoFaults EXCEPT !["crash"] = 1, !["rpc"] = 2, !["space"] = 2]
MixedErrors ==
    [NoFaults EXCEPT !["crash"] = 1, !["shutdown"] = 2, !["rpc"] = 1, !["space"] = 1]
WriteError == [NoFaults EXCEPT !["io"] = 1]

Recoverable == {TwoReorgs, Restarts, NodeErrors, WriteError}
Survivable == {TwoReorgs, DeepReorgs, ForkRestarts, MixedErrors}
ForkAndError == {[NoFaults EXCEPT !["reorg"] = 1, !["rpc"] = 1]}
ForkAndKill == {[NoFaults EXCEPT !["reorg"] = 1, !["rollCrash"] = 1]}
ForkAndStop == {ForkRestarts}
StopAndError == {[NoFaults EXCEPT !["shutdown"] = 1, !["rpc"] = 1]}
=============================================================================
