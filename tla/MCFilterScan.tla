---------------------------- MODULE MCFilterScan ----------------------------
(* Instances of FilterScan for TLC: payments that use up the keys of the   *)
(* wallet from block to block, so that later ones need keys derived for    *)
(* the earlier ones.                                                       *)
EXTENDS FilterScan

MCSpare == [p \in Purpose |-> IF p = "External" THEN 3 ELSE 1]

Pays(at) == [h \in Height |-> IF h \in DOMAIN at THEN at[h] ELSE {}]
MCHistories ==
    {Pays(<<{<<"External", 1>>}, {<<"External", 3>>, <<"Internal", 1>>}>>)}

None == [e \in Event |-> 0]
Killed == [None EXCEPT !["save"] = 1, !["crash"] = 1]
Broken == [None EXCEPT !["lose"] = 1, !["other"] = 1]
Late == [None EXCEPT !["again"] = 2, !["other"] = 1]
Missing == [None EXCEPT !["garble"] = 1, !["notfound"] = 1]
MCMixes == {Killed, Broken, Late, Missing}
NoFaults == {None}
=============================================================================
