--------------------------- MODULE DbHandleProofs ---------------------------
(***************************************************************************)
(* The safety of the shared LevelDB handle, for any finite set of threads  *)
(* and any number of reopens and closes.                                   *)
(***************************************************************************)
EXTENDS DbHandle, FiniteSetTheorems, TLAPS

(* Counting: what one more or one fewer operation does to the set of       *)
(* threads inside usingLevelDB.                                            *)
LEMMA UsingFinite == IsFiniteSet(Using) /\ Cardinality(Using) \in Nat
<1>1. IsFiniteSet(Using)
  BY ThreadFinite, FS_Subset DEF Using
<1>2. QED
  BY <1>1, FS_CardinalityType

(* ini of usingLevelDB adds one thread to those inside.                    *)
LEMMA UsingGrows ==
  ASSUME TypeOK, NEW t \in Thread, pc[t] # "using",
         pc' = [pc EXCEPT ![t] = "using"]
  PROVE  Using' = Using \cup {t} /\ Cardinality(Using') = Cardinality(Using) + 1
<1>1. Using' = Using \cup {t} /\ t \notin Using
  BY DEF Using, TypeOK
<1>2. QED
  BY <1>1, UsingFinite, FS_AddElement

(* fini of usingLevelDB takes one thread out.                              *)
LEMMA UsingShrinks ==
  ASSUME TypeOK, NEW t \in Thread, pc[t] = "using",
         pc' = [pc EXCEPT ![t] = "idle"]
  PROVE  Using' = Using \ {t} /\ Cardinality(Using') = Cardinality(Using) - 1
<1>1. Using' = Using \ {t} /\ t \in Using
  BY DEF Using, TypeOK
<1>2. QED
  BY <1>1, UsingFinite, FS_RemoveElement

(* Steps of a reopen or a close leave the operations in progress alone.    *)
LEMMA UsingKept ==
  ASSUME TypeOK, NEW t \in Thread, NEW p \in PC, pc[t] # "using", p # "using",
         pc' = [pc EXCEPT ![t] = p]
  PROVE  Using' = Using
BY DEF Using, TypeOK

(* What closeHandle waits for: a count of 0 means nobody is inside.        *)
LEMMA QuietMeansEmpty ==
  ASSUME CountIsExact, active = 0
  PROVE  Using = {}
BY UsingFinite, FS_EmptySet DEF CountIsExact

-----------------------------------------------------------------------------
(* Init and each action preserve the inductive invariant.                  *)
LEMMA InitIInv == Init => IInv
<1> SUFFICES ASSUME Init PROVE IInv
  OBVIOUS
<1>1. Using = {}
  BY DEF Init, Using
<1>2. CountIsExact
  BY <1>1, FS_EmptySet DEF CountIsExact, Init
<1>3. TypeOK
  BY MaxReopensNat DEF Init, TypeOK, DBState, DbOpen, Db, NoDb, PC
<1>4. QED
  BY <1>1, <1>2, <1>3
     DEF Init, IInv, NoUseAfterClose, OpenHandleIsLive, OneConnection, DbOpen,
         OwnerHoldsLive, OwnerExcludesOpen, OneOwner, ClosingIsQuiet, Owning

(* usingLevelDB, entering: the connection handed out is the open one.      *)
LEMMA UseBeginKeeps ==
  ASSUME IInv, NEW t \in Thread, UseBegin(t)
  PROVE  IInv'
<1>1. TypeOK'
  BY DEF IInv, UseBegin, TypeOK, DBState, Db, NoDb, PC
<1>2. Using' = Using \cup {t} /\ Cardinality(Using') = Cardinality(Using) + 1
  BY UsingGrows DEF IInv, UseBegin
<1>3. NoUseAfterClose'
  BY <1>2 DEF IInv, UseBegin, TypeOK, NoUseAfterClose, OpenHandleIsLive
<1>4. CountIsExact'
  BY <1>2 DEF IInv, UseBegin, CountIsExact
<1>5. (OwnerHoldsLive /\ OwnerExcludesOpen /\ OneOwner /\ ClosingIsQuiet)'
  BY DEF IInv, UseBegin, TypeOK, Owning, OwnerHoldsLive, OwnerExcludesOpen,
         OneOwner, ClosingIsQuiet
<1>6. (OpenHandleIsLive /\ OneConnection)'
  BY DEF IInv, UseBegin, OpenHandleIsLive, OneConnection
<1>7. QED
  BY <1>1, <1>3, <1>4, <1>5, <1>6 DEF IInv

(* usingLevelDB, leaving: only the count falls.                            *)
LEMMA UseEndKeeps ==
  ASSUME IInv, NEW t \in Thread, UseEnd(t)
  PROVE  IInv'
<1>1. TypeOK'
  BY DEF IInv, UseEnd, TypeOK, NoDb, PC
<1>2. Using' = Using \ {t} /\ Cardinality(Using') = Cardinality(Using) - 1
  BY UsingShrinks DEF IInv, UseEnd
<1>3. NoUseAfterClose'
  BY <1>2 DEF IInv, UseEnd, TypeOK, NoUseAfterClose
<1>4. CountIsExact'
  BY <1>2 DEF IInv, UseEnd, CountIsExact
<1>5. active # 0
  BY QuietMeansEmpty DEF IInv, UseEnd, Using
<1>6. (OwnerHoldsLive /\ OwnerExcludesOpen /\ OneOwner /\ ClosingIsQuiet)'
  BY <1>5 DEF IInv, UseEnd, TypeOK, Owning, OwnerHoldsLive, OwnerExcludesOpen,
         OneOwner, ClosingIsQuiet
<1>7. (OpenHandleIsLive /\ OneConnection)'
  BY DEF IInv, UseEnd, OpenHandleIsLive, OneConnection
<1>8. QED
  BY <1>1, <1>3, <1>4, <1>6, <1>7 DEF IInv

(* Swapping the connection out of the handle passes its ownership on.      *)
LEMMA SwapKeeps ==
  ASSUME IInv, NEW t \in Thread,
         NEW new \in {DbCloseLocked, DbClosed},
         NEW drain \in {"reDrain", "clDrain"}, NEW other \in {"reOpen", "idle"},
         SwapHandle(t, new, drain, other), reopens' \in 0..MaxReopens
  PROVE  IInv'
<1>1. TypeOK'
  BY DEF IInv, SwapHandle, TypeOK, DBState, DbClosed, DbCloseLocked, Db, NoDb, PC
<1>2. Using' = Using
  BY UsingKept DEF IInv, SwapHandle, PC
<1>3. NoUseAfterClose' /\ CountIsExact'
  BY <1>2 DEF IInv, SwapHandle, TypeOK, NoUseAfterClose, CountIsExact, Using
<1>4. (OpenHandleIsLive /\ OneConnection /\ OwnerExcludesOpen)'
  BY DEF IInv, SwapHandle, OpenHandleIsLive, OneConnection, OwnerExcludesOpen,
         DbClosed, DbCloseLocked
<1>5. (OwnerHoldsLive /\ OneOwner /\ ClosingIsQuiet)'
  BY DEF IInv, SwapHandle, TypeOK, Owning, OpenHandleIsLive, OwnerHoldsLive,
         OwnerExcludesOpen, OneOwner, ClosingIsQuiet
<1>6. QED
  BY <1>1, <1>3, <1>4, <1>5 DEF IInv

(* closeHandle, the wait for 0: the thread that leaves it finds nobody     *)
(* inside.                                                                 *)
LEMMA DrainedKeeps ==
  ASSUME IInv, NEW t \in Thread,
         NEW at \in {"reDrain", "clDrain"}, NEW next \in {"reClose", "clClose"},
         Drained(t, at, next)
  PROVE  IInv'
<1>1. TypeOK'
  BY DEF IInv, Drained, NoneActive, TypeOK, PC
<1>2. Using' = Using
  BY UsingKept DEF IInv, Drained, NoneActive, PC
<1>3. NoUseAfterClose' /\ CountIsExact'
  BY <1>2 DEF IInv, Drained, NoneActive, TypeOK, NoUseAfterClose, CountIsExact
<1>4. (OpenHandleIsLive /\ OneConnection)'
  BY DEF IInv, Drained, NoneActive, OpenHandleIsLive, OneConnection
<1>5. (OwnerHoldsLive /\ OwnerExcludesOpen /\ OneOwner /\ ClosingIsQuiet)'
  BY DEF IInv, Drained, NoneActive, TypeOK, Owning, OwnerHoldsLive, OwnerExcludesOpen,
         OneOwner, ClosingIsQuiet
<1>6. QED
  BY <1>1, <1>3, <1>4, <1>5 DEF IInv

(* The one step that could pull a connection from under an operation.      *)
LEMMA UnsafeCloseKeeps ==
  ASSUME IInv, NEW t \in Thread,
         NEW at \in {"reClose", "clClose"}, NEW next \in {"reOpen", "idle"},
         UnsafeClose(t, at, next)
  PROVE  IInv'
<1>1. TypeOK'
  BY DEF IInv, UnsafeClose, TypeOK, NoDb, PC
<1>2. Using = {}
  BY QuietMeansEmpty DEF IInv, UnsafeClose, ClosingIsQuiet
<1>3. Using' = {}
  BY <1>2, UsingKept DEF IInv, UnsafeClose, PC
<1>4. NoUseAfterClose' /\ CountIsExact'
  BY <1>2, <1>3 DEF IInv, UnsafeClose, NoUseAfterClose, CountIsExact
<1>5. pc[t] \in Owning /\ handle.st # "open"
  BY DEF IInv, UnsafeClose, Owning, OwnerExcludesOpen
<1>6. (OpenHandleIsLive /\ OneConnection /\ OwnerExcludesOpen)'
  BY <1>5 DEF IInv, UnsafeClose, TypeOK, OpenHandleIsLive, OneConnection,
              OwnerExcludesOpen
<1>7. (OwnerHoldsLive /\ OneOwner /\ ClosingIsQuiet)'
  BY <1>5 DEF IInv, UnsafeClose, TypeOK, Owning, OwnerHoldsLive, OneOwner,
              ClosingIsQuiet
<1>8. QED
  BY <1>1, <1>4, <1>6, <1>7 DEF IInv

(* open succeeds only with the directory free, so nobody owns a            *)
(* connection.                                                             *)
LEMMA ReopenOpenKeeps ==
  ASSUME IInv, NEW t \in Thread, ReopenOpen(t)
  PROVE  IInv'
<1>1. TypeOK'
  BY DEF IInv, ReopenOpen, TypeOK, Db, NoDb, PC
<1>2. Using = {} /\ handle.st # "open" /\ \A u \in Thread : pc[u] \notin Owning
  BY DEF IInv, ReopenOpen, NoUseAfterClose, OpenHandleIsLive, OwnerHoldsLive
<1>3. Using' = {}
  BY <1>2, UsingKept DEF IInv, ReopenOpen, PC
<1>4. NoUseAfterClose' /\ CountIsExact'
  BY <1>2, <1>3 DEF IInv, ReopenOpen, NoUseAfterClose, CountIsExact
<1>5. (OpenHandleIsLive /\ OneConnection /\ OwnerExcludesOpen)'
  BY <1>2 DEF IInv, ReopenOpen, OpenHandleIsLive, OneConnection,
              OwnerExcludesOpen
<1>6. (OwnerHoldsLive /\ OneOwner /\ ClosingIsQuiet)'
  BY <1>2 DEF IInv, ReopenOpen, TypeOK, Owning, OwnerHoldsLive, OneOwner,
              ClosingIsQuiet
<1>7. QED
  BY <1>1, <1>4, <1>5, <1>6 DEF IInv

(* open throws: the thread owns nothing and leaves.                        *)
LEMMA ReopenFailKeeps ==
  ASSUME IInv, NEW t \in Thread, ReopenFail(t)
  PROVE  IInv'
<1>1. TypeOK'
  BY DEF IInv, ReopenFail, TypeOK, NoDb, PC
<1>2. Using' = Using
  BY UsingKept DEF IInv, ReopenFail, PC
<1>3. NoUseAfterClose' /\ CountIsExact'
  BY <1>2 DEF IInv, ReopenFail, TypeOK, NoUseAfterClose, CountIsExact, Using
<1>4. (OpenHandleIsLive /\ OneConnection)'
  BY DEF IInv, ReopenFail, OpenHandleIsLive, OneConnection
<1>5. (OwnerHoldsLive /\ OwnerExcludesOpen /\ OneOwner /\ ClosingIsQuiet)'
  BY DEF IInv, ReopenFail, TypeOK, Owning, OwnerHoldsLive, OwnerExcludesOpen,
         OneOwner, ClosingIsQuiet
<1>6. QED
  BY <1>1, <1>3, <1>4, <1>5 DEF IInv

(* Publishing gives the ownership back to the handle.                      *)
LEMMA ReopenPublishKeeps ==
  ASSUME IInv, NEW t \in Thread, ReopenPublish(t)
  PROVE  IInv'
<1>0. mine[t] \in conns /\ pc[t] \in Owning
  BY DEF IInv, ReopenPublish, Owning, OwnerHoldsLive
<1>1. TypeOK'
  BY <1>0 DEF IInv, ReopenPublish, TypeOK, DBState, DbOpen, NoDb, PC
<1>2. Using' = Using
  BY UsingKept DEF IInv, ReopenPublish, PC
<1>3. NoUseAfterClose' /\ CountIsExact'
  BY <1>2 DEF IInv, ReopenPublish, TypeOK, NoUseAfterClose, CountIsExact, Using
<1>4. (OpenHandleIsLive /\ OneConnection)'
  BY <1>0 DEF IInv, ReopenPublish, DbOpen, OpenHandleIsLive, OneConnection
<1>5. (OwnerHoldsLive /\ OwnerExcludesOpen /\ OneOwner /\ ClosingIsQuiet)'
  BY <1>0 DEF IInv, ReopenPublish, TypeOK, Owning, OwnerHoldsLive,
              OwnerExcludesOpen, OneOwner, ClosingIsQuiet
<1>6. QED
  BY <1>1, <1>3, <1>4, <1>5 DEF IInv

-----------------------------------------------------------------------------
(* Every step keeps the invariant.                                         *)
LEMMA NextKeeps == IInv /\ [Next]_vars => IInv'
<1> SUFFICES ASSUME IInv, [Next]_vars PROVE IInv'
  OBVIOUS
<1>1. CASE UNCHANGED vars
  BY <1>1 DEF vars, IInv, TypeOK, NoUseAfterClose, OpenHandleIsLive, Using,
     CountIsExact, OneConnection, OwnerHoldsLive, OwnerExcludesOpen, OneOwner,
     ClosingIsQuiet
<1>2. ASSUME NEW t \in Thread, UseBegin(t) PROVE IInv'
  BY <1>2, UseBeginKeeps
<1>3. ASSUME NEW t \in Thread, UseEnd(t) PROVE IInv'
  BY <1>3, UseEndKeeps
<1>4. ASSUME NEW t \in Thread, ReopenMark(t) PROVE IInv'
  <2>1. reopens' \in 0..MaxReopens
    BY <1>4, MaxReopensNat DEF ReopenMark, IInv, TypeOK
  <2>2. QED
    BY <1>4, <2>1, SwapKeeps DEF ReopenMark
<1>5. ASSUME NEW t \in Thread, CloseMark(t) PROVE IInv'
  <2>1. reopens' \in 0..MaxReopens
    BY <1>5 DEF CloseMark, IInv, TypeOK
  <2>2. QED
    BY <1>5, <2>1, SwapKeeps DEF CloseMark
<1>6. ASSUME NEW t \in Thread, ReopenDrained(t) \/ CloseDrained(t) PROVE IInv'
  BY <1>6, DrainedKeeps DEF ReopenDrained, CloseDrained
<1>7. ASSUME NEW t \in Thread, ReopenClose(t) \/ CloseClose(t) PROVE IInv'
  BY <1>7, UnsafeCloseKeeps DEF ReopenClose, CloseClose
<1>8. ASSUME NEW t \in Thread, ReopenOpen(t) PROVE IInv'
  BY <1>8, ReopenOpenKeeps
<1>9. ASSUME NEW t \in Thread, ReopenFail(t) \/ ReopenPublish(t) PROVE IInv'
  BY <1>9, ReopenFailKeeps, ReopenPublishKeeps
<1>10. QED
  BY <1>1, <1>2, <1>3, <1>4, <1>5, <1>6, <1>7, <1>8, <1>9
     DEF Next, Reopening, Closing

(* The inductive invariant holds in every reachable state, for any finite  *)
(* set of threads (Wrapper.hs:59-91).                                      *)
THEOREM Inductive == Spec => []IInv
<1>1. QED
  BY InitIInv, NextKeeps, PTL DEF Spec

(* Wrapper.hs:1-7: an operation never runs on a connection that was closed,*)
(* whatever reopens and closes run beside it.                              *)
THEOREM HandleSafe == Spec => []NoUseAfterClose
<1>1. IInv => NoUseAfterClose
  BY DEF IInv
<1>2. QED
  BY <1>1, Inductive, PTL

(* usingLevelDB: what a DbOpen handle hands out is an open connection.     *)
THEOREM HandleLive == Spec => []OpenHandleIsLive
<1>1. IInv => OpenHandleIsLive
  BY DEF IInv
<1>2. QED
  BY <1>1, Inductive, PTL
=============================================================================
