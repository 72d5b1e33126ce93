------------------------------ MODULE DbHandle ------------------------------
(***************************************************************************)
(* The shared LevelDB handle of the indexer                                *)
(* (index-server/.../Server/DB/Wrapper.hs).                                *)
(*                                                                         *)
(* Every thread of the server goes through usingLevelDB; a thread that     *)
(* meets the "not an sstable" error reopens the database behind the        *)
(* others' back (Environment.hs, logOnException), and the bracket of withDb *)
(* closes it when the server leaves.  LevelDB itself refuses to open a     *)
(* directory that is already open, and using a connection after            *)
(* unsafeClose corrupts memory.                                            *)
(***************************************************************************)
EXTENDS Integers, FiniteSets

CONSTANTS Thread,       \* the threads that share the handle
          Closer,       \* those that may call closeLevelDB (the withDb bracket)
          MaxReopens    \* bound: calls of reopenLevelDB in a behaviour

ASSUME ThreadFinite == IsFiniteSet(Thread)
ASSUME CloserIsThread == Closer \subseteq Thread
ASSUME MaxReopensNat == MaxReopens \in Nat

VARIABLES handle,   \* dbHandle: DbOpen db, DbClosed or DbCloseLocked
          active,   \* dbActive: number of operations in progress
          pc,       \* where each thread is
          mine,     \* the connection a thread has taken out of the handle
          conns,    \* connections LevelDB holds open (external)
          opens,    \* how many connections were ever opened (names the next)
          reopens   \* how many calls of reopenLevelDB began (bounded)

vars == <<handle, active, pc, mine, conns, opens, reopens>>

NoDb == 0
DbOpen(db) == [st |-> "open", db |-> db]
DbClosed == [st |-> "closed", db |-> NoDb]
DbCloseLocked == [st |-> "locked", db |-> NoDb]

Db == Nat \ {NoDb}
DBState ==
    [st : {"open"}, db : Db] \cup [st : {"closed", "locked"}, db : {NoDb}]

(* Places of a thread.  "using": inside the bracket of usingLevelDB.       *)
(* reopenLevelDB: "reDrain" waits for active = 0, "reClose" is about to    *)
(* call unsafeClose, "reOpen" about to call open, "rePublish" about to     *)
(* write the handle.  closeLevelDB: "clDrain", "clClose".                  *)
PC == {"idle", "using", "reDrain", "reClose", "reOpen", "rePublish",
       "clDrain", "clClose"}

Init ==
    /\ handle = DbOpen(1)
    /\ active = 0
    /\ pc = [t \in Thread |-> "idle"]
    /\ mine = [t \in Thread |-> NoDb]
    /\ conns = {1}
    /\ opens = 1
    /\ reopens = 0

-----------------------------------------------------------------------------
(* usingLevelDB                                                            *)

(* ini on DbOpen: take the connection and count the operation, in one STM  *)
(* transaction.  On DbCloseLocked the transaction retries, on DbClosed it  *)
(* throws and nothing changes: neither is a step.                          *)
UseBegin(t) ==
    /\ pc[t] = "idle"
    /\ handle.st = "open"
    /\ active' = active + 1
    /\ mine' = [mine EXCEPT ![t] = handle.db]
    /\ pc' = [pc EXCEPT ![t] = "using"]
    /\ UNCHANGED <<handle, conns, opens, reopens>>

(* A mutant: fini is skipped when the operation throws.                     *)
UseEndLeaks(t) ==
    /\ pc[t] = "using"
    /\ mine' = [mine EXCEPT ![t] = NoDb]
    /\ pc' = [pc EXCEPT ![t] = "idle"]
    /\ UNCHANGED <<handle, active, conns, opens, reopens>>

(* fini runs whether the operation returned or threw.                      *)
UseEnd(t) ==
    /\ pc[t] = "using"
    /\ active' = active - 1
    /\ mine' = [mine EXCEPT ![t] = NoDb]
    /\ pc' = [pc EXCEPT ![t] = "idle"]
    /\ UNCHANGED <<handle, conns, opens, reopens>>

-----------------------------------------------------------------------------
(* reopenLevelDB and closeLevelDB: swap the state out of the handle, then  *)
(* closeHandle waits and closes only when the state swapped out was DbOpen *)

(* A mutant: the handle is read, and written only after closeHandle.       *)
ReadHandle(t, new, drain, otherwise) ==
    /\ pc[t] = "idle"
    /\ pc' = [pc EXCEPT ![t] = IF handle.st = "open" THEN drain ELSE otherwise]
    /\ mine' = [mine EXCEPT ![t] = handle.db]
    /\ UNCHANGED <<handle, active, conns, opens>>

(* readTVar dbHandle <* writeTVar dbHandle new                             *)
SwapHandle(t, new, drain, otherwise) ==
    /\ pc[t] = "idle"
    /\ handle' = new
    /\ pc' = [pc EXCEPT ![t] = IF handle.st = "open" THEN drain ELSE otherwise]
    /\ mine' = [mine EXCEPT ![t] = handle.db]
    /\ UNCHANGED <<active, conns, opens>>

ReopenMark(t) ==
    /\ reopens < MaxReopens
    /\ reopens' = reopens + 1
    /\ SwapHandle(t, DbCloseLocked, "reDrain", "reOpen")

CloseMark(t) ==
    /\ SwapHandle(t, DbClosed, "clDrain", "idle")
    /\ UNCHANGED reopens

(* closeHandle: (==0) =<< readTVar active; the mutant does not wait        *)
NoWait == TRUE
NoneActive == active = 0

(* closeHandle: check                                                      *)
Drained(t, at, next) ==
    /\ pc[t] = at
    /\ NoneActive
    /\ pc' = [pc EXCEPT ![t] = next]
    /\ UNCHANGED <<handle, active, mine, conns, opens, reopens>>

(* closeHandle: unsafeClose db                                             *)
UnsafeClose(t, at, next) ==
    /\ pc[t] = at
    /\ conns' = conns \ {mine[t]}
    /\ mine' = [mine EXCEPT ![t] = NoDb]
    /\ pc' = [pc EXCEPT ![t] = next]
    /\ UNCHANGED <<handle, active, opens, reopens>>

ReopenDrained(t) == Drained(t, "reDrain", "reClose")
ReopenClose(t) == UnsafeClose(t, "reClose", "reOpen")
CloseDrained(t) == Drained(t, "clDrain", "clClose")
CloseClose(t) == UnsafeClose(t, "clClose", "idle")

(* open dbFilePath: LevelDB's lock file lets it succeed only when nobody   *)
(* has the directory open; otherwise it throws and the thread leaves.      *)
ReopenOpen(t) ==
    /\ pc[t] = "reOpen"
    /\ conns = {}
    /\ opens' = opens + 1
    /\ conns' = {opens + 1}
    /\ mine' = [mine EXCEPT ![t] = opens + 1]
    /\ pc' = [pc EXCEPT ![t] = "rePublish"]
    /\ UNCHANGED <<handle, active, reopens>>

ReopenFail(t) ==
    /\ pc[t] = "reOpen"
    /\ conns # {}
    /\ mine' = [mine EXCEPT ![t] = NoDb]
    /\ pc' = [pc EXCEPT ![t] = "idle"]
    /\ UNCHANGED <<handle, active, conns, opens, reopens>>

(* writeTVar dbHandle . DbOpen, whatever the handle holds by now           *)
ReopenPublish(t) ==
    /\ pc[t] = "rePublish"
    /\ handle' = DbOpen(mine[t])
    /\ mine' = [mine EXCEPT ![t] = NoDb]
    /\ pc' = [pc EXCEPT ![t] = "idle"]
    /\ UNCHANGED <<active, conns, opens, reopens>>

Reopening(t) ==
    \/ ReopenDrained(t) \/ ReopenClose(t) \/ ReopenOpen(t) \/ ReopenFail(t)
    \/ ReopenPublish(t)

Closing(t) == CloseDrained(t) \/ CloseClose(t)

Next == \E t \in Thread :
    \/ UseBegin(t) \/ UseEnd(t)
    \/ ReopenMark(t) \/ Reopening(t)
    \/ (t \in Closer /\ CloseMark(t)) \/ Closing(t)

Spec == Init /\ [][Next]_vars

(* A database call, unsafeClose and open return; nothing makes a thread    *)
(* start an operation, a reopen or a close.                                *)
Fairness == \A t \in Thread :
    WF_vars(UseEnd(t)) /\ WF_vars(Reopening(t)) /\ WF_vars(Closing(t))

FairSpec == Spec /\ Fairness

-----------------------------------------------------------------------------
(* The types of the handle and of its users                                *)
TypeOK ==
    /\ handle \in DBState
    /\ active \in Int
    /\ pc \in [Thread -> PC]
    /\ mine \in [Thread -> Db \cup {NoDb}]
    /\ conns \in SUBSET Db
    /\ opens \in Db
    /\ reopens \in 0..MaxReopens

Using == {t \in Thread : pc[t] = "using"}

(* Wrapper.hs:1-7: no operation runs on a connection after unsafeClose,    *)
(* whatever reopens and closes run beside it.                              *)
NoUseAfterClose == \A t \in Using : mine[t] \in conns

(* usingLevelDB hands out the connection of a DbOpen handle without asking *)
(* LevelDB: a handle that says DbOpen names a connection that is open,     *)
(* also when several threads reopen at once.                               *)
OpenHandleIsLive == handle.st = "open" => handle.db \in conns

(* Why both hold.  A connection has one owner: the handle while it says    *)
(* DbOpen, or the one thread that swapped it out or has just opened it.    *)
(* While a thread owns it the handle hands out nothing, so the count of    *)
(* operations that closeHandle waits for only falls, and LevelDB's lock    *)
(* file keeps every other reopen from succeeding.                          *)
Owning == {"reDrain", "reClose", "rePublish", "clDrain", "clClose"}

CountIsExact == active = Cardinality(Using)
OneConnection == \A a, b \in conns : a = b
OwnerHoldsLive == \A t \in Thread : pc[t] \in Owning => mine[t] \in conns
OwnerExcludesOpen == \A t \in Thread : pc[t] \in Owning => handle.st # "open"
OneOwner == \A t, u \in Thread :
    pc[t] \in Owning /\ pc[u] \in Owning => t = u
ClosingIsQuiet == \A t \in Thread :
    pc[t] \in {"reClose", "clClose"} => active = 0

(* The inductive invariant behind NoUseAfterClose and OpenHandleIsLive     *)
(* (closeHandle and usingLevelDB, Wrapper.hs:75-91).                       *)
IInv ==
    /\ TypeOK
    /\ NoUseAfterClose
    /\ OpenHandleIsLive
    /\ CountIsExact
    /\ OneConnection
    /\ OwnerHoldsLive
    /\ OwnerExcludesOpen
    /\ OneOwner
    /\ ClosingIsQuiet

(* reopenLevelDB: a locked handle blocks every user of the database.  As   *)
(* long as nobody closes it the lock never stays, also when another reopen *)
(* comes between and when open throws because another thread was faster.   *)
NobodyCloses ==
    handle.st # "closed" /\ \A t \in Thread : pc[t] \notin {"clDrain", "clClose"}
LockReleased ==
    []NobodyCloses => ((handle.st = "locked") ~> (handle.st # "locked"))
=============================================================================
