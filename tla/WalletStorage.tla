--------------------------- MODULE WalletStorage ---------------------------
(***************************************************************************)
(* The storage of a wallet, in memory and on disk: Store/Env.hs,           *)
(* Store/Crypto.hs, Store/Util.hs, Worker/Store.hs, Wallet/Env.hs.         *)
(*                                                                         *)
(* Forked event handlers modify the wallet info under a mutex and post it  *)
(* to a thread that writes the latest one to the file, at most every 20    *)
(* seconds.  A page that asks for the password completes the private keys  *)
(* and writes the file itself.  The info the handlers read is the one the  *)
(* event network has delivered, which may lag behind the one they wrote.   *)
(***************************************************************************)
EXTENDS Integers, Sequences, FiniteSets

CONSTANTS Change,      \* changes of the public storage, by modifyPubStorage
          KeyChange,   \* those of them that add public keys
          PageChange,  \* changes a page makes with setWalletInfo
          NoFile,      \* a file that is not there
          Partial,     \* a file that cannot be decoded
          Nothing,
          Mixes        \* bound: the platform, how often the user does things
                       \* and how many faults of each kind can happen

(* What the user does: log in, save (a page calls storeWalletNow), ask for *)
(* the private keys.  What goes wrong: the process is killed, or a write   *)
(* to the disk throws.                                                     *)
Event == {"login", "save", "ask", "crash", "disk"}
(* A desktop with two disks has its temporary files on another file system *)
(* than the wallet's.                                                      *)
Platform == {"desktop", "twoDisks", "android"}

AnyChange == Change \cup PageChange
(* A wallet info: the changes in it, and the key changes whose private     *)
(* keys it has too.                                                        *)
Info == [pub : SUBSET AnyChange, prv : SUBSET KeyChange]
EmptyInfo == [pub |-> {}, prv |-> {}]
File == Info \cup {NoFile, Partial}
Msg == [info : Info, high : BOOLEAN, close : BOOLEAN]

ASSUME ChangesAssumption ==
    /\ KeyChange \subseteq Change
    /\ Change \cap PageChange = {}
    /\ Nothing \notin AnyChange
ASSUME FilesAssumption == NoFile \notin Info /\ Partial \notin Info
                          /\ NoFile # Partial /\ Nothing \notin Msg
ASSUME MixesAssumption ==
    Mixes \subseteq [platform : Platform, left : [Event -> Nat]]

VARIABLES
    session,    \* whether the user is inside the wallet
    info,       \* walletInfoD, what the event network has delivered
    fired,      \* what writeExternalRef has fired and is still to be delivered
    mutex,      \* walletMutex is taken
    edit,       \* edit[u]: where the handler of change u is
    posting,    \* the info a handler has set and not posted yet
    asker,      \* where withWallet is
    asked,      \* the info it has sampled
    wanted,     \* the change the page is going to make
    chan,       \* senv'storeChan
    slot,       \* lastStoreRef
    due,        \* 20 seconds have passed since the last write
    store,      \* where the store thread is
    msg,        \* the info it is about to save
    holder,     \* who has taken senv'storeMutex
    step,       \* how far the save of the holder is
    data,       \* what it saves
    main,       \* the wallet's file
    backup,     \* its backup
    platform, left,
    stale       \* history: a handler has worked on an info that was not the
                \* newest one

memory == <<session, info, fired, mutex, edit, posting>>
page == <<asker, asked, wanted>>
queue == <<chan, slot, due>>
worker == <<store, msg>>
saving == <<holder, step, data>>
files == <<main, backup>>
vars == <<memory, page, queue, worker, saving, files, platform, left, stale>>

Newest == IF fired = <<>> THEN info ELSE fired[Len(fired)]
Happens(event) ==
    /\ left[event] > 0
    /\ left' = [left EXCEPT ![event] = @ - 1]
Whole(f) == f \in Info

Init ==
    /\ session = "out" /\ info = EmptyInfo /\ fired = <<>> /\ mutex = FALSE
    /\ edit = [u \in AnyChange |-> "new"] /\ posting = EmptyInfo
    /\ asker = "idle" /\ asked = EmptyInfo /\ wanted = Nothing
    /\ chan = <<>> /\ slot = Nothing /\ due = FALSE
    /\ store = "off" /\ msg = EmptyInfo
    /\ holder = "nobody" /\ step = "none" /\ data = EmptyInfo
    /\ main = EmptyInfo /\ backup = NoFile
    /\ \E m \in Mixes : platform = m.platform /\ left = m.left
    /\ stale = FALSE

-----------------------------------------------------------------------------
(* Sessions                                                                *)

(* loadStorageFromFile, then spawnWorkers starts a store thread.  That of  *)
(* the session before has nothing left to write.                           *)
Login ==
    /\ session = "out"
    /\ Whole(main)
    /\ holder # "thread" /\ (store = "save" => holder = "lost")
    /\ chan = <<>> /\ slot = Nothing
    /\ Happens("login")
    /\ session' = "in"
    /\ info' = main
    /\ store' = "wait"
    /\ due' = FALSE
    /\ holder' = "nobody" /\ step' = "none" /\ data' = EmptyInfo
    /\ UNCHANGED <<fired, mutex, edit, posting, page, chan, slot, msg, files, platform,
                   stale>>

MemoryIsGone ==
    /\ session' = "out" /\ info' = EmptyInfo /\ fired' = <<>> /\ mutex' = FALSE
    /\ edit' = [u \in AnyChange |-> "new"] /\ posting' = EmptyInfo
    /\ asker' = "idle" /\ asked' = EmptyInfo /\ wanted' = Nothing

(* setWalletInfo Nothing, after storeWalletNow True                        *)
Logout ==
    /\ session = "leaving"
    /\ asker = "idle"
    /\ MemoryIsGone
    /\ UNCHANGED <<queue, worker, saving, files, platform, left, stale>>

Crash ==
    /\ store # "off"
    /\ Happens("crash")
    /\ MemoryIsGone
    /\ chan' = <<>> /\ slot' = Nothing /\ due' = FALSE
    /\ store' = "off" /\ msg' = EmptyInfo
    /\ holder' = "nobody" /\ step' = "none" /\ data' = EmptyInfo
    /\ UNCHANGED <<files, platform, stale>>

-----------------------------------------------------------------------------
(* The wallet info in memory                                               *)

(* The event network (external) delivers a change of the reference in a    *)
(* frame of its own, on the thread that also runs withWallet.              *)
Deliver ==
    /\ fired # <<>>
    /\ asker \in {"idle", "chosen"}
    /\ info' = Head(fired)
    /\ fired' = Tail(fired)
    /\ UNCHANGED <<session, mutex, edit, posting, page, queue, worker, saving, files,
                   platform, left, stale>>

(* A mutant: nobody waits for the mutex.                                   *)
NoLock == TRUE

(* takeMVar walletMutex                                                    *)
CanLock == ~mutex

(* modifyPubStorage: take the mutex, sample, setWalletInfoNow.             *)
Modify(u) ==
    /\ session # "out"
    /\ edit[u] = "new"
    /\ CanLock
    /\ mutex' = TRUE
    /\ posting' = [info EXCEPT !.pub = @ \cup {u}]
    /\ fired' = Append(fired, posting')
    /\ edit' = [edit EXCEPT ![u] = "set"]
    /\ stale' = (stale \/ info # Newest)
    /\ UNCHANGED <<session, info, page, queue, worker, saving, files, platform, left>>

(* The function answers Nothing: the mutex is taken and put back.          *)
Decline(u) ==
    /\ session # "out"
    /\ edit[u] = "new"
    /\ CanLock
    /\ edit' = [edit EXCEPT ![u] = "declined"]
    /\ UNCHANGED <<session, info, fired, mutex, posting, page, queue, worker, saving,
                   files, platform, left, stale>>

(* setLastStorage, which setWalletInfoNow calls first, throws: the thread  *)
(* ends and the mutex stays taken.                                         *)
ModifyThrows(u) ==
    /\ session # "out"
    /\ edit[u] = "new"
    /\ CanLock
    /\ Happens("disk")
    /\ mutex' = TRUE
    /\ edit' = [edit EXCEPT ![u] = "failed"]
    /\ UNCHANGED <<session, info, fired, posting, page, queue, worker, saving, files,
                   platform, stale>>

(* writeTChan, putMVar                                                     *)
Post(u) ==
    /\ edit[u] = "set"
    /\ chan' = Append(chan, [info |-> posting, high |-> FALSE, close |-> FALSE])
    /\ mutex' = FALSE
    /\ edit' = [edit EXCEPT ![u] = "done"]
    /\ posting' = EmptyInfo
    /\ UNCHANGED <<session, info, fired, page, slot, due, worker, saving,
                   files, platform, left, stale>>

(* storeWalletNow, to save at once or to log out                           *)
StoreNow(closing) ==
    /\ session = "in"
    /\ CanLock
    /\ Happens("save")
    /\ chan' = Append(chan, [info |-> info, high |-> TRUE, close |-> closing])
    /\ session' = IF closing THEN "leaving" ELSE session
    /\ stale' = (stale \/ info # Newest)
    /\ UNCHANGED <<info, fired, mutex, edit, posting, page, slot, due, worker, saving,
                   files, platform>>

-----------------------------------------------------------------------------
(* withWallet, decryptAndValidatePrvStorage                                *)

(* The info is sampled before the store mutex is taken.                    *)
Ask(purpose) ==
    /\ session = "in"
    /\ asker = "idle"
    /\ purpose # Nothing => edit[purpose] = "new"
    /\ Happens("ask")
    /\ asker' = "sampled"
    /\ asked' = info
    /\ wanted' = purpose
    /\ UNCHANGED <<memory, queue, worker, saving, files, platform, stale>>

(* A mutant: private keys for every change.                                *)
CompleteAll(i) == [i EXCEPT !.prv = i.pub]

(* The private keys that are missing are derived.                          *)
Complete(i) == [i EXCEPT !.prv = i.pub \cap KeyChange]

(* The page's own function runs in the same frame; what it answers is set  *)
(* in a later one.                                                         *)
Answer ==
    /\ asker' = IF wanted = Nothing THEN "idle" ELSE "chosen"
    /\ asked' = IF wanted = Nothing THEN EmptyInfo ELSE info

(* All private keys are there: the mutex is put back at once.              *)
AskNoSave ==
    /\ asker = "sampled"
    /\ holder = "nobody"
    /\ Complete(asked) = asked
    /\ Answer
    /\ UNCHANGED <<memory, wanted, queue, worker, saving, files, platform, left, stale>>

AskSave ==
    /\ asker = "sampled"
    /\ holder = "nobody"
    /\ Complete(asked) # asked
    /\ asker' = "saving"
    /\ holder' = "asker"
    /\ step' = "move"
    /\ data' = Complete(asked)
    /\ stale' = (stale \/ asked # Newest)
    /\ UNCHANGED <<memory, asked, wanted, queue, worker, files, platform, left>>

(* setWalletInfoNow with what was saved, then the mutex is put back.       *)
AskDone ==
    /\ holder = "asker" /\ step = "done"
    /\ fired' = Append(fired, data)
    /\ holder' = "nobody" /\ step' = "none" /\ data' = EmptyInfo
    /\ Answer
    /\ stale' = (stale \/ data.pub # Newest.pub)
    /\ UNCHANGED <<session, info, mutex, edit, posting, wanted, queue, worker, files,
                   platform, left>>

(* setNewPassword, currenciesPage: setWalletInfo, without the mutex        *)
SetInfo ==
    /\ asker = "chosen"
    /\ fired' = Append(fired, [asked EXCEPT !.pub = @ \cup {wanted}])
    /\ edit' = [edit EXCEPT ![wanted] = "done"]
    /\ asker' = "idle" /\ asked' = EmptyInfo /\ wanted' = Nothing
    /\ stale' = (stale \/ asked # Newest)
    /\ UNCHANGED <<session, info, mutex, posting, queue, worker, saving, files,
                   platform, left>>

-----------------------------------------------------------------------------
(* walletStoreThread                                                       *)

(* A mutant: a message that waits is not replaced.                         *)
OldestMsg == IF slot = Nothing THEN Head(chan) ELSE slot

LatestMsg == Head(chan)

(* The thread that reads the channel keeps the last message.               *)
ReadChan ==
    /\ chan # <<>>
    /\ slot' = LatestMsg
    /\ chan' = Tail(chan)
    /\ UNCHANGED <<memory, page, due, worker, saving, files, platform, left, stale>>

(* The thread that updates timeRef                                         *)
Tick ==
    /\ store # "off" /\ ~due
    /\ due' = TRUE
    /\ UNCHANGED <<memory, page, chan, slot, worker, saving, files, platform, left, stale>>

(* getTimedWrite.  A message to close is not stored.                       *)
TakeMsg ==
    /\ store = "wait"
    /\ slot # Nothing
    /\ due \/ slot.high
    /\ slot' = Nothing
    /\ due' = FALSE
    /\ store' = IF slot.close THEN "ended" ELSE "save"
    /\ msg' = slot.info
    /\ UNCHANGED <<memory, page, chan, saving, files, platform, left, stale>>

(* storeWalletIO: withMVar                                                 *)
SaveMsg ==
    /\ store = "save"
    /\ holder = "nobody"
    /\ holder' = "thread" /\ step' = "move" /\ data' = msg
    /\ UNCHANGED <<memory, page, queue, worker, files, platform, left, stale>>

SaveMsgDone ==
    /\ holder = "thread" /\ step = "done"
    /\ holder' = "nobody" /\ step' = "none" /\ data' = EmptyInfo
    /\ store' = "wait" /\ msg' = EmptyInfo
    /\ UNCHANGED <<memory, page, queue, files, platform, left, stale>>

-----------------------------------------------------------------------------
(* saveStorageToFile, saveStorageSafelyToFile                              *)

(* A mutant: the backup is overwritten by a file that is not there.        *)
BackupAlways == main

(* moveStoredFile does nothing when there is no file.                      *)
MovedBackup == IF main = NoFile THEN backup ELSE main

Move ==
    /\ step = "move"
    /\ backup' = MovedBackup
    /\ main' = NoFile
    /\ step' = "write"
    /\ UNCHANGED <<memory, page, queue, worker, holder, data, platform, left, stale>>

(* Android writes the file in place.  The desktop moves a temporary file   *)
(* there: mv of Turtle (external) renames it, but between two file systems *)
(* it can only copy.                                                       *)
InPlace == platform # "desktop"

(* storeBS: the file is there at once, or open and not whole yet.          *)
Write ==
    /\ step = "write"
    /\ \/ ~InPlace /\ main' = data /\ step' = "done"
       \/ InPlace /\ main' = Partial /\ step' = "fill"
    /\ UNCHANGED <<memory, page, queue, worker, holder, data, backup, platform, left,
                   stale>>

Fill ==
    /\ step = "fill"
    /\ main' = data
    /\ step' = "done"
    /\ UNCHANGED <<memory, page, queue, worker, holder, data, backup, platform, left,
                   stale>>

(* A write throws.  It ends the store thread, and withMVar puts the mutex  *)
(* back; decryptAndValidatePrvStorage keeps it for ever.                   *)
DiskThrows ==
    /\ step \in {"move", "write", "fill"}
    /\ Happens("disk")
    /\ IF holder = "thread"
       THEN store' = "dead" /\ holder' = "nobody" /\ asker' = asker
       ELSE store' = store /\ holder' = "lost" /\ asker' = "idle"
    /\ step' = "none" /\ data' = EmptyInfo
    /\ UNCHANGED <<memory, asked, wanted, queue, msg, files, platform, stale>>

-----------------------------------------------------------------------------
Memory == \/ Deliver
          \/ \E u \in Change : Modify(u) \/ Decline(u) \/ ModifyThrows(u) \/ Post(u)
User == \/ Login \/ Logout \/ \E closing \in BOOLEAN : StoreNow(closing)
        \/ \E purpose \in PageChange \cup {Nothing} : Ask(purpose)
Page == AskNoSave \/ AskSave \/ AskDone \/ SetInfo
Thread == TakeMsg \/ SaveMsg \/ SaveMsgDone
Save == Move \/ Write \/ Fill

Next == Memory \/ User \/ Page \/ ReadChan \/ Tick \/ Thread \/ Save
        \/ DiskThrows \/ Crash

Spec == Init /\ [][Next]_vars

(* The threads that have begun something go on; nobody has to begin.       *)
FairSpec ==
    /\ Spec
    /\ WF_vars(Deliver) /\ WF_vars(Page)
    /\ \A u \in Change : WF_vars(Post(u))
    /\ WF_vars(ReadChan) /\ WF_vars(Tick) /\ WF_vars(Thread) /\ WF_vars(Save)

-----------------------------------------------------------------------------
TypeOK ==
    /\ session \in {"out", "in", "leaving"}
    /\ info \in Info /\ fired \in Seq(Info) /\ mutex \in BOOLEAN
    /\ edit \in [AnyChange -> {"new", "set", "done", "declined", "failed"}]
    /\ posting \in Info
    /\ asker \in {"idle", "sampled", "saving", "chosen"}
    /\ asked \in Info /\ wanted \in PageChange \cup {Nothing}
    /\ chan \in Seq(Msg) /\ slot \in Msg \cup {Nothing} /\ due \in BOOLEAN
    /\ store \in {"off", "wait", "save", "ended", "dead"} /\ msg \in Info
    /\ holder \in {"nobody", "thread", "asker", "lost"}
    /\ step \in {"none", "move", "write", "fill", "done"} /\ data \in Info
    /\ main \in File /\ backup \in File
    /\ platform \in Platform /\ left \in [Event -> Nat] /\ stale \in BOOLEAN

(* Two writers, kills and writes that throw share one file and one backup. *)
(* The last copy that can be decoded is lost in one way only: the store    *)
(* thread died in a write in place, and a page that saves afterwards moves *)
(* what that write has left over the backup.                               *)
CopyThere == Whole(main) \/ Whole(backup)
CopyKept == [][CopyThere => \/ CopyThere'
                            \/ InPlace /\ store = "dead" /\ holder = "asker"]_vars

(* "Failed to decode wallet from: ... Reading from backup: ..."            *)
(* (Store/Util.hs:314): when a save has left a file that cannot be decoded *)
(* the backup can be.                                                      *)
BackupDecodes == step = "none" /\ main = Partial => Whole(backup)

(* The messages of the store thread are not reordered: as long as no       *)
(* handler works on an old info, the message the thread has taken, the one *)
(* waiting and those in the channel each contain the ones before, and the  *)
(* info in memory contains them all.  The file may still go back: a page   *)
(* saves the info in memory, and the thread then what it took before.      *)
Waiting == (IF slot = Nothing THEN <<>> ELSE <<slot>>) \o chan
MessagesOrdered ==
    ~stale /\ session # "out" =>
        /\ \A i, j \in 1..Len(Waiting) :
               i < j => Waiting[i].info.pub \subseteq Waiting[j].info.pub
        /\ \A i \in 1..Len(Waiting) :
               /\ Waiting[i].info.pub \subseteq Newest.pub
               /\ store = "save" => msg.pub \subseteq Waiting[i].info.pub
        /\ store = "save" => msg.pub \subseteq Newest.pub

(* A change that is in the wallet info gets to the file, unless a handler  *)
(* works on an old info, a write throws, or the user leaves.               *)
Durable == \A u \in Change :
    (session = "in" /\ edit[u] = "done") ~>
        \/ Whole(main) /\ u \in main.pub
        \/ stale \/ session # "in" \/ store = "dead" \/ holder = "lost"

(* "Get mutex that must be taken for synchronize write access to wallet    *)
(* info." (Wallet/Monad.hs:86): a change made under it is in the wallet    *)
(* info from then on.                                                      *)
NoLostUpdate == \A u \in Change :
    session = "in" /\ edit[u] \in {"set", "done"} => u \in Newest.pub
=============================================================================
