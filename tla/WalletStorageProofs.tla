------------------------ MODULE WalletStorageProofs ------------------------
(***************************************************************************)
(* Theorems about WalletStorage, for any changes, any pages and any number *)
(* of logins, kills and failing writes.                                    *)
(***************************************************************************)
EXTENDS WalletStorage, SequenceTheorems, TLAPS

USE ChangesAssumption, FilesAssumption, MixesAssumption

-----------------------------------------------------------------------------
(* Adding a change to an info, or completing its private keys, gives one.  *)
LEMMA InfoClosed ==
    ASSUME NEW i \in Info, NEW u \in AnyChange
    PROVE  /\ [i EXCEPT !.pub = @ \cup {u}] \in Info
           /\ Complete(i) \in Info
           /\ EmptyInfo \in Info
  BY DEF Info, Complete, EmptyInfo, AnyChange

LEMMA EmptyIsInfo == EmptyInfo \in Info
  BY DEF Info, EmptyInfo

LEMMA HappensTyped ==
    ASSUME NEW e \in Event, Happens(e), left \in [Event -> Nat]
    PROVE  left' \in [Event -> Nat]
  BY DEF Happens

LEMMA AppendTyped ==
    ASSUME NEW S, NEW s \in Seq(S), NEW e \in S
    PROVE  Append(s, e) \in Seq(S)
  OBVIOUS

LEMMA TailTyped ==
    ASSUME NEW S, NEW s \in Seq(S), s # <<>>
    PROVE  Head(s) \in S /\ Tail(s) \in Seq(S)
  OBVIOUS

(* What a page has chosen to change is a change.                           *)
Typed == TypeOK /\ (asker = "chosen" => wanted # Nothing)

LEMMA TypedInit == Init => Typed
  <1> SUFFICES ASSUME Init PROVE Typed
    OBVIOUS
  <1>1. platform \in Platform /\ left \in [Event -> Nat]
    BY DEF Init
  <1>2. fired \in Seq(Info) /\ chan \in Seq(Msg)
    BY DEF Init
  <1>3. edit \in [AnyChange -> {"new", "set", "done", "declined", "failed"}]
    BY DEF Init
  <1>4. info \in Info /\ posting \in Info /\ asked \in Info /\ msg \in Info
        /\ data \in Info /\ main \in File /\ backup \in File
    BY EmptyIsInfo DEF Init, File
  <1>5. asker = "idle" /\ wanted = Nothing /\ session = "out" /\ slot = Nothing
        /\ store = "off" /\ holder = "nobody" /\ step = "none"
        /\ mutex = FALSE /\ due = FALSE /\ stale = FALSE
    BY DEF Init
  <1> QED
    BY <1>1, <1>2, <1>3, <1>4, <1>5 DEF Typed, TypeOK

LEMMA MemoryGoneTyped ==
    ASSUME MemoryIsGone
    PROVE  /\ session' = "out" /\ info' \in Info /\ fired' \in Seq(Info)
           /\ mutex' \in BOOLEAN /\ posting' \in Info
           /\ edit' \in [AnyChange -> {"new", "set", "done", "declined", "failed"}]
           /\ asker' = "idle" /\ asked' \in Info /\ wanted' = Nothing
  <1>1. edit' \in [AnyChange -> {"new", "set", "done", "declined", "failed"}]
    BY DEF MemoryIsGone
  <1>2. fired' \in Seq(Info)
    BY DEF MemoryIsGone
  <1> QED
    BY <1>1, <1>2, EmptyIsInfo DEF MemoryIsGone

LEMMA TypedMemory == ASSUME Typed, Memory PROVE Typed'
  <1>1. CASE Deliver
    <2>1. info' \in Info /\ fired' \in Seq(Info)
      BY <1>1, TailTyped DEF Deliver, Typed, TypeOK
    <2> QED
      BY <1>1, <2>1 DEF Deliver, Typed, TypeOK, page, queue, worker, saving, files
  <1>2. ASSUME NEW u \in Change, Modify(u) PROVE Typed'
    <2>1. posting' \in Info
      BY <1>2, InfoClosed DEF Modify, Typed, TypeOK, AnyChange
    <2>2. fired' \in Seq(Info)
      BY <1>2, <2>1, AppendTyped DEF Modify, Typed, TypeOK
    <2>3. edit' \in [AnyChange -> {"new", "set", "done", "declined", "failed"}]
      BY <1>2 DEF Modify, Typed, TypeOK, AnyChange
    <2>4. stale' \in BOOLEAN /\ mutex' \in BOOLEAN
      BY <1>2 DEF Modify, Typed, TypeOK
    <2> QED
      BY <1>2, <2>1, <2>2, <2>3, <2>4
      DEF Modify, Typed, TypeOK, page, queue, worker, saving, files
  <1>3. ASSUME NEW u \in Change, Decline(u) PROVE Typed'
    <2>1. edit' \in [AnyChange -> {"new", "set", "done", "declined", "failed"}]
      BY <1>3 DEF Decline, Typed, TypeOK, AnyChange
    <2> QED
      BY <1>3, <2>1 DEF Decline, Typed, TypeOK, page, queue, worker, saving, files
  <1>4. ASSUME NEW u \in Change, ModifyThrows(u) PROVE Typed'
    <2>1. edit' \in [AnyChange -> {"new", "set", "done", "declined", "failed"}]
      BY <1>4 DEF ModifyThrows, Typed, TypeOK, AnyChange
    <2>2. left' \in [Event -> Nat]
      BY <1>4, HappensTyped DEF ModifyThrows, Typed, TypeOK, Event
    <2>3. mutex' = TRUE
          /\ UNCHANGED <<session, info, fired, posting, asker, asked, wanted, chan, slot,
                         due, store, msg, holder, step, data, main, backup, platform,
                         stale>>
      BY <1>4 DEF ModifyThrows, page, queue, worker, saving, files
    <2> QED
      BY <2>1, <2>2, <2>3 DEF Typed, TypeOK
  <1>5. ASSUME NEW u \in Change, Post(u) PROVE Typed'
    <2>1. edit' \in [AnyChange -> {"new", "set", "done", "declined", "failed"}]
      BY <1>5 DEF Post, Typed, TypeOK, AnyChange
    <2>2. [info |-> posting, high |-> FALSE, close |-> FALSE] \in Msg
      BY DEF Typed, TypeOK, Msg
    <2>3. chan' \in Seq(Msg)
      BY <1>5, <2>2, AppendTyped DEF Post, Typed, TypeOK
    <2>4. mutex' = FALSE /\ posting' = EmptyInfo
          /\ UNCHANGED <<session, info, fired, asker, asked, wanted, slot, due, store,
                         msg, holder, step, data, main, backup, platform, left, stale>>
      BY <1>5 DEF Post, page, worker, saving, files
    <2>5. /\ session' \in {"out", "in", "leaving"} /\ info' \in Info
          /\ fired' \in Seq(Info) /\ mutex' \in BOOLEAN /\ posting' \in Info
      BY <2>4, EmptyIsInfo DEF Typed, TypeOK
    <2>6. /\ asker' \in {"idle", "sampled", "saving", "chosen"} /\ asked' \in Info
          /\ wanted' \in PageChange \cup {Nothing}
          /\ slot' \in Msg \cup {Nothing} /\ due' \in BOOLEAN
          /\ (asker' = "chosen" => wanted' # Nothing)
      BY <2>4 DEF Typed, TypeOK
    <2>7. /\ store' \in {"off", "wait", "save", "ended", "dead"} /\ msg' \in Info
          /\ holder' \in {"nobody", "thread", "asker", "lost"}
          /\ step' \in {"none", "move", "write", "fill", "done"} /\ data' \in Info
          /\ main' \in File /\ backup' \in File
          /\ platform' \in Platform /\ left' \in [Event -> Nat] /\ stale' \in BOOLEAN
      BY <2>4 DEF Typed, TypeOK
    <2> QED
      BY <2>1, <2>3, <2>5, <2>6, <2>7 DEF Typed, TypeOK
  <1> QED
    BY <1>1, <1>2, <1>3, <1>4, <1>5 DEF Memory

LEMMA TypedUser == ASSUME Typed, User PROVE Typed'
  <1>1. CASE Login
    <2>1. left' \in [Event -> Nat]
      BY <1>1, HappensTyped DEF Login, Typed, TypeOK, Event
    <2> QED
      BY <1>1, <2>1, EmptyIsInfo DEF Login, Whole, Typed, TypeOK, page, files
  <1>2. CASE Logout
    BY <1>2, MemoryGoneTyped DEF Logout, Typed, TypeOK, queue, worker, saving, files
  <1>3. ASSUME NEW closing \in BOOLEAN, StoreNow(closing) PROVE Typed'
    <2>1. left' \in [Event -> Nat]
      BY <1>3, HappensTyped DEF StoreNow, Typed, TypeOK, Event
    <2>2. [info |-> info, high |-> TRUE, close |-> closing] \in Msg
      BY DEF Typed, TypeOK, Msg
    <2>3. chan' \in Seq(Msg)
      BY <1>3, <2>2, AppendTyped DEF StoreNow, Typed, TypeOK
    <2>4. session' \in {"out", "in", "leaving"} /\ stale' \in BOOLEAN
      BY <1>3 DEF StoreNow, Typed, TypeOK
    <2> QED
      BY <1>3, <2>1, <2>3, <2>4
      DEF StoreNow, Typed, TypeOK, page, worker, saving, files
  <1>4. ASSUME NEW p \in PageChange \cup {Nothing}, Ask(p) PROVE Typed'
    <2>1. left' \in [Event -> Nat]
      BY <1>4, HappensTyped DEF Ask, Typed, TypeOK, Event
    <2> QED
      BY <1>4, <2>1 DEF Ask, Typed, TypeOK, memory, queue, worker, saving, files
  <1> QED
    BY <1>1, <1>2, <1>3, <1>4 DEF User

LEMMA TypedPage == ASSUME Typed, Page PROVE Typed'
  <1>1. CASE AskNoSave
    BY <1>1, EmptyIsInfo
    DEF AskNoSave, Answer, Typed, TypeOK, memory, queue, worker, saving, files
  <1>2. CASE AskSave
    <2>1. Complete(asked) \in Info
      BY DEF Typed, TypeOK, Info, Complete
    <2>2. stale' \in BOOLEAN
      BY <1>2 DEF AskSave, Typed, TypeOK
    <2> QED
      BY <1>2, <2>1, <2>2 DEF AskSave, Typed, TypeOK, memory, queue, worker, files
  <1>3. CASE AskDone
    <2>1. fired' \in Seq(Info)
      BY <1>3, AppendTyped DEF AskDone, Typed, TypeOK
    <2>2. stale' \in BOOLEAN
      BY <1>3 DEF AskDone, Typed, TypeOK
    <2>3. asked' \in Info /\ asker' \in {"idle", "chosen"}
          /\ (asker' = "chosen" => wanted' # Nothing)
      BY <1>3, EmptyIsInfo DEF AskDone, Answer, Typed, TypeOK
    <2>4. holder' = "nobody" /\ step' = "none" /\ data' \in Info
          /\ UNCHANGED <<session, info, mutex, edit, posting, wanted, chan, slot, due,
                         store, msg, main, backup, platform, left>>
      BY <1>3, EmptyIsInfo DEF AskDone, queue, worker, files
    <2> QED
      BY <2>1, <2>2, <2>3, <2>4 DEF Typed, TypeOK
  <1>4. CASE SetInfo
    <2>1. wanted \in AnyChange
      BY <1>4 DEF SetInfo, Typed, TypeOK, AnyChange
    <2>2. [asked EXCEPT !.pub = @ \cup {wanted}] \in Info
      BY <2>1, InfoClosed DEF Typed, TypeOK
    <2>3. fired' \in Seq(Info)
      BY <1>4, <2>2, AppendTyped DEF SetInfo, Typed, TypeOK
    <2>4. edit' \in [AnyChange -> {"new", "set", "done", "declined", "failed"}]
      BY <1>4, <2>1 DEF SetInfo, Typed, TypeOK
    <2>5. stale' \in BOOLEAN
      BY <1>4 DEF SetInfo, Typed, TypeOK
    <2> QED
      BY <1>4, <2>3, <2>4, <2>5, EmptyIsInfo
      DEF SetInfo, Typed, TypeOK, queue, worker, saving, files
  <1> QED
    BY <1>1, <1>2, <1>3, <1>4 DEF Page

LEMMA TypedThread == ASSUME Typed, ReadChan \/ Tick \/ Thread PROVE Typed'
  <1>1. CASE ReadChan
    <2>1. slot' \in Msg /\ chan' \in Seq(Msg)
      BY <1>1, TailTyped DEF ReadChan, LatestMsg, Typed, TypeOK
    <2> QED
      BY <1>1, <2>1 DEF ReadChan, Typed, TypeOK, memory, page, worker, saving, files
  <1>2. CASE Tick
    BY <1>2 DEF Tick, Typed, TypeOK, memory, page, worker, saving, files
  <1>3. CASE TakeMsg
    <2>1. slot.info \in Info
      BY <1>3 DEF TakeMsg, Typed, TypeOK, Msg
    <2>2. /\ slot' = Nothing /\ due' = FALSE /\ store' \in {"ended", "save"}
          /\ msg' = slot.info
          /\ UNCHANGED <<session, info, fired, mutex, edit, posting, asker, asked, wanted,
                         chan, holder, step, data, main, backup, platform, left, stale>>
      BY <1>3 DEF TakeMsg, memory, page, saving, files
    <2>3. /\ session' \in {"out", "in", "leaving"} /\ info' \in Info
          /\ fired' \in Seq(Info) /\ mutex' \in BOOLEAN /\ posting' \in Info
          /\ edit' \in [AnyChange -> {"new", "set", "done", "declined", "failed"}]
      BY <2>2 DEF Typed, TypeOK
    <2>4. /\ asker' \in {"idle", "sampled", "saving", "chosen"} /\ asked' \in Info
          /\ wanted' \in PageChange \cup {Nothing}
          /\ (asker' = "chosen" => wanted' # Nothing)
      BY <2>2 DEF Typed, TypeOK
    <2>5. /\ chan' \in Seq(Msg) /\ slot' \in Msg \cup {Nothing} /\ due' \in BOOLEAN
          /\ store' \in {"off", "wait", "save", "ended", "dead"} /\ msg' \in Info
      BY <2>1, <2>2 DEF Typed, TypeOK
    <2>6. /\ holder' \in {"nobody", "thread", "asker", "lost"}
          /\ step' \in {"none", "move", "write", "fill", "done"} /\ data' \in Info
          /\ main' \in File /\ backup' \in File
          /\ platform' \in Platform /\ left' \in [Event -> Nat] /\ stale' \in BOOLEAN
      BY <2>2 DEF Typed, TypeOK
    <2> QED
      BY <2>3, <2>4, <2>5, <2>6 DEF Typed, TypeOK
  <1>4. CASE SaveMsg \/ SaveMsgDone
    BY <1>4, EmptyIsInfo
    DEF SaveMsg, SaveMsgDone, Typed, TypeOK, memory, page, queue, worker, files
  <1> QED
    BY <1>1, <1>2, <1>3, <1>4 DEF Thread

LEMMA TypedSave == ASSUME Typed, Save PROVE Typed'
  BY DEF Save, Move, Write, Fill, MovedBackup, Typed, TypeOK, File, memory, page, queue,
     worker

LEMMA TypedFault == ASSUME Typed, DiskThrows \/ Crash PROVE Typed'
  <1>1. left' \in [Event -> Nat]
    BY HappensTyped DEF DiskThrows, Crash, Typed, TypeOK, Event
  <1>2. CASE DiskThrows
    <2>1. /\ asker' \in {"idle", asker}
          /\ store' \in {"off", "wait", "save", "ended", "dead"}
          /\ holder' \in {"nobody", "lost"}
      BY <1>2 DEF DiskThrows, Typed, TypeOK
    <2> QED
      BY <1>1, <1>2, <2>1, EmptyIsInfo
      DEF DiskThrows, Typed, TypeOK, memory, queue, files
  <1>3. CASE Crash
    <2>1. chan' \in Seq(Msg)
      BY <1>3 DEF Crash
    <2> QED
      BY <1>1, <1>3, <2>1, MemoryGoneTyped, EmptyIsInfo DEF Crash, Typed, TypeOK, files
  <1> QED
    BY <1>2, <1>3

LEMMA TypedStep == Typed /\ [Next]_vars => Typed'
  <1>1. ASSUME Typed, UNCHANGED vars PROVE Typed'
    BY <1>1 DEF vars, Typed, TypeOK, memory, page, queue, worker, saving, files
  <1> QED
    BY <1>1, TypedMemory, TypedUser, TypedPage, TypedThread, TypedSave, TypedFault
    DEF Next

(* The storage is well typed: what is posted, saved and loaded is a wallet *)
(* info, whatever was sampled and whichever write failed.                  *)
THEOREM WalletTyped == Spec => []TypeOK
  <1>1. Typed => TypeOK
    BY DEF Typed
  <1> QED
    BY <1>1, TypedInit, TypedStep, PTL DEF Spec

-----------------------------------------------------------------------------
(* A save that is under way holds the mutex, and the file is gone when the *)
(* writing begins.  A file that cannot be decoded was written in place:    *)
(* the write goes on, or it threw and the mutex is lost or the store       *)
(* thread dead, or the process was killed and nobody can log in again.     *)
Kept ==
    /\ step # "none" => holder \in {"thread", "asker"}
    /\ holder = "thread" => store = "save"
    /\ step = "write" => main = NoFile
    /\ main = Partial =>
        /\ InPlace
        /\ \/ step = "fill" \/ holder = "lost" \/ store = "dead"
           \/ /\ step = "none" /\ store = "off"
              /\ asker = "idle" /\ session = "out"

LEMMA KeptInit == Init => Kept
  BY EmptyIsInfo DEF Init, Kept

LEMMA KeptSame ==
    ASSUME Kept, UNCHANGED <<step, holder, store, main, platform>>,
           session # "out" \/ UNCHANGED <<asker, session>>
    PROVE  Kept'
  BY DEF Kept, InPlace

LEMMA KeptMemory == ASSUME Kept, Memory \/ ReadChan \/ Tick PROVE Kept'
  <1>1. UNCHANGED <<step, holder, store, main, platform>>
    BY DEF Memory, Deliver, Modify, Decline, ModifyThrows, Post, ReadChan, Tick, saving,
       files, worker
  <1>2. UNCHANGED <<asker, session>>
    BY DEF Memory, Deliver, Modify, Decline, ModifyThrows, Post, ReadChan, Tick, page,
       memory
  <1> QED
    BY <1>1, <1>2, KeptSame

LEMMA KeptUser == ASSUME Kept, User PROVE Kept'
  <1>1. CASE Login
    BY <1>1 DEF Login, Kept, Whole, InPlace, files
  <1>2. CASE Logout
    BY <1>2, KeptSame DEF Logout, saving, worker, files
  <1>3. ASSUME NEW closing \in BOOLEAN, StoreNow(closing) PROVE Kept'
    BY <1>3, KeptSame DEF StoreNow, saving, worker, files
  <1>4. ASSUME NEW p \in PageChange \cup {Nothing}, Ask(p) PROVE Kept'
    BY <1>4, KeptSame DEF Ask, saving, worker, files
  <1> QED
    BY <1>1, <1>2, <1>3, <1>4 DEF User

(* Whoever takes the mutex finds a file that is not being written.         *)
LEMMA KeptHolder == ASSUME Typed, Kept, Page \/ Thread PROVE Kept'
  <1>1. CASE AskNoSave \/ SetInfo
    <2>1. asker # "idle" /\ UNCHANGED <<step, holder, store, main, platform>>
      BY <1>1 DEF AskNoSave, SetInfo, saving, worker, files
    <2> QED
      BY <2>1 DEF Kept, InPlace
  <1>2. CASE AskSave \/ AskDone
    <2>1. asker # "idle" \/ step # "none"
      BY <1>2 DEF AskSave, AskDone
    <2>2. UNCHANGED <<store, main, platform>>
      BY <1>2 DEF AskSave, AskDone, worker, files
    <2> QED
      BY <1>2, <2>1, <2>2 DEF AskSave, AskDone, Kept, InPlace
  <1>3. CASE TakeMsg
    BY <1>3 DEF TakeMsg, Kept, InPlace, saving, files
  <1>4. CASE SaveMsg
    <2>1. store = "save" /\ step = "none" /\ holder = "nobody"
      BY <1>4 DEF SaveMsg, Kept
    <2>2. main # Partial
      BY <2>1 DEF Kept
    <2>3. step' = "move" /\ holder' = "thread" /\ store' = "save" /\ main' = main
      BY <1>4, <2>1 DEF SaveMsg, files, worker
    <2> QED
      BY <2>2, <2>3 DEF Kept
  <1>5. CASE SaveMsgDone
    <2>1. store = "save" /\ step = "done" /\ holder = "thread"
      BY <1>5 DEF SaveMsgDone, Kept
    <2>2. main # Partial
      BY <2>1 DEF Kept
    <2>3. step' = "none" /\ holder' = "nobody" /\ main' = main
      BY <1>5 DEF SaveMsgDone, files
    <2> QED
      BY <2>2, <2>3 DEF Kept
  <1> QED
    BY <1>1, <1>2, <1>3, <1>4, <1>5 DEF Page, Thread

LEMMA KeptSave == ASSUME Typed, Kept, Save PROVE Kept'
  <1>1. data \in Info
    BY DEF Typed, TypeOK
  <1> QED
    BY <1>1 DEF Save, Move, Write, Fill, Kept, InPlace, worker

LEMMA KeptFault == ASSUME Kept, DiskThrows \/ Crash PROVE Kept'
  <1>1. CASE DiskThrows
    <2>1. UNCHANGED <<main, platform>> /\ step' = "none" /\ holder \in {"thread", "asker"}
      BY <1>1 DEF DiskThrows, Kept, files
    <2>2. \/ holder' = "nobody" /\ store' = "dead"
          \/ holder' = "lost" /\ store' = store
      BY <1>1 DEF DiskThrows
    <2> QED
      BY <2>1, <2>2 DEF Kept, InPlace
  <1>2. CASE Crash
    BY <1>2 DEF Crash, MemoryIsGone, Kept, InPlace, files
  <1> QED
    BY <1>1, <1>2

LEMMA KeptStep == Typed /\ Kept /\ [Next]_vars => Kept'
  <1>1. ASSUME Kept, UNCHANGED vars PROVE Kept'
    BY <1>1, KeptSame DEF vars, memory, page, worker, saving, files
  <1> QED
    BY <1>1, KeptMemory, KeptUser, KeptHolder, KeptSave, KeptFault DEF Next

(* Only a save writes the files, and only its first step the backup.       *)
LEMMA CopyStep ==
    ASSUME Typed, Kept, [Next]_vars, CopyThere
    PROVE  CopyThere' \/ (InPlace /\ store = "dead" /\ holder = "asker")
  <1>1. CASE Move
    <2>1. CASE main = Partial
      BY <1>1, <2>1 DEF Move, Kept
    <2>2. CASE main # Partial
      BY <1>1, <2>2 DEF Move, MovedBackup, CopyThere, Whole, Typed, TypeOK, File
    <2> QED
      BY <2>1, <2>2
  <1>2. CASE Write
    BY <1>2 DEF Write, Kept, CopyThere, Whole
  <1>3. CASE Fill
    BY <1>3 DEF Fill, CopyThere, Whole, Typed, TypeOK
  <1>4. CASE ~Save
    <2>1. UNCHANGED <<main, backup>>
      BY <1>4 DEF Next, vars, Memory, Deliver, Modify, Decline, ModifyThrows, Post, User,
         Login, Logout, StoreNow, Ask, Page, AskNoSave, AskSave, AskDone, SetInfo, ReadChan,
         Tick, Thread, TakeMsg, SaveMsg, SaveMsgDone, DiskThrows, Crash, files
    <2> QED
      BY <2>1 DEF CopyThere, Whole
  <1> QED
    BY <1>1, <1>2, <1>3, <1>4 DEF Save

(* Whatever is killed and whichever write throws, on every platform: the   *)
(* last copy that can be decoded is lost only when a page saves after the  *)
(* store thread has died in a write in place.                              *)
THEOREM CopyIsKept == Spec => CopyKept
  <1>1. Init => Typed /\ Kept
    BY TypedInit, KeptInit
  <1>2. Typed /\ Kept /\ [Next]_vars => (Typed /\ Kept)'
    BY TypedStep, KeptStep
  <1>3. Typed /\ Kept /\ [Next]_vars
        => [CopyThere => \/ CopyThere'
                         \/ InPlace /\ store = "dead" /\ holder = "asker"]_vars
    BY CopyStep
  <1> QED
    BY <1>1, <1>2, <1>3, PTL DEF Spec, CopyKept

-----------------------------------------------------------------------------
(* i has no change that a message of s lacks.                              *)
Before(i, s) == \A k \in 1..Len(s) : i.pub \subseteq s[k].info.pub

(* The messages of s grow, and the info i has what all of them have.       *)
Growing(s, i) ==
    /\ \A j, k \in 1..Len(s) : j < k => s[j].info.pub \subseteq s[k].info.pub
    /\ \A k \in 1..Len(s) : s[k].info.pub \subseteq i.pub

(* The handler that has set the info and not posted it yet has the mutex,  *)
(* and what it will post has what all those that wait have.                *)
Ordered ==
    /\ \A u \in AnyChange : edit[u] = "set" => mutex /\ session # "out"
    /\ \A u, v \in AnyChange : edit[u] = "set" /\ edit[v] = "set" => u = v
    /\ ~stale /\ session # "out" =>
        /\ Growing(Waiting, Newest)
        /\ \A u \in AnyChange : edit[u] = "set" =>
               posting.pub \subseteq Newest.pub /\ Growing(Waiting, posting)

(* What the store thread has taken is older than all of these.             *)
Taken ==
    ~stale /\ session # "out" /\ store = "save" =>
        /\ Before(msg, Waiting)
        /\ msg.pub \subseteq Newest.pub
        /\ \A u \in AnyChange : edit[u] = "set" => msg.pub \subseteq posting.pub

LEMMA GrowingEmpty == ASSUME NEW i PROVE Growing(<<>>, i)
  BY DEF Growing

LEMMA TailIs ==
    ASSUME NEW s \in Seq(Msg), s # <<>>
    PROVE  /\ 1 \in 1..Len(s)
           /\ \A k \in 1..Len(Tail(s)) : k + 1 \in 1..Len(s) /\ Tail(s)[k] = s[k + 1]
  OBVIOUS

LEMMA GrowingTail ==
    ASSUME NEW s \in Seq(Msg), s # <<>>, NEW i, Growing(s, i)
    PROVE  Growing(Tail(s), i)
  <1>1. ASSUME NEW j \in 1..Len(Tail(s)), NEW k \in 1..Len(Tail(s)), j < k
        PROVE  Tail(s)[j].info.pub \subseteq Tail(s)[k].info.pub
    <2>1. j + 1 \in 1..Len(s) /\ k + 1 \in 1..Len(s) /\ j + 1 < k + 1
      BY <1>1, TailIs
    <2>2. s[j + 1].info.pub \subseteq s[k + 1].info.pub
      BY <2>1 DEF Growing
    <2> QED
      BY <2>2, TailIs
  <1>2. \A k \in 1..Len(Tail(s)) : Tail(s)[k].info.pub \subseteq i.pub
    BY TailIs DEF Growing
  <1> QED
    BY <1>1, <1>2 DEF Growing

LEMMA BeforeTail ==
    ASSUME NEW s \in Seq(Msg), s # <<>>, NEW i, Before(i, s)
    PROVE  Before(i, Tail(s))
  BY TailIs DEF Before

(* The first message of those that grow comes before the others.           *)
LEMMA HeadBefore ==
    ASSUME NEW s \in Seq(Msg), s # <<>>, NEW i, Growing(s, i)
    PROVE  Before(s[1].info, Tail(s)) /\ s[1].info.pub \subseteq i.pub
  <1>1. ASSUME NEW k \in 1..Len(Tail(s))
        PROVE  s[1].info.pub \subseteq Tail(s)[k].info.pub
    <2>1. 1 \in 1..Len(s) /\ k + 1 \in 1..Len(s) /\ 1 < k + 1
      BY TailIs
    <2>2. s[1].info.pub \subseteq s[k + 1].info.pub
      BY <2>1 DEF Growing
    <2> QED
      BY <2>2, TailIs
  <1> QED
    BY <1>1, TailIs DEF Before, Growing

LEMMA AppendIs ==
    ASSUME NEW s \in Seq(Msg), NEW m \in Msg
    PROVE  /\ Len(s) \in Nat /\ Len(Append(s, m)) = Len(s) + 1
           /\ Append(s, m)[Len(s) + 1] = m
           /\ \A k \in 1..Len(s) : Append(s, m)[k] = s[k]
  OBVIOUS

LEMMA GrowingAppend ==
    ASSUME NEW s \in Seq(Msg), NEW m \in Msg, NEW i,
           Growing(s, m.info), m.info.pub \subseteq i.pub
    PROVE  Growing(Append(s, m), i)
  <1> DEFINE t == Append(s, m)
  <1>1. \A k \in 1..Len(t) : t[k].info.pub \subseteq m.info.pub
    <2> TAKE k \in 1..Len(t)
    <2>1. CASE k = Len(s) + 1
      BY <2>1, AppendIs
    <2>2. CASE k # Len(s) + 1
      <3>1. k \in 1..Len(s)
        BY <2>2, AppendIs
      <3> QED
        BY <3>1, AppendIs DEF Growing
    <2> QED
      BY <2>1, <2>2
  <1>2. ASSUME NEW j \in 1..Len(t), NEW k \in 1..Len(t), j < k
        PROVE  t[j].info.pub \subseteq t[k].info.pub
    <2>1. CASE k = Len(s) + 1
      BY <1>1, <2>1, AppendIs
    <2>2. CASE k # Len(s) + 1
      <3>1. j \in 1..Len(s) /\ k \in 1..Len(s)
        BY <1>2, <2>2, AppendIs
      <3> QED
        BY <1>2, <3>1, AppendIs DEF Growing
    <2> QED
      BY <2>1, <2>2
  <1> QED
    BY <1>1, <1>2 DEF Growing

LEMMA BeforeAppend ==
    ASSUME NEW s \in Seq(Msg), NEW m \in Msg, NEW i,
           Before(i, s), i.pub \subseteq m.info.pub
    PROVE  Before(i, Append(s, m))
  <1> SUFFICES ASSUME NEW k \in 1..Len(Append(s, m))
               PROVE  i.pub \subseteq Append(s, m)[k].info.pub
    BY DEF Before
  <1>1. CASE k = Len(s) + 1
    BY <1>1, AppendIs
  <1>2. CASE k # Len(s) + 1
    <2>1. k \in 1..Len(s)
      BY <1>2, AppendIs
    <2> QED
      BY <2>1, AppendIs DEF Before
  <1> QED
    BY <1>1, <1>2

LEMMA GrowingMore ==
    ASSUME NEW s, NEW i, NEW j, Growing(s, i), i.pub \subseteq j.pub
    PROVE  Growing(s, j)
  BY DEF Growing

(* What waits is the channel, behind the message the reader keeps.         *)
LEMMA WaitingIs ==
    ASSUME Typed
    PROVE  /\ Waiting \in Seq(Msg)
           /\ slot = Nothing => Waiting = chan
           /\ slot # Nothing => /\ Waiting # <<>> /\ Tail(Waiting) = chan
                                /\ Waiting[1] = slot
  <1>1. chan \in Seq(Msg) /\ slot \in Msg \cup {Nothing}
    BY DEF Typed, TypeOK
  <1>2. CASE slot = Nothing
    BY <1>1, <1>2 DEF Waiting
  <1>3. CASE slot # Nothing
    <2>1. <<slot>> \in Seq(Msg) /\ slot \in Msg
      BY <1>1, <1>3
    <2>2. Waiting = <<slot>> \o chan
      BY <1>3 DEF Waiting
    <2> QED
      BY <1>1, <1>3, <2>1, <2>2
  <1> QED
    BY <1>2, <1>3

(* The reader takes the head of the channel, and drops what it kept.       *)
LEMMA WaitingRead ==
    ASSUME Typed, ReadChan
    PROVE  Waiting' = IF slot = Nothing THEN Waiting ELSE Tail(Waiting)
  <1>1. chan \in Seq(Msg) /\ chan # <<>> /\ slot' = Head(chan) /\ chan' = Tail(chan)
    BY DEF ReadChan, LatestMsg, Typed, TypeOK
  <1>2. slot' \in Msg /\ slot' # Nothing
    BY <1>1, TailTyped, FilesAssumption
  <1>3. Waiting' = <<Head(chan)>> \o Tail(chan)
    BY <1>1, <1>2 DEF Waiting
  <1>4. Waiting' = chan
    BY <1>1, <1>3
  <1> QED
    BY <1>4, WaitingIs

LEMMA WaitingAppend ==
    ASSUME Typed, NEW m \in Msg, chan' = Append(chan, m), UNCHANGED slot
    PROVE  Waiting' = Append(Waiting, m)
  <1>1. chan \in Seq(Msg) /\ slot \in Msg \cup {Nothing}
    BY DEF Typed, TypeOK
  <1>2. CASE slot = Nothing
    BY <1>1, <1>2 DEF Waiting
  <1>3. CASE slot # Nothing
    <2>1. slot \in Msg
      BY <1>1, <1>3
    <2> QED
      BY <1>1, <1>3, <2>1 DEF Waiting
  <1> QED
    BY <1>2, <1>3

LEMMA TailLast ==
    ASSUME NEW S, NEW s \in Seq(S), s # <<>>, Len(s) # 1
    PROVE  Tail(s) # <<>> /\ Tail(s)[Len(Tail(s))] = s[Len(s)]
  <1>1. Len(s) \in Nat \ {0}
    BY EmptySeq
  <1>2. Len(Tail(s)) = Len(s) - 1
    BY HeadTailProperties
  <1>3. \A k \in 1..Len(Tail(s)) : Tail(s)[k] = s[k + 1]
    BY HeadTailProperties
  <1> DEFINE n == Len(Tail(s))
             m == Len(s)
  <1>4. n = m - 1 /\ m \in Nat \ {0} /\ m # 1
    BY <1>1, <1>2
  <1> HIDE DEF n, m
  <1>5. n \in 1..n /\ n + 1 = m
    BY <1>4
  <1>6. Len(Tail(s)) \in 1..Len(Tail(s)) /\ Len(Tail(s)) + 1 = Len(s)
    BY <1>5 DEF n, m
  <1>7. Tail(s)[Len(Tail(s))] = s[Len(s)]
    BY <1>3, <1>6
  <1>8. Tail(s) # <<>>
    BY <1>6
  <1> QED
    BY <1>7, <1>8

(* Setting the info makes it the newest; delivering one changes nothing.   *)
LEMMA NewestFired ==
    ASSUME NEW i \in Info, Typed, fired' = Append(fired, i)
    PROVE  Newest' = i
  <1>1. fired \in Seq(Info) /\ Len(fired) \in Nat
    BY DEF Typed, TypeOK
  <1>2. fired' # <<>> /\ Len(fired') = Len(fired) + 1 /\ fired'[Len(fired) + 1] = i
    BY <1>1
  <1> QED
    BY <1>2 DEF Newest

LEMMA NewestDelivered ==
    ASSUME Typed, Deliver PROVE Newest' = Newest
  <1>1. fired \in Seq(Info) /\ fired # <<>> /\ info' = Head(fired) /\ fired' = Tail(fired)
    BY DEF Deliver, Typed, TypeOK
  <1>2. CASE Len(fired) = 1
    <2>1. Tail(fired) = <<>> /\ Head(fired) = fired[1]
      BY <1>1, <1>2
    <2>2. Newest = fired[1] /\ Newest' = info'
      BY <1>1, <1>2, <2>1 DEF Newest
    <2> QED
      BY <1>1, <2>1, <2>2
  <1>3. CASE Len(fired) # 1
    <2>1. Tail(fired) # <<>> /\ Tail(fired)[Len(Tail(fired))] = fired[Len(fired)]
      BY <1>1, <1>3, TailLast
    <2>2. Newest = fired[Len(fired)]
      BY <1>1 DEF Newest
    <2>3. fired' # <<>> /\ Newest' = fired'[Len(fired')]
      BY <1>1, <2>1 DEF Newest
    <2> QED
      BY <1>1, <2>1, <2>2, <2>3
  <1> QED
    BY <1>2, <1>3

(* A step that sends nothing: fewer messages wait, no handler sets an info *)
(* and the newest one loses nothing, or an old one was used.               *)
LEMMA OrderedKept ==
    ASSUME Typed, Ordered, UNCHANGED <<session, posting>>, stale => stale',
           \A u \in AnyChange : edit'[u] = "set" => edit[u] = "set" /\ mutex',
           Waiting' = Waiting \/ (Waiting # <<>> /\ Waiting' = Tail(Waiting)),
           stale' \/ Newest.pub \subseteq Newest'.pub
    PROVE  Ordered'
  <1>1. ASSUME ~stale', session' # "out" PROVE Growing(Waiting', Newest')
    <2>1. Growing(Waiting, Newest)
      BY <1>1 DEF Ordered
    <2>2. Growing(Waiting', Newest)
      BY <2>1, GrowingTail, WaitingIs
    <2> QED
      BY <1>1, <2>2, GrowingMore
  <1>2. ASSUME ~stale', session' # "out", NEW u \in AnyChange, edit'[u] = "set"
        PROVE  posting'.pub \subseteq Newest'.pub /\ Growing(Waiting', posting')
    <2>1. posting.pub \subseteq Newest.pub /\ Growing(Waiting, posting)
      BY <1>2 DEF Ordered
    <2>2. Growing(Waiting', posting)
      BY <2>1, GrowingTail, WaitingIs
    <2> QED
      BY <1>2, <2>1, <2>2
  <1>3. /\ \A u \in AnyChange : edit'[u] = "set" => mutex' /\ session' # "out"
        /\ \A u, v \in AnyChange : edit'[u] = "set" /\ edit'[v] = "set" => u = v
    BY DEF Ordered
  <1> QED
    BY <1>1, <1>2, <1>3 DEF Ordered

LEMMA OrderedMemory == ASSUME Typed, Ordered, Memory PROVE Ordered'
  <1>1. CASE Deliver
    <2>1. Newest' = Newest
      BY <1>1, NewestDelivered
    <2>2. Waiting' = Waiting
      BY <1>1 DEF Deliver, Waiting, queue
    <2> QED
      BY <1>1, <2>1, <2>2, OrderedKept DEF Deliver, Ordered
  <1>2. ASSUME NEW u \in Change, Modify(u) PROVE Ordered'
    <2>1. posting' \in Info /\ Newest' = posting'
      BY <1>2, InfoClosed, NewestFired DEF Modify, Typed, TypeOK, AnyChange
    <2>2. \A v \in AnyChange : edit'[v] = "set" => v = u
      BY <1>2 DEF Modify, CanLock, Ordered, Typed, TypeOK
    <2>3. Waiting' = Waiting
      BY <1>2 DEF Modify, Waiting, queue
    <2>4. mutex' /\ session' = session /\ session # "out"
      BY <1>2 DEF Modify
    <2>5. ASSUME ~stale' PROVE Growing(Waiting', posting')
      <3>1. ~stale /\ info = Newest /\ info \in Info
        BY <1>2, <2>5 DEF Modify, Typed, TypeOK
      <3>2. Growing(Waiting, info)
        BY <2>4, <3>1 DEF Ordered
      <3>3. info.pub \subseteq posting'.pub
        BY <1>2, <3>1 DEF Modify, Info
      <3> QED
        BY <2>3, <3>2, <3>3, GrowingMore
    <2> QED
      BY <2>1, <2>2, <2>4, <2>5 DEF Ordered
  <1>3. ASSUME NEW u \in Change, Decline(u) \/ ModifyThrows(u) PROVE Ordered'
    <2>1. \A v \in AnyChange : edit'[v] = "set" => edit[v] = "set" /\ mutex'
      BY <1>3 DEF Decline, ModifyThrows, CanLock, Ordered, Typed, TypeOK
    <2>2. UNCHANGED <<session, posting, stale, chan, slot, info, fired>>
      BY <1>3 DEF Decline, ModifyThrows, queue
    <2>3. Waiting' = Waiting /\ Newest' = Newest
      BY <2>2 DEF Waiting, Newest
    <2>4. stale => stale'
      BY <2>2
    <2>5. Newest.pub \subseteq Newest'.pub
      BY <2>3
    <2>6. UNCHANGED <<session, posting>>
      BY <2>2
    <2> QED
      BY <2>1, <2>3, <2>4, <2>5, <2>6, OrderedKept
  <1>4. ASSUME NEW u \in Change, Post(u) PROVE Ordered'
    <2> DEFINE m == [info |-> posting, high |-> FALSE, close |-> FALSE]
    <2>1. m \in Msg
      BY DEF Typed, TypeOK, Msg
    <2>2. Waiting' = Append(Waiting, m)
      BY <1>4, <2>1, WaitingAppend DEF Post
    <2>3. edit[u] = "set" /\ u \in AnyChange
      BY <1>4 DEF Post, AnyChange
    <2>4. \A v \in AnyChange : edit'[v] # "set"
      BY <1>4, <2>3 DEF Post, Ordered, Typed, TypeOK
    <2>5. UNCHANGED <<session, stale, info, fired>>
      BY <1>4 DEF Post
    <2>6. Newest' = Newest
      BY <2>5 DEF Newest
    <2>7. ASSUME ~stale, session # "out" PROVE Growing(Waiting', Newest')
      <3>1. posting.pub \subseteq Newest.pub /\ Growing(Waiting, posting)
        BY <2>3, <2>7 DEF Ordered
      <3> QED
        BY <2>1, <2>2, <2>6, <3>1, GrowingAppend, WaitingIs
    <2> QED
      BY <2>4, <2>5, <2>7 DEF Ordered
  <1> QED
    BY <1>1, <1>2, <1>3, <1>4 DEF Memory

LEMMA OrderedUser == ASSUME Typed, Ordered, User PROVE Ordered'
  <1>1. CASE Login
    <2>1. \A u \in AnyChange : edit'[u] # "set"
      BY <1>1 DEF Login, Ordered
    <2>2. Waiting' = <<>>
      BY <1>1 DEF Login, Waiting
    <2> QED
      BY <2>1, <2>2, GrowingEmpty DEF Ordered
  <1>2. CASE Logout
    BY <1>2 DEF Logout, MemoryIsGone, Ordered
  <1>3. ASSUME NEW closing \in BOOLEAN, StoreNow(closing) PROVE Ordered'
    <2> DEFINE m == [info |-> info, high |-> TRUE, close |-> closing]
    <2>1. m \in Msg
      BY DEF Typed, TypeOK, Msg
    <2>2. Waiting' = Append(Waiting, m)
      BY <1>3, <2>1, WaitingAppend DEF StoreNow
    <2>3. \A v \in AnyChange : edit'[v] # "set"
      BY <1>3 DEF StoreNow, CanLock, Ordered
    <2>4. UNCHANGED <<info, fired>> /\ session = "in"
      BY <1>3 DEF StoreNow
    <2>5. Newest' = Newest
      BY <2>4 DEF Newest
    <2>6. ASSUME ~stale' PROVE Growing(Waiting', Newest')
      <3>1. ~stale /\ info = Newest
        BY <1>3, <2>6 DEF StoreNow
      <3>2. Growing(Waiting, info)
        BY <2>4, <3>1 DEF Ordered
      <3> QED
        BY <2>1, <2>2, <2>5, <3>1, <3>2, GrowingAppend, WaitingIs
    <2> QED
      BY <2>3, <2>6 DEF Ordered
  <1>4. ASSUME NEW p \in PageChange \cup {Nothing}, Ask(p) PROVE Ordered'
    <2>1. UNCHANGED <<session, edit, mutex, posting, stale, chan, slot, info, fired>>
      BY <1>4 DEF Ask, memory, queue
    <2>2. Waiting' = Waiting /\ Newest' = Newest
      BY <2>1 DEF Waiting, Newest
    <2> QED
      BY <2>1, <2>2, OrderedKept DEF Ordered
  <1> QED
    BY <1>1, <1>2, <1>3, <1>4 DEF User

LEMMA OrderedPage == ASSUME Typed, Ordered, Page PROVE Ordered'
  <1>a. /\ chan' = chan /\ slot' = slot /\ session' = session /\ posting' = posting
        /\ mutex' = mutex
    BY DEF Page, AskNoSave, AskSave, AskDone, SetInfo, memory, queue
  <1>b. stale => stale'
    BY DEF Page, AskNoSave, AskSave, AskDone, SetInfo, memory, Typed, TypeOK
  <1>0. Waiting' = Waiting /\ UNCHANGED <<session, posting>>
        /\ mutex' = mutex /\ (stale => stale')
    BY <1>a, <1>b DEF Waiting
  <1>1. CASE AskNoSave \/ AskSave
    <2>1. UNCHANGED <<edit, info, fired>>
      BY <1>1 DEF AskNoSave, AskSave, memory
    <2>2. Newest' = Newest
      BY <2>1 DEF Newest
    <2> QED
      BY <1>0, <2>1, <2>2, OrderedKept DEF Ordered
  <1>2. CASE AskDone
    <2>1. Newest' = data
      BY <1>2, NewestFired DEF AskDone, Typed, TypeOK
    <2>2. edit' = edit /\ (stale' \/ data.pub = Newest.pub)
      BY <1>2 DEF AskDone
    <2>3. stale' \/ Newest.pub \subseteq Newest'.pub
      BY <2>1, <2>2
    <2>4. \A u \in AnyChange : edit'[u] = "set" => edit[u] = "set" /\ mutex'
      BY <1>0, <2>2 DEF Ordered
    <2> QED
      BY <1>0, <2>3, <2>4, OrderedKept
  <1>3. CASE SetInfo
    <2>1. wanted \in AnyChange /\ asked \in Info
      BY <1>3 DEF SetInfo, Typed, TypeOK, AnyChange
    <2>2. [asked EXCEPT !.pub = @ \cup {wanted}] \in Info
      BY <2>1, InfoClosed
    <2>3. Newest' = [asked EXCEPT !.pub = @ \cup {wanted}]
      BY <1>3, <2>2, NewestFired DEF SetInfo
    <2>4. asked.pub \subseteq Newest'.pub
      BY <2>1, <2>3 DEF Info
    <2>5. stale' \/ asked = Newest
      BY <1>3 DEF SetInfo
    <2>6. \A u \in AnyChange : edit'[u] = "set" => edit[u] = "set"
      BY <1>3, <2>1 DEF SetInfo, Typed, TypeOK
    <2>7. \A u \in AnyChange : edit'[u] = "set" => edit[u] = "set" /\ mutex'
      BY <1>0, <2>6 DEF Ordered
    <2>8. stale' \/ Newest.pub \subseteq Newest'.pub
      BY <2>4, <2>5
    <2> QED
      BY <1>0, <2>7, <2>8, OrderedKept
  <1> QED
    BY <1>1, <1>2, <1>3 DEF Page

LEMMA OrderedRest ==
    ASSUME Typed, Ordered, ReadChan \/ Tick \/ Thread \/ Save \/ DiskThrows PROVE Ordered'
  <1>1. UNCHANGED <<session, edit, mutex, posting, stale, info, fired>>
    BY DEF ReadChan, Tick, Thread, TakeMsg, SaveMsg, SaveMsgDone, Save, Move, Write, Fill,
       DiskThrows, memory
  <1>2. Newest' = Newest
    BY <1>1 DEF Newest
  <1>3. Waiting' = Waiting \/ (Waiting # <<>> /\ Waiting' = Tail(Waiting))
    <2>1. CASE ReadChan
      <3>1. slot # Nothing => Waiting # <<>>
        BY WaitingIs
      <3>2. Waiting' = IF slot = Nothing THEN Waiting ELSE Tail(Waiting)
        BY <2>1, WaitingRead
      <3> QED
        BY <3>1, <3>2
    <2>2. CASE TakeMsg
      <3>1. slot # Nothing /\ slot' = Nothing /\ chan' = chan
        BY <2>2 DEF TakeMsg
      <3>2. chan \in Seq(Msg)
        BY DEF Typed, TypeOK
      <3>3. Waiting' = chan
        BY <3>1, <3>2 DEF Waiting
      <3> QED
        BY <3>1, <3>3, WaitingIs
    <2>3. CASE ~ReadChan /\ ~TakeMsg
      <3>1. chan' = chan /\ slot' = slot
        BY <2>3 DEF Tick, Thread, SaveMsg, SaveMsgDone, Save, Move, Write, Fill,
           DiskThrows, queue
      <3>2. Waiting' = Waiting
        BY <3>1 DEF Waiting
      <3> QED
        BY <3>2
    <2> QED
      BY <2>1, <2>2, <2>3
  <1> QED
    BY <1>1, <1>2, <1>3, OrderedKept DEF Ordered

-----------------------------------------------------------------------------
(* A step after which the thread has the message it had, if any.           *)
LEMMA TakenKept ==
    ASSUME Typed, Taken, stale => stale', session' = session,
           store' = "save" => UNCHANGED <<store, msg>>,
           Waiting' = Waiting \/ (Waiting # <<>> /\ Waiting' = Tail(Waiting)),
           stale' \/ Newest.pub \subseteq Newest'.pub,
           \A u \in AnyChange : edit'[u] = "set" => edit[u] = "set" /\ posting' = posting
    PROVE  Taken'
  <1> SUFFICES ASSUME ~stale', session' # "out", store' = "save"
               PROVE  /\ Before(msg', Waiting')
                      /\ msg'.pub \subseteq Newest'.pub
                      /\ \A u \in AnyChange :
                            edit'[u] = "set" => msg'.pub \subseteq posting'.pub
    BY DEF Taken
  <1>1. /\ msg' = msg /\ Before(msg, Waiting) /\ msg.pub \subseteq Newest.pub
        /\ \A u \in AnyChange : edit[u] = "set" => msg.pub \subseteq posting.pub
    BY DEF Taken
  <1>2. Before(msg, Waiting')
    BY <1>1, BeforeTail, WaitingIs
  <1> QED
    BY <1>1, <1>2

LEMMA TakenMemory == ASSUME Typed, Ordered, Taken, Memory PROVE Taken'
  <1>0. UNCHANGED <<store, msg>>
    BY DEF Memory, Deliver, Modify, Decline, ModifyThrows, Post, worker
  <1>1. CASE Deliver
    <2>1. Newest' = Newest /\ UNCHANGED <<chan, slot, stale, session, edit, posting>>
      BY <1>1, NewestDelivered DEF Deliver, queue
    <2>2. Waiting' = Waiting
      BY <2>1 DEF Waiting
    <2> QED
      BY <1>0, <2>1, <2>2, TakenKept
  <1>2. ASSUME NEW u \in Change, Modify(u) PROVE Taken'
    <2>1. Newest' = posting'
      BY <1>2, InfoClosed, NewestFired DEF Modify, Typed, TypeOK, AnyChange
    <2>2. Waiting' = Waiting /\ session' = session
      BY <1>2 DEF Modify, Waiting, queue
    <2>3. ASSUME ~stale' PROVE ~stale /\ Newest.pub \subseteq posting'.pub
      BY <1>2, <2>3 DEF Modify, Typed, TypeOK, Info
    <2> QED
      BY <1>0, <2>1, <2>2, <2>3 DEF Taken
  <1>3. ASSUME NEW u \in Change, Decline(u) \/ ModifyThrows(u) PROVE Taken'
    <2>1. UNCHANGED <<session, posting, stale, chan, slot, info, fired>>
      BY <1>3 DEF Decline, ModifyThrows, queue
    <2>2. \A v \in AnyChange : edit'[v] = "set" => edit[v] = "set"
      BY <1>3 DEF Decline, ModifyThrows, Typed, TypeOK
    <2>3. Waiting' = Waiting /\ Newest' = Newest
      BY <2>1 DEF Waiting, Newest
    <2> QED
      BY <1>0, <2>1, <2>2, <2>3, TakenKept
  <1>4. ASSUME NEW u \in Change, Post(u) PROVE Taken'
    <2> DEFINE m == [info |-> posting, high |-> FALSE, close |-> FALSE]
    <2>1. m \in Msg /\ m.info = posting
      BY DEF Typed, TypeOK, Msg
    <2>2. Waiting' = Append(Waiting, m)
      BY <1>4, <2>1, WaitingAppend DEF Post
    <2>3. edit[u] = "set" /\ u \in AnyChange
      BY <1>4 DEF Post, AnyChange
    <2>4. \A v \in AnyChange : edit'[v] # "set"
      BY <1>4, <2>3 DEF Post, Ordered, Typed, TypeOK
    <2>5. UNCHANGED <<session, stale, info, fired>>
      BY <1>4 DEF Post
    <2>6. Newest' = Newest
      BY <2>5 DEF Newest
    <2>7. ASSUME ~stale, session # "out", store = "save" PROVE Before(msg, Waiting')
      BY <2>1, <2>2, <2>3, <2>7, BeforeAppend, WaitingIs DEF Taken
    <2> QED
      BY <1>0, <2>4, <2>5, <2>6, <2>7 DEF Taken
  <1> QED
    BY <1>1, <1>2, <1>3, <1>4 DEF Memory

LEMMA TakenUser == ASSUME Typed, Ordered, Taken, User PROVE Taken'
  <1>1. CASE Login
    BY <1>1 DEF Login, Taken
  <1>2. CASE Logout
    BY <1>2 DEF Logout, MemoryIsGone, Taken
  <1>3. ASSUME NEW closing \in BOOLEAN, StoreNow(closing) PROVE Taken'
    <2> DEFINE m == [info |-> info, high |-> TRUE, close |-> closing]
    <2>1. m \in Msg /\ m.info = info
      BY DEF Typed, TypeOK, Msg
    <2>2. Waiting' = Append(Waiting, m)
      BY <1>3, <2>1, WaitingAppend DEF StoreNow
    <2>3. /\ UNCHANGED <<info, fired, store, msg, edit, posting>> /\ session = "in"
          /\ stale' = (stale \/ info # Newest)
      BY <1>3 DEF StoreNow, worker
    <2>4. Newest' = Newest
      BY <2>3 DEF Newest
    <2>5. ASSUME ~stale', store = "save" PROVE Before(msg, Waiting')
      <3>1. ~stale /\ info = Newest
        BY <2>3, <2>5
      <3>2. Before(msg, Waiting) /\ msg.pub \subseteq m.info.pub
        BY <2>1, <2>3, <2>5, <3>1 DEF Taken
      <3> QED
        BY <2>1, <2>2, <3>2, BeforeAppend, WaitingIs
    <2>6. ~stale' => ~stale
      BY <2>3
    <2> QED
      BY <2>3, <2>4, <2>5, <2>6 DEF Taken
  <1>4. ASSUME NEW p \in PageChange \cup {Nothing}, Ask(p) PROVE Taken'
    <2>1. UNCHANGED <<session, edit, posting, stale, chan, slot, info, fired, store, msg>>
      BY <1>4 DEF Ask, memory, queue, worker
    <2>2. Waiting' = Waiting /\ Newest' = Newest
      BY <2>1 DEF Waiting, Newest
    <2> QED
      BY <2>1, <2>2, TakenKept
  <1> QED
    BY <1>1, <1>2, <1>3, <1>4 DEF User

LEMMA TakenPage == ASSUME Typed, Taken, Page PROVE Taken'
  <1>1. UNCHANGED <<chan, slot, session, posting, store, msg>>
    BY DEF Page, AskNoSave, AskSave, AskDone, SetInfo, memory, queue, worker
  <1>2. stale => stale'
    BY DEF Page, AskNoSave, AskSave, AskDone, SetInfo, Typed, TypeOK
  <1>3. Waiting' = Waiting
    BY <1>1 DEF Waiting
  <1>4. \A u \in AnyChange : edit'[u] = "set" => edit[u] = "set"
    BY DEF Page, AskNoSave, AskSave, AskDone, SetInfo, memory, Typed, TypeOK
  <1>5. stale' \/ Newest.pub \subseteq Newest'.pub
    <2>1. CASE AskNoSave \/ AskSave
      <3>1. UNCHANGED <<info, fired>>
        BY <2>1 DEF AskNoSave, AskSave, memory
      <3> QED
        BY <3>1 DEF Newest
    <2>2. CASE AskDone
      <3>1. Newest' = data
        BY <2>2, NewestFired DEF AskDone, Typed, TypeOK
      <3> QED
        BY <2>2, <3>1 DEF AskDone
    <2>3. CASE SetInfo
      <3>1. wanted \in AnyChange /\ asked \in Info
        BY <2>3 DEF SetInfo, Typed, TypeOK, AnyChange
      <3>2. [asked EXCEPT !.pub = @ \cup {wanted}] \in Info
        BY <3>1, InfoClosed
      <3>3. Newest' = [asked EXCEPT !.pub = @ \cup {wanted}]
        BY <2>3, <3>2, NewestFired DEF SetInfo
      <3>4. asked.pub \subseteq Newest'.pub
        BY <3>1, <3>3 DEF Info
      <3> QED
        BY <2>3, <3>4 DEF SetInfo
    <2> QED
      BY <2>1, <2>2, <2>3 DEF Page
  <1> QED
    BY <1>1, <1>2, <1>3, <1>4, <1>5, TakenKept

LEMMA TakenRest ==
    ASSUME Typed, Ordered, Taken, ReadChan \/ Tick \/ Thread \/ Save \/ DiskThrows
    PROVE  Taken'
  <1>1. UNCHANGED <<session, edit, posting, stale, info, fired>>
    BY DEF ReadChan, Tick, Thread, TakeMsg, SaveMsg, SaveMsgDone, Save, Move, Write, Fill,
       DiskThrows, memory
  <1>2. Newest' = Newest
    BY <1>1 DEF Newest
  <1>3. CASE TakeMsg
    <2>1. slot # Nothing /\ slot' = Nothing /\ chan' = chan /\ msg' = slot.info
      BY <1>3 DEF TakeMsg
    <2>2. chan \in Seq(Msg)
      BY DEF Typed, TypeOK
    <2>3. Waiting' = chan
      BY <2>1, <2>2 DEF Waiting
    <2>4. /\ Waiting \in Seq(Msg) /\ Waiting # <<>>
          /\ Waiting' = Tail(Waiting) /\ msg' = Waiting[1].info
      BY <2>1, <2>3, WaitingIs
    <2>5. ASSUME ~stale, session # "out"
          PROVE  Before(msg', Waiting') /\ msg'.pub \subseteq Newest.pub
      <3>1. Growing(Waiting, Newest)
        BY <2>5 DEF Ordered
      <3> QED
        BY <2>4, <3>1, HeadBefore
    <2>6. ASSUME ~stale, session # "out", NEW u \in AnyChange, edit[u] = "set"
          PROVE  msg'.pub \subseteq posting.pub
      <3>1. Growing(Waiting, posting)
        BY <2>6 DEF Ordered
      <3> QED
        BY <2>4, <3>1, HeadBefore
    <2> QED
      BY <1>1, <1>2, <2>5, <2>6 DEF Taken
  <1>4. CASE ~TakeMsg
    <2>1. store' = "save" => UNCHANGED <<store, msg>>
      BY <1>4 DEF ReadChan, Tick, Thread, SaveMsg, SaveMsgDone, Save, Move, Write, Fill,
         DiskThrows, worker
    <2>2. Waiting' = Waiting \/ (Waiting # <<>> /\ Waiting' = Tail(Waiting))
      <3>1. CASE ReadChan
        BY <3>1, WaitingIs, WaitingRead
      <3>2. CASE ~ReadChan
        <4>1. chan' = chan /\ slot' = slot
          BY <1>4, <3>2 DEF Tick, Thread, SaveMsg, SaveMsgDone, Save, Move, Write, Fill,
             DiskThrows, queue
        <4> QED
          BY <4>1 DEF Waiting
      <3> QED
        BY <3>1, <3>2
    <2> QED
      BY <1>1, <1>2, <2>1, <2>2, TakenKept
  <1> QED
    BY <1>3, <1>4

LEMMA TakenStep == Typed /\ Ordered /\ Taken /\ [Next]_vars => Taken'
  <1>1. ASSUME Taken, Crash PROVE Taken'
    BY <1>1 DEF Crash, Taken
  <1>2. ASSUME Typed, Taken, UNCHANGED vars PROVE Taken'
    <2>1. UNCHANGED <<session, edit, posting, stale, chan, slot, info, fired, store, msg>>
      BY <1>2 DEF vars, memory, queue, worker
    <2>2. Waiting' = Waiting /\ Newest' = Newest
      BY <2>1 DEF Waiting, Newest
    <2> QED
      BY <1>2, <2>1, <2>2, TakenKept
  <1> QED
    BY <1>1, <1>2, TakenMemory, TakenUser, TakenPage, TakenRest DEF Next

(* The messages of the store thread are not reordered, as long as nobody   *)
(* has worked on an old info: the mutex orders them, though each is posted *)
(* after the info is set.                                                  *)
THEOREM MessagesAreOrdered == Spec => []MessagesOrdered
  <1>1. Init => Ordered /\ Taken
    BY DEF Init, Ordered, Taken
  <1>2. Typed /\ Ordered /\ [Next]_vars => Ordered'
    <2>1. ASSUME Typed, Ordered, Crash PROVE Ordered'
      BY <2>1 DEF Crash, MemoryIsGone, Ordered
    <2>2. ASSUME Typed, Ordered, UNCHANGED vars PROVE Ordered'
      <3>1. UNCHANGED <<session, edit, mutex, posting, stale, chan, slot, info, fired>>
        BY <2>2 DEF vars, memory, queue
      <3>2. Waiting' = Waiting /\ Newest' = Newest
        BY <3>1 DEF Waiting, Newest
      <3> QED
        BY <2>2, <3>1, <3>2, OrderedKept DEF Ordered
    <2> QED
      BY <2>1, <2>2, OrderedMemory, OrderedUser, OrderedPage, OrderedRest DEF Next
  <1>3. Typed /\ Ordered /\ Taken => MessagesOrdered
    BY DEF Ordered, Taken, MessagesOrdered, Growing, Before
  <1> QED
    BY <1>1, <1>2, <1>3, TypedInit, TypedStep, TakenStep, PTL DEF Spec
=============================================================================
