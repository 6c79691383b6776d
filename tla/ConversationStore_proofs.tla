---------------------- MODULE ConversationStore_proofs ----------------------
(***************************************************************************)
(* Proofs about the conversation store, for every number of sessions and   *)
(* every interleaving of syncs with failing calls, kills and power losses. *)
(***************************************************************************)
EXTENDS ConversationStore, TLAPS

-----------------------------------------------------------------------------
\* The invariant

Syncing == step \notin Resting \cup {"down"}

\* The steps of write() and remove() belong to the session the loop is at.
AtWork ==
  /\ step \in Resting \cup {"down"} => pass = 1 /\ at = 1
  /\ step \in {"created", "written", "flushed", "renamed"} =>
       at \in Session /\ pass = 1 /\ index[at] \in Contents
  /\ step = "removed" =>
       at \in Session /\ ((pass = 1 /\ index[at] = Empty) \/ (pass = 2 /\ index[at] = Absent))
  /\ step = "renamed" => file[at] = index[at]
  /\ step = "removed" => file[at] = Absent

Whole == \A s \in Session : file[s] # Torn /\ Torn \notin survivors[s]

\* What this sync has written stays as it is until the sync ends.
WrittenStays ==
  /\ step \in {"editing", "failed", "down"} => written = {}
  /\ \A s \in written :
       /\ file[s] = index[s] /\ index[s] \in Contents /\ survivors[s] = {index[s]}
       /\ Syncing => pass = 2 \/ s < at

\* The session is behind the loop of this sync that decides about it.
Handled(s) ==
  \/ pass = 1 /\ s < at /\ index[s] # Absent
  \/ pass = 2 /\ (index[s] # Absent \/ s < at)

\* Without an interruption only the entry being replaced is not on the disk.
Settled ==
  ~interrupted =>
    \A s \in Session : survivors[s] = {file[s]} \/ (step \in {"renamed", "removed"} /\ s = at)

\* Without an interruption each file is what was saved until the loop has decided
\* about it and what is indexed from then on.
Agreed ==
  ~interrupted /\ step # "down" =>
    \A s \in Session :
      /\ step \in Resting => file[s] \in {Foreign, saved[s]}
      /\ Syncing /\ Handled(s) => file[s] \in {Foreign, Stored(index[s])}
      /\ Syncing /\ ~Handled(s) =>
           file[s] \in {Foreign, saved[s]} \/ (step \in {"renamed", "removed"} /\ s = at)

OkIsSaved == step = "ok" => \A s \in Session : saved[s] = Stored(index[s])

StoreInv ==
  TypeOK /\ AtWork /\ Whole /\ WrittenStays /\ Settled /\ Agreed /\ OkIsSaved /\ OldOrNew

-----------------------------------------------------------------------------
\* What every step keeps

USE StoreAssumption
USE DEF Session, Resting, Contents, Absent, Empty, Foreign, Torn, Stored, Syncing, Handled,
        memory, disk, loop

\* The server changes its indexes and starts a sync: what was saved is on the disk, so
\* every session is still to be decided about.
LEMMA EditingKeeps ==
  ASSUME StoreInv, (\E s \in Session : Edit(s)) \/ CreateSession \/ BeginSync
  PROVE  StoreInv'
PROOF
  <1> USE DEF Edit, CreateSession, BeginSync
  <1>1. TypeOK' /\ AtWork'
    <2>1. ASSUME NEW s \in Session, Edit(s) PROVE TypeOK' /\ AtWork'
      BY <2>1 DEF StoreInv, TypeOK, AtWork
    <2>2. CASE CreateSession
      BY <2>2 DEF StoreInv, TypeOK, AtWork
    <2>3. CASE BeginSync
      BY <2>3 DEF StoreInv, TypeOK, AtWork
    <2> QED
      BY <2>1, <2>2, <2>3
  <1>2. Whole'
    BY DEF StoreInv, TypeOK, AtWork, Whole
  <1>3. WrittenStays'
    <2>1. ASSUME NEW s \in Session, Edit(s) PROVE WrittenStays'
      BY <2>1 DEF StoreInv, TypeOK, AtWork, WrittenStays
    <2>2. CASE CreateSession
      BY <2>2 DEF StoreInv, TypeOK, AtWork, WrittenStays
    <2>3. CASE BeginSync
      BY <2>3 DEF StoreInv, TypeOK, AtWork, WrittenStays
    <2> QED
      BY <2>1, <2>2, <2>3
  <1>4. Settled'
    BY DEF StoreInv, TypeOK, AtWork, Settled
  <1>5. Agreed' /\ OkIsSaved'
    BY DEF StoreInv, TypeOK, AtWork, Whole, Settled, Agreed, OkIsSaved
  <1>6. OldOrNew'
    BY DEF StoreInv, TypeOK, AtWork, Whole, Settled, Agreed, OkIsSaved, OldOrNew
  <1> QED
    BY <1>1, <1>2, <1>3, <1>4, <1>5, <1>6 DEF StoreInv

\* The loops of sync() pass over sessions whose file is right already.
LEMMA LoopKeeps ==
  ASSUME StoreInv, Skip \/ NextPass \/ EndSync
  PROVE  StoreInv'
PROOF
  <1> USE DEF Skip, NextPass, EndSync, Visiting, Onwards, Return, MustWrite, MustRemove,
             HeldNothing, Orphaned
  <1>1. TypeOK' /\ AtWork'
    <2>1. CASE Skip
      BY <2>1 DEF StoreInv, TypeOK, AtWork
    <2>2. CASE NextPass
      BY <2>2 DEF StoreInv, TypeOK, AtWork
    <2>3. CASE EndSync
      BY <2>3 DEF StoreInv, TypeOK, AtWork
    <2> QED
      BY <2>1, <2>2, <2>3
  <1>2. Whole'
    BY DEF StoreInv, TypeOK, AtWork, Whole
  <1>3. WrittenStays'
    <2>1. CASE Skip
      BY <2>1 DEF StoreInv, TypeOK, AtWork, WrittenStays
    <2>2. CASE NextPass
      BY <2>2 DEF StoreInv, TypeOK, AtWork, WrittenStays
    <2>3. CASE EndSync
      BY <2>3 DEF StoreInv, TypeOK, AtWork, WrittenStays
    <2> QED
      BY <2>1, <2>2, <2>3
  <1>4. Settled'
    BY DEF StoreInv, TypeOK, AtWork, Settled
  <1>5. Agreed' /\ OkIsSaved'
    BY DEF StoreInv, TypeOK, AtWork, Whole, Settled, Agreed, OkIsSaved
  <1>6. OldOrNew'
    BY DEF StoreInv, TypeOK, AtWork, Whole, Settled, Agreed, OkIsSaved, OldOrNew
  <1> QED
    BY <1>1, <1>2, <1>3, <1>4, <1>5, <1>6 DEF StoreInv

\* The temporary file concerns no index.
LEMMA TemporaryKeeps ==
  ASSUME StoreInv, CreateTemporary \/ FillTemporary
  PROVE  StoreInv'
PROOF
  <1> USE DEF CreateTemporary, FillTemporary, MustWrite, Visiting, AfterStep
  <1>1. TypeOK' /\ AtWork'
    <2>1. CASE CreateTemporary
      BY <2>1 DEF StoreInv, TypeOK, AtWork
    <2>2. CASE FillTemporary
      BY <2>2 DEF StoreInv, TypeOK, AtWork
    <2> QED
      BY <2>1, <2>2
  <1>2. Whole'
    BY DEF StoreInv, TypeOK, AtWork, Whole
  <1>3. WrittenStays'
    <2>1. CASE CreateTemporary
      BY <2>1 DEF StoreInv, TypeOK, AtWork, WrittenStays
    <2>2. CASE FillTemporary
      BY <2>2 DEF StoreInv, TypeOK, AtWork, WrittenStays
    <2> QED
      BY <2>1, <2>2
  <1>4. Settled'
    BY DEF StoreInv, TypeOK, AtWork, Settled
  <1>5. Agreed' /\ OkIsSaved'
    BY DEF StoreInv, TypeOK, AtWork, Whole, Settled, Agreed, OkIsSaved
  <1>6. OldOrNew'
    BY DEF StoreInv, TypeOK, AtWork, Whole, Settled, Agreed, OkIsSaved, OldOrNew
  <1> QED
    BY <1>1, <1>2, <1>3, <1>4, <1>5, <1>6 DEF StoreInv

\* Replacing an entry leaves the old or the new index to a power loss.
LEMMA ReplacingKeeps ==
  ASSUME StoreInv, Rename \/ RemoveFile
  PROVE  StoreInv'
PROOF
  <1> USE DEF Rename, RemoveFile, Renameable, Replaced, MustRemove, HeldNothing, Orphaned, Visiting
  <1>1. TypeOK' /\ AtWork'
    <2>1. CASE Rename
      BY <2>1 DEF StoreInv, TypeOK, AtWork
    <2>2. CASE RemoveFile
      BY <2>2 DEF StoreInv, TypeOK, AtWork
    <2> QED
      BY <2>1, <2>2
  <1>2. Whole'
    BY DEF StoreInv, TypeOK, AtWork, Whole
  <1>3. WrittenStays'
    <2>1. CASE Rename
      BY <2>1 DEF StoreInv, TypeOK, AtWork, WrittenStays
    <2>2. CASE RemoveFile
      BY <2>2 DEF StoreInv, TypeOK, AtWork, WrittenStays
    <2> QED
      BY <2>1, <2>2
  <1>4. Settled'
    BY DEF StoreInv, TypeOK, AtWork, Settled
  <1>5. Agreed' /\ OkIsSaved'
    BY DEF StoreInv, TypeOK, AtWork, Whole, Settled, Agreed, OkIsSaved
  <1>6. OldOrNew'
    BY DEF StoreInv, TypeOK, AtWork, Whole, Settled, Agreed, OkIsSaved, OldOrNew
  <1> QED
    BY <1>1, <1>2, <1>3, <1>4, <1>5, <1>6 DEF StoreInv

\* Once the directory is flushed the loop has decided about the session.
LEMMA FlushingKeeps ==
  ASSUME StoreInv, FlushRename \/ FlushRemoval \/ NothingToRemove
  PROVE  StoreInv'
PROOF
  <1> USE DEF FlushRename, FlushRemoval, NothingToRemove, Flushed, Onwards, MustRemove,
              HeldNothing, Orphaned, Visiting
  <1>1. TypeOK' /\ AtWork'
    <2>1. CASE FlushRename
      BY <2>1 DEF StoreInv, TypeOK, AtWork
    <2>2. CASE FlushRemoval
      BY <2>2 DEF StoreInv, TypeOK, AtWork
    <2>3. CASE NothingToRemove
      BY <2>3 DEF StoreInv, TypeOK, AtWork
    <2> QED
      BY <2>1, <2>2, <2>3
  <1>2. Whole'
    BY DEF StoreInv, TypeOK, AtWork, Whole
  <1>3. WrittenStays'
    <2>1. CASE FlushRename
      BY <2>1 DEF StoreInv, TypeOK, AtWork, WrittenStays
    <2>2. CASE FlushRemoval
      BY <2>2 DEF StoreInv, TypeOK, AtWork, WrittenStays
    <2>3. CASE NothingToRemove
      BY <2>3 DEF StoreInv, TypeOK, AtWork, WrittenStays
    <2> QED
      BY <2>1, <2>2, <2>3
  <1>4. Settled'
    BY DEF StoreInv, TypeOK, AtWork, Settled
  <1>5. Agreed' /\ OkIsSaved'
    BY DEF StoreInv, TypeOK, AtWork, Whole, Settled, Agreed, OkIsSaved
  <1>6. OldOrNew'
    BY DEF StoreInv, TypeOK, AtWork, Whole, Settled, Agreed, OkIsSaved, OldOrNew
  <1> QED
    BY <1>1, <1>2, <1>3, <1>4, <1>5, <1>6 DEF StoreInv

\* A failure or a kill that leaves an entry unflushed is remembered as an interruption.
LEMMA InterruptionKeeps ==
  ASSUME StoreInv, Fail \/ Kill
  PROVE  StoreInv'
PROOF
  <1> USE DEF Fail, Kill, Gone, Return
  <1>1. TypeOK' /\ AtWork'
    <2>1. CASE Fail
      BY <2>1 DEF StoreInv, TypeOK, AtWork
    <2>2. CASE Kill
      BY <2>2 DEF StoreInv, TypeOK, AtWork
    <2> QED
      BY <2>1, <2>2
  <1>2. Whole'
    BY DEF StoreInv, TypeOK, AtWork, Whole
  <1>3. WrittenStays'
    <2>1. CASE Fail
      BY <2>1 DEF StoreInv, TypeOK, AtWork, WrittenStays
    <2>2. CASE Kill
      BY <2>2 DEF StoreInv, TypeOK, AtWork, WrittenStays
    <2> QED
      BY <2>1, <2>2
  <1>4. Settled'
    BY DEF StoreInv, TypeOK, AtWork, Settled
  <1>5. Agreed' /\ OkIsSaved'
    BY DEF StoreInv, TypeOK, AtWork, Whole, Settled, Agreed, OkIsSaved
  <1>6. OldOrNew'
    BY DEF StoreInv, TypeOK, AtWork, Whole, Settled, Agreed, OkIsSaved, OldOrNew
  <1> QED
    BY <1>1, <1>2, <1>3, <1>4, <1>5, <1>6 DEF StoreInv

\* A power loss picks one of the survivors and leaves nothing unflushed.
LEMMA PowerLossKeeps ==
  ASSUME StoreInv, PowerLoss PROVE StoreInv'
PROOF
  <1> USE DEF PowerLoss, Gone, Return
  <1> DEFINE Files == Contents \cup {Absent, Foreign, Torn}
  <1>1. PICK f \in [Session -> UNION {survivors[s] : s \in Session}] :
          /\ \A s \in Session : f[s] \in survivors[s]
          /\ file' = f
          /\ survivors' = [s \in Session |-> {f[s]}]
    OBVIOUS
  <1>2. file' \in [Session -> Files] /\ survivors' \in [Session -> SUBSET Files]
    <2>1. f \in [Session -> Files]
      <3>1. \A s \in Session : f[s] \in Files
        BY <1>1 DEF StoreInv, TypeOK
      <3>2. DOMAIN f = Session /\ f = [s \in Session |-> f[s]]
        BY <1>1
      <3> QED
        BY <3>1, <3>2
    <2> QED
      BY <1>1, <2>1
  <1>3. TypeOK' /\ AtWork'
    <2>1. /\ index' \in [Session -> Contents \cup {Empty, Absent}]
          /\ saved' \in [Session -> Contents \cup {Absent}]
          /\ nextSession' \in 1 .. MaxSession + 1 /\ at' \in 1 .. MaxSession + 1
      OBVIOUS
    <2>2. step' = "down" /\ pass' = 1 /\ at' = 1 /\ written' = {} /\ interrupted' = FALSE
      OBVIOUS
    <2> HIDE DEF PowerLoss, Gone, Return
    <2> QED
      BY <1>2, <2>1, <2>2 DEF TypeOK, AtWork
  <1>4. Whole' /\ Settled'
    BY <1>1 DEF StoreInv, Whole, Settled
  <1>5. WrittenStays' /\ Agreed' /\ OkIsSaved' /\ OldOrNew'
    BY DEF WrittenStays, Agreed, OkIsSaved, OldOrNew
  <1> QED
    BY <1>3, <1>4, <1>5 DEF StoreInv

\* A start takes what it can read for what was saved.
LEMMA OpenKeeps ==
  ASSUME StoreInv, Open PROVE StoreInv'
PROOF
  <1> USE DEF Open
  <1>1. TypeOK' /\ AtWork'
    BY DEF StoreInv, TypeOK, AtWork
  <1>2. Whole' /\ Settled'
    BY DEF StoreInv, Whole, Settled
  <1>3. \A s \in Session : file'[s] \in {Foreign, saved'[s]}
    BY DEF StoreInv, TypeOK, Whole
  <1>4. WrittenStays' /\ Agreed' /\ OkIsSaved'
    BY <1>3 DEF StoreInv, WrittenStays, Agreed, OkIsSaved
  <1>5. OldOrNew'
    BY <1>3 DEF StoreInv, Settled, OldOrNew
  <1> QED
    BY <1>1, <1>2, <1>4, <1>5 DEF StoreInv

\* Whatever files the first start finds, all of them are on the disk.
LEMMA InitStore == Init => StoreInv
PROOF
  <1> SUFFICES ASSUME Init PROVE StoreInv
    OBVIOUS
  <1> USE DEF Init
  <1>1. TypeOK /\ AtWork
    <2>1. /\ file \in [Session -> Contents \cup {Absent, Foreign, Torn}]
          /\ survivors \in [Session -> SUBSET (Contents \cup {Absent, Foreign, Torn})]
      <3>1. \A s \in Session : file[s] \in Contents \cup {Absent, Foreign, Torn}
        OBVIOUS
      <3>2. file = [s \in Session |-> file[s]]
        OBVIOUS
      <3> QED
        BY <3>1, <3>2
    <2>2. /\ index \in [Session -> Contents \cup {Empty, Absent}]
          /\ saved \in [Session -> Contents \cup {Absent}]
          /\ nextSession \in 1 .. MaxSession + 1 /\ at \in 1 .. MaxSession + 1
      OBVIOUS
    <2>3. step = "down" /\ pass = 1 /\ at = 1 /\ written = {} /\ interrupted = FALSE
      OBVIOUS
    <2> HIDE DEF Init
    <2> QED
      BY <2>1, <2>2, <2>3 DEF TypeOK, AtWork
  <1>2. Whole /\ Settled
    BY DEF Whole, Settled
  <1>3. WrittenStays /\ Agreed /\ OkIsSaved /\ OldOrNew
    BY DEF WrittenStays, Agreed, OkIsSaved, OldOrNew
  <1> QED
    BY <1>1, <1>2, <1>3 DEF StoreInv

\* Every step keeps the invariant.
LEMMA StoreInvInductive == StoreInv /\ [Next]_vars => StoreInv'
PROOF
  <1> SUFFICES ASSUME StoreInv, [Next]_vars PROVE StoreInv'
    OBVIOUS
  <1>1. CASE UNCHANGED vars
    BY <1>1 DEF vars, StoreInv, TypeOK, AtWork, Whole, WrittenStays, Settled, Agreed,
                OkIsSaved, OldOrNew
  <1>2. CASE Sync
    BY <1>2, EditingKeeps, LoopKeeps, TemporaryKeeps, ReplacingKeeps, FlushingKeeps,
       InterruptionKeeps DEF Sync
  <1> QED
    BY <1>1, <1>2, EditingKeeps, InterruptionKeeps, PowerLossKeeps, OpenKeeps DEF Next

\* So it always holds.
LEMMA StoreInvHolds == Spec => []StoreInv
  BY InitStore, StoreInvInductive, PTL DEF Spec

-----------------------------------------------------------------------------
\* The theorems

\* Indexes, files and the memory of what was saved keep their types
\* (ConversationStore's fields and the directory's entries).
THEOREM StoreTypeCorrect == Spec => []TypeOK
PROOF
  <1>1. StoreInv => TypeOK
    BY DEF StoreInv
  <1> QED
    BY <1>1, StoreInvHolds, PTL

\* No kill, failure or power loss leaves an index file without its contents (write()
\* flushes the temporary file before the rename).
THEOREM FilesStayWhole == Spec => []FilesAreWhole
PROOF
  <1>1. StoreInv => FilesAreWhole
    BY DEF StoreInv, Whole, FilesAreWhole
  <1> QED
    BY <1>1, StoreInvHolds, PTL

\* Whatever stops an uninterrupted store's sync, each session is left with the index of
\* before or the new one.
THEOREM NeverInBetween == Spec => []OldOrNew
PROOF
  <1>1. StoreInv => OldOrNew
    BY DEF StoreInv
  <1> QED
    BY <1>1, StoreInvHolds, PTL

\* What a successful sync has written survives a power loss, even after an
\* interruption (write() flushes the directory).
THEOREM WritesAreDurable == Spec => []WrittenIsDurable
PROOF
  <1>1. StoreInv => WrittenIsDurable
    BY DEF StoreInv, WrittenStays, WrittenIsDurable
  <1> QED
    BY <1>1, StoreInvHolds, PTL

\* A sync that succeeds, with none cut short before it, is what the next open() reads:
\* the comparison with the copy in memory skips no write and no removal (sync()).
THEOREM SyncsAreRestored == Spec => []UninterruptedSyncIsRestored
PROOF
  <1>1. StoreInv => UninterruptedSyncIsRestored
    BY DEF StoreInv, Settled, Agreed, OkIsSaved, UninterruptedSyncIsRestored
  <1> QED
    BY <1>1, StoreInvHolds, PTL

\* Nothing but its own index is put in a session's file, and a file is removed only
\* when its session keeps nothing (write() and remove()).
THEOREM FilesFollow == Spec => FilesFollowTheIndexes
PROOF
  <1> DEFINE Follow == step' # "down" => \A s \in Session : file'[s] \in {file[s], Stored(index[s])}
  <1>1. StoreInv /\ [Next]_vars => [Follow]_vars
    <2> SUFFICES ASSUME StoreInv, Next PROVE Follow
      BY DEF vars
    <2>1. CASE UNCHANGED file
      BY <2>1
    <2>2. CASE Rename
      BY <2>2 DEF StoreInv, TypeOK, AtWork, Rename, Renameable, Replaced
    <2>3. CASE RemoveFile
      BY <2>3 DEF StoreInv, TypeOK, AtWork, RemoveFile, Replaced, MustRemove, HeldNothing,
                  Orphaned, Visiting
    <2>4. CASE PowerLoss
      BY <2>4 DEF PowerLoss, Gone, Return
    <2> QED
      BY <2>1, <2>2, <2>3, <2>4
         DEF Next, Sync, Edit, CreateSession, BeginSync, Skip, CreateTemporary, FillTemporary,
             FlushRename, NothingToRemove, FlushRemoval, NextPass, EndSync, Fail, Kill, Open
  <1> QED
    BY <1>1, StoreInvHolds, PTL DEF Spec, FilesFollowTheIndexes

=============================================================================
