------------------------- MODULE ConversationStore -------------------------
(***************************************************************************)
(* How the conversation index of every session reaches the disk            *)
(* (ConversationStore in conversation_store.rs): one file per session,     *)
(* replaced by writing a temporary file, flushing it and renaming it, and  *)
(* a copy in memory of what was saved, which decides what to write.        *)
(*                                                                         *)
(* Any call of the file system may fail, the process may be killed at any  *)
(* point and the machine may lose power.  A change of the directory that   *)
(* has not been flushed may or may not survive that.                       *)
(*                                                                         *)
(* An index is seen through one conversation, which an agent holds         *)
(* ("active") or the session has archived ("archived").  Temporary files   *)
(* never count: open() reads no file with their extension.                 *)
(***************************************************************************)
EXTENDS Naturals

CONSTANT MaxSession  \* bound: session identifiers

ASSUME StoreAssumption == MaxSession \in Nat

Session == 1 .. MaxSession
Contents == {"active", "archived"}
\* A session without an index file or without a runtime; a runtime that holds nothing.
Absent == "absent"
Empty == "empty"
\* A file another version wrote, and one whose contents did not survive a power loss.
Foreign == "foreign"
Torn == "torn"

VARIABLES
  index,        \* SessionRuntime::conversation_index() of the running sessions
  nextSession,  \* Server::next_session_id
  saved,        \* ConversationStore::saved
  file,         \* the index files as the file system shows them
  survivors,    \* what a power loss may leave of each file
  step,         \* where sync() is, or what became of it
  pass, at,     \* the loop of sync() and the session it is about
  written,      \* history: sessions whose file this sync has written
  interrupted   \* history: a sync failed or was killed since the last power loss

memory == <<index, nextSession>>
disk == <<file, survivors>>
loop == <<pass, at>>
vars == <<memory, saved, disk, step, loop, written, interrupted>>

Resting == {"editing", "ok", "failed"}
\* The steps of write() up to the flushed temporary file.
AfterStep == [created |-> "written", written |-> "flushed"]

StoredEvenEmpty(i) == i
\* sync() keeps no file for a session that holds nothing.
Stored(i) == IF i = Empty THEN Absent ELSE i
\* restored_conversations(): an agent's conversation may lack the identity or the title
\* without which it cannot be resumed.
Restored(i) == IF i = "active" THEN {Empty, "archived"} ELSE {i}

-----------------------------------------------------------------------------
\* The server between two syncs

Edit(s) ==
  /\ step \in Resting /\ index[s] # Absent
  /\ step' = "editing"
  /\ \E i \in Contents \cup {Empty, Absent} : index' = [index EXCEPT ![s] = i]
  /\ written' = {}
  /\ UNCHANGED <<nextSession, saved, disk, loop, interrupted>>

CreateSession ==
  /\ step \in Resting /\ nextSession \in Session
  /\ step' = "editing"
  /\ index' = [index EXCEPT ![nextSession] = Empty]
  /\ nextSession' = nextSession + 1
  /\ written' = {}
  /\ UNCHANGED <<saved, disk, loop, interrupted>>

-----------------------------------------------------------------------------
\* sync()

BeginSync ==
  /\ step \in Resting
  /\ step' = "next"
  /\ written' = {}
  /\ UNCHANGED <<memory, saved, disk, loop, interrupted>>

Visiting(p) == step = "next" /\ pass = p /\ at \in Session
Onwards == step' = "next" /\ at' = at + 1 /\ UNCHANGED pass
Return(result) == step' = result /\ pass' = 1 /\ at' = 1

\* The first loop removes an index that holds nothing and writes one that has
\* changed; the second removes what is saved of sessions that are gone.
WritesOnce == Visiting(1) /\ index[at] \in Contents /\ saved[at] = Absent
MustWrite == Visiting(1) /\ index[at] \in Contents /\ saved[at] # index[at]
HeldNothing == Visiting(1) /\ index[at] = Empty
EveryIndexSaved == Visiting(2) /\ saved[at] # Absent
Orphaned == Visiting(2) /\ saved[at] # Absent /\ index[at] = Absent
MustRemove == HeldNothing \/ Orphaned

Skip ==
  /\ Visiting(pass) /\ ~MustWrite /\ ~MustRemove
  /\ Onwards
  /\ UNCHANGED <<memory, saved, disk, written, interrupted>>

CreateTemporary ==
  /\ MustWrite
  /\ step' = "created"
  /\ UNCHANGED <<memory, saved, disk, loop, written, interrupted>>

FillTemporary ==
  /\ step \in DOMAIN AfterStep
  /\ step' = AfterStep[step]
  /\ UNCHANGED <<memory, saved, disk, loop, written, interrupted>>

FlushedOrNot == step \in {"written", "flushed"}
Renameable == step = "flushed"

\* The directory entry becomes file s with contents f; fully is what a power loss leaves.
Replaced(s, f, fully) ==
  /\ file' = [file EXCEPT ![s] = f]
  /\ survivors' = [survivors EXCEPT ![s] = @ \cup {fully}]

Rename ==
  /\ Renameable
  /\ Replaced(at, index[at], IF step = "flushed" THEN index[at] ELSE Torn)
  /\ step' = "renamed"
  /\ UNCHANGED <<memory, saved, loop, written, interrupted>>

\* sync_directory: what the file system shows is what a power loss leaves.
NothingFlushed == UNCHANGED survivors
Flushed == survivors' = [s \in Session |-> {file[s]}]

FlushRename ==
  /\ step = "renamed"
  /\ Flushed
  /\ written' = written \cup {at}
  /\ Onwards
  /\ UNCHANGED <<memory, saved, file, interrupted>>

RemoveFile ==
  /\ MustRemove /\ file[at] # Absent
  /\ Replaced(at, Absent, Absent)
  /\ step' = "removed"
  /\ UNCHANGED <<memory, saved, loop, written, interrupted>>

\* remove() is content when there was no file, and then flushes nothing.
NothingToRemove ==
  /\ MustRemove /\ file[at] = Absent
  /\ saved' = [saved EXCEPT ![at] = Absent]
  /\ Onwards
  /\ UNCHANGED <<memory, disk, written, interrupted>>

FlushRemoval ==
  /\ step = "removed"
  /\ Flushed
  /\ saved' = [saved EXCEPT ![at] = Absent]
  /\ Onwards
  /\ UNCHANGED <<memory, file, written, interrupted>>

NextPass ==
  /\ step = "next" /\ at \notin Session /\ pass = 1
  /\ pass' = 2 /\ at' = 1
  /\ UNCHANGED <<memory, saved, disk, step, written, interrupted>>

EndSync ==
  /\ step = "next" /\ at \notin Session /\ pass = 2
  /\ Return("ok")
  /\ saved' = [s \in Session |-> Stored(index[s])]
  /\ UNCHANGED <<memory, disk, written, interrupted>>

\* A call fails: the temporary file is removed and sync() returns at once.
Fail ==
  /\ MustWrite \/ MustRemove \/ step \in {"created", "written", "flushed", "renamed", "removed"}
  /\ Return("failed")
  /\ interrupted' = TRUE /\ written' = {}
  /\ UNCHANGED <<memory, saved, disk>>

-----------------------------------------------------------------------------
\* The process and the machine

Gone ==
  /\ step # "down" /\ Return("down")
  /\ index' = [s \in Session |-> Absent] /\ saved' = [s \in Session |-> Absent]
  /\ nextSession' = 1 /\ written' = {}

Kill ==
  /\ Gone
  /\ interrupted' = (interrupted \/ step \in {"renamed", "removed"})
  /\ UNCHANGED disk

PowerLoss ==
  /\ Gone
  /\ \E f \in [Session -> UNION {survivors[s] : s \in Session}] :
       /\ \A s \in Session : f[s] \in survivors[s]
       /\ file' = f
       /\ survivors' = [s \in Session |-> {f[s]}]
  /\ interrupted' = FALSE

\* open() and Server::new: what cannot be read is ignored.
Open ==
  /\ step = "down" /\ step' = "editing"
  /\ saved' = [s \in Session |-> IF file[s] \in Contents THEN file[s] ELSE Absent]
  /\ index' \in [Session -> Contents \cup {Empty, Absent}]
  /\ \A s \in Session : index'[s] \in Restored(saved'[s])
  /\ nextSession' \in {n \in 1 .. MaxSession + 1 :
       /\ \A s \in Session : saved'[s] # Absent => s < n
       /\ n = 1 \/ saved'[n - 1] # Absent}
  /\ UNCHANGED <<disk, loop, written, interrupted>>

-----------------------------------------------------------------------------
Init ==
  /\ step = "down"
  /\ index = [s \in Session |-> Absent] /\ saved = [s \in Session |-> Absent]
  /\ nextSession = 1
  /\ file \in [Session -> {Absent, Foreign}]
  /\ survivors = [s \in Session |-> {file[s]}]
  /\ pass = 1 /\ at = 1 /\ written = {}
  /\ interrupted = FALSE

Sync == BeginSync \/ Skip \/ CreateTemporary \/ FillTemporary \/ Rename \/ FlushRename
          \/ RemoveFile \/ NothingToRemove \/ FlushRemoval \/ NextPass \/ EndSync \/ Fail

Next == (\E s \in Session : Edit(s)) \/ CreateSession \/ Sync \/ Kill \/ PowerLoss \/ Open

Spec == Init /\ [][Next]_vars

-----------------------------------------------------------------------------
\* Properties

\* Indexes, files and the memory of what was saved hold what their types allow.
TypeOK ==
  /\ index \in [Session -> Contents \cup {Empty, Absent}]
  /\ saved \in [Session -> Contents \cup {Absent}]
  /\ nextSession \in 1 .. MaxSession + 1
  /\ file \in [Session -> Contents \cup {Absent, Foreign, Torn}]
  /\ survivors \in [Session -> SUBSET (Contents \cup {Absent, Foreign, Torn})]
  /\ step \in Resting \cup {"down", "next", "created", "written", "flushed", "renamed", "removed"}
  /\ pass \in {1, 2} /\ at \in 1 .. MaxSession + 1
  /\ written \subseteq Session
  /\ interrupted \in BOOLEAN

\* No kill, failure or power loss leaves an index file with half its contents: write()
\* flushes the temporary file before it takes the index's name.
FilesAreWhole == \A s \in Session : Torn \notin survivors[s]

\* Whatever stops a sync, each session is left with the index of before or the new
\* one, as long as no earlier sync was cut short.
OldOrNew ==
  ~interrupted /\ step # "down" =>
    \A s \in Session : survivors[s] \subseteq {Foreign, saved[s], Stored(index[s])}

\* A file that a successful sync has written survives a power loss.
WrittenIsDurable ==
  step = "ok" => \A s \in written : survivors[s] = {index[s]}

\* Nothing but the index of the session is put in its file, and a file is removed only
\* when its session has nothing to keep.
FilesFollowTheIndexes ==
  [][step' # "down" => \A s \in Session : file'[s] \in {file[s], Stored(index[s])}]_vars

\* What a successful sync was given is what the next open() restores, as the test
\* atomically_round_trips_private_session_indexes_and_removes_empty_ones expects, as
\* long as no earlier sync was cut short.
UninterruptedSyncIsRestored ==
  step = "ok" /\ ~interrupted =>
    \A s \in Session : file[s] # Foreign => survivors[s] = {Stored(index[s])}

\* The same of every sync that succeeds.
SyncIsRestored ==
  step = "ok" => \A s \in Session : file[s] # Foreign => file[s] = Stored(index[s])

=============================================================================
