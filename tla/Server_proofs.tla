--------------------------- MODULE Server_proofs ---------------------------
(***************************************************************************)
(* Proofs about the server's coordinator, for every number of connections, *)
(* sessions, tokens, starts and queued inputs and every set of             *)
(* conversations.                                                          *)
(***************************************************************************)
EXTENDS Server, SequenceTheorems, TLAPS

-----------------------------------------------------------------------------
\* Inputs

\* What the coordinator finds at the head of its queue is an input of one of the kinds
\* above, and what is left of the queue is a queue within its bound.
LEMMA InboxHead ==
  ASSUME inbox \in Seq(Input), Len(inbox) <= InboxCapacity, inbox # <<>>
  PROVE  /\ Head(inbox) \in Input
         /\ Tail(inbox) \in Seq(Input) /\ Len(Tail(inbox)) <= InboxCapacity
PROOF
  <1>1. /\ Head(inbox) \in Input /\ Tail(inbox) \in Seq(Input)
        /\ Len(Tail(inbox)) = Len(inbox) - 1
    BY HeadTailProperties
  <1> QED
    BY <1>1, ServerAssumption

\* Every input names a connection, and the fields its kind has are of their types.
LEMMA InputFields ==
  ASSUME NEW r \in Input
  PROVE  /\ r.conn \in Connection
         /\ r.type = "hello" => r.role \in {"interactive", "control"}
         /\ r.type \in {"attach", "stopSession"} => r.session \in Session
         /\ r.type \in {"close", "archive", "resume"} => r.conversation \in Conversation
  BY DEF Input

\* A client's request keeps the queue a queue of inputs within its bound.
LEMMA SendType ==
  ASSUME TypeOK, NEW r \in Input, Send(r)
  PROVE  inbox' \in Seq(Input) /\ Len(inbox') <= InboxCapacity
PROOF
  <1>1. inbox' = Append(inbox, r) /\ Len(inbox) < InboxCapacity /\ inbox \in Seq(Input)
    BY DEF Send, InboxHasRoom, TypeOK
  <1>2. inbox' \in Seq(Input) /\ Len(inbox') = Len(inbox) + 1
    BY <1>1, AppendProperties
  <1>3. Len(inbox) \in Nat
    BY <1>1, LenProperties
  <1> QED
    BY <1>1, <1>2, <1>3, ServerAssumption

-----------------------------------------------------------------------------
\* Type correctness

\* The index written to disk has the type of the files.
LEMMA IndexType ==
  ASSUME TypeOK
  PROVE  Index \in [Session -> [kept : SUBSET Conversation, noted : SUBSET Conversation]]
  BY DEF TypeOK, Index, Kept, Noted, NoIndex

\* The first state is well typed.
LEMMA InitType == Init => TypeOK
PROOF
  <1> SUFFICES ASSUME Init PROVE TypeOK
    OBVIOUS
  <1>1. inbox \in Seq(Input) /\ Len(inbox) <= InboxCapacity
    BY ServerAssumption DEF Init
  <1>2. NoLease \in Lease
    BY DEF NoLease, Lease, None
  <1>3. NoIndex \in [kept : SUBSET Conversation, noted : SUBSET Conversation]
    BY DEF NoIndex
  <1>4. saved \in [Session -> [kept : SUBSET Conversation, noted : SUBSET Conversation]]
    BY <1>3 DEF Init
  <1>5. /\ lease \in [Session -> Lease]
        /\ attached \in [Connection -> Session \cup {None}]
        /\ token \in [Connection -> Nat]
    <2>1. lease \in [Session -> Lease]
      BY <1>2 DEF Init
    <2>2. attached \in [Connection -> Session \cup {None}]
      BY DEF Init
    <2>3. None \in Nat
      BY DEF None
    <2>4. token \in [Connection -> Nat]
      BY <2>3 DEF Init
    <2> QED
      BY <2>1, <2>2, <2>4
  <1>6. /\ phase \in {"top", "inputs", "end", "down"} /\ stopping \in BOOLEAN
        /\ nextConnection \in Nat /\ nextSession \in Nat \ {0} /\ nextToken \in Nat \ {0}
        /\ starts \in Nat /\ sessions \subseteq Session /\ open \subseteq Connection
    <2>1. stopping \in BOOLEAN /\ phase \in {"top", "inputs", "end", "down"}
      BY Zenon DEF Init
    <2>2. nextConnection = 1 /\ nextSession = 1 /\ nextToken = 1 /\ starts = 0
      BY Zenon DEF Init
    <2>3. sessions = {} /\ open = {}
      BY Zenon DEF Init
    <2> QED
      BY <2>1, <2>2, <2>3
  <1>7. /\ role \in [Connection -> {"absent", "none", "interactive", "control"}]
        /\ known \in [Conversation -> SUBSET Facts]
        /\ agents \in [Session -> SUBSET Conversation]
        /\ archived \in [Session -> SUBSET Conversation]
    BY DEF Init
  <1> QED
    BY <1>1, <1>4, <1>5, <1>6, <1>7 DEF TypeOK

\* What every handler leaves behind before it persists: everything but the saved index.
VolatileTypeOK ==
  /\ phase \in {"top", "inputs", "end", "down"} /\ stopping \in BOOLEAN
  /\ role \in [Connection -> {"absent", "none", "interactive", "control"}]
  /\ attached \in [Connection -> Session \cup {None}]
  /\ sessions \subseteq Session
  /\ lease \in [Session -> Lease]
  /\ agents \in [Session -> SUBSET Conversation]
  /\ archived \in [Session -> SUBSET Conversation]
  /\ known \in [Conversation -> SUBSET Facts]
  /\ nextConnection \in Nat /\ nextSession \in Nat \ {0} /\ nextToken \in Nat \ {0}
  /\ starts \in Nat
  /\ inbox \in Seq(Input) /\ Len(inbox) <= InboxCapacity
  /\ open \subseteq Connection
  /\ token \in [Connection -> Nat]

\* A well typed process saves well typed indexes.
LEMMA PersistType ==
  ASSUME VolatileTypeOK', Persist PROVE TypeOK'
  BY DEF VolatileTypeOK, TypeOK, Persist, Index, Kept, Noted, NoIndex

\* A step that leaves the files alone or saves the present index keeps them well typed.
LEMMA KeepType ==
  ASSUME VolatileTypeOK', TypeOK, saved' \in {saved, Index} PROVE TypeOK'
  BY IndexType DEF VolatileTypeOK, TypeOK

\* What clients ask keeps the types and the bound of the input queue.
LEMMA ClientType ==
  ASSUME TypeOK, Client PROVE TypeOK'
PROOF
  <1> PICK c \in Connection :
        Ask(c) \/ Stop(c) \/ Close(c) \/ \E r \in {"interactive", "control"} : Hello(c, r)
    BY DEF Client
  <1>1. ASSUME NEW r \in Input, Send(r), open' \subseteq Connection PROVE TypeOK'
    <2>1. inbox' \in Seq(Input) /\ Len(inbox') <= InboxCapacity
      BY <1>1, SendType
    <2> QED
      BY <1>1, <2>1 DEF TypeOK, Send, loopVars, dataVars, counters
  <1>2. CASE Ask(c)
    <2>1. open' \subseteq Connection
      BY <1>2 DEF Ask, TypeOK
    <2>2. token[c] \in Nat
      BY DEF TypeOK
    <2>3. CASE Send([type |-> "create", conn |-> c])
      BY <1>1, <2>1, <2>3 DEF Input
    <2>4. CASE \E s \in Session, takeover \in BOOLEAN :
                 Send([type |-> "attach", conn |-> c, session |-> s, takeover |-> takeover])
      BY <1>1, <2>1, <2>4 DEF Input
    <2>5. CASE \E type \in {"use", "detach", "spawn", "stopAttached"} :
                 Send([type |-> type, conn |-> c, token |-> token[c]])
      BY <1>1, <2>1, <2>2, <2>5 DEF Input
    <2>6. CASE \E type \in {"close", "archive", "resume"}, v \in Conversation :
                 Send([type |-> type, conn |-> c, token |-> token[c], conversation |-> v])
      BY <1>1, <2>1, <2>2, <2>6 DEF Input
    <2> QED
      BY <1>2, <2>3, <2>4, <2>5, <2>6 DEF Ask
  <1>3. CASE Stop(c)
    <2>1. open' \subseteq Connection
      BY <1>3 DEF Stop, TypeOK
    <2>2. CASE \E s \in Session : Send([type |-> "stopSession", conn |-> c, session |-> s])
      BY <1>1, <2>1, <2>2 DEF Input
    <2>3. CASE Send([type |-> "stopServer", conn |-> c])
      BY <1>1, <2>1, <2>3 DEF Input
    <2> QED
      BY <1>3, <2>2, <2>3 DEF Stop
  <1>4. CASE Close(c)
    <2>1. open' \subseteq Connection
      BY <1>4 DEF Close, TypeOK
    <2>2. [type |-> "gone", conn |-> c] \in Input
      BY DEF Input
    <2> QED
      BY <1>1, <1>4, <2>1, <2>2 DEF Close
  <1>5. CASE \E r \in {"interactive", "control"} : Hello(c, r)
    <2> PICK r \in {"interactive", "control"} : Hello(c, r)
      BY <1>5
    <2>1. open' \subseteq Connection
      BY DEF Hello, TypeOK
    <2>2. [type |-> "hello", conn |-> c, role |-> r] \in Input
      BY DEF Input
    <2> QED
      BY <1>1, <2>1, <2>2 DEF Hello
  <1> QED
    BY <1>2, <1>3, <1>4, <1>5

\* The end of a process, however it comes, leaves well typed nothing.
LEMMA EndType ==
  ASSUME TypeOK, ProcessEnds, saved' \in {saved, Index} PROVE TypeOK'
PROOF
  <1>1. inbox' \in Seq(Input) /\ Len(inbox') <= InboxCapacity
    BY ServerAssumption DEF ProcessEnds
  <1>2. VolatileTypeOK'
    BY <1>1 DEF ProcessEnds, Dropped, Forgotten, TypeOK, VolatileTypeOK, NoLease, Lease, None, counters
  <1> QED
    BY <1>2, KeepType

\* What a poll does to the conversations: one that stays with an agent is known as well
\* as before, one that leaves is archived if it can be, and one that is taken out of the
\* archive is restorable where it arrives.
LEMMA PollEffect ==
  ASSUME TypeOK, Poll
  PROVE  /\ agents' \in [Session -> SUBSET Conversation]
         /\ archived' \in [Session -> SUBSET Conversation]
         /\ known' \in [Conversation -> SUBSET Facts]
         /\ \A s \in Session : agents[s] = {} => agents'[s] = {} /\ archived'[s] = archived[s]
         /\ \A s \in Session : \A v \in archived[s] :
              v \in archived'[s] \/ (v \in agents'[s] /\ known'[v] = Facts)
         /\ \A s \in Session : \A v \in agents[s] :
              \/ v \in agents'[s] /\ known[v] \subseteq known'[v]
              \/ v \notin Running' /\ (Archivable(v) => v \in archived'[s])
PROOF
  <1>1. PICK seen \in SUBSET Running, told \in SUBSET Conversation :
          \E quit \in SUBSET seen : \E to \in [seen \ quit -> Conversation] :
            Polled(seen, told, quit, to)
    BY DEF Poll
  <1>2. PICK quit \in SUBSET seen : \E to \in [seen \ quit -> Conversation] :
          Polled(seen, told, quit, to)
    BY <1>1
  <1>3. PICK to \in [seen \ quit -> Conversation] : Polled(seen, told, quit, to)
    BY <1>2
  <1>4. /\ \A v \in seen \ quit : to[v] # v => to[v] \notin Running
        /\ agents' = [s \in Session |->
             (agents[s] \ seen) \cup {to[v] : v \in agents[s] \cap (seen \ quit)}]
        /\ archived' = [s \in Session |->
             (archived[s] \ (agents'[s] \ agents[s]))
               \cup ArchivedOnLeaving(agents[s] \ agents'[s])]
        /\ known' = [v \in Conversation |->
             IF v \notin Running' THEN {}
             ELSE IF v \notin Running THEN Arrived(v, told)
             ELSE IF v \in seen THEN Observed(v, told) ELSE known[v]]
    BY <1>3 DEF Polled
  <1>5. \A v \in Conversation : Arrived(v, told) \subseteq Facts /\ Observed(v, told) \subseteq Facts
    BY DEF Arrived, Observed, Facts, TypeOK
  <1>6. \A s \in Session : agents'[s] \subseteq Conversation
    BY <1>4 DEF TypeOK
  <1>7. /\ agents' \in [Session -> SUBSET Conversation]
        /\ archived' \in [Session -> SUBSET Conversation]
        /\ known' \in [Conversation -> SUBSET Facts]
    <2>1. agents' \in [Session -> SUBSET Conversation]
      BY <1>4, <1>6
    <2>2. archived' \in [Session -> SUBSET Conversation]
      BY <1>4 DEF TypeOK, ArchivedOnLeaving
    <2>3. known' \in [Conversation -> SUBSET Facts]
      BY <1>4, <1>5 DEF TypeOK
    <2> QED
      BY <2>1, <2>2, <2>3
  <1>8. \A s \in Session : agents[s] = {} => agents'[s] = {} /\ archived'[s] = archived[s]
    BY <1>4 DEF ArchivedOnLeaving
  <1>9. ASSUME NEW s \in Session, NEW v \in archived[s], v \notin archived'[s]
        PROVE  v \in agents'[s] /\ known'[v] = Facts
    <2>1. v \in agents'[s] /\ v \notin agents[s]
      BY <1>4, <1>9
    <2>2. v \notin Running
      <3>1. PICK w \in agents[s] \cap (seen \ quit) : v = to[w]
        BY <1>4, <2>1
      <3> QED
        BY <1>4, <2>1, <3>1
    <2>3. v \in Running' /\ v \in Conversation /\ Arrived(v, told) = Facts
      BY <1>9, <2>1 DEF Running, Arrived, TypeOK
    <2> QED
      BY <1>4, <2>1, <2>2, <2>3
  <1>10. ASSUME NEW s \in Session, NEW v \in agents[s]
         PROVE  \/ v \in agents'[s] /\ known[v] \subseteq known'[v]
                \/ v \notin Running' /\ (Archivable(v) => v \in archived'[s])
    <2>1. v \in Running /\ v \in Conversation
      BY DEF Running, TypeOK
    <2>2. CASE v \in agents'[s]
      <3>1. v \in Running'
        BY <2>2 DEF Running
      <3> QED
        BY <1>4, <2>1, <2>2, <3>1 DEF Observed
    <2>3. CASE v \notin agents'[s]
      <3>1. v \in seen /\ (v \in seen \ quit => to[v] # v)
        BY <1>4, <2>3
      <3>2. \A w \in seen \ quit : to[w] # v
        BY <1>4, <2>1, <3>1
      <3>3. \A t \in Session : v \notin agents'[t]
        BY <1>4, <3>1, <3>2
      <3>4. Archivable(v) => v \in archived'[s]
        BY <1>4, <2>3 DEF ArchivedOnLeaving
      <3> QED
        BY <3>3, <3>4 DEF Running
    <2> QED
      BY <2>2, <2>3
  <1> QED
    BY <1>7, <1>8, <1>9, <1>10

\* The loop's own steps, a crash and a start keep the types.
LEMMA LoopType ==
  ASSUME TypeOK, Loop \/ Crash \/ Start PROVE TypeOK'
PROOF
  <1>1. CASE Accept
    BY <1>1 DEF Accept, TypeOK, loopVars, dataVars, Connection
  <1>2. CASE TakeInputs \/ SkipPoll
    BY <1>2 DEF TakeInputs, SkipPoll, TypeOK, connVars, dataVars, counters
  <1>3. CASE Signal
    <2>1. VolatileTypeOK'
      BY <1>3 DEF Signal, TypeOK, VolatileTypeOK, connVars, dataVars, counters
    <2> QED
      BY <1>3, <2>1, PersistType DEF Signal
  <1>4. CASE Finish
    BY <1>4, EndType DEF Finish
  <1>5. CASE EndLoop
    BY <1>5 DEF EndLoop, TypeOK, connVars, dataVars, counters
  <1>6. CASE Crash
    BY <1>6, EndType DEF Crash
  <1>7. CASE Start
    <2>1. \A s \in Session : saved[s].kept \subseteq Conversation
      BY DEF TypeOK
    <2> QED
      BY <1>7, <2>1, ServerAssumption DEF Start, TypeOK, connVars
  <1>8. CASE Poll
    <2>1. phase' = "end" /\ UNCHANGED <<stopping, connVars, sessions, lease, counters, inbox>>
      BY <1>8 DEF Poll
    <2>2. /\ agents' \in [Session -> SUBSET Conversation]
          /\ archived' \in [Session -> SUBSET Conversation]
          /\ known' \in [Conversation -> SUBSET Facts]
      BY <1>8, PollEffect
    <2>3. VolatileTypeOK'
      BY <2>1, <2>2 DEF TypeOK, VolatileTypeOK, connVars, counters
    <2> QED
      BY <1>8, <2>3, PersistType DEF Poll
  <1> QED
    BY <1>1, <1>2, <1>3, <1>4, <1>5, <1>6, <1>7, <1>8 DEF Loop

\* The fields of an input that is being handled, and the queue without it.
LEMMA HandledInput ==
  ASSUME TypeOK, NEW types, Handling(types)
  PROVE  /\ Head(inbox) \in Input /\ Head(inbox).conn \in Connection
         /\ Head(inbox).type \in types
         /\ role[Head(inbox).conn] # "absent"
         /\ inbox' \in Seq(Input) /\ Len(inbox') <= InboxCapacity
         /\ UNCHANGED <<phase, stopping>>
PROOF
  <1>1. inbox \in Seq(Input) /\ Len(inbox) <= InboxCapacity /\ inbox # <<>>
    BY DEF TypeOK, Handling
  <1>2. Head(inbox) \in Input
        /\ Tail(inbox) \in Seq(Input) /\ Len(Tail(inbox)) <= InboxCapacity
    BY <1>1, InboxHead
  <1>3. Head(inbox).conn \in Connection
    BY <1>2, InputFields
  <1> QED
    BY <1>2, <1>3 DEF Handling, loopVars

\* Handlers that change no session's lease.
LEMMA ContentType ==
  ASSUME TypeOK, HandleUse \/ HandleSpawn \/ HandleClose \/ HandleArchive \/ HandleResume
  PROVE  TypeOK'
PROOF
  <1> DEFINE r == Head(inbox)
  <1>1. PICK types : Handling(types) /\ types \subseteq LeaseRequests
    BY DEF HandleUse, HandleSpawn, HandleClose, HandleArchive, HandleResume, Applying,
           LeaseRequests
  <1>2. /\ r \in Input /\ r.conn \in Connection
        /\ inbox' \in Seq(Input) /\ Len(inbox') <= InboxCapacity
        /\ UNCHANGED <<phase, stopping>>
    BY <1>1, HandledInput
  <1>3. LeaseValid(r) /\ attached[r.conn] \in Session
    BY DEF HandleUse, HandleSpawn, HandleClose, HandleArchive, HandleResume, Applying, Handling,
           Permitted, LeaseValid, TypeOK
  <1>4. /\ agents' \in [Session -> SUBSET Conversation]
        /\ archived' \in [Session -> SUBSET Conversation]
        /\ known' \in [Conversation -> SUBSET Facts]
    <2>1. CASE HandleUse
      <3>1. CASE UNCHANGED known
        BY <2>1, <3>1 DEF HandleUse, TypeOK
      <3>2. CASE \E v \in Conversation : known' = [known EXCEPT ![v] = @ \cup {"title"}]
        <4>1. known' \in [Conversation -> SUBSET Facts]
          BY <3>2 DEF Facts, TypeOK
        <4> QED
          BY <2>1, <4>1 DEF HandleUse, TypeOK
      <3>3. agents[attached[r.conn]] \subseteq Conversation
        BY <1>3 DEF TypeOK
      <3> QED
        BY <2>1, <3>1, <3>2, <3>3 DEF HandleUse
    <2>2. CASE HandleSpawn
      <3>1. PICK v \in Conversation :
              /\ agents' = [agents EXCEPT ![attached[r.conn]] = @ \cup {v}]
              /\ \E facts \in {{}, {"id"}} : known' = [known EXCEPT ![v] = facts]
        BY <2>2 DEF HandleSpawn
      <3>2. known' \in [Conversation -> SUBSET Facts]
        BY <3>1 DEF Facts, TypeOK
      <3> QED
        BY <1>3, <2>2, <3>1, <3>2 DEF HandleSpawn, TypeOK
    <2>3. CASE HandleClose
      BY <1>3, <2>3 DEF HandleClose, Forgotten, TypeOK
    <2>4. CASE HandleArchive
      <3>1. r.conversation \in Conversation
        BY <1>2, <2>4, InputFields DEF HandleArchive, Applying, Handling
      <3> QED
        BY <1>3, <2>4, <3>1 DEF HandleArchive, Forgotten, TypeOK
    <2>5. CASE HandleResume
      <3>1. r.conversation \in Conversation
        BY <1>2, <2>5, InputFields DEF HandleResume, Applying, Handling
      <3> QED
        BY <1>3, <2>5, <3>1 DEF HandleResume, TypeOK
    <2> QED
      BY <2>1, <2>2, <2>3, <2>4, <2>5
  <1>5. UNCHANGED <<connVars, sessions, lease, counters>> /\ Persist
    BY DEF HandleUse, HandleSpawn, HandleClose, HandleArchive, HandleResume
  <1>6. VolatileTypeOK'
    BY <1>2, <1>4, <1>5 DEF TypeOK, VolatileTypeOK, connVars, counters
  <1> QED
    BY <1>5, <1>6, PersistType

\* Handlers that give, take or end a lease.
LEMMA DroppedType ==
  ASSUME TypeOK, NEW S, Dropped(S)
  PROVE  /\ sessions' \subseteq Session /\ lease' \in [Session -> Lease]
         /\ agents' \in [Session -> SUBSET Conversation]
         /\ archived' \in [Session -> SUBSET Conversation]
         /\ known' \in [Conversation -> SUBSET Facts]
  BY DEF Dropped, Forgotten, TypeOK, NoLease, Lease, None

\* Ending a lease does, whether the session goes with it or stays.
LEMMA LeaseEndsType ==
  ASSUME TypeOK, NEW s, LeaseEnds(s)
  PROVE  /\ sessions' \subseteq Session /\ lease' \in [Session -> Lease]
         /\ agents' \in [Session -> SUBSET Conversation]
         /\ archived' \in [Session -> SUBSET Conversation]
         /\ known' \in [Conversation -> SUBSET Facts]
PROOF
  <1>1. CASE Dropped({s})
    BY <1>1, DroppedType
  <1>2. CASE lease' = [lease EXCEPT ![s] = NoLease] /\ UNCHANGED <<sessions, dataVars>>
    BY <1>2 DEF TypeOK, dataVars, NoLease, Lease, None
  <1> QED
    BY <1>1, <1>2 DEF LeaseEnds

\* A granted lease is one, and the next token is a new number.
LEMMA GrantedType ==
  ASSUME TypeOK, NEW c \in Connection, NEW s \in Session, Granted(c, s)
  PROVE  lease' \in [Session -> Lease] /\ nextToken' \in Nat \ {0}
  BY DEF Granted, TypeOK, Lease

\* The requests that move leases keep the types.
LEMMA LeaseType ==
  ASSUME TypeOK, HandleCreate \/ HandleAttach \/ HandleDetach
  PROVE  TypeOK'
PROOF
  <1> DEFINE r == Head(inbox)
  <1>1. \E types : Handling(types)
    BY DEF HandleCreate, HandleAttach, HandleDetach, Applying
  <1>2. /\ r \in Input /\ r.conn \in Connection
        /\ inbox' \in Seq(Input) /\ Len(inbox') <= InboxCapacity
        /\ UNCHANGED <<phase, stopping>>
    BY <1>1, HandledInput
  <1>3. nextToken \in Nat \ {0} /\ nextSession \in Nat \ {0}
    BY DEF TypeOK
  <1>4. CASE HandleCreate
    <2>1. nextSession \in Session
      BY <1>4 DEF HandleCreate, Applying, Handling, Permitted, LeaseValid, Session
    <2>2. lease' \in [Session -> Lease] /\ nextToken' \in Nat \ {0}
      BY <1>2, <1>4, <2>1, GrantedType DEF HandleCreate
    <2>3. /\ attached' \in [Connection -> Session \cup {None}]
          /\ token' \in [Connection -> Nat]
          /\ sessions' \subseteq Session /\ nextSession' \in Nat \ {0}
      <3>1. attached' \in [Connection -> Session \cup {None}] /\ token' \in [Connection -> Nat]
        BY <1>3, <1>4, <2>1 DEF HandleCreate, TypeOK
      <3>2. sessions' \subseteq Session /\ nextSession' \in Nat \ {0}
        BY <1>3, <1>4, <2>1 DEF HandleCreate, TypeOK
      <3> QED
        BY <3>1, <3>2
    <2>4. VolatileTypeOK'
      BY <1>2, <1>4, <2>2, <2>3 DEF HandleCreate, TypeOK, VolatileTypeOK, dataVars
    <2> QED
      BY <1>4, <2>4, PersistType DEF HandleCreate
  <1>5. CASE HandleAttach
    <2>1. r.session \in Session
      BY <1>2, <1>5, InputFields DEF HandleAttach, Applying, Handling
    <2>2. lease' \in [Session -> Lease] /\ nextToken' \in Nat \ {0}
      BY <1>2, <1>5, <2>1, GrantedType DEF HandleAttach
    <2>3. /\ attached' \in [Connection -> Session \cup {None}]
          /\ token' \in [Connection -> Nat]
          /\ role' \in [Connection -> {"absent", "none", "interactive", "control"}]
          /\ open' \subseteq Connection
      BY <1>2, <1>3, <1>5, <2>1 DEF HandleAttach, Released, TypeOK, None
    <2>4. VolatileTypeOK'
      BY <1>2, <1>5, <2>2, <2>3 DEF HandleAttach, TypeOK, VolatileTypeOK, dataVars
    <2> QED
      BY <1>5, <2>4, PersistType DEF HandleAttach
  <1>6. CASE HandleDetach
    <2>1. /\ sessions' \subseteq Session /\ lease' \in [Session -> Lease]
          /\ agents' \in [Session -> SUBSET Conversation]
          /\ archived' \in [Session -> SUBSET Conversation]
          /\ known' \in [Conversation -> SUBSET Facts]
      BY <1>6, LeaseEndsType DEF HandleDetach
    <2>2. VolatileTypeOK'
      BY <1>2, <1>6, <2>1 DEF HandleDetach, TypeOK, VolatileTypeOK, counters, None
    <2> QED
      BY <1>6, <2>2, PersistType DEF HandleDetach
  <1> QED
    BY <1>4, <1>5, <1>6

\* Stops and ends of connections keep the types.
LEMMA EndingType ==
  ASSUME TypeOK,
         HandleStopAttached \/ HandleStopSession \/ HandleStopServer \/ HandleGone
         \/ RefuseHello \/ DropSlowClient
  PROVE  TypeOK'
PROOF
  <1>1. ASSUME NEW s, NEW c, SessionStops(s, c), inbox' \in Seq(Input),
               Len(inbox') <= InboxCapacity, UNCHANGED <<phase, stopping>>
        PROVE  TypeOK'
    <2>1. /\ sessions' \subseteq Session /\ lease' \in [Session -> Lease]
          /\ agents' \in [Session -> SUBSET Conversation]
          /\ archived' \in [Session -> SUBSET Conversation]
          /\ known' \in [Conversation -> SUBSET Facts]
      BY <1>1, DroppedType DEF SessionStops
    <2>2. VolatileTypeOK'
      BY <1>1, <2>1 DEF SessionStops, Released, TypeOK, VolatileTypeOK, counters, None
    <2> QED
      BY <1>1, <2>2, PersistType DEF SessionStops
  <1>2. ASSUME NEW c, Removed(c), Persist \/ UNCHANGED saved, inbox' \in Seq(Input),
               Len(inbox') <= InboxCapacity, UNCHANGED <<phase, stopping>>
        PROVE  TypeOK'
    <2>1. /\ sessions' \subseteq Session /\ lease' \in [Session -> Lease]
          /\ agents' \in [Session -> SUBSET Conversation]
          /\ archived' \in [Session -> SUBSET Conversation]
          /\ known' \in [Conversation -> SUBSET Facts]
      <3>1. CASE LeaseEnds(attached[c])
        BY <3>1, LeaseEndsType
      <3>2. CASE UNCHANGED <<sessions, lease, dataVars>>
        BY <3>2 DEF TypeOK, dataVars
      <3> QED
        BY <1>2, <3>1, <3>2 DEF Removed
    <2>2. VolatileTypeOK'
      BY <1>2, <2>1 DEF Removed, Released, TypeOK, VolatileTypeOK, counters, None
    <2>3. CASE Persist
      BY <2>2, <2>3, PersistType
    <2>4. CASE UNCHANGED saved
      BY <2>2, <2>4 DEF TypeOK, VolatileTypeOK
    <2> QED
      BY <1>2, <2>3, <2>4
  <1>3. CASE HandleStopAttached
    BY <1>1, <1>3, HandledInput DEF HandleStopAttached, Applying
  <1>4. CASE HandleStopSession
    BY <1>1, <1>4, HandledInput DEF HandleStopSession, Applying
  <1>5. CASE HandleStopServer
    <2>1. inbox' \in Seq(Input) /\ Len(inbox') <= InboxCapacity
      BY <1>5, InboxHead DEF HandleStopServer, TypeOK
    <2>2. VolatileTypeOK'
      BY <1>5, <2>1, DroppedType DEF HandleStopServer, TypeOK, VolatileTypeOK, connVars, counters
    <2> QED
      BY <1>5, <2>2, KeepType DEF HandleStopServer
  <1>6. CASE HandleGone
    BY <1>2, <1>6, HandledInput DEF HandleGone, Disconnect
  <1>7. CASE RefuseHello
    BY <1>2, <1>7, HandledInput DEF RefuseHello
  <1>8. CASE DropSlowClient
    BY <1>2, <1>8 DEF DropSlowClient, Disconnect, TypeOK, loopVars
  <1> QED
    BY <1>3, <1>4, <1>5, <1>6, <1>7, <1>8

\* Requests that are ignored, refused or fatal keep the types.
LEMMA IdleType ==
  ASSUME TypeOK, IgnoreInput \/ HandleHello \/ Refuse \/ Panic PROVE TypeOK'
PROOF
  <1>1. CASE IgnoreInput
    <2>1. inbox' \in Seq(Input) /\ Len(inbox') <= InboxCapacity
      BY <1>1, InboxHead DEF IgnoreInput, TypeOK
    <2> QED
      BY <1>1, <2>1 DEF IgnoreInput, TypeOK, loopVars, connVars, dataVars, counters
  <1>2. CASE HandleHello
    <2>1. /\ inbox' \in Seq(Input) /\ Len(inbox') <= InboxCapacity
          /\ UNCHANGED <<phase, stopping>>
          /\ Head(inbox).role \in {"interactive", "control"}
      BY <1>2, HandledInput, InputFields DEF HandleHello
    <2> QED
      BY <1>2, <2>1 DEF HandleHello, TypeOK, dataVars, counters
  <1>3. CASE Refuse
    <2>1. /\ inbox' \in Seq(Input) /\ Len(inbox') <= InboxCapacity
          /\ UNCHANGED <<phase, stopping>>
      BY <1>3, HandledInput DEF Refuse
    <2> QED
      BY <1>3, <2>1 DEF Refuse, TypeOK, connVars, dataVars, counters
  <1>4. CASE Panic
    BY <1>4, EndType DEF Panic
  <1> QED
    BY <1>1, <1>2, <1>3, <1>4

\* Every reachable state is well typed: in particular the input queue never outgrows
\* INPUT_QUEUE and an attachment is always to a session identifier that was issued.
THEOREM TypeCorrect == Spec => []TypeOK
PROOF
  <1>1. Init => TypeOK
    BY InitType
  <1>2. TypeOK /\ [Next]_vars => TypeOK'
    <2> SUFFICES ASSUME TypeOK, [Next]_vars PROVE TypeOK'
      OBVIOUS
    <2>1. CASE UNCHANGED vars
      BY <2>1 DEF vars, loopVars, connVars, dataVars, counters, TypeOK
    <2>2. CASE Next
      BY <2>2, ClientType, LoopType, ContentType, LeaseType, EndingType, IdleType
         DEF Next, Handle
    <2> QED
      BY <2>1, <2>2
  <1> QED
    BY <1>1, <1>2, PTL DEF Spec

-----------------------------------------------------------------------------
\* Leases

\* Identifiers and tokens in use were issued before the next ones.
IssuedBefore ==
  /\ \A c \in Connection : attached[c] < nextSession
  /\ \A s \in sessions : s < nextSession
  /\ \A s \in Session : lease[s].token < nextToken

\* Only existing sessions are leased, and a process that is down holds nothing.
NothingElseLeased ==
  /\ \A s \in Session \ sessions : lease[s] = NoLease
  /\ phase = "down" => sessions = {} /\ \A c \in Connection : attached[c] = None

\* What a client believes of its lease is what the server holds.
ClientLease ==
  \A c \in Connection : token[c] # None =>
    /\ attached[c] # None
    /\ attached[c] \in sessions => lease[attached[c]] = [holder |-> c, token |-> token[c]]

LeaseInv == TypeOK /\ LeaseIsMutual /\ IssuedBefore /\ NothingElseLeased /\ ClientLease

\* Handlers that give, take or end no lease keep the invariant whatever else they do.
LeaseUntouched ==
  /\ UNCHANGED <<attached, sessions, lease, token, nextSession, nextToken>>
  /\ \A c \in Connection : role'[c] = "absent" => role[c] = "absent"
  /\ phase # "down" /\ phase' # "down"

\* A step that touches no lease, no attachment and no session keeps the invariant.
LEMMA UntouchedKeepsLeases ==
  ASSUME LeaseInv, TypeOK', LeaseUntouched PROVE LeaseInv'
PROOF
  <1>1. LeaseIsMutual'
    <2>1. ASSUME NEW s \in Session, lease[s].holder # None
          PROVE  s \in sessions /\ role'[lease[s].holder] # "absent"
                   /\ attached[lease[s].holder] = s
      <3>1. lease[s].holder \in Connection
        BY <2>1 DEF LeaseInv, TypeOK, Lease
      <3> QED
        BY <2>1, <3>1 DEF LeaseInv, LeaseIsMutual, LeaseUntouched
    <2> QED
      BY <2>1 DEF LeaseInv, LeaseIsMutual, LeaseUntouched
  <1> QED
    BY <1>1 DEF LeaseInv, IssuedBefore, NothingElseLeased, ClientLease, LeaseUntouched

\* Most steps are of that kind.
LEMMA UntouchedSteps ==
  ASSUME LeaseInv,
         \/ Client \/ Accept \/ TakeInputs \/ Signal \/ SkipPoll \/ EndLoop
         \/ Poll
         \/ IgnoreInput \/ HandleHello \/ Refuse
         \/ HandleUse \/ HandleSpawn \/ HandleClose \/ HandleArchive \/ HandleResume
  PROVE  LeaseUntouched
PROOF
  <1>1. TypeOK
    BY DEF LeaseInv
  <1>2. CASE Client
    <2>1. PICK c \in Connection :
            Ask(c) \/ Stop(c) \/ Close(c) \/ \E r \in {"interactive", "control"} : Hello(c, r)
      BY <1>2 DEF Client
    <2>2. \E r : Send(r)
      BY <2>1 DEF Ask, Stop, Close, Hello
    <2> QED
      BY <2>2 DEF Send, LeaseUntouched, loopVars, counters
  <1>3. CASE Accept
    BY <1>1, <1>3 DEF Accept, LeaseUntouched, loopVars, TypeOK
  <1>4. CASE TakeInputs \/ Signal \/ SkipPoll \/ EndLoop
    BY <1>4 DEF TakeInputs, Signal, SkipPoll, EndLoop, LeaseUntouched, connVars, counters
  <1>5. CASE Poll
    BY <1>5 DEF Poll, LeaseUntouched, connVars, counters
  <1>6. CASE IgnoreInput \/ Refuse
    BY <1>6 DEF IgnoreInput, Refuse, Handling, LeaseUntouched, loopVars, connVars, counters
  <1>7. CASE HandleHello
    <2>1. Head(inbox).role \in {"interactive", "control"}
      BY <1>1, <1>7, HandledInput, InputFields DEF HandleHello
    <2> QED
      BY <1>1, <1>7, <2>1 DEF HandleHello, Handling, LeaseUntouched, loopVars, counters, TypeOK
  <1>8. CASE HandleUse \/ HandleSpawn \/ HandleClose \/ HandleArchive \/ HandleResume
    BY <1>8 DEF HandleUse, HandleSpawn, HandleClose, HandleArchive, HandleResume, Applying,
                Handling, LeaseUntouched, loopVars, connVars, counters
  <1> QED
    BY <1>2, <1>3, <1>4, <1>5, <1>6, <1>7, <1>8

\* A process that ended has no leases to disagree about.
LEMMA EndKeepsLeases ==
  ASSUME LeaseInv, TypeOK', ProcessEnds PROVE LeaseInv'
PROOF
  <1>1. /\ \A s \in Session : lease'[s] = NoLease
        /\ \A c \in Connection : attached'[c] = None /\ token'[c] = None
        /\ sessions' = {} /\ UNCHANGED <<nextSession, nextToken>>
    BY DEF ProcessEnds, Dropped, counters, LeaseInv, TypeOK
  <1>2. nextSession \in Nat \ {0} /\ nextToken \in Nat \ {0}
    BY DEF LeaseInv, TypeOK
  <1> QED
    BY <1>1, <1>2 DEF LeaseInv, LeaseIsMutual, IssuedBefore, NothingElseLeased, ClientLease,
                      NoLease, None

\* A started process knows its saved sessions and nobody holds them.
LEMMA StartKeepsLeases ==
  ASSUME LeaseInv, TypeOK', Start PROVE LeaseInv'
PROOF
  <1>1. phase = "down" /\ UNCHANGED <<attached, token, lease, nextToken, role>>
    BY DEF Start, connVars
  <1>2. /\ \A s \in Session : lease[s] = NoLease
        /\ \A c \in Connection : attached[c] = None /\ token[c] = None
    BY <1>1 DEF LeaseInv, NothingElseLeased, ClientLease
  <1>3. \A s \in sessions' : s < nextSession'
    BY DEF Start
  <1>4. nextSession' \in Nat \ {0} /\ nextToken \in Nat \ {0} /\ phase' = "top"
        /\ sessions' \subseteq Session /\ None \notin Session
    BY DEF Start, LeaseInv, TypeOK, None, Session
  <1> QED
    BY <1>1, <1>2, <1>3, <1>4 DEF LeaseInv, LeaseIsMutual, IssuedBefore, NothingElseLeased,
                                  ClientLease, NoLease, None

\* The sessions of S are freed, and their holders H lose what they were attached to.
Freeing(S, H) ==
  /\ sessions' \subseteq sessions /\ sessions \ S \subseteq sessions'
  /\ \A t \in Session : lease'[t] = IF t \in S THEN NoLease ELSE lease[t]
  /\ \A x \in Connection : attached'[x] = IF x \in H THEN None ELSE attached[x]
  /\ \A x \in Connection : token'[x] = IF x \in H THEN None ELSE token[x]
  /\ \A x \in H : attached[x] \in sessions => attached[x] \in S
  /\ \A t \in S \cap sessions' : lease[t].holder \in H \cup {None}
  /\ \A x \in Connection \ H : role'[x] = role[x]
  /\ UNCHANGED <<nextSession, nextToken>>
  /\ phase # "down" /\ phase' # "down"

\* Freeing leases keeps the invariant if exactly their holders are detached.
LEMMA FreeingKeepsLeases ==
  ASSUME LeaseInv, TypeOK', NEW S, NEW H, Freeing(S, H)
  PROVE  LeaseInv'
PROOF
  <1> USE DEF Freeing
  <1>1. /\ nextSession \in Nat \ {0} /\ nextToken \in Nat \ {0} /\ None \notin Session
        /\ \A c \in Connection : attached[c] \in Session \cup {None}
        /\ sessions \subseteq Session /\ None \notin Connection
        /\ \A t \in Session : lease[t].holder \in Connection \cup {None}
    <2>1. None \notin Session /\ None \notin Connection
      BY ServerAssumption DEF None, Session, Connection
    <2> QED
      BY <2>1 DEF LeaseInv, TypeOK, Lease
  <1>2. ASSUME NEW c \in Connection, attached'[c] \in sessions'
        PROVE  c \notin H /\ attached[c] = attached'[c] /\ attached[c] \in sessions \ S
    <2>1. c \notin H /\ attached[c] = attached'[c] /\ attached[c] \in sessions
      BY <1>1, <1>2
    <2>2. lease[attached[c]].holder = c
      BY <2>1 DEF LeaseInv, LeaseIsMutual
    <2> QED
      BY <1>1, <1>2, <2>1, <2>2
  <1>3. LeaseIsMutual'
    <2>1. ASSUME NEW c \in Connection, attached'[c] \in sessions'
          PROVE  lease'[attached'[c]].holder = c
      BY <1>1, <1>2, <2>1 DEF LeaseInv, LeaseIsMutual
    <2>2. ASSUME NEW t \in Session, lease'[t].holder # None
          PROVE  t \in sessions' /\ role'[lease'[t].holder] # "absent"
                   /\ attached'[lease'[t].holder] = t
      <3>1. t \notin S /\ lease'[t] = lease[t]
        BY <2>2 DEF NoLease
      <3>2. /\ lease[t].holder \in Connection /\ t \in sessions
            /\ role[lease[t].holder] # "absent" /\ attached[lease[t].holder] = t
        BY <1>1, <2>2, <3>1 DEF LeaseInv, LeaseIsMutual
      <3>3. lease[t].holder \notin H
        BY <3>1, <3>2
      <3> QED
        BY <3>1, <3>2, <3>3
    <2> QED
      BY <2>1, <2>2 DEF LeaseIsMutual
  <1>4. IssuedBefore'
    BY <1>1 DEF LeaseInv, IssuedBefore, NoLease, None
  <1>5. NothingElseLeased'
    BY DEF LeaseInv, NothingElseLeased
  <1>6. ClientLease'
    <2> SUFFICES ASSUME NEW c \in Connection, token'[c] # None
                 PROVE  /\ attached'[c] # None
                        /\ attached'[c] \in sessions' =>
                             lease'[attached'[c]] = [holder |-> c, token |-> token'[c]]
      BY DEF ClientLease
    <2>1. c \notin H /\ token'[c] = token[c] /\ attached'[c] = attached[c]
      OBVIOUS
    <2>2. attached[c] # None
      BY <2>1 DEF LeaseInv, ClientLease
    <2>3. ASSUME attached'[c] \in sessions'
          PROVE  lease'[attached'[c]] = [holder |-> c, token |-> token'[c]]
      <3>1. attached[c] \in sessions \ S
        BY <1>2, <2>3
      <3>2. lease'[attached[c]] = lease[attached[c]]
        BY <1>1, <3>1
      <3> QED
        BY <2>1, <3>1, <3>2 DEF LeaseInv, ClientLease
    <2> QED
      BY <2>1, <2>2, <2>3
  <1> QED
    BY <1>3, <1>4, <1>5, <1>6 DEF LeaseInv

\* A session whose lease ends may or may not end with it.
LEMMA LeaseEndsEffect ==
  ASSUME TypeOK, NEW s \in sessions, LeaseEnds(s)
  PROVE  /\ sessions' \subseteq sessions /\ sessions \ {s} \subseteq sessions'
         /\ \A t \in Session : lease'[t] = IF t \in {s} THEN NoLease ELSE lease[t]
  BY DEF LeaseEnds, Dropped, TypeOK

\* A detach frees the lease of the client that asks.
LEMMA DetachKeepsLeases ==
  ASSUME LeaseInv, TypeOK', HandleDetach PROVE LeaseInv'
PROOF
  <1> DEFINE c == Head(inbox).conn
             s == attached[c]
  <1>1. TypeOK
    BY DEF LeaseInv
  <1>2. c \in Connection /\ phase # "down" /\ phase' # "down"
    BY <1>1, HandledInput DEF HandleDetach, Applying, Handling, loopVars
  <1>3. s \in sessions
    BY DEF HandleDetach, Applying, Handling, Permitted, LeaseValid
  <1>4. /\ sessions' \subseteq sessions /\ sessions \ {s} \subseteq sessions'
        /\ \A t \in Session : lease'[t] = IF t \in {s} THEN NoLease ELSE lease[t]
    BY <1>1, <1>3, LeaseEndsEffect DEF HandleDetach
  <1>5. /\ \A x \in Connection : attached'[x] = IF x \in {c} THEN None ELSE attached[x]
        /\ \A x \in Connection : token'[x] = IF x \in {c} THEN None ELSE token[x]
        /\ UNCHANGED <<role, nextSession, nextToken>>
    BY <1>1, <1>2 DEF HandleDetach, TypeOK, counters
  <1>6. lease[s].holder = c /\ {c} \in SUBSET Connection /\ {s} \in SUBSET Session
    BY <1>1, <1>2, <1>3 DEF LeaseInv, LeaseIsMutual, TypeOK
  <1>8. s = attached[c]
    OBVIOUS
  <1> HIDE DEF c, s
  <1>7. Freeing({s}, {c})
    BY <1>2, <1>4, <1>5, <1>6, <1>8 DEF Freeing
  <1> QED
    BY <1>7, FreeingKeepsLeases

\* The end of a connection frees its lease and no other.
LEMMA DisconnectKeepsLeases ==
  ASSUME LeaseInv, TypeOK', NEW c \in Connection, Removed(c), phase # "down", phase' # "down"
  PROVE  LeaseInv'
PROOF
  <1>1. TypeOK
    BY DEF LeaseInv
  <1>2. /\ \A x \in Connection : attached'[x] = IF x \in {c} THEN None ELSE attached[x]
        /\ \A x \in Connection : token'[x] = IF x \in {c} THEN None ELSE token[x]
        /\ \A x \in Connection \ {c} : role'[x] = role[x]
        /\ UNCHANGED <<nextSession, nextToken>>
    BY <1>1 DEF Removed, Released, TypeOK, counters
  <1>3. CASE attached[c] \in sessions
    <2>1. lease[attached[c]].holder = c /\ {attached[c]} \in SUBSET Session
      BY <1>1, <1>3 DEF LeaseInv, LeaseIsMutual, TypeOK
    <2>2. LeaseEnds(attached[c])
      BY <1>3, <2>1 DEF Removed
    <2>3. /\ sessions' \subseteq sessions /\ sessions \ {attached[c]} \subseteq sessions'
          /\ \A t \in Session : lease'[t] = IF t \in {attached[c]} THEN NoLease ELSE lease[t]
      BY <1>1, <1>3, <2>2, LeaseEndsEffect
    <2>4. Freeing({attached[c]}, {c})
      BY <1>2, <2>1, <2>3 DEF Freeing
    <2> QED
      BY <2>4, FreeingKeepsLeases
  <1>4. CASE attached[c] \notin sessions
    <2>1. UNCHANGED <<sessions, lease>>
      BY <1>4 DEF Removed
    <2>2. Freeing({}, {c})
      BY <1>2, <1>4, <2>1 DEF Freeing
    <2> QED
      BY <2>2, FreeingKeepsLeases
  <1> QED
    BY <1>3, <1>4

\* Stopping a session frees its lease and disconnects its holder.
LEMMA StopKeepsLeases ==
  ASSUME LeaseInv, TypeOK', NEW s \in sessions, NEW c, SessionStops(s, c),
         phase # "down", phase' # "down"
  PROVE  LeaseInv'
PROOF
  <1> DEFINE H == Revoked(s)
  <1>1. TypeOK /\ s \in Session
    BY DEF LeaseInv, TypeOK
  <1>3. /\ \A x \in Connection : attached'[x] = IF x \in H THEN None ELSE attached[x]
        /\ \A x \in Connection : token'[x] = IF x \in H THEN None ELSE token[x]
        /\ \A x \in Connection \ H : role'[x] = role[x]
        /\ UNCHANGED <<nextSession, nextToken>>
    BY <1>1 DEF SessionStops, Released, TypeOK, counters
  <1>4. /\ sessions' = sessions \ {s}
        /\ \A t \in Session : lease'[t] = IF t \in {s} THEN NoLease ELSE lease[t]
    BY <1>1 DEF SessionStops, Dropped, TypeOK
  <1>5. \A x \in H : attached[x] = s
    BY <1>1 DEF Revoked, LeaseInv, LeaseIsMutual
  <1> HIDE DEF H
  <1>6. Freeing({s}, H)
    BY <1>3, <1>4, <1>5 DEF Freeing
  <1> QED
    BY <1>6, FreeingKeepsLeases

\* StopServer removes every session and leaves every connection attached.
LEMMA StopServerKeepsLeases ==
  ASSUME LeaseInv, TypeOK', HandleStopServer PROVE LeaseInv'
PROOF
  <1>1. TypeOK
    BY DEF LeaseInv
  <1>2. /\ sessions' = {} /\ UNCHANGED <<attached, token, role, nextSession, nextToken>>
        /\ \A t \in Session : lease'[t] = IF t \in Session THEN NoLease ELSE lease[t]
        /\ phase # "down" /\ phase' # "down"
    BY <1>1 DEF HandleStopServer, Dropped, connVars, counters, TypeOK
  <1>3. Freeing(Session, {})
    BY <1>1, <1>2 DEF Freeing, TypeOK
  <1> QED
    BY <1>3, FreeingKeepsLeases

\* A new session's identifier and token are new, so nobody else claims them.
LEMMA CreateKeepsLeases ==
  ASSUME LeaseInv, TypeOK', HandleCreate PROVE LeaseInv'
PROOF
  <1> DEFINE c == Head(inbox).conn
             s == nextSession
  <1>1. TypeOK
    BY DEF LeaseInv
  <1>2. c \in Connection /\ phase # "down" /\ phase' # "down" /\ role[c] # "absent"
    BY <1>1, HandledInput DEF HandleCreate, Applying, Handling, loopVars
  <1>3. attached[c] = None /\ s \in Session /\ None \notin Session
    BY DEF HandleCreate, Applying, Handling, Permitted, LeaseValid, Session, None
  <1>4. /\ nextSession \in Nat \ {0} /\ nextToken \in Nat \ {0}
        /\ \A x \in Connection : attached[x] # s
        /\ s \notin sessions
    BY <1>1 DEF LeaseInv, IssuedBefore, TypeOK, Session, None
  <1>5. /\ sessions' = sessions \cup {s} /\ UNCHANGED role
        /\ attached' = [attached EXCEPT ![c] = s]
        /\ token' = [token EXCEPT ![c] = nextToken]
        /\ lease' = [lease EXCEPT ![s] = [holder |-> c, token |-> nextToken]]
        /\ nextSession' = s + 1 /\ nextToken' = nextToken + 1
    BY DEF HandleCreate, Granted
  <1>6. \A t \in Session : lease[t].holder # c
    <2>1. \A t \in Session : lease[t].holder = c => attached[c] = t \/ c = None
      BY DEF LeaseInv, LeaseIsMutual
    <2>2. c # None
      BY <1>2 DEF Connection, None
    <2> QED
      BY <1>3, <2>1, <2>2
  <1> HIDE DEF c, s
  <1>7. LeaseIsMutual'
    <2>1. ASSUME NEW x \in Connection, attached'[x] \in sessions'
          PROVE  lease'[attached'[x]].holder = x
      BY <1>1, <1>2, <1>3, <1>4, <1>5, <2>1 DEF LeaseInv, LeaseIsMutual, TypeOK
    <2>2. ASSUME NEW t \in Session, lease'[t].holder # None
          PROVE  t \in sessions' /\ role'[lease'[t].holder] # "absent"
                   /\ attached'[lease'[t].holder] = t
      <3>1. CASE t = s
        BY <1>1, <1>2, <1>3, <1>5, <3>1 DEF TypeOK
      <3>2. CASE t # s
        <4>1. lease'[t] = lease[t] /\ lease[t].holder \in Connection
          BY <1>1, <1>5, <2>2, <3>2 DEF TypeOK, Lease
        <4> QED
          BY <1>1, <1>5, <1>6, <2>2, <4>1 DEF LeaseInv, LeaseIsMutual, TypeOK
      <3> QED
        BY <3>1, <3>2
    <2> QED
      BY <2>1, <2>2 DEF LeaseIsMutual
  <1>8. IssuedBefore'
    <2>1. \A x \in Connection : attached'[x] < nextSession'
      <3>1. \A x \in Connection : attached[x] \in Nat /\ attached[x] < nextSession
        BY <1>1 DEF LeaseInv, IssuedBefore, TypeOK, Session, None
      <3> QED
        BY <1>1, <1>2, <1>4, <1>5, <3>1 DEF TypeOK, s
    <2>2. \A x \in sessions' : x < nextSession'
      <3>1. \A x \in sessions : x \in Nat /\ x < nextSession
        BY <1>1 DEF LeaseInv, IssuedBefore, TypeOK, Session
      <3> QED
        BY <1>4, <1>5, <3>1 DEF s
    <2>3. \A x \in Session : lease'[x].token < nextToken'
      <3>1. \A x \in Session : lease[x].token \in Nat /\ lease[x].token < nextToken
        BY <1>1 DEF LeaseInv, IssuedBefore, TypeOK, Lease
      <3> QED
        BY <1>1, <1>3, <1>4, <1>5, <3>1 DEF TypeOK
    <2> QED
      BY <2>1, <2>2, <2>3 DEF IssuedBefore
  <1>9. NothingElseLeased'
    BY <1>1, <1>2, <1>5 DEF LeaseInv, NothingElseLeased, TypeOK
  <1>10. ClientLease'
    <2> SUFFICES ASSUME NEW x \in Connection, token'[x] # None
                 PROVE  /\ attached'[x] # None
                        /\ attached'[x] \in sessions' =>
                             lease'[attached'[x]] = [holder |-> x, token |-> token'[x]]
      BY DEF ClientLease
    <2>1. CASE x = c
      BY <1>1, <1>2, <1>3, <1>5, <2>1 DEF TypeOK
    <2>2. CASE x # c
      <3>1. token'[x] = token[x] /\ attached'[x] = attached[x] /\ attached[x] # s
        BY <1>1, <1>4, <1>5, <2>2 DEF TypeOK
      <3> QED
        BY <1>1, <1>5, <3>1 DEF LeaseInv, ClientLease, TypeOK
    <2> QED
      BY <2>1, <2>2
  <1> QED
    BY <1>7, <1>8, <1>9, <1>10 DEF LeaseInv

\* An attach grants a new token; a takeover revokes the old holder in the same step.
LEMMA AttachKeepsLeases ==
  ASSUME LeaseInv, TypeOK', HandleAttach PROVE LeaseInv'
PROOF
  <1> DEFINE c == Head(inbox).conn
             s == Head(inbox).session
             H == Revoked(s)
  <1>1. TypeOK
    BY DEF LeaseInv
  <1>2. c \in Connection /\ phase # "down" /\ phase' # "down" /\ role[c] # "absent"
    BY <1>1, HandledInput DEF HandleAttach, Applying, Handling, loopVars
  <1>3. attached[c] = None /\ s \in sessions /\ s \in Session /\ None \notin Session
    <2>1. Permitted(Head(inbox)) /\ Head(inbox).type = "attach"
      BY DEF HandleAttach, Applying, Handling
    <2>2. attached[c] = None /\ s \in sessions
      BY <2>1 DEF Permitted, MayAttach
    <2>3. s \in Session
      BY <1>1, <2>2 DEF TypeOK
    <2>4. None \notin Session
      BY DEF None, Session
    <2> QED
      BY <2>2, <2>3, <2>4
  <1>4. \A t \in Session : lease[t].holder # c
    <2>1. \A t \in Session : lease[t].holder = c => attached[c] = t \/ c = None
      BY DEF LeaseInv, LeaseIsMutual
    <2>2. c # None
      BY <1>2 DEF Connection, None
    <2> QED
      BY <1>3, <2>1, <2>2
  <1>5. c \notin H /\ \A x \in Connection : x \in H <=> attached[x] = s
    BY <1>1, <1>2, <1>3, <1>4 DEF Revoked, LeaseInv, LeaseIsMutual, None, Connection
  <1>6. /\ UNCHANGED <<sessions, nextSession>>
        /\ attached' = [x \in Connection |->
             IF x = c THEN s ELSE IF x \in H THEN None ELSE attached[x]]
        /\ token' = [x \in Connection |->
             IF x = c THEN nextToken ELSE IF x \in H THEN None ELSE token[x]]
        /\ role' = [x \in Connection |-> IF x \in H THEN "absent" ELSE role[x]]
        /\ lease' = [lease EXCEPT ![s] = [holder |-> c, token |-> nextToken]]
        /\ nextToken' = nextToken + 1
    BY DEF HandleAttach, Granted, Released
  <1>7. nextSession \in Nat \ {0} /\ nextToken \in Nat \ {0}
    BY <1>1 DEF TypeOK
  <1> HIDE DEF c, s, H
  <1>8. LeaseIsMutual'
    <2>1. ASSUME NEW x \in Connection, attached'[x] \in sessions'
          PROVE  lease'[attached'[x]].holder = x
      <3>1. CASE x = c
        BY <1>1, <1>3, <1>6, <3>1 DEF TypeOK
      <3>2. CASE x # c
        <4>1. x \notin H /\ attached'[x] = attached[x] /\ attached[x] \in sessions
          BY <1>1, <1>3, <1>6, <2>1, <3>2 DEF TypeOK
        <4>2. attached[x] # s /\ attached[x] \in Session
          BY <1>1, <1>5, <4>1 DEF TypeOK
        <4> QED
          BY <1>1, <1>6, <4>1, <4>2 DEF LeaseInv, LeaseIsMutual, TypeOK
      <3> QED
        BY <3>1, <3>2
    <2>2. ASSUME NEW t \in Session, lease'[t].holder # None
          PROVE  t \in sessions' /\ role'[lease'[t].holder] # "absent"
                   /\ attached'[lease'[t].holder] = t
      <3>1. CASE t = s
        <4>1. lease'[t].holder = c
          BY <1>1, <1>3, <1>6, <3>1 DEF TypeOK
        <4> QED
          BY <1>2, <1>3, <1>5, <1>6, <3>1, <4>1
      <3>2. CASE t # s
        <4>1. lease'[t] = lease[t] /\ lease[t].holder \in Connection
          BY <1>1, <1>6, <2>2, <3>2 DEF TypeOK, Lease
        <4>2. attached[lease[t].holder] = t /\ role[lease[t].holder] # "absent" /\ t \in sessions
          BY <2>2, <4>1 DEF LeaseInv, LeaseIsMutual
        <4>3. lease[t].holder \notin H /\ lease[t].holder # c
          BY <1>4, <1>5, <3>2, <4>1, <4>2
        <4> QED
          BY <1>6, <4>1, <4>2, <4>3
      <3> QED
        BY <3>1, <3>2
    <2> QED
      BY <2>1, <2>2 DEF LeaseIsMutual
  <1>9. IssuedBefore'
    <2>1. \A x \in Connection : attached'[x] < nextSession'
      <3>1. s < nextSession /\ None < nextSession
        BY <1>3, <1>7 DEF LeaseInv, IssuedBefore, None
      <3> QED
        BY <1>6, <3>1 DEF LeaseInv, IssuedBefore
    <2>2. \A x \in Session : lease'[x].token < nextToken'
      <3>1. \A x \in Session : lease[x].token \in Nat /\ lease[x].token < nextToken
        BY <1>1 DEF LeaseInv, IssuedBefore, TypeOK, Lease
      <3> QED
        BY <1>1, <1>3, <1>6, <1>7, <3>1 DEF TypeOK
    <2> QED
      BY <1>6, <2>1, <2>2 DEF IssuedBefore, LeaseInv
  <1>10. NothingElseLeased'
    BY <1>1, <1>2, <1>3, <1>6 DEF LeaseInv, NothingElseLeased, TypeOK
  <1>11. ClientLease'
    <2> SUFFICES ASSUME NEW x \in Connection, token'[x] # None
                 PROVE  /\ attached'[x] # None
                        /\ attached'[x] \in sessions' =>
                             lease'[attached'[x]] = [holder |-> x, token |-> token'[x]]
      BY DEF ClientLease
    <2>1. CASE x = c
      BY <1>1, <1>2, <1>3, <1>6, <2>1 DEF TypeOK
    <2>2. CASE x # c
      <3>1. x \notin H /\ token'[x] = token[x] /\ attached'[x] = attached[x] /\ attached[x] # s
        BY <1>5, <1>6, <2>2
      <3> QED
        BY <1>1, <1>6, <3>1 DEF LeaseInv, ClientLease, TypeOK
    <2> QED
      BY <2>1, <2>2
  <1> QED
    BY <1>8, <1>9, <1>10, <1>11 DEF LeaseInv

\* Before the first start there are no leases.
LEMMA InitLeases == Init => LeaseInv
  BY InitType DEF Init, LeaseInv, LeaseIsMutual, IssuedBefore, NothingElseLeased, ClientLease,
                  NoLease, None

\* Every step keeps the invariant.
LEMMA LeaseInvInductive == LeaseInv /\ [Next]_vars => LeaseInv'
PROOF
  <1> SUFFICES ASSUME LeaseInv, [Next]_vars PROVE LeaseInv'
    OBVIOUS
  <1>1. TypeOK
    BY DEF LeaseInv
  <1>2. CASE UNCHANGED vars
    BY <1>2 DEF vars, loopVars, connVars, dataVars, counters, TypeOK, LeaseInv, LeaseIsMutual,
                IssuedBefore, NothingElseLeased, ClientLease
  <1>3. TypeOK'
    BY <1>1, <1>2, ClientType, LoopType, ContentType, LeaseType, EndingType, IdleType
       DEF Next, Handle, LeaseInv
  <1>4. CASE \/ Client \/ Accept \/ TakeInputs \/ Signal \/ SkipPoll \/ EndLoop
             \/ Poll
             \/ IgnoreInput \/ HandleHello \/ Refuse
             \/ HandleUse \/ HandleSpawn \/ HandleClose \/ HandleArchive \/ HandleResume
    BY <1>3, <1>4, UntouchedSteps, UntouchedKeepsLeases
  <1>5. CASE Finish \/ Crash \/ Panic
    BY <1>3, <1>5, EndKeepsLeases DEF Finish, Crash, Panic
  <1>6. CASE Start
    BY <1>3, <1>6, StartKeepsLeases
  <1>7. CASE HandleCreate \/ HandleAttach \/ HandleDetach \/ HandleStopServer
    BY <1>3, <1>7, CreateKeepsLeases, AttachKeepsLeases, DetachKeepsLeases, StopServerKeepsLeases
  <1>8. CASE HandleStopAttached
    <2>1. attached[Head(inbox).conn] \in sessions /\ phase # "down" /\ phase' # "down"
      BY <1>8 DEF HandleStopAttached, Applying, Handling, Permitted, LeaseValid, loopVars
    <2> QED
      BY <1>3, <1>8, <2>1, StopKeepsLeases DEF HandleStopAttached
  <1>9. CASE HandleStopSession
    <2>1. Head(inbox).session \in sessions /\ phase # "down" /\ phase' # "down"
      BY <1>9 DEF HandleStopSession, Applying, Handling, Permitted, LeaseValid, loopVars
    <2> QED
      BY <1>3, <1>9, <2>1, StopKeepsLeases DEF HandleStopSession
  <1>10. CASE HandleGone
    <2>1. Head(inbox).conn \in Connection /\ phase # "down" /\ phase' # "down"
      BY <1>1, <1>10, HandledInput DEF HandleGone, Handling, loopVars
    <2> QED
      BY <1>3, <1>10, <2>1, DisconnectKeepsLeases DEF HandleGone, Disconnect
  <1>11. CASE RefuseHello
    <2>1. Head(inbox).conn \in Connection /\ phase # "down" /\ phase' # "down"
      BY <1>1, <1>11, HandledInput DEF RefuseHello, Handling, loopVars
    <2> QED
      BY <1>3, <1>11, <2>1, DisconnectKeepsLeases DEF RefuseHello
  <1>12. CASE DropSlowClient
    <2>1. phase # "down" /\ phase' # "down" /\ \E c \in Connection : Disconnect(c)
      BY <1>12 DEF DropSlowClient, loopVars, Held
    <2> QED
      BY <1>3, <2>1, DisconnectKeepsLeases DEF Disconnect
  <1> QED
    BY <1>2, <1>4, <1>5, <1>6, <1>7, <1>8, <1>9, <1>10, <1>11, <1>12 DEF Next, Loop, Handle

\* The invariant holds in every reachable state.
LEMMA LeaseInvHolds == Spec => []LeaseInv
  BY InitLeases, LeaseInvInductive, PTL DEF Spec

\* In every reachable state of a server of any size a connection is attached to a
\* session exactly when that session's lease names it.
THEOREM LeasesAreMutual == Spec => []LeaseIsMutual
PROOF
  <1>1. LeaseInv => LeaseIsMutual
    BY DEF LeaseInv
  <1> QED
    BY <1>1, LeaseInvHolds, PTL

\* A client that is still connected is never fooled about its lease.
THEOREM ClientsAreNotFooled == Spec => []ClientsKeepTheirLease
PROOF
  <1>1. LeaseInv => ClientsKeepTheirLease
    BY DEF LeaseInv, TypeOK, ClientLease, ClientsKeepTheirLease
  <1> QED
    BY <1>1, LeaseInvHolds, PTL

-----------------------------------------------------------------------------
\* What a step may do to the leases: the action properties about tokens and
\* takeovers.

\* Leases stay or end.
NothingGranted == \A s \in Session : lease'[s] \in {lease[s], NoLease}

\* Connection c is given session s with the next token.
NewLease(c, s) == lease' = [lease EXCEPT ![s] = [holder |-> c, token |-> nextToken]]

\* A lease that ends or a connection that is removed grants nothing.
LEMMA EndingGrantsNothing ==
  ASSUME TypeOK
  PROVE  /\ \A s \in Session : LeaseEnds(s) => NothingGranted
         /\ \A S \in SUBSET Session : Dropped(S) => NothingGranted
         /\ \A c \in Connection : Removed(c) => NothingGranted
PROOF
  <1>1. \A S \in SUBSET Session : Dropped(S) => NothingGranted
    BY DEF Dropped, NothingGranted, TypeOK
  <1>2. \A s \in Session : LeaseEnds(s) => NothingGranted
    BY <1>1 DEF LeaseEnds, NothingGranted, TypeOK
  <1>3. ASSUME NEW c \in Connection, Removed(c) PROVE NothingGranted
    <2>1. CASE attached[c] \in sessions /\ lease[attached[c]].holder = c
      BY <1>2, <1>3, <2>1 DEF Removed, TypeOK
    <2>2. CASE ~(attached[c] \in sessions /\ lease[attached[c]].holder = c)
      BY <1>3, <2>2 DEF Removed, NothingGranted
    <2> QED
      BY <2>1, <2>2
  <1> QED
    BY <1>1, <1>2, <1>3

\* Only creating a session and attaching to one grant a lease.
LEMMA OnlyTwoGrant ==
  ASSUME LeaseInv, [Next]_vars, ~HandleCreate, ~HandleAttach PROVE NothingGranted
PROOF
  <1>1. TypeOK
    BY DEF LeaseInv
  <1>2. CASE UNCHANGED lease
    BY <1>2 DEF NothingGranted
  <1>3. CASE \/ Client \/ Accept \/ TakeInputs \/ Signal \/ SkipPoll \/ EndLoop
             \/ Poll
             \/ IgnoreInput \/ HandleHello \/ Refuse
             \/ HandleUse \/ HandleSpawn \/ HandleClose \/ HandleArchive \/ HandleResume
    BY <1>2, <1>3, UntouchedSteps DEF LeaseUntouched
  <1>4. CASE Finish \/ Crash \/ Panic \/ HandleStopServer
    <2>1. Dropped(Session)
      BY <1>4 DEF Finish, Crash, Panic, ProcessEnds, HandleStopServer
    <2> QED
      BY <1>1, <2>1, EndingGrantsNothing
  <1>5. CASE Start
    BY <1>2, <1>5 DEF Start
  <1>6. CASE HandleDetach
    <2>1. \E s \in Session : LeaseEnds(s)
      BY <1>1, <1>6 DEF HandleDetach, Applying, Permitted, LeaseValid, Handling, TypeOK
    <2> QED
      BY <1>1, <2>1, EndingGrantsNothing
  <1>7. CASE HandleStopAttached \/ HandleStopSession
    <2>1. \E s \in sessions : Dropped({s})
      BY <1>7 DEF HandleStopAttached, HandleStopSession, SessionStops, Applying, Permitted,
                  LeaseValid, Handling
    <2>2. \E S \in SUBSET Session : Dropped(S)
      BY <1>1, <2>1 DEF TypeOK
    <2> QED
      BY <1>1, <2>2, EndingGrantsNothing
  <1>8. CASE HandleGone \/ RefuseHello \/ DropSlowClient
    <2>1. \E c \in Connection : Removed(c)
      BY <1>1, <1>8, HandledInput DEF HandleGone, RefuseHello, DropSlowClient, Disconnect, Held
    <2> QED
      BY <1>1, <2>1, EndingGrantsNothing
  <1> QED
    BY <1>2, <1>3, <1>4, <1>5, <1>6, <1>7, <1>8 DEF Next, Loop, Handle, vars

\* A session that is created was not leased before.
LEMMA CreateGrants ==
  ASSUME LeaseInv, HandleCreate
  PROVE  \E c \in Connection, s \in Session : NewLease(c, s) /\ lease[s] = NoLease
PROOF
  <1>1. TypeOK
    BY DEF LeaseInv
  <1>2. Head(inbox).conn \in Connection /\ nextSession \in Session
    BY <1>1, HandledInput DEF HandleCreate, Applying, Handling, Permitted, LeaseValid
  <1>3. nextSession \notin sessions
    BY <1>1 DEF LeaseInv, IssuedBefore, TypeOK
  <1>4. NewLease(Head(inbox).conn, nextSession) /\ lease[nextSession] = NoLease
    BY <1>2, <1>3 DEF HandleCreate, Granted, NewLease, LeaseInv, NothingElseLeased
  <1> QED
    BY <1>2, <1>4

\* An attachment gets a lease that is free or that it takes over.
LEMMA AttachGrants ==
  ASSUME LeaseInv, HandleAttach
  PROVE  /\ inbox # <<>> /\ Head(inbox).type = "attach"
         /\ Head(inbox).conn \in Connection /\ Head(inbox).session \in Session
         /\ NewLease(Head(inbox).conn, Head(inbox).session)
         /\ lease[Head(inbox).session] = NoLease \/ Head(inbox).takeover
PROOF
  <1>1. TypeOK
    BY DEF LeaseInv
  <1>2. /\ inbox # <<>> /\ Head(inbox).type = "attach" /\ MayAttach(Head(inbox))
        /\ NewLease(Head(inbox).conn, Head(inbox).session)
    BY DEF HandleAttach, Applying, Handling, Permitted, LeaseValid, Granted, NewLease
  <1>3. Head(inbox).conn \in Connection
    BY <1>1, HandledInput DEF HandleAttach, Applying
  <1> QED
    BY <1>1, <1>2, <1>3 DEF MayAttach, TypeOK

-----------------------------------------------------------------------------
\* The theorems

\* A token that opens no session never opens one again, across detaching, takeovers,
\* stops and restarts: only the next token is ever given out (Server::lease_token).
THEOREM TokensAreSpentOnce == Spec => TokensStaySpent
PROOF
  <1> DEFINE Spent == \A t \in 1 .. nextToken - 1 : ~Opens(t) => ~Opens(t)'
  <1>1. LeaseInv /\ [Next]_vars => [Spent]_vars
    <2> SUFFICES ASSUME LeaseInv, [Next]_vars PROVE Spent
      OBVIOUS
    <2>1. TypeOK /\ TypeOK'
      BY LeaseInvInductive DEF LeaseInv
    <2>2. ASSUME NEW s \in Session
          PROVE  lease'[s] \in {lease[s], NoLease} \/ lease'[s].token = nextToken
      <3>1. CASE HandleCreate
        BY <2>1, <3>1, CreateGrants DEF NewLease, TypeOK
      <3>2. CASE HandleAttach
        BY <2>1, <3>2, AttachGrants DEF NewLease, TypeOK
      <3> QED
        BY <3>1, <3>2, OnlyTwoGrant DEF NothingGranted
    <2>3. ASSUME NEW t \in 1 .. nextToken - 1, NEW s \in sessions', lease'[s].token = t
          PROVE  s \in sessions /\ lease[s].token = t
      <3>1. s \in Session /\ t # 0 /\ t # nextToken
        BY <2>1 DEF TypeOK
      <3>2. lease'[s] = lease[s] /\ lease[s] # NoLease
        BY <2>2, <2>3, <3>1 DEF NoLease, None
      <3> QED
        BY <2>3, <3>1, <3>2 DEF LeaseInv, NothingElseLeased
    <2> QED
      BY <2>3 DEF Opens
  <1> QED
    BY <1>1, LeaseInvHolds, PTL DEF Spec, TokensStaySpent

\* A lease passes from one client to another only in a takeover that was asked for
\* (ServerSessionState::validate_attach).
THEOREM OnlyTakeoversMoveLeases == Spec => OnlyByTakeover
PROOF
  <1> DEFINE Moves == \A s \in Session :
        lease[s].holder # None /\ lease'[s].holder \notin {None, lease[s].holder} =>
          /\ inbox # <<>> /\ Head(inbox).type = "attach" /\ Head(inbox).takeover
          /\ Head(inbox).session = s
  <1>1. LeaseInv /\ [Next]_vars => [Moves]_vars
    <2> SUFFICES ASSUME LeaseInv, [Next]_vars PROVE Moves
      OBVIOUS
    <2>1. lease \in [Session -> Lease]
      BY DEF LeaseInv, TypeOK
    <2>2. CASE HandleCreate
      BY <2>1, <2>2, CreateGrants DEF NewLease, NoLease
    <2>3. CASE HandleAttach
      BY <2>1, <2>3, AttachGrants DEF NewLease, NoLease
    <2>4. CASE NothingGranted
      BY <2>4 DEF NothingGranted, NoLease
    <2> QED
      BY <2>2, <2>3, <2>4, OnlyTwoGrant
  <1> QED
    BY <1>1, LeaseInvHolds, PTL DEF Spec, OnlyByTakeover

-----------------------------------------------------------------------------
\* The index the server saves of its conversations: what can be resumed is saved, and
\* survives

\* Only sessions hold conversations, and a process that is down has no sessions.
HeldBySessions ==
  /\ \A s \in Session \ sessions : agents[s] = {} /\ archived[s] = {}
  /\ phase = "down" => sessions = {}

\* The files hold at least what can be resumed, also while the server stops.
SavedCovers == phase # "down" => \A s \in Session : Kept(s) \subseteq saved[s].kept

IndexInv == TypeOK /\ HeldBySessions /\ SavedCovers /\ SavedIsCurrent

\* After a step that persists, the files are current if only sessions hold anything.
LEMMA PersistIsCurrent ==
  ASSUME HeldBySessions', Persist
  PROVE  SavedCovers' /\ SavedIsCurrent'
PROOF
  <1>1. \A s \in Session : saved'[s].kept = Kept(s)'
    BY DEF Persist, Index, NoIndex, Kept, HeldBySessions
  <1> QED
    BY <1>1 DEF SavedCovers, SavedIsCurrent

\* Steps that change no conversation, no session and no file.
Quiet ==
  /\ UNCHANGED <<dataVars, sessions, saved>>
  /\ phase # "down" /\ phase' # "down"
  /\ stopping => stopping'

\* What clients and the loop do without touching a session is quiet.
LEMMA QuietSteps ==
  ASSUME TypeOK,
         \/ Client \/ Accept \/ TakeInputs \/ SkipPoll \/ EndLoop
         \/ IgnoreInput \/ HandleHello \/ Refuse
  PROVE  Quiet
PROOF
  <1>1. CASE Client
    <2>1. PICK c \in Connection :
            Ask(c) \/ Stop(c) \/ Close(c) \/ \E r \in {"interactive", "control"} : Hello(c, r)
      BY <1>1 DEF Client
    <2>2. \E r : Send(r)
      BY <2>1 DEF Ask, Stop, Close, Hello
    <2> QED
      BY <2>2 DEF Send, Quiet, loopVars, counters
  <1>2. CASE Accept \/ TakeInputs \/ SkipPoll
    BY <1>2 DEF Accept, TakeInputs, SkipPoll, Quiet, loopVars
  <1>3. CASE EndLoop
    BY <1>3 DEF EndLoop, Quiet, TypeOK
  <1>4. CASE IgnoreInput \/ HandleHello \/ Refuse
    BY <1>4 DEF IgnoreInput, HandleHello, Refuse, Handling, Quiet, loopVars
  <1> QED
    BY <1>1, <1>2, <1>3, <1>4

\* A quiet step keeps the index, for nothing it speaks of changes.
LEMMA QuietKeepsIndex ==
  ASSUME IndexInv, TypeOK', Quiet PROVE IndexInv'
PROOF
  <1>1. UNCHANGED <<agents, archived, known, sessions, saved>>
    BY DEF Quiet, dataVars
  <1>2. \A s \in Session : Kept(s)' = Kept(s)
    BY <1>1 DEF Kept, Named
  <1>3. HeldBySessions'
    BY <1>1 DEF Quiet, IndexInv, HeldBySessions
  <1>4. SavedCovers'
    BY <1>1, <1>2 DEF Quiet, IndexInv, SavedCovers
  <1>5. SavedIsCurrent'
    BY <1>1, <1>2 DEF Quiet, IndexInv, SavedIsCurrent
  <1> QED
    BY <1>3, <1>4, <1>5 DEF IndexInv

-----------------------------------------------------------------------------
\* Steps that change conversations

\* What a step does to the conversations of the sessions that stay.
Contents ==
  /\ UNCHANGED sessions /\ phase # "down" /\ phase' # "down"
  /\ \A s \in Session \ sessions : agents'[s] = agents[s] /\ archived'[s] = archived[s]
  /\ Persist

\* A poll leaves the sessions that stay, and persists what it did to them.
LEMMA PollContents ==
  ASSUME IndexInv, Poll PROVE Contents
PROOF
  <1>1. UNCHANGED sessions /\ phase # "down" /\ phase' # "down" /\ Persist
    BY DEF Poll
  <1>2. \A s \in Session \ sessions : agents'[s] = agents[s] /\ archived'[s] = archived[s]
    BY PollEffect DEF IndexInv, HeldBySessions
  <1> QED
    BY <1>1, <1>2 DEF Contents

\* The requests that change conversations change those of a session, and persist.
LEMMA HandlerContents ==
  ASSUME IndexInv,
         HandleUse \/ HandleSpawn \/ HandleClose \/ HandleArchive \/ HandleResume
  PROVE  Contents
PROOF
  <1>1. UNCHANGED sessions /\ phase # "down" /\ phase' # "down" /\ Persist
    BY DEF HandleUse, HandleSpawn, HandleClose, HandleArchive, HandleResume, Applying,
           Handling, loopVars
  <1>2. attached[Head(inbox).conn] \in sessions
    BY DEF HandleUse, HandleSpawn, HandleClose, HandleArchive, HandleResume, Applying,
           Handling, Permitted, LeaseValid
  <1>3. \A s \in Session \ sessions : agents'[s] = agents[s] /\ archived'[s] = archived[s]
    BY <1>2 DEF HandleUse, HandleSpawn, HandleClose, HandleArchive, HandleResume, IndexInv,
                TypeOK
  <1> QED
    BY <1>1, <1>3 DEF Contents

\* Persisting makes up for any change to the conversations of the sessions.
LEMMA ContentsKeepIndex ==
  ASSUME IndexInv, TypeOK', Contents PROVE IndexInv'
PROOF
  <1>1. HeldBySessions'
    BY DEF Contents, IndexInv, HeldBySessions
  <1> QED
    BY <1>1, PersistIsCurrent DEF Contents, IndexInv

-----------------------------------------------------------------------------
\* Steps that begin and end sessions

\* Sessions come, and only sessions that go lose what they hold.
Sessions ==
  /\ \A s \in Session :
       \/ /\ agents'[s] = agents[s] /\ archived'[s] = archived[s]
          /\ s \in sessions => s \in sessions'
       \/ agents'[s] = {} /\ archived'[s] = {}
  /\ \A v \in Conversation : known'[v] \subseteq known[v]
  /\ phase # "down" /\ phase' # "down"

\* Removing sessions with what they hold keeps the files current when they are saved,
\* and keeps them sufficient when they are left alone.
LEMMA SessionsKeepIndex ==
  ASSUME IndexInv, TypeOK', Sessions
  PROVE  /\ HeldBySessions'
         /\ Persist => IndexInv'
         /\ UNCHANGED saved /\ stopping' => IndexInv'
PROOF
  <1>1. HeldBySessions'
    BY DEF Sessions, IndexInv, HeldBySessions
  <1>2. \A s \in Session : Kept(s)' \subseteq Kept(s)
    BY DEF Sessions, Kept, Named, IndexInv, TypeOK
  <1>3. ASSUME Persist PROVE IndexInv'
    BY <1>1, <1>3, PersistIsCurrent DEF IndexInv
  <1>4. ASSUME UNCHANGED saved, stopping' PROVE IndexInv'
    BY <1>1, <1>2, <1>4 DEF IndexInv, SavedCovers, SavedIsCurrent, Sessions
  <1> QED
    BY <1>1, <1>3, <1>4

\* A session whose lease ends goes with it only when it holds nothing.
LEMMA LeaseEndsKeepsContents ==
  ASSUME TypeOK, NEW s \in Session, LeaseEnds(s)
  PROVE  /\ UNCHANGED <<agents, archived, known>>
         /\ \A t \in sessions \ sessions' : agents[t] = {} /\ archived[t] = {}
PROOF
  <1>1. CASE Empty(s)
    <2>1. Dropped({s}) /\ agents[s] = {} /\ archived[s] = {}
      BY <1>1 DEF LeaseEnds, Empty
    <2>2. UNION {agents[t] : t \in {s}} = {}
      BY <2>1
    <2>3. UNCHANGED known
      BY <2>1, <2>2 DEF Dropped, Forgotten, TypeOK
    <2> QED
      BY <2>1, <2>3 DEF Dropped, TypeOK
  <1>2. CASE ~Empty(s)
    BY <1>2 DEF LeaseEnds, dataVars
  <1> QED
    BY <1>1, <1>2

\* The end of a connection removes at most a session that holds nothing.
LEMMA RemovedKeepsContents ==
  ASSUME TypeOK, NEW c \in Connection, Removed(c)
  PROVE  /\ UNCHANGED <<agents, archived, known>>
         /\ \A t \in sessions \ sessions' : agents[t] = {} /\ archived[t] = {}
PROOF
  <1>1. CASE attached[c] \in sessions /\ lease[attached[c]].holder = c
    BY <1>1, LeaseEndsKeepsContents DEF Removed, TypeOK
  <1>2. CASE ~(attached[c] \in sessions /\ lease[attached[c]].holder = c)
    BY <1>2 DEF Removed, dataVars
  <1> QED
    BY <1>1, <1>2

\* Creating, attaching, detaching and disconnecting touch no conversation.
ConversationsStay ==
  /\ UNCHANGED <<agents, archived, known>>
  /\ \A t \in sessions \ sessions' : agents[t] = {} /\ archived[t] = {}
  /\ phase # "down" /\ phase' # "down"

\* Creating, attaching, detaching and disconnecting lose no conversation. All of them
\* persist except a refused hello, which had no session.
LEMMA ConnectionSteps ==
  ASSUME TypeOK,
         \/ HandleCreate \/ HandleAttach \/ HandleDetach
         \/ HandleGone \/ RefuseHello \/ DropSlowClient
  PROVE  /\ ConversationsStay
         /\ Persist \/ (UNCHANGED <<saved, stopping>>)
PROOF
  <1>1. CASE HandleCreate \/ HandleAttach
    BY <1>1 DEF HandleCreate, HandleAttach, Applying, Handling, ConversationsStay, dataVars,
                loopVars
  <1>2. CASE HandleDetach
    <2>1. attached[Head(inbox).conn] \in Session
      BY <1>2 DEF HandleDetach, Applying, Handling, Permitted, LeaseValid, TypeOK
    <2> QED
      BY <1>2, <2>1, LeaseEndsKeepsContents
         DEF HandleDetach, Applying, Handling, ConversationsStay, loopVars
  <1>3. CASE HandleGone \/ RefuseHello
    <2>1. Head(inbox).conn \in Connection
      BY <1>3, HandledInput DEF HandleGone, RefuseHello
    <2> QED
      BY <1>3, <2>1, RemovedKeepsContents
         DEF HandleGone, RefuseHello, Disconnect, Handling, ConversationsStay, loopVars
  <1>4. CASE DropSlowClient
    BY <1>4, RemovedKeepsContents DEF DropSlowClient, Disconnect, Held, ConversationsStay, loopVars
  <1> QED
    BY <1>1, <1>2, <1>3, <1>4

\* They keep the index, whether they persist or not.
LEMMA ConnectionsKeepIndex ==
  ASSUME IndexInv, TypeOK', ConversationsStay, Persist \/ UNCHANGED <<saved, stopping>>
  PROVE  IndexInv'
PROOF
  <1>1. HeldBySessions'
    BY DEF ConversationsStay, IndexInv, HeldBySessions
  <1>2. CASE Persist
    BY <1>1, <1>2, PersistIsCurrent DEF IndexInv
  <1>3. CASE UNCHANGED <<saved, stopping>>
    <2>1. \A s \in Session : Kept(s)' = Kept(s)
      BY DEF ConversationsStay, Kept, Named
    <2> QED
      BY <1>1, <1>3, <2>1 DEF ConversationsStay, IndexInv, SavedCovers, SavedIsCurrent
  <1> QED
    BY <1>2, <1>3

\* Stopping a session or the server takes what it holds out of the indexes.
LEMMA DroppedSessions ==
  ASSUME TypeOK, NEW S \in SUBSET Session, Dropped(S),
         phase # "down", phase' # "down"
  PROVE  Sessions
  BY DEF TypeOK, Dropped, Forgotten, Sessions

\* Stopping a session persists what is left; StopServer leaves the files alone.
LEMMA StopsKeepIndex ==
  ASSUME IndexInv, TypeOK', HandleStopAttached \/ HandleStopSession \/ HandleStopServer
  PROVE  IndexInv'
PROOF
  <1>1. TypeOK
    BY DEF IndexInv
  <1>2. CASE HandleStopServer
    <2>1. Sessions
      BY <1>1, <1>2, DroppedSessions DEF HandleStopServer
    <2>2. \A s \in Session : Kept(s) = Index[s].kept
      BY DEF IndexInv, HeldBySessions, Index, NoIndex, Kept
    <2>3. \A s \in Session : Kept(s)' \subseteq saved'[s].kept
      <3>1. \A s \in Session : Kept(s)' \subseteq Kept(s)
        BY <1>1, <2>1 DEF Sessions, Kept, Named, TypeOK
      <3> QED
        BY <1>2, <2>2, <3>1 DEF HandleStopServer
    <2> QED
      BY <1>2, <2>1, <2>3, SessionsKeepIndex
         DEF HandleStopServer, IndexInv, SavedCovers, SavedIsCurrent
  <1>3. CASE HandleStopAttached \/ HandleStopSession
    <2>1. \E s \in sessions : \E c : SessionStops(s, c)
      BY <1>3 DEF HandleStopAttached, HandleStopSession, Applying, Permitted, LeaseValid, Handling
    <2>2. PICK s \in Session : \E c : SessionStops(s, c)
      BY <1>1, <2>1 DEF TypeOK
    <2>3. phase # "down" /\ phase' # "down"
      BY <1>3 DEF HandleStopAttached, HandleStopSession, Applying, Handling, loopVars
    <2>4. PICK c : SessionStops(s, c)
      BY <2>2
    <2>5. Sessions /\ Persist
      BY <1>1, <2>3, <2>4, DroppedSessions DEF SessionStops
    <2> QED
      BY <2>5, SessionsKeepIndex
  <1> QED
    BY <1>2, <1>3

\* A process that ends leaves the files; one that starts takes them for its sessions.
LEMMA ProcessKeepsIndex ==
  ASSUME IndexInv, TypeOK', Finish \/ Crash \/ Panic \/ Start
  PROVE  IndexInv'
PROOF
  <1>1. TypeOK
    BY DEF IndexInv
  <1>2. CASE Finish \/ Crash \/ Panic
    <2>1. ProcessEnds
      BY <1>2 DEF Finish, Crash, Panic
    <2>2. /\ phase' = "down" /\ sessions' = {}
          /\ \A s \in Session : agents'[s] = {} /\ archived'[s] = {}
      BY <1>1, <2>1 DEF ProcessEnds, Dropped, TypeOK
    <2> QED
      BY <2>2 DEF IndexInv, HeldBySessions, SavedCovers, SavedIsCurrent
  <1>3. CASE Start
    <2>1. /\ sessions = {} /\ \A s \in Session : agents[s] = {} /\ agents'[s] = {}
          /\ phase' # "down" /\ UNCHANGED saved
      BY <1>3 DEF Start, IndexInv, HeldBySessions
    <2>2. /\ sessions' = {s \in Session : saved[s] # NoIndex}
          /\ \A s \in Session : archived'[s] = saved[s].kept
      BY <1>3 DEF Start
    <2>3. HeldBySessions'
      BY <2>1, <2>2 DEF HeldBySessions, NoIndex
    <2>4. \A s \in Session : Kept(s)' = saved'[s].kept
      BY <2>1, <2>2 DEF Kept
    <2> QED
      BY <2>1, <2>3, <2>4 DEF IndexInv, SavedCovers, SavedIsCurrent
  <1> QED
    BY <1>2, <1>3

\* A signal saves everything once more.
LEMMA SignalKeepsIndex ==
  ASSUME IndexInv, TypeOK', Signal PROVE IndexInv'
PROOF
  <1>1. HeldBySessions'
    BY DEF Signal, dataVars, IndexInv, HeldBySessions
  <1> QED
    BY <1>1, PersistIsCurrent DEF Signal, IndexInv

\* Before the first start nothing is held and nothing is saved.
LEMMA InitIndex == Init => IndexInv
  BY InitType DEF Init, IndexInv, HeldBySessions, SavedCovers, SavedIsCurrent

\* Every step keeps the invariant; TypeCorrect provides the types of its outcome.
LEMMA IndexInvInductive == IndexInv /\ [Next]_vars /\ TypeOK' => IndexInv'
PROOF
  <1> SUFFICES ASSUME IndexInv, [Next]_vars, TypeOK' PROVE IndexInv'
    OBVIOUS
  <1>1. TypeOK
    BY DEF IndexInv
  <1>2. CASE UNCHANGED vars
    BY <1>2 DEF vars, loopVars, connVars, dataVars, counters, IndexInv, TypeOK, HeldBySessions,
                SavedCovers, SavedIsCurrent, Kept, Named
  <1>3. CASE \/ Client \/ Accept \/ TakeInputs \/ SkipPoll \/ EndLoop
             \/ IgnoreInput \/ HandleHello \/ Refuse
    BY <1>1, <1>3, QuietSteps, QuietKeepsIndex
  <1>4. CASE \/ Poll
             \/ HandleUse \/ HandleSpawn \/ HandleClose \/ HandleArchive \/ HandleResume
    BY <1>4, PollContents, HandlerContents, ContentsKeepIndex
  <1>5. CASE \/ HandleCreate \/ HandleAttach \/ HandleDetach
             \/ HandleGone \/ RefuseHello \/ DropSlowClient
    BY <1>1, <1>5, ConnectionSteps, ConnectionsKeepIndex
  <1>6. CASE \/ HandleStopAttached \/ HandleStopSession \/ HandleStopServer
             \/ Finish \/ Crash \/ Panic \/ Start \/ Signal
    BY <1>6, StopsKeepIndex, ProcessKeepsIndex, SignalKeepsIndex
  <1> QED
    BY <1>2, <1>3, <1>4, <1>5, <1>6 DEF Next, Loop, Handle

\* The invariant holds in every reachable state.
LEMMA IndexInvHolds == Spec => []IndexInv
  BY InitIndex, IndexInvInductive, TypeCorrect, PTL DEF Spec

-----------------------------------------------------------------------------
\* The theorems

\* Between two inputs the files hold exactly what can be resumed (every path of the
\* coordinator that changes a conversation persists it).
THEOREM SavedStaysCurrent == Spec => []SavedIsCurrent
PROOF
  <1>1. IndexInv => SavedIsCurrent
    BY DEF IndexInv
  <1> QED
    BY <1>1, IndexInvHolds, PTL

-----------------------------------------------------------------------------
\* Survival

\* Whatever could be resumed still can be.
NothingLost ==
  \A s \in Session : \A v \in Kept(s) : \E t \in Session : v \in Kept(t)'

\* While the process runs on, this is what Resumable says.
LEMMA KeptIsResumable ==
  ASSUME phase # "down", phase' # "down", NothingLost
  PROVE  Resumable \subseteq Resumable'
  BY DEF NothingLost, Resumable

\* A conversation that could be resumed and leaves its agent in a poll is archived, unless
\* no poll had observed the title it has.
LEMMA PollsDropOnlyUnobserved ==
  ASSUME IndexInv, Poll
  PROVE  \A v \in Resumable \ Resumable' : DropsUnobserved(v)
PROOF
  <1>1. TypeOK /\ phase = "inputs" /\ phase' = "end"
    BY DEF IndexInv, Poll
  <1> SUFFICES ASSUME NEW v \in Resumable, v \notin Resumable' PROVE DropsUnobserved(v)
    OBVIOUS
  <1>2. PICK s \in Session : v \in Kept(s)
    BY <1>1 DEF Resumable
  <1>3. \A t \in Session : v \notin Kept(t)'
    BY <1>1 DEF Resumable
  <1>4. v \notin archived[s]
    <2> SUFFICES ASSUME v \in archived[s] PROVE FALSE
      OBVIOUS
    <2>1. v \in archived'[s] \/ (v \in agents'[s] /\ known'[v] = Facts)
      BY <1>1, PollEffect
    <2> QED
      BY <1>3, <2>1 DEF Kept, Named, Facts
  <1>5. v \in agents[s] /\ Named(v)
    BY <1>2, <1>4 DEF Kept
  <1>6. CASE v \in agents'[s] /\ known[v] \subseteq known'[v]
    BY <1>3, <1>5, <1>6 DEF Kept, Named
  <1>7. CASE v \notin Running' /\ (Archivable(v) => v \in archived'[s])
    <2>1. v \in Running
      BY <1>5 DEF Running
    <2>2. ~Archivable(v)
      BY <1>3, <1>7 DEF Kept
    <2> QED
      BY <1>1, <1>7, <2>1, <2>2 DEF DropsUnobserved
  <1> QED
    BY <1>1, <1>5, <1>6, <1>7, PollEffect

\* The requests that move conversations move what can be resumed, but for a close.
LEMMA HandlersLoseNothing ==
  ASSUME IndexInv, HandleUse \/ HandleSpawn \/ HandleArchive \/ HandleResume
  PROVE  NothingLost
PROOF
  <1>1. TypeOK
    BY DEF IndexInv
  <1>2. attached[Head(inbox).conn] \in sessions
    BY DEF HandleUse, HandleSpawn, HandleArchive, HandleResume, Applying, Handling, Permitted,
           LeaseValid
  <1>3. CASE HandleUse
    BY <1>1, <1>2, <1>3 DEF HandleUse, NothingLost, Kept, Named, TypeOK
  <1>4. CASE HandleSpawn
    BY <1>1, <1>2, <1>4 DEF HandleSpawn, NothingLost, Kept, Named, Running, TypeOK
  <1>5. CASE HandleArchive
    BY <1>1, <1>2, <1>5 DEF HandleArchive, Forgotten, NothingLost, Kept, Named, TypeOK
  <1>6. CASE HandleResume
    BY <1>1, <1>2, <1>6 DEF HandleResume, Facts, NothingLost, Kept, Named, TypeOK
  <1> QED
    BY <1>3, <1>4, <1>5, <1>6

\* Closing an agent gives up the conversation that was named.
LEMMA CloseLosesOne ==
  ASSUME IndexInv, HandleClose
  PROVE  /\ inbox # <<>> /\ Head(inbox).type = "close"
         /\ Resumable \ Resumable' \subseteq {Head(inbox).conversation}
PROOF
  <1>1. TypeOK /\ attached[Head(inbox).conn] \in sessions
    BY DEF IndexInv, HandleClose, Applying, Handling, Permitted, LeaseValid
  <1>2. phase # "down" /\ phase' # "down" /\ inbox # <<>> /\ Head(inbox).type = "close"
    BY DEF HandleClose, Applying, Handling, loopVars
  <1>3. \A s \in Session : \A v \in Kept(s) : v # Head(inbox).conversation => v \in Kept(s)'
    BY <1>1 DEF HandleClose, Forgotten, Kept, Named, TypeOK
  <1> QED
    BY <1>2, <1>3 DEF Resumable

\* The end of a process and its next start lose nothing that was saved.
LEMMA ProcessLosesNothing ==
  ASSUME IndexInv, Finish \/ Crash \/ Panic \/ Start
  PROVE  Resumable \subseteq Resumable'
PROOF
  <1>1. CASE Start
    <2>1. \A s \in Session : agents[s] = {}
      BY <1>1 DEF Start, IndexInv, HeldBySessions
    <2>2. \A s \in Session : Kept(s)' = saved[s].kept
      BY <1>1, <2>1 DEF Start, Kept
    <2> QED
      BY <1>1, <2>2 DEF Start, Resumable
  <1>2. CASE Finish \/ Crash \/ Panic
    <2>1. phase' = "down"
      BY <1>2 DEF Finish, Crash, Panic, ProcessEnds
    <2>2. phase # "down"
      BY <1>2 DEF Finish, Crash, Panic
    <2>3. \A s \in Session : Kept(s) \subseteq saved'[s].kept
      <3>1. \A s \in Session : Kept(s) = Index[s].kept
        BY DEF IndexInv, HeldBySessions, Index, NoIndex, Kept
      <3> QED
        BY <1>2, <2>2, <3>1 DEF Finish, Crash, Panic, IndexInv, SavedCovers
    <2> QED
      BY <2>1, <2>2, <2>3 DEF Resumable
  <1> QED
    BY <1>1, <1>2

\* A conversation that could be resumed disappears only when a user closes its agent or
\* stops its session or the server, or when its agent has quit or moved by the first poll
\* after the message that titled it: a later quit or switch, losing a client, crashing and
\* restarting keep it (archive_after_quit, poll_events, Server::new).
THEOREM NothingResumableIsLost == Spec => ConversationsSurvive
PROOF
  <1> DEFINE Survive == \A v \in Resumable \ Resumable' :
        \/ DropsUnobserved(v)
        \/ /\ inbox # <<>>
           /\ \/ Head(inbox).type \in {"stopAttached", "stopSession", "stopServer"}
              \/ Head(inbox).type = "close" /\ Head(inbox).conversation = v
  <1>1. IndexInv /\ [Next]_vars => [Survive]_vars
    <2> SUFFICES ASSUME IndexInv, Next PROVE Survive
      OBVIOUS
    <2>1. TypeOK
      BY DEF IndexInv
    <2>2. CASE \/ Client \/ Accept \/ TakeInputs \/ SkipPoll \/ EndLoop
               \/ IgnoreInput \/ HandleHello \/ Refuse
      <3>1. NothingLost /\ phase # "down" /\ phase' # "down"
        BY <2>1, <2>2, QuietSteps DEF Quiet, dataVars, NothingLost, Kept, Named
      <3> QED
        BY <3>1, KeptIsResumable
    <2>3. CASE \/ HandleCreate \/ HandleAttach \/ HandleDetach
               \/ HandleGone \/ RefuseHello \/ DropSlowClient
      <3>1. NothingLost /\ phase # "down" /\ phase' # "down"
        BY <2>1, <2>3, ConnectionSteps DEF ConversationsStay, NothingLost, Kept, Named
      <3> QED
        BY <3>1, KeptIsResumable
    <2>4. CASE Signal
      <3>1. NothingLost /\ phase # "down" /\ phase' # "down"
        BY <2>4 DEF Signal, dataVars, NothingLost, Kept, Named
      <3> QED
        BY <3>1, KeptIsResumable
    <2>5. CASE HandleUse \/ HandleSpawn \/ HandleArchive \/ HandleResume
      <3>1. phase # "down" /\ phase' # "down"
        BY <2>5, HandlerContents DEF Contents
      <3> QED
        BY <2>5, <3>1, HandlersLoseNothing, KeptIsResumable
    <2>6. CASE HandleClose
      BY <2>6, CloseLosesOne
    <2>7. CASE HandleStopAttached \/ HandleStopSession \/ HandleStopServer
      BY <2>7 DEF HandleStopAttached, HandleStopSession, HandleStopServer, Applying, Handling
    <2>8. CASE Finish \/ Crash \/ Panic \/ Start
      BY <2>8, ProcessLosesNothing
    <2>9. CASE Poll
      BY <2>9, PollsDropOnlyUnobserved
    <2> QED
      BY <2>2, <2>3, <2>4, <2>5, <2>6, <2>7, <2>8, <2>9 DEF Next, Loop, Handle
  <1> QED
    BY <1>1, IndexInvHolds, PTL DEF Spec, ConversationsSurvive

=============================================================================
