------------------------------- MODULE Server -------------------------------
(***************************************************************************)
(* The background server's coordinator (Server in server.rs): connections, *)
(* sessions, the lease that lets one connection drive a session, the       *)
(* conversations of each session, the index of them kept on disk, and the  *)
(* life of the process.                                                    *)
(*                                                                         *)
(* The coordinator owns all of this and handles one input at a time.       *)
(* Around it run the clients, which learn a token from a response and use  *)
(* it until they close; the reader threads, which put requests and the end *)
(* of a connection into one queue; the agents, which are quit and named at *)
(* their own pace; and the operating system, which signals and kills.      *)
(*                                                                         *)
(* An agent stands for the conversation it holds.  The lease tokens of a   *)
(* server carry its instance, so they are numbered here across restarts.   *)
(***************************************************************************)
EXTENDS Naturals, Sequences, FiniteSets

CONSTANTS
  Conversation,    \* conversations the agents can hold
  MaxConnection,   \* bound: connection identifiers
  MaxSession,      \* bound: session identifiers
  MaxToken,        \* bound: lease tokens
  MaxStart,        \* bound: starts of the server process
  InboxCapacity    \* INPUT_QUEUE: inputs on their way to the coordinator

ASSUME ServerAssumption ==
  /\ MaxConnection \in Nat /\ MaxSession \in Nat /\ MaxToken \in Nat
  /\ MaxStart \in Nat /\ InboxCapacity \in Nat

Connection == 1 .. MaxConnection
Session == 1 .. MaxSession
None == 0

VARIABLES
  phase,           \* where Server::run is: "top", "inputs", "end", or "down"
  stopping,        \* Server::stopping
  role,            \* Connection::role; "absent" when the server does not hold it
  attached,        \* Connection::attached_session
  sessions,        \* the keys of Server::sessions
  lease,           \* ServerSessionState::attachment
  agents,          \* the conversations of the session's agents
  archived,        \* SessionRuntime::archived
  known,           \* of a running conversation: "id" observed, "title" in its draft, "shown"
                   \* when a poll has observed that title (ObservedAgent, InputDraft)
  saved,           \* the index files in the conversation directory
  nextConnection,  \* Server::next_connection_id
  nextSession,     \* Server::next_session_id
  nextToken,       \* Server::next_token
  starts,          \* starts of the process so far
  inbox,           \* Server::input_rx
  open,            \* clients that have not closed their socket
  token            \* the lease each client was given

loopVars == <<phase, stopping>>
connVars == <<role, attached, open, token>>
dataVars == <<agents, archived, known>>
counters == <<nextConnection, nextSession, nextToken, starts>>
vars == <<loopVars, connVars, sessions, lease, dataVars, saved, counters, inbox>>

-----------------------------------------------------------------------------
NoLease == [holder |-> None, token |-> None]
Lease == [holder : Connection \cup {None}, token : Nat]
LeaseRequests == {"use", "detach", "spawn", "close", "archive", "resume", "stopAttached"}
Input ==
  [type : {"hello"}, conn : Connection, role : {"interactive", "control"}]
    \cup [type : {"create", "stopServer", "gone"}, conn : Connection]
    \cup [type : {"attach"}, conn : Connection, session : Session, takeover : BOOLEAN]
    \cup [type : {"stopSession"}, conn : Connection, session : Session]
    \cup [type : {"use", "detach", "spawn", "stopAttached"}, conn : Connection, token : Nat]
    \cup [type : {"close", "archive", "resume"}, conn : Connection, token : Nat,
          conversation : Conversation]

Held == {c \in Connection : role[c] # "absent"}
Empty(s) == agents[s] = {} /\ archived[s] = {}
Running == UNION {agents[s] : s \in Session}

Facts == {"id", "title", "shown"}

\* conversation_index takes the title of the draft; archive() the one observed last.
Named(v) == {"id", "title"} \subseteq known[v]
Archivable(v) == {"id", "shown"} \subseteq known[v]

\* ConversationIndex: entries without an id or a title are written, not restored.
Kept(s) == {v \in agents[s] : Named(v)} \cup archived[s]
Noted(s) == {v \in agents[s] : known[v] # {} /\ ~Named(v)}
NoIndex == [kept |-> {}, noted |-> {}]
IndexOfAgents == [s \in Session |-> IF s \in sessions
                    THEN [kept |-> Kept(s) \ archived[s], noted |-> Noted(s)] ELSE NoIndex]
Index == [s \in Session |-> IF s \in sessions THEN [kept |-> Kept(s), noted |-> Noted(s)]
                            ELSE NoIndex]

\* persist_conversations: the files become what is indexed now.
Persist == saved' = Index'

\* The named connections leave Server::connections and their clients see the end.
Released(R) ==
  /\ role' = [c \in Connection |-> IF c \in R THEN "absent" ELSE role[c]]
  /\ open' = open \ R

\* The drafts and observations of the conversations of C go with their agents.
Forgotten(C) == [v \in Conversation |-> IF v \in C THEN {} ELSE known[v]]

\* The sessions of S leave Server::sessions.
Dropped(S) ==
  /\ sessions' = sessions \ S
  /\ lease' = [s \in Session |-> IF s \in S THEN NoLease ELSE lease[s]]
  /\ agents' = [s \in Session |-> IF s \in S THEN {} ELSE agents[s]]
  /\ archived' = [s \in Session |-> IF s \in S THEN {} ELSE archived[s]]
  /\ known' = Forgotten(UNION {agents[s] : s \in S})

\* Everything the process holds in memory goes with it.
ProcessEnds ==
  /\ phase' = "down"
  /\ stopping' = FALSE
  /\ role' = [c \in Connection |-> "absent"] /\ open' = {}
  /\ attached' = [c \in Connection |-> None]
  /\ token' = [c \in Connection |-> None]
  /\ Dropped(Session)
  /\ inbox' = <<>>
  /\ UNCHANGED counters

-----------------------------------------------------------------------------
\* The clients

RoomForOneMore == Len(inbox) <= InboxCapacity
InboxHasRoom == Len(inbox) < InboxCapacity

Send(r) ==
  /\ phase # "down" /\ r.conn \in open
  /\ InboxHasRoom
  /\ inbox' = Append(inbox, r)
  /\ UNCHANGED <<loopVars, role, attached, token, sessions, lease, dataVars, saved, counters>>

Hello(c, r) ==
  /\ Send([type |-> "hello", conn |-> c, role |-> r])
  /\ role[c] = "none" /\ \A i \in DOMAIN inbox : inbox[i].conn # c
  /\ UNCHANGED open

Ask(c) ==
  /\ UNCHANGED open
  /\ role[c] = "interactive"
  /\ \/ /\ token[c] = None
        /\ \/ Send([type |-> "create", conn |-> c])
           \/ \E s \in Session, takeover \in BOOLEAN :
                Send([type |-> "attach", conn |-> c, session |-> s, takeover |-> takeover])
     \/ /\ token[c] # None
        /\ \/ \E type \in {"use", "detach", "spawn", "stopAttached"} :
                Send([type |-> type, conn |-> c, token |-> token[c]])
           \/ \E type \in {"close", "archive", "resume"}, v \in Conversation :
                Send([type |-> type, conn |-> c, token |-> token[c], conversation |-> v])

Stop(c) ==
  /\ UNCHANGED open
  /\ role[c] = "control"
  /\ \/ \E s \in Session : Send([type |-> "stopSession", conn |-> c, session |-> s])
     \/ Send([type |-> "stopServer", conn |-> c])

\* The client closes its socket or dies; the reader thread reports the end last.
Close(c) ==
  /\ Send([type |-> "gone", conn |-> c])
  /\ open' = open \ {c}

-----------------------------------------------------------------------------
\* The coordinator loop

\* accept_connections at the top of the loop.
Accept ==
  /\ phase = "top" /\ ~stopping
  /\ nextConnection \in Connection
  /\ nextConnection' = nextConnection + 1
  /\ role' = [role EXCEPT ![nextConnection] = "none"]
  /\ open' = open \cup {nextConnection}
  /\ UNCHANGED <<loopVars, attached, token, sessions, lease, dataVars, saved,
                 nextSession, nextToken, starts, inbox>>

\* recv_timeout returns and the queue is drained.
TakeInputs ==
  /\ phase = "top" /\ ~stopping
  /\ phase' = "inputs"
  /\ UNCHANGED <<stopping, connVars, sessions, lease, dataVars, saved, counters, inbox>>

\* A signal: begin_shutdown, and the loop is left at once.
Signal ==
  /\ phase = "top" /\ ~stopping
  /\ stopping' = TRUE
  /\ UNCHANGED <<phase, connVars, sessions, lease, dataVars, counters, inbox>>
  /\ Persist

\* finish_shutdown after the loop.
Finish ==
  /\ phase = "top" /\ stopping
  /\ saved' = IF sessions # {} THEN Index ELSE saved
  /\ ProcessEnds

\* The queue is empty and the frame boundary has not come.
SkipPoll ==
  /\ phase = "inputs" /\ inbox = <<>>
  /\ phase' = "end"
  /\ UNCHANGED <<stopping, connVars, sessions, lease, dataVars, saved, counters, inbox>>

\* update_lifetime: a server without sessions and connections ends after a while.
EndLoop ==
  /\ phase = "end"
  /\ phase' = "top"
  /\ stopping' \in {stopping, stopping \/ (sessions = {} /\ Held = {})}
  /\ UNCHANGED <<connVars, sessions, lease, dataVars, saved, counters, inbox>>

\* The process is killed, or accept_connections fails.
Crash ==
  /\ phase # "down"
  /\ UNCHANGED saved
  /\ ProcessEnds

\* Server::new restores every index; its conversations are all archived.
Start ==
  /\ phase = "down"
  /\ starts < MaxStart
  /\ starts' = starts + 1
  /\ phase' = "top"
  /\ sessions' = {s \in Session : saved[s] # NoIndex}
  /\ archived' = [s \in Session |-> saved[s].kept]
  /\ nextSession' \in {n \in 1 .. MaxSession + 1 :
       (\A s \in sessions' : s < n) /\ (n = 1 \/ n - 1 \in sessions')}
  /\ UNCHANGED <<stopping, connVars, lease, agents, known, saved, nextConnection, nextToken,
                 inbox>>

-----------------------------------------------------------------------------
\* poll_sessions

DroppedOnLeaving(left) == {}

\* archive_after_quit, and the archiving of a switch: the title is the one observed
\* before this poll, and a conversation without one is dropped.
ArchivedOnLeaving(left) == {v \in left : Archivable(v)}

\* The conversation an agent moves to: a reactivated one is named, another may have a
\* first message in the harness's history.
Arrived(v, told) == IF v \in told \cup UNION {archived[s] : s \in Session} THEN Facts ELSE {"id"}

\* An observation notes the draft's title, and the id once the harness has revealed it.
Observed(v, told) ==
  known[v] \cup (IF v \in told THEN {"id"} ELSE {})
           \cup (IF "title" \in known[v] THEN {"shown"} ELSE {})

\* A poll sees the agents of seen (poll() of the others fails): those of quit have ended
\* after a /quit, each of the others holds conversation to[v], another one if it moved.
Polled(seen, told, quit, to) ==
  /\ \A v \in seen \ quit : to[v] # v =>
       /\ "id" \in known[v] /\ to[v] \notin Running
       /\ \A w \in seen \ quit : to[w] = to[v] => w = v
       /\ \A s \in Session : to[v] \in archived[s] => v \in agents[s]
  /\ agents' = [s \in Session |->
       (agents[s] \ seen) \cup {to[v] : v \in agents[s] \cap (seen \ quit)}]
  /\ archived' = [s \in Session |->
       (archived[s] \ (agents'[s] \ agents[s])) \cup ArchivedOnLeaving(agents[s] \ agents'[s])]
  /\ known' = [v \in Conversation |->
       IF v \notin Running' THEN {}
       ELSE IF v \notin Running THEN Arrived(v, told)
       ELSE IF v \in seen THEN Observed(v, told) ELSE known[v]]

Poll ==
  /\ phase = "inputs" /\ inbox = <<>>
  /\ phase' = "end"
  /\ \E seen \in SUBSET Running, told \in SUBSET Conversation :
       \E quit \in SUBSET seen : \E to \in [seen \ quit -> Conversation] :
         Polled(seen, told, quit, to)
  /\ UNCHANGED <<stopping, connVars, sessions, lease, counters, inbox>>
  /\ Persist

-----------------------------------------------------------------------------
\* handle_input

\* The next input, when its connection is still held.
Handling(types) ==
  /\ phase = "inputs"
  /\ inbox # <<>> /\ Head(inbox).type \in types
  /\ role[Head(inbox).conn] # "absent"
  /\ inbox' = Tail(inbox)
  /\ UNCHANGED loopVars

\* Frames and the end of a connection the coordinator has already removed.
IgnoreInput ==
  /\ phase = "inputs"
  /\ inbox # <<>> /\ role[Head(inbox).conn] = "absent"
  /\ inbox' = Tail(inbox)
  /\ UNCHANGED <<loopVars, connVars, sessions, lease, dataVars, saved, counters>>

HandleHello ==
  LET r == Head(inbox)
  IN  /\ Handling({"hello"})
      /\ role' = [role EXCEPT ![r.conn] = r.role]
      /\ UNCHANGED <<attached, open, token, sessions, lease, dataVars, saved, counters>>

\* attached_session(): the connection is attached and its token is the lease's.
LeaseValid(r) ==
  attached[r.conn] \in sessions /\ lease[attached[r.conn]].token = r.token

\* attach_session and validate_attach
MayAttachAnyway(r) == attached[r.conn] = None /\ r.session \in sessions
MayAttach(r) ==
  /\ attached[r.conn] = None
  /\ r.session \in sessions
  /\ lease[r.session] = NoLease \/ r.takeover

\* What apply_request checks before it changes anything; identifiers run out.
Permitted(r) ==
  \/ r.type = "create" /\ attached[r.conn] = None /\ nextSession \in Session
       /\ nextToken <= MaxToken
  \/ r.type = "attach" /\ MayAttach(r) /\ nextToken <= MaxToken
  \/ r.type \in {"use", "detach", "spawn", "stopAttached"} /\ LeaseValid(r)
  \/ r.type = "close" /\ LeaseValid(r) /\ r.conversation \in agents[attached[r.conn]]
  \/ /\ r.type = "archive" /\ LeaseValid(r)
     /\ r.conversation \in agents[attached[r.conn]] /\ Archivable(r.conversation)
  \/ r.type = "resume" /\ LeaseValid(r) /\ r.conversation \in archived[attached[r.conn]]
  \/ r.type = "stopSession" /\ r.session \in sessions
  \/ r.type = "stopServer"

Applying(types) == Handling(types) /\ Permitted(Head(inbox))

\* An error response: the request is not permitted, or resizing, starting or ending
\* a terminal fails before the session has changed.
Refuse ==
  /\ Handling(LeaseRequests \cup {"create", "attach", "stopSession", "stopServer"})
  /\ ~Permitted(Head(inbox))
       \/ Head(inbox).type \in {"attach", "spawn", "close", "archive", "resume"}
  /\ Head(inbox).type \in LeaseRequests =>
       attached[Head(inbox).conn] \in sessions \cup {None}
  /\ UNCHANGED <<connVars, sessions, lease, dataVars, saved, counters>>

\* attached_session() indexes a session that StopServer has removed: a panic.
Panic ==
  /\ phase = "inputs"
  /\ inbox # <<>> /\ Head(inbox).type \in LeaseRequests
  /\ role[Head(inbox).conn] # "absent"
  /\ attached[Head(inbox).conn] \notin sessions \cup {None}
  /\ UNCHANGED saved
  /\ ProcessEnds

GrantedByConnection(c, s) ==
  /\ nextToken' = nextToken + 1
  /\ lease' = [lease EXCEPT ![s] = [holder |-> c, token |-> c]]

\* Connection c takes the lease of session s with a new token.
Granted(c, s) ==
  /\ nextToken' = nextToken + 1
  /\ lease' = [lease EXCEPT ![s] = [holder |-> c, token |-> nextToken]]

HandleCreate ==
  LET c == Head(inbox).conn
  IN  /\ Applying({"create"})
      /\ nextSession' = nextSession + 1
      /\ sessions' = sessions \cup {nextSession}
      /\ Granted(c, nextSession)
      /\ attached' = [attached EXCEPT ![c] = nextSession]
      /\ token' = [token EXCEPT ![c] = nextToken]
      /\ UNCHANGED <<role, open, dataVars, nextConnection, starts>>
      /\ Persist

NobodyRevoked(s) == {}
Revoked(s) == {lease[s].holder} \ {None}

\* attach_session: a takeover revokes the holder's lease and disconnects it.
HandleAttach ==
  LET r == Head(inbox)
      revoked == Revoked(r.session)
  IN  /\ Applying({"attach"})
      /\ Granted(r.conn, r.session)
      /\ attached' = [c \in Connection |->
           IF c = r.conn THEN r.session ELSE IF c \in revoked THEN None ELSE attached[c]]
      /\ token' = [c \in Connection |->
           IF c = r.conn THEN nextToken ELSE IF c \in revoked THEN None ELSE token[c]]
      /\ Released(revoked)
      /\ UNCHANGED <<sessions, dataVars, nextConnection, nextSession, starts>>
      /\ Persist

LeaseStays(s) == UNCHANGED <<sessions, lease, dataVars>>

\* The lease of session s ends; a session that holds nothing ends with it.
LeaseEnds(s) ==
  IF Empty(s) THEN Dropped({s})
  ELSE lease' = [lease EXCEPT ![s] = NoLease] /\ UNCHANGED <<sessions, dataVars>>

HandleDetach ==
  LET c == Head(inbox).conn
  IN  /\ Applying({"detach"})
      /\ LeaseEnds(attached[c])
      /\ attached' = [attached EXCEPT ![c] = None]
      /\ token' = [token EXCEPT ![c] = None]
      /\ UNCHANGED <<role, open, counters>>
      /\ Persist

\* Input, resizes, selections and frame acknowledgements: at most a message is
\* submitted that titles a draft, which the index then holds and no poll has observed.
HandleUse ==
  LET s == attached[Head(inbox).conn]
  IN  /\ Applying({"use"})
      /\ \/ UNCHANGED known
         \/ \E v \in agents[s] : known' = [known EXCEPT ![v] = @ \cup {"title"}]
      /\ UNCHANGED <<connVars, sessions, lease, agents, archived, counters>>
      /\ Persist

\* A new agent has said nothing yet; its harness may take a conversation id of ours.
HandleSpawn ==
  LET s == attached[Head(inbox).conn]
  IN  /\ Applying({"spawn"})
      /\ \E v \in Conversation \ Running :
           /\ \A t \in Session : v \notin archived[t]
           /\ agents' = [agents EXCEPT ![s] = @ \cup {v}]
           /\ \E facts \in {{}, {"id"}} : known' = [known EXCEPT ![v] = facts]
      /\ UNCHANGED <<connVars, sessions, lease, archived, counters>>
      /\ Persist

HandleClose ==
  LET r == Head(inbox)
  IN  /\ Applying({"close"})
      /\ agents' = [agents EXCEPT ![attached[r.conn]] = @ \ {r.conversation}]
      /\ known' = Forgotten({r.conversation})
      /\ UNCHANGED <<connVars, sessions, lease, archived, counters>>
      /\ Persist

HandleArchive ==
  LET r == Head(inbox)
  IN  /\ Applying({"archive"})
      /\ agents' = [agents EXCEPT ![attached[r.conn]] = @ \ {r.conversation}]
      /\ archived' = [archived EXCEPT ![attached[r.conn]] = @ \cup {r.conversation}]
      /\ known' = Forgotten({r.conversation})
      /\ UNCHANGED <<connVars, sessions, lease, counters>>
      /\ Persist

HandleResume ==
  LET r == Head(inbox)
  IN  /\ Applying({"resume"})
      /\ agents' = [agents EXCEPT ![attached[r.conn]] = @ \cup {r.conversation}]
      /\ archived' = [archived EXCEPT ![attached[r.conn]] = @ \ {r.conversation}]
      /\ known' = [known EXCEPT ![r.conversation] = Facts]
      /\ UNCHANGED <<connVars, sessions, lease, counters>>
      /\ Persist

\* stop_session_runtime on behalf of connection c: another holder is disconnected.
SessionStops(s, c) ==
  LET holder == Revoked(s)
  IN  /\ Dropped({s})
      /\ attached' = [h \in Connection |-> IF h \in holder THEN None ELSE attached[h]]
      /\ token' = [h \in Connection |-> IF h \in holder THEN None ELSE token[h]]
      /\ Released(holder \ {c})
      /\ UNCHANGED counters
      /\ Persist

HandleStopAttached ==
  Applying({"stopAttached"}) /\ SessionStops(attached[Head(inbox).conn], Head(inbox).conn)

HandleStopSession ==
  Applying({"stopSession"}) /\ SessionStops(Head(inbox).session, Head(inbox).conn)

\* StopServer saves the index and ends every session; the loop goes on to the end
\* of its round, and the connections stay attached.
HandleStopServer ==
  /\ phase = "inputs"
  /\ inbox # <<>> /\ Head(inbox).type = "stopServer"
  /\ role[Head(inbox).conn] # "absent"
  /\ inbox' = Tail(inbox)
  /\ stopping' = TRUE
  /\ saved' = Index
  /\ Dropped(Session)
  /\ UNCHANGED <<phase, connVars, counters>>

\* remove_connection(c): whatever connection c was attached to is free again.
Removed(c) ==
  /\ IF attached[c] \in sessions /\ lease[attached[c]].holder = c
     THEN LeaseEnds(attached[c])
     ELSE UNCHANGED <<sessions, lease, dataVars>>
  /\ Released({c})
  /\ attached' = [attached EXCEPT ![c] = None]
  /\ token' = [token EXCEPT ![c] = None]
  /\ UNCHANGED counters

Disconnect(c) == Removed(c) /\ Persist

\* handle_hello: another message came first, or no protocol version is shared.
RefuseHello ==
  Handling({"hello"}) /\ Removed(Head(inbox).conn) /\ UNCHANGED saved

HandleGone == Handling({"gone"}) /\ Disconnect(Head(inbox).conn)

\* send() finds no room for a frame: the client is too slow.
DropSlowClient ==
  /\ phase = "inputs"
  /\ \E c \in Held : Disconnect(c)
  /\ UNCHANGED <<loopVars, inbox>>

-----------------------------------------------------------------------------
Init ==
  /\ phase = "down" /\ stopping = FALSE
  /\ role = [c \in Connection |-> "absent"] /\ open = {}
  /\ attached = [c \in Connection |-> None] /\ token = [c \in Connection |-> None]
  /\ sessions = {} /\ lease = [s \in Session |-> NoLease]
  /\ agents = [s \in Session |-> {}] /\ archived = [s \in Session |-> {}]
  /\ known = [v \in Conversation |-> {}]
  /\ saved = [s \in Session |-> NoIndex]
  /\ nextConnection = 1 /\ nextSession = 1 /\ nextToken = 1 /\ starts = 0
  /\ inbox = <<>>

Client == \E c \in Connection :
  Ask(c) \/ Stop(c) \/ Close(c) \/ \E r \in {"interactive", "control"} : Hello(c, r)

Loop == Accept \/ TakeInputs \/ Signal \/ Finish \/ SkipPoll \/ EndLoop
          \/ Poll

Handle == IgnoreInput \/ HandleHello \/ RefuseHello \/ Refuse \/ Panic
            \/ HandleCreate \/ HandleAttach \/ HandleDetach \/ HandleUse \/ HandleSpawn
            \/ HandleClose \/ HandleArchive \/ HandleResume
            \/ HandleStopAttached \/ HandleStopSession \/ HandleStopServer
            \/ HandleGone \/ DropSlowClient

Next == Client \/ Loop \/ Handle \/ Crash \/ Start

Spec == Init /\ [][Next]_vars

-----------------------------------------------------------------------------
\* Properties

\* Every variable holds what its Rust type allows, and the input queue is bounded.
TypeOK ==
  /\ phase \in {"top", "inputs", "end", "down"} /\ stopping \in BOOLEAN
  /\ role \in [Connection -> {"absent", "none", "interactive", "control"}]
  /\ attached \in [Connection -> Session \cup {None}]
  /\ sessions \subseteq Session
  /\ lease \in [Session -> Lease]
  /\ agents \in [Session -> SUBSET Conversation]
  /\ archived \in [Session -> SUBSET Conversation]
  /\ known \in [Conversation -> SUBSET Facts]
  /\ saved \in [Session -> [kept : SUBSET Conversation, noted : SUBSET Conversation]]
  /\ nextConnection \in Nat /\ nextSession \in Nat \ {0} /\ nextToken \in Nat \ {0}
  /\ starts \in Nat
  /\ inbox \in Seq(Input) /\ Len(inbox) <= InboxCapacity
  /\ open \subseteq Connection
  /\ token \in [Connection -> Nat]

\* attached_session and the session's lease always name each other, so the token alone
\* identifies the connection that attached_session() lets through, and a session whose
\* holder has gone can be attached again (attach_session, remove_connection).
LeaseIsMutual ==
  /\ \A c \in Connection : attached[c] \in sessions => lease[attached[c]].holder = c
  /\ \A s \in Session : lease[s].holder # None =>
       s \in sessions /\ role[lease[s].holder] # "absent" /\ attached[lease[s].holder] = s

\* A client that the server has not disconnected holds the lease it was given, unless
\* its session is gone in a server that is stopping: no takeover, stop or crash of
\* another client leaves it typing into a session it has lost.
ClientsKeepTheirLease ==
  \A c \in open : token[c] # None /\ attached[c] \in sessions \cup {None} =>
    /\ attached[c] # None
    /\ lease[attached[c]] = [holder |-> c, token |-> token[c]]

\* A lease passes from one connected client to another only in a takeover that was
\* asked for ("only when disconnecting that UI is intentional", README).
OnlyByTakeover ==
  [][\A s \in Session :
       lease[s].holder # None /\ lease'[s].holder \notin {None, lease[s].holder} =>
         /\ inbox # <<>> /\ Head(inbox).type = "attach" /\ Head(inbox).takeover
         /\ Head(inbox).session = s]_vars

Opens(t) == \E s \in sessions : lease[s].token = t

\* A token that no longer opens its session never opens a session again, across
\* detaching, takeovers, stops and restarts (Server::lease_token).
TokensStaySpent ==
  [][\A t \in 1 .. nextToken - 1 : ~Opens(t) => ~Opens(t)']_vars

\* Between two inputs the index on disk holds every conversation that could be resumed
\* (handle_envelope, disconnect and poll_sessions each persist what they change).
SavedIsCurrent ==
  phase # "down" /\ ~stopping => \A s \in Session : saved[s].kept = Kept(s)

\* What a user could resume now or after the next start.
Resumable ==
  IF phase = "down" THEN UNION {saved[s].kept : s \in Session}
  ELSE UNION {Kept(s) : s \in Session}

\* A poll finds that the agent of v has quit or moved before any poll had observed the
\* title its conversation has: archive() drops it (PolledStaysResumable).
DropsUnobserved(v) ==
  /\ phase = "inputs" /\ phase' = "end"
  /\ v \in Running \ Running' /\ ~Archivable(v)

\* A resumable conversation disappears only when a user closes its agent or stops its
\* session or the server, or when its agent has quit or moved by the first poll after
\* the message that titled it: not by a later quit or switch, a crash or the loss of a
\* client (archive_after_quit, poll_events, remove_connection, Server::new).
ConversationsSurvive ==
  [][\A v \in Resumable \ Resumable' :
       \/ DropsUnobserved(v)
       \/ /\ inbox # <<>>
          /\ \/ Head(inbox).type \in {"stopAttached", "stopSession", "stopServer"}
             \/ Head(inbox).type = "close" /\ Head(inbox).conversation = v]_vars

\* A conversation that the index holds and that a poll finds quit or left is archived,
\* "or [dropped] when it cannot be resumed" (archive_after_quit).
PolledStaysResumable ==
  [][phase = "inputs" /\ phase' = "end" => Resumable \subseteq Resumable']_vars

\* Stopping the server leaves the saved index alone, as the test
\* explicit_server_stop_keeps_the_conversation_index expects.
StopKeepsTheIndex ==
  [][stopping => \A s \in Session : saved[s].kept \subseteq saved'[s].kept]_vars

\* A connection that sends a request with its lease is attached to a session that
\* exists, as attached_session() and its callers assume.
AttachedSessionExists ==
  phase = "inputs" /\ inbox # <<>> /\ Head(inbox).type \in LeaseRequests =>
    attached[Head(inbox).conn] \in sessions \cup {None}

=============================================================================
