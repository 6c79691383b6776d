----------------------------- MODULE FrameSync -----------------------------
(***************************************************************************)
(* How an attached client keeps a copy of each agent's terminal.           *)
(*                                                                         *)
(* The server (SessionRuntime and Server in server.rs) numbers every       *)
(* terminal frame of an agent and remembers the last one it produced as    *)
(* the basis of the next diff.  Frames leave through a bounded             *)
(* OutgoingQueue that throws terminal frames away when it is full.  The    *)
(* client (RemoteAgents in agents.rs) applies a diff only on top of the    *)
(* frame it was computed from and asks for a complete frame otherwise.     *)
(*                                                                         *)
(* The four parties are the PTY readers (Output), the server's coordinator *)
(* thread, the connection's writer thread (Write) and the client's main    *)
(* thread.  A screen is the number of changes its terminal has seen, so    *)
(* a patch that is applied to any other screen than the one it was         *)
(* computed from gives Torn, a picture no terminal ever had.               *)
(***************************************************************************)
EXTENDS Naturals, Sequences, FiniteSets

CONSTANTS
  MaxAgents,       \* bound: identifiers the AgentManager hands out
  InitialAgents,   \* agents of the session before the first attachment
  Capacity,        \* CONNECTION_QUEUE: envelopes an OutgoingQueue holds
  WireCapacity,    \* bound: envelopes between the writer and the client loop
  UplinkCapacity,  \* bound: requests between the client and the coordinator
  MaxScreen,       \* bound: changes of one terminal
  MaxScroll,       \* bound: scrollback rows a client asks for
  MaxAttach,       \* bound: attachments of a client
  MaxOps,          \* bound: user operations per attachment
  UserOps          \* what users do: "scroll" "resize" "spawn" "close" "quit"

ASSUME FrameSyncAssumption ==
  /\ MaxAgents \in Nat \ {0} /\ InitialAgents \in 0 .. MaxAgents
  /\ Capacity \in Nat \ {0} /\ WireCapacity \in Nat \ {0}
  /\ UplinkCapacity \in Nat \ {0} /\ MaxScreen \in Nat \ {0}
  /\ MaxScroll \in Nat /\ MaxAttach \in Nat /\ MaxOps \in Nat
  /\ UserOps \subseteq {"scroll", "resize", "spawn", "close", "quit"}

Agent == 1 .. MaxAgents
Torn == 0

VARIABLES
  agents,     \* AgentManager::order
  nextId,     \* AgentManager::next_id
  screen,     \* what each agent's terminal shows
  dirty,      \* agents with output since the last poll
  frames,     \* history: the screen of every frame numbered so far
  basis,      \* SessionRuntime::frame_bases
  outbox,     \* what the coordinator still has to push for this handler
  connected,  \* an interactive client holds the session's lease
  queue,      \* OutgoingQueue::frames
  wire,       \* written, not yet handled by the client
  uplink,     \* requests not yet handled by the coordinator
  cache,      \* RemoteAgents::terminals
  pending,    \* RemoteAgents::pending_resync
  waiting,    \* the client is inside send_and_wait for a spawn
  dropped,    \* history: agents with a frame that send_and_wait threw away
  ops,        \* user operations of this attachment
  attaches    \* attachments so far

serverVars == <<agents, nextId, screen, dirty, frames, basis>>
linkVars == <<outbox, connected, queue, wire, uplink>>
clientVars == <<cache, pending, waiting, dropped>>
vars == <<serverVars, linkVars, clientVars, ops, attaches>>

-----------------------------------------------------------------------------
\* Messages

Full == [type : {"full"}, agent : Agent, sequence : Nat, snapshot : Nat]
Diff == [type : {"diff"}, agent : Agent, base : Nat, sequence : Nat,
         from : Nat, to : Nat]
Viewport == [type : {"viewport"}, agent : Agent, requested : Nat, scrollback : Nat]
Removed == [type : {"removed"}, agent : Agent]
\* Responses, errors and events the frame cache does not look at, and the
\* response a spawning client waits for.
Control == [type : {"control", "spawned"}]
Message == Full \cup Diff \cup Viewport \cup Removed \cup Control
\* QueueResult::NeedsFull: the coordinator owes the client a complete frame.
Owed == [type : {"owed"}, agent : Agent]

Request ==
  [type : {"ack"}, agent : Agent, sequence : Nat]
    \cup [type : {"resync", "close"}, agent : Agent]
    \cup [type : {"viewport"}, agent : Agent, scrollback : Nat]
    \cup [type : {"resize", "spawn"}]

ControlMessage == [type |-> "control"]
IsFrame(m) == m.type \in {"full", "diff", "viewport"}

Basis == [sequence : Nat, acknowledged : Nat, snapshot : Nat]
NoBasis == [sequence |-> 0, acknowledged |-> 0, snapshot |-> 0]
NoBases == [a \in Agent |-> NoBasis]

\* CachedTerminal: sequence 0 is a tracker that has accepted nothing; request,
\* target and view 0 are None.
Terminal == [snapshot : Nat, sequence : Nat, request : Nat, target : Nat, view : Nat]
NoTerminal == [snapshot |-> 0, sequence |-> 0, request |-> 0, target |-> 0, view |-> 0]

\* The increasing enumerations of a finite set of numbers: there is exactly one.
Enumerations(S) ==
  {f \in [1 .. Cardinality(S) -> S] :
     \A i, j \in 1 .. Cardinality(S) : i < j => f[i] < f[j]}

-----------------------------------------------------------------------------
\* The server's frames

Sequence(a) == Len(frames[a])

FullFrame(a, shown) ==
  [type |-> "full", agent |-> a, sequence |-> Sequence(a) + 1, snapshot |-> shown[a]]

DiffFrame(a) ==
  [type |-> "diff", agent |-> a, base |-> basis[a].sequence,
   sequence |-> Sequence(a) + 1, from |-> basis[a].snapshot, to |-> screen[a]]

TerminalEvent(a) == IF basis[a] = NoBasis THEN FullFrame(a, screen) ELSE DiffFrame(a)

IssueOnOldBases(S, old, shown) ==
  /\ frames' = [a \in Agent |-> IF a \in S THEN Append(frames[a], shown[a]) ELSE frames[a]]
  /\ basis' = [a \in Agent |->
       IF a \in S /\ old[a] = NoBasis THEN [NoBasis EXCEPT !.sequence = 1, !.snapshot = shown[a]]
                                     ELSE old[a]]

\* Number a frame of what is shown for each agent of S and make it the basis of
\* that agent's next diff; the other bases become those of old.
Issue(S, old, shown) ==
  /\ frames' = [a \in Agent |-> IF a \in S THEN Append(frames[a], shown[a]) ELSE frames[a]]
  /\ basis' = [a \in Agent |->
       IF a \in S THEN [sequence |-> Sequence(a) + 1,
                        acknowledged |-> old[a].acknowledged,
                        snapshot |-> shown[a]]
                  ELSE old[a]]

-----------------------------------------------------------------------------
\* The connection

\* disconnect and remove_connection on the server, the end of the process on
\* the client: what is queued or on its way is never looked at again.
LoseConnection ==
  /\ connected' = FALSE
  /\ outbox' = <<>> /\ queue' = <<>> /\ wire' = <<>> /\ uplink' = <<>>
  /\ cache' = [a \in Agent |-> NoTerminal]
  /\ pending' = {}
  /\ waiting' = FALSE
  /\ dropped' = {}
  /\ basis' = NoBases
  /\ UNCHANGED <<agents, nextId, screen, dirty, frames, ops, attaches>>

\* The client detaches, exits, crashes or stops reading until the writer's
\* timeout; the coordinator learns of it between two handlers.
ConnectionLost == connected /\ outbox = <<>> /\ LoseConnection

\* The frames of agent a leave the queue; everything else keeps its order.
Purged(a) ==
  {[i \in DOMAIN f |-> queue[f[i]]] :
     f \in Enumerations({k \in DOMAIN queue : ~(IsFrame(queue[k]) /\ queue[k].agent = a)})}

\* The agent whose frames make room for m: m's own, or that of the oldest frame.
Victim(m) ==
  IF IsFrame(m) THEN {m.agent}
  ELSE {queue[k].agent : k \in {i \in DOMAIN queue :
          IsFrame(queue[i]) /\ \A j \in 1 .. i - 1 : ~IsFrame(queue[j])}}

Sending == outbox # <<>> /\ Head(outbox).type # "owed"

RoomAfterTheBound == Len(queue) <= Capacity
Room == Len(queue) < Capacity

\* NeedsFull: whatever was not itself complete leaves a frame owed.
OwesUnlessFrame(m) == ~IsFrame(m)
OwesOnlyForDiffs(m) == m.type = "diff"
Owes(m) == m.type \notin {"full", "viewport"}

\* OutgoingQueue::push with room.
PushQueued ==
  /\ Sending
  /\ Room
  /\ queue' = Append(queue, Head(outbox))
  /\ outbox' = Tail(outbox)
  /\ UNCHANGED <<serverVars, connected, wire, uplink, clientVars, ops, attaches>>

\* OutgoingQueue::push on a full queue that holds frames to give up.  A diff is
\* given up as well.
PushUnderPressure ==
  /\ Sending
  /\ ~Room
  /\ LET m == Head(outbox)
     IN  \E a \in Victim(m) : \E kept \in Purged(a) :
           /\ Len(kept) < Capacity
           /\ queue' = IF m.type = "diff" THEN kept ELSE Append(kept, m)
           /\ outbox' = IF Owes(m) THEN <<[type |-> "owed", agent |-> a]>> \o Tail(outbox)
                                   ELSE Tail(outbox)
  /\ UNCHANGED <<serverVars, connected, wire, uplink, clientVars, ops, attaches>>

\* QueueResult::Full: nothing can make room, the client is dropped.
PushFails ==
  /\ Sending
  /\ ~Room
  /\ \A a \in Victim(Head(outbox)) : \A kept \in Purged(a) : Len(kept) = Capacity
  /\ LoseConnection

\* send() after NeedsFull: a complete frame of the agent is pushed next.
SendOwed ==
  \E a \in agents :
    /\ outbox # <<>> /\ Head(outbox) = [type |-> "owed", agent |-> a]
    /\ outbox' = <<FullFrame(a, screen)>> \o Tail(outbox)
    /\ Issue({a}, basis, screen)
    /\ UNCHANGED <<agents, nextId, screen, dirty, connected, queue, wire, uplink,
                   clientVars, ops, attaches>>

\* send() after NeedsFull for an agent that is gone.
OwedAgentIsGone ==
  \E a \in Agent \ agents :
    /\ outbox # <<>> /\ Head(outbox) = [type |-> "owed", agent |-> a]
    /\ LoseConnection

\* The writer thread: OutgoingQueue::pop and write_frame.
Write ==
  /\ queue # <<>> /\ Len(wire) < WireCapacity
  /\ wire' = Append(wire, Head(queue))
  /\ queue' = Tail(queue)
  /\ UNCHANGED <<serverVars, outbox, connected, uplink, clientVars, ops, attaches>>

-----------------------------------------------------------------------------
\* The coordinator's handlers; each starts when the last one has sent its events

\* A PTY reader feeds the agent's terminal.
Output(a) ==
  /\ a \in agents
  /\ screen[a] < MaxScreen
  /\ screen' = [screen EXCEPT ![a] = @ + 1]
  /\ dirty' = dirty \cup {a}
  /\ UNCHANGED <<agents, nextId, frames, basis, linkVars, clientVars, ops, attaches>>

\* A resize redraws every terminal unless the size is the same.
Resized ==
  {[a \in Agent |-> IF a \in redrawn THEN screen[a] + 1 ELSE screen[a]] :
     redrawn \in {{}, agents}}

\* attach_session and synchronization_events: the response and the session
\* snapshot, a frame of every agent on cleared bases, the usage overview.  A
\* session without agents has just been created or holds archived conversations.
Attach ==
  /\ ~connected
  /\ attaches < MaxAttach
  /\ connected' = TRUE
  /\ \E shown \in Resized : \E order \in Enumerations(agents) :
       /\ screen' = shown
       /\ Issue(agents, NoBases, shown)
       /\ outbox' = <<ControlMessage, ControlMessage>>
                      \o [i \in DOMAIN order |-> FullFrame(order[i], shown)]
                      \o <<ControlMessage>>
  /\ attaches' = attaches + 1
  /\ ops' = 0
  /\ UNCHANGED <<agents, nextId, dirty, queue, wire, uplink, clientVars>>

\* poll_events: an AgentChanged for every agent with output, AgentArchived or
\* AgentRemoved for the agents the user has quit, then the frames.  Without a
\* lease nothing is sent and the output is only noted.
Poll(quit) ==
  LET shown == dirty \ quit
  IN  /\ outbox = <<>>
      /\ dirty \cup quit # {}
      /\ agents' = agents \ quit
      /\ dirty' = {}
      /\ Issue(IF connected THEN shown ELSE {},
               [a \in Agent |-> IF a \in quit THEN NoBasis ELSE basis[a]], screen)
      /\ \E order \in Enumerations(shown) : \E gone \in Enumerations(quit) :
           outbox' = IF connected
                     THEN [i \in DOMAIN order |-> ControlMessage]
                            \o [i \in DOMAIN gone |-> [type |-> "removed", agent |-> gone[i]]]
                            \o [i \in DOMAIN order |-> TerminalEvent(order[i])]
                     ELSE <<>>
      /\ UNCHANGED <<nextId, screen, connected, queue, wire, uplink, clientVars, ops, attaches>>

\* A poll that finds agent a exited after the user asked it to quit.
Quit(a) == "quit" \in UserOps /\ Poll({a})

\* The coordinator takes the oldest request once the last handler's events are out.
Handling(type) ==
  /\ outbox = <<>>
  /\ uplink # <<>> /\ Head(uplink).type = type
  /\ uplink' = Tail(uplink)
  /\ UNCHANGED <<connected, queue, wire, clientVars, ops, attaches>>

\* acknowledge(): refused when the agent has no basis or the sequence is ahead of it.
HandleAck ==
  LET r == Head(uplink)
  IN  /\ Handling("ack")
      /\ basis' = IF /\ basis[r.agent] # NoBasis
                     /\ r.sequence <= basis[r.agent].sequence
                     /\ r.sequence > basis[r.agent].acknowledged
                  THEN [basis EXCEPT ![r.agent].acknowledged = r.sequence]
                  ELSE basis
      /\ outbox' = <<ControlMessage>>
      /\ UNCHANGED <<agents, nextId, screen, dirty, frames>>

\* ResyncTerminal: a complete frame, or an error when the agent is gone.
HandleResync ==
  LET a == Head(uplink).agent
  IN  /\ Handling("resync")
      /\ Issue({a} \cap agents, basis, screen)
      /\ outbox' = IF a \in agents THEN <<ControlMessage, FullFrame(a, screen)>>
                                   ELSE <<ControlMessage>>
      /\ UNCHANGED <<agents, nextId, screen, dirty>>

\* TerminalViewport: the backend clamps the offset to the history it has.
HandleViewport ==
  LET r == Head(uplink)
  IN  /\ Handling("viewport")
      /\ IF r.agent \in agents
         THEN \E shown \in 0 .. r.scrollback :
                outbox' = <<ControlMessage,
                            [type |-> "viewport", agent |-> r.agent,
                             requested |-> r.scrollback, scrollback |-> shown]>>
         ELSE outbox' = <<ControlMessage>>
      /\ UNCHANGED serverVars

\* ResizeSession: the bases go and every agent gets a complete frame.
HandleResize ==
  /\ Handling("resize")
  /\ \E shown \in Resized : \E order \in Enumerations(agents) :
       /\ screen' = shown
       /\ Issue(agents, NoBases, shown)
       /\ outbox' = <<ControlMessage>>
                      \o [i \in DOMAIN order |-> FullFrame(order[i], shown)]
  /\ UNCHANGED <<agents, nextId, dirty>>

\* SpawnAgent: the response, AgentAdded and the first frame of a fresh identifier,
\* or an error when none is left.
HandleSpawn ==
  /\ Handling("spawn")
  /\ agents' = agents \cup ({nextId} \cap Agent)
  /\ nextId' = IF nextId \in Agent THEN nextId + 1 ELSE nextId
  /\ Issue({nextId} \cap Agent, basis, screen)
  /\ outbox' = IF nextId \in Agent
               THEN <<[type |-> "spawned"], ControlMessage, FullFrame(nextId, screen)>>
               ELSE <<[type |-> "spawned"]>>
  /\ UNCHANGED <<screen, dirty>>

\* CloseAgent: the response and AgentRemoved, or an error when it is gone.
HandleClose ==
  LET a == Head(uplink).agent
  IN  /\ Handling("close")
      /\ agents' = agents \ {a}
      /\ dirty' = dirty \ {a}
      /\ basis' = [basis EXCEPT ![a] = NoBasis]
      /\ outbox' = IF a \in agents
                   THEN <<ControlMessage, [type |-> "removed", agent |-> a]>>
                   ELSE <<ControlMessage>>
      /\ UNCHANGED <<nextId, screen, frames>>

-----------------------------------------------------------------------------
\* The client's main loop

\* RemoteAgents::apply takes the oldest envelope.
Receiving(types) ==
  /\ ~waiting
  /\ wire # <<>> /\ Head(wire).type \in types
  /\ wire' = Tail(wire)
  /\ UNCHANGED <<serverVars, outbox, connected, queue, waiting, dropped, ops, attaches>>

\* RemoteAgents::send; the client's write blocks while the socket is full.
Send(r) == Len(uplink) < UplinkCapacity /\ uplink' = Append(uplink, r)
Ack(m) == [type |-> "ack", agent |-> m.agent, sequence |-> m.sequence]

\* TerminalFrameTracker::accept_full and accept_diff
OtherThanTheLast(m) == m.sequence # cache[m.agent].sequence
Newer(m) == m.sequence > cache[m.agent].sequence
Duplicate(m) == cache[m.agent].sequence # 0 /\ ~Newer(m)
GapAtTheStart(m) == cache[m.agent].sequence = 0
Gap(m) ==
  \/ cache[m.agent].sequence = 0
  \/ Newer(m) /\ m.base # cache[m.agent].sequence

\* TerminalSnapshot::apply: a patch is good for one screen only.
Patched(snapshot, m) == IF snapshot = m.from THEN m.to ELSE Torn

RenewedWhileScrolled(m) ==
  [cache[m.agent] EXCEPT !.snapshot = m.snapshot, !.sequence = m.sequence, !.view = 0]
Renewed(m) == [NoTerminal EXCEPT !.snapshot = m.snapshot, !.sequence = m.sequence]
Advanced(m) == [cache[m.agent] EXCEPT !.snapshot = Patched(@, m), !.sequence = m.sequence]

\* apply_full: a newer frame replaces the terminal, its scrollback and any
\* outstanding resync; a repeated one is only acknowledged.
ReceiveFull ==
  LET m == Head(wire)
  IN  /\ Receiving({"full"})
      /\ Send(Ack(m))
      /\ IF Newer(m)
         THEN /\ cache' = [cache EXCEPT ![m.agent] = Renewed(m)]
              /\ pending' = pending \ {m.agent}
         ELSE UNCHANGED <<cache, pending>>

\* apply_diff on top of the last accepted frame.
ReceiveNextDiff ==
  LET m == Head(wire)
  IN  /\ Receiving({"diff"})
      /\ ~Duplicate(m) /\ ~Gap(m)
      /\ Send(Ack(m))
      /\ cache' = [cache EXCEPT ![m.agent] = Advanced(m)]
      /\ UNCHANGED pending

ReceiveDuplicateDiff ==
  LET m == Head(wire)
  IN  /\ Receiving({"diff"})
      /\ Duplicate(m)
      /\ Send(Ack(m))
      /\ UNCHANGED <<cache, pending>>

\* after_frame on a gap: one resync per agent may be outstanding.
ReceiveDiffWithGap ==
  LET m == Head(wire)
  IN  /\ Receiving({"diff"})
      /\ Gap(m)
      /\ pending' = pending \cup {m.agent}
      /\ IF m.agent \in pending THEN UNCHANGED uplink
         ELSE Send([type |-> "resync", agent |-> m.agent])
      /\ UNCHANGED cache

\* apply_viewport: the answer to the outstanding request is shown unless the user
\* has scrolled on, in which case the newer target is requested.
ReceiveViewport ==
  LET m == Head(wire)
      t == cache[m.agent]
      answers == t.request # 0 /\ t.request = m.requested
      again == answers /\ t.target # 0 /\ t.target # m.requested
      shown == answers /\ t.target = m.requested
  IN  /\ Receiving({"viewport"})
      /\ cache' = [cache EXCEPT ![m.agent] =
           [t EXCEPT !.request = IF again THEN t.target ELSE IF answers THEN 0 ELSE @,
                     !.view = IF shown THEN m.scrollback ELSE @,
                     !.target = IF shown THEN m.scrollback ELSE @]]
      /\ IF again
         THEN Send([type |-> "viewport", agent |-> m.agent, scrollback |-> t.target])
         ELSE UNCHANGED uplink
      /\ UNCHANGED pending

\* AgentRemoved and AgentArchived forget the terminal.
ReceiveRemoved ==
  LET a == Head(wire).agent
  IN  /\ Receiving({"removed"})
      /\ cache' = [cache EXCEPT ![a] = NoTerminal]
      /\ pending' = pending \ {a}
      /\ UNCHANGED uplink

ReceiveControl ==
  /\ Receiving({"control", "spawned"})
  /\ UNCHANGED <<uplink, cache, pending>>

\* send_and_wait: everything but the awaited response is thrown away.
ReceiveWhileWaiting ==
  /\ waiting /\ wire # <<>>
  /\ waiting' = (Head(wire).type # "spawned")
  /\ dropped' = dropped \cup {a \in Agent : IsFrame(Head(wire)) /\ Head(wire).agent = a}
  /\ wire' = Tail(wire)
  /\ UNCHANGED <<serverVars, outbox, connected, queue, uplink, cache, pending, ops, attaches>>

\* send_and_wait gives up after CONNECTION_TIMEOUT.
SpawnTimesOut ==
  /\ waiting
  /\ waiting' = FALSE
  /\ UNCHANGED <<serverVars, linkVars, cache, pending, dropped, ops, attaches>>

\* The user acts between two envelopes.
UserOp(op) ==
  /\ op \in UserOps
  /\ connected /\ ~waiting
  /\ ops < MaxOps
  /\ ops' = ops + 1
  /\ UNCHANGED <<serverVars, outbox, connected, queue, wire, pending, dropped, attaches>>

\* scroll() away from the live screen: one request is outstanding at a time.
Scroll(a, requested) ==
  LET t == cache[a]
      current == IF t.target # 0 THEN t.target ELSE t.view
  IN  /\ UserOp("scroll")
      /\ t # NoTerminal
      /\ requested \in {current + 1, current - 1}
      /\ cache' = [cache EXCEPT ![a] =
           [t EXCEPT !.target = requested,
                     !.request = IF @ = 0 THEN requested ELSE @]]
      /\ IF t.request = 0
         THEN Send([type |-> "viewport", agent |-> a, scrollback |-> requested])
         ELSE UNCHANGED uplink
      /\ UNCHANGED waiting

\* show_live(), also scroll() back to the bottom.
ShowLive(a) ==
  /\ UserOp("scroll")
  /\ cache[a] # NoTerminal
  /\ cache' = [cache EXCEPT ![a].target = 0, ![a].view = 0]
  /\ UNCHANGED <<uplink, waiting>>

\* resize(): the client leaves scrollback at once.
Resize ==
  /\ UserOp("resize")
  /\ cache' = [a \in Agent |-> [cache[a] EXCEPT !.request = 0, !.target = 0, !.view = 0]]
  /\ Send([type |-> "resize"])
  /\ UNCHANGED waiting

Spawn ==
  /\ UserOp("spawn")
  /\ Send([type |-> "spawn"])
  /\ waiting' = TRUE
  /\ UNCHANGED cache

Close(a) ==
  /\ UserOp("close")
  /\ a < nextId
  /\ Send([type |-> "close", agent |-> a])
  /\ UNCHANGED <<cache, waiting>>

-----------------------------------------------------------------------------
Init ==
  /\ agents = 1 .. InitialAgents
  /\ nextId = InitialAgents + 1
  /\ screen = [a \in Agent |-> 1]
  /\ dirty = {}
  /\ frames = [a \in Agent |-> <<>>]
  /\ basis = NoBases
  /\ connected = FALSE
  /\ outbox = <<>> /\ queue = <<>> /\ wire = <<>> /\ uplink = <<>>
  /\ cache = [a \in Agent |-> NoTerminal]
  /\ pending = {}
  /\ waiting = FALSE
  /\ dropped = {}
  /\ ops = 0 /\ attaches = 0

Push == PushQueued \/ PushUnderPressure \/ PushFails \/ SendOwed \/ OwedAgentIsGone

Handle == HandleAck \/ HandleResync \/ HandleViewport \/ HandleResize
            \/ HandleSpawn \/ HandleClose

Receive == ReceiveFull \/ ReceiveNextDiff \/ ReceiveDuplicateDiff \/ ReceiveDiffWithGap
             \/ ReceiveViewport \/ ReceiveRemoved \/ ReceiveControl \/ ReceiveWhileWaiting

User == \/ \E a \in Agent : ShowLive(a) \/ Close(a) \/ \E n \in 1 .. MaxScroll : Scroll(a, n)
        \/ Resize \/ Spawn

Next == \/ \E a \in Agent : Output(a)
        \/ Attach \/ ConnectionLost
        \/ Poll({}) \/ \E a \in agents : Quit(a)
        \/ Push \/ Handle
        \/ Write
        \/ Receive \/ SpawnTimesOut \/ User

Spec == Init /\ [][Next]_vars

\* The coordinator loop, the writer thread and the client loop keep running; the
\* agents, the user and the fate of the connection owe nothing.
FairSpec ==
  /\ Spec
  /\ WF_vars(Poll({})) /\ WF_vars(Push) /\ WF_vars(Handle)
  /\ WF_vars(Write) /\ WF_vars(Receive)

-----------------------------------------------------------------------------
\* Properties

\* Every variable holds what its Rust type allows: sequences and screens are
\* numbers, queues hold envelopes, and no queue outgrows its capacity.
TypeOK ==
  /\ agents \subseteq Agent /\ dirty \subseteq Agent
  /\ pending \subseteq Agent /\ dropped \subseteq Agent
  /\ nextId \in Nat
  /\ screen \in [Agent -> Nat \ {0}]
  /\ frames \in [Agent -> Seq(Nat \ {0})]
  /\ basis \in [Agent -> Basis]
  /\ connected \in BOOLEAN /\ waiting \in BOOLEAN
  /\ outbox \in Seq(Message \cup Owed)
  /\ queue \in Seq(Message) /\ Len(queue) <= Capacity
  /\ wire \in Seq(Message) /\ Len(wire) <= WireCapacity
  /\ uplink \in Seq(Request) /\ Len(uplink) <= UplinkCapacity
  /\ cache \in [Agent -> Terminal]
  /\ ops \in Nat /\ attaches \in Nat

\* The envelopes between the coordinator and the client, oldest last.
Downlink == {outbox[i] : i \in DOMAIN outbox} \cup {queue[i] : i \in DOMAIN queue}
              \cup {wire[i] : i \in DOMAIN wire}
Requests == {uplink[i] : i \in DOMAIN uplink}

\* What the client shows after accepting frame n of an agent is exactly the screen
\* the server numbered n, whatever was dropped, repeated or resynchronised on the
\* way (apply_full, apply_diff, terminal_event_with_snapshot).
MirrorsAFrame ==
  \A a \in Agent : cache[a].sequence # 0 =>
    /\ cache[a].sequence \in DOMAIN frames[a]
    /\ cache[a].snapshot = frames[a][cache[a].sequence]

\* No acknowledgement is ever ahead of the basis it is about, so acknowledge() never
\* answers a well-behaved client with "newer than the last server frame".
AcksFollowTheBasis ==
  \A r \in Requests : r.type = "ack" /\ basis[r.agent] # NoBasis =>
    r.sequence <= basis[r.agent].sequence

\* A complete frame of a is on its way, or will be.
FullComing(a) ==
  \/ \E m \in Downlink : m.type \in {"full", "owed"} /\ m.agent = a
  \/ \E r \in Requests : r.type = "resync" /\ r.agent = a

\* A client that does not show a live agent's screen will hear of it: the next poll
\* has output to send, or the newest diff, a complete frame or a resync is under way.
\* Queue pressure may discard frames only when it leaves a repair behind.
StaleIsRepaired ==
  \A a \in agents : connected /\ cache[a].snapshot # screen[a] =>
    \/ a \in dirty
    \/ FullComing(a)
    \/ \E m \in Downlink : m.type = "diff" /\ m.agent = a /\ m.sequence = Sequence(a)

\* An agent the client has asked to resynchronise is not forgotten: pending_resync
\* suppresses every further request, so the answer must still be coming.
ResyncIsAnswered ==
  \A a \in pending \cap agents : FullComing(a)

\* A client that waits for a scrollback viewport gets it, or a complete frame that
\* ends scrolling: until then scroll() sends nothing more.
ScrollIsAnswered ==
  \A a \in agents \ dropped : cache[a].request # 0 =>
    \/ FullComing(a)
    \/ \E m \in Downlink : m.type = "viewport" /\ m.agent = a
    \/ \E r \in Requests : r.type = "viewport" /\ r.agent = a

\* When an agent's terminal falls silent the client ends up showing its last screen,
\* unless the connection is lost or the agent is gone.
CatchesUp ==
  \A a \in Agent :
    []<>(~connected \/ a \notin agents \/ cache[a].snapshot = screen[a])

\* The client's cache implements a mirror of the published frames.
Shown == [a \in Agent |-> [sequence |-> cache[a].sequence, snapshot |-> cache[a].snapshot]]
Mirror == INSTANCE ScreenMirror WITH shown <- Shown

\* Every step of the protocol publishes frames, moves one terminal forward to a frame
\* the server numbered, forgets terminals or leaves the mirror alone.
MirrorSpec == Mirror!Spec

=============================================================================
