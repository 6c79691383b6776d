----------------------------- MODULE OutputPath -----------------------------
(***************************************************************************)
(* The way of an agent's output to the frames: what FrameSync sees as one  *)
(* step, thread by thread.                                                 *)
(*                                                                         *)
(* Each agent has a reader thread (spawn_reader in terminal_process.rs)    *)
(* that feeds the terminal, counts the read in an atomic generation and    *)
(* notes the agent in a bounded channel that drops when full               *)
(* (AgentManager).  The coordinator polls at every frame boundary          *)
(* (Server::run, SessionRuntime::poll_events): it reads generations first  *)
(* and screens later, while the readers go on.                             *)
(*                                                                         *)
(* The wake a reader raises besides only makes the loop look at the time   *)
(* earlier, handle_input ignores it, and is left out.                      *)
(***************************************************************************)
EXTENDS Naturals, Sequences

CONSTANTS
  MaxAgent,      \* the agents of the session
  NoteCapacity,  \* capacity of AgentManager::dirty_tx
  MaxReads       \* bound: reads, and parts of them, of all the readers

ASSUME OutputAssumption ==
  MaxAgent \in Nat /\ NoteCapacity \in Nat /\ MaxReads \in Nat

Agent == 1 .. MaxAgent

VARIABLES
  reads,       \* reads so far
  reader,      \* where each reader thread is
  closed,      \* TerminalProcess::output_closed
  screen,      \* changes of the terminal so far
  generation,  \* TerminalProcess::generation
  notes,       \* AgentManager::dirty_rx
  phase,       \* where the coordinator is
  left,        \* agents a poll has still to look at
  noted,       \* what this poll found in dirty_rx
  seen,        \* the generations this poll has read
  captured,    \* the screens this poll has taken; 0 is none
  due,         \* agents whose frame this poll is going to send
  observed,    \* SessionRuntime::previous, the generation of each agent
  attached,    \* a client holds the session's lease
  sent         \* the screen of the last frame; 0 is none

readerVars == <<reads, reader, closed, screen, generation>>
pollVars == <<phase, left, noted, seen, captured, due, observed>>
clientVars == <<attached, sent>>
vars == <<readerVars, notes, pollVars, clientVars>>

-----------------------------------------------------------------------------
\* A reader thread

Moves(a, from, to) == reader[a] = from /\ reader' = [reader EXCEPT ![a] = to]
Reads(a, from, to) == Moves(a, from, to) /\ reads < MaxReads /\ reads' = reads + 1

\* Read a chunk and process it, part after part, each under the terminal's lock.
Read(a) ==
  /\ \E from \in {"reading", "shown"} : Reads(a, from, "shown")
  /\ screen' = [screen EXCEPT ![a] = @ + 1]
  /\ UNCHANGED <<closed, generation, notes, pollVars, clientVars>>

Count(a) ==
  /\ Moves(a, "shown", "counted")
  /\ generation' = [generation EXCEPT ![a] = @ + 1]
  /\ UNCHANGED <<reads, closed, screen, notes, pollVars, clientVars>>

\* The end of the output, or a failing read: the owner is notified all the same.
Hangup(a) ==
  /\ Reads(a, "reading", "counted")
  /\ closed' = closed \cup {a}
  /\ UNCHANGED <<screen, generation, notes, pollVars, clientVars>>

RoomForOneMore == Len(notes) <= NoteCapacity
RoomForNote == Len(notes) < NoteCapacity

\* notifier(): a note that finds no room is dropped.
Note(a) ==
  /\ Moves(a, "counted", IF a \in closed THEN "ended" ELSE "reading")
  /\ notes' = IF RoomForNote THEN Append(notes, a) ELSE notes
  /\ UNCHANGED <<reads, closed, screen, generation, pollVars, clientVars>>

-----------------------------------------------------------------------------
\* The coordinator

\* attach_session and synchronization_events: a frame of every screen.
Attach ==
  /\ phase = "inputs" /\ ~attached
  /\ attached' = TRUE
  /\ sent' = screen
  /\ UNCHANGED <<readerVars, notes, pollVars>>

Detach ==
  /\ phase = "inputs" /\ attached
  /\ attached' = FALSE
  /\ sent' = [a \in Agent |-> 0]
  /\ UNCHANGED <<readerVars, notes, pollVars>>

\* A poll is due; drain_dirty() comes first.
DrainNotes ==
  /\ phase = "inputs"
  /\ phase' = "reading" /\ left' = Agent
  /\ noted' = {notes[i] : i \in DOMAIN notes} /\ notes' = <<>>
  /\ UNCHANGED <<readerVars, seen, captured, due, observed, clientVars>>

\* One agent after another.
Visit(from, a) ==
  /\ phase = from
  /\ a \in left /\ \A b \in left : a <= b
  /\ UNCHANGED <<readerVars, notes, noted, attached>>

\* After the last agent the next phase starts with the agents of set S.
Onwards(a, to, S) ==
  IF left = {a} THEN phase' = to /\ left' = S ELSE left' = left \ {a} /\ UNCHANGED phase

\* agents.poll(): the generation of every agent before anything else.
ReadGeneration(a) ==
  /\ Visit("reading", a)
  /\ seen' = [seen EXCEPT ![a] = generation[a]]
  /\ Onwards(a, "capturing", Agent)
  /\ UNCHANGED <<noted, captured, due, observed, sent>>

OnlyNoted(a) == a \in noted
Changed(a) == a \in noted \/ seen[a] # observed[a]

GenerationNow(a) == generation[a]
GenerationSeen(a) == seen[a]

\* The loop body of poll_events: the screen of an agent that has a new generation.
Capture(a) ==
  /\ Visit("capturing", a)
  /\ due' = IF attached /\ Changed(a) THEN due \cup {a} ELSE due
  /\ captured' = [captured EXCEPT ![a] = IF seen[a] # observed[a] THEN screen[a] ELSE 0]
  /\ observed' = [observed EXCEPT ![a] = GenerationSeen(a)]
  /\ Onwards(a, "sending", due')
  /\ UNCHANGED <<noted, seen, sent>>

\* terminal_event_with_snapshot: the screen taken before, or the one of now.
SendFrame(a) ==
  /\ Visit("sending", a)
  /\ sent' = [sent EXCEPT ![a] = IF captured[a] # 0 THEN captured[a] ELSE screen[a]]
  /\ left' = left \ {a}
  /\ UNCHANGED <<phase, noted, seen, captured, due, observed>>

EndPoll ==
  /\ phase = "sending" /\ left = {}
  /\ phase' = "inputs"
  /\ noted' = {} /\ due' = {}
  /\ seen' = [a \in Agent |-> 0] /\ captured' = [a \in Agent |-> 0]
  /\ UNCHANGED <<readerVars, notes, left, observed, clientVars>>

-----------------------------------------------------------------------------
Init ==
  /\ reads = 0 /\ reader = [a \in Agent |-> "reading"] /\ closed = {}
  /\ screen = [a \in Agent |-> 1] /\ generation = [a \in Agent |-> 0]
  /\ notes = <<>>
  /\ phase = "inputs" /\ left = {} /\ noted = {} /\ due = {}
  /\ seen = [a \in Agent |-> 0] /\ captured = [a \in Agent |-> 0]
  /\ observed = [a \in Agent |-> 0]
  /\ attached = FALSE /\ sent = [a \in Agent |-> 0]

Poll ==
  \/ DrainNotes \/ EndPoll
  \/ \E a \in Agent : ReadGeneration(a) \/ Capture(a) \/ SendFrame(a)

Next ==
  \/ \E a \in Agent : Read(a) \/ Count(a) \/ Hangup(a) \/ Note(a)
  \/ Attach \/ Detach \/ Poll

Spec == Init /\ [][Next]_vars

\* A poll is due every EVENT_TICK, and a reader that has read finishes notifying; the
\* agents and the clients owe nothing.
FairSpec == Spec /\ WF_vars(Poll) /\ \A a \in Agent : WF_vars(Count(a))

-----------------------------------------------------------------------------
\* Properties

\* Every variable has its type and the channel does not outgrow its capacity.
TypeOK ==
  /\ reader \in [Agent -> {"reading", "shown", "counted", "ended"}]
  /\ reads \in Nat /\ closed \subseteq Agent
  /\ left \subseteq Agent /\ noted \subseteq Agent /\ due \subseteq Agent
  /\ screen \in [Agent -> Nat \ {0}] /\ generation \in [Agent -> Nat]
  /\ notes \in Seq(Agent) /\ Len(notes) <= NoteCapacity
  /\ phase \in {"inputs", "reading", "capturing", "sending"}
  /\ seen \in [Agent -> Nat] /\ captured \in [Agent -> Nat]
  /\ observed \in [Agent -> Nat] /\ sent \in [Agent -> Nat]
  /\ attached \in BOOLEAN

\* This poll is going to send agent a's screen as it is now.
InThisPoll(a) ==
  /\ (phase = "sending" /\ a \in left) \/ (phase = "capturing" /\ a \in due \ left)
  /\ captured[a] \in {0, screen[a]}

\* Output that no frame has shown yet is never forgotten: its reader is about to count
\* it, its generation is one that no poll has observed, or this poll is sending it.
\* The notes, which a full channel drops, are not needed for that.
NoOutputIsForgotten ==
  \A a \in Agent : attached /\ sent[a] # screen[a] =>
    reader[a] = "shown" \/ generation[a] # observed[a] \/ InThisPoll(a)

\* An attached client is sent the last screen of every agent that has fallen silent.
LastScreenIsSent ==
  \A a \in Agent : []<>(~attached \/ sent[a] = screen[a])

=============================================================================
