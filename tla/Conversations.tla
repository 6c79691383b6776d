--------------------------- MODULE Conversations ---------------------------
(***************************************************************************)
(* Which conversation an agent is in, and what it is called (session.rs,   *)
(* naming.rs, history.rs, server.rs 356-473, 548-681 and 1035-1295).       *)
(*                                                                         *)
(* A process tells its conversation in up to four ways: an identifier      *)
(* assigned when it starts, a hook that sends a datagram, its output, or   *)
(* the session files it writes.  The server polls them, keeps the draft of *)
(* what the user types, and has a generator name the conversation.         *)
(*                                                                         *)
(* A title is the conversation whose prompt it came from, and the files of *)
(* the launch directory are kept in the order they were last written.      *)
(***************************************************************************)
EXTENDS Naturals, Sequences, FiniteSets

CONSTANTS Agents,          \* agent identifiers, in the order they are spawned
          Reports,         \* the ways each agent's harness tells its conversation
          Conversations,   \* conversation identifiers of one launch directory
          MaxAgents,       \* bound: agents running at the same time
          MaxVisits,       \* bound: agents started and conversations entered
          MaxNames,        \* bound: names asked for that are not applied
          None             \* Option::None

(* What is known of a conversation, a draft and a running agent. *)
Known == Conversations \cup {None}
Titles == [of: Conversations, for: Known]
Drafts == [title: Known, generated: Titles \cup {None}, naming: BOOLEAN, quit: BOOLEAN]
Sessions == [real: Known, reported: Known, observed: Known, title: Known, signal: Known,
             known: SUBSET Conversations, current: Known, exited: BOOLEAN, draft: Drafts]

ConversationsAssumption ==
  /\ MaxAgents \in Nat /\ MaxVisits \in Nat /\ MaxNames \in Nat
  /\ IsFiniteSet(Agents) /\ Agents = 1..Cardinality(Agents)
  /\ Reports \in [Agents -> SUBSET {"preassigned", "hook", "output", "files"}]
  /\ None \notin Conversations /\ None \notin Sessions

VARIABLES agents,       \* the running agents: identity, draft and last observation
          files,        \* session files, the last written one at the end
          archived,     \* SessionRuntime.archived
          generators,   \* title threads running, and results not drained
          been          \* history: conversations each agent's process was in

vars == <<agents, files, archived, generators, been>>

In(s) == {s[i] : i \in DOMAIN s}
Alive == {a \in Agents : agents[a] # None}
Archived == {item.id : item \in In(archived)}
Visits == UNION {{a} \X DOMAIN been[a] : a \in Agents}
At(c) == CHOOSE i \in DOMAIN files : files[i] = c

(* As in SequencesExt, which proofs would carry along with all it extends. *)
RemoveAt(s, i) == SubSeq(s, 1, i - 1) \o SubSeq(s, i + 1, Len(s))

(* The items without that of a conversation, which has one at most. *)
Without(items, c) ==
  IF \E i \in DOMAIN items : items[i].id = c
    THEN RemoveAt(items, CHOOSE i \in DOMAIN items : items[i].id = c)
    ELSE items

-----------------------------------------------------------------------------
(* Drafts *)

Free == Cardinality(generators) < MaxNames

(* A generator for the conversation shown, given what was typed in of. *)
Requested(a, for, of) == [agent |-> a, for |-> for, of |-> of, done |-> FALSE]

(* What a submitted line is: something to name the conversation after, a   *)
(* command that is not, or one that quits.                                  *)
Lines == {"prompt", "command", "quit"}

NewDraft == [title |-> None, generated |-> None, naming |-> FALSE, quit |-> FALSE]
Named(title) == [NewDraft EXCEPT !.generated = title]
FromPrompt(title) == [NewDraft EXCEPT !.title = title]
Title(draft) == IF draft.generated # None THEN draft.generated.of ELSE draft.title

-----------------------------------------------------------------------------
(* What a session reports of its conversation *)

(* The session that is new since the agent started, and from then on any   *)
(* other one that was written later.                                        *)
AnySession(x) == In(files) \ {x.current}
NewerSessions(x) ==
  IF x.current = None THEN In(files) \ x.known
  ELSE {c \in In(files) \ {x.current} : x.current \in In(files) => At(c) > At(x.current)}

Probe(x) ==
  LET newer == NewerSessions(x)
  IN IF newer = {} THEN x.current
     ELSE CHOOSE c \in newer : \A d \in newer : At(d) <= At(c)

(* The files first, then the hook's last datagram. *)
Snapshot(a, x) ==
  LET current == IF "files" \in Reports[a] THEN Probe(x) ELSE None
      probed == IF current # None THEN current ELSE x.reported
  IN [x EXCEPT !.current = current, !.signal = None,
               !.reported = IF x.signal # None THEN x.signal ELSE probed]

-----------------------------------------------------------------------------
(* Agents start, type and end *)

Session(a, c) ==
  [real |-> c, reported |-> c, observed |-> c, title |-> None, signal |-> None,
   known |-> In(files), current |-> c, exited |-> FALSE, draft |-> NewDraft]

CanStart(a) == been[a] = <<>> /\ Cardinality(Alive) < MaxAgents

(* The identifier a new process is given. *)
Assigned(a) == IF "preassigned" \in Reports[a] THEN Conversations \ In(files) ELSE {None}

Spawn(a) ==
  /\ CanStart(a)
  /\ \E c \in Assigned(a) :
       /\ agents' = [agents EXCEPT ![a] = Session(a, c)]
       /\ been' = [been EXCEPT ![a] = <<c>>]
  /\ UNCHANGED <<files, archived, generators>>

(* A harness that writes files resumes what it has written; resuming one  *)
(* without a file leaves the probe without a time to compare with, and it   *)
(* takes any other session.                                                 *)
ResumeArchived(a, i) ==
  LET item == archived[i] IN
  /\ CanStart(a) /\ item.on = Reports[a]
  /\ "files" \in Reports[a] => item.id \in In(files)
  /\ agents' = [agents EXCEPT ![a] =
       [Session(a, item.id) EXCEPT !.draft = Named([of |-> item.title, for |-> item.id]),
                                   !.title = item.title]]
  /\ archived' = RemoveAt(archived, i)
  /\ been' = [been EXCEPT ![a] = <<item.id>>]
  /\ UNCHANGED <<files, generators>>

(* A prompt asks for a name unless one is settled or being made; naming    *)
(* may be switched off, or its thread fail to start.  A command does not.   *)
Submit(a, line) ==
  LET x == agents[a] d == x.draft
      asks == line = "prompt" /\ d.generated = None IN
  /\ a \in Alive /\ ~x.exited
  /\ line = "prompt" => x.real # None
  /\ \E started \in IF asks /\ ~d.naming /\ Free THEN BOOLEAN ELSE {FALSE} :
       /\ agents' = [agents EXCEPT ![a].draft =
            [d EXCEPT !.quit = (line = "quit"), !.naming = d.naming \/ started,
                      !.title = IF asks /\ d.title = None THEN x.real ELSE d.title]]
       /\ generators' = IF started
            THEN generators \cup {Requested(a, x.observed, x.real)}
            ELSE generators
  /\ UNCHANGED <<files, archived, been>>

(* The process starts, clears or resumes a conversation no other one is in. *)
Enter(a, c) ==
  LET x == agents[a] IN
  /\ a \in Alive /\ ~x.exited /\ x.real # c /\ Cardinality(Visits) <= MaxVisits
  /\ \A b \in Alive \ {a} : agents[b].real # c
  /\ agents' = [agents EXCEPT ![a] =
       [x EXCEPT !.real = c,
                 !.signal = IF "hook" \in Reports[a] THEN c ELSE x.signal,
                 !.reported = IF "output" \in Reports[a] THEN c ELSE x.reported]]
  /\ been' = [been EXCEPT ![a] = Append(been[a], c)]
  /\ UNCHANGED <<files, archived, generators>>

(* The file written is the last one from then on. *)
LastWritten(c) == Append(IF c \in In(files) THEN RemoveAt(files, At(c)) ELSE files, c)

WriteFile(a) ==
  /\ a \in Alive /\ "files" \in Reports[a] /\ ~agents[a].exited /\ agents[a].real # None
  /\ files' = LastWritten(agents[a].real)
  /\ UNCHANGED <<agents, archived, generators, been>>

Exit(a) ==
  /\ a \in Alive /\ ~agents[a].exited
  /\ agents' = [agents EXCEPT ![a].exited = TRUE]
  /\ UNCHANGED <<files, archived, generators, been>>

(* Any request that takes a snapshot reads the probes too. *)
TakeSnapshot(a) ==
  /\ a \in Alive /\ agents' = [agents EXCEPT ![a] = Snapshot(a, agents[a])]
  /\ UNCHANGED <<files, archived, generators, been>>

-----------------------------------------------------------------------------
(* Archiving *)

Item(a, x) == [id |-> x.observed, title |-> x.title, on |-> Reports[a]]
Archivable(x) == x.observed # None /\ x.title # None
ToFront(item, items) == <<item>> \o Without(items, item.id)

ArchiveAgent(a) ==
  /\ a \in Alive /\ Archivable(agents[a])
  /\ archived' = ToFront(Item(a, agents[a]), archived)
  /\ agents' = [agents EXCEPT ![a] = None]
  /\ UNCHANGED <<files, generators, been>>

CloseAgent(a) ==
  /\ a \in Alive /\ agents' = [agents EXCEPT ![a] = None]
  /\ UNCHANGED <<files, archived, generators, been>>

-----------------------------------------------------------------------------
(* Names *)

Generate(g, ok) ==
  /\ g \in generators /\ ~g.done
  /\ generators' = (generators \ {g}) \cup (IF ok THEN {[g EXCEPT !.done = TRUE]} ELSE {})
  /\ UNCHANGED <<agents, files, archived, been>>

(* "so a `/clear` mid-generation cannot mislabel the new thread"; what was *)
(* asked first is drained first.                                            *)
AppliesToAnyThread(g, x) == x.draft.generated = None
Applies(g, x) == x.observed = g.for /\ x.draft.generated = None

WithName(a, x) ==
  LET names == {g \in generators : g.done /\ g.agent = a /\ Applies(g, x)}
  IN IF names = {} THEN x
     ELSE LET g == CHOOSE g \in names : TRUE
          IN [x EXCEPT !.draft =
               [x.draft EXCEPT !.generated = [of |-> g.of, for |-> g.for], !.naming = FALSE]]

-----------------------------------------------------------------------------
(* A poll of the session: names, then each agent in order *)

Switched(x, y) == x.observed # None /\ y.reported # None /\ x.observed # y.reported

LeaveBehind(a, x, items) == items
Leaving(a, x, items) == IF Archivable(x) THEN ToFront(Item(a, x), items) ELSE items

(* Whether the harness has kept a first prompt of the conversation. *)
Histories == [Agents -> BOOLEAN]

(* The draft of the conversation switched to: the name it was archived     *)
(* under, or its first prompt, for which a generator is asked at once.      *)
DraftOf(c, items, prompted, started) ==
  LET had == {item \in In(items) : item.id = c}
  IN IF had # {} THEN Named([of |-> (CHOOSE item \in had : TRUE).title, for |-> c])
     ELSE IF prompted THEN [FromPrompt(c) EXCEPT !.naming = started]
     ELSE NewDraft

Observed(x, y, draft) ==
  LET shown == IF Switched(x, y) THEN draft ELSE y.draft
  IN [y EXCEPT !.observed = y.reported, !.draft = shown, !.title = Title(shown)]

(* What is left when one agent was polled: it quit, or is as it reports. *)
PollAgent(s, a, prompted, started) ==
  LET x == s.agents[a]
      y == Snapshot(a, x)
      rest == Without(s.archived, y.reported)
      draft == DraftOf(y.reported, s.archived, prompted, started)
  IN IF x = None THEN s
     ELSE IF x.exited /\ x.draft.quit
       THEN [agents |-> [s.agents EXCEPT ![a] = None],
             archived |-> Leaving(a, x, s.archived),
             generators |-> s.generators]
     ELSE [agents |-> [s.agents EXCEPT ![a] = Observed(x, y, draft)],
           archived |-> IF Switched(x, y) THEN Leaving(a, x, rest) ELSE s.archived,
           generators |-> IF Switched(x, y) /\ draft.naming
             THEN s.generators \cup {Requested(a, y.reported, y.reported)}
             ELSE s.generators]

Poll ==
  LET named == [a \in Agents |-> IF a \in Alive THEN WithName(a, agents[a]) ELSE None]
      start == [agents |-> named, archived |-> archived,
                generators |-> {g \in generators : ~g.done}] IN
  \E prompted \in Histories, started \in IF Free THEN BOOLEAN ELSE {FALSE} :
    LET polled[n \in 0..Cardinality(Agents)] ==
          IF n = 0 THEN start ELSE PollAgent(polled[n - 1], n, prompted[n], started)
    IN \E s \in {polled[Cardinality(Agents)]} :
         /\ agents' = s.agents /\ archived' = s.archived /\ generators' = s.generators
         /\ UNCHANGED <<files, been>>

Init ==
  /\ agents = [a \in Agents |-> None] /\ archived = <<>> /\ generators = {}
  /\ files \in {<<>>} \cup {<<c>> : c \in Conversations}
  /\ been = [a \in Agents |-> <<>>]

Next ==
  \/ Poll
  \/ \E a \in Agents :
       \/ Spawn(a) \/ (\E i \in DOMAIN archived : ResumeArchived(a, i))
       \/ \E line \in Lines : Submit(a, line)
       \/ \E c \in Conversations : Enter(a, c)
       \/ WriteFile(a) \/ Exit(a) \/ TakeSnapshot(a) \/ ArchiveAgent(a) \/ CloseAgent(a)
  \/ \E g \in generators, ok \in BOOLEAN : Generate(g, ok)

Spec == Init /\ [][Next]_vars

-----------------------------------------------------------------------------
(* Values of the variables; an identifier is archived at most once. *)
TypeOK ==
  /\ \A a \in Alive : /\ {agents[a].real, agents[a].reported, agents[a].observed,
                          agents[a].current, agents[a].signal} \subseteq Conversations \cup {None}
                      /\ agents[a].draft.naming => agents[a].draft.generated = None
  /\ In(files) \subseteq Conversations
  /\ \A i, j \in DOMAIN archived : archived[i].id = archived[j].id => i = j
  /\ \A g \in generators : g.agent \in Agents

Spawned(a) == been[a] # <<>> /\ been[a][1] = None

(* PiSessionProbe, GrokSessionProbe: the sessions that were in the         *)
(* directory when a new agent started are not taken for its own, whatever   *)
(* order they are written, entered and polled in.                           *)
IdentityIsTheAgentsOwn ==
  \A a \in Alive : Spawned(a) =>
    {agents[a].reported, agents[a].observed} \subseteq In(been[a]) \cup {None}

(* "a_resumed_conversation_keeps_its_name_and_asks_for_no_other" (server.rs *)
(* 2887): while its process stays in the conversation it was resumed for,   *)
(* an agent is shown in it.                                                  *)
ResumedKeepsItsConversation ==
  \A a \in Alive : Len(been[a]) = 1 /\ been[a][1] # None => agents[a].observed = been[a][1]

(* apply_generated_names: "a name that arrives after the agent moved on    *)
(* can be discarded" (naming.rs 85-86).  A generated name is one asked for *)
(* the conversation shown, or asked while none was known.                   *)
NamesFollowTheConversation ==
  \A a \in Alive :
    LET x == agents[a] IN
    x.draft.generated # None => x.draft.generated.for \in {x.observed, None}

(* poll_events: a conversation with a name that an agent is no longer      *)
(* shown in can be resumed: it is archived, or shown in another agent.      *)
LeavesAreArchived ==
  [][\A a \in Alive :
       LET x == agents[a] y == agents'[a] IN
       y # None /\ Archivable(x) /\ y.observed # x.observed =>
         \/ \E item \in {archived'[i] : i \in DOMAIN archived'} : item.id = x.observed
         \/ \E b \in Agents : agents'[b] # None /\ agents'[b].observed = x.observed]_vars
=============================================================================
