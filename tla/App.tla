-------------------------------- MODULE App --------------------------------
(***************************************************************************)
(* The interactive client's application model (svarm-tui app.rs and the    *)
(* handlers of runtime.rs): what the user sees of a session, which mode    *)
(* the keys and clicks are for, and the confirmations, against a server    *)
(* whose agents start, quit and change conversation on their own.          *)
(*                                                                         *)
(* The session's side is the order of agents, the archive and the          *)
(* selection of server.rs.  Requests travel up and events down over one    *)
(* connection, in order.  The New agent dialog is one mode here; module    *)
(* NewAgentDialog looks into it.  Whether a conversation that is known has *)
(* a title, without which it is not archived, is left open.                *)
(***************************************************************************)
EXTENDS Naturals, Sequences, SequencesExt

CONSTANTS MaxAgents,        \* identifiers the server hands out in a run
          Conversations,    \* conversations that can be resumed
          MaxRequests,      \* bound of the requests on their way
          MaxEvents         \* bound of the events on their way

None == "none"

ASSUME AppAssumption ==
  /\ MaxAgents \in Nat /\ MaxRequests \in Nat \ {0} /\ MaxEvents \in Nat \ {0, 1}
  /\ None \notin Conversations

Ids == 1..MaxAgents
AgentRecords == [id: Ids, conv: Conversations \cup {None}]

VARIABLES agents, archived,  \* the lists the sidebar shows
          selected,          \* index of the selected agent, 0 when there is none
          mode,
          pending_resume, archive_target,
          hunk,              \* "none", "shown", or "hidden" by another mode
          exit,              \* exit_intent, or "failed" for connection_failure
          session,           \* the server's agents, archive, selection, next id
          up, down,          \* requests and events on their way
          waiting,           \* send_and_wait of a spawn
          deaf,              \* the reader has ended, and only send_and_wait was told
          lost,              \* history: send_and_wait dropped an event
          shown              \* history: what the open confirmation asks about

client == <<agents, archived, selected, pending_resume, archive_target>>
history == <<lost, shown>>
link == <<waiting, deaf>>
vars == <<client, mode, hunk, exit, session, up, down, link, history>>

Dialogs == {"ConfirmClose", "ConfirmArchive", "ArchiveUnavailable", "ConfirmResume"}
Reviews == {"Review", "ReviewToolPrefix"}
Modes == Dialogs \cup Reviews \cup
         {"Terminal", "Prefix", "NewAgent", "ConfirmQuit", "Menu", "Keybinds",
          "Settings", "Usage"}

-----------------------------------------------------------------------------
(* Lists of agents and of archived conversations *)

IndexOf(list, id) == CHOOSE i \in DOMAIN list : list[i].id = id
HasAgent(list, id) == \E i \in DOMAIN list : list[i].id = id
Without(list, id) == IF HasAgent(list, id) THEN RemoveAt(list, IndexOf(list, id)) ELSE list
Dropping(list, c) ==
  LET kept[n \in 0..Len(list)] ==
        IF n = 0 THEN <<>>
        ELSE IF list[n] = c THEN kept[n - 1] ELSE Append(kept[n - 1], list[n])
  IN  kept[Len(list)]
Put(list, c) == <<c>> \o Dropping(list, c)
Holding(list, id, c) ==
  [i \in DOMAIN list |-> IF list[i].id = id THEN [id |-> id, conv |-> c] ELSE list[i]]
Smaller(m, n) == IF m < n THEN m ELSE n

SelectedAgent == agents[selected].id
ConvOf(list, id) == list[IndexOf(list, id)].conv

-----------------------------------------------------------------------------
(* Modes, and what a click or a key can ask for in each *)

ChromeModes == {"Terminal", "Keybinds", "Settings", "Usage"}
Commanded == mode \in {"Prefix", "Keybinds"}
Alive == exit = None /\ ~waiting

(* Set the mode and forget what a confirmation was about. *)
Nothing == [agent |-> 0, conv |-> None]
Ask(m, about) == mode' = m /\ shown' = about
Goto(m) == Ask(m, Nothing)
AgentNamed(id) == [agent |-> id, conv |-> None]
ConversationNamed(c) == [agent |-> 0, conv |-> c]
Quiet == UNCHANGED <<hunk, exit, session, down, link, lost>>
Tell(request) == Len(up) < MaxRequests /\ up' = Append(up, request)

(* The process ends: what it knew goes with it. *)
ClientEnds ==
  /\ agents' = <<>> /\ archived' = <<>> /\ selected' = 0
  /\ Goto("Terminal")
  /\ pending_resume' = None /\ archive_target' = 0 /\ hunk' = "none"
  /\ down' = <<>> /\ waiting' = FALSE /\ deaf' = FALSE /\ lost' = FALSE

(* Hunk goes on running when the mode is taken away. *)
Hide(h) == IF h = "none" THEN h ELSE "hidden"

Press ==
  /\ Alive /\ mode = "Terminal" /\ Goto("Prefix")
  /\ UNCHANGED <<client, up>> /\ Quiet

(* Literal prefix, scrolling, sidebar width and visibility, cancel, unknown. *)
PlainCommand ==
  /\ Alive /\ Commanded /\ Goto("Terminal")
  /\ UNCHANGED <<client, up>> /\ Quiet

OpenPage(m) ==
  /\ Alive
  /\ CASE m = "Menu" -> mode \in {"Prefix"} \cup ChromeModes
       [] m = "Usage" -> mode \in {"Prefix"} \cup ChromeModes
       [] m = "NewAgent" -> mode \in {"Prefix"} \cup ChromeModes
       [] m = "Settings" -> Commanded \/ mode = "Terminal"
       [] m \in {"Keybinds", "ConfirmQuit"} -> Commanded
  /\ Goto(m)
  /\ UNCHANGED <<client, up>> /\ Quiet

ActivateMenuItem(m) ==
  /\ Alive /\ mode = "Menu"
  /\ m \in {"ConfirmQuit", "Keybinds", "Settings"} /\ Goto(m)
  /\ UNCHANGED <<client, up>> /\ Quiet

LeavePage ==
  /\ Alive
  /\ \/ mode \in {"Menu", "Usage", "ConfirmQuit", "ConfirmClose", "NewAgent"} /\ Goto("Terminal")
     \/ mode \in {"Keybinds", "Settings"} /\ Goto("Menu")
  /\ UNCHANGED <<client, up>> /\ Quiet

(* A click on the notification of harness updates, whatever is open below it. *)
ClickNotification ==
  /\ Alive /\ Goto("Settings") /\ hunk' = Hide(hunk)
  /\ UNCHANGED <<client, exit, session, up, down, link, lost>>

(* Detach from the prefix or the menu; stop from its confirmation. *)
Leave ==
  /\ Alive
  /\ \/ (Commanded \/ mode = "Menu") /\ exit' = "detach"
     \/ mode = "ConfirmQuit" /\ exit' = "stop"
  /\ ClientEnds /\ UNCHANGED <<session, up>>

-----------------------------------------------------------------------------
(* Selecting *)

SelectIndex(i) == selected' = i /\ Tell([type |-> "select", id |-> agents[i].id])

Cycle(forward) ==
  /\ Alive /\ Commanded /\ (mode = "Keybinds" => forward)
  /\ IF agents = <<>> THEN UNCHANGED <<selected, up>>
     ELSE SelectIndex(IF forward THEN (selected % Len(agents)) + 1
                      ELSE IF selected = 1 THEN Len(agents) ELSE selected - 1)
  /\ Goto("Terminal")
  /\ UNCHANGED <<agents, archived, pending_resume, archive_target>> /\ Quiet

RequestResume(i) ==
  /\ pending_resume' = archived[i]
  /\ Ask("ConfirmResume", ConversationNamed(archived[i]))
  /\ UNCHANGED <<agents, archived, selected, archive_target, up>>

(* A card of the sidebar or a digit: an agent, or an archived conversation. *)
SelectSidebarIndex(i) ==
  /\ Alive /\ (Commanded \/ mode = "Terminal") /\ (mode = "Keybinds" => i = 1)
  /\ \/ /\ i \in DOMAIN agents /\ SelectIndex(i) /\ Goto("Terminal")
        /\ UNCHANGED <<agents, archived, pending_resume, archive_target>>
     \/ i - Len(agents) \in DOMAIN archived /\ RequestResume(i - Len(agents))
  /\ Quiet

-----------------------------------------------------------------------------
(* Closing, archiving and resuming *)

AskClose ==
  /\ Alive /\ Commanded /\ agents # <<>>
  /\ Ask("ConfirmClose", AgentNamed(SelectedAgent))
  /\ UNCHANGED <<client, up>> /\ Quiet

CloseSelected ==
  /\ Alive /\ mode = "ConfirmClose"
  /\ Tell([type |-> "close", id |-> SelectedAgent])
  /\ Goto("Terminal")
  /\ UNCHANGED client /\ Quiet

(* Titled or not, busy or not is what the client knows of it: either may be. *)
RequestArchive(i) ==
  /\ Alive /\ ((Commanded /\ i = selected) \/ mode = "Terminal")
  /\ LET agent == agents[i] IN
     \/ /\ archive_target' = agent.id
        /\ Ask("ArchiveUnavailable", AgentNamed(agent.id)) /\ UNCHANGED up
     \/ /\ agent.conv # None /\ archive_target' = agent.id
        /\ Ask("ConfirmArchive", AgentNamed(agent.id)) /\ UNCHANGED up
     \/ /\ agent.conv # None /\ archive_target' = 0
        /\ Tell([type |-> "archive", id |-> agent.id]) /\ Goto("Terminal")
  /\ UNCHANGED <<agents, archived, selected, pending_resume>> /\ Quiet

ArchiveTarget ==
  /\ Alive /\ mode = "ConfirmArchive"
  /\ Tell([type |-> "archive", id |-> archive_target])
  /\ archive_target' = 0 /\ Goto("Terminal")
  /\ UNCHANGED <<agents, archived, selected, pending_resume>> /\ Quiet

AskResume ==
  /\ Alive /\ Commanded /\ archived # <<>> /\ RequestResume(1) /\ Quiet

CyclePendingArchive(forward) ==
  /\ Alive /\ mode = "ConfirmResume" /\ archived # <<>>
  /\ LET at == IF pending_resume \in Range(archived)
               THEN CHOOSE i \in DOMAIN archived : archived[i] = pending_resume ELSE 1
         i == IF forward THEN (at % Len(archived)) + 1
              ELSE IF at = 1 THEN Len(archived) ELSE at - 1
     IN  pending_resume' = archived[i] /\ Ask(mode, ConversationNamed(archived[i]))
  /\ UNCHANGED <<agents, archived, selected, archive_target, up>> /\ Quiet

ResumePending ==
  /\ Alive /\ mode = "ConfirmResume"
  /\ Tell([type |-> "resume", conv |-> pending_resume])
  /\ pending_resume' = None /\ archive_target' = 0 /\ Goto("Terminal")
  /\ UNCHANGED <<agents, archived, selected>> /\ Quiet

CancelConfirmation ==
  /\ Alive /\ mode \in {"ConfirmArchive", "ConfirmResume", "ArchiveUnavailable"}
  /\ pending_resume' = IF mode = "ArchiveUnavailable" THEN pending_resume ELSE None
  /\ archive_target' = 0 /\ Goto("Terminal")
  /\ UNCHANGED <<agents, archived, selected, up>> /\ Quiet

-----------------------------------------------------------------------------
(* Review with Hunk *)

(* A launch may fail (no Hunk, no repository, no changes): a notice only, and *)
(* the mode stays.  Without an agent the mode is Terminal again.             *)
OpenReview ==
  /\ Alive /\ (Commanded \/ mode = "Menu") /\ hunk = "none"
  /\ IF agents = <<>> THEN Goto("Terminal") /\ UNCHANGED hunk
     ELSE hunk' = "shown" /\ Goto("Review")
  /\ UNCHANGED <<client, exit, session, up, down, link, lost>>

LeaveTheReview ==
  /\ Alive /\ mode \in Reviews
  /\ mode' = IF mode = "Review" THEN "ReviewToolPrefix" ELSE "Terminal"
  /\ UNCHANGED <<client, hunk, exit, session, up, down, link, history>>
ReviewKeys ==
  /\ Alive /\ mode \in Reviews
  /\ mode' = IF mode = "Review" THEN "ReviewToolPrefix" ELSE "Review"
  /\ UNCHANGED <<client, hunk, exit, session, up, down, link, history>>

(* Hunk ends by itself in any mode, or is closed by force from its prefix.  *)
(* Its notes go to the agent as pasted input, if the client still lists it. *)
FinishReview ==
  /\ Alive /\ hunk # "none"
  /\ hunk' = "none" /\ Goto("Terminal")
  /\ UNCHANGED <<client, exit, session, up, down, link, lost>>

-----------------------------------------------------------------------------
(* The submission of the dialog: send_and_wait holds everything else up *)

SubmitSpawn ==
  /\ Alive /\ mode = "NewAgent" /\ Tell([type |-> "spawn"])
  /\ waiting' = TRUE
  /\ UNCHANGED <<client, mode, hunk, exit, session, down, deaf, history>>

(* The response, or an event that arrives before it and is dropped. *)
ReceiveWhileWaiting ==
  /\ exit = None /\ waiting /\ down # <<>>
  /\ down' = Tail(down)
  /\ CASE Head(down).type = "response" -> /\ waiting' = FALSE /\ UNCHANGED lost
                                          /\ IF Head(down).ok THEN Goto("Terminal")
                                             ELSE UNCHANGED <<mode, shown>>
       [] OTHER -> lost' = TRUE /\ UNCHANGED <<waiting, mode, shown>>
  /\ UNCHANGED <<client, hunk, exit, session, up, deaf>>

SpawnTimesOut ==
  /\ exit = None /\ waiting /\ waiting' = FALSE
  /\ UNCHANGED <<client, mode, hunk, exit, session, up, down, deaf, history>>

(* The connection ends under it: a notice only, as for any failed spawn.  The *)
(* reader has ended, what was on its way is gone, and the client runs on.    *)
DisconnectedWhileWaiting ==
  /\ exit = None /\ waiting /\ ~deaf
  /\ waiting' = FALSE /\ deaf' = TRUE /\ down' = <<>>
  /\ UNCHANGED <<client, mode, hunk, exit, session, up, history>>

-----------------------------------------------------------------------------
(* Events of the server: App's remote updates *)

SelectingAnyway(n) == selected
Selecting(n) == Smaller(selected, n)

KeepDialogs ==
  /\ IF mode \in Dialogs THEN UNCHANGED <<mode, shown>> ELSE Goto("Terminal")
  /\ hunk' = Hide(hunk)
Interrupt == Goto("Terminal") /\ hunk' = Hide(hunk)

AddRemoteAgent(agent) ==
  /\ agents' = Append(agents, agent) /\ selected' = Len(agents) + 1
  /\ Interrupt

RemoveAgent(id) ==
  IF HasAgent(agents, id)
  THEN /\ agents' = Without(agents, id)
       /\ selected' = Selecting(Len(agents) - 1)
       /\ Interrupt
  ELSE UNCHANGED <<agents, selected, mode, shown, hunk>>

KeepSwitchedTo(e) == IF e.old = None THEN archived ELSE Put(archived, e.old)
ArchiveAfterSwitch(e) ==
  LET kept == Dropping(archived, e.conv) IN IF e.old = None THEN kept ELSE Put(kept, e.old)

(* A response is a notice at most; the other events change what is shown. *)
ApplyRemoteUpdate(e) ==
  CASE e.type = "added" ->
         /\ AddRemoteAgent(e.agent) /\ UNCHANGED <<archived, pending_resume>>
    [] e.type = "removed" ->
         /\ RemoveAgent(e.id) /\ UNCHANGED <<archived, pending_resume>>
    [] e.type = "archived" ->
         /\ RemoveAgent(e.id) /\ archived' = Put(archived, e.conv)
         /\ UNCHANGED pending_resume
    [] e.type = "resumed" ->
         /\ AddRemoteAgent(e.agent) /\ archived' = Dropping(archived, e.agent.conv)
         /\ pending_resume' = None
    [] e.type = "changed" ->
         /\ agents' = Holding(agents, e.id, e.conv)
         /\ UNCHANGED <<archived, selected, mode, pending_resume, shown, hunk>>
    [] e.type = "switched" ->
         /\ archived' = ArchiveAfterSwitch(e)
         /\ agents' = Holding(agents, e.id, e.conv)
         /\ UNCHANGED <<selected, mode, pending_resume, shown, hunk>>
    [] e.type = "response" ->
         UNCHANGED <<agents, archived, selected, mode, pending_resume, shown, hunk>>

Receive ==
  /\ Alive /\ down # <<>>
  /\ down' = Tail(down)
  /\ ApplyRemoteUpdate(Head(down))
  /\ UNCHANGED <<archive_target, exit, session, up, link, lost>>

-----------------------------------------------------------------------------
(* The server: requests in order, and what its polls observe *)

(* Events are queued for the client that is attached and reads, if there is one. *)
EmitAll(events) ==
  IF exit # None \/ deaf THEN UNCHANGED down
  ELSE Len(down) + Len(events) <= MaxEvents /\ down' = down \o events
Emit(e) == EmitAll(<<e>>)
Registered(s, agent) ==
  [s EXCEPT !.agents = Append(@, agent), !.selected = agent.id, !.next = @ + 1]
Removed(s, id) ==
  LET rest == Without(s.agents, id) IN
  [s EXCEPT !.agents = rest,
            !.selected = IF @ # id THEN @
                         ELSE IF rest = <<>> THEN 0 ELSE Last(rest).id]
Archived(s, id) == [Removed(s, id) EXCEPT !.archived = Put(@, ConvOf(s.agents, id))]
Error == [type |-> "response", ok |-> FALSE]

HandleSpawn ==
  LET agent == [id |-> session.next, conv |-> None] IN
  \/ /\ session.next \in Ids
     /\ session' = Registered(session, agent)
     /\ EmitAll(<<[type |-> "response", ok |-> TRUE], [type |-> "added", agent |-> agent]>>)
  \/ Emit(Error) /\ UNCHANGED session

HandleClose(id) ==
  IF HasAgent(session.agents, id)
  THEN session' = Removed(session, id) /\ Emit([type |-> "removed", id |-> id])
  ELSE UNCHANGED session /\ Emit(Error)

HandleArchive(id) ==
  \/ /\ HasAgent(session.agents, id) /\ ConvOf(session.agents, id) # None
     /\ session' = Archived(session, id)
     /\ Emit([type |-> "archived", id |-> id, conv |-> ConvOf(session.agents, id)])
  \/ UNCHANGED session /\ Emit(Error)

HandleResume(c) ==
  LET agent == [id |-> session.next, conv |-> c] IN
  IF c \in Range(session.archived)
  THEN /\ session.next \in Ids
       /\ session' = [Registered(session, agent) EXCEPT !.archived = Dropping(@, c)]
       /\ Emit([type |-> "resumed", agent |-> agent])
  ELSE UNCHANGED session /\ Emit(Error)

HandleSelect(id) ==
  /\ session' = IF HasAgent(session.agents, id) THEN [session EXCEPT !.selected = id]
                ELSE session
  /\ UNCHANGED down

Serve ==
  /\ up # <<>> /\ up' = Tail(up)
  /\ LET request == Head(up) IN
     CASE request.type = "spawn" -> HandleSpawn
       [] request.type = "close" -> HandleClose(request.id)
       [] request.type = "archive" -> HandleArchive(request.id)
       [] request.type = "resume" -> HandleResume(request.conv)
       [] request.type = "select" -> HandleSelect(request.id)
  /\ UNCHANGED <<client, mode, hunk, exit, link, history>>

(* A poll: an agent's identity is learned, its conversation switched, or it quit. *)
Free(c) == \A i \in DOMAIN session.agents : session.agents[i].conv # c

PollConversation(id, c) ==
  /\ exit # "stop" /\ Free(c)
  /\ LET old == ConvOf(session.agents, id)
         held == [session EXCEPT !.agents = Holding(@, id, c)]
     IN  IF old = None
         THEN /\ c \notin Range(session.archived) /\ session' = held
              /\ Emit([type |-> "changed", id |-> id, conv |-> c])
         ELSE \E left \in {old, None} :
              /\ session' = [held EXCEPT !.archived =
                   IF left = None THEN Dropping(@, c) ELSE Put(Dropping(@, c), left)]
              /\ Emit([type |-> "switched", id |-> id, conv |-> c, old |-> left])
  /\ UNCHANGED <<client, mode, hunk, exit, up, link, history>>

PollQuit(id) ==
  /\ exit # "stop"
  /\ LET c == ConvOf(session.agents, id) IN
     \/ session' = Removed(session, id) /\ Emit([type |-> "removed", id |-> id])
     \/ /\ c # None /\ session' = Archived(session, id)
        /\ Emit([type |-> "archived", id |-> id, conv |-> c])
  /\ UNCHANGED <<client, mode, hunk, exit, up, link, history>>

-----------------------------------------------------------------------------
(* The connection ends (revoked, stopping, lost); another client attaches *)

(* The run loop is told by its reader, unless it is in send_and_wait. *)
ConnectionFails ==
  /\ Alive /\ ~deaf /\ exit' = "failed" /\ ClientEnds
  /\ UNCHANGED <<session, up>>

(* Nothing tells the loop of a client that is deaf before a request that it sends *)
(* cannot be written.                                                             *)
RequestFails ==
  /\ Alive /\ deaf /\ exit' = "failed" /\ ClientEnds
  /\ UNCHANGED <<session, up>>

(* Unhandled requests may still have been handled: Serve goes on without a client. *)
Hydrate ==
  /\ exit \in {"detach", "failed"}
  /\ agents' = session.agents /\ archived' = session.archived
  /\ selected' = IF HasAgent(session.agents, session.selected)
                 THEN IndexOf(session.agents, session.selected)
                 ELSE Smaller(1, Len(session.agents))
  /\ exit' = None /\ up' = <<>>
  /\ UNCHANGED <<mode, pending_resume, archive_target, hunk, session, down, link, history>>

-----------------------------------------------------------------------------
NoSession == [agents |-> <<>>, archived |-> <<>>, selected |-> 0, next |-> 1]

Init ==
  /\ agents = <<>> /\ archived = <<>> /\ selected = 0
  /\ mode = "Terminal" /\ pending_resume = None /\ archive_target = 0
  /\ hunk = "none" /\ exit = None
  /\ session = NoSession /\ up = <<>> /\ down = <<>> /\ waiting = FALSE /\ deaf = FALSE
  /\ lost = FALSE /\ shown = Nothing

User ==
  \/ Press \/ PlainCommand \/ LeavePage \/ ClickNotification \/ Leave
  \/ \E m \in {"Menu", "Usage", "NewAgent", "Settings", "Keybinds", "ConfirmQuit"} :
       OpenPage(m) \/ ActivateMenuItem(m)
  \/ \E forward \in BOOLEAN : Cycle(forward) \/ CyclePendingArchive(forward)
  \/ \E i \in 1..(Len(agents) + Len(archived)) : SelectSidebarIndex(i)
  \/ AskClose \/ CloseSelected \/ ArchiveTarget
  \/ \E i \in DOMAIN agents : RequestArchive(i)
  \/ AskResume \/ ResumePending \/ CancelConfirmation
  \/ OpenReview \/ ReviewKeys \/ FinishReview \/ SubmitSpawn

Loop ==
  \/ Receive \/ ReceiveWhileWaiting \/ SpawnTimesOut \/ DisconnectedWhileWaiting
  \/ ConnectionFails \/ RequestFails \/ Hydrate

Poll ==
  \E i \in DOMAIN session.agents :
    \/ PollQuit(session.agents[i].id)
    \/ \E c \in Conversations : PollConversation(session.agents[i].id, c)

Next == User \/ Loop \/ Serve \/ Poll
Spec == Init /\ [][Next]_vars

-----------------------------------------------------------------------------
(* Properties *)

(* Every variable has its type; the selected index is one of the list's     *)
(* whenever the list has any, through every removal and attachment.         *)
TypeOK ==
  /\ agents \in Seq(AgentRecords) /\ archived \in Seq(Conversations)
  /\ selected \in (IF agents = <<>> THEN {0} ELSE DOMAIN agents)
  /\ mode \in Modes /\ exit \in {None, "detach", "stop", "failed"}
  /\ pending_resume \in Conversations \cup {None} /\ archive_target \in {0} \cup Ids
  /\ hunk \in {"none", "shown", "hidden"} /\ {waiting, deaf, lost} \subseteq BOOLEAN
  /\ shown \in [agent: {0} \cup Ids, conv: {None} \cup Conversations]
  /\ session.agents \in Seq(AgentRecords) /\ session.archived \in Seq(Conversations)
  /\ session.selected \in {0} \cup Ids /\ session.next \in 1..(MaxAgents + 1)
  /\ Len(up) <= MaxRequests /\ Len(down) <= MaxEvents

(* The lists that apply_remote_update keeps by replaying events are the      *)
(* session's own once every event has arrived, in the session's order: no    *)
(* card is left behind or shown twice after quits, archives, resumptions and *)
(* switches, unless send_and_wait dropped an event, or the end of the        *)
(* connection: the client then runs on with lists that follow nothing.       *)
ListsFollowTheSession ==
  exit = None /\ ~waiting /\ ~deaf /\ down = <<>> /\ ~lost
    => agents = session.agents /\ archived = session.archived

(* A confirmation always has a subject, so the fallbacks of close_selected,  *)
(* archive_selected and resume_selected_archive are never taken, and the     *)
(* subject is the one the prompt was opened for, whatever the server did     *)
(* while the prompt was open.                                                *)
ConfirmationsKeepTheirSubject ==
  exit = None =>
    /\ mode = "ConfirmClose" => agents # <<>> /\ shown.agent = SelectedAgent
    /\ mode \in {"ConfirmArchive", "ArchiveUnavailable"} => shown.agent = archive_target
    /\ mode = "ConfirmResume" => shown.conv = pending_resume
    /\ mode \in Dialogs => shown # Nothing

(* Hunk is on the screen while it runs; only an agent that came or went, or  *)
(* a click on a notification, can have taken its mode away (README.md of the *)
(* repository: "opens `hunk diff --watch`").                                 *)
ReviewIsShown == exit = None /\ hunk = "shown" => mode \in Reviews

(* An agent that leaves the list does not move the selection off another     *)
(* agent (the test archiving_a_non_selected_agent_preserves_the_current_     *)
(* selection, app.rs).                                                       *)
SelectionSurvivesRemovals ==
  [][ exit = None /\ Receive /\ Len(agents') < Len(agents) /\ HasAgent(agents', SelectedAgent)
      => agents'[selected'].id = SelectedAgent ]_vars
=============================================================================
