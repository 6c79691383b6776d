--------------------------- MODULE NewAgentDialog ---------------------------
(***************************************************************************)
(* The New agent dialog (app.rs, runtime.rs, workspace.rs): its pages, the *)
(* worker that creates worktrees, the worker that lists directories, the   *)
(* embedded Yazi with its wake-up flag, and the spawn that holds the loop  *)
(* up.  Results come back as events of the one queue the loop drains.      *)
(*                                                                         *)
(* Which rows are selected on a page is left out: a click picks any row.   *)
(* So is the agent to start: without one, submitting changes nothing, and  *)
(* confirming one only goes back to the form.                              *)
(* A directory is a workspace; being a repository does not change.         *)
(***************************************************************************)
EXTENDS Naturals, Sequences

CONSTANTS Workspaces,     \* directories that can be chosen and browsed
          Repositories,   \* those inside a Git repository
          MaxRequests,    \* bound: worktrees and listings asked for
          MaxEvents,      \* capacity of the loop's queue (EVENT_QUEUE)
          None            \* Option::None

VARIABLES page,        \* the dialog's page, or "Closed" for any other mode
          dialog,      \* App.new_agent
          creations,   \* requests of the worktree worker
          loads,       \* requests of the directory loader
          generation,  \* BrowserRuntime.generation
          yazi,        \* no picker, one running, with its output closed, or exited
          notified,    \* embedded_pending
          delayed,     \* a thread of poll_yazi will raise the flag again
          events,      \* ClientEvents the loop has not drained
          waiting,     \* send_and_wait of a spawn
          requested,   \* history: worktrees asked for so far
          dropped      \* history: a wake-up was dropped by a wait or a full queue

workers == <<creations, loads, generation>>
tool == <<yazi, notified, delayed, dropped>>
vars == <<page, dialog, workers, tool, events, waiting, requested>>

Pages == {"Closed", "Form", "Workspaces", "Locations", "Agents", "CreatingWorktree",
          "NativeBrowser", "EmbeddedBrowser", "ToolPrefix"}
Browsers == [generation: 1..MaxRequests, requested: Workspaces, current: Workspaces,
             loading: BOOLEAN, error: BOOLEAN]
Dialogs == [workspace: Workspaces \cup {None}, checkout: {"local", "worktree"},
            repository: BOOLEAN, generation: Nat,
            since: Nat, wanted: Nat, native: Browsers \cup {None}]

ASSUME DialogAssumption ==
  /\ Repositories \subseteq Workspaces
  /\ MaxRequests \in Nat /\ MaxEvents \in Nat \ {0}
  /\ None \notin Workspaces /\ None \notin Browsers /\ None \notin Dialogs
  /\ None \notin {"running", "closed", "exited"}

Free == ~waiting
Open == dialog # None
Turn(p) == page' = p
Quiet == UNCHANGED <<workers, tool, events, waiting, requested>>

-----------------------------------------------------------------------------
(* Opening and closing *)

(* set_workspace_repository: outside a repository there is only this checkout. *)
WithRepository(d) ==
  IF d.workspace = None THEN d
  ELSE IF d.workspace \in Repositories THEN [d EXCEPT !.repository = TRUE]
  ELSE [d EXCEPT !.repository = FALSE, !.checkout = "local"]

(* The draft starts from the settings: any workspace and checkout. *)
OpenDialog(workspace, checkout) ==
  /\ Free /\ page = "Closed" /\ Turn("Form")
  /\ dialog' = WithRepository(
       [workspace |-> workspace, checkout |-> checkout,
        repository |-> FALSE, generation |-> 0,
        since |-> requested, wanted |-> 0, native |-> None])
  /\ Quiet

CancelDialog ==
  /\ Free /\ page = "Form" /\ Turn("Closed") /\ dialog' = None /\ Quiet

(* An agent came or went, or a notification was clicked: another mode, and *)
(* the dialog stays behind it.                                              *)
AnotherMode ==
  /\ Free /\ page # "Closed" /\ Turn("Closed") /\ UNCHANGED dialog /\ Quiet

-----------------------------------------------------------------------------
(* The choices *)

OpenChoices(p) ==
  /\ Free /\ page = "Form" /\ Turn(p) /\ UNCHANGED dialog /\ Quiet

Back ==
  /\ Free /\ page \in {"Workspaces", "Locations", "Agents"} /\ Turn("Form")
  /\ UNCHANGED dialog /\ Quiet

WithWorkspaceOnly(d, w) == [d EXCEPT !.workspace = w]
WithWorkspace(d, w) == WithRepository([d EXCEPT !.workspace = w])

ConfirmWorkspace(w) ==
  /\ Free /\ page = "Workspaces" /\ Turn("Form")
  /\ dialog' = WithWorkspace(dialog, w) /\ Quiet

ConfirmLocation(checkout) ==
  /\ Free /\ page = "Locations"
  /\ checkout = "worktree" => dialog.repository
  /\ Turn("Form") /\ dialog' = [dialog EXCEPT !.checkout = checkout] /\ Quiet

-----------------------------------------------------------------------------
(* Submitting: here, or in a worktree that is created first *)

Submittable == page = "Form" /\ dialog.workspace # None

SubmitLocal ==
  /\ Free /\ Submittable /\ dialog.checkout = "local"
  /\ waiting' = TRUE
  /\ UNCHANGED <<page, dialog, workers, tool, events, requested>>

SubmitWorktree ==
  /\ Free /\ Submittable /\ dialog.checkout = "worktree" /\ requested + generation < MaxRequests
  /\ requested' = requested + 1
  /\ dialog' = [dialog EXCEPT !.generation = @ + 1, !.wanted = requested']
  /\ creations' = Append(creations, [generation |-> dialog'.generation, id |-> requested',
                                     checkout |-> dialog.workspace])
  /\ Turn("CreatingWorktree")
  /\ UNCHANGED <<loads, generation, tool, events, waiting>>

Cancelled(d) == [d EXCEPT !.generation = @ + 1]

CancelWorktree ==
  /\ Free /\ page = "CreatingWorktree" /\ Turn("Form")
  /\ dialog' = Cancelled(dialog) /\ Quiet

CreateWorktree(ok) ==
  /\ creations # <<>> /\ Len(events) < MaxEvents
  /\ creations' = Tail(creations)
  /\ events' = Append(events, [type |-> "worktree", ok |-> ok,
                               generation |-> Head(creations).generation,
                               id |-> Head(creations).id])
  /\ UNCHANGED <<page, dialog, loads, generation, tool, waiting, requested>>

AcceptsSuccess(e) ==
  e.ok /\ Open /\ page = "CreatingWorktree" /\ dialog.generation = e.generation
AcceptsAnyGeneration(e) == e.type = "worktree" /\ Open /\ page = "CreatingWorktree"
Accepts(e) ==
  /\ e.type = "worktree" /\ Open
  /\ page = "CreatingWorktree" /\ dialog.generation = e.generation

ApplyWorktree ==
  LET e == Head(events) IN
  /\ Free /\ events # <<>> /\ e.type = "worktree" /\ events' = Tail(events)
  /\ waiting' = (Accepts(e) /\ e.ok)
  /\ page' = IF Accepts(e) /\ ~e.ok THEN "Form" ELSE page
  /\ UNCHANGED <<dialog, workers, tool, requested>>

(* The response of the spawn. A failure keeps the form; what comes first is *)
(* dropped, whatever it is.                                                 *)
SpawnAnswers(ok) ==
  /\ waiting /\ waiting' = FALSE
  /\ IF ok THEN Turn("Closed") /\ dialog' = None ELSE Turn("Form") /\ UNCHANGED dialog
  /\ UNCHANGED <<workers, tool, events, requested>>

DropWhileWaiting ==
  /\ waiting /\ events # <<>> /\ events' = Tail(events)
  /\ dropped' = (dropped \/ Head(events).type = "tool")
  /\ UNCHANGED <<page, dialog, workers, yazi, notified, delayed, waiting, requested>>

-----------------------------------------------------------------------------
(* Browsing: the directory browser of the dialog itself *)

Load(w, native) ==
  /\ requested + generation < MaxRequests /\ generation' = generation + 1
  /\ loads' = Append(loads, [generation |-> generation', path |-> w])
  /\ dialog' = [dialog EXCEPT !.native = native]

OpenNative(w) ==
  /\ Free /\ page = "Workspaces" /\ Turn("NativeBrowser")
  /\ Load(w, [generation |-> generation', requested |-> w, current |-> w,
              loading |-> TRUE, error |-> FALSE])
  /\ UNCHANGED <<creations, tool, events, waiting, requested>>

(* Into a directory of the list, or to the parent. *)
EnterDirectory(w) ==
  /\ Free /\ page = "NativeBrowser"
  /\ Load(w, [dialog.native EXCEPT !.generation = generation', !.requested = w,
                                   !.loading = TRUE, !.error = FALSE])
  /\ UNCHANGED <<page, creations, tool, events, waiting, requested>>

ChooseBrowsed(d, w) == [WithWorkspace(d, w) EXCEPT !.native = None]

SelectDirectory ==
  /\ Free /\ page = "NativeBrowser" /\ Turn("Form")
  /\ dialog' = ChooseBrowsed(dialog, dialog.native.current) /\ Quiet

CloseNative ==
  /\ Free /\ page = "NativeBrowser" /\ Turn("Workspaces")
  /\ dialog' = [dialog EXCEPT !.native = None] /\ Quiet

ListDirectory(ok) ==
  /\ loads # <<>> /\ Len(events) < MaxEvents
  /\ loads' = Tail(loads)
  /\ events' = Append(events, [type |-> "loaded", ok |-> ok, path |-> Head(loads).path,
                               generation |-> Head(loads).generation])
  /\ UNCHANGED <<page, dialog, creations, generation, tool, waiting, requested>>

IsAnyLoad(e) == Open /\ dialog.native # None
IsWanted(e) ==
  /\ Open /\ dialog.native # None
  /\ dialog.native.generation = e.generation /\ dialog.native.requested = e.path

ApplyLoad ==
  LET e == Head(events) IN
  /\ Free /\ events # <<>> /\ e.type = "loaded" /\ events' = Tail(events)
  /\ dialog' = IF ~IsWanted(e) THEN dialog
               ELSE [dialog EXCEPT !.native.loading = FALSE, !.native.error = ~e.ok,
                                   !.native.current = IF e.ok THEN e.path ELSE @]
  /\ UNCHANGED <<page, workers, tool, waiting, requested>>

-----------------------------------------------------------------------------
(* Browsing with Yazi: its reader thread raises the wake-up flag *)

OpenEmbedded ==
  /\ Free /\ page = "Workspaces" /\ Turn("EmbeddedBrowser")
  /\ yazi' = "running"
  /\ UNCHANGED <<dialog, workers, notified, delayed, dropped, events, waiting, requested>>

ToolPrefix ==
  /\ Free
  /\ \/ page = "EmbeddedBrowser" /\ Turn("ToolPrefix")
     \/ page = "ToolPrefix" /\ Turn("EmbeddedBrowser")
  /\ UNCHANGED dialog /\ Quiet

CloseBehindThePrefix ==
  /\ Free /\ page \in {"EmbeddedBrowser", "ToolPrefix"}
  /\ Turn(IF page = "ToolPrefix" THEN "EmbeddedBrowser" ELSE "Workspaces")
  /\ yazi' = None
  /\ UNCHANGED <<dialog, workers, notified, delayed, dropped, events, waiting, requested>>

(* From its prefix, its footer, or because it cannot be resized. *)
CloseByForce ==
  /\ Free /\ page \in {"EmbeddedBrowser", "ToolPrefix"} /\ Turn("Workspaces")
  /\ yazi' = None
  /\ UNCHANGED <<dialog, workers, notified, delayed, dropped, events, waiting, requested>>

(* try_send: a full queue takes the flag back, and the wake-up is lost. *)
Notify ==
  IF notified THEN UNCHANGED <<notified, events, dropped>>
  ELSE IF Len(events) >= MaxEvents THEN dropped' = TRUE /\ UNCHANGED <<notified, events>>
  ELSE notified' = TRUE /\ events' = Append(events, [type |-> "tool"]) /\ UNCHANGED dropped

(* The reader notifies of every read and of the end of the output; the exit  *)
(* of the process comes later and notifies of nothing.                       *)
YaziReads ==
  /\ yazi = "running" /\ yazi' \in {"running", "closed"} /\ Notify
  /\ UNCHANGED <<page, dialog, workers, delayed, waiting, requested>>

YaziExits ==
  /\ yazi = "closed" /\ yazi' = "exited"
  /\ UNCHANGED <<page, dialog, workers, notified, delayed, dropped, events, waiting, requested>>

NotifyLater ==
  /\ delayed /\ delayed' = FALSE /\ Notify
  /\ UNCHANGED <<page, dialog, workers, yazi, waiting, requested>>

KeepTheFlag == UNCHANGED notified
ClearTheFlag == notified' = FALSE

(* EmbeddedToolChanged: lower the flag, then poll. A picker that has exited  *)
(* moves the user, whatever is open, if a dialog is.                         *)
PollYazi ==
  /\ Free /\ events # <<>> /\ Head(events).type = "tool" /\ events' = Tail(events)
  /\ ClearTheFlag
  /\ delayed' = (delayed \/ yazi = "closed")
  /\ IF yazi # "exited" THEN UNCHANGED <<page, dialog, yazi>>
     ELSE /\ yazi' = None
          /\ \/ ~Open /\ UNCHANGED <<page, dialog>>
             \/ Open /\ Turn("Workspaces") /\ UNCHANGED dialog
             \/ Open /\ Turn("Form") /\ \E w \in Workspaces : dialog' = ChooseBrowsed(dialog, w)
  /\ UNCHANGED <<workers, dropped, waiting, requested>>

-----------------------------------------------------------------------------
Init ==
  /\ page = "Closed" /\ dialog = None /\ creations = <<>> /\ loads = <<>> /\ generation = 0
  /\ yazi = None /\ notified = FALSE /\ delayed = FALSE /\ events = <<>> /\ waiting = FALSE
  /\ requested = 0 /\ dropped = FALSE

User ==
  \/ \E w \in Workspaces \cup {None}, c \in {"local", "worktree"} :
       OpenDialog(w, c)
  \/ CancelDialog \/ AnotherMode \/ Back
  \/ \E p \in {"Workspaces", "Locations", "Agents"} : OpenChoices(p)
  \/ \E w \in Workspaces : ConfirmWorkspace(w) \/ OpenNative(w) \/ EnterDirectory(w)
  \/ \E c \in {"local", "worktree"} : ConfirmLocation(c)
  \/ SubmitLocal \/ SubmitWorktree \/ CancelWorktree
  \/ SelectDirectory \/ CloseNative \/ OpenEmbedded \/ ToolPrefix \/ CloseByForce

Creates == \E ok \in BOOLEAN : CreateWorktree(ok)
Lists == \E ok \in BOOLEAN : ListDirectory(ok)
Answers == \E ok \in BOOLEAN : SpawnAnswers(ok)
Drain == ApplyWorktree \/ ApplyLoad \/ PollYazi

Next == User \/ Creates \/ Lists \/ Answers \/ DropWhileWaiting \/ Drain
        \/ YaziReads \/ YaziExits \/ NotifyLater

(* The workers go on, and a wait ends with an answer or a timeout.  The keys *)
(* of the user come through the same queue, so they cannot keep the loop     *)
(* from what is before them: between two waits it gets on with the queue.    *)
Fairness ==
  WF_vars(Creates) /\ WF_vars(Lists) /\ WF_vars(Answers) /\ SF_vars(Drain) /\ WF_vars(NotifyLater)

Spec == Init /\ [][Next]_vars /\ Fairness

-----------------------------------------------------------------------------
(* Properties *)

(* Every variable has its type and the loop's queue its bound. *)
TypeOK ==
  /\ page \in Pages /\ dialog \in Dialogs \cup {None}
  /\ yazi \in {None, "running", "closed", "exited"}
  /\ {notified, delayed, waiting, dropped} \subseteq BOOLEAN
  /\ generation \in 0..MaxRequests /\ requested \in 0..MaxRequests
  /\ Len(events) <= MaxEvents

(* A page is shown only with what it draws from, through every result that   *)
(* moves the user while another page is open: the handlers of a page return  *)
(* silently without it, and the user would be stuck.                         *)
PageHasItsState ==
  /\ page # "Closed" => Open
  /\ page = "NativeBrowser" => dialog.native # None
  /\ page \in {"EmbeddedBrowser", "ToolPrefix"} => yazi # None

(* A worktree is only ever asked for inside a repository, along every way a  *)
(* workspace gets into the draft (settings, list, browser, Yazi).            *)
WorktreesAreOfRepositories ==
  /\ \A i \in DOMAIN creations : creations[i].checkout \in Repositories
  /\ Open /\ dialog.checkout = "worktree" => dialog.workspace \in Repositories \cup {None}

(* The directory browser lists the directory it names once nothing is being  *)
(* loaded, although older listings arrive after newer requests.              *)
ListingIsCurrent ==
  Open /\ dialog.native # None /\ ~dialog.native.loading /\ ~dialog.native.error
    => dialog.native.current = dialog.native.requested

(* All of this at once: what the dialog shows and asks for fits together.    *)
DialogIsSound ==
  TypeOK /\ PageHasItsState /\ WorktreesAreOfRepositories /\ ListingIsCurrent

(* Of the worktrees one dialog asked for, only the last one starts an agent: *)
(* a cancelled creation is not taken for the one that follows it.            *)
OnlyTheLatestWorktree ==
  [][ (ApplyWorktree /\ Accepts(Head(events)) /\ Head(events).id > dialog.since)
      => Head(events).id = dialog.wanted ]_vars

(* A page that waits for a worker goes on: creation and listing end, with a  *)
(* result or a notice, although waits drop results of whatever came before.  *)
WaitingEnds ==
  /\ []<>(page # "CreatingWorktree")
  /\ []<>(page = "NativeBrowser" => ~dialog.native.loading)

(* A picker that exits is noticed and its choice applied, although the exit  *)
(* itself wakes nobody, unless a wake-up was lost to a wait or a full queue. *)
ExitIsNoticed == (yazi = "exited") ~> (yazi # "exited" \/ dropped)

(* The dialog never hangs: every wait of it ends, the picker's included.     *)
WaitsEnd == WaitingEnds /\ ExitIsNoticed
=============================================================================
