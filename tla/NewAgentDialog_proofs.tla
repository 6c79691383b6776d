------------------------ MODULE NewAgentDialog_proofs ------------------------
(***************************************************************************)
(* Proofs about the New agent dialog, for every set of workspaces, every   *)
(* number of creations and listings, and every capacity of the loop's      *)
(* queue: what it shows fits together, and only the worktree it asked for   *)
(* last starts an agent.                                                    *)
(***************************************************************************)
EXTENDS NewAgentDialog, SequenceTheorems, TLAPS

(* What is on its way: requests of the two workers, and events. *)
Elements(s) == {s[i] : i \in DOMAIN s}
Creations == [generation: Nat, id: Nat, checkout: Workspaces]
Listings == [generation: Nat, path: Workspaces]
WorktreeEvents == [type: {"worktree"}, ok: BOOLEAN, generation: Nat, id: Nat]
LoadedEvents == [type: {"loaded"}, ok: BOOLEAN, path: Workspaces, generation: Nat]
Events == WorktreeEvents \cup LoadedEvents \cup [type: {"tool"}]

(* The workspace of a draft decides whether a worktree can be made there. *)
Consistent(d) ==
  /\ d.repository => d.workspace \in Repositories
  /\ d.checkout = "worktree" => d.workspace \in Repositories \cup {None}
Listed(d) ==
  d.native # None /\ ~d.native.loading /\ ~d.native.error => d.native.current = d.native.requested

(* A worktree that the dialog asked for carries its generation only if it   *)
(* is the one wanted.                                                       *)
Superseded(d, r) ==
  r.id > d.since => r.generation <= d.generation /\ (r.generation = d.generation => r.id = d.wanted)
Outstanding == Elements(creations) \cup {e \in Elements(events) : e.type = "worktree"}

QueueInv ==
  /\ creations \in Seq(Creations) /\ loads \in Seq(Listings) /\ events \in Seq(Events)
  /\ Len(events) <= MaxEvents
  /\ \A c \in Elements(creations) : c.checkout \in Repositories
CounterInv == generation \in Nat /\ requested \in Nat /\ requested + generation <= MaxRequests
ScreenInv ==
  /\ page \in Pages /\ yazi \in {None, "running", "closed", "exited"}
  /\ notified \in BOOLEAN /\ delayed \in BOOLEAN /\ waiting \in BOOLEAN /\ dropped \in BOOLEAN
  /\ PageHasItsState /\ (waiting => Open)
DraftInv ==
  /\ dialog \in Dialogs \cup {None}
  /\ Open => Consistent(dialog) /\ Listed(dialog)
LatestInv ==
  /\ \A r \in Outstanding : r.id <= requested
  /\ Open => \A r \in Outstanding : Superseded(dialog, r)
IInv == QueueInv /\ CounterInv /\ ScreenInv /\ DraftInv /\ LatestInv

-----------------------------------------------------------------------------
\* Queues

\* What a queue holds after its first element left.
LEMMA TailElements ==
  ASSUME NEW S, NEW s \in Seq(S), s # <<>>
  PROVE  /\ Head(s) \in Elements(s) /\ Head(s) \in S
         /\ Tail(s) \in Seq(S) /\ Elements(Tail(s)) \subseteq Elements(s)
         /\ Len(Tail(s)) \in Nat /\ Len(s) \in Nat /\ Len(Tail(s)) < Len(s)
PROOF
  <1>1. Len(s) \in Nat \ {0} /\ DOMAIN s = 1..Len(s) /\ Head(s) = s[1]
    BY EmptySeq, LenProperties
  <1>2. Tail(s) \in Seq(S) /\ Len(Tail(s)) = Len(s) - 1
        /\ \A i \in 1..Len(Tail(s)) : Tail(s)[i] = s[i + 1]
    BY HeadTailProperties
  <1>3. DOMAIN Tail(s) = 1..Len(Tail(s))
    BY <1>2, LenProperties
  <1>4. Elements(Tail(s)) \subseteq Elements(s)
    BY <1>1, <1>2, <1>3 DEF Elements
  <1>5. Head(s) \in Elements(s) /\ Head(s) \in S
    BY <1>1, ElementOfSeq DEF Elements
  <1> QED
    BY <1>1, <1>2, <1>4, <1>5

\* What a queue holds after an element joined it.
LEMMA AppendElements ==
  ASSUME NEW S, NEW s \in Seq(S), NEW e \in S
  PROVE  /\ Append(s, e) \in Seq(S) /\ Elements(Append(s, e)) = Elements(s) \cup {e}
         /\ Len(s) \in Nat /\ Len(Append(s, e)) = Len(s) + 1
PROOF
  <1>1. Append(s, e) \in Seq(S) /\ Len(s) \in Nat /\ Len(Append(s, e)) = Len(s) + 1
    BY AppendProperties, LenProperties
  <1>2. DOMAIN s = 1..Len(s) /\ DOMAIN Append(s, e) = 1..(Len(s) + 1)
    BY <1>1, LenProperties
  <1>3. /\ \A i \in 1..Len(s) : Append(s, e)[i] = s[i]
        /\ Append(s, e)[Len(s) + 1] = e
    BY AppendProperties
  <1> QED
    BY <1>1, <1>2, <1>3 DEF Elements

\* Elements of a queue of events that are of a worktree.
LEMMA WorktreeEvent ==
  ASSUME QueueInv, NEW e \in Elements(events), e.type = "worktree" PROVE e \in WorktreeEvents
PROOF
  <1>1. e \in Events
    BY ElementOfSeq, LenProperties DEF Elements, QueueInv
  <1> QED
    BY <1>1 DEF Events, LoadedEvents

\* Whatever is on its way of a worktree is numbered.
LEMMA OutstandingNumbers ==
  ASSUME QueueInv, NEW r \in Outstanding PROVE r.id \in Nat /\ r.generation \in Nat
PROOF
  <1>1. CASE r \in Elements(creations)
    <2>1. r \in Creations
      BY <1>1, ElementOfSeq, LenProperties DEF Elements, QueueInv
    <2> QED
      BY <2>1 DEF Creations
  <1>2. CASE r \notin Elements(creations)
    <2>1. r \in WorktreeEvents
      BY <1>2, WorktreeEvent DEF Outstanding
    <2> QED
      BY <2>1 DEF WorktreeEvents
  <1> QED
    BY <1>1, <1>2

-----------------------------------------------------------------------------
\* The draft

\* Looking whether the workspace is in a repository makes a draft consistent.
LEMMA RepositoryKnown ==
  ASSUME NEW d \in Dialogs, d.workspace # None \/ Consistent(d)
  PROVE  /\ WithRepository(d) \in Dialogs /\ Consistent(WithRepository(d))
         /\ WithRepository(d).generation = d.generation /\ WithRepository(d).since = d.since
         /\ WithRepository(d).wanted = d.wanted /\ WithRepository(d).native = d.native
         /\ WithRepository(d).workspace = d.workspace
PROOF
  BY DialogAssumption DEF Dialogs, WithRepository, Consistent

\* So does choosing a workspace, in the list or in a browser.
LEMMA WorkspaceChosen ==
  ASSUME NEW d \in Dialogs, NEW w \in Workspaces
  PROVE  /\ WithWorkspace(d, w) \in Dialogs /\ Consistent(WithWorkspace(d, w))
         /\ WithWorkspace(d, w).generation = d.generation
         /\ WithWorkspace(d, w).since = d.since /\ WithWorkspace(d, w).wanted = d.wanted
         /\ WithWorkspace(d, w).native = d.native
PROOF
  <1> DEFINE chosen == [d EXCEPT !.workspace = w]
  <1>1. /\ chosen \in Dialogs /\ chosen.workspace = w /\ chosen.generation = d.generation
        /\ chosen.since = d.since /\ chosen.wanted = d.wanted /\ chosen.native = d.native
    BY DEF Dialogs
  <1>2. chosen.workspace # None
    BY <1>1, DialogAssumption
  <1> QED
    BY <1>1, <1>2, RepositoryKnown DEF WithWorkspace

LEMMA BrowsedChosen ==
  ASSUME NEW d \in Dialogs, NEW w \in Workspaces
  PROVE  /\ ChooseBrowsed(d, w) \in Dialogs /\ Consistent(ChooseBrowsed(d, w))
         /\ Listed(ChooseBrowsed(d, w))
         /\ ChooseBrowsed(d, w).generation = d.generation
         /\ ChooseBrowsed(d, w).since = d.since /\ ChooseBrowsed(d, w).wanted = d.wanted
PROOF
  <1>1. /\ WithWorkspace(d, w) \in Dialogs /\ Consistent(WithWorkspace(d, w))
        /\ WithWorkspace(d, w).generation = d.generation
        /\ WithWorkspace(d, w).since = d.since /\ WithWorkspace(d, w).wanted = d.wanted
    BY WorkspaceChosen
  <1> HIDE DEF WithWorkspace
  <1> QED
    BY <1>1 DEF ChooseBrowsed, Dialogs, Consistent, Listed

\* A draft whose counters stay supersedes what it superseded.
LEMMA LatestStays ==
  ASSUME IInv, dialog' # None => dialog # None /\ dialog'.generation = dialog.generation
           /\ dialog'.since = dialog.since /\ dialog'.wanted = dialog.wanted,
         Outstanding' \subseteq Outstanding, requested' = requested
  PROVE  LatestInv'
PROOF
  BY DEF IInv, LatestInv, Superseded, Open

-----------------------------------------------------------------------------
\* Steps

THEOREM InitIsSound == Init => IInv
PROOF
  <1> SUFFICES ASSUME Init PROVE IInv
    OBVIOUS
  <1>1. Elements(<<>>) = {}
    BY DEF Elements
  <1>2. QueueInv
    BY <1>1, EmptySeq, DialogAssumption DEF Init, QueueInv
  <1>3. CounterInv /\ DraftInv /\ LatestInv
    BY <1>1, DialogAssumption DEF Init, CounterInv, DraftInv, LatestInv, Outstanding, Open
  <1>4. ScreenInv
    BY DEF Init, ScreenInv, Pages, PageHasItsState, Open
  <1> QED
    BY <1>2, <1>3, <1>4 DEF IInv

\* The queues stay as they are in most steps of the user.
LEMMA QuietStep ==
  ASSUME IInv, Quiet
  PROVE  QueueInv' /\ CounterInv' /\ Outstanding' = Outstanding /\ requested' = requested
PROOF
  BY DEF IInv, Quiet, workers, tool, QueueInv, CounterInv, Outstanding, Elements

\* Opening the dialog: what was asked for before is of an earlier one.
LEMMA OpenStep ==
  ASSUME IInv, NEW w \in Workspaces \cup {None}, NEW c \in {"local", "worktree"}, OpenDialog(w, c)
  PROVE  IInv'
PROOF
  <1> DEFINE draft == [workspace |-> w, checkout |-> c, repository |-> FALSE, generation |-> 0,
                       since |-> requested, wanted |-> 0, native |-> None]
  <1>1. draft \in Dialogs /\ draft.native = None /\ draft.since = requested
        /\ (draft.workspace # None \/ Consistent(draft))
    BY DEF IInv, CounterInv, Dialogs, Consistent
  <1>2. dialog' = WithRepository(draft)
    BY DEF OpenDialog
  <1>3. dialog' \in Dialogs /\ Consistent(dialog') /\ dialog'.native = None
        /\ dialog'.since = requested
    BY <1>1, <1>2, RepositoryKnown
  <1>4. QueueInv' /\ CounterInv' /\ Outstanding' = Outstanding /\ requested' = requested
    BY QuietStep DEF OpenDialog
  <1>5. DraftInv'
    BY <1>3 DEF DraftInv, Listed
  <1>6. ScreenInv'
    BY <1>3, DialogAssumption
       DEF OpenDialog, Turn, Quiet, tool, IInv, ScreenInv, Pages, PageHasItsState, Open, Free
  <1>7. \A r \in Outstanding : r.id <= requested
    BY DEF IInv, LatestInv
  <1>8. \A r \in Outstanding : ~(r.id > requested)
    <2> TAKE r \in Outstanding
    <2>1. r.id \in Nat
      BY OutstandingNumbers DEF IInv
    <2> QED
      BY <1>7, <2>1 DEF IInv, CounterInv
  <1>9. LatestInv'
    BY <1>3, <1>4, <1>7, <1>8 DEF LatestInv, Superseded
  <1> QED
    BY <1>4, <1>5, <1>6, <1>9 DEF IInv

\* Other modes, pages and choices of the form.
LEMMA PageStep ==
  ASSUME IInv, CancelDialog \/ AnotherMode \/ Back \/ ToolPrefix
         \/ \E p \in {"Workspaces", "Locations", "Agents"} : OpenChoices(p)
  PROVE  IInv'
PROOF
  <1>1. QueueInv' /\ CounterInv' /\ Outstanding' = Outstanding /\ requested' = requested
    BY QuietStep DEF CancelDialog, AnotherMode, Back, ToolPrefix, OpenChoices
  <1>2. dialog' = dialog \/ dialog' = None
    BY DEF CancelDialog, AnotherMode, Back, ToolPrefix, OpenChoices
  <1>3. DraftInv'
    BY <1>2 DEF IInv, DraftInv, Open
  <1>4. LatestInv'
    BY <1>1, <1>2 DEF IInv, LatestInv, Open
  <1>5. ScreenInv'
    BY DEF IInv, ScreenInv, CancelDialog, AnotherMode, Back, ToolPrefix, OpenChoices, Turn,
           Quiet, tool, Pages, PageHasItsState, Open, Free
  <1> QED
    BY <1>1, <1>3, <1>4, <1>5 DEF IInv

\* Choices that change the draft and leave its counters.
LEMMA ChoiceStep ==
  ASSUME IInv, \/ \E w \in Workspaces : ConfirmWorkspace(w)
               \/ \E c \in {"local", "worktree"} : ConfirmLocation(c)
               \/ SelectDirectory \/ CloseNative
  PROVE  IInv'
PROOF
  <1>1. QueueInv' /\ CounterInv' /\ Outstanding' = Outstanding /\ requested' = requested
    BY QuietStep DEF ConfirmWorkspace, ConfirmLocation, SelectDirectory, CloseNative
  <1>2. dialog \in Dialogs /\ Open
    BY DEF IInv, DraftInv, ScreenInv, PageHasItsState, Open,
           ConfirmWorkspace, ConfirmLocation, SelectDirectory, CloseNative
  <1> DEFINE Kept == /\ dialog' \in Dialogs /\ Consistent(dialog') /\ Listed(dialog')
                     /\ dialog'.generation = dialog.generation
                     /\ dialog'.since = dialog.since /\ dialog'.wanted = dialog.wanted
  <1>3. Kept
    <2>1. Consistent(dialog) /\ Listed(dialog)
      BY <1>2 DEF IInv, DraftInv
    <2>2. ASSUME NEW w \in Workspaces, ConfirmWorkspace(w) PROVE Kept
      <3>1. dialog' = WithWorkspace(dialog, w)
        BY <2>2 DEF ConfirmWorkspace
      <3> QED
        BY <1>2, <2>1, <3>1, WorkspaceChosen DEF Listed
    <2>3. ASSUME NEW c \in {"local", "worktree"}, ConfirmLocation(c) PROVE Kept
      BY <1>2, <2>1, <2>3 DEF ConfirmLocation, Dialogs, Consistent, Listed
    <2>4. CASE SelectDirectory
      <3>1. dialog.native # None
        BY <2>4 DEF SelectDirectory, IInv, ScreenInv, PageHasItsState
      <3>2. dialog.native.current \in Workspaces
        BY <1>2, <3>1 DEF Dialogs, Browsers
      <3> QED
        BY <1>2, <2>4, <3>2, BrowsedChosen DEF SelectDirectory
    <2>5. CASE CloseNative
      BY <1>2, <2>1, <2>5 DEF CloseNative, Dialogs, Consistent, Listed
    <2> QED
      BY <2>2, <2>3, <2>4, <2>5
  <1>4. DraftInv'
    BY <1>3 DEF DraftInv
  <1>5. LatestInv'
    BY <1>1, <1>2, <1>3, LatestStays DEF Open
  <1>6. ScreenInv'
    <2>1. page' \in {"Form", "Workspaces"} /\ UNCHANGED <<yazi, notified, delayed, dropped, waiting>>
      BY DEF ConfirmWorkspace, ConfirmLocation, SelectDirectory, CloseNative, Turn, Quiet, tool
    <2> QED
      BY <1>3, <2>1, DialogAssumption DEF IInv, ScreenInv, Pages, PageHasItsState, Open
  <1> QED
    BY <1>1, <1>4, <1>5, <1>6 DEF IInv

\* Submitting: an agent here, or a worktree with a generation of its own.
LEMMA SubmitStep ==
  ASSUME IInv, SubmitLocal \/ SubmitWorktree PROVE IInv'
PROOF
  <1>1. dialog \in Dialogs /\ Open /\ Consistent(dialog) /\ Listed(dialog)
    BY DEF IInv, DraftInv, ScreenInv, PageHasItsState, SubmitLocal, SubmitWorktree, Submittable, Open
  <1>2. CASE SubmitLocal
    <2>1. QueueInv' /\ CounterInv' /\ DraftInv' /\ LatestInv'
      BY <1>2 DEF SubmitLocal, workers, IInv, QueueInv, CounterInv, DraftInv, LatestInv, Outstanding, Open
    <2>2. ScreenInv'
      BY <1>1, <1>2 DEF SubmitLocal, tool, IInv, ScreenInv, PageHasItsState, Open
    <2> QED
      BY <2>1, <2>2 DEF IInv
  <1>3. CASE SubmitWorktree
    <2> DEFINE request == [generation |-> dialog.generation + 1, id |-> requested + 1,
                           checkout |-> dialog.workspace]
    <2>1. /\ dialog' \in Dialogs /\ Consistent(dialog') /\ Listed(dialog')
          /\ dialog'.generation = dialog.generation + 1
          /\ dialog'.since = dialog.since /\ dialog'.wanted = requested + 1
      <3>1. requested \in Nat /\ requested' = requested + 1 /\ requested + 1 \in Nat
        BY <1>3 DEF SubmitWorktree, IInv, CounterInv
      <3>2. dialog' = [dialog EXCEPT !.generation = dialog.generation + 1, !.wanted = requested + 1]
        BY <1>3, <3>1 DEF SubmitWorktree
      <3>3. /\ dialog'.generation = dialog.generation + 1 /\ dialog'.wanted = requested + 1
            /\ dialog'.since = dialog.since /\ dialog'.native = dialog.native
            /\ dialog'.workspace = dialog.workspace /\ dialog'.checkout = dialog.checkout
            /\ dialog'.repository = dialog.repository
        BY <1>1, <3>2 DEF Dialogs
      <3>4. dialog.generation + 1 \in Nat
        BY <1>1 DEF Dialogs
      <3>5. dialog' \in Dialogs
        BY <1>1, <3>1, <3>2, <3>4 DEF Dialogs
      <3> QED
        BY <1>1, <3>3, <3>5 DEF Consistent, Listed
    <2>2. request \in Creations /\ request.checkout \in Repositories
      BY <1>1, <1>3, DialogAssumption
         DEF SubmitWorktree, Submittable, Consistent, Creations, Dialogs, IInv, CounterInv
    <2>3. creations' = Append(creations, request)
      BY <1>3, <2>1 DEF SubmitWorktree
    <2>4. creations' \in Seq(Creations) /\ Elements(creations') = Elements(creations) \cup {request}
      BY <2>2, <2>3, AppendElements DEF IInv, QueueInv
    <2>5. QueueInv'
      BY <1>3, <2>2, <2>4 DEF SubmitWorktree, IInv, QueueInv
    <2>6. CounterInv'
      BY <1>3, DialogAssumption DEF SubmitWorktree, IInv, CounterInv
    <2>7. ScreenInv'
      BY <1>3, <2>1, DialogAssumption
         DEF SubmitWorktree, Turn, tool, Free, IInv, ScreenInv, Pages, PageHasItsState, Open
    <2>8. DraftInv'
      BY <2>1 DEF DraftInv
    <2>9. Outstanding' = Outstanding \cup {request}
      BY <1>3, <2>4 DEF SubmitWorktree, Outstanding
    <2>10. LatestInv'
      <3>1. ASSUME NEW r \in Outstanding PROVE r.id <= requested' /\ Superseded(dialog', r)
        <4>1. r.id \in Nat /\ r.generation \in Nat /\ r.id <= requested /\ Superseded(dialog, r)
          BY <1>1, <3>1, OutstandingNumbers DEF IInv, LatestInv
        <4>2. dialog.generation \in Nat /\ requested \in Nat /\ requested' = requested + 1
          BY <1>1, <1>3 DEF Dialogs, SubmitWorktree, IInv, CounterInv
        <4> QED
          BY <2>1, <4>1, <4>2 DEF Superseded
      <3>2. request.id <= requested' /\ Superseded(dialog', request)
        BY <1>1, <1>3, <2>1 DEF SubmitWorktree, Superseded, IInv, CounterInv, Dialogs
      <3> QED
        BY <2>9, <3>1, <3>2 DEF LatestInv
    <2> QED
      BY <2>5, <2>6, <2>7, <2>8, <2>10 DEF IInv
  <1> QED
    BY <1>2, <1>3

\* A cancelled creation leaves the generation that nothing on its way has.
LEMMA CancelStep ==
  ASSUME IInv, CancelWorktree PROVE IInv'
PROOF
  <1>1. QueueInv' /\ CounterInv' /\ Outstanding' = Outstanding /\ requested' = requested
    BY QuietStep DEF CancelWorktree
  <1>2. dialog \in Dialogs /\ Open /\ Consistent(dialog) /\ Listed(dialog)
    BY DEF IInv, DraftInv, ScreenInv, PageHasItsState, CancelWorktree, Open
  <1>3. /\ dialog' \in Dialogs /\ Consistent(dialog') /\ Listed(dialog')
        /\ dialog'.generation = dialog.generation + 1
        /\ dialog'.since = dialog.since /\ dialog'.wanted = dialog.wanted
    BY <1>2 DEF CancelWorktree, Cancelled, Dialogs, Consistent, Listed
  <1>4. LatestInv'
    <2>1. ASSUME NEW r \in Outstanding PROVE r.id <= requested /\ Superseded(dialog', r)
      <3>1. r.generation \in Nat /\ r.id <= requested /\ Superseded(dialog, r)
        BY <1>2, <2>1, OutstandingNumbers DEF IInv, LatestInv
      <3>2. dialog.generation \in Nat
        BY <1>2 DEF Dialogs
      <3> QED
        BY <1>3, <3>1, <3>2 DEF Superseded
    <2> QED
      BY <1>1, <2>1 DEF LatestInv
  <1>5. ScreenInv'
    BY <1>3, DialogAssumption
       DEF CancelWorktree, Turn, Quiet, tool, Free, IInv, ScreenInv, Pages, PageHasItsState, Open
  <1> QED
    BY <1>1, <1>3, <1>4, <1>5 DEF IInv, DraftInv

\* The worker that creates worktrees passes on the numbers of its request.
LEMMA CreateStep ==
  ASSUME IInv, NEW ok \in BOOLEAN, CreateWorktree(ok) PROVE IInv'
PROOF
  <1> DEFINE request == Head(creations)
             event == [type |-> "worktree", ok |-> ok, generation |-> request.generation, id |-> request.id]
  <1>1. /\ request \in Elements(creations) /\ request \in Creations
        /\ Tail(creations) \in Seq(Creations) /\ Elements(Tail(creations)) \subseteq Elements(creations)
    BY TailElements DEF CreateWorktree, IInv, QueueInv
  <1>2. event \in Events
    BY <1>1 DEF Creations, Events, WorktreeEvents
  <1>3. /\ events' \in Seq(Events) /\ Elements(events') = Elements(events) \cup {event}
        /\ Len(events) \in Nat /\ Len(events') = Len(events) + 1
    BY <1>2, AppendElements DEF CreateWorktree, IInv, QueueInv
  <1>4. QueueInv'
    BY <1>1, <1>3, DialogAssumption DEF CreateWorktree, IInv, QueueInv
  <1>5. CounterInv' /\ DraftInv' /\ ScreenInv'
    BY DEF CreateWorktree, tool, IInv, CounterInv, DraftInv, ScreenInv, PageHasItsState, Open
  <1>6. LatestInv'
    <2>1. request \in Outstanding
      BY <1>1 DEF Outstanding
    <2>2. ASSUME NEW r \in Outstanding'
          PROVE  r.id <= requested /\ (Open => Superseded(dialog, r))
      <3>1. CASE r \in Outstanding
        BY <3>1 DEF IInv, LatestInv
      <3>2. CASE r \notin Outstanding
        <4>1. r = event
          BY <1>1, <1>3, <3>2 DEF CreateWorktree, Outstanding
        <4>2. r.id = request.id /\ r.generation = request.generation
          BY <4>1
        <4> QED
          BY <2>1, <4>2 DEF IInv, LatestInv, Superseded
      <3> QED
        BY <3>1, <3>2
    <2>3. requested' = requested /\ dialog' = dialog
      BY DEF CreateWorktree
    <2> QED
      BY <2>2, <2>3 DEF LatestInv, Open
  <1> QED
    BY <1>4, <1>5, <1>6 DEF IInv

\* The loader of directories.
LEMMA ListStep ==
  ASSUME IInv, NEW ok \in BOOLEAN, ListDirectory(ok) PROVE IInv'
PROOF
  <1> DEFINE request == Head(loads)
             event == [type |-> "loaded", ok |-> ok, path |-> request.path, generation |-> request.generation]
  <1>1. request \in Listings /\ Tail(loads) \in Seq(Listings)
    BY TailElements DEF ListDirectory, IInv, QueueInv
  <1>2. event \in Events /\ event.type = "loaded"
    BY <1>1 DEF Listings, Events, LoadedEvents
  <1>3. /\ events' \in Seq(Events) /\ Elements(events') = Elements(events) \cup {event}
        /\ Len(events) \in Nat /\ Len(events') = Len(events) + 1
    BY <1>2, AppendElements DEF ListDirectory, IInv, QueueInv
  <1>4. QueueInv'
    BY <1>1, <1>3, DialogAssumption DEF ListDirectory, IInv, QueueInv
  <1>5. CounterInv' /\ DraftInv' /\ ScreenInv'
    BY DEF ListDirectory, tool, IInv, CounterInv, DraftInv, ScreenInv, PageHasItsState, Open
  <1>6. Outstanding' = Outstanding
    BY <1>2, <1>3 DEF ListDirectory, Outstanding
  <1>7. LatestInv'
    BY <1>6, LatestStays DEF ListDirectory, Open
  <1> QED
    BY <1>4, <1>5, <1>7 DEF IInv

\* An event that leaves the queue, taken or dropped.
LEMMA EventLeaves ==
  ASSUME IInv, events # <<>>, events' = Tail(events), UNCHANGED <<creations, loads, requested>>
  PROVE  /\ Head(events) \in Elements(events) /\ Head(events) \in Events
         /\ QueueInv' /\ Outstanding' \subseteq Outstanding
PROOF
  <1>1. /\ Head(events) \in Elements(events) /\ Head(events) \in Events
        /\ events' \in Seq(Events) /\ Elements(events') \subseteq Elements(events)
        /\ Len(events) \in Nat /\ Len(events') \in Nat /\ Len(events') < Len(events)
    BY TailElements DEF IInv, QueueInv
  <1>2. QueueInv'
    BY <1>1, DialogAssumption DEF IInv, QueueInv
  <1> QED
    BY <1>1, <1>2 DEF Outstanding

\* The result of a creation starts a spawn, or brings the form back.
LEMMA ApplyWorktreeStep ==
  ASSUME IInv, ApplyWorktree PROVE IInv'
PROOF
  <1>1. QueueInv' /\ Outstanding' \subseteq Outstanding
    BY EventLeaves DEF ApplyWorktree, workers
  <1>2. CounterInv' /\ DraftInv'
    BY DEF ApplyWorktree, workers, IInv, CounterInv, DraftInv, Open
  <1>3. LatestInv'
    BY <1>1, LatestStays DEF ApplyWorktree
  <1>4. ScreenInv'
    <2>1. /\ UNCHANGED <<dialog, yazi, notified, delayed, dropped>> /\ waiting' \in BOOLEAN
          /\ waiting' => Open
      BY DEF ApplyWorktree, tool, Accepts
    <2>2. page' = page \/ (page' = "Form" /\ Open)
      BY DEF ApplyWorktree, Accepts
    <2> QED
      BY <2>1, <2>2 DEF IInv, ScreenInv, Pages, PageHasItsState, Open
  <1> QED
    BY <1>1, <1>2, <1>3, <1>4 DEF IInv

\* The answer of a spawn, and what is dropped before it.
LEMMA WaitStep ==
  ASSUME IInv, DropWhileWaiting \/ \E ok \in BOOLEAN : SpawnAnswers(ok) PROVE IInv'
PROOF
  <1>1. CASE DropWhileWaiting
    <2>1. QueueInv' /\ Outstanding' \subseteq Outstanding
      BY <1>1, EventLeaves DEF DropWhileWaiting, workers
    <2>2. CounterInv' /\ DraftInv'
      BY <1>1 DEF DropWhileWaiting, workers, IInv, CounterInv, DraftInv, Open
    <2>3. LatestInv'
      BY <1>1, <2>1, LatestStays DEF DropWhileWaiting
    <2>4. dropped' \in BOOLEAN
      BY <1>1 DEF DropWhileWaiting, IInv, ScreenInv
    <2>5. ScreenInv'
      BY <1>1, <2>4 DEF DropWhileWaiting, IInv, ScreenInv, PageHasItsState, Open
    <2> QED
      BY <2>1, <2>2, <2>3, <2>5 DEF IInv
  <1>2. ASSUME NEW ok \in BOOLEAN, SpawnAnswers(ok) PROVE IInv'
    <2>1. QueueInv' /\ CounterInv' /\ Outstanding' = Outstanding
      BY <1>2 DEF SpawnAnswers, workers, IInv, QueueInv, CounterInv, Outstanding, Elements
    <2>2. dialog' = None \/ (dialog' = dialog /\ Open)
      BY <1>2 DEF SpawnAnswers, IInv, ScreenInv
    <2>3. DraftInv'
      BY <2>2 DEF IInv, DraftInv, Open
    <2>4. LatestInv'
      BY <1>2, <2>1, <2>2, LatestStays DEF SpawnAnswers
    <2>5. ScreenInv'
      BY <1>2 DEF SpawnAnswers, Turn, tool, IInv, ScreenInv, Pages, PageHasItsState, Open
    <2> QED
      BY <2>1, <2>3, <2>4, <2>5 DEF IInv
  <1> QED
    BY <1>1, <1>2

\* Asking for a listing: the browser waits for the directory it names.
LEMMA LoadStep ==
  ASSUME IInv, NEW w \in Workspaces, OpenNative(w) \/ EnterDirectory(w) PROVE IInv'
PROOF
  <1> DEFINE request == [generation |-> generation + 1, path |-> w]
  <1>1. /\ requested + generation < MaxRequests /\ generation' = generation + 1
        /\ requested' = requested /\ creations' = creations /\ events' = events
        /\ waiting' = waiting /\ UNCHANGED tool /\ page' = "NativeBrowser" /\ ~waiting
    BY DEF OpenNative, EnterDirectory, Load, Turn, Free
  <1>2. CounterInv'
    BY <1>1, DialogAssumption DEF IInv, CounterInv
  <1>3. generation + 1 \in 1..MaxRequests /\ generation + 1 \in Nat
    BY <1>1, DialogAssumption DEF IInv, CounterInv
  <1>4. loads' \in Seq(Listings)
    <2>1. loads' = Append(loads, request)
      BY <1>1 DEF OpenNative, EnterDirectory, Load
    <2>2. request \in Listings
      BY <1>3 DEF Listings
    <2> QED
      BY <2>1, <2>2, AppendElements DEF IInv, QueueInv
  <1>5. QueueInv' /\ Outstanding' = Outstanding
    BY <1>1, <1>4 DEF IInv, QueueInv, Outstanding, Elements
  <1>6. dialog \in Dialogs /\ Open /\ Consistent(dialog)
    BY DEF IInv, DraftInv, ScreenInv, PageHasItsState, OpenNative, EnterDirectory, Open
  <1>7. \E n \in Browsers : n.loading /\ dialog' = [dialog EXCEPT !.native = n]
    <2>1. CASE OpenNative(w)
      <3> DEFINE n == [generation |-> generation + 1, requested |-> w, current |-> w,
                       loading |-> TRUE, error |-> FALSE]
      <3>1. n \in Browsers /\ n.loading
        BY <1>3 DEF Browsers
      <3>2. dialog' = [dialog EXCEPT !.native = n]
        BY <1>1, <2>1 DEF OpenNative, Load
      <3> QED
        BY <3>1, <3>2
    <2>2. CASE EnterDirectory(w)
      <3> DEFINE n == [dialog.native EXCEPT !.generation = generation + 1, !.requested = w,
                                            !.loading = TRUE, !.error = FALSE]
      <3>1. dialog.native \in Browsers
        BY <1>6, <2>2 DEF EnterDirectory, IInv, ScreenInv, PageHasItsState, Dialogs
      <3>2. n \in Browsers /\ n.loading
        BY <1>3, <3>1 DEF Browsers
      <3>3. dialog' = [dialog EXCEPT !.native = n]
        BY <1>1, <2>2 DEF EnterDirectory, Load
      <3> QED
        BY <3>2, <3>3
    <2> QED
      BY <2>1, <2>2
  <1>8. /\ dialog' \in Dialogs /\ Consistent(dialog') /\ Listed(dialog') /\ dialog'.native # None
        /\ dialog'.generation = dialog.generation
        /\ dialog'.since = dialog.since /\ dialog'.wanted = dialog.wanted
    <2>1. PICK n \in Browsers : n.loading /\ dialog' = [dialog EXCEPT !.native = n]
      BY <1>7
    <2> QED
      BY <1>6, <2>1, DialogAssumption DEF Dialogs, Consistent, Listed
  <1>9. LatestInv'
    BY <1>1, <1>5, <1>6, <1>8, LatestStays DEF Open
  <1>10. ScreenInv'
    BY <1>1, <1>8, DialogAssumption DEF tool, IInv, ScreenInv, Pages, PageHasItsState, Open
  <1> QED
    BY <1>2, <1>5, <1>8, <1>9, <1>10 DEF IInv, DraftInv

\* A listing is shown only in the browser that waits for it.
LEMMA ApplyLoadStep ==
  ASSUME IInv, ApplyLoad PROVE IInv'
PROOF
  <1> DEFINE e == Head(events)
  <1>1. e \in Events /\ QueueInv' /\ Outstanding' \subseteq Outstanding
    BY EventLeaves DEF ApplyLoad, workers
  <1>2. e \in LoadedEvents
    BY <1>1 DEF ApplyLoad, Events, WorktreeEvents
  <1>3. CASE ~IsWanted(e)
    <2>1. dialog' = dialog
      BY <1>3 DEF ApplyLoad
    <2>2. CounterInv' /\ DraftInv' /\ ScreenInv'
      BY <2>1 DEF ApplyLoad, workers, tool, IInv, CounterInv, DraftInv, ScreenInv, PageHasItsState, Open
    <2>3. LatestInv'
      BY <1>1, <2>1, LatestStays DEF ApplyLoad
    <2> QED
      BY <1>1, <2>2, <2>3 DEF IInv
  <1>4. CASE IsWanted(e)
    <2> DEFINE n == [dialog.native EXCEPT !.loading = FALSE, !.error = ~e.ok,
                                          !.current = IF e.ok THEN e.path ELSE dialog.native.current]
    <2>1. dialog \in Dialogs /\ Open /\ Consistent(dialog) /\ dialog.native \in Browsers
          /\ dialog.native.requested = e.path
      BY <1>4 DEF IsWanted, IInv, DraftInv, Open, Dialogs
    <2>2. n \in Browsers /\ n.requested = dialog.native.requested /\ n.error = ~e.ok
          /\ (e.ok => n.current = e.path)
      BY <1>2, <2>1 DEF Browsers, LoadedEvents
    <2>3. dialog' = [dialog EXCEPT !.native = n]
      BY <1>4, <2>1 DEF ApplyLoad, Dialogs, Browsers
    <2>4. /\ dialog' \in Dialogs /\ Consistent(dialog') /\ dialog'.native = n
          /\ dialog'.generation = dialog.generation
          /\ dialog'.since = dialog.since /\ dialog'.wanted = dialog.wanted
      BY <2>1, <2>2, <2>3 DEF Dialogs, Consistent
    <2>5. Listed(dialog')
      BY <2>1, <2>2, <2>4 DEF Listed
    <2>6. LatestInv'
      BY <1>1, <2>1, <2>4, LatestStays DEF ApplyLoad, Open
    <2>7. ScreenInv'
      BY <2>2, <2>4, DialogAssumption DEF ApplyLoad, tool, IInv, ScreenInv, PageHasItsState, Open
    <2>8. CounterInv'
      BY DEF ApplyLoad, workers, IInv, CounterInv
    <2> QED
      BY <1>1, <2>4, <2>5, <2>6, <2>7, <2>8 DEF IInv, DraftInv
  <1> QED
    BY <1>3, <1>4

\* Opening and closing the picker, and its process.
LEMMA PickerStep ==
  ASSUME IInv, OpenEmbedded \/ CloseByForce \/ YaziExits PROVE IInv'
PROOF
  <1>1. QueueInv' /\ CounterInv' /\ Outstanding' = Outstanding /\ requested' = requested
        /\ dialog' = dialog
    BY DEF OpenEmbedded, CloseByForce, YaziExits, workers, IInv, QueueInv, CounterInv, Outstanding, Elements
  <1>2. DraftInv' /\ LatestInv'
    BY <1>1 DEF IInv, DraftInv, LatestInv, Open
  <1>3. ScreenInv'
    BY DialogAssumption
       DEF OpenEmbedded, CloseByForce, YaziExits, Turn, IInv, ScreenInv, Pages, PageHasItsState, Open
  <1> QED
    BY <1>1, <1>2, <1>3 DEF IInv

\* A wake-up joins the queue if there is room, and is no worktree.
LEMMA NotifyQueues ==
  ASSUME IInv, Notify, UNCHANGED <<creations, loads, requested>>
  PROVE  /\ QueueInv' /\ Outstanding' = Outstanding
         /\ notified' \in BOOLEAN /\ dropped' \in BOOLEAN
PROOF
  <1>1. notified' \in BOOLEAN /\ dropped' \in BOOLEAN
    BY DEF Notify, IInv, ScreenInv
  <1>2. CASE events' = events
    BY <1>1, <1>2 DEF IInv, QueueInv, Outstanding, Elements
  <1>3. CASE events' # events
    <2> DEFINE wakeup == [type |-> "tool"]
    <2>1. wakeup \in Events /\ wakeup.type # "worktree"
      BY DEF Events
    <2>2. events' = Append(events, wakeup) /\ ~(Len(events) >= MaxEvents)
      BY <1>3 DEF Notify
    <2>3. /\ events' \in Seq(Events) /\ Elements(events') = Elements(events) \cup {wakeup}
          /\ Len(events) \in Nat /\ Len(events') = Len(events) + 1
      BY <2>1, <2>2, AppendElements DEF IInv, QueueInv
    <2>4. QueueInv'
      BY <2>2, <2>3, DialogAssumption DEF IInv, QueueInv
    <2> QED
      BY <1>1, <2>1, <2>3, <2>4 DEF Outstanding
  <1> QED
    BY <1>2, <1>3

LEMMA NotifyStep ==
  ASSUME IInv, YaziReads \/ NotifyLater PROVE IInv'
PROOF
  <1>1. Notify /\ UNCHANGED <<creations, loads, requested, page, dialog, generation, waiting>>
    BY DEF YaziReads, NotifyLater, workers
  <1>2. /\ QueueInv' /\ Outstanding' = Outstanding
        /\ notified' \in BOOLEAN /\ dropped' \in BOOLEAN
    BY <1>1, NotifyQueues
  <1>3. CounterInv' /\ DraftInv' /\ LatestInv'
    BY <1>1, <1>2 DEF IInv, CounterInv, DraftInv, LatestInv, Open
  <1>4. delayed' \in BOOLEAN /\ yazi' \in {None, "running", "closed", "exited"}
        /\ (yazi # None => yazi' # None)
    BY DialogAssumption DEF YaziReads, NotifyLater, IInv, ScreenInv
  <1>5. ScreenInv'
    BY <1>1, <1>2, <1>4 DEF IInv, ScreenInv, PageHasItsState, Open
  <1> QED
    BY <1>2, <1>3, <1>5 DEF IInv

\* A picker that has exited moves the user, with or without a choice.
LEMMA PollYaziStep ==
  ASSUME IInv, PollYazi PROVE IInv'
PROOF
  <1>1. QueueInv' /\ Outstanding' \subseteq Outstanding
    BY EventLeaves DEF PollYazi, workers
  <1>2. CounterInv'
    BY DEF PollYazi, workers, IInv, CounterInv
  <1>3. \/ page' = page /\ dialog' = dialog /\ (yazi' = yazi \/ ~Open)
        \/ page' = "Workspaces" /\ dialog' = dialog /\ Open
        \/ page' = "Form" /\ Open /\ \E w \in Workspaces : dialog' = ChooseBrowsed(dialog, w)
    BY DEF PollYazi, Turn
  <1>4. \/ dialog' = dialog
        \/ /\ Open /\ dialog' \in Dialogs /\ Consistent(dialog') /\ Listed(dialog')
           /\ dialog'.generation = dialog.generation
           /\ dialog'.since = dialog.since /\ dialog'.wanted = dialog.wanted
    <2>1. Open => dialog \in Dialogs
      BY DEF IInv, DraftInv, Open
    <2> QED
      BY <1>3, <2>1, BrowsedChosen
  <1>5. DraftInv'
    BY <1>4 DEF IInv, DraftInv, Open
  <1>6. LatestInv'
    BY <1>1, <1>4, LatestStays DEF PollYazi, Open
  <1>7. ScreenInv'
    <2>1. notified' \in BOOLEAN /\ delayed' \in BOOLEAN /\ UNCHANGED <<dropped, waiting>> /\ ~waiting
          /\ yazi' \in {None, "running", "closed", "exited"}
      BY DEF PollYazi, ClearTheFlag, Free, IInv, ScreenInv
    <2>2. page' \in Pages /\ PageHasItsState'
      BY <1>3, <1>4, DialogAssumption DEF IInv, ScreenInv, Pages, PageHasItsState, Open
    <2> QED
      BY <2>1, <2>2 DEF IInv, ScreenInv
  <1> QED
    BY <1>1, <1>2, <1>5, <1>6, <1>7 DEF IInv

-----------------------------------------------------------------------------
\* The invariant, and what follows from it

LEMMA StepIsSound == IInv /\ [Next]_vars => IInv'
PROOF
  <1> SUFFICES ASSUME IInv, [Next]_vars PROVE IInv'
    OBVIOUS
  <1>1. CASE User
    BY <1>1, OpenStep, PageStep, ChoiceStep, SubmitStep, CancelStep, LoadStep, PickerStep DEF User
  <1>2. CASE Creates
    BY <1>2, CreateStep DEF Creates
  <1>3. CASE Lists
    BY <1>3, ListStep DEF Lists
  <1>4. CASE Answers \/ DropWhileWaiting
    BY <1>4, WaitStep DEF Answers
  <1>5. CASE Drain
    BY <1>5, ApplyWorktreeStep, ApplyLoadStep, PollYaziStep DEF Drain
  <1>6. CASE YaziReads \/ YaziExits \/ NotifyLater
    BY <1>6, NotifyStep, PickerStep
  <1>7. CASE UNCHANGED vars
    BY <1>7 DEF vars, workers, tool, IInv, QueueInv, CounterInv, ScreenInv, DraftInv, LatestInv,
                Outstanding, Elements, PageHasItsState, Open
  <1> QED
    BY <1>1, <1>2, <1>3, <1>4, <1>5, <1>6, <1>7 DEF Next

LEMMA AlwaysSound == Spec => []IInv
PROOF
  BY InitIsSound, StepIsSound, PTL DEF Spec

\* What the dialog shows and asks for fits together in every state: a page
\* has what it draws from, a worktree is asked for only in a repository, and
\* the browser shows the directory it names (app.rs, workspace.rs).
THEOREM SoundDialog == Spec => []DialogIsSound
PROOF
  <1>1. IInv => DialogIsSound
    <2> SUFFICES ASSUME IInv PROVE DialogIsSound
      OBVIOUS
    <2>1. TypeOK
      BY DialogAssumption DEF IInv, TypeOK, QueueInv, CounterInv, ScreenInv, DraftInv
    <2>2. WorktreesAreOfRepositories
      BY DEF IInv, QueueInv, DraftInv, WorktreesAreOfRepositories, Elements, Consistent
    <2>3. ListingIsCurrent
      BY DEF IInv, DraftInv, ListingIsCurrent, Listed
    <2> QED
      BY <2>1, <2>2, <2>3 DEF DialogIsSound, IInv, ScreenInv
  <1> QED
    BY <1>1, AlwaysSound, PTL

\* Of the worktrees one dialog asked for, only the last one starts an agent,
\* however many were cancelled and however late they are done (runtime.rs,
\* interpret_worktree_result).
THEOREM LatestWorktree == Spec => OnlyTheLatestWorktree
PROOF
  <1> DEFINE Taken == ApplyWorktree /\ Accepts(Head(events)) /\ Head(events).id > dialog.since
  <1>1. IInv => (Taken => Head(events).id = dialog.wanted)
    <2> SUFFICES ASSUME IInv, Taken PROVE Head(events).id = dialog.wanted
      OBVIOUS
    <2>1. Head(events) \in Elements(events)
      BY EventLeaves DEF ApplyWorktree, workers
    <2>2. Head(events) \in Outstanding
      BY <2>1 DEF Outstanding, Accepts
    <2> QED
      BY <2>2 DEF Accepts, IInv, LatestInv, Superseded
  <1> QED
    BY <1>1, AlwaysSound, PTL DEF OnlyTheLatestWorktree
=============================================================================
