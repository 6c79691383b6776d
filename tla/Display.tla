------------------------------ MODULE Display ------------------------------
(***************************************************************************)
(* The parts that bring a terminal to the user and the user to a terminal,  *)
(* side by side: the drawing of the client and its mouse, the copy of a     *)
(* screen, the control sequences a harness sends and the input it is sent.  *)
(* They share no state with each other.  Each has a module of its own,      *)
(* where it can be read and checked alone; here one of them runs and the    *)
(* others keep a first state, so that the states of a run are those of the  *)
(* parts one after the other, and not their product.  The variables of a    *)
(* part that have a name of another part are renamed.                       *)
(***************************************************************************)
EXTENDS Integers, Sequences

CONSTANTS None,
  Terminals, MaxCards, MaxArchived, MaxRows, Texts,            \* Drawing
  Height, MaxLines, MaxQueue, Step,                            \* Mouse
  Sizes, Glyphs,                                               \* Screens
  Outputs, MaxStack, MaxPartial, Palettes,                     \* Controls
  Columns                                                      \* Input

VARIABLE part   \* the part that runs

VARIABLES terminal, cards, rows, chosen, scroll, wide, menu, box
drawingVars == <<terminal, cards, rows, chosen, scroll, wide, menu, box>>

VARIABLES written, framed, queue, viewports, live, view, awaited, target, selection
mouseVars == <<written, framed, queue, viewports, live, view, awaited, target, selection>>

VARIABLES size, screen, wraps, sent, copy
screensVars == <<size, screen, wraps, sent, copy>>

VARIABLES output, ahead, chunk, found, consumed, scan, pending, title, identity, palette, column,
  modes, replies, colors, closed
controlsVars == <<output, ahead, chunk, found, consumed, scan, pending, title, identity, palette, column,
                  modes, replies, colors, closed>>

VARIABLES input, event, bytes
inputVars == <<input, event, bytes>>

Drawing == INSTANCE Layout
  WITH Sizes <- Terminals, MaxAgents <- MaxCards, size <- terminal, agents <- cards,
       archived <- rows, selected <- chosen, dialog <- box
Mouse == INSTANCE Selection
  WITH waiting <- awaited, requests <- viewports, sent <- framed
Screens == INSTANCE Snapshots WITH Drawn <- Glyphs
Controls == INSTANCE TerminalControls
Input == INSTANCE InputEncoding WITH modes <- input

ASSUME DisplayAssumption ==
  /\ Drawing!LayoutAssumption /\ Mouse!SelectionAssumption
  /\ Screens!SnapshotsAssumption /\ Input!InputAssumption

vars == <<part, drawingVars, mouseVars, screensVars, controlsVars, inputVars>>

-----------------------------------------------------------------------------
Parts == {"Drawing", "Mouse", "Screens", "Controls", "Input"}

(* Where a part may start in several ways, one of them while it does not run. *)
Idle(p, values, value) == part = p \/ value = CHOOSE v \in values : TRUE

Init ==
  /\ part \in Parts
  /\ Drawing!Init /\ Idle("Drawing", Terminals, terminal) /\ Idle("Drawing", 0 .. MaxArchived, rows)
  /\ Mouse!Init
  /\ Screens!Init /\ Idle("Screens", Sizes, size)
  /\ Controls!Init /\ Idle("Controls", Outputs, output) /\ Idle("Controls", {None}, palette)
  /\ Input!Init

Next ==
  /\ UNCHANGED part
  /\ IF part = "Drawing" THEN Drawing!Next ELSE UNCHANGED drawingVars
  /\ IF part = "Mouse" THEN Mouse!Next ELSE UNCHANGED mouseVars
  /\ IF part = "Screens" THEN Screens!Next ELSE UNCHANGED screensVars
  /\ IF part = "Controls" THEN Controls!Next ELSE UNCHANGED controlsVars
  /\ IF part = "Input" THEN Input!Next ELSE UNCHANGED inputVars

Spec == Init /\ [][Next]_vars

-----------------------------------------------------------------------------
(* The properties of the parts, each stated and explained in its module,   *)
(* and looked at where the part runs: a first state has nothing to say.     *)

(* What the user does reaches what it was meant for: a click what is drawn  *)
(* under it, in the sidebar and in the dialogs, and input the harness, as    *)
(* something only that encodes.                                             *)
InputIsUnderstood ==
  /\ part = "Drawing" =>
       /\ Drawing!TypeOK
       /\ Drawing!SidebarClicksFollowTheRows /\ Drawing!SelectionIsVisible
       /\ Drawing!ClicksFollowTheDialog
  /\ part = "Input" => Input!TypeOK /\ Input!KeysAreToldApart /\ Input!CellsAreToldApart

(* What a client has of a screen is of one state of it: text of two states   *)
(* is never left selected, and its copy is the snapshot that the last frame  *)
(* was made of, through full frames, patches and the tables of a frame.      *)
ScreensAreOfOneState ==
  /\ part = "Mouse" => Mouse!TypeOK /\ Mouse!MixedTextIsCancelled
  /\ part = "Screens" =>
       Screens!TypeOK /\ Screens!CopyIsWhatWasSent /\ Screens!PatchesLeaveItValid

(* What the harness writes has the effect it means: its queries are         *)
(* answered with what held when it asked, however its output is cut into    *)
(* reads.                                                                   *)
OutputIsUnderstood ==
  part = "Controls" =>
    Controls!TypeOK /\ Controls!AnswersAreOfTheQuery /\ Controls!CutsLoseNothing
=============================================================================
