------------------------------- MODULE Layout -------------------------------
(***************************************************************************)
(* What the client draws and what a click picks (ui.rs).  Drawing and      *)
(* clicking are two separate computations of the same rows: `render_*` and *)
(* `click_action`.  Both are modelled by rows.  A drawn row knows what it  *)
(* shows; a click knows only the number of the row.  Columns, colours and  *)
(* wording are left out; the width of a line is kept, because a dialog     *)
(* wraps a line that is too wide and moves the rows below it.              *)
(***************************************************************************)
EXTENDS Integers, Sequences, FiniteSets, SequencesExt

CONSTANTS Sizes,        \* <<width, height>> of the terminal
          MaxAgents,    \* bound: agents of the session
          MaxArchived,  \* bound: archived conversations
          MaxRows,      \* bound: rows of a list in a dialog
          Texts         \* widths of a path or a title

Largest == 1092   \* sixty times that is still a u16: no percentage of it saturates
LayoutAssumption ==
  /\ Sizes \subseteq Nat \X Nat
  /\ \A s \in Sizes : 80 <= s[1] /\ 24 <= s[2]   \* MIN_WIDTH, MIN_HEIGHT
  /\ \A s \in Sizes : s[1] <= Largest /\ s[2] <= Largest
  /\ {MaxAgents, MaxArchived, MaxRows} \subseteq Nat /\ Texts \subseteq Nat

VARIABLES size,      \* the terminal
          agents,    \* number of agents in the sidebar
          archived,  \* number of archived conversations below them
          selected,  \* index of the selected agent, from 0
          scroll,    \* App.sidebar_scroll, or Follow
          wide,      \* the sidebar is wider than SIDEBAR_MIN_WIDTH
          menu,      \* the menu is open
          dialog     \* the dialog that is shown, or NoDialog

sidebar == <<agents, archived, selected, scroll, wide, menu>>
vars == <<size, sidebar, dialog>>

Follow == -1   \* sidebar_scroll is None: the list follows the selection
Least(a, b) == IF a < b THEN a ELSE b
Minus(a, b) == IF a > b THEN a - b ELSE 0   \* saturating_sub

Nothing == <<"nothing", 0>>
Row(on, w) == [on |-> on, width |-> w]
Blank == Row(Nothing, 0)

-----------------------------------------------------------------------------
(* The sidebar *)

CardHeight == IF wide THEN 3 ELSE 1
MenuHeight == 7   \* five items and a border

ListHeight == Minus(size[2], 3 + IF menu /\ wide THEN MenuHeight ELSE 0)

ContentHeight ==
  agents * CardHeight + (IF archived = 0 THEN 0 ELSE IF wide THEN archived + 1 ELSE archived)

(* sidebar_row_start; following, the last row of the selected card is shown. *)
FollowingTheTop == Minus(selected * CardHeight, ListHeight)
FollowingStart == Minus(selected * CardHeight, Minus(ListHeight, CardHeight))
RowStart ==
  Least(IF scroll = Follow THEN FollowingStart ELSE scroll, Minus(ContentHeight, ListHeight))

(* render_sidebar: the first row of an expanded card ends in the archive button. *)
CardRows(i) ==
  [k \in 1 .. CardHeight |-> [on |-> <<"agent", i>>, button |-> wide /\ k = 1]]
ArchivedRow(i) == [on |-> <<"agent", agents + i>>, button |-> FALSE]
ArchivedHeader == [on |-> Nothing, button |-> FALSE]

SidebarRows ==
  FlattenSeq([i \in 1 .. agents |-> CardRows(i - 1)])
    \o (IF archived > 0 /\ wide THEN <<ArchivedHeader>> ELSE <<>>)
    \o [i \in 1 .. archived |-> ArchivedRow(i - 1)]

DrawnAt(r) ==
  IF RowStart + r < Len(SidebarRows) THEN SidebarRows[RowStart + r + 1] ELSE ArchivedHeader

(* agent_item_at and archive_button_at, for row r of the list. *)
AgentItemWithoutHeader(r) ==
  LET content == RowStart + r
      active == agents * CardHeight
  IN IF content < active THEN <<"agent", content \div CardHeight>>
     ELSE IF content - active < archived THEN <<"agent", agents + content - active>>
     ELSE Nothing
AgentItemAt(r) ==
  LET content == RowStart + r
      active == agents * CardHeight
      header == IF wide THEN 1 ELSE 0
  IN IF content < active THEN <<"agent", content \div CardHeight>>
     ELSE IF content >= active + header /\ content - active - header < archived
       THEN <<"agent", agents + content - active - header>>
     ELSE Nothing

ArchiveButtonAt(r) ==
  LET content == RowStart + r
  IN wide /\ content < agents * CardHeight /\ content % CardHeight = 0

-----------------------------------------------------------------------------
(* What changes the sidebar *)

(* A wheel step over the sidebar, in Terminal mode; whole cards at a time. *)
Wheel(steps) ==
  LET most == Minus(ContentHeight, ListHeight)
      current == IF scroll = Follow THEN Least(FollowingStart, most) ELSE scroll
  IN /\ ~menu
     /\ scroll' = IF steps >= 0 THEN Least(current + steps * CardHeight, most)
                  ELSE Minus(current, -steps * CardHeight)
     /\ UNCHANGED <<size, agents, archived, selected, wide, menu, dialog>>

Select(i) ==
  /\ i < agents /\ selected' = i /\ scroll' = Follow
  /\ UNCHANGED <<size, agents, archived, wide, menu, dialog>>

(* add_remote_agent, also of a resumed conversation (one fewer archived). *)
AddAgent(resumed) ==
  /\ agents < MaxAgents /\ resumed <= archived
  /\ agents' = agents + 1 /\ archived' = archived - resumed
  /\ selected' = agents /\ scroll' = Follow /\ menu' = FALSE
  /\ UNCHANGED <<size, wide, dialog>>

(* remove_agent, also of an agent that is archived. *)
RemoveAgent(kept) ==
  /\ agents > 0 /\ archived + kept <= MaxArchived
  /\ agents' = agents - 1 /\ archived' = archived + kept
  /\ selected' = Least(selected, Minus(agents', 1)) /\ scroll' = Follow /\ menu' = FALSE
  /\ UNCHANGED <<size, wide, dialog>>

(* apply_conversation_switch: one conversation leaves, one comes in. *)
Switch(count) ==
  /\ agents > 0 /\ count \in archived - 1 .. archived + 1 /\ count \in 0 .. MaxArchived
  /\ archived' = count /\ scroll' = Follow
  /\ UNCHANGED <<size, agents, selected, wide, menu, dialog>>

(* Dragging its border or the two commands: the offset stays as it is. *)
ResizeSidebar ==
  /\ wide' = ~wide /\ UNCHANGED <<size, agents, archived, selected, scroll, menu, dialog>>

ToggleMenu ==
  /\ menu' = ~menu /\ UNCHANGED <<size, agents, archived, selected, scroll, wide, dialog>>

ResizeTerminal(s) == size' = s /\ UNCHANGED <<sidebar, dialog>>

-----------------------------------------------------------------------------
(* Dialogs: the rows they draw *)

Compact == [w |-> (size[1] * 50) \div 100 - 2, h |-> (size[2] * 40) \div 100 - 2]
Standard == [w |-> (size[1] * 60) \div 100 - 2, h |-> (size[2] * 50) \div 100 - 2]
Large == [w |-> size[1] - 6, h |-> size[2] - 4]
Screen == [w |-> size[1] - 2, h |-> size[2] - 2]

(* page, rows of its list, selected row, and the width of its path or title. *)
Pages == {"Form", "Workspaces", "Locations", "Agents", "CreatingWorktree", "NativeBrowser",
          "ConfirmClose", "ConfirmArchive", "ArchiveUnavailable", "ConfirmResume", "ConfirmQuit",
          "Keybinds", "Usage", "Appearance", "Harnesses", "Sessions"}
NoDialog == [page |-> "none", rows |-> 0, at |-> 0, text |-> 0]

Inner(page) ==
  CASE page \in {"Form", "Workspaces", "Locations", "Agents", "CreatingWorktree",
                 "ArchiveUnavailable"} -> Compact
    [] page \in {"NativeBrowser", "Keybinds"} -> Large
    [] page = "Sessions" -> Screen
    [] OTHER -> Standard

Hints == Row(<<"hints", 0>>, 0)   \* every line of hints fits the smallest dialog
Field(i) == Row(<<"field", i>>, 15 + Least(dialog.text, 42))
Item(i, w) == Row(<<"item", i>>, w)

(* The part of a list that is shown keeps the selected row at its end. *)
Visible(page) ==
  CASE page \in {"Workspaces", "Agents"} -> Minus(Compact.h, 3)
    [] page = "NativeBrowser" -> Minus(Large.h + 2, 6)
    [] page = "Sessions" -> Screen.h - 2
Start(page) ==
  LET first == Minus(dialog.at, Visible(page) - 1)
  IN IF page = "Sessions" THEN Least(first, Minus(dialog.rows, Visible(page))) ELSE first
Count(page) == Least(Minus(dialog.rows, Start(page)), Visible(page))
Shown(page, w) == [k \in 1 .. Count(page) |-> Item(Start(page) + k - 1, w)]

Prompt(w) == <<Blank, Row(Nothing, w), Blank, Hints>>
Tabs == <<Blank, Row(<<"tabs", 0>>, 0), Blank>>
Padding(n) == [k \in 1 .. n |-> Blank]
Keybindings == 17
Harnesses == 5

FormRows ==
  <<Blank, Field(1), Field(2), Field(3), Row(<<"field", 4>>, 0), Blank, Hints>>
WorkspaceRows ==
  (IF dialog.rows = 0 THEN <<Blank, Row(<<"browse", 0>>, 42)>>
   ELSE <<Blank>> \o Shown("Workspaces", 17 + Least(dialog.text, 32))) \o <<Blank, Hints>>
LocationRows == <<Blank, Item(0, 37), Item(1, 37), Blank, Hints>>
AgentRows ==
  (IF dialog.rows = 0 THEN <<Blank, Row(Nothing, 32)>>
   ELSE <<Blank>> \o Shown("Agents", 14)) \o <<Blank, Hints>>
CreatingRows == <<Blank, Blank, Row(Nothing, 2 + Least(dialog.text, 56)), Blank, Hints>>
BrowserRows == Padding(2) \o Shown("NativeBrowser", Large.w - 3) \o <<Blank, Hints>>
ResumeRows == Prompt(2 + Least(dialog.text, 62))
StopRows == <<Blank, Row(Nothing, 30), Row(Nothing, 45), Blank, Hints>>
KeybindRows == [k \in 1 .. Keybindings |-> Item(k - 1, 60)] \o <<Hints>>
UsageRows == Tabs \o Padding(6) \o <<Hints>>   \* what is between is cut or padded
AppearanceRows == Tabs \o <<Row(<<"theme", 0>>, 0), Blank, Hints>>
HarnessRows == Tabs \o [k \in 1 .. Harnesses + 1 |-> Item(k - 1, Standard.w)] \o <<Hints>>
SessionRows == Shown("Sessions", 60) \o Padding(Screen.h - 1 - Count("Sessions")) \o <<Hints>>

Drawn(page) ==
  CASE page = "Form" -> FormRows
    [] page = "Workspaces" -> WorkspaceRows
    [] page = "Locations" -> LocationRows
    [] page = "Agents" -> AgentRows
    [] page = "CreatingWorktree" -> CreatingRows
    [] page = "NativeBrowser" -> BrowserRows
    [] page = "ConfirmClose" -> Prompt(19)
    [] page = "ConfirmArchive" -> Prompt(54)
    [] page = "ArchiveUnavailable" -> Prompt(38)
    [] page = "ConfirmResume" -> ResumeRows
    [] page = "ConfirmQuit" -> StopRows
    [] page = "Keybinds" -> KeybindRows
    [] page = "Usage" -> UsageRows
    [] page = "Appearance" -> AppearanceRows
    [] page = "Harnesses" -> HarnessRows
    [] page = "Sessions" -> SessionRows

(* render_dialog wraps: a line that is too wide takes a second row. *)
Wrapped(lines, width) ==
  FlattenSeq([k \in DOMAIN lines |->
    IF lines[k].width > width THEN <<lines[k], lines[k]>> ELSE <<lines[k]>>])

-----------------------------------------------------------------------------
(* Dialogs: what a click on a row picks *)

At(line, wanted, on) == IF line = wanted THEN on ELSE Nothing

(* Lists: the rows from `first` on, and the hints some rows below them. *)
ListClickAtTheTop(page, line, first, gap) ==
  IF line \in first .. first + Count(page) - 1 THEN <<"item", line - first>>
  ELSE At(line, first + Count(page) + gap, Hints.on)
ListClick(page, line, first, gap) ==
  IF line \in first .. first + Count(page) - 1 THEN <<"item", Start(page) + line - first>>
  ELSE At(line, first + Count(page) + gap, Hints.on)

NewAgentClick(page, line) ==
  CASE page = "Form" -> IF line \in 1 .. 4 THEN <<"field", line>> ELSE At(line, 6, Hints.on)
    [] page = "Workspaces" ->
         IF dialog.rows = 0 /\ line = 1 THEN <<"browse", 0>> ELSE ListClick(page, line, 1, 1)
    [] page = "Locations" ->
         IF line \in 1 .. 2 THEN <<"item", line - 1>> ELSE At(line, 4, Hints.on)
    [] page = "Agents" ->
         IF dialog.rows = 0 THEN At(line, 3, Hints.on) ELSE ListClick(page, line, 1, 1)
    [] page = "CreatingWorktree" -> At(line, 4, Hints.on)
    [] page = "NativeBrowser" -> ListClick(page, line, 2, 1)

ConfirmationClick(page, line) == At(line, IF page = "ConfirmQuit" THEN 4 ELSE 3, Hints.on)

PageClick(page, line) ==
  CASE page = "Keybinds" ->
         IF line < Keybindings THEN <<"item", line>> ELSE At(line, Keybindings, Hints.on)
    [] page # "Keybinds" /\ line = 1 -> <<"tabs", 0>>
    [] page = "Usage" /\ line # 1 -> At(line, 9, Hints.on)
    [] page = "Appearance" /\ line # 1 ->
         IF line = 3 THEN <<"theme", 0>> ELSE At(line, 5, Hints.on)
    [] page = "Harnesses" /\ line # 1 ->
         IF line \in 3 .. 3 + Harnesses THEN <<"item", line - 3>>
         ELSE At(line, 4 + Harnesses, Hints.on)

SessionClick(page, line) ==
  IF line >= Screen.h - 2 THEN At(line, Screen.h - 1, Hints.on)
  ELSE IF line < Count(page) THEN <<"item", Start(page) + line>> ELSE Nothing

Clicked(page, line) ==
  CASE page \in {"Form", "Workspaces", "Locations", "Agents", "CreatingWorktree",
                 "NativeBrowser"} -> NewAgentClick(page, line)
    [] page \in {"Keybinds", "Usage", "Appearance", "Harnesses"} -> PageClick(page, line)
    [] page = "Sessions" -> SessionClick(page, line)
    [] OTHER -> ConfirmationClick(page, line)

-----------------------------------------------------------------------------
Dialogs == {d \in [page : Pages, rows : 0 .. MaxRows, at : 0 .. MaxRows, text : Texts] :
              d.at < d.rows \/ d.at = 0}

(* Dialogs do not look at the sidebar: they are opened over an empty one. *)
OpenDialog(d) ==
  /\ dialog = NoDialog /\ agents = 0 /\ archived = 0 /\ scroll = Follow /\ ~menu /\ wide
  /\ d.page \in {"NativeBrowser", "Sessions"} => d.rows > 0   \* a fixed row, a session or "new"
  /\ dialog' = d /\ UNCHANGED <<size, sidebar>>

SelectRow(i) ==
  /\ dialog # NoDialog /\ i < dialog.rows
  /\ dialog' = [dialog EXCEPT !.at = i] /\ UNCHANGED <<size, sidebar>>

CloseDialog == dialog # NoDialog /\ dialog' = NoDialog /\ UNCHANGED <<size, sidebar>>

Init ==
  /\ size \in Sizes /\ dialog = NoDialog
  /\ agents = 0 /\ archived \in 0 .. MaxArchived /\ selected = 0 /\ scroll = Follow
  /\ wide = TRUE /\ menu = FALSE

SidebarChanges ==
  \/ \E steps \in {-1, 1} : Wheel(steps)
  \/ \E i \in 0 .. MaxAgents - 1 : Select(i)
  \/ \E n \in 0 .. 1 : AddAgent(n) \/ RemoveAgent(n)
  \/ \E n \in 0 .. MaxArchived : Switch(n)
  \/ ResizeSidebar \/ ToggleMenu

Next ==
  \/ dialog = NoDialog /\ SidebarChanges
  \/ \E s \in Sizes : ResizeTerminal(s)
  \/ \E d \in Dialogs : OpenDialog(d)
  \/ \E i \in 0 .. MaxRows - 1 : SelectRow(i)
  \/ CloseDialog

Spec == Init /\ [][Next]_vars

-----------------------------------------------------------------------------
(* Properties *)

TypeOK ==
  /\ size \in Sizes /\ agents \in 0 .. MaxAgents /\ archived \in 0 .. MaxArchived
  /\ selected \in 0 .. Minus(MaxAgents, 1) /\ scroll \in Nat \cup {Follow}
  /\ wide \in BOOLEAN /\ menu \in BOOLEAN /\ dialog \in Dialogs \cup {NoDialog}

(* In the sidebar a click picks the agent or the conversation drawn under it *)
(* and an archive button archives the agent it is drawn on, whatever was     *)
(* scrolled, added, removed or resized before.                               *)
SidebarClicksFollowTheRows ==
  dialog = NoDialog =>
    \A r \in 0 .. ListHeight - 1 :
      AgentItemAt(r) = DrawnAt(r).on /\ ArchiveButtonAt(r) = DrawnAt(r).button

(* The whole card of the selected agent is drawn unless the user scrolled    *)
(* away from it, and scrolling never leaves the content.                     *)
SelectionIsVisible ==
  dialog = NoDialog =>
    /\ scroll = Follow /\ agents > 0 =>
         /\ RowStart <= selected * CardHeight
         /\ (selected + 1) * CardHeight <= RowStart + ListHeight
    /\ RowStart > 0 => RowStart + ListHeight <= ContentHeight

Fits(page) == \A k \in DOMAIN Drawn(page) : Drawn(page)[k].width <= Inner(page).w
Agree(page) ==
  LET rows == Wrapped(Drawn(page), Inner(page).w)
  IN \A k \in 1 .. Least(Len(rows), Inner(page).h) : rows[k].on = Clicked(page, k - 1)

(* A click in a dialog picks what is drawn under it and every row of hints   *)
(* is inside the dialog, in lists of any length and at any selection, as     *)
(* long as no line wraps; but for the hints below an empty list of           *)
(* workspaces, which are drawn one row below the row that answers.           *)
ClicksFollowTheDialog ==
  (dialog # NoDialog /\ Fits(dialog.page) /\ ~(dialog.page = "Workspaces" /\ dialog.rows = 0)) =>
    Agree(dialog.page) /\ Len(Drawn(dialog.page)) <= Inner(dialog.page).h
=============================================================================
