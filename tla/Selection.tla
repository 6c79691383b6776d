----------------------------- MODULE Selection -----------------------------
(***************************************************************************)
(* Selecting text with the mouse (tui/selection.rs, runtime.rs) while the  *)
(* agent, which takes neither the mouse nor the wheel, goes on writing.  A  *)
(* selection collects rows from every viewport shown, by their distance     *)
(* from the live screen; new output changes that distance, so a frame of    *)
(* the agent cancels the selection.                                         *)
(*                                                                         *)
(* The agent writes lines 1, 2, ...; the screen has Height of them.  With n *)
(* written and scrolled back by p, row r shows line n - Height - p + r + 1.  *)
(* Columns, wide cells and the text of a row are left out.                  *)
(***************************************************************************)
EXTENDS Integers, Sequences, FiniteSets

CONSTANTS Height,    \* rows of the screen
          MaxLines,  \* lines the agent writes
          MaxQueue,  \* messages under way to the client
          Step,      \* SELECTION_SCROLL_ROWS, and a step of the wheel
          None

SelectionAssumption == Height \in Nat \ {0} /\ {MaxLines, MaxQueue, Step} \subseteq Nat

VARIABLES written,  \* lines written: the server's emulator
          sent,     \* lines of the last frame sent
          queue,    \* frames and viewports under way to the client
          requests, \* viewport requests under way to the server
          live,     \* lines of the client's frame
          view,     \* [lines, offset] of the ScrollbackView, or None
          waiting, target, \* scrollback_request and scrollback_target
          selection        \* TerminalSelection, or None

vars == <<written, sent, queue, requests, live, view, waiting, target, selection>>
client == <<live, view, waiting, target>>

Retained(lines) == lines - Height
Limited(a, b) == IF a < b THEN a ELSE b
AtLeast(a, b) == IF a > b THEN a ELSE b

(* RemoteAgents::screen *)
ScreenOf(lines, scrolled) == IF scrolled = None THEN [lines |-> lines, offset |-> 0] ELSE scrolled
Screen == ScreenOf(live, view)
Shows(screen, row) == screen.lines - Height - screen.offset + row + 1

-----------------------------------------------------------------------------
(* TerminalSelection *)

GlobalRow(row, screen) == Limited(row, Height - 1) - screen.offset

Absorbed(s, screen) ==
  LET seen == {GlobalRow(r, screen) : r \in 0..(Height - 1)}
  IN [s EXCEPT !.rows = [g \in DOMAIN s.rows \cup seen |->
                 IF g \in seen THEN Shows(screen, g + screen.offset) ELSE s.rows[g]],
               !.scrollback = screen.offset, !.retained = Retained(screen.lines),
               !.head = IF s.dragging THEN GlobalRow(s.pointer, screen) ELSE s.head]

Begun(row, screen) ==
  Absorbed([anchor |-> GlobalRow(row, screen), head |-> GlobalRow(row, screen), pointer |-> row,
            dragging |-> FALSE, rows |-> [g \in {} |-> 0], scrollback |-> 0, retained |-> 0,
            fromLive |-> view = None], screen)     \* fromLive is only for the property

Dragged(s, row, screen) ==
  Absorbed([s EXCEPT !.dragging = TRUE, !.pointer = Limited(row, Height - 1)], screen)

(* text(), as lines: none if a row between the ends was never seen. *)
Text(s) ==
  LET first == Limited(s.anchor, s.head)
      last == AtLeast(s.anchor, s.head)
  IN IF s.dragging /\ first..last \subseteq DOMAIN s.rows
     THEN [i \in 1..(last - first + 1) |-> s.rows[first + i - 1]] ELSE <<>>

(* Rows to scroll by while the pointer is held at an edge. *)
ScrollDirection(s) ==
  IF ~s.dragging THEN 0
  ELSE IF s.pointer = 0 /\ s.scrollback < s.retained THEN Step
  ELSE IF s.pointer >= Height - 1 /\ s.scrollback > 0 THEN -Step ELSE 0

-----------------------------------------------------------------------------
(* RemoteAgents::scroll: one request at a time, the last target after it.  *)

Current == IF target # None THEN target ELSE IF view # None THEN view.offset ELSE 0

Scroll(rows) ==
  Len(requests) < MaxQueue /\ Current + rows <= Retained(MaxLines) /\
  LET wanted == AtLeast(Current + rows, 0) IN     \* the second guard is a bound
  IF wanted = 0
  THEN view' = None /\ target' = None /\ UNCHANGED <<live, waiting, requests>>
  ELSE /\ target' = wanted /\ UNCHANGED <<live, view>>
       /\ IF waiting = None THEN waiting' = wanted /\ requests' = Append(requests, wanted)
          ELSE UNCHANGED <<waiting, requests>>

Press(row) ==
  /\ selection' = Begun(row, Screen)
  /\ UNCHANGED <<written, sent, queue, requests, client>>

Drag(row) ==
  /\ selection # None /\ selection' = Dragged(selection, row, Screen)
  /\ UNCHANGED <<written, sent, queue, requests, client>>

(* The timer that a drag at an edge starts and keeps going. *)
AutoScroll ==
  /\ selection # None /\ waiting = None /\ ScrollDirection(selection) # 0
  /\ Scroll(ScrollDirection(selection))
  /\ UNCHANGED <<written, sent, queue, selection>>

Wheel(rows) ==
  /\ Scroll(rows) /\ UNCHANGED <<written, sent, queue, selection>>

(* Text(selection) goes to the clipboard; a click is replayed to the child. *)
Release ==
  /\ selection # None /\ selection' = None
  /\ UNCHANGED <<written, sent, queue, requests, client>>

(* A key or a paste shows the live screen; a resize drops the selection. *)
Key ==
  /\ selection' = None /\ view' = None /\ target' = None
  /\ UNCHANGED <<written, sent, queue, requests, live, waiting>>

-----------------------------------------------------------------------------
(* The server, and what the client receives *)

Output ==
  /\ written < MaxLines /\ written' = written + 1
  /\ UNCHANGED <<sent, queue, requests, client, selection>>

SendFrame(kind) ==
  /\ Len(queue) < MaxQueue /\ sent < written /\ sent' = written
  /\ queue' = Append(queue, [kind |-> kind, lines |-> written])
  /\ UNCHANGED <<written, requests, client, selection>>

Answer ==
  /\ requests # <<>> /\ Len(queue) < MaxQueue /\ requests' = Tail(requests)
  /\ queue' = Append(queue, [kind |-> "viewport", lines |-> written, requested |-> Head(requests),
                             offset |-> Limited(Head(requests), Retained(written))])
  /\ UNCHANGED <<written, sent, client, selection>>

(* apply_viewport; another target meanwhile asks again. *)
ApplyViewport(m) ==
  IF waiting # m.requested THEN UNCHANGED <<live, view, waiting, target, selection, requests>>
  ELSE IF target # m.requested
  THEN /\ waiting' = target /\ requests' = (IF target = None THEN requests ELSE Append(requests, target))
       /\ UNCHANGED <<live, view, target, selection>>
  ELSE /\ waiting' = None /\ UNCHANGED <<live, requests>>
       /\ view' = (IF m.offset = 0 THEN None ELSE [lines |-> m.lines, offset |-> m.offset])
       /\ target' = (IF m.offset = 0 THEN None ELSE m.offset)
       /\ selection' = IF selection = None THEN None ELSE Absorbed(selection, ScreenOf(live, view'))

(* A diff leaves a history that is shown where it is; a full frame does not. *)
ApplyFrame(m) ==
  /\ live' = m.lines /\ UNCHANGED requests
  /\ IF m.kind = "full" THEN view' = None /\ waiting' = None /\ target' = None
     ELSE UNCHANGED <<view, waiting, target>>

CancelSelection == selection' = None
KeepSelection == UNCHANGED selection
TerminalChanged == CancelSelection

Receive ==
  /\ queue # <<>> /\ queue' = SubSeq(queue, 2, Len(queue))
  /\ IF Head(queue).kind = "viewport" THEN ApplyViewport(Head(queue))
     ELSE ApplyFrame(Head(queue)) /\ TerminalChanged
  /\ UNCHANGED <<written, sent>>

-----------------------------------------------------------------------------
Init ==
  /\ written = Height + 1 /\ sent = written /\ live = written
  /\ queue = <<>> /\ requests = <<>> /\ view = None /\ waiting = None /\ target = None
  /\ selection = None

Next ==
  \/ \E row \in 0..(Height - 1) : Press(row) \/ Drag(row)
  \/ AutoScroll \/ Release \/ Key
  \/ \E rows \in {Step, -Step} : Wheel(rows)
  \/ Output \/ (\E kind \in {"full", "diff"} : SendFrame(kind)) \/ Answer \/ Receive

Spec == Init /\ [][Next]_vars

-----------------------------------------------------------------------------
(* Values of the variables. *)
TypeOK ==
  /\ live \in Height..written /\ sent \in Height..written
  /\ view # None => view.offset \in 1..Retained(view.lines)
  /\ selection # None => selection.anchor \in DOMAIN selection.rows

IsOneScreens(s) == \A i \in 2..Len(Text(s)) : Text(s)[i] = Text(s)[i - 1] + 1

(* "combines_overlapping_scrollback_viewports_with_stable_rows" (selection  *)
(* .rs 319): the text of a selection begun on the live screen is a part of  *)
(* one history, or a frame that cancels it is still to come.                *)
MixedTextIsCancelled ==
  selection # None /\ selection.fromLive /\ ~IsOneScreens(selection) => live < written
=============================================================================
