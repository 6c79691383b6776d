--------------------------- MODULE Display_proofs ---------------------------
(***************************************************************************)
(* Proofs about the parts of Display: the text a mouse selection collects   *)
(* while the screen moves, what a click picks of what is drawn, what a        *)
(* harness can tell of the input it is sent, and the copy of a screen that   *)
(* frames and patches make.  A step of Display is a step of the part that    *)
(* runs or leaves its variables as they are, so the invariant of a part is   *)
(* one of Display.                                                           *)
(***************************************************************************)
EXTENDS Display, FiniteSetTheorems, FunctionTheorems, SequenceTheorems, WellFoundedInduction, TLAPS

-----------------------------------------------------------------------------
(* The rows of a selection are numbered by their distance from the live     *)
(* screen.  A row taken from a screen of n lines stands for line             *)
(* n - Height + its number + 1.  The lines known to a client never fall, and *)
(* a frame cancels the selection: what a selection that began on the live    *)
(* screen has collected since is of screens between that one and the last    *)
(* line written.                                                             *)

Views == [lines: Nat, offset: Nat]
Messages == [kind: {"full", "diff"}, lines: Nat]
              \cup [kind: {"viewport"}, lines: Nat, requested: Nat, offset: Nat]
Collections == UNION {[some -> Int] : some \in SUBSET Int}
Selections == [anchor: Int, head: Int, pointer: Int, dragging: BOOLEAN, rows: Collections,
               scrollback: Int, retained: Int, fromLive: BOOLEAN]

\* A viewport lies within the history of its screen.
Within(v) == v \in Views /\ Height <= v.lines /\ v.offset <= v.lines - Height

LinesInv ==
  /\ written \in Nat /\ framed \in Nat /\ live \in Nat
  /\ Height <= live /\ live <= written /\ Height <= framed /\ framed <= written
  /\ viewports \in Seq(Nat) /\ awaited \in Nat \cup {None} /\ target \in Nat \cup {None}
QueueInv ==
  /\ queue \in Seq(Messages)
  /\ \A i \in 1..Len(queue) :
       /\ live <= queue[i].lines /\ queue[i].lines <= written
       /\ queue[i].kind = "viewport" => queue[i].offset <= queue[i].lines - Height
  /\ \A i, j \in 1..Len(queue) : i <= j => queue[i].lines <= queue[j].lines
ViewInv == view # None => Within(view) /\ view.offset # 0 /\ view.lines <= written

\* The rows of s were taken from screens of first to last lines.
Taken(s, first, last) ==
  \A g \in DOMAIN s.rows : first - Height + g + 1 <= s.rows[g] /\ s.rows[g] <= last - Height + g + 1
SelectionInv ==
  selection # None =>
    /\ selection \in Selections /\ selection.anchor \in DOMAIN selection.rows
    /\ selection.fromLive => (view # None => live <= view.lines) /\ Taken(selection, live, written)

MouseInv == LinesInv /\ QueueInv /\ ViewInv /\ SelectionInv

-----------------------------------------------------------------------------
\* What a selection absorbs

\* The rows of a screen, by their distance from the live screen.
LEMMA AbsorbedRows ==
  ASSUME Mouse!SelectionAssumption, NEW s \in Selections, NEW shown \in Views
  PROVE  LET taken == Mouse!Absorbed(s, shown)
         IN /\ taken \in Selections /\ taken.fromLive = s.fromLive /\ taken.anchor = s.anchor
            /\ DOMAIN s.rows \subseteq DOMAIN taken.rows
            /\ \A g \in DOMAIN taken.rows :
                 \/ g \in Int /\ taken.rows[g] = shown.lines - Height + g + 1
                 \/ g \in DOMAIN s.rows /\ taken.rows[g] = s.rows[g]
            /\ \A r \in 0..(Height - 1) : r - shown.offset \in DOMAIN taken.rows
PROOF
  <1> DEFINE seen == {Mouse!GlobalRow(r, shown) : r \in 0..(Height - 1)}
             value(g) == IF g \in seen THEN Mouse!Shows(shown, g + shown.offset) ELSE s.rows[g]
             all == DOMAIN s.rows \cup seen
             kept == [g \in all |-> value(g)]
             end == IF s.dragging THEN Mouse!GlobalRow(s.pointer, shown) ELSE s.head
  <1>1. Height \in Nat /\ shown.lines \in Nat /\ shown.offset \in Nat
    BY DEF Mouse!SelectionAssumption, Views
  <1>2. /\ s.pointer \in Int /\ s.head \in Int /\ s.rows \in Collections
        /\ DOMAIN s.rows \in SUBSET Int /\ \A g \in DOMAIN s.rows : s.rows[g] \in Int
    BY DEF Selections, Collections
  <1>3. \A r \in 0..(Height - 1) : Mouse!GlobalRow(r, shown) = r - shown.offset
    BY <1>1 DEF Mouse!GlobalRow, Mouse!Limited
  <1>4. seen \in SUBSET Int /\ \A r \in 0..(Height - 1) : r - shown.offset \in seen
    BY <1>1, <1>3
  <1>5. \A g \in seen : value(g) = shown.lines - Height + g + 1
    <2> SUFFICES ASSUME NEW g \in seen PROVE value(g) = shown.lines - Height + g + 1
      OBVIOUS
    <2>1. g \in Int
      BY <1>4
    <2>2. value(g) = shown.lines - Height - shown.offset + (g + shown.offset) + 1
      BY DEF Mouse!Shows
    <2> HIDE DEF value
    <2> QED
      BY <1>1, <2>1, <2>2
  <1>6. \A g \in DOMAIN s.rows : g \notin seen => value(g) = s.rows[g]
    OBVIOUS
  <1>7. end \in Int
    BY <1>1, <1>2 DEF Mouse!GlobalRow, Mouse!Limited
  <1> HIDE DEF seen, value
  <1>8. all \in SUBSET Int /\ \A g \in all : value(g) \in Int
    <2>1. all \in SUBSET Int
      BY <1>2, <1>4
    <2>2. ASSUME NEW g \in all PROVE value(g) \in Int
      <3>1. CASE g \in seen
        <4>1. g \in Int
          BY <1>4, <3>1
        <4>2. value(g) = shown.lines - Height + g + 1
          BY <1>5, <3>1
        <4> QED
          BY <1>1, <4>1, <4>2
      <3>2. CASE g \notin seen
        BY <1>2, <1>6, <3>2
      <3> QED
        BY <3>1, <3>2
    <2> QED
      BY <2>1, <2>2
  <1>9. kept \in Collections /\ DOMAIN kept = all /\ \A g \in all : kept[g] = value(g)
    <2> HIDE DEF all
    <2>1. kept \in [all -> Int]
      BY <1>8
    <2> QED
      BY <1>8, <2>1 DEF Collections
  <1>11. Mouse!Retained(shown.lines) \in Int
    BY <1>1 DEF Mouse!Retained
  <1>12. Mouse!Absorbed(s, shown) =
           [s EXCEPT !.rows = kept, !.scrollback = shown.offset,
                     !.retained = Mouse!Retained(shown.lines), !.head = end]
    BY DEF Mouse!Absorbed, seen, value
  <1> HIDE DEF kept, end
  <1>13. PICK w : w = Mouse!Absorbed(s, shown)
    OBVIOUS
  <1>14. /\ w \in Selections /\ w.fromLive = s.fromLive /\ w.anchor = s.anchor /\ w.rows = kept
    <2> HIDE DEF all
    <2>1. kept \in Collections
      BY <1>9
    <2>2. PICK back, past : back = shown.offset /\ past = Mouse!Retained(shown.lines)
      OBVIOUS
    <2>3. back \in Int /\ past \in Int
      BY <1>1, <1>11, <2>2
    <2>4. w = [s EXCEPT !.rows = kept, !.scrollback = back, !.retained = past, !.head = end]
      BY <1>12, <1>13, <2>2
    <2> QED
      BY <1>7, <2>1, <2>3, <2>4 DEF Selections
  <1>15. \A g \in DOMAIN kept :
           \/ g \in Int /\ kept[g] = shown.lines - Height + g + 1
           \/ g \in DOMAIN s.rows /\ kept[g] = s.rows[g]
    BY <1>4, <1>5, <1>6, <1>9
  <1> QED
    BY <1>4, <1>9, <1>13, <1>14, <1>15

\* Rows taken from screens of first to last lines, and from one more of them.
LEMMA AbsorbedAreTaken ==
  ASSUME Mouse!SelectionAssumption, NEW s \in Selections, NEW shown \in Views,
         NEW first \in Nat, NEW last \in Nat, Taken(s, first, last),
         first <= shown.lines, shown.lines <= last
  PROVE  Taken(Mouse!Absorbed(s, shown), first, last)
PROOF
  <1>1. PICK taken : taken = Mouse!Absorbed(s, shown)
    OBVIOUS
  <1>2. \A g \in DOMAIN taken.rows :
          \/ g \in Int /\ taken.rows[g] = shown.lines - Height + g + 1
          \/ g \in DOMAIN s.rows /\ taken.rows[g] = s.rows[g]
    BY <1>1, AbsorbedRows
  <1>3. Height \in Nat /\ shown.lines \in Nat
    BY DEF Mouse!SelectionAssumption, Views
  <1> SUFFICES ASSUME NEW g \in DOMAIN taken.rows
               PROVE  /\ first - Height + g + 1 <= taken.rows[g]
                      /\ taken.rows[g] <= last - Height + g + 1
    BY <1>1 DEF Taken
  <1>4. CASE g \in Int /\ taken.rows[g] = shown.lines - Height + g + 1
    BY <1>3, <1>4
  <1>5. CASE g \in DOMAIN s.rows /\ taken.rows[g] = s.rows[g]
    BY <1>5 DEF Taken
  <1> QED
    BY <1>2, <1>4, <1>5

\* A range of screens within another.
LEMMA TakenWidens ==
  ASSUME Mouse!SelectionAssumption, NEW s \in Selections, NEW first \in Nat, NEW last \in Nat,
         NEW later \in Nat, Taken(s, first, last), last <= later
  PROVE  Taken(s, first, later)
PROOF
  <1>1. \A g \in DOMAIN s.rows : g \in Int /\ s.rows[g] \in Int
    BY DEF Selections, Collections
  <1>2. Height \in Nat
    BY DEF Mouse!SelectionAssumption
  <1> SUFFICES ASSUME NEW g \in DOMAIN s.rows
               PROVE  first - Height + g + 1 <= s.rows[g] /\ s.rows[g] <= later - Height + g + 1
    BY DEF Taken
  <1>3. s.rows[g] <= last - Height + g + 1 /\ first - Height + g + 1 <= s.rows[g]
    BY DEF Taken
  <1> QED
    BY <1>1, <1>2, <1>3

\* What the client shows is a screen of the agent, of at least as many lines
\* as the client's frame when the view is not of an older one.
LEMMA ScreenIsAView ==
  ASSUME Mouse!SelectionAssumption, LinesInv, ViewInv
  PROVE  /\ Mouse!Screen \in Views /\ Mouse!Screen.lines <= written
         /\ (view # None => live <= view.lines) => live <= Mouse!Screen.lines
PROOF
  <1>1. CASE view = None
    <2>1. PICK now : now = [lines |-> live, offset |-> 0]
      OBVIOUS
    <2>2. Mouse!Screen = now
      BY <1>1, <2>1 DEF Mouse!Screen, Mouse!ScreenOf
    <2>3. now \in Views /\ now.lines = live
      BY <2>1 DEF Views, LinesInv
    <2> QED
      BY <2>2, <2>3 DEF LinesInv
  <1>2. CASE view # None
    BY <1>2 DEF Mouse!Screen, Mouse!ScreenOf, ViewInv, Within
  <1> QED
    BY <1>1, <1>2

\* A selection that absorbs the screen shown.
LEMMA AbsorbedSelection ==
  ASSUME Mouse!SelectionAssumption, LinesInv, NEW shown \in Views, NEW s \in Selections,
         shown.lines <= written, s.fromLive => live <= shown.lines /\ Taken(s, live, written)
  PROVE  LET taken == Mouse!Absorbed(s, shown)
         IN taken \in Selections /\ taken.fromLive = s.fromLive
              /\ (s.fromLive => Taken(taken, live, written))
PROOF
  <1>1. live \in Nat /\ written \in Nat /\ shown.lines \in Nat
    BY DEF LinesInv, Views
  <1>2. s.fromLive => Taken(Mouse!Absorbed(s, shown), live, written)
    BY <1>1, AbsorbedAreTaken
  <1> QED
    BY <1>2, AbsorbedRows

\* A press begins a selection with the rows of the screen shown.
LEMMA PressKeepsTheMouse ==
  ASSUME Mouse!SelectionAssumption, MouseInv, NEW row \in 0..(Height - 1), Mouse!Press(row)
  PROVE  MouseInv'
PROOF
  <1> USE DEF MouseInv
  <1>1. LinesInv' /\ QueueInv' /\ ViewInv'
    BY DEF Mouse!Press, Mouse!client, LinesInv, QueueInv, ViewInv, Within
  <1>2. PICK empty : empty = [g \in {} |-> 0]
    OBVIOUS
  <1>3. empty \in Collections /\ DOMAIN empty = {}
    <2>1. empty \in [{} -> Int] /\ {} \in SUBSET Int
      BY <1>2
    <2> QED
      BY <2>1 DEF Collections
  <1>4. PICK at : at = Mouse!GlobalRow(row, Mouse!Screen)
    OBVIOUS
  <1>5. /\ Height \in Nat \ {0} /\ row \in Int /\ Mouse!Screen \in Views
        /\ Mouse!Screen.offset \in Nat /\ Mouse!Screen.lines <= written
    BY ScreenIsAView DEF Mouse!SelectionAssumption, Views
  <1>6. at \in Int /\ at = row - Mouse!Screen.offset
    BY <1>4, <1>5 DEF Mouse!GlobalRow, Mouse!Limited
  <1>7. PICK fresh : fresh = (view = None)
    OBVIOUS
  <1>8. PICK s : s = [anchor |-> at, head |-> at, pointer |-> row, dragging |-> FALSE, rows |-> empty,
                      scrollback |-> 0, retained |-> 0, fromLive |-> fresh]
    OBVIOUS
  <1>9. fresh \in BOOLEAN
    BY <1>7
  <1>10. s \in Selections /\ s.rows = empty /\ s.fromLive = fresh
    BY <1>3, <1>5, <1>6, <1>8, <1>9 DEF Selections
  <1>11. Mouse!Begun(row, Mouse!Screen) = Mouse!Absorbed(s, Mouse!Screen)
    BY <1>2, <1>4, <1>7, <1>8 DEF Mouse!Begun
  <1>12. selection' = Mouse!Absorbed(s, Mouse!Screen)
    BY <1>11 DEF Mouse!Press
  <1>13. s.fromLive => live <= Mouse!Screen.lines /\ Taken(s, live, written)
    BY <1>3, <1>7, <1>10, ScreenIsAView DEF Taken
  <1>14. /\ selection' \in Selections /\ selection'.fromLive = s.fromLive
         /\ s.fromLive => Taken(selection', live, written)
    BY <1>5, <1>10, <1>12, <1>13, AbsorbedSelection
  <1>15. selection'.anchor \in DOMAIN selection'.rows
    <2>1. s.anchor = at
      BY <1>8
    <2>2. /\ Mouse!Absorbed(s, Mouse!Screen).anchor = s.anchor
          /\ \A r \in 0..(Height - 1) :
               r - Mouse!Screen.offset \in DOMAIN Mouse!Absorbed(s, Mouse!Screen).rows
      BY <1>5, <1>10, AbsorbedRows
    <2> QED
      BY <1>6, <1>12, <2>1, <2>2
  <1>16. live' = live /\ written' = written /\ view' = view
    BY DEF Mouse!Press, Mouse!client
  <1>17. Taken(selection, live, written)' <=> Taken(selection', live, written)
    BY <1>16 DEF Taken
  <1> QED
    BY <1>1, <1>7, <1>10, <1>14, <1>15, <1>16, <1>17 DEF SelectionInv

\* A drag adds the rows of the screen shown.
LEMMA DragKeepsTheMouse ==
  ASSUME Mouse!SelectionAssumption, MouseInv, NEW row \in 0..(Height - 1), Mouse!Drag(row)
  PROVE  MouseInv'
PROOF
  <1> USE DEF MouseInv
  <1>1. LinesInv' /\ QueueInv' /\ ViewInv'
    BY DEF Mouse!Drag, Mouse!client, LinesInv, QueueInv, ViewInv, Within
  <1>2. PICK to : to = Mouse!Limited(row, Height - 1)
    OBVIOUS
  <1>3. to \in Int /\ Mouse!Screen \in Views /\ Mouse!Screen.lines <= written
    BY <1>2, ScreenIsAView DEF Mouse!Limited, Mouse!SelectionAssumption
  <1>4. /\ selection \in Selections /\ selection.anchor \in DOMAIN selection.rows
        /\ selection.fromLive => (view # None => live <= view.lines) /\ Taken(selection, live, written)
    BY DEF Mouse!Drag, SelectionInv
  <1>5. PICK s : s = [selection EXCEPT !.dragging = TRUE, !.pointer = to]
    OBVIOUS
  <1>6. s \in Selections
    BY <1>3, <1>4, <1>5 DEF Selections
  <1>7. s.rows = selection.rows /\ s.fromLive = selection.fromLive /\ s.anchor = selection.anchor
    BY <1>4, <1>5 DEF Selections
  <1>8. selection' = Mouse!Absorbed(s, Mouse!Screen)
    BY <1>2, <1>5 DEF Mouse!Drag, Mouse!Dragged
  <1>9. s.fromLive => live <= Mouse!Screen.lines /\ Taken(s, live, written)
    BY <1>4, <1>7, ScreenIsAView DEF Taken
  <1>10. /\ selection' \in Selections /\ selection'.fromLive = s.fromLive
         /\ s.fromLive => Taken(selection', live, written)
    BY <1>3, <1>6, <1>8, <1>9, AbsorbedSelection
  <1>11. selection'.anchor = s.anchor /\ DOMAIN s.rows \subseteq DOMAIN selection'.rows
    BY <1>3, <1>6, <1>8, AbsorbedRows
  <1>12. live' = live /\ written' = written /\ view' = view
    BY DEF Mouse!Drag, Mouse!client
  <1>13. Taken(selection, live, written)' <=> Taken(selection', live, written)
    BY <1>12 DEF Taken
  <1> QED
    BY <1>1, <1>4, <1>7, <1>10, <1>11, <1>12, <1>13 DEF SelectionInv

\* Scrolling asks for another part of the history, or shows the live screen.
LEMMA ScrollKeepsTheMouse ==
  ASSUME Mouse!SelectionAssumption, MouseInv, NEW by \in Int, Mouse!Scroll(by),
         UNCHANGED <<written, framed, queue, selection>>
  PROVE  MouseInv'
PROOF
  <1> USE DEF MouseInv
  <1>1. Mouse!Current \in Int
    BY DEF Mouse!Current, LinesInv, ViewInv, Within, Views
  <1>2. PICK wanted : wanted = Mouse!AtLeast(Mouse!Current + by, 0)
    OBVIOUS
  <1>3. wanted \in Nat
    BY <1>1, <1>2 DEF Mouse!AtLeast
  <1>4. /\ live' = live
        /\ view' = view \/ view' = None
        /\ target' \in Nat \cup {None} /\ awaited' \in Nat \cup {None}
        /\ viewports' \in Seq(Nat)
    <2>1. CASE wanted = 0
      BY <1>2, <2>1 DEF Mouse!Scroll, LinesInv
    <2>2. CASE wanted # 0
      <3>1. /\ live' = live /\ view' = view /\ target' = wanted
            /\ \/ awaited' = wanted /\ viewports' = Append(viewports, wanted)
               \/ awaited' = awaited /\ viewports' = viewports
        BY <1>2, <2>2 DEF Mouse!Scroll
      <3>2. Append(viewports, wanted) \in Seq(Nat)
        BY <1>3, AppendProperties DEF LinesInv
      <3> QED
        BY <1>3, <3>1, <3>2 DEF LinesInv
    <2> QED
      BY <2>1, <2>2
  <1>5. LinesInv'
    BY <1>4 DEF LinesInv
  <1>6. QueueInv'
    BY <1>4 DEF QueueInv
  <1>7. ViewInv'
    BY <1>4 DEF ViewInv, Within
  <1>8. SelectionInv'
    BY <1>4 DEF SelectionInv, Taken
  <1> QED
    BY <1>5, <1>6, <1>7, <1>8

LEMMA AutoScrollKeepsTheMouse ==
  ASSUME Mouse!SelectionAssumption, MouseInv, Mouse!AutoScroll
  PROVE  MouseInv'
PROOF
  <1>1. Mouse!ScrollDirection(selection) \in Int
    BY DEF Mouse!ScrollDirection, Mouse!SelectionAssumption
  <1> QED
    BY <1>1, ScrollKeepsTheMouse DEF Mouse!AutoScroll

LEMMA WheelKeepsTheMouse ==
  ASSUME Mouse!SelectionAssumption, MouseInv, NEW by \in {Step, -Step}, Mouse!Wheel(by)
  PROVE  MouseInv'
PROOF
  <1>1. by \in Int
    BY DEF Mouse!SelectionAssumption
  <1> QED
    BY <1>1, ScrollKeepsTheMouse DEF Mouse!Wheel

\* Without a selection.
LEMMA ReleaseKeepsTheMouse ==
  ASSUME MouseInv, Mouse!Release \/ Mouse!Key
  PROVE  MouseInv'
  BY DEF MouseInv, Mouse!Release, Mouse!Key, Mouse!client, LinesInv, QueueInv, ViewInv, Within, SelectionInv

\* Another line of the agent.
LEMMA OutputKeepsTheMouse ==
  ASSUME Mouse!SelectionAssumption, MouseInv, Mouse!Output
  PROVE  MouseInv'
PROOF
  <1> USE DEF MouseInv
  <1>1. /\ written' = written + 1 /\ written \in Nat
        /\ UNCHANGED <<framed, queue, viewports, live, view, awaited, target, selection>>
    BY DEF Mouse!Output, Mouse!client, LinesInv
  <1>2. LinesInv'
    BY <1>1 DEF LinesInv
  <1>3. QueueInv'
    <2>1. \A i \in 1..Len(queue) : queue[i].lines \in Nat
      BY ElementOfSeq DEF QueueInv, Messages
    <2> QED
      BY <1>1, <2>1 DEF QueueInv
  <1>4. ViewInv'
    BY <1>1 DEF ViewInv, Within, Views
  <1>5. SelectionInv'
    <2> SUFFICES ASSUME selection # None, selection.fromLive PROVE Taken(selection, live, written + 1)
      BY <1>1 DEF SelectionInv, Taken
    <2> QED
      BY <1>1, TakenWidens DEF SelectionInv, LinesInv
  <1> QED
    BY <1>2, <1>3, <1>4, <1>5

\* A message of the screen as it is comes after every other.
LEMMA QueuedLast ==
  ASSUME Mouse!SelectionAssumption, LinesInv, QueueInv, NEW m \in Messages, m.lines = written,
         m.kind = "viewport" => m.offset <= m.lines - Height,
         queue' = Append(queue, m), UNCHANGED <<live, written>>
  PROVE  QueueInv'
PROOF
  <1>1. queue \in Seq(Messages) /\ \A i \in 1..Len(queue) : queue[i].lines <= written
    BY DEF QueueInv
  <1>2. /\ queue' \in Seq(Messages) /\ Len(queue') = Len(queue) + 1 /\ queue'[Len(queue) + 1] = m
        /\ \A i \in 1..Len(queue) : queue'[i] = queue[i]
    BY <1>1, AppendProperties
  <1>3. Len(queue) \in Nat
    BY <1>1, LenProperties
  <1>4. \A i \in 1..Len(queue') : i \in 1..Len(queue) \/ i = Len(queue) + 1
    BY <1>2, <1>3
  <1>5. written \in Nat /\ live <= written
    BY DEF LinesInv
  <1>6. \A i \in 1..Len(queue') :
          /\ live <= queue'[i].lines /\ queue'[i].lines <= written
          /\ queue'[i].kind = "viewport" => queue'[i].offset <= queue'[i].lines - Height
    <2> SUFFICES ASSUME NEW i \in 1..Len(queue')
                 PROVE  /\ live <= queue'[i].lines /\ queue'[i].lines <= written
                        /\ queue'[i].kind = "viewport" => queue'[i].offset <= queue'[i].lines - Height
      OBVIOUS
    <2>1. CASE i \in 1..Len(queue)
      BY <1>2, <2>1 DEF QueueInv
    <2>2. CASE i = Len(queue) + 1
      BY <1>2, <1>5, <2>2
    <2> QED
      BY <1>4, <2>1, <2>2
  <1>7. \A i, j \in 1..Len(queue') : i <= j => queue'[i].lines <= queue'[j].lines
    <2> SUFFICES ASSUME NEW i \in 1..Len(queue'), NEW j \in 1..Len(queue'), i <= j
                 PROVE  queue'[i].lines <= queue'[j].lines
      OBVIOUS
    <2>1. CASE j \in 1..Len(queue)
      <3>1. i \in 1..Len(queue)
        BY <1>3, <1>4, <2>1
      <3> QED
        BY <1>2, <2>1, <3>1 DEF QueueInv
    <2>2. CASE j = Len(queue) + 1
      BY <1>2, <1>6, <2>2
    <2> QED
      BY <1>4, <2>1, <2>2
  <1>8. QED
    BY <1>2, <1>6, <1>7 DEF QueueInv

LEMMA SendFrameKeepsTheMouse ==
  ASSUME Mouse!SelectionAssumption, MouseInv, NEW kind \in {"full", "diff"}, Mouse!SendFrame(kind)
  PROVE  MouseInv'
PROOF
  <1> USE DEF MouseInv
  <1>1. PICK m : m = [kind |-> kind, lines |-> written]
    OBVIOUS
  <1>2. m \in Messages /\ m.lines = written /\ m.kind # "viewport"
    BY <1>1 DEF Messages, LinesInv
  <1>3. /\ queue' = Append(queue, m) /\ framed' = written
        /\ UNCHANGED <<written, viewports, live, view, awaited, target, selection>>
    BY <1>1 DEF Mouse!SendFrame, Mouse!client
  <1>4. QueueInv'
    BY <1>2, <1>3, QueuedLast
  <1>5. LinesInv'
    BY <1>3 DEF LinesInv, Mouse!SelectionAssumption
  <1>6. ViewInv' /\ SelectionInv'
    BY <1>3 DEF ViewInv, Within, SelectionInv, Taken
  <1> QED
    BY <1>4, <1>5, <1>6

LEMMA AnswerKeepsTheMouse ==
  ASSUME Mouse!SelectionAssumption, MouseInv, Mouse!Answer
  PROVE  MouseInv'
PROOF
  <1> USE DEF MouseInv
  <1>1. viewports \in Seq(Nat) /\ viewports # <<>> /\ written \in Nat /\ Height <= written
    <2>1. /\ viewports \in Seq(Nat) /\ viewports # <<>>
          /\ written \in Nat /\ live \in Nat /\ Height <= live /\ live <= written
      BY DEF Mouse!Answer, LinesInv
    <2> QED
      BY <2>1 DEF Mouse!SelectionAssumption
  <1>2. Head(viewports) \in Nat /\ Tail(viewports) \in Seq(Nat)
    BY <1>1, HeadTailProperties
  <1>3. PICK asked, offset : /\ asked = Head(viewports)
                             /\ offset = Mouse!Limited(asked, Mouse!Retained(written))
    OBVIOUS
  <1>4. asked \in Nat /\ offset \in Nat /\ offset <= written - Height
    BY <1>1, <1>2, <1>3 DEF Mouse!Limited, Mouse!Retained, Mouse!SelectionAssumption
  <1>5. PICK m : m = [kind |-> "viewport", lines |-> written, requested |-> asked, offset |-> offset]
    OBVIOUS
  <1>6. m \in Messages /\ m.lines = written /\ m.offset = offset
    BY <1>1, <1>4, <1>5 DEF Messages
  <1>7. /\ queue' = Append(queue, m) /\ viewports' = Tail(viewports)
        /\ UNCHANGED <<written, framed, live, view, awaited, target, selection>>
    BY <1>3, <1>5 DEF Mouse!Answer, Mouse!client
  <1>8. QueueInv'
    BY <1>4, <1>6, <1>7, QueuedLast
  <1>9. LinesInv'
    BY <1>2, <1>7 DEF LinesInv
  <1>10. ViewInv' /\ SelectionInv'
    BY <1>7 DEF ViewInv, Within, SelectionInv, Taken
  <1> QED
    BY <1>8, <1>9, <1>10

\* The messages behind the first.
LEMMA QueueAdvances ==
  ASSUME Mouse!SelectionAssumption, QueueInv, queue # <<>>
  PROVE  LET m == Head(queue)
             behind == SubSeq(queue, 2, Len(queue))
         IN /\ m \in Messages /\ live <= m.lines /\ m.lines <= written
            /\ m.kind = "viewport" => m.offset <= m.lines - Height
            /\ behind \in Seq(Messages)
            /\ \A i \in 1..Len(behind) :
                 /\ m.lines <= behind[i].lines /\ behind[i].lines <= written
                 /\ behind[i].kind = "viewport" => behind[i].offset <= behind[i].lines - Height
            /\ \A i, j \in 1..Len(behind) : i <= j => behind[i].lines <= behind[j].lines
PROOF
  <1>1. queue \in Seq(Messages) /\ Len(queue) \in Nat \ {0}
    <2>1. queue \in Seq(Messages)
      BY DEF QueueInv
    <2> QED
      BY <2>1, LenProperties, EmptySeq
  <1>2. PICK m, behind : m = Head(queue) /\ behind = SubSeq(queue, 2, Len(queue))
    OBVIOUS
  <1>3. m = queue[1] /\ 1 \in 1..Len(queue)
    BY <1>1, <1>2
  <1>4. /\ behind \in Seq(Messages) /\ Len(behind) = Len(queue) - 1
        /\ \A i \in 1..(Len(queue) - 1) : behind[i] = queue[i + 1]
    <2>1. \A i \in 2..Len(queue) : queue[i] \in Messages
      BY <1>1, ElementOfSeq
    <2>2. 2 \in Int /\ Len(queue) \in Int
      BY <1>1
    <2>3. behind \in Seq(Messages) /\ Len(behind) = IF 2 <= Len(queue) THEN Len(queue) - 2 + 1 ELSE 0
      BY <1>2, <2>1, <2>2, SubSeqProperties
    <2>4. \A i \in 1..(Len(queue) - 2 + 1) : behind[i] = queue[2 + i - 1]
      BY <1>2, <2>1, <2>2, SubSeqProperties
    <2>5. Len(behind) = Len(queue) - 1
      BY <1>1, <2>3
    <2>6. ASSUME NEW i \in 1..(Len(queue) - 1) PROVE behind[i] = queue[i + 1]
      <3>1. i \in 1..(Len(queue) - 2 + 1) /\ 2 + i - 1 = i + 1
        BY <1>1
      <3> QED
        BY <2>4, <3>1
    <2> QED
      BY <2>3, <2>5, <2>6
  <1>5. \A i \in 1..Len(behind) : i + 1 \in 1..Len(queue) /\ behind[i] = queue[i + 1] /\ 1 <= i + 1
    BY <1>1, <1>4
  <1>6. m \in Messages /\ live <= m.lines /\ m.lines <= written
    BY <1>1, <1>3, ElementOfSeq DEF QueueInv
  <1>7. m.kind = "viewport" => m.offset <= m.lines - Height
    BY <1>3 DEF QueueInv
  <1>8. \A i \in 1..Len(behind) :
          /\ m.lines <= behind[i].lines /\ behind[i].lines <= written
          /\ behind[i].kind = "viewport" => behind[i].offset <= behind[i].lines - Height
    BY <1>3, <1>5 DEF QueueInv
  <1>9. \A i, j \in 1..Len(behind) : i <= j => behind[i].lines <= behind[j].lines
    <2> SUFFICES ASSUME NEW i \in 1..Len(behind), NEW j \in 1..Len(behind), i <= j
                 PROVE  behind[i].lines <= behind[j].lines
      OBVIOUS
    <2>1. i + 1 <= j + 1
      BY <1>1, <1>4
    <2> QED
      BY <1>5, <2>1 DEF QueueInv
  <1> QED
    BY <1>2, <1>4, <1>6, <1>7, <1>8, <1>9

\* A frame shows a later screen and drops the selection.
LEMMA FrameKeepsTheMouse ==
  ASSUME Mouse!SelectionAssumption, MouseInv, Mouse!Receive, Head(queue).kind # "viewport"
  PROVE  MouseInv'
PROOF
  <1> USE DEF MouseInv
  <1>1. PICK m, behind : m = Head(queue) /\ behind = SubSeq(queue, 2, Len(queue))
    OBVIOUS
  <1>2. /\ m \in Messages /\ live <= m.lines /\ m.lines <= written
        /\ behind \in Seq(Messages)
        /\ \A i \in 1..Len(behind) :
             /\ m.lines <= behind[i].lines /\ behind[i].lines <= written
             /\ behind[i].kind = "viewport" => behind[i].offset <= behind[i].lines - Height
        /\ \A i, j \in 1..Len(behind) : i <= j => behind[i].lines <= behind[j].lines
    BY <1>1, QueueAdvances DEF Mouse!Receive
  <1>3. /\ queue' = behind /\ live' = m.lines /\ selection' = None
        /\ UNCHANGED <<written, framed, viewports>>
        /\ \/ view' = None /\ awaited' = None /\ target' = None
           \/ UNCHANGED <<view, awaited, target>>
    BY <1>1 DEF Mouse!Receive, Mouse!ApplyFrame, Mouse!TerminalChanged, Mouse!CancelSelection
  <1>4. m.lines \in Nat /\ Height <= m.lines
    <2>1. m.lines \in Nat
      BY <1>2 DEF Messages
    <2>2. live \in Nat /\ Height <= live /\ Height \in Nat
      BY DEF LinesInv, Mouse!SelectionAssumption
    <2> QED
      BY <1>2, <2>1, <2>2
  <1>5. LinesInv'
    BY <1>2, <1>3, <1>4 DEF LinesInv
  <1>6. QueueInv'
    BY <1>2, <1>3 DEF QueueInv
  <1>7. ViewInv' /\ SelectionInv'
    BY <1>3 DEF ViewInv, Within, SelectionInv
  <1> QED
    BY <1>5, <1>6, <1>7

\* What a viewport changes: it is shown, and its rows join the selection.
LEMMA ViewportIsShown ==
  ASSUME Mouse!SelectionAssumption, MouseInv, NEW m \in Messages, m.kind = "viewport",
         Within([lines |-> m.lines, offset |-> m.offset]), live <= m.lines, m.lines <= written,
         UNCHANGED <<live, written>>,
         view' = IF m.offset = 0 THEN None ELSE [lines |-> m.lines, offset |-> m.offset],
         selection' = IF selection = None THEN None
                      ELSE Mouse!Absorbed(selection, Mouse!ScreenOf(live, view'))
  PROVE  ViewInv' /\ SelectionInv'
PROOF
  <1> USE DEF MouseInv
  <1>1. PICK v, now, then : /\ v = [lines |-> m.lines, offset |-> m.offset]
                            /\ now = [lines |-> live, offset |-> 0] /\ then = view'
    OBVIOUS
  <1>2. /\ v \in Views /\ v.lines = m.lines /\ v.offset = m.offset
        /\ now \in Views /\ now.lines = live
    BY <1>1 DEF Within, Views, LinesInv
  <1>3. then = None \/ (then = v /\ v.offset # 0)
    BY <1>1, <1>2
  <1>4. ViewInv'
    BY <1>1, <1>2, <1>3 DEF ViewInv, Within
  <1>5. PICK shown : shown = Mouse!ScreenOf(live, then)
    OBVIOUS
  <1>6. shown \in Views /\ live <= shown.lines /\ shown.lines <= written
    BY <1>1, <1>2, <1>3, <1>5 DEF Mouse!ScreenOf, LinesInv
  <1>7. SelectionInv'
    <2> SUFFICES ASSUME selection' # None PROVE SelectionInv'
      BY DEF SelectionInv
    <2>1. selection # None /\ selection' = Mouse!Absorbed(selection, shown)
      BY <1>1, <1>5
    <2>2. /\ selection \in Selections /\ selection.anchor \in DOMAIN selection.rows
          /\ selection.fromLive => Taken(selection, live, written)
      BY <2>1 DEF SelectionInv
    <2>3. PICK s : s = selection
      OBVIOUS
    <2>4. /\ selection' \in Selections /\ selection'.fromLive = s.fromLive
          /\ s.fromLive => Taken(selection', live, written)
      BY <1>6, <2>1, <2>2, <2>3, AbsorbedSelection
    <2>5. selection'.anchor = s.anchor /\ DOMAIN s.rows \subseteq DOMAIN selection'.rows
      BY <1>6, <2>1, <2>2, <2>3, AbsorbedRows
    <2>6. Taken(selection, live, written)' <=> Taken(selection', live, written)
      BY DEF Taken
    <2>7. then # None => live <= then.lines
      BY <1>1, <1>2, <1>3
    <2>8. selection'.anchor \in DOMAIN selection'.rows
      BY <2>2, <2>3, <2>5
    <2> QED
      BY <1>1, <2>4, <2>6, <2>7, <2>8 DEF SelectionInv
  <1> QED
    BY <1>4, <1>7

\* A viewport is shown when it is the one that was asked for last; when
\* another is, that one is asked for now.
LEMMA ViewportKeepsTheMouse ==
  ASSUME Mouse!SelectionAssumption, MouseInv, Mouse!Receive, Head(queue).kind = "viewport"
  PROVE  MouseInv'
PROOF
  <1> USE DEF MouseInv
  <1>1. PICK m, behind : m = Head(queue) /\ behind = SubSeq(queue, 2, Len(queue))
    OBVIOUS
  <1>2. /\ m \in Messages /\ m.kind = "viewport" /\ live <= m.lines /\ m.lines <= written
        /\ m.offset <= m.lines - Height
        /\ behind \in Seq(Messages)
        /\ \A i \in 1..Len(behind) :
             /\ m.lines <= behind[i].lines /\ behind[i].lines <= written
             /\ behind[i].kind = "viewport" => behind[i].offset <= behind[i].lines - Height
        /\ \A i, j \in 1..Len(behind) : i <= j => behind[i].lines <= behind[j].lines
    BY <1>1, QueueAdvances DEF Mouse!Receive
  <1>3. m.lines \in Nat /\ m.offset \in Nat /\ live \in Nat /\ written \in Nat
    BY <1>2 DEF Messages, LinesInv
  <1>4. /\ queue' = behind /\ Mouse!ApplyViewport(m) /\ UNCHANGED <<written, framed>>
    BY <1>1 DEF Mouse!Receive
  <1>5. live' = live
    BY <1>4 DEF Mouse!ApplyViewport
  <1>6. QueueInv'
    <2>1. \A i \in 1..Len(behind) : live <= behind[i].lines
      <3> SUFFICES ASSUME NEW i \in 1..Len(behind) PROVE live <= behind[i].lines
        OBVIOUS
      <3>1. behind[i].lines \in Nat
        BY <1>2, ElementOfSeq DEF Messages
      <3> QED
        BY <1>2, <1>3, <3>1
    <2> QED
      BY <1>2, <1>4, <1>5, <2>1 DEF QueueInv
  <1>7. /\ awaited' \in Nat \cup {None} /\ target' \in Nat \cup {None} /\ viewports' \in Seq(Nat)
    <2>1. \/ UNCHANGED <<awaited, target, viewports>>
          \/ awaited' = target /\ target # None /\ target' = target /\ viewports' = Append(viewports, target)
          \/ awaited' = None /\ target' = None /\ viewports' = viewports
          \/ awaited' = None /\ target' = m.offset /\ viewports' = viewports
          \/ awaited' = target /\ target' = target /\ viewports' = viewports
      BY <1>4 DEF Mouse!ApplyViewport
    <2>2. target # None => Append(viewports, target) \in Seq(Nat)
      BY AppendProperties DEF LinesInv
    <2> QED
      BY <1>3, <2>1, <2>2 DEF LinesInv
  <1>8. LinesInv'
    BY <1>4, <1>5, <1>7 DEF LinesInv
  <1>9. ViewInv' /\ SelectionInv'
    <2>1. CASE UNCHANGED <<view, selection>>
      BY <1>4, <1>5, <2>1 DEF ViewInv, Within, SelectionInv, Taken
    <2>2. CASE ~UNCHANGED <<view, selection>>
      <3>1. /\ view' = IF m.offset = 0 THEN None ELSE [lines |-> m.lines, offset |-> m.offset]
            /\ selection' = IF selection = None THEN None
                            ELSE Mouse!Absorbed(selection, Mouse!ScreenOf(live, view'))
        BY <1>4, <2>2 DEF Mouse!ApplyViewport
      <3>2. Height <= m.lines
        BY <1>2, <1>3 DEF LinesInv, Mouse!SelectionAssumption
      <3>3. Within([lines |-> m.lines, offset |-> m.offset])
        BY <1>2, <1>3, <3>2 DEF Within, Views
      <3> QED
        BY <1>2, <1>4, <1>5, <3>1, <3>3, ViewportIsShown
    <2> QED
      BY <2>1, <2>2
  <1> QED
    BY <1>6, <1>8, <1>9

-----------------------------------------------------------------------------
\* The invariant

LEMMA MouseStarts ==
  ASSUME Mouse!SelectionAssumption, Mouse!Init
  PROVE  MouseInv
PROOF
  <1>1. Height \in Nat /\ written = Height + 1 /\ framed = written /\ live = written
    BY DEF Mouse!Init, Mouse!SelectionAssumption
  <1>2. LinesInv
    BY <1>1, EmptySeq DEF Mouse!Init, LinesInv
  <1>3. QueueInv
    <2>1. queue \in Seq(Messages) /\ Len(queue) = 0
      BY EmptySeq DEF Mouse!Init
    <2> QED
      BY <2>1 DEF QueueInv
  <1> QED
    BY <1>2, <1>3 DEF Mouse!Init, MouseInv, ViewInv, SelectionInv

LEMMA MouseSteps ==
  ASSUME Mouse!SelectionAssumption, MouseInv, [Mouse!Next]_(Mouse!vars)
  PROVE  MouseInv'
PROOF
  <1>1. CASE UNCHANGED Mouse!vars
    BY <1>1 DEF Mouse!vars, MouseInv, LinesInv, QueueInv, ViewInv, Within, SelectionInv, Taken
  <1>2. CASE \E row \in 0..(Height - 1) : Mouse!Press(row) \/ Mouse!Drag(row)
    BY <1>2, PressKeepsTheMouse, DragKeepsTheMouse
  <1>3. CASE Mouse!AutoScroll
    BY <1>3, AutoScrollKeepsTheMouse
  <1>4. CASE Mouse!Release \/ Mouse!Key
    BY <1>4, ReleaseKeepsTheMouse
  <1>5. CASE \E by \in {Step, -Step} : Mouse!Wheel(by)
    BY <1>5, WheelKeepsTheMouse
  <1>6. CASE Mouse!Output
    BY <1>6, OutputKeepsTheMouse
  <1>7. CASE \E kind \in {"full", "diff"} : Mouse!SendFrame(kind)
    BY <1>7, SendFrameKeepsTheMouse
  <1>8. CASE Mouse!Answer
    BY <1>8, AnswerKeepsTheMouse
  <1>9. CASE Mouse!Receive
    BY <1>9, FrameKeepsTheMouse, ViewportKeepsTheMouse
  <1> QED
    BY <1>1, <1>2, <1>3, <1>4, <1>5, <1>6, <1>7, <1>8, <1>9 DEF Mouse!Next

\* When every line has reached the client, each row of a selection begun on
\* the live screen is of the screen as it is, whatever was scrolled through:
\* its text is one piece of one history.
LEMMA TextIsOfOneScreen ==
  ASSUME Mouse!SelectionAssumption, LinesInv, live = written,
         NEW s \in Selections, Taken(s, live, written)
  PROVE  Mouse!IsOneScreens(s)
PROOF
  <1>1. /\ Height \in Nat /\ written \in Nat
        /\ \A g \in DOMAIN s.rows : g \in Int /\ s.rows[g] \in Int
    <2>1. \A g \in DOMAIN s.rows : g \in Int /\ s.rows[g] \in Int
      BY DEF Selections, Collections
    <2> QED
      BY <2>1 DEF Mouse!SelectionAssumption, LinesInv
  <1>2. \A g \in DOMAIN s.rows : s.rows[g] = written - Height + g + 1
    <2> SUFFICES ASSUME NEW g \in DOMAIN s.rows PROVE s.rows[g] = written - Height + g + 1
      OBVIOUS
    <2>1. written - Height + g + 1 <= s.rows[g] /\ s.rows[g] <= written - Height + g + 1
      BY DEF Taken
    <2> QED
      BY <1>1, <2>1
  <1>3. PICK first, last : /\ first = Mouse!Limited(s.anchor, s.head)
                           /\ last = Mouse!AtLeast(s.anchor, s.head)
    OBVIOUS
  <1>4. first \in Int /\ last \in Int /\ first <= last
    BY <1>3 DEF Mouse!Limited, Mouse!AtLeast, Selections
  <1>5. CASE s.dragging /\ first..last \subseteq DOMAIN s.rows
    <2>1. PICK text : text = [i \in 1..(last - first + 1) |-> s.rows[first + i - 1]]
      OBVIOUS
    <2>2. Mouse!Text(s) = text
      BY <1>3, <1>5, <2>1 DEF Mouse!Text
    <2>3. \A i \in 1..(last - first + 1) : first + i - 1 \in first..last
      BY <1>4
    <2>4. \A i \in 1..(last - first + 1) : text[i] = written - Height + (first + i - 1) + 1
      BY <1>2, <1>5, <2>1, <2>3
    <2>5. text \in Seq(Int) /\ Len(text) = last - first + 1
      <3>1. \A i \in 1..(last - first + 1) : s.rows[first + i - 1] \in Int
        BY <1>1, <1>5, <2>3
      <3>2. last - first + 1 \in Nat
        BY <1>4
      <3>3. text \in [1..(last - first + 1) -> Int]
        BY <2>1, <3>1
      <3>4. text \in Seq(Int)
        BY <3>2, <3>3, SeqDef
      <3> QED
        BY <3>2, <3>3, <3>4, LenProperties
    <2>6. ASSUME NEW i \in 2..Len(text) PROVE text[i] = text[i - 1] + 1
      <3>1. i \in 1..(last - first + 1) /\ i - 1 \in 1..(last - first + 1)
        BY <1>4, <2>5
      <3>2. /\ text[i] = written - Height + (first + i - 1) + 1
            /\ text[i - 1] = written - Height + (first + (i - 1) - 1) + 1
        BY <2>4, <3>1
      <3> QED
        BY <1>1, <1>4, <3>1, <3>2
    <2> QED
      BY <2>2, <2>6 DEF Mouse!IsOneScreens
  <1>6. CASE ~(s.dragging /\ first..last \subseteq DOMAIN s.rows)
    <2>1. Mouse!Text(s) = <<>>
      BY <1>3, <1>6 DEF Mouse!Text
    <2>2. Len(Mouse!Text(s)) = 0
      BY <2>1, EmptySeq
    <2> QED
      BY <2>2 DEF Mouse!IsOneScreens
  <1> QED
    BY <1>5, <1>6

LEMMA MouseKeepsItsPromises ==
  ASSUME Mouse!SelectionAssumption, MouseInv
  PROVE  Mouse!TypeOK /\ Mouse!MixedTextIsCancelled
PROOF
  <1> USE DEF MouseInv
  <1>1. Height \in Nat
    BY DEF Mouse!SelectionAssumption
  <1>2. live \in Height..written /\ framed \in Height..written
    BY <1>1 DEF LinesInv
  <1>3. view # None => view.offset \in 1..Mouse!Retained(view.lines)
    BY <1>1 DEF ViewInv, Within, Views, Mouse!Retained
  <1>4. Mouse!TypeOK
    BY <1>2, <1>3 DEF Mouse!TypeOK, SelectionInv
  <1>5. Mouse!MixedTextIsCancelled
    <2> SUFFICES ASSUME selection # None, selection.fromLive, ~(live < written)
                 PROVE  Mouse!IsOneScreens(selection)
      BY DEF Mouse!MixedTextIsCancelled
    <2>1. live = written
      BY DEF LinesInv
    <2>2. selection \in Selections /\ Taken(selection, live, written)
      BY DEF SelectionInv
    <2> QED
      BY <2>1, <2>2, TextIsOfOneScreen
  <1> QED
    BY <1>4, <1>5

-----------------------------------------------------------------------------
\* Input

\* A sequence of two parts has the elements of both in their order.
Joined(s, t) == s \o t
LEMMA JoinedParts ==
  ASSUME NEW S, NEW s \in Seq(S), NEW t \in Seq(S)
  PROVE  /\ Joined(s, t) \in Seq(S) /\ Len(Joined(s, t)) = Len(s) + Len(t)
         /\ \A i \in 1 .. Len(s) + Len(t) : Joined(s, t)[i] = IF i <= Len(s) THEN s[i] ELSE t[i - Len(s)]
PROOF
  <1>1. s \o t \in Seq(S) /\ Len(s \o t) = Len(s) + Len(t)
    BY ConcatProperties
  <1>2. ASSUME NEW i \in 1 .. Len(s) + Len(t)
        PROVE (s \o t)[i] = IF i <= Len(s) THEN s[i] ELSE t[i - Len(s)]
    BY <1>2, ConcatProperties
  <1> QED
    BY <1>1, <1>2 DEF Joined

\* What was sent last is the encoding of the last event in the modes it met.
InputInv ==
  /\ input \in Input!Modes
  /\ \/ event = None
     \/ event \in Input!Keys /\ bytes = Input!EncodeKey(event, input)
     \/ event \in Input!Mice /\ bytes = Input!EncodeMouse(event, input)
     \/ event = [text |-> "text"]

\* A sequence of three, two or no, and one.
LEMMA JoinedThree ==
  ASSUME NEW a, NEW b, NEW c, NEW d, NEW e, NEW f
  PROVE  /\ <<a, b, c>> \o <<>> \o <<d>> = <<a, b, c, d>>
         /\ <<a, b, c>> \o <<e, f>> \o <<d>> = <<a, b, c, e, f, d>>
PROOF
  <1> DEFINE S == {a, b, c, d, e, f}
             s == <<a, b, c>>
             two == <<e, f>>
             one == <<d>>
             none == <<>>
  <1>1. /\ s \in Seq(S) /\ two \in Seq(S) /\ one \in Seq(S) /\ none \in Seq(S)
        /\ Len(s) = 3 /\ Len(two) = 2 /\ Len(one) = 1 /\ Len(none) = 0
        /\ s[1] = a /\ s[2] = b /\ s[3] = c /\ two[1] = e /\ two[2] = f /\ one[1] = d
    OBVIOUS
  <1> HIDE DEF S, s, two, one, none
  <1>3. ASSUME NEW r \in Seq(S), Len(r) = 4, r[1] = a, r[2] = b, r[3] = c, r[4] = d
        PROVE  r = <<a, b, c, d>>
    BY <1>3
  <1>4. ASSUME NEW r \in Seq(S), Len(r) = 6, r[1] = a, r[2] = b, r[3] = c, r[4] = e, r[5] = f, r[6] = d
        PROVE  r = <<a, b, c, e, f, d>>
    BY <1>4
  <1>5. Joined(Joined(s, none), one) = <<a, b, c, d>>
    <2> DEFINE q == Joined(s, none)
               r == Joined(q, one)
    <2>1. /\ q \in Seq(S) /\ Len(q) = Len(s) + Len(none)
          /\ \A i \in 1 .. Len(s) + Len(none) : q[i] = IF i <= Len(s) THEN s[i] ELSE none[i - Len(s)]
      BY <1>1, JoinedParts, Zenon
    <2>2. q \in Seq(S) /\ Len(q) = 3 /\ q[1] = a /\ q[2] = b /\ q[3] = c
      BY <1>1, <2>1
    <2> HIDE DEF q
    <2>3. /\ r \in Seq(S) /\ Len(r) = Len(q) + Len(one)
          /\ \A i \in 1 .. Len(q) + Len(one) : r[i] = IF i <= Len(q) THEN q[i] ELSE one[i - Len(q)]
      BY <1>1, <2>2, JoinedParts, Zenon
    <2>4. r \in Seq(S) /\ Len(r) = 4 /\ r[1] = a /\ r[2] = b /\ r[3] = c /\ r[4] = d
      BY <1>1, <2>2, <2>3
    <2> HIDE DEF r
    <2>5. r = <<a, b, c, d>>
      BY <1>3, <2>4
    <2> QED
      BY <2>5 DEF q, r
  <1>6. Joined(Joined(s, two), one) = <<a, b, c, e, f, d>>
    <2> DEFINE q == Joined(s, two)
               r == Joined(q, one)
    <2>1. /\ q \in Seq(S) /\ Len(q) = Len(s) + Len(two)
          /\ \A i \in 1 .. Len(s) + Len(two) : q[i] = IF i <= Len(s) THEN s[i] ELSE two[i - Len(s)]
      BY <1>1, JoinedParts, Zenon
    <2>2. q \in Seq(S) /\ Len(q) = 5 /\ q[1] = a /\ q[2] = b /\ q[3] = c /\ q[4] = e /\ q[5] = f
      BY <1>1, <2>1
    <2> HIDE DEF q
    <2>3. /\ r \in Seq(S) /\ Len(r) = Len(q) + Len(one)
          /\ \A i \in 1 .. Len(q) + Len(one) : r[i] = IF i <= Len(q) THEN q[i] ELSE one[i - Len(q)]
      BY <1>1, <2>2, JoinedParts, Zenon
    <2>4. /\ r \in Seq(S) /\ Len(r) = 6 /\ r[1] = a /\ r[2] = b /\ r[3] = c
          /\ r[4] = e /\ r[5] = f /\ r[6] = d
      BY <1>1, <2>2, <2>3
    <2> HIDE DEF r
    <2>5. r = <<a, b, c, e, f, d>>
      BY <1>4, <2>4
    <2> QED
      BY <2>5 DEF q, r
  <1> QED
    BY <1>5, <1>6 DEF Joined, s, two, one, none

\* The codes of keys are in one table each.
LEMMA KeyTables ==
  /\ DOMAIN Input!Codepoint = {"Escape", "Enter", "Tab", "Backspace"}
  /\ \A one, two \in DOMAIN Input!Codepoint : Input!Codepoint[one] = Input!Codepoint[two] => one = two
  /\ DOMAIN Input!Cursor = {"Up", "Down", "Right", "Left", "Home", "End"}
  /\ \A code \in DOMAIN Input!Cursor : Input!Cursor[code] # "u"
  /\ DOMAIN Input!Tilde = {"Insert", "Delete", "PageUp", "PageDown", "F5", "F6", "F12"}
  /\ DOMAIN Input!Function = {"F1", "F2", "F3", "F4"}
  /\ \A code \in DOMAIN Input!Function : Input!Function[code] # "u"
  /\ DOMAIN Input!Single = {"Enter", "Tab", "BackTab", "Backspace", "Escape"}
PROOF
  BY DEF Input!Codepoint, Input!Cursor, Input!Tilde, Input!Function, Input!Single

LEMMA ParameterOfKey ==
  ASSUME NEW key \in Input!Keys
  PROVE  /\ Input!Parameter(key) \in 1 .. 8
         /\ \A other \in Input!Keys :
              Input!Parameter(other) = Input!Parameter(key) =>
                other.shift = key.shift /\ other.alt = key.alt /\ other.control = key.control
PROOF
  BY DEF Input!Parameter, Input!Bit, Input!Keys

\* Nothing that goes by the tables of old is as long as the new form and ends in its u.
Old(told) ==
  (\E S : told \in Seq(S)) /\ told # <<>> /\ (Len(told) = 1 \/ told[Len(told)] # "u")

\* Tuples that are of old.
LEMMA OldTuples ==
  ASSUME NEW a, NEW b, NEW c, NEW d, NEW e, NEW f
  PROVE  /\ Old(<<a>>)
         /\ c # "u" => Old(<<a, b, c>>)
         /\ d # "u" => Old(<<a, b, c, d>>)
         /\ f # "u" => Old(<<a, b, c, d, e, f>>)
PROOF
  <1> DEFINE S == {a, b, c, d, e, f}
  <1>1. /\ <<a>> \in Seq(S) /\ <<a, b, c>> \in Seq(S) /\ <<a, b, c, d>> \in Seq(S)
        /\ <<a, b, c, d, e, f>> \in Seq(S)
    OBVIOUS
  <1> HIDE DEF S
  <1> QED
    BY <1>1 DEF Old

\* A key is in one of the tables, or in none.
LEMMA KeyIsOfOneTable ==
  ASSUME NEW code
  PROVE  /\ code \in Input!Characters =>
              code \notin DOMAIN Input!Single \cup DOMAIN Input!Cursor
                          \cup DOMAIN Input!Function \cup DOMAIN Input!Tilde
         /\ code \in DOMAIN Input!Single =>
              code \notin DOMAIN Input!Cursor \cup DOMAIN Input!Function \cup DOMAIN Input!Tilde
         /\ code \in DOMAIN Input!Cursor => code \notin DOMAIN Input!Function \cup DOMAIN Input!Tilde
         /\ code \in DOMAIN Input!Function => code \notin DOMAIN Input!Tilde
PROOF
  BY KeyTables DEF Input!Characters

LEMMA LegacyIsOld ==
  ASSUME NEW key \in Input!Keys, NEW application \in BOOLEAN,
         Input!Legacy(key, application) # None
  PROVE  Old(Input!Legacy(key, application))
PROOF
  <1> DEFINE code == key.code
             legacy == Input!Legacy(key, application)
             byte == IF key.control THEN Input!ControlByte(code) ELSE <<code>>
             cursor == Input!CursorKey(Input!Cursor[code], key, application)
             function == Input!FunctionKey(Input!Function[code], key)
             tilde == Input!TildeKey(Input!Tilde[code], key)
  <1>1. /\ code \in Input!Characters => legacy = byte
        /\ code \in DOMAIN Input!Single => legacy = Input!Single[code]
        /\ code \in DOMAIN Input!Cursor => legacy = cursor
        /\ code \in DOMAIN Input!Function => legacy = function
        /\ code \in DOMAIN Input!Tilde => legacy = tilde
        /\ code \notin Input!Characters \cup DOMAIN Input!Single \cup DOMAIN Input!Cursor
                        \cup DOMAIN Input!Function \cup DOMAIN Input!Tilde => legacy = None
    BY KeyIsOfOneTable DEF Input!Legacy
  <1> HIDE DEF legacy, byte, cursor, function, tilde
  <1>2. byte # None => Old(byte)
    <2>1. \A item : Old(<<item>>)
      BY OldTuples
    <2>2. Input!ControlByte(code) \in {<<"soh">>, <<"tab">>, <<"cr">>, <<"nul">>, <<"esc">>, <<"del">>, None}
      BY DEF Input!ControlByte
    <2> QED
      BY <2>1, <2>2 DEF byte
  <1>3. code \in DOMAIN Input!Single => Old(Input!Single[code])
    <2>1. code \in DOMAIN Input!Single =>
            Input!Single[code] \in {<<"cr">>, <<"tab">>, <<"esc", "[", "Z">>, <<"del">>, <<"esc">>}
      BY DEF Input!Single
    <2>2. \A item : Old(<<item>>)
      BY OldTuples
    <2>3. Old(<<"esc", "[", "Z">>)
      BY OldTuples
    <2> QED
      BY <2>1, <2>2, <2>3
  <1>4. code \in DOMAIN Input!Cursor => Old(cursor)
    BY KeyTables, OldTuples DEF Input!CursorKey, cursor
  <1>5. code \in DOMAIN Input!Function => Old(function)
    BY KeyTables, OldTuples DEF Input!FunctionKey, function
  <1>6. Old(tilde)
    <2>1. tilde = IF Input!Parameter(key) = 1 THEN <<"esc", "[", Input!Tilde[code], "~">>
                  ELSE <<"esc", "[", Input!Tilde[code], ";", Input!Parameter(key), "~">>
      <3>1. CASE Input!Parameter(key) = 1
        BY <3>1, JoinedThree DEF Input!TildeKey, tilde
      <3>2. CASE Input!Parameter(key) # 1
        BY <3>2, JoinedThree DEF Input!TildeKey, tilde
      <3> QED
        BY <3>1, <3>2
    <2> QED
      BY <2>1, OldTuples
  <1>7. legacy # None
    BY DEF legacy
  <1>8. Old(legacy)
    BY <1>1, <1>2, <1>3, <1>4, <1>5, <1>6, <1>7
  <1> QED
    BY <1>8 DEF legacy

\* With Alt an escape comes before it: what follows stays the end.
LEMMA EscapedIsOld ==
  ASSUME NEW told, Old(told), told # <<>>
  PROVE  Old(<<"esc">> \o told) \/ Len(<<"esc">> \o told) = 2
PROOF
  <1>1. PICK S : told \in Seq(S)
    BY DEF Old
  <1> DEFINE T == S \cup {"esc"}
             escaped == Joined(<<"esc">>, told)
             n == Len(told)
  <1>2. <<"esc">> \in Seq(T) /\ Len(<<"esc">>) = 1 /\ told \in Seq(T) /\ n \in Nat \ {0}
    BY <1>1
  <1> HIDE DEF T, n
  <1>3. /\ escaped \in Seq(T) /\ Len(escaped) = Len(<<"esc">>) + Len(told)
        /\ \A i \in 1 .. Len(<<"esc">>) + Len(told) :
             escaped[i] = IF i <= Len(<<"esc">>) THEN <<"esc">>[i] ELSE told[i - Len(<<"esc">>)]
    BY <1>2, JoinedParts, Zenon
  <1> HIDE DEF escaped
  <1>4. escaped \in Seq(T) /\ Len(escaped) = 1 + n /\ escaped[1 + n] = told[n]
    BY <1>2, <1>3 DEF n
  <1>5. n = 1 \/ told[n] # "u"
    BY DEF Old, n
  <1>6. Old(escaped) \/ Len(escaped) = 2
    <2>1. CASE n = 1
      BY <1>4, <2>1
    <2>2. CASE n # 1
      <3>1. escaped # <<>> /\ escaped[Len(escaped)] # "u"
        BY <1>2, <1>4, <1>5, <2>2
      <3> QED
        BY <1>4, <3>1 DEF Old
    <2> QED
      BY <2>1, <2>2
  <1> QED
    BY <1>6 DEF escaped, Joined

\* The new form: the codepoint of the key, and its modifiers if it has any.
LEMMA DisambiguatedForm ==
  ASSUME Input!InputAssumption, NEW key \in Input!Keys
  PROVE  LET sent_ == Input!Disambiguated(key)
             point == Input!Codepoint[key.code]
         IN  IF key.code \in DOMAIN Input!Codepoint /\ (key.code = "Escape" \/ Input!Parameter(key) > 1)
             THEN /\ sent_ # None
                  /\ sent_ = IF Input!Parameter(key) = 1 THEN <<"esc", "[", point, "u">>
                             ELSE <<"esc", "[", point, ";", Input!Parameter(key), "u">>
             ELSE sent_ = None
PROOF
  <1> DEFINE point == Input!Codepoint[key.code]
             parameter == Input!Parameter(key)
             new == Input!Disambiguated(key)
  <1>1. CASE key.code \in DOMAIN Input!Codepoint /\ (key.code = "Escape" \/ parameter > 1)
    <2>1. new = <<"esc", "[", point>> \o (IF parameter = 1 THEN <<>> ELSE <<";", parameter>>) \o <<"u">>
      BY <1>1 DEF Input!Disambiguated
    <2>2. new = IF parameter = 1 THEN <<"esc", "[", point, "u">>
                ELSE <<"esc", "[", point, ";", parameter, "u">>
      <3> HIDE DEF new, point, parameter
      <3>1. /\ <<"esc", "[", point>> \o <<>> \o <<"u">> = <<"esc", "[", point, "u">>
            /\ <<"esc", "[", point>> \o <<";", parameter>> \o <<"u">> = <<"esc", "[", point, ";", parameter, "u">>
        BY ONLY JoinedThree, Zenon
      <3>2. CASE parameter = 1
        BY <2>1, <3>1, <3>2, Zenon
      <3>3. CASE parameter # 1
        BY <2>1, <3>1, <3>3, Zenon
      <3> QED
        BY <3>2, <3>3, Zenon
    <2>3. key.code \in DOMAIN Input!Codepoint /\ (parameter # 1 => parameter \in 2 .. 8)
      BY <1>1, ParameterOfKey
    <2> HIDE DEF parameter, new
    <2>4. /\ None # <<"esc", "[", point, "u">>
          /\ \A number \in 2 .. 8 : None # <<"esc", "[", point, ";", number, "u">>
      BY <2>3, Zenon DEF Input!InputAssumption
    <2> HIDE DEF point
    <2>5. new # None
      <3>1. CASE parameter = 1
        BY <2>2, <2>4, <3>1, Zenon
      <3>2. CASE parameter # 1
        BY <2>2, <2>3, <2>4, <3>2, Zenon
      <3> QED
        BY <3>1, <3>2
    <2> QED
      BY <1>1, <2>2, <2>5 DEF parameter, point, new
  <1>2. CASE ~(key.code \in DOMAIN Input!Codepoint /\ (key.code = "Escape" \/ parameter > 1))
    BY <1>2 DEF Input!Disambiguated
  <1> QED
    BY <1>1, <1>2

\* No other key is sent as a key in the new form is.
LEMMA NewIsNotOld ==
  ASSUME NEW new, NEW point, NEW parameter,
         new = <<"esc", "[", point, "u">> \/ new = <<"esc", "[", point, ";", parameter, "u">>
  PROVE  ~Old(new) /\ Len(new) # 2
PROOF
  <1>1. CASE new = <<"esc", "[", point, "u">>
    <2>1. Len(new) = 4 /\ new[Len(new)] = "u"
      BY <1>1
    <2>2. Len(new) # 1 /\ Len(new) # 2
      BY ONLY <2>1
    <2> QED
      BY <2>1, <2>2, Zenon DEF Old
  <1>2. CASE new = <<"esc", "[", point, ";", parameter, "u">>
    <2>1. Len(new) = 6 /\ new[Len(new)] = "u"
      BY <1>2
    <2>2. Len(new) # 1 /\ Len(new) # 2
      BY ONLY <2>1
    <2> QED
      BY <2>1, <2>2, Zenon DEF Old
  <1> QED
    BY <1>1, <1>2

LEMMA LegacyIsNotNew ==
  ASSUME NEW other \in Input!Keys, NEW m \in Input!Modes, NEW sent_, sent_ # None,
         Input!Disambiguated(other) = None, Input!EncodeKey(other, m) = sent_
  PROVE  Old(sent_) \/ Len(sent_) = 2
PROOF
  <1> DEFINE legacy == Input!Legacy(other, m.application)
             escaped == <<"esc">> \o legacy
  <1>1. m.application \in BOOLEAN
    BY DEF Input!Modes
  <1>2. sent_ = IF legacy # None /\ other.alt /\ other.code # "Escape" THEN escaped ELSE legacy
    BY DEF Input!EncodeKey
  <1>3. legacy # None => Old(legacy)
    BY <1>1, LegacyIsOld
  <1> HIDE DEF legacy
  <1>4. legacy # None => Old(escaped) \/ Len(escaped) = 2
    <2>1. legacy # None => legacy # <<>>
      BY <1>3 DEF Old
    <2> QED
      BY <1>3, <2>1, EscapedIsOld
  <1> HIDE DEF escaped
  <1> QED
    BY <1>2, <1>3, <1>4

LEMMA KeysDiffer ==
  ASSUME Input!InputAssumption, NEW key \in Input!Keys, NEW other \in Input!Keys, NEW m \in Input!Modes,
         m.disambiguate, Input!Disambiguated(key) # None,
         Input!EncodeKey(other, m) = Input!EncodeKey(key, m)
  PROVE  other = key
PROOF
  <1> DEFINE new == Input!Disambiguated(key)
             old == Input!Disambiguated(other)
             point == Input!Codepoint[key.code]
             point_ == Input!Codepoint[other.code]
             parameter == Input!Parameter(key)
             parameter_ == Input!Parameter(other)
  <1>1. Input!EncodeKey(key, m) = new
    BY DEF Input!EncodeKey
  <1>2. /\ key.code \in DOMAIN Input!Codepoint
        /\ new = IF parameter = 1 THEN <<"esc", "[", point, "u">>
                 ELSE <<"esc", "[", point, ";", parameter, "u">>
    BY DisambiguatedForm
  <1>3. ~Old(new) /\ Len(new) # 2
    <2> HIDE DEF new, parameter, point
    <2> QED
      BY <1>2, NewIsNotOld
  <1>4. old # None
    BY <1>1, <1>3, LegacyIsNotNew
  <1>5. Input!EncodeKey(other, m) = old
    BY <1>4 DEF Input!EncodeKey
  <1>6. /\ other.code \in DOMAIN Input!Codepoint
        /\ old = IF parameter_ = 1 THEN <<"esc", "[", point_, "u">>
                 ELSE <<"esc", "[", point_, ";", parameter_, "u">>
    BY <1>4, DisambiguatedForm
  <1>7. point_ = point /\ parameter_ = parameter
    <2>1. old = new
      BY <1>1, <1>5
    <2> HIDE DEF new, old, parameter, point, parameter_, point_
    <2>2. CASE parameter = 1
      <3>1. new = <<"esc", "[", point, "u">>
        BY <1>2, <2>2
      <3>2. Len(new) = 4 /\ new[3] = point
        BY <3>1
      <3>3. parameter_ = 1
        <4>1. ASSUME parameter_ # 1 PROVE FALSE
          <5>1. old = <<"esc", "[", point_, ";", parameter_, "u">>
            BY <1>6, <4>1
          <5>2. Len(old) = 6
            BY <5>1
          <5> QED
            BY <2>1, <3>2, <5>2
        <4> QED
          BY <4>1
      <3>4. old = <<"esc", "[", point_, "u">>
        BY <1>6, <3>3
      <3>5. old[3] = point_
        BY <3>4
      <3> QED
        BY <2>1, <2>2, <3>2, <3>3, <3>5
    <2>3. CASE parameter # 1
      <3>1. new = <<"esc", "[", point, ";", parameter, "u">>
        BY <1>2, <2>3
      <3>2. Len(new) = 6 /\ new[3] = point /\ new[5] = parameter
        BY <3>1
      <3>3. parameter_ # 1
        <4>1. ASSUME parameter_ = 1 PROVE FALSE
          <5>1. old = <<"esc", "[", point_, "u">>
            BY <1>6, <4>1
          <5>2. Len(old) = 4
            BY <5>1
          <5> QED
            BY <2>1, <3>2, <5>2
        <4> QED
          BY <4>1
      <3>4. old = <<"esc", "[", point_, ";", parameter_, "u">>
        BY <1>6, <3>3
      <3>5. old[3] = point_ /\ old[5] = parameter_
        BY <3>4
      <3> QED
        BY <2>1, <3>2, <3>5
    <2> QED
      BY <2>2, <2>3
  <1>8. other.code = key.code
    BY <1>2, <1>6, <1>7, KeyTables
  <1>9. other.shift = key.shift /\ other.alt = key.alt /\ other.control = key.control
    BY <1>7, ParameterOfKey
  <1> QED
    BY <1>8, <1>9 DEF Input!Keys


\* The numbers of buttons and wheels, with what is added to them.
Base(mouse) ==
  CASE mouse.kind = "Moved" -> 35
    [] mouse.kind = "ScrollUp" -> 64
    [] mouse.kind = "ScrollDown" -> 65
    [] mouse.kind = "ScrollLeft" -> 66
    [] mouse.kind = "ScrollRight" -> 67
    [] OTHER -> (IF mouse.kind = "Drag" THEN 32 ELSE 0)
                + (IF mouse.button = "Left" THEN 0 ELSE IF mouse.button = "Middle" THEN 1 ELSE 2)

\* An event is of a button or of none, at a cell.
Pressed == {"Down", "Up", "Drag"}
Unpressed == {"Moved", "ScrollUp", "ScrollDown", "ScrollLeft", "ScrollRight"}
LEMMA Events ==
  ASSUME Input!InputAssumption, NEW e \in Input!Mice
  PROVE  /\ e.column \in Nat /\ e.row \in Nat /\ e.shift \in BOOLEAN
         /\ None \notin {"Left", "Middle", "Right"}
         /\ \/ e.kind \in Pressed /\ e.button \in {"Left", "Middle", "Right"}
            \/ e.kind \in Unpressed /\ e.button = None
PROOF
  <1>1. \A c \in Columns : c \in Nat
    BY DEF Input!InputAssumption
  <1>2. None \notin {"Left", "Middle", "Right"}
    BY DEF Input!InputAssumption, Input!Buttons
  <1>3. e.column \in Columns /\ e.row \in Columns /\ e.shift \in BOOLEAN
    BY DEF Input!Mice
  <1>4. \/ e.kind \in Pressed /\ e.button \in {"Left", "Middle", "Right"}
        \/ e.kind \in Unpressed /\ e.button = None
    BY DEF Input!Mice, Input!Buttons, Pressed, Unpressed
  <1> QED
    BY <1>1, <1>2, <1>3, <1>4

\* Two numbers are one when what they are sent as is.
LEMMA SameNumber ==
  ASSUME NEW a \in Nat, NEW b \in Nat
  PROVE  /\ a + 1 = b + 1 => a = b
         /\ a + 1 + 32 = b + 1 + 32 => a = b
         /\ a + 1 <= 223 /\ b + 1 <= 223 /\ (a + 1 + 32) % 256 = (b + 1 + 32) % 256 => a = b
PROOF
  OBVIOUS

LEMMA ButtonCodes ==
  ASSUME Input!InputAssumption, NEW mouse \in Input!Mice
  PROVE  Input!ButtonCode(mouse) = Base(mouse) + IF mouse.shift THEN 4 ELSE 0
PROOF
  <1>1. CASE mouse.button = None
    <2>1. mouse.kind \in {"Moved", "ScrollUp", "ScrollDown", "ScrollLeft", "ScrollRight"}
      BY <1>1, Events DEF Pressed, Unpressed
    <2>2. Input!ButtonCode(mouse) =
            [Moved |-> 3, ScrollUp |-> 64, ScrollDown |-> 65, ScrollLeft |-> 66, ScrollRight |-> 67][mouse.kind]
            + (IF mouse.kind = "Moved" THEN 32 ELSE 0) + IF mouse.shift THEN 4 ELSE 0
      BY <1>1, <2>1 DEF Input!ButtonCode, Input!Bit
    <2> QED
      BY <2>1, <2>2 DEF Base
  <1>2. CASE mouse.button # None
    <2>1. mouse.kind \in {"Down", "Up", "Drag"} /\ mouse.button \in {"Left", "Middle", "Right"}
      BY <1>2, Events DEF Pressed
    <2>2. Input!ButtonCode(mouse) =
            [Left |-> 0, Middle |-> 1, Right |-> 2][mouse.button]
            + (IF mouse.kind = "Drag" THEN 32 ELSE 0) + IF mouse.shift THEN 4 ELSE 0
      BY <1>2, <2>1 DEF Input!ButtonCode, Input!Bit
    <2> QED
      BY <2>1, <2>2 DEF Base
  <1> QED
    BY <1>1, <1>2

\* A number of a button is of one kind of event, but for a release, which SGR marks.
LEMMA SameButton ==
  ASSUME NEW e, NEW f, None \notin {"Left", "Middle", "Right"},
         e.shift \in BOOLEAN, f.shift \in BOOLEAN,
         \/ e.kind \in Pressed /\ e.button \in {"Left", "Middle", "Right"}
         \/ e.kind \in Unpressed /\ e.button = None,
         \/ f.kind \in Pressed /\ f.button \in {"Left", "Middle", "Right"}
         \/ f.kind \in Unpressed /\ f.button = None,
         f.kind = "Up" <=> e.kind = "Up",
         (Base(f) + IF f.shift THEN 4 ELSE 0) = Base(e) + IF e.shift THEN 4 ELSE 0
  PROVE  f.kind = e.kind /\ f.button = e.button /\ f.shift = e.shift
PROOF
  <1> DEFINE Numbered(x) ==
        \/ x.kind \in {"Down", "Up"} /\ x.button = "Left" /\ Base(x) = 0
        \/ x.kind \in {"Down", "Up"} /\ x.button = "Middle" /\ Base(x) = 1
        \/ x.kind \in {"Down", "Up"} /\ x.button = "Right" /\ Base(x) = 2
        \/ x.kind = "Drag" /\ x.button = "Left" /\ Base(x) = 32
        \/ x.kind = "Drag" /\ x.button = "Middle" /\ Base(x) = 33
        \/ x.kind = "Drag" /\ x.button = "Right" /\ Base(x) = 34
        \/ x.kind = "Moved" /\ x.button = None /\ Base(x) = 35
        \/ x.kind = "ScrollUp" /\ x.button = None /\ Base(x) = 64
        \/ x.kind = "ScrollDown" /\ x.button = None /\ Base(x) = 65
        \/ x.kind = "ScrollLeft" /\ x.button = None /\ Base(x) = 66
        \/ x.kind = "ScrollRight" /\ x.button = None /\ Base(x) = 67
  <1>1. Numbered(e)
    BY DEF Base, Pressed, Unpressed
  <1>2. Numbered(f)
    BY DEF Base, Pressed, Unpressed
  <1>3. Base(f) = Base(e) /\ f.shift = e.shift
    BY <1>1, <1>2
  <1> QED
    BY <1>1, <1>2, <1>3

\* What an event that is reported is sent as, in the encoding that is set.
LEMMA EncodedEvent ==
  ASSUME NEW m \in Input!Modes, NEW e \in Input!Mice, Input!EncodeMouse(e, m) # None
  PROVE  LET button == Input!ButtonCode(e)
             code == IF e.kind = "Up" THEN 3 ELSE button
         IN /\ m.encoding = "Sgr" =>
                 Input!EncodeMouse(e, m) = <<"esc", "[", "<", button, e.column + 1, e.row + 1,
                                             IF e.kind = "Up" THEN "m" ELSE "M">>
            /\ m.encoding = "Utf8" =>
                 Input!EncodeMouse(e, m) = <<"esc", "[", "M", code + 32, e.column + 1 + 32, e.row + 1 + 32>>
            /\ m.encoding = "Default" =>
                 /\ e.column + 1 <= 223 /\ e.row + 1 <= 223
                 /\ Input!EncodeMouse(e, m) = <<"esc", "[", "M", (code + 32) % 256,
                                                (e.column + 1 + 32) % 256, (e.row + 1 + 32) % 256>>
PROOF
  <1>1. Input!Reported(e, m.protocol)
    BY Zenon DEF Input!EncodeMouse
  <1>2. m.encoding = "Sgr" => m.encoding # "Utf8" /\ m.encoding # "Default"
    OBVIOUS
  <1>3. m.encoding = "Default" => m.encoding # "Utf8" /\ m.encoding # "Sgr"
    OBVIOUS
  <1>4. m.encoding = "Utf8" => m.encoding # "Sgr" /\ m.encoding # "Default"
    OBVIOUS
  <1> QED
    BY <1>1, <1>2, <1>3, <1>4 DEF Input!EncodeMouse, Input!FitsAByte

\* A cell is sent as no other, and in the SGR encoding an event as no other.
LEMMA CellsDiffer ==
  ASSUME Input!InputAssumption, NEW mouse \in Input!Mice, NEW other \in Input!Mice, NEW m \in Input!Modes,
         Input!EncodeMouse(mouse, m) # None, Input!EncodeMouse(other, m) = Input!EncodeMouse(mouse, m)
  PROVE  /\ other.column = mouse.column /\ other.row = mouse.row
         /\ m.encoding = "Sgr" => other = mouse
PROOF
  <1> DEFINE told == Input!EncodeMouse(mouse, m)
             told_ == Input!EncodeMouse(other, m)
             button == Input!ButtonCode(mouse)
             button_ == Input!ButtonCode(other)
             code == IF mouse.kind = "Up" THEN 3 ELSE button
             code_ == IF other.kind = "Up" THEN 3 ELSE button_
  <1>1. /\ mouse.column \in Nat /\ mouse.row \in Nat
        /\ other.column \in Nat /\ other.row \in Nat
    BY Events
  <1>2. m.encoding \in {"Default", "Utf8", "Sgr"}
    BY DEF Input!Modes
  <1>3. told_ = told /\ told_ # None /\ told # None
    OBVIOUS
  <1>4. /\ m.encoding = "Sgr" =>
             told = <<"esc", "[", "<", button, mouse.column + 1, mouse.row + 1,
                      IF mouse.kind = "Up" THEN "m" ELSE "M">>
        /\ m.encoding = "Utf8" =>
             told = <<"esc", "[", "M", code + 32, mouse.column + 1 + 32, mouse.row + 1 + 32>>
        /\ m.encoding = "Default" =>
             /\ mouse.column + 1 <= 223 /\ mouse.row + 1 <= 223
             /\ told = <<"esc", "[", "M", (code + 32) % 256,
                         (mouse.column + 1 + 32) % 256, (mouse.row + 1 + 32) % 256>>
    BY EncodedEvent
  <1>5. /\ m.encoding = "Sgr" =>
             told_ = <<"esc", "[", "<", button_, other.column + 1, other.row + 1,
                      IF other.kind = "Up" THEN "m" ELSE "M">>
        /\ m.encoding = "Utf8" =>
             told_ = <<"esc", "[", "M", code_ + 32, other.column + 1 + 32, other.row + 1 + 32>>
        /\ m.encoding = "Default" =>
             /\ other.column + 1 <= 223 /\ other.row + 1 <= 223
             /\ told_ = <<"esc", "[", "M", (code_ + 32) % 256,
                         (other.column + 1 + 32) % 256, (other.row + 1 + 32) % 256>>
    BY <1>3, EncodedEvent
  <1>6. /\ button = Base(mouse) + IF mouse.shift THEN 4 ELSE 0
        /\ button_ = Base(other) + IF other.shift THEN 4 ELSE 0
    BY ButtonCodes
  <1> HIDE DEF told, told_, button, button_, code, code_
  <1>7. CASE m.encoding = "Sgr"
    <2>1. /\ told[5] = mouse.column + 1 /\ told[6] = mouse.row + 1 /\ told[4] = button
          /\ told[7] = IF mouse.kind = "Up" THEN "m" ELSE "M"
      BY <1>4, <1>7
    <2>2. /\ told_[5] = other.column + 1 /\ told_[6] = other.row + 1 /\ told_[4] = button_
          /\ told_[7] = IF other.kind = "Up" THEN "m" ELSE "M"
      BY <1>5, <1>7
    <2>3. other.column = mouse.column /\ other.row = mouse.row
      <3>1. other.column + 1 = mouse.column + 1 /\ other.row + 1 = mouse.row + 1
        BY <1>3, <2>1, <2>2
      <3> QED
        BY <1>1, <3>1, SameNumber
    <2>4. button_ = button /\ (other.kind = "Up" <=> mouse.kind = "Up")
      BY <1>3, <2>1, <2>2
    <2>5. other.kind = mouse.kind /\ other.button = mouse.button /\ other.shift = mouse.shift
      <3>1. /\ button = Base(mouse) + IF mouse.shift THEN 4 ELSE 0
            /\ button = Base(other) + IF other.shift THEN 4 ELSE 0
        BY <1>6, <2>4
      <3>2. /\ mouse.shift \in BOOLEAN /\ other.shift \in BOOLEAN
            /\ None \notin {"Left", "Middle", "Right"}
            /\ \/ mouse.kind \in Pressed /\ mouse.button \in {"Left", "Middle", "Right"}
               \/ mouse.kind \in Unpressed /\ mouse.button = None
            /\ \/ other.kind \in Pressed /\ other.button \in {"Left", "Middle", "Right"}
               \/ other.kind \in Unpressed /\ other.button = None
        BY Events
      <3> QED
        BY ONLY <2>4, <3>1, <3>2, SameButton
    <2> QED
      BY <2>3, <2>5 DEF Input!Mice
  <1>8. CASE m.encoding = "Utf8"
    <2>1. told[5] = mouse.column + 1 + 32 /\ told[6] = mouse.row + 1 + 32
      BY <1>4, <1>8
    <2>2. told_[5] = other.column + 1 + 32 /\ told_[6] = other.row + 1 + 32
      BY <1>5, <1>8
    <2>3. other.column = mouse.column /\ other.row = mouse.row
      <3>1. other.column + 1 + 32 = mouse.column + 1 + 32 /\ other.row + 1 + 32 = mouse.row + 1 + 32
        BY <1>3, <2>1, <2>2
      <3> QED
        BY <1>1, <3>1, SameNumber
    <2> QED
      BY <1>8, <2>3
  <1>9. CASE m.encoding = "Default"
    <2>1. /\ told[5] = (mouse.column + 1 + 32) % 256 /\ told[6] = (mouse.row + 1 + 32) % 256
          /\ mouse.column + 1 <= 223 /\ mouse.row + 1 <= 223
      BY <1>4, <1>9
    <2>2. /\ told_[5] = (other.column + 1 + 32) % 256 /\ told_[6] = (other.row + 1 + 32) % 256
          /\ other.column + 1 <= 223 /\ other.row + 1 <= 223
      BY <1>5, <1>9
    <2>3. other.column = mouse.column /\ other.row = mouse.row
      <3>1. /\ (other.column + 1 + 32) % 256 = (mouse.column + 1 + 32) % 256
            /\ (other.row + 1 + 32) % 256 = (mouse.row + 1 + 32) % 256
        BY <1>3, <2>1, <2>2
      <3> QED
        BY <1>1, <2>1, <2>2, <3>1, SameNumber
    <2> QED
      BY <1>9, <2>3
  <1> QED
    BY <1>2, <1>7, <1>8, <1>9

\* Kinds of events have fields of their own.
LEMMA FieldsOfEvents ==
  /\ \A key \in Input!Keys : "row" \notin DOMAIN key
  /\ \A mouse \in Input!Mice : "code" \notin DOMAIN mouse
  /\ "row" \notin DOMAIN [text |-> "text"] /\ "code" \notin DOMAIN [text |-> "text"]
PROOF
  BY DEF Input!Keys, Input!Mice

LEMMA InputStarts ==
  ASSUME Input!Init
  PROVE  InputInv
PROOF
  BY DEF Input!Init, InputInv, Input!Modes

LEMMA InputSteps ==
  ASSUME InputInv, Input!Next \/ UNCHANGED inputVars
  PROVE  InputInv'
PROOF
  <1>1. ASSUME NEW key \in Input!Keys, Input!Key(key)
        PROVE  InputInv'
    <2>1. event' = key /\ bytes' = Input!EncodeKey(key, input) /\ input' = input
      BY <1>1 DEF Input!Key, Input!Send
    <2> QED
      BY <2>1 DEF InputInv
  <1>2. ASSUME NEW mouse \in Input!Mice, Input!Mouse(mouse)
        PROVE  InputInv'
    <2>1. event' = mouse /\ bytes' = Input!EncodeMouse(mouse, input) /\ input' = input
      BY <1>2 DEF Input!Mouse, Input!Send
    <2> QED
      BY <2>1 DEF InputInv
  <1>3. CASE Input!Paste
    BY <1>3 DEF Input!Paste, Input!Send, InputInv
  <1>4. CASE Input!Take
    BY <1>4 DEF Input!Take, InputInv
  <1>5. ASSUME NEW m \in Input!Modes, Input!SetModes(m)
        PROVE  InputInv'
    BY <1>5 DEF Input!SetModes, InputInv
  <1>6. CASE UNCHANGED inputVars
    BY <1>6 DEF inputVars, InputInv
  <1> QED
    BY <1>1, <1>2, <1>3, <1>4, <1>5, <1>6 DEF Input!Next

LEMMA InputIsToldApart ==
  ASSUME Input!InputAssumption, InputInv
  PROVE  Input!TypeOK /\ Input!KeysAreToldApart /\ Input!CellsAreToldApart
PROOF
  <1>1. Input!IsKey => event \in Input!Keys /\ bytes = Input!EncodeKey(event, input)
    BY FieldsOfEvents DEF InputInv, Input!IsKey
  <1>2. Input!IsMouse => event \in Input!Mice /\ bytes = Input!EncodeMouse(event, input)
    BY FieldsOfEvents DEF InputInv, Input!IsMouse
  <1>3. Input!TypeOK
    <2>1. \A key \in Input!Keys : "code" \in DOMAIN key
      BY DEF Input!Keys
    <2>2. \A mouse \in Input!Mice : "row" \in DOMAIN mouse
      BY DEF Input!Mice
    <2> QED
      BY <2>1, <2>2 DEF InputInv, Input!TypeOK, Input!IsKey, Input!IsMouse
  <1>4. Input!KeysAreToldApart
    <2>1. SUFFICES
            ASSUME Input!IsKey, input.disambiguate,
                   \/ event.code = "Escape"
                   \/ event.code \in {"Enter", "Tab", "Backspace"} /\ Input!Parameter(event) > 1,
                   NEW other \in Input!Keys, Input!EncodeKey(other, input) = bytes
            PROVE  other = event
      BY DEF Input!KeysAreToldApart
    <2>2. event \in Input!Keys /\ input \in Input!Modes
          /\ Input!EncodeKey(other, input) = Input!EncodeKey(event, input)
      BY <1>1, <2>1 DEF InputInv
    <2>3. Input!Disambiguated(event) # None
      <3>1. event.code \in DOMAIN Input!Codepoint /\ (event.code = "Escape" \/ Input!Parameter(event) > 1)
        BY <2>1, KeyTables
      <3> QED
        BY <2>2, <3>1, DisambiguatedForm
    <2> QED
      BY <2>1, <2>2, <2>3, KeysDiffer
  <1>5. Input!CellsAreToldApart
    <2>1. SUFFICES
            ASSUME Input!IsMouse, bytes # None,
                   NEW other \in Input!Mice, Input!EncodeMouse(other, input) = bytes
            PROVE  /\ other.column = event.column /\ other.row = event.row
                   /\ input.encoding = "Sgr" => other = event
      BY Zenon DEF Input!CellsAreToldApart
    <2>2. event \in Input!Mice /\ input \in Input!Modes /\ Input!EncodeMouse(event, input) # None
          /\ Input!EncodeMouse(other, input) = Input!EncodeMouse(event, input)
      BY <1>2, <2>1 DEF InputInv
    <2> QED
      BY <2>1, <2>2, CellsDiffer, Zenon
  <1> QED
    BY <1>3, <1>4, <1>5

-----------------------------------------------------------------------------
LEMMA LeastNatural ==
  ASSUME NEW T \in SUBSET Nat, T # {}
  PROVE  \E n \in T : \A m \in T : n <= m
PROOF
  <1>1. PICK n \in T : \A m \in T : <<m, n>> \notin OpToRel(<, Nat)
    BY NatLessThanWellFounded, WFMin, Zenon
  <1>2. \A m \in T : ~(m < n)
    BY <1>1, Zenon DEF OpToRel
  <1> QED
    BY <1>2

-----------------------------------------------------------------------------
\* Sequences one after the other, each of one element or each of three.

\* What FlattenSeq makes of the first sequences, and of one more.
Grown(seqs, n, f) == f = [i \in 1 .. n |-> IF i = 1 THEN seqs[i] ELSE f[i - 1] \o seqs[i]]
LEMMA OneMoreGrows ==
  ASSUME NEW seqs, NEW f, NEW n \in Nat \ {0}, Grown(seqs, n, f)
  PROVE  \E g : Grown(seqs, n + 1, g)
PROOF
  <1> DEFINE g == [i \in 1 .. n + 1 |-> IF i <= n THEN f[i] ELSE f[n] \o seqs[n + 1]]
             h == [i \in 1 .. n + 1 |-> IF i = 1 THEN seqs[i] ELSE g[i - 1] \o seqs[i]]
  <1>1. ASSUME NEW i \in 1 .. n + 1
        PROVE  g[i] = h[i]
    <2>1. CASE i = n + 1
      BY <2>1
    <2>2. CASE i # n + 1
      <3>1. i \in 1 .. n /\ g[i] = f[i] /\ (i # 1 => g[i - 1] = f[i - 1])
        BY <2>2
      <3>2. f[i] = IF i = 1 THEN seqs[i] ELSE f[i - 1] \o seqs[i]
        BY <3>1 DEF Grown
      <3> QED
        BY <3>1, <3>2
    <2> QED
      BY <2>1, <2>2
  <1> HIDE DEF h
  <1>2. g = h
    BY <1>1 DEF h
  <1>3. Grown(seqs, n + 1, g)
    BY <1>2 DEF Grown, h
  <1> QED
    BY <1>3

LEMMA AllGrow ==
  ASSUME NEW seqs, NEW n \in Nat \ {0}
  PROVE  \E f : Grown(seqs, n, f)
PROOF
  <1> DEFINE T == {m \in Nat \ {0} : ~\E f : Grown(seqs, m, f)}
  <1>1. ASSUME T # {} PROVE FALSE
    <2>1. PICK m \in T : \A k \in T : m <= k
      BY <1>1, LeastNatural
    <2>2. m # 1
      <3>1. Grown(seqs, 1, [i \in 1 .. 1 |-> seqs[i]])
        BY DEF Grown
      <3> QED
        BY <3>1
    <2>3. m - 1 \in Nat \ {0} /\ m - 1 \notin T
      BY <2>1, <2>2
    <2>4. PICK f : Grown(seqs, m - 1, f)
      BY <2>3
    <2>5. \E f_ : Grown(seqs, m - 1 + 1, f_)
      BY <2>3, <2>4, OneMoreGrows
    <2>6. m - 1 + 1 = m
      BY <2>1
    <2> QED
      BY <2>1, <2>5, <2>6
  <1> QED
    BY <1>1

LEMMA ByThree ==
  ASSUME NEW k \in Nat, NEW r \in Nat, 3 * k <= r, r < 3 * k + 3
  PROVE  r \div 3 = k /\ r % 3 = r - 3 * k
PROOF
  OBVIOUS

LEMMA Flattened ==
  ASSUME NEW S, NEW h \in {1, 3}, NEW seqs \in Seq(Seq(S)), \A i \in 1 .. Len(seqs) : Len(seqs[i]) = h
  PROVE  LET flat == Drawing!FlattenSeq(seqs)
         IN  /\ flat \in Seq(S) /\ Len(flat) = Len(seqs) * h
             /\ \A r \in 0 .. Len(seqs) * h - 1 : flat[r + 1] = seqs[r \div h + 1][(r % h) + 1]
PROOF
  <1> DEFINE n == Len(seqs)
             flat == Drawing!FlattenSeq(seqs)
  <1>1. n \in Nat /\ \A i \in 1 .. n : seqs[i] \in Seq(S)
    BY LenProperties, ElementOfSeq
  <1>2. CASE n = 0
    <2>1. flat = seqs
      BY <1>2 DEF Drawing!FlattenSeq
    <2>2. flat = <<>>
      BY <1>2, <2>1, EmptySeq
    <2>3. <<>> \in Seq(S) /\ Len(<<>>) = 0
      OBVIOUS
    <2> HIDE DEF flat, n
    <2>4. n * h = 0
      BY <1>2
    <2>5. 0 .. n * h - 1 = {}
      BY <2>4
    <2> QED
      BY <2>2, <2>3, <2>4, <2>5 DEF flat, n
  <1>3. CASE n # 0
    <2> DEFINE f == CHOOSE f : Grown(seqs, n, f)
    <2>1. n \in Nat \ {0}
      BY <1>1, <1>3
    <2>2. Grown(seqs, n, f)
      <3>1. \E g : Grown(seqs, n, g)
        BY <2>1, AllGrow
      <3> QED
        BY <3>1
    <2>3. flat = f[n]
      BY <1>3 DEF Drawing!FlattenSeq, Grown
    <2> HIDE DEF f, flat
    <2> DEFINE Good(m) == /\ f[m] \in Seq(S) /\ Len(f[m]) = m * h
                          /\ \A r \in 0 .. m * h - 1 : f[m][r + 1] = seqs[r \div h + 1][(r % h) + 1]
               T == {m \in 1 .. n : ~Good(m)}
    <2> HIDE DEF Good
    <2>4. \A m \in 1 .. n : f[m] = IF m = 1 THEN seqs[m] ELSE f[m - 1] \o seqs[m]
      BY <2>2 DEF Grown
    <2>5. ASSUME T # {} PROVE FALSE
      <3>a. T \in SUBSET Nat /\ T \subseteq 1 .. n
        BY <1>1
      <3>1. PICK m \in T : \A k \in T : m <= k
        BY <2>5, <3>a, LeastNatural
      <3>b. m \in 1 .. n /\ ~Good(m)
        BY <3>1
      <3>2. CASE m = 1
        <4>1. f[1] = seqs[1] /\ seqs[1] \in Seq(S) /\ Len(seqs[1]) = h
          BY <1>1, <2>1, <2>4
        <4>2. ASSUME NEW r \in 0 .. h - 1
              PROVE  r \div h + 1 = 1 /\ (r % h) + 1 = r + 1
          <5>1. CASE h = 1
            BY <5>1
          <5>2. CASE h = 3
            BY <5>2
          <5> QED
            BY <5>1, <5>2
        <4>3. 1 * h = h
          OBVIOUS
        <4>4. Good(1)
          BY <4>1, <4>2, <4>3 DEF Good
        <4> QED
          BY <3>b, <3>2, <4>4
      <3>3. CASE m # 1
        <4> DEFINE before == f[m - 1]
                   more == seqs[m]
        <4>1. m \in 2 .. n /\ m - 1 \in 1 .. n
          BY <1>1, <3>b, <3>3
        <4>a. m - 1 \notin T
          BY <3>1, <4>1
        <4>2. Good(m - 1)
          BY <4>1, <4>a
        <4>3. /\ before \in Seq(S) /\ Len(before) = (m - 1) * h /\ more \in Seq(S) /\ Len(more) = h
              /\ \A r \in 0 .. (m - 1) * h - 1 : before[r + 1] = seqs[r \div h + 1][(r % h) + 1]
          BY <1>1, <4>1, <4>2 DEF Good
        <4>4. f[m] = Joined(before, more)
          <5>1. m \in 1 .. n /\ m # 1
            BY <4>1
          <5> QED
            BY <2>4, <5>1, Zenon DEF Joined
        <4> HIDE DEF before, more
        <4>5. /\ Joined(before, more) \in Seq(S) /\ Len(Joined(before, more)) = Len(before) + Len(more)
              /\ \A i \in 1 .. Len(before) + Len(more) :
                   Joined(before, more)[i] = IF i <= Len(before) THEN before[i] ELSE more[i - Len(before)]
          BY <4>3, JoinedParts, Zenon
        <4>6. (m - 1) * h \in Nat /\ m * h = (m - 1) * h + h
          <5>1. CASE h = 1
            BY <4>1, <5>1
          <5>2. CASE h = 3
            BY <4>1, <5>2
          <5> QED
            BY <5>1, <5>2
        <4>7. f[m] \in Seq(S) /\ Len(f[m]) = m * h
          BY <4>3, <4>4, <4>5, <4>6
        <4>8. ASSUME NEW r \in 0 .. m * h - 1
              PROVE  f[m][r + 1] = seqs[r \div h + 1][(r % h) + 1]
          <5>1. r \in Nat /\ r + 1 \in 1 .. Len(before) + Len(more)
            BY <4>3, <4>6
          <5>2. f[m][r + 1] = IF r + 1 <= (m - 1) * h THEN before[r + 1] ELSE more[r + 1 - (m - 1) * h]
            BY <4>3, <4>4, <4>5, <5>1
          <5>3. CASE r + 1 <= (m - 1) * h
            <6>1. r \in 0 .. (m - 1) * h - 1
              BY <4>6, <5>1, <5>3
            <6> QED
              BY <4>3, <5>2, <5>3, <6>1
          <5>4. CASE ~(r + 1 <= (m - 1) * h)
            <6>1. r \div h + 1 = m /\ (r % h) + 1 = r + 1 - (m - 1) * h
              <7>1. CASE h = 1
                BY <4>1, <4>6, <5>1, <5>4, <7>1
              <7>2. CASE h = 3
                <8>1. m - 1 \in Nat /\ 3 * (m - 1) <= r /\ r < 3 * (m - 1) + 3
                  BY <4>1, <4>6, <5>1, <5>4, <7>2
                <8>2. r \div 3 = m - 1 /\ r % 3 = r - 3 * (m - 1)
                  BY <5>1, <8>1, ByThree
                <8> QED
                  BY <4>1, <5>1, <7>2, <8>2
              <7> QED
                BY <7>1, <7>2
            <6> QED
              BY <5>2, <5>4, <6>1 DEF more
          <5> QED
            BY <5>3, <5>4
        <4>9. Good(m)
          BY <4>7, <4>8 DEF Good
        <4> QED
          BY <3>b, <4>9
      <3> QED
        BY <3>2, <3>3
    <2>6. n \in 1 .. n
      BY <2>1
    <2>7. Good(n)
      BY <2>5, <2>6
    <2> QED
      BY <2>3, <2>7 DEF flat, Good
  <1> QED
    BY <1>2, <1>3

LEMMA Listed ==
  ASSUME NEW S, NEW n \in Nat, NEW f \in [1 .. n -> S]
  PROVE  f \in Seq(S) /\ Len(f) = n
PROOF
  BY SeqDef

-----------------------------------------------------------------------------
\* What the client draws

\* The selected agent is one of the sidebar; a list that is never empty is not.
DrawingInv ==
  /\ Drawing!TypeOK
  /\ chosen < cards \/ chosen = 0
  /\ box.page \in {"NativeBrowser", "Sessions"} => box.rows > 0

LEMMA SidebarIs ==
  ASSUME Drawing!LayoutAssumption, DrawingInv
  PROVE  /\ cards \in Nat /\ rows \in Nat /\ chosen \in Nat /\ wide \in BOOLEAN /\ menu \in BOOLEAN
         /\ scroll \in Nat \/ scroll = -1
         /\ Drawing!CardHeight = (IF wide THEN 3 ELSE 1)
         /\ terminal \in Nat \X Nat /\ terminal[1] >= 80 /\ terminal[2] >= 24
         /\ Drawing!ListHeight = terminal[2] - 3 - (IF menu /\ wide THEN 7 ELSE 0)
         /\ cards = 0 => chosen = 0
         /\ chosen < cards \/ chosen = 0
PROOF
  <1>1. MaxCards \in Nat /\ MaxArchived \in Nat /\ Terminals \subseteq Nat \X Nat
        /\ \A s \in Terminals : 80 <= s[1] /\ 24 <= s[2]
    BY DEF Drawing!LayoutAssumption
  <1>2. /\ terminal \in Terminals /\ cards \in 0 .. MaxCards /\ rows \in 0 .. MaxArchived
        /\ chosen \in 0 .. Drawing!Minus(MaxCards, 1) /\ scroll \in Nat \cup {-1}
        /\ wide \in BOOLEAN /\ menu \in BOOLEAN
    BY DEF DrawingInv, Drawing!TypeOK, Drawing!Follow
  <1>3. terminal \in Nat \X Nat /\ terminal[1] >= 80 /\ terminal[2] >= 24
        /\ terminal[1] \in Nat /\ terminal[2] \in Nat
    BY <1>1, <1>2
  <1>4. Drawing!ListHeight = terminal[2] - 3 - (IF menu /\ wide THEN 7 ELSE 0)
    BY <1>3 DEF Drawing!ListHeight, Drawing!Minus, Drawing!MenuHeight
  <1>5. chosen \in Nat
    BY <1>1, <1>2 DEF Drawing!Minus
  <1>6. chosen < cards \/ chosen = 0
    BY DEF DrawingInv
  <1> QED
    BY <1>1, <1>2, <1>3, <1>4, <1>5, <1>6 DEF Drawing!CardHeight

\* The rows of the sidebar: those of the cards, the header, those below it.
ASide == [on : {"agent", "nothing"} \X Nat, button : BOOLEAN]
LEMMA SidebarRowsAre ==
  ASSUME Drawing!LayoutAssumption, DrawingInv
  PROVE  LET all == Drawing!SidebarRows
             h == Drawing!CardHeight
             active == cards * h
             header == IF rows > 0 /\ wide THEN 1 ELSE 0
         IN  /\ Len(all) = active + header + rows
             /\ \A c \in 0 .. active - 1 :
                  all[c + 1] = [on |-> <<"agent", c \div h>>, button |-> wide /\ c % h = 0]
             /\ header = 1 => all[active + 1] = Drawing!ArchivedHeader
             /\ \A j \in 0 .. rows - 1 :
                  all[active + header + j + 1] = [on |-> <<"agent", cards + j>>, button |-> FALSE]
PROOF
  <1> DEFINE h == Drawing!CardHeight
             active == cards * h
             header == IF rows > 0 /\ wide THEN 1 ELSE 0
             each == [i \in 1 .. cards |-> Drawing!CardRows(i - 1)]
             flat == Drawing!FlattenSeq(each)
             head_ == IF rows > 0 /\ wide THEN <<Drawing!ArchivedHeader>> ELSE <<>>
             below == [i \in 1 .. rows |-> Drawing!ArchivedRow(i - 1)]
             all == Drawing!SidebarRows
  <1>1. cards \in Nat /\ rows \in Nat /\ wide \in BOOLEAN /\ h = (IF wide THEN 3 ELSE 1) /\ h \in {1, 3}
    BY SidebarIs
  <1>2. ASSUME NEW i \in Nat
        PROVE  /\ Drawing!CardRows(i) \in Seq(ASide) /\ Len(Drawing!CardRows(i)) = h
               /\ \A k \in 1 .. h :
                    Drawing!CardRows(i)[k] = [on |-> <<"agent", i>>, button |-> wide /\ k = 1]
    <2>1. Drawing!CardRows(i) = [k \in 1 .. h |-> [on |-> <<"agent", i>>, button |-> wide /\ k = 1]]
      BY DEF Drawing!CardRows
    <2> HIDE DEF h
    <2>2. \A k \in 1 .. h : [on |-> <<"agent", i>>, button |-> wide /\ k = 1] \in ASide
      BY <1>1 DEF ASide
    <2>3. Drawing!CardRows(i) \in [1 .. h -> ASide]
      BY <2>1, <2>2
    <2>4. h \in Nat
      BY <1>1
    <2>5. Drawing!CardRows(i) \in Seq(ASide) /\ Len(Drawing!CardRows(i)) = h
      BY <2>3, <2>4, Listed
    <2> QED
      BY <2>1, <2>5
  <1> HIDE DEF h
  <1>3. /\ each \in Seq(Seq(ASide)) /\ Len(each) = cards
        /\ \A i \in 1 .. cards : each[i] = Drawing!CardRows(i - 1)
    <2>1. \A i \in 1 .. cards : i - 1 \in Nat
      BY <1>1
    <2>2. each \in [1 .. cards -> Seq(ASide)]
      BY <1>2, <2>1
    <2>3. each \in Seq(Seq(ASide)) /\ Len(each) = cards
      BY <1>1, <2>2, Listed
    <2> QED
      BY <2>3
  <1> HIDE DEF each
  <1>4. /\ flat \in Seq(ASide) /\ Len(flat) = active
        /\ \A r \in 0 .. active - 1 : flat[r + 1] = each[r \div h + 1][(r % h) + 1]
    <2>1. \A i \in 1 .. Len(each) : Len(each[i]) = h
      <3>1. \A i \in 1 .. cards : i - 1 \in Nat
        BY <1>1
      <3> QED
        BY <1>2, <1>3, <3>1
    <2> QED
      BY <1>1, <1>3, <2>1, Flattened
  <1>5. ASSUME NEW c \in 0 .. active - 1
        PROVE  flat[c + 1] = [on |-> <<"agent", c \div h>>, button |-> wide /\ c % h = 0]
    <2>1. c \div h \in 0 .. cards - 1 /\ c % h \in 0 .. h - 1
      <3>1. CASE h = 1
        BY <1>1, <3>1
      <3>2. CASE h = 3
        BY <1>1, <3>2
      <3> QED
        BY <1>1, <3>1, <3>2
    <2> DEFINE i == c \div h
               k == c % h
    <2>2. i \in Nat /\ i + 1 \in 1 .. cards /\ i + 1 - 1 = i /\ k \in Nat /\ k + 1 \in 1 .. h
      BY <1>1, <2>1
    <2>3. flat[c + 1] = each[i + 1][k + 1]
      BY <1>4
    <2> HIDE DEF i, k, flat
    <2>4. each[i + 1] = Drawing!CardRows(i)
      BY <1>3, <2>2
    <2>5. flat[c + 1] = [on |-> <<"agent", i>>, button |-> wide /\ k + 1 = 1]
      BY <1>2, <2>2, <2>3, <2>4
    <2>6. k + 1 = 1 <=> k = 0
      BY <2>2
    <2> QED
      BY <2>5, <2>6 DEF i, k
  <1> HIDE DEF flat, active
  <1>6. active \in Nat
    BY <1>1 DEF active
  <1>7. /\ head_ \in Seq(ASide) /\ Len(head_) = header
        /\ header = 1 => head_[1] = Drawing!ArchivedHeader
    <2>1. Drawing!ArchivedHeader \in ASide
      BY DEF Drawing!ArchivedHeader, Drawing!Nothing, ASide
    <2> QED
      BY <2>1
  <1>8. header \in {0, 1}
    OBVIOUS
  <1>9. /\ below \in Seq(ASide) /\ Len(below) = rows
        /\ \A j \in 0 .. rows - 1 : below[j + 1] = [on |-> <<"agent", cards + j>>, button |-> FALSE]
    <2>1. \A i \in 1 .. rows :
            /\ below[i] = [on |-> <<"agent", cards + (i - 1)>>, button |-> FALSE]
            /\ below[i] \in ASide
      BY <1>1 DEF Drawing!ArchivedRow, ASide
    <2>2. below \in [1 .. rows -> ASide]
      BY <2>1
    <2>3. below \in Seq(ASide) /\ Len(below) = rows
      BY <1>1, <2>2, Listed
    <2> HIDE DEF below
    <2>4. ASSUME NEW j \in 0 .. rows - 1
          PROVE  below[j + 1] = [on |-> <<"agent", cards + j>>, button |-> FALSE]
      <3>1. j + 1 \in 1 .. rows /\ j + 1 - 1 = j
        BY <1>1
      <3> QED
        BY <2>1, <3>1
    <2> QED
      BY <2>3, <2>4
  <1>10. all = Joined(Joined(flat, head_), below)
    BY DEF Drawing!SidebarRows, Joined, flat, each
  <1> HIDE DEF head_, header, below, all
  <1> DEFINE top == Joined(flat, head_)
  <1>11. /\ top \in Seq(ASide) /\ Len(top) = Len(flat) + Len(head_)
         /\ \A i \in 1 .. Len(flat) + Len(head_) :
              top[i] = IF i <= Len(flat) THEN flat[i] ELSE head_[i - Len(flat)]
    BY <1>4, <1>7, JoinedParts, Zenon
  <1> HIDE DEF top
  <1>12. /\ Joined(top, below) \in Seq(ASide) /\ Len(Joined(top, below)) = Len(top) + Len(below)
         /\ \A i \in 1 .. Len(top) + Len(below) :
              Joined(top, below)[i] = IF i <= Len(top) THEN top[i] ELSE below[i - Len(top)]
    <2>1. top \in Seq(ASide) /\ below \in Seq(ASide)
      BY <1>9, <1>11
    <2> QED
      BY <2>1, JoinedParts
  <1>13. all = Joined(top, below)
    BY <1>10 DEF top
  <1>14. Len(all) = active + header + rows
    BY <1>4, <1>7, <1>9, <1>11, <1>12, <1>13
  <1>15. ASSUME NEW c \in 0 .. active - 1
         PROVE  all[c + 1] = flat[c + 1]
    <2>1. c + 1 \in 1 .. active /\ c + 1 <= active + header /\ c + 1 <= active + header + rows
      BY <1>1, <1>6, <1>8
    <2>2. all[c + 1] = top[c + 1]
      BY <1>1, <1>4, <1>6, <1>7, <1>8, <1>9, <1>11, <1>12, <1>13, <2>1
    <2>3. top[c + 1] = flat[c + 1]
      BY <1>4, <1>6, <1>7, <1>8, <1>11, <2>1
    <2> QED
      BY <2>2, <2>3
  <1>16. ASSUME header = 1
         PROVE  all[active + 1] = Drawing!ArchivedHeader
    <2>1. all[active + 1] = top[active + 1]
      BY <1>1, <1>4, <1>6, <1>7, <1>9, <1>11, <1>12, <1>13, <1>16
    <2>2. top[active + 1] = head_[1]
      BY <1>4, <1>6, <1>7, <1>11, <1>16
    <2> QED
      BY <1>7, <1>16, <2>1, <2>2
  <1>17. ASSUME NEW j \in 0 .. rows - 1
         PROVE  all[active + header + j + 1] = below[j + 1]
    <2> DEFINE i == active + header + j + 1
    <2>1. i \in 1 .. Len(top) + Len(below) /\ ~(i <= Len(top)) /\ i - Len(top) = j + 1
      BY <1>1, <1>4, <1>6, <1>7, <1>8, <1>9, <1>11
    <2> HIDE DEF i
    <2>2. all[i] = below[j + 1]
      BY <1>12, <1>13, <2>1
    <2> QED
      BY <2>2 DEF i
  <1> QED
    BY <1>5, <1>9, <1>14, <1>15, <1>16, <1>17 DEF all, active, h, header

LEMMA SidebarStarts ==
  ASSUME Drawing!LayoutAssumption, DrawingInv
  PROVE  /\ Drawing!RowStart \in Nat /\ Drawing!ContentHeight \in Nat /\ Drawing!ListHeight \in Nat
         /\ Drawing!RowStart > 0 => Drawing!RowStart + Drawing!ListHeight <= Drawing!ContentHeight
         /\ scroll = -1 /\ cards > 0 =>
              /\ Drawing!RowStart <= chosen * Drawing!CardHeight
              /\ (chosen + 1) * Drawing!CardHeight <= Drawing!RowStart + Drawing!ListHeight
PROOF
  <1> DEFINE h == Drawing!CardHeight
             height == Drawing!ListHeight
             content == Drawing!ContentHeight
             start == Drawing!RowStart
  <1>1. /\ cards \in Nat /\ rows \in Nat /\ chosen \in Nat /\ wide \in BOOLEAN
        /\ scroll \in Nat \/ scroll = -1
        /\ h = (IF wide THEN 3 ELSE 1)
        /\ height \in Nat /\ height >= h
        /\ cards > 0 => chosen < cards
    <2>1. /\ terminal[2] \in Nat /\ terminal[2] >= 24 /\ menu \in BOOLEAN /\ wide \in BOOLEAN
          /\ height = terminal[2] - 3 - (IF menu /\ wide THEN 7 ELSE 0)
      BY SidebarIs
    <2>2. h = (IF wide THEN 3 ELSE 1)
      BY SidebarIs
    <2>3. height \in Nat /\ height >= h
      BY <2>1, <2>2
    <2>4. cards \in Nat /\ rows \in Nat /\ chosen \in Nat /\ (scroll \in Nat \/ scroll = -1)
          /\ (chosen < cards \/ chosen = 0)
      BY SidebarIs
    <2> QED
      BY <2>1, <2>2, <2>3, <2>4
  <1>2. content = cards * h + (IF rows = 0 THEN 0 ELSE IF wide THEN rows + 1 ELSE rows)
    BY DEF Drawing!ContentHeight
  <1>3. start = LET following == Drawing!Minus(chosen * h, Drawing!Minus(height, h))
                IN  Drawing!Least(IF scroll = -1 THEN following ELSE scroll, Drawing!Minus(content, height))
    BY DEF Drawing!RowStart, Drawing!FollowingStart, Drawing!Follow
  <1> HIDE DEF h, height, content, start
  <1>4. CASE wide
    <2>1. h = 3 /\ content \in Nat /\ content >= cards * 3
      BY <1>1, <1>2, <1>4
    <2>2. /\ height \in Nat /\ height >= 3 /\ cards \in Nat /\ chosen \in Nat
          /\ (cards > 0 => chosen < cards) /\ (scroll \in Nat \/ scroll = -1)
      BY <1>1, <2>1
    <2>3. start = LET following == Drawing!Minus(chosen * 3, Drawing!Minus(height, 3))
                  IN  Drawing!Least(IF scroll = -1 THEN following ELSE scroll, Drawing!Minus(content, height))
      BY <1>3, <2>1
    <2> DEFINE following == Drawing!Minus(chosen * 3, Drawing!Minus(height, 3))
               most == Drawing!Minus(content, height)
               wanted == IF scroll = -1 THEN following ELSE scroll
    <2>4. /\ following \in Nat
          /\ following <= chosen * 3 /\ (chosen + 1) * 3 <= following + height
      BY <2>2 DEF Drawing!Minus
    <2>5. most \in Nat /\ (most > 0 => most + height = content) /\ content <= most + height
      BY <2>1, <2>2 DEF Drawing!Minus
    <2>6. start = IF wanted < most THEN wanted ELSE most
      BY <2>3 DEF Drawing!Least
    <2> HIDE DEF following, most
    <2>7. wanted \in Nat
      BY <2>2, <2>4
    <2>8. start \in Nat /\ (start > 0 => start + height <= content)
      <3> HIDE DEF wanted
      <3> QED
        BY <2>1, <2>2, <2>5, <2>6, <2>7
    <2>9. ASSUME scroll = -1, cards > 0
          PROVE  start <= chosen * 3 /\ (chosen + 1) * 3 <= start + height
      <3>1. (chosen + 1) * 3 <= content
        BY <2>1, <2>2, <2>9
      <3>2. start = IF following < most THEN following ELSE most
        BY <2>6, <2>9
      <3> QED
        BY <2>1, <2>2, <2>4, <2>5, <3>1, <3>2
    <2> QED
      BY <2>1, <2>2, <2>8, <2>9 DEF h, height, content, start
  <1>5. CASE ~wide
    <2>1. h = 1 /\ content \in Nat /\ content >= cards * 1
      BY <1>1, <1>2, <1>5
    <2>2. /\ height \in Nat /\ height >= 1 /\ cards \in Nat /\ chosen \in Nat
          /\ (cards > 0 => chosen < cards) /\ (scroll \in Nat \/ scroll = -1)
      BY <1>1, <2>1
    <2>3. start = LET following == Drawing!Minus(chosen * 1, Drawing!Minus(height, 1))
                  IN  Drawing!Least(IF scroll = -1 THEN following ELSE scroll, Drawing!Minus(content, height))
      BY <1>3, <2>1
    <2> DEFINE following == Drawing!Minus(chosen * 1, Drawing!Minus(height, 1))
               most == Drawing!Minus(content, height)
               wanted == IF scroll = -1 THEN following ELSE scroll
    <2>4. /\ following \in Nat
          /\ following <= chosen * 1 /\ (chosen + 1) * 1 <= following + height
      BY <2>2 DEF Drawing!Minus
    <2>5. most \in Nat /\ (most > 0 => most + height = content) /\ content <= most + height
      BY <2>1, <2>2 DEF Drawing!Minus
    <2>6. start = IF wanted < most THEN wanted ELSE most
      BY <2>3 DEF Drawing!Least
    <2> HIDE DEF following, most
    <2>7. wanted \in Nat
      BY <2>2, <2>4
    <2>8. start \in Nat /\ (start > 0 => start + height <= content)
      <3> HIDE DEF wanted
      <3> QED
        BY <2>1, <2>2, <2>5, <2>6, <2>7
    <2>9. ASSUME scroll = -1, cards > 0
          PROVE  start <= chosen * 1 /\ (chosen + 1) * 1 <= start + height
      <3>1. (chosen + 1) * 1 <= content
        BY <2>1, <2>2, <2>9
      <3>2. start = IF following < most THEN following ELSE most
        BY <2>6, <2>9
      <3> QED
        BY <2>1, <2>2, <2>4, <2>5, <3>1, <3>2
    <2> QED
      BY <2>1, <2>2, <2>8, <2>9 DEF h, height, content, start
  <1> QED
    BY <1>1, <1>4, <1>5

LEMMA SidebarIsClicked ==
  ASSUME Drawing!LayoutAssumption, DrawingInv
  PROVE  Drawing!SidebarClicksFollowTheRows /\ Drawing!SelectionIsVisible
PROOF
  <1>1. Drawing!SelectionIsVisible
    BY SidebarStarts DEF Drawing!SelectionIsVisible, Drawing!Follow
  <1>2. ASSUME NEW r \in 0 .. Drawing!ListHeight - 1
        PROVE  /\ Drawing!AgentItemAt(r) = Drawing!DrawnAt(r).on
               /\ Drawing!ArchiveButtonAt(r) = Drawing!DrawnAt(r).button
    <2> DEFINE all == Drawing!SidebarRows
               h == Drawing!CardHeight
               active == cards * h
               header == IF rows > 0 /\ wide THEN 1 ELSE 0
               content == Drawing!RowStart + r
               item == Drawing!AgentItemAt(r)
               button == Drawing!ArchiveButtonAt(r)
               drawn == Drawing!DrawnAt(r)
    <2>1. content \in Nat
      BY SidebarStarts
    <2>2. cards \in Nat /\ rows \in Nat /\ wide \in BOOLEAN /\ h = (IF wide THEN 3 ELSE 1)
      BY SidebarIs
    <2>3. /\ Len(all) = active + header + rows
          /\ \A c \in 0 .. active - 1 :
               all[c + 1] = [on |-> <<"agent", c \div h>>, button |-> wide /\ c % h = 0]
          /\ header = 1 => all[active + 1] = Drawing!ArchivedHeader
          /\ \A j \in 0 .. rows - 1 :
               all[active + header + j + 1] = [on |-> <<"agent", cards + j>>, button |-> FALSE]
      BY SidebarRowsAre
    <2>4. active \in Nat
      BY <2>2
    <2>5. drawn = IF content < Len(all) THEN all[content + 1] ELSE Drawing!ArchivedHeader
      BY DEF Drawing!DrawnAt
    <2>6. item = LET top == IF wide THEN 1 ELSE 0
                 IN  IF content < active THEN <<"agent", content \div h>>
                     ELSE IF content >= active + top /\ content - active - top < rows
                       THEN <<"agent", cards + content - active - top>>
                     ELSE Drawing!Nothing
      BY DEF Drawing!AgentItemAt
    <2>7. button = (wide /\ content < active /\ content % h = 0)
      BY DEF Drawing!ArchiveButtonAt
    <2>8. Drawing!ArchivedHeader.on = Drawing!Nothing /\ Drawing!ArchivedHeader.button = FALSE
      BY DEF Drawing!ArchivedHeader
    <2>13. header \in {0, 1}
      OBVIOUS
    <2> HIDE DEF all, h, active, content, item, button, drawn
    <2>9. CASE content < active
      <3>1. content \in 0 .. active - 1 /\ content < Len(all)
        BY <2>1, <2>2, <2>3, <2>4, <2>9
      <3>2. drawn = [on |-> <<"agent", content \div h>>, button |-> wide /\ content % h = 0]
        BY <2>3, <2>5, <3>1
      <3>3. item = <<"agent", content \div h>> /\ button = (wide /\ content % h = 0)
        BY <2>6, <2>7, <2>9
      <3> QED
        BY <3>2, <3>3 DEF item, button, drawn
    <2>10. CASE content >= active /\ content < active + header
      <3>1. header = 1 /\ wide /\ content = active /\ content < Len(all)
        BY <2>1, <2>2, <2>3, <2>4, <2>10
      <3>2. drawn = Drawing!ArchivedHeader
        BY <2>3, <2>5, <3>1
      <3>3. item = Drawing!Nothing
        BY <2>1, <2>2, <2>4, <2>6, <3>1
      <3>4. ~(content < active)
        BY <2>1, <2>4, <3>1
      <3>5. button = FALSE
        BY <2>7, <3>4, Zenon
      <3> QED
        BY <2>8, <3>2, <3>3, <3>5 DEF item, button, drawn
    <2>11. CASE content >= active + header /\ content < active + header + rows
      <3> DEFINE j == content - active - header
      <3>1. j \in 0 .. rows - 1 /\ content + 1 = active + header + j + 1 /\ content < Len(all)
            /\ header = (IF wide THEN 1 ELSE 0)
        BY <2>1, <2>2, <2>3, <2>4, <2>11
      <3>2. all[content + 1] = [on |-> <<"agent", cards + j>>, button |-> FALSE]
        BY <2>3, <3>1
      <3>3. drawn = [on |-> <<"agent", cards + j>>, button |-> FALSE]
        BY <2>5, <3>1, <3>2
      <3>4. ~(content < active)
        BY <2>1, <2>4, <2>11, <2>13
      <3>5. button = FALSE
        BY <2>7, <3>4, Zenon
      <3>6. item = <<"agent", cards + content - active - header>>
        BY <2>1, <2>2, <2>4, <2>6, <2>11, <3>1, <3>4
      <3>7. cards + content - active - header = cards + j
        BY <2>1, <2>2, <2>4, <2>13
      <3>8. item = <<"agent", cards + j>>
        BY <3>6, <3>7
      <3> HIDE DEF j
      <3>9. item = drawn.on /\ button = drawn.button
        BY <3>3, <3>5, <3>8
      <3> QED
        BY <3>9 DEF item, button, drawn
    <2>12. CASE content >= active + header + rows
      <3>1. ~(content < Len(all)) /\ ~(content < active)
        BY <2>1, <2>2, <2>3, <2>4, <2>12
      <3>2. drawn = Drawing!ArchivedHeader
        BY <2>5, <3>1
      <3>3. item = Drawing!Nothing
        BY <2>1, <2>2, <2>3, <2>4, <2>6, <2>12, <3>1
      <3>4. ~(content < active)
        BY <2>1, <2>4, <3>1
      <3>5. button = FALSE
        BY <2>7, <3>4, Zenon
      <3> QED
        BY <2>8, <3>2, <3>3, <3>5 DEF item, button, drawn
    <2> QED
      BY <2>1, <2>2, <2>4, <2>9, <2>10, <2>11, <2>12, <2>13
  <1> QED
    BY <1>1, <1>2 DEF Drawing!SidebarClicksFollowTheRows

-----------------------------------------------------------------------------
\* Dialogs

\* Rows of a dialog that no line of wraps are drawn one below the other.
Lines == [on : {"nothing", "hints", "field", "item", "browse", "tabs", "theme"} \X Nat, width : Nat]
LEMMA NothingWraps ==
  ASSUME NEW lines \in Seq(Lines), NEW w \in Nat, \A k \in DOMAIN lines : lines[k].width <= w
  PROVE  LET drawn == Drawing!Wrapped(lines, w)
         IN  Len(drawn) = Len(lines) /\ \A k \in 1 .. Len(lines) : drawn[k] = lines[k]
PROOF
  <1> DEFINE n == Len(lines)
             each == [k \in DOMAIN lines |->
                        IF lines[k].width > w THEN <<lines[k], lines[k]>> ELSE <<lines[k]>>]
             drawn == Drawing!Wrapped(lines, w)
  <1>1. n \in Nat /\ DOMAIN lines = 1 .. n /\ \A k \in 1 .. n : lines[k] \in Lines
    BY LenProperties, ElementOfSeq
  <1>2. ASSUME NEW k \in 1 .. n
        PROVE  each[k] = <<lines[k]>>
    <2>1. lines[k].width \in Nat /\ lines[k].width <= w
      BY <1>1 DEF Lines
    <2>2. ~(lines[k].width > w)
      BY <2>1
    <2> QED
      BY <1>1, <2>2
  <1>3. drawn = Drawing!FlattenSeq(each)
    BY DEF Drawing!Wrapped
  <1>4. DOMAIN each = 1 .. n /\ each = [k \in 1 .. n |-> each[k]]
    BY <1>1
  <1> HIDE DEF each, drawn, n
  <1>5. each \in Seq(Seq(Lines)) /\ Len(each) = n
    <2>1. \A k \in 1 .. n : <<lines[k]>> \in Seq(Lines)
      BY <1>1
    <2>2. each \in [1 .. n -> Seq(Lines)]
      BY <1>2, <1>4, <2>1
    <2> QED
      BY <1>1, <2>2, Listed
  <1>6. ASSUME NEW k \in 1 .. n
        PROVE  Len(each[k]) = 1
    <2>1. each[k] = <<lines[k]>>
      BY <1>2
    <2> QED
      BY <2>1
  <1>7. Len(drawn) = n * 1 /\ \A r \in 0 .. n * 1 - 1 : drawn[r + 1] = each[r \div 1 + 1][(r % 1) + 1]
    <2>1. 1 \in {1, 3} /\ \A k \in 1 .. Len(each) : Len(each[k]) = 1
      BY <1>5, <1>6
    <2> QED
      BY <1>3, <1>5, <2>1, Flattened
  <1>8. ASSUME NEW k \in 1 .. n
        PROVE  drawn[k] = lines[k]
    <2> DEFINE r == k - 1
    <2>1. r \in 0 .. n * 1 - 1 /\ r + 1 = k /\ r \div 1 + 1 = k /\ (r % 1) + 1 = 1
      BY <1>1
    <2>2. drawn[k] = each[k][1]
      BY <1>7, <2>1
    <2> QED
      BY <1>2, <2>2
  <1>9. Len(drawn) = n
    BY <1>1, <1>7
  <1> QED
    BY <1>8, <1>9 DEF n, drawn

\* A page whose rows answer for what they show, all inside the dialog.
Answers(lines, page) ==
  /\ lines \in Seq(Lines) /\ Len(lines) <= Drawing!Inner(page).h
  /\ \A n \in 0 .. Len(lines) - 1 : lines[n + 1].on = Drawing!Clicked(page, n)
LEMMA PageAgrees ==
  ASSUME NEW page, Drawing!Inner(page).w \in Nat, Drawing!Inner(page).h \in Nat,
         Answers(Drawing!Drawn(page), page), Drawing!Fits(page)
  PROVE  Drawing!Agree(page) /\ Len(Drawing!Drawn(page)) <= Drawing!Inner(page).h
PROOF
  <1> DEFINE lines == Drawing!Drawn(page)
             w == Drawing!Inner(page).w
             h == Drawing!Inner(page).h
             drawn == Drawing!Wrapped(lines, w)
  <1>1. lines \in Seq(Lines) /\ Len(lines) <= h /\ w \in Nat /\ h \in Nat
        /\ \A n \in 0 .. Len(lines) - 1 : lines[n + 1].on = Drawing!Clicked(page, n)
    BY DEF Answers
  <1>2. \A k \in DOMAIN lines : lines[k].width <= w
    BY DEF Drawing!Fits
  <1> HIDE DEF lines, w, h
  <1>3. Len(drawn) = Len(lines) /\ \A k \in 1 .. Len(lines) : drawn[k] = lines[k]
    BY <1>1, <1>2, NothingWraps
  <1> HIDE DEF drawn
  <1>4. Drawing!Least(Len(drawn), h) = Len(drawn)
    BY <1>1, <1>3 DEF Drawing!Least
  <1>5. ASSUME NEW k \in 1 .. Drawing!Least(Len(drawn), h)
        PROVE  drawn[k].on = Drawing!Clicked(page, k - 1)
    <2>1. Len(lines) \in Nat
      BY <1>1
    <2>2. k \in 1 .. Len(lines) /\ k - 1 \in 0 .. Len(lines) - 1 /\ k - 1 + 1 = k
      BY <1>3, <1>4, <2>1
    <2> QED
      BY <1>1, <1>3, <2>2
  <1> QED
    BY <1>1, <1>5 DEF Drawing!Agree, lines, w, h, drawn

\* The dialog that is shown, and the room it has.
LEMMA BoxIs ==
  ASSUME Drawing!LayoutAssumption, DrawingInv, box # Drawing!NoDialog
  PROVE  /\ box.page \in Drawing!Pages /\ box.rows \in Nat /\ box.at \in Nat /\ box.text \in Nat
         /\ box.at < box.rows \/ box.at = 0
         /\ box.page \in {"NativeBrowser", "Sessions"} => box.rows > 0
PROOF
  <1>1. MaxRows \in Nat /\ \A t \in Texts : t \in Nat
    BY DEF Drawing!LayoutAssumption
  <1>2. box \in Drawing!Dialogs
    BY DEF DrawingInv, Drawing!TypeOK
  <1>3. /\ box.page \in Drawing!Pages /\ box.rows \in 0 .. MaxRows /\ box.at \in 0 .. MaxRows
        /\ box.text \in Texts /\ (box.at < box.rows \/ box.at = 0)
    BY <1>2 DEF Drawing!Dialogs
  <1>4. box.page \in {"NativeBrowser", "Sessions"} => box.rows > 0
    BY DEF DrawingInv
  <1> QED
    BY <1>1, <1>3, <1>4

LEMMA RoomOf ==
  ASSUME Drawing!LayoutAssumption, DrawingInv
  PROVE  /\ Drawing!Compact.w \in Nat /\ Drawing!Compact.h \in Nat /\ Drawing!Compact.h >= 7
         /\ Drawing!Standard.w \in Nat /\ Drawing!Standard.h \in Nat /\ Drawing!Standard.h >= 10
         /\ Drawing!Large.w \in Nat /\ Drawing!Large.h \in Nat /\ Drawing!Large.h >= 20 /\ Drawing!Large.w >= 74
         /\ Drawing!Screen.w \in Nat /\ Drawing!Screen.h \in Nat /\ Drawing!Screen.h >= 22
PROOF
  <1>1. terminal[1] \in Nat /\ terminal[2] \in Nat /\ terminal[1] >= 80 /\ terminal[2] >= 24
    BY SidebarIs
  <1>2. Drawing!Compact.w \in Nat /\ Drawing!Compact.h \in Nat /\ Drawing!Compact.h >= 7
    BY <1>1 DEF Drawing!Compact
  <1>3. Drawing!Standard.w \in Nat /\ Drawing!Standard.h \in Nat /\ Drawing!Standard.h >= 10
    BY <1>1 DEF Drawing!Standard
  <1>4. Drawing!Large.w \in Nat /\ Drawing!Large.h \in Nat /\ Drawing!Large.h >= 20 /\ Drawing!Large.w >= 74
    BY <1>1 DEF Drawing!Large
  <1>5. Drawing!Screen.w \in Nat /\ Drawing!Screen.h \in Nat /\ Drawing!Screen.h >= 22
    BY <1>1 DEF Drawing!Screen
  <1> QED
    BY <1>2, <1>3, <1>4, <1>5

LEMMA LineIs ==
  ASSUME NEW name \in {"nothing", "hints", "field", "item", "browse", "tabs", "theme"}, NEW i \in Nat, NEW w \in Nat
  PROVE  Drawing!Row(<<name, i>>, w) \in Lines /\ Drawing!Row(<<name, i>>, w).on = <<name, i>>
PROOF
  BY DEF Drawing!Row, Lines

LEMMA LinesAre ==
  /\ Drawing!Blank \in Lines /\ Drawing!Blank.on = <<"nothing", 0>>
  /\ Drawing!Hints \in Lines /\ Drawing!Hints.on = <<"hints", 0>>
  /\ Drawing!Nothing = <<"nothing", 0>>
PROOF
  BY LineIs DEF Drawing!Blank, Drawing!Hints, Drawing!Nothing

LEMMA LeastIs ==
  ASSUME NEW a \in Nat, NEW b \in Nat
  PROVE  Drawing!Least(a, b) \in Nat /\ Drawing!Minus(a, b) \in Nat
PROOF
  BY DEF Drawing!Least, Drawing!Minus

LEMMA TextIs ==
  ASSUME Drawing!LayoutAssumption, DrawingInv, box # Drawing!NoDialog, NEW limit \in Nat
  PROVE  Drawing!Least(box.text, limit) \in Nat
PROOF
  <1>1. box.text \in Nat
    BY BoxIs
  <1> QED
    BY <1>1, LeastIs

\* A page of one list of rows.
LEMMA FormAnswers ==
  ASSUME Drawing!LayoutAssumption, DrawingInv, box # Drawing!NoDialog
  PROVE  Answers(Drawing!FormRows, "Form")
PROOF
  <1> DEFINE lines == Drawing!FormRows
  <1>1. \A i \in Nat : Drawing!Field(i) \in Lines /\ Drawing!Field(i).on = <<"field", i>>
    <2>1. 15 + Drawing!Least(box.text, 42) \in Nat
      BY TextIs
    <2> QED
      BY <2>1, LineIs DEF Drawing!Field
  <1>2. Drawing!Row(<<"field", 4>>, 0) \in Lines /\ Drawing!Row(<<"field", 4>>, 0).on = <<"field", 4>>
    BY LineIs
  <1>3. lines \in Seq(Lines) /\ Len(lines) = 7
    BY <1>1, <1>2, LinesAre DEF Drawing!FormRows
  <1>4. /\ lines[1].on = <<"nothing", 0>> /\ lines[2].on = <<"field", 1>> /\ lines[3].on = <<"field", 2>>
        /\ lines[4].on = <<"field", 3>> /\ lines[5].on = <<"field", 4>>
        /\ lines[6].on = <<"nothing", 0>> /\ lines[7].on = <<"hints", 0>>
    BY <1>1, <1>2, LinesAre DEF Drawing!FormRows
  <1>5. /\ Drawing!Clicked("Form", 0) = <<"nothing", 0>> /\ Drawing!Clicked("Form", 1) = <<"field", 1>>
        /\ Drawing!Clicked("Form", 2) = <<"field", 2>> /\ Drawing!Clicked("Form", 3) = <<"field", 3>>
        /\ Drawing!Clicked("Form", 4) = <<"field", 4>> /\ Drawing!Clicked("Form", 5) = <<"nothing", 0>>
        /\ Drawing!Clicked("Form", 6) = <<"hints", 0>>
    BY LinesAre DEF Drawing!Clicked, Drawing!NewAgentClick, Drawing!At
  <1> HIDE DEF lines
  <1>6. \A n \in 0 .. 6 : lines[n + 1].on = Drawing!Clicked("Form", n)
    BY <1>4, <1>5
  <1>7. Len(lines) <= Drawing!Inner("Form").h /\ Len(lines) - 1 = 6
    <2>1. Drawing!Inner("Form") = Drawing!Compact
      BY DEF Drawing!Inner
    <2> QED
      BY <1>3, <2>1, RoomOf
  <1> QED
    BY <1>3, <1>6, <1>7 DEF Answers, lines

\* Pages of a few rows.
LEMMA LocationAnswers ==
  ASSUME Drawing!LayoutAssumption, DrawingInv
  PROVE  Answers(Drawing!LocationRows, "Locations")
PROOF
  <1> DEFINE lines == Drawing!LocationRows
  <1>1. /\ Drawing!Item(0, 37) \in Lines /\ Drawing!Item(0, 37).on = <<"item", 0>>
        /\ Drawing!Item(1, 37) \in Lines /\ Drawing!Item(1, 37).on = <<"item", 1>>
    BY LineIs DEF Drawing!Item
  <1>2. lines \in Seq(Lines) /\ Len(lines) = 5
    BY <1>1, LinesAre DEF Drawing!LocationRows
  <1>3. /\ lines[1].on = <<"nothing", 0>> /\ lines[2].on = <<"item", 0>> /\ lines[3].on = <<"item", 1>>
        /\ lines[4].on = <<"nothing", 0>> /\ lines[5].on = <<"hints", 0>>
    BY <1>1, LinesAre DEF Drawing!LocationRows
  <1>4. /\ Drawing!Clicked("Locations", 0) = <<"nothing", 0>>
        /\ Drawing!Clicked("Locations", 1) = <<"item", 0>>
        /\ Drawing!Clicked("Locations", 2) = <<"item", 1>>
        /\ Drawing!Clicked("Locations", 3) = <<"nothing", 0>>
        /\ Drawing!Clicked("Locations", 4) = <<"hints", 0>>
    BY LinesAre DEF Drawing!Clicked, Drawing!NewAgentClick, Drawing!At
  <1> HIDE DEF lines
  <1>5. \A n \in 0 .. 4 : lines[n + 1].on = Drawing!Clicked("Locations", n)
    BY <1>3, <1>4
  <1>6. Len(lines) <= Drawing!Inner("Locations").h /\ Len(lines) - 1 = 4
    <2>1. Drawing!Inner("Locations") = Drawing!Compact
      BY DEF Drawing!Inner
    <2> QED
      BY <1>2, <2>1, RoomOf
  <1> QED
    BY <1>2, <1>5, <1>6 DEF Answers, lines

LEMMA CreatingAnswers ==
  ASSUME Drawing!LayoutAssumption, DrawingInv, box # Drawing!NoDialog
  PROVE  Answers(Drawing!CreatingRows, "CreatingWorktree")
PROOF
  <1> DEFINE lines == Drawing!CreatingRows
             title_ == Drawing!Row(Drawing!Nothing, 2 + Drawing!Least(box.text, 56))
  <1>1. title_ \in Lines /\ title_.on = <<"nothing", 0>>
    <2>1. 2 + Drawing!Least(box.text, 56) \in Nat
      BY TextIs
    <2> QED
      BY <2>1, LineIs DEF Drawing!Nothing
  <1> HIDE DEF title_
  <1>2. lines = <<Drawing!Blank, Drawing!Blank, title_, Drawing!Blank, Drawing!Hints>>
    BY DEF Drawing!CreatingRows, title_
  <1> HIDE DEF lines
  <1>3. lines \in Seq(Lines) /\ Len(lines) = 5
    BY <1>1, <1>2, LinesAre
  <1>4. /\ lines[1].on = <<"nothing", 0>> /\ lines[2].on = <<"nothing", 0>> /\ lines[3].on = <<"nothing", 0>>
        /\ lines[4].on = <<"nothing", 0>> /\ lines[5].on = <<"hints", 0>>
    BY <1>1, <1>2, LinesAre
  <1>5. /\ Drawing!Clicked("CreatingWorktree", 0) = <<"nothing", 0>>
        /\ Drawing!Clicked("CreatingWorktree", 1) = <<"nothing", 0>>
        /\ Drawing!Clicked("CreatingWorktree", 2) = <<"nothing", 0>>
        /\ Drawing!Clicked("CreatingWorktree", 3) = <<"nothing", 0>>
        /\ Drawing!Clicked("CreatingWorktree", 4) = <<"hints", 0>>
    BY LinesAre DEF Drawing!Clicked, Drawing!NewAgentClick, Drawing!At
  <1>6. \A n \in 0 .. 4 : lines[n + 1].on = Drawing!Clicked("CreatingWorktree", n)
    BY <1>4, <1>5
  <1>7. Len(lines) <= Drawing!Inner("CreatingWorktree").h /\ Len(lines) - 1 = 4
    <2>1. Drawing!Inner("CreatingWorktree") = Drawing!Compact
      BY DEF Drawing!Inner
    <2> QED
      BY <1>3, <2>1, RoomOf
  <1> QED
    BY <1>3, <1>6, <1>7 DEF Answers, lines

LEMMA PromptAnswers ==
  ASSUME Drawing!LayoutAssumption, DrawingInv, NEW w \in Nat,
         NEW page \in {"ConfirmClose", "ConfirmArchive", "ArchiveUnavailable", "ConfirmResume"}
  PROVE  Answers(Drawing!Prompt(w), page)
PROOF
  <1> DEFINE lines == Drawing!Prompt(w)
             title_ == Drawing!Row(Drawing!Nothing, w)
  <1>1. title_ \in Lines /\ title_.on = <<"nothing", 0>>
    BY LineIs DEF Drawing!Nothing
  <1> HIDE DEF title_
  <1>2. lines = <<Drawing!Blank, title_, Drawing!Blank, Drawing!Hints>>
    BY DEF Drawing!Prompt, title_
  <1> HIDE DEF lines
  <1>3. lines \in Seq(Lines) /\ Len(lines) = 4
    BY <1>1, <1>2, LinesAre
  <1>4. /\ lines[1].on = <<"nothing", 0>> /\ lines[2].on = <<"nothing", 0>>
        /\ lines[3].on = <<"nothing", 0>> /\ lines[4].on = <<"hints", 0>>
    BY <1>1, <1>2, LinesAre
  <1>5. \A n : Drawing!Clicked(page, n) = Drawing!At(n, 3, Drawing!Hints.on)
    BY DEF Drawing!Clicked, Drawing!ConfirmationClick
  <1>6. /\ Drawing!Clicked(page, 0) = <<"nothing", 0>> /\ Drawing!Clicked(page, 1) = <<"nothing", 0>>
        /\ Drawing!Clicked(page, 2) = <<"nothing", 0>> /\ Drawing!Clicked(page, 3) = <<"hints", 0>>
    BY <1>5, LinesAre DEF Drawing!At
  <1>7. \A n \in 0 .. 3 : lines[n + 1].on = Drawing!Clicked(page, n)
    BY <1>4, <1>6
  <1>8. Len(lines) <= Drawing!Inner(page).h /\ Len(lines) - 1 = 3
    <2>1. Drawing!Inner(page) = IF page = "ArchiveUnavailable" THEN Drawing!Compact ELSE Drawing!Standard
      BY DEF Drawing!Inner
    <2> QED
      BY <1>3, <2>1, RoomOf
  <1> QED
    BY <1>3, <1>7, <1>8 DEF Answers, lines

LEMMA StopAnswers ==
  ASSUME Drawing!LayoutAssumption, DrawingInv
  PROVE  Answers(Drawing!StopRows, "ConfirmQuit")
PROOF
  <1> DEFINE lines == Drawing!StopRows
  <1>1. \A w \in Nat : Drawing!Row(Drawing!Nothing, w) \in Lines
                       /\ Drawing!Row(Drawing!Nothing, w).on = <<"nothing", 0>>
    BY LineIs DEF Drawing!Nothing
  <1>2. lines \in Seq(Lines) /\ Len(lines) = 5
    BY <1>1, LinesAre DEF Drawing!StopRows
  <1>3. /\ lines[1].on = <<"nothing", 0>> /\ lines[2].on = <<"nothing", 0>> /\ lines[3].on = <<"nothing", 0>>
        /\ lines[4].on = <<"nothing", 0>> /\ lines[5].on = <<"hints", 0>>
    BY <1>1, LinesAre DEF Drawing!StopRows
  <1>4. \A n : Drawing!Clicked("ConfirmQuit", n) = Drawing!At(n, 4, Drawing!Hints.on)
    BY DEF Drawing!Clicked, Drawing!ConfirmationClick
  <1>5. /\ Drawing!Clicked("ConfirmQuit", 0) = <<"nothing", 0>>
        /\ Drawing!Clicked("ConfirmQuit", 1) = <<"nothing", 0>>
        /\ Drawing!Clicked("ConfirmQuit", 2) = <<"nothing", 0>>
        /\ Drawing!Clicked("ConfirmQuit", 3) = <<"nothing", 0>>
        /\ Drawing!Clicked("ConfirmQuit", 4) = <<"hints", 0>>
    BY <1>4, LinesAre DEF Drawing!At
  <1> HIDE DEF lines
  <1>6. \A n \in 0 .. 4 : lines[n + 1].on = Drawing!Clicked("ConfirmQuit", n)
    BY <1>3, <1>5
  <1>7. Len(lines) <= Drawing!Inner("ConfirmQuit").h /\ Len(lines) - 1 = 4
    <2>1. Drawing!Inner("ConfirmQuit") = Drawing!Standard
      BY DEF Drawing!Inner
    <2> QED
      BY <1>2, <2>1, RoomOf
  <1> QED
    BY <1>2, <1>6, <1>7 DEF Answers, lines

\* Where the rows of a page are that is put together.
LEMMA PlacedTwo ==
  ASSUME NEW S, NEW a \in Seq(S), NEW b \in Seq(S)
  PROVE  LET all == a \o b
         IN  /\ all \in Seq(S) /\ Len(all) = Len(a) + Len(b)
             /\ \A n \in 0 .. Len(a) + Len(b) - 1 :
                  all[n + 1] = IF n < Len(a) THEN a[n + 1] ELSE b[n - Len(a) + 1]
PROOF
  <1> DEFINE all == Joined(a, b)
  <1>1. Len(a) \in Nat /\ Len(b) \in Nat
    OBVIOUS
  <1>2. /\ all \in Seq(S) /\ Len(all) = Len(a) + Len(b)
        /\ \A i \in 1 .. Len(a) + Len(b) : all[i] = IF i <= Len(a) THEN a[i] ELSE b[i - Len(a)]
    BY JoinedParts
  <1> HIDE DEF all
  <1>3. ASSUME NEW n \in 0 .. Len(a) + Len(b) - 1
        PROVE  all[n + 1] = IF n < Len(a) THEN a[n + 1] ELSE b[n - Len(a) + 1]
    <2>1. n + 1 \in 1 .. Len(a) + Len(b) /\ (n < Len(a) <=> n + 1 <= Len(a))
          /\ n + 1 - Len(a) = n - Len(a) + 1
      BY <1>1
    <2> QED
      BY <1>2, <2>1
  <1> QED
    BY <1>2, <1>3 DEF all, Joined

LEMMA PlacedThree ==
  ASSUME NEW S, NEW a \in Seq(S), NEW b \in Seq(S), NEW c \in Seq(S)
  PROVE  LET all == a \o b \o c
         IN  /\ all \in Seq(S) /\ Len(all) = Len(a) + Len(b) + Len(c)
             /\ \A n \in 0 .. Len(a) + Len(b) + Len(c) - 1 :
                  all[n + 1] = IF n < Len(a) THEN a[n + 1]
                               ELSE IF n < Len(a) + Len(b) THEN b[n - Len(a) + 1]
                               ELSE c[n - Len(a) - Len(b) + 1]
PROOF
  <1> DEFINE top == a \o b
             all == top \o c
  <1>1. Len(a) \in Nat /\ Len(b) \in Nat /\ Len(c) \in Nat
    OBVIOUS
  <1>2. /\ top \in Seq(S) /\ Len(top) = Len(a) + Len(b)
        /\ \A n \in 0 .. Len(a) + Len(b) - 1 :
             top[n + 1] = IF n < Len(a) THEN a[n + 1] ELSE b[n - Len(a) + 1]
    BY PlacedTwo
  <1> HIDE DEF top
  <1>3. /\ all \in Seq(S) /\ Len(all) = Len(top) + Len(c)
        /\ \A n \in 0 .. Len(top) + Len(c) - 1 :
             all[n + 1] = IF n < Len(top) THEN top[n + 1] ELSE c[n - Len(top) + 1]
    <2>1. top \in Seq(S)
      BY <1>2
    <2> QED
      BY <2>1, PlacedTwo
  <1> HIDE DEF all
  <1>4. ASSUME NEW n \in 0 .. Len(a) + Len(b) + Len(c) - 1
        PROVE  all[n + 1] = IF n < Len(a) THEN a[n + 1]
                            ELSE IF n < Len(a) + Len(b) THEN b[n - Len(a) + 1]
                            ELSE c[n - Len(a) - Len(b) + 1]
    <2>1. n \in 0 .. Len(top) + Len(c) - 1 /\ (n < Len(top) <=> n < Len(a) + Len(b))
          /\ n - Len(top) + 1 = n - Len(a) - Len(b) + 1
      BY <1>1, <1>2
    <2>2. all[n + 1] = IF n < Len(top) THEN top[n + 1] ELSE c[n - Len(top) + 1]
      BY <1>3, <2>1
    <2>3. CASE n < Len(a) + Len(b)
      <3>1. n \in 0 .. Len(a) + Len(b) - 1
        BY <1>1, <2>3
      <3> QED
        BY <1>2, <2>1, <2>2, <2>3, <3>1
    <2>4. CASE ~(n < Len(a) + Len(b))
      <3>1. ~(n < Len(a))
        BY <1>1, <2>4
      <3> QED
        BY <2>1, <2>2, <2>4, <3>1
    <2> QED
      BY <2>3, <2>4
  <1>5. Len(all) = Len(a) + Len(b) + Len(c)
    BY <1>2, <1>3
  <1> QED
    BY <1>3, <1>4, <1>5 DEF all, top

\* Rows of one kind.
LEMMA ItemsAre ==
  ASSUME NEW first \in Nat, NEW n \in Nat, NEW w \in Nat
  PROVE  LET items == [k \in 1 .. n |-> Drawing!Item(first + k - 1, w)]
         IN  items \in Seq(Lines) /\ Len(items) = n
             /\ \A k \in 0 .. n - 1 : items[k + 1].on = <<"item", first + k>>
PROOF
  <1> DEFINE items == [k \in 1 .. n |-> Drawing!Item(first + k - 1, w)]
  <1>1. ASSUME NEW i \in Nat
        PROVE  Drawing!Item(i, w) \in Lines /\ Drawing!Item(i, w).on = <<"item", i>>
    BY LineIs DEF Drawing!Item
  <1>2. items \in [1 .. n -> Lines]
    <2>1. \A k \in 1 .. n : first + k - 1 \in Nat
      OBVIOUS
    <2> QED
      BY <1>1, <2>1
  <1>3. items \in Seq(Lines) /\ Len(items) = n
    BY <1>2, Listed
  <1>4. ASSUME NEW k \in 0 .. n - 1
        PROVE  items[k + 1].on = <<"item", first + k>>
    <2>1. k + 1 \in 1 .. n /\ first + (k + 1) - 1 = first + k /\ first + k \in Nat
      OBVIOUS
    <2>2. items[k + 1] = Drawing!Item(first + k, w)
      BY <2>1
    <2> QED
      BY <1>1, <2>1, <2>2
  <1> QED
    BY <1>3, <1>4

LEMMA PaddingIs ==
  ASSUME NEW n \in Nat
  PROVE  /\ Drawing!Padding(n) \in Seq(Lines) /\ Len(Drawing!Padding(n)) = n
         /\ \A k \in 0 .. n - 1 : Drawing!Padding(n)[k + 1].on = <<"nothing", 0>>
PROOF
  <1>1. Drawing!Padding(n) = [k \in 1 .. n |-> Drawing!Blank]
    BY DEF Drawing!Padding
  <1>2. Drawing!Padding(n) \in [1 .. n -> Lines]
    BY <1>1, LinesAre
  <1>3. \A k \in 0 .. n - 1 : k + 1 \in 1 .. n
    OBVIOUS
  <1> QED
    BY <1>1, <1>2, <1>3, Listed, LinesAre

LEMMA HintsAre ==
  /\ <<Drawing!Hints>> \in Seq(Lines) /\ Len(<<Drawing!Hints>>) = 1
  /\ <<Drawing!Hints>>[1].on = <<"hints", 0>>
PROOF
  BY LinesAre

LEMMA TabsAre ==
  /\ Drawing!Tabs \in Seq(Lines) /\ Len(Drawing!Tabs) = 3
  /\ Drawing!Tabs[1].on = <<"nothing", 0>> /\ Drawing!Tabs[2].on = <<"tabs", 0>>
  /\ Drawing!Tabs[3].on = <<"nothing", 0>>
PROOF
  <1>1. Drawing!Row(<<"tabs", 0>>, 0) \in Lines /\ Drawing!Row(<<"tabs", 0>>, 0).on = <<"tabs", 0>>
    BY LineIs
  <1>2. Drawing!Tabs \in Seq(Lines) /\ Len(Drawing!Tabs) = 3
    BY <1>1, LinesAre DEF Drawing!Tabs
  <1> QED
    BY <1>1, <1>2, LinesAre DEF Drawing!Tabs

\* Some rows of a page answer, from a row on.
PartAnswers(part_, n, from, page) ==
  /\ part_ \in Seq(Lines) /\ Len(part_) = n
  /\ \A k \in 0 .. n - 1 : part_[k + 1].on = Drawing!Clicked(page, from + k)

\* A page of two or of three parts, each of which answers for what it shows.
LEMMA TwoPartsAnswer ==
  ASSUME NEW page, NEW a \in Seq(Lines), NEW b \in Seq(Lines), NEW m \in Nat, NEW n \in Nat,
         Len(a) = m, Len(b) = n, m + n <= Drawing!Inner(page).h,
         \A k \in 0 .. m - 1 : a[k + 1].on = Drawing!Clicked(page, k),
         \A k \in 0 .. n - 1 : b[k + 1].on = Drawing!Clicked(page, m + k)
  PROVE  Answers(a \o b, page)
PROOF
  <1> DEFINE lines == a \o b
  <1>1. lines \in Seq(Lines) /\ Len(lines) = m + n
    BY PlacedTwo
  <1>2. \A i \in 0 .. m + n - 1 : lines[i + 1] = IF i < m THEN a[i + 1] ELSE b[i - m + 1]
    BY PlacedTwo
  <1> HIDE DEF lines
  <1>3. ASSUME NEW i \in 0 .. m + n - 1
        PROVE  lines[i + 1].on = Drawing!Clicked(page, i)
    <2>1. CASE i < m
      <3>1. i \in 0 .. m - 1 /\ lines[i + 1] = a[i + 1]
        BY <1>2, <2>1
      <3> QED
        BY <3>1
    <2>2. CASE ~(i < m)
      <3> DEFINE k == i - m
      <3>1. k \in 0 .. n - 1 /\ m + k = i
        BY <2>2
      <3>2. lines[i + 1] = b[k + 1]
        BY <1>2, <2>2
      <3> HIDE DEF k
      <3> QED
        BY <3>1, <3>2
    <2> QED
      BY <2>1, <2>2
  <1>4. Len(lines) - 1 = m + n - 1
    BY <1>1
  <1> QED
    BY <1>1, <1>3, <1>4 DEF Answers, lines

LEMMA ThreePartsAnswer ==
  ASSUME NEW page, NEW a, NEW b, NEW c, NEW l \in Nat, NEW m \in Nat, NEW n \in Nat,
         PartAnswers(a, l, 0, page), PartAnswers(b, m, l, page), PartAnswers(c, n, l + m, page),
         l + m + n <= Drawing!Inner(page).h
  PROVE  Answers(a \o b \o c, page)
PROOF
  <1> DEFINE lines == a \o b \o c
  <1>a. a \in Seq(Lines) /\ b \in Seq(Lines) /\ c \in Seq(Lines)
    BY DEF PartAnswers
  <1>b. Len(a) = l /\ Len(b) = m /\ Len(c) = n
    BY DEF PartAnswers
  <1>c. /\ \A k \in 0 .. l - 1 : a[k + 1].on = Drawing!Clicked(page, 0 + k)
        /\ \A k \in 0 .. m - 1 : b[k + 1].on = Drawing!Clicked(page, l + k)
        /\ \A k \in 0 .. n - 1 : c[k + 1].on = Drawing!Clicked(page, l + m + k)
    BY DEF PartAnswers
  <1>1. lines \in Seq(Lines) /\ Len(lines) = l + m + n
    <2>1. lines \in Seq(Lines) /\ Len(lines) = Len(a) + Len(b) + Len(c)
      BY ONLY <1>a, PlacedThree DEF lines
    <2> HIDE DEF lines
    <2> QED
      BY <1>b, <2>1
  <1>2. \A i \in 0 .. l + m + n - 1 :
          lines[i + 1] = IF i < l THEN a[i + 1] ELSE IF i < l + m THEN b[i - l + 1] ELSE c[i - l - m + 1]
    <2>1. /\ lines \in Seq(Lines) /\ Len(lines) = Len(a) + Len(b) + Len(c)
          /\ \A i \in 0 .. Len(a) + Len(b) + Len(c) - 1 :
               lines[i + 1] = IF i < Len(a) THEN a[i + 1]
                              ELSE IF i < Len(a) + Len(b) THEN b[i - Len(a) + 1]
                              ELSE c[i - Len(a) - Len(b) + 1]
      BY ONLY <1>a, PlacedThree DEF lines
    <2> HIDE DEF lines
    <2> QED
      BY <1>b, <2>1
  <1> HIDE DEF lines
  <1>3. ASSUME NEW i \in 0 .. l + m + n - 1
        PROVE  lines[i + 1].on = Drawing!Clicked(page, i)
    <2>1. CASE i < l
      <3>1. i \in 0 .. l - 1 /\ lines[i + 1] = a[i + 1] /\ 0 + i = i
        BY <1>2, <2>1
      <3> QED
        BY <1>c, <3>1
    <2>2. CASE ~(i < l) /\ i < l + m
      <3> DEFINE k == i - l
      <3>1. k \in 0 .. m - 1 /\ l + k = i
        BY <2>2
      <3>2. lines[i + 1] = b[k + 1]
        BY <1>2, <2>2
      <3> HIDE DEF k
      <3> QED
        BY <1>c, <3>1, <3>2
    <2>3. CASE ~(i < l) /\ ~(i < l + m)
      <3> DEFINE k == i - l - m
      <3>1. k \in 0 .. n - 1 /\ l + m + k = i
        BY <2>3
      <3>2. lines[i + 1] = c[k + 1]
        BY <1>2, <2>3
      <3> HIDE DEF k
      <3> QED
        BY <1>c, <3>1, <3>2
    <2> QED
      BY <2>1, <2>2, <2>3
  <1>4. Len(lines) - 1 = l + m + n - 1
    BY <1>1
  <1> QED
    BY <1>1, <1>3, <1>4 DEF Answers, lines

LEMMA KeybindAnswers ==
  ASSUME Drawing!LayoutAssumption, DrawingInv
  PROVE  Answers(Drawing!KeybindRows, "Keybinds")
PROOF
  <1> DEFINE zero == 0
             most == 17
             sixty == 60
             items == [k \in 1 .. 17 |-> Drawing!Item(k - 1, 60)]
             from == [k \in 1 .. most |-> Drawing!Item(zero + k - 1, sixty)]
             last == <<Drawing!Hints>>
  <1>1. items \in Seq(Lines) /\ Len(items) = 17 /\ \A k \in 0 .. 17 - 1 : items[k + 1].on = <<"item", k>>
    <2>1. items = from
      <3>1. \A k \in 1 .. 17 : 0 + k - 1 = k - 1
        OBVIOUS
      <3> QED
        BY <3>1
    <2>2. zero \in Nat /\ most \in Nat /\ sixty \in Nat
      OBVIOUS
    <2> HIDE DEF zero, most, sixty
    <2>3. /\ from \in Seq(Lines) /\ Len(from) = most
          /\ \A k \in 0 .. most - 1 : from[k + 1].on = <<"item", zero + k>>
      BY <2>2, ItemsAre
    <2> HIDE DEF items, from
    <2> USE DEF zero, most
    <2> QED
      BY <2>1, <2>3
  <1>2. Drawing!KeybindRows = items \o last
    BY DEF Drawing!KeybindRows, Drawing!Keybindings
  <1>3. last \in Seq(Lines) /\ Len(last) = 1 /\ last[1].on = <<"hints", 0>>
    BY HintsAre
  <1> HIDE DEF items, last
  <1>4. \A n \in 0 .. 17 : Drawing!Clicked("Keybinds", n) = IF n < 17 THEN <<"item", n>> ELSE <<"hints", 0>>
    BY LinesAre DEF Drawing!Clicked, Drawing!PageClick, Drawing!At, Drawing!Keybindings
  <1>5. ASSUME NEW k \in 0 .. 17 - 1
        PROVE  items[k + 1].on = Drawing!Clicked("Keybinds", k)
    <2>1. k \in 0 .. 17 /\ k < 17
      OBVIOUS
    <2>2. Drawing!Clicked("Keybinds", k) = <<"item", k>>
      BY <1>4, <2>1
    <2>3. items[k + 1].on = <<"item", k>>
      BY <1>1
    <2> QED
      BY <2>2, <2>3, Zenon
  <1>6. \A k \in 0 .. 1 - 1 : last[k + 1].on = Drawing!Clicked("Keybinds", 17 + k)
    <2>1. Drawing!Clicked("Keybinds", 17) = <<"hints", 0>>
      BY <1>4
    <2>2. \A k \in 0 .. 1 - 1 : k + 1 = 1 /\ 17 + k = 17
      OBVIOUS
    <2> QED
      BY <1>3, <2>1, <2>2
  <1>7. 17 + 1 <= Drawing!Inner("Keybinds").h
    <2>1. Drawing!Inner("Keybinds") = Drawing!Large
      BY DEF Drawing!Inner
    <2> QED
      BY <2>1, RoomOf
  <1>8. Answers(items \o last, "Keybinds")
    <2>1. items \in Seq(Lines) /\ last \in Seq(Lines) /\ 17 \in Nat /\ 1 \in Nat
      BY <1>1, <1>3
    <2>2. Len(items) = 17 /\ Len(last) = 1
      BY <1>1, <1>3
    <2> QED
      BY <1>5, <1>6, <1>7, <2>1, <2>2, TwoPartsAnswer
  <1> QED
    BY <1>2, <1>8

\* The rows of the tabs answer on each page of settings.
LEMMA TabsAnswer ==
  ASSUME NEW page \in {"Usage", "Appearance", "Harnesses"}
  PROVE  /\ \A k \in 0 .. 3 - 1 : Drawing!Tabs[k + 1].on = Drawing!Clicked(page, k)
         /\ Drawing!Tabs \in Seq(Lines) /\ Len(Drawing!Tabs) = 3 /\ 3 \in Nat
PROOF
  <1> DEFINE tabs == Drawing!Tabs
  <1>1. /\ Drawing!Clicked(page, 0) = <<"nothing", 0>> /\ Drawing!Clicked(page, 1) = <<"tabs", 0>>
        /\ Drawing!Clicked(page, 2) = <<"nothing", 0>>
    BY LinesAre DEF Drawing!Clicked, Drawing!PageClick, Drawing!At, Drawing!Harnesses
  <1>2. tabs[1].on = <<"nothing", 0>> /\ tabs[2].on = <<"tabs", 0>> /\ tabs[3].on = <<"nothing", 0>>
    BY TabsAre
  <1> HIDE DEF tabs
  <1>3. \A k \in 0 .. 3 - 1 : tabs[k + 1].on = Drawing!Clicked(page, k)
    BY <1>1, <1>2
  <1> QED
    BY <1>3, TabsAre DEF tabs

LEMMA AppearanceAnswers ==
  ASSUME Drawing!LayoutAssumption, DrawingInv
  PROVE  Answers(Drawing!AppearanceRows, "Appearance")
PROOF
  <1> DEFINE theme_ == Drawing!Row(<<"theme", 0>>, 0)
             last == <<theme_, Drawing!Blank, Drawing!Hints>>
             tabs == Drawing!Tabs
  <1>1. theme_ \in Lines /\ theme_.on = <<"theme", 0>>
    BY LineIs
  <1> HIDE DEF theme_
  <1>2. last \in Seq(Lines) /\ Len(last) = 3
    BY <1>1, LinesAre
  <1>3. last[1].on = <<"theme", 0>> /\ last[2].on = <<"nothing", 0>> /\ last[3].on = <<"hints", 0>>
    BY <1>1, LinesAre
  <1>4. /\ Drawing!Clicked("Appearance", 3) = <<"theme", 0>>
        /\ Drawing!Clicked("Appearance", 4) = <<"nothing", 0>>
        /\ Drawing!Clicked("Appearance", 5) = <<"hints", 0>>
    BY LinesAre DEF Drawing!Clicked, Drawing!PageClick, Drawing!At
  <1> HIDE DEF last
  <1>5. \A k \in 0 .. 3 - 1 : last[k + 1].on = Drawing!Clicked("Appearance", 3 + k)
    BY <1>3, <1>4
  <1>6. 3 + 3 <= Drawing!Inner("Appearance").h
    <2>1. Drawing!Inner("Appearance") = Drawing!Standard
      BY DEF Drawing!Inner
    <2> QED
      BY <2>1, RoomOf
  <1>7. Answers(tabs \o last, "Appearance")
    <2>1. \A k \in 0 .. 3 - 1 : tabs[k + 1].on = Drawing!Clicked("Appearance", k)
      BY TabsAnswer
    <2>2. tabs \in Seq(Lines) /\ last \in Seq(Lines) /\ 3 \in Nat
      BY <1>2, TabsAre
    <2>3. Len(tabs) = 3 /\ Len(last) = 3
      BY <1>2, TabsAre
    <2> HIDE DEF tabs
    <2> QED
      BY <1>5, <1>6, <2>1, <2>2, <2>3, TwoPartsAnswer
  <1> QED
    BY <1>7 DEF Drawing!AppearanceRows, last, theme_

\* A page of settings of six rows and the hints.
LEMMA BelowTabs ==
  ASSUME NEW page \in {"Usage", "Harnesses"}, NEW middle \in Seq(Lines), Len(middle) = 6,
         10 <= Drawing!Inner(page).h,
         \A k \in 0 .. 6 - 1 : middle[k + 1].on = Drawing!Clicked(page, 3 + k)
  PROVE  Answers(Drawing!Tabs \o middle \o <<Drawing!Hints>>, page)
PROOF
  <1> DEFINE tabs == Drawing!Tabs
             last == <<Drawing!Hints>>
  <1>1. Drawing!Clicked(page, 9) = <<"hints", 0>>
    BY LinesAre DEF Drawing!Clicked, Drawing!PageClick, Drawing!At, Drawing!Harnesses
  <1>2. \A k \in 0 .. 3 - 1 : tabs[k + 1].on = Drawing!Clicked(page, k)
    BY TabsAnswer
  <1>3. tabs \in Seq(Lines) /\ last \in Seq(Lines)
    BY HintsAre, TabsAre
  <1>4. Len(tabs) = 3 /\ Len(last) = 1
    BY HintsAre, TabsAre
  <1>5. last[1].on = <<"hints", 0>>
    BY HintsAre
  <1> HIDE DEF tabs, last
  <1>6. \A k \in 0 .. 1 - 1 : last[k + 1].on = Drawing!Clicked(page, 3 + 6 + k)
    <2>1. \A k \in 0 .. 1 - 1 : k + 1 = 1 /\ 3 + 6 + k = 9
      OBVIOUS
    <2> QED
      BY <1>1, <1>5, <2>1
  <1>7. 3 \in Nat /\ 6 \in Nat /\ 1 \in Nat /\ 3 + 6 + 1 <= Drawing!Inner(page).h
    OBVIOUS
  <1>8. PartAnswers(tabs, 3, 0, page)
    <2>1. \A k \in 0 .. 3 - 1 : 0 + k = k
      OBVIOUS
    <2> QED
      BY <1>2, <1>3, <1>4, <2>1 DEF PartAnswers
  <1>9. PartAnswers(middle, 6, 3, page)
    BY DEF PartAnswers
  <1>10. PartAnswers(last, 1, 3 + 6, page)
    BY <1>3, <1>4, <1>6 DEF PartAnswers
  <1>11. Answers(tabs \o middle \o last, page)
    BY ONLY <1>7, <1>8, <1>9, <1>10, ThreePartsAnswer
  <1> QED
    BY <1>11 DEF tabs, last

LEMMA UsageAnswers ==
  ASSUME Drawing!LayoutAssumption, DrawingInv
  PROVE  Answers(Drawing!UsageRows, "Usage")
PROOF
  <1> DEFINE middle == Drawing!Padding(6)
  <1>1. middle \in Seq(Lines) /\ Len(middle) = 6
    BY PaddingIs
  <1>2. \A k \in 0 .. 6 - 1 : middle[k + 1].on = <<"nothing", 0>>
    BY PaddingIs
  <1>3. \A k \in 0 .. 6 - 1 : Drawing!Clicked("Usage", 3 + k) = <<"nothing", 0>>
    BY LinesAre DEF Drawing!Clicked, Drawing!PageClick, Drawing!At
  <1>4. 10 <= Drawing!Inner("Usage").h
    <2>1. Drawing!Inner("Usage") = Drawing!Standard
      BY DEF Drawing!Inner
    <2> QED
      BY <2>1, RoomOf
  <1> HIDE DEF middle
  <1>5. Answers(Drawing!Tabs \o middle \o <<Drawing!Hints>>, "Usage")
    BY <1>1, <1>2, <1>3, <1>4, BelowTabs
  <1> QED
    BY <1>5 DEF Drawing!UsageRows, middle

LEMMA HarnessAnswers ==
  ASSUME Drawing!LayoutAssumption, DrawingInv
  PROVE  Answers(Drawing!HarnessRows, "Harnesses")
PROOF
  <1> DEFINE w == Drawing!Standard.w
             zero == 0
             six == 6
             middle == [k \in 1 .. 6 |-> Drawing!Item(k - 1, w)]
             from == [k \in 1 .. six |-> Drawing!Item(zero + k - 1, w)]
  <1>1. w \in Nat
    BY RoomOf
  <1> HIDE DEF w
  <1>2. middle \in Seq(Lines) /\ Len(middle) = 6 /\ \A k \in 0 .. 6 - 1 : middle[k + 1].on = <<"item", k>>
    <2>1. middle = from
      <3>1. \A k \in 1 .. 6 : 0 + k - 1 = k - 1
        OBVIOUS
      <3> QED
        BY <3>1
    <2>2. zero \in Nat /\ six \in Nat
      OBVIOUS
    <2> HIDE DEF zero, six
    <2>3. /\ from \in Seq(Lines) /\ Len(from) = six
          /\ \A k \in 0 .. six - 1 : from[k + 1].on = <<"item", zero + k>>
      BY <1>1, <2>2, ItemsAre
    <2> HIDE DEF middle, from
    <2> USE DEF zero, six
    <2> QED
      BY <2>1, <2>3
  <1>3. \A k \in 0 .. 6 - 1 : Drawing!Clicked("Harnesses", 3 + k) = <<"item", k>>
    BY LinesAre DEF Drawing!Clicked, Drawing!PageClick, Drawing!At, Drawing!Harnesses
  <1>4. Drawing!HarnessRows = Drawing!Tabs \o middle \o <<Drawing!Hints>>
    <2>1. Drawing!Harnesses + 1 = 6
      BY DEF Drawing!Harnesses
    <2> QED
      BY <2>1 DEF Drawing!HarnessRows, w
  <1>5. 10 <= Drawing!Inner("Harnesses").h
    <2>1. Drawing!Inner("Harnesses") = Drawing!Standard
      BY DEF Drawing!Inner
    <2> QED
      BY <2>1, RoomOf
  <1> HIDE DEF middle
  <1>6. \A k \in 0 .. 6 - 1 : middle[k + 1].on = Drawing!Clicked("Harnesses", 3 + k)
    BY <1>2, <1>3
  <1>7. Answers(Drawing!Tabs \o middle \o <<Drawing!Hints>>, "Harnesses")
    BY <1>2, <1>5, <1>6, BelowTabs
  <1> QED
    BY <1>4, <1>7

-----------------------------------------------------------------------------
\* The part of a list that is shown.
LEMMA ListIs ==
  ASSUME Drawing!LayoutAssumption, DrawingInv, box # Drawing!NoDialog,
         NEW page \in {"Workspaces", "Agents", "NativeBrowser", "Sessions"}
  PROVE  /\ Drawing!Start(page) \in Nat /\ Drawing!Count(page) \in Nat /\ Drawing!Visible(page) \in Nat
         /\ Drawing!Count(page) <= Drawing!Visible(page)
         /\ page \in {"Workspaces", "Agents"} => Drawing!Visible(page) = Drawing!Compact.h - 3
         /\ page = "NativeBrowser" => Drawing!Visible(page) = Drawing!Large.h - 4
         /\ page = "Sessions" => Drawing!Visible(page) = Drawing!Screen.h - 2
PROOF
  <1> DEFINE v == Drawing!Visible(page)
             compact == Drawing!Compact.h
             large == Drawing!Large.h
             screen_ == Drawing!Screen.h
             first == Drawing!Minus(box.at, v - 1)
  <1>1. compact \in Nat /\ compact >= 7 /\ large \in Nat /\ large >= 20 /\ screen_ \in Nat /\ screen_ >= 22
    BY RoomOf
  <1>2. /\ page \in {"Workspaces", "Agents"} => v = Drawing!Minus(compact, 3)
        /\ page = "NativeBrowser" => v = Drawing!Minus(large + 2, 6)
        /\ page = "Sessions" => v = screen_ - 2
    BY DEF Drawing!Visible
  <1> HIDE DEF compact, large, screen_, v
  <1>3. /\ page \in {"Workspaces", "Agents"} => v = compact - 3
        /\ page = "NativeBrowser" => v = large - 4
        /\ page = "Sessions" => v = screen_ - 2
    BY <1>1, <1>2 DEF Drawing!Minus
  <1>4. v \in Nat /\ v - 1 \in Nat
    BY <1>1, <1>3
  <1>5. box.at \in Nat /\ box.rows \in Nat
    BY BoxIs
  <1>6. first \in Nat
    BY <1>4, <1>5, LeastIs
  <1>7. Drawing!Start(page) = IF page = "Sessions" THEN Drawing!Least(first, Drawing!Minus(box.rows, v)) ELSE first
    BY DEF Drawing!Start, v
  <1> HIDE DEF first
  <1>8. Drawing!Start(page) \in Nat
    <2>1. Drawing!Minus(box.rows, v) \in Nat
      BY <1>4, <1>5, LeastIs
    <2>2. Drawing!Least(first, Drawing!Minus(box.rows, v)) \in Nat
      BY <1>6, <2>1, LeastIs
    <2> QED
      BY <1>6, <1>7, <2>2
  <1>9. Drawing!Count(page) \in Nat /\ Drawing!Count(page) <= v
    <2>1. Drawing!Minus(box.rows, Drawing!Start(page)) \in Nat
      BY <1>5, <1>8, LeastIs
    <2>2. Drawing!Count(page) = Drawing!Least(Drawing!Minus(box.rows, Drawing!Start(page)), v)
      BY DEF Drawing!Count, v
    <2> QED
      BY <1>4, <2>1, <2>2 DEF Drawing!Least
  <1> QED
    BY <1>3, <1>4, <1>8, <1>9 DEF compact, large, screen_, v

LEMMA ShownIs ==
  ASSUME Drawing!LayoutAssumption, DrawingInv, box # Drawing!NoDialog, NEW w \in Nat,
         NEW page \in {"Workspaces", "Agents", "NativeBrowser", "Sessions"}
  PROVE  /\ Drawing!Shown(page, w) \in Seq(Lines) /\ Len(Drawing!Shown(page, w)) = Drawing!Count(page)
         /\ \A k \in 0 .. Drawing!Count(page) - 1 :
              Drawing!Shown(page, w)[k + 1].on = <<"item", Drawing!Start(page) + k>>
PROOF
  <1> DEFINE first == Drawing!Start(page)
             n == Drawing!Count(page)
             items == [k \in 1 .. n |-> Drawing!Item(first + k - 1, w)]
  <1>1. first \in Nat /\ n \in Nat
    BY ListIs
  <1>2. Drawing!Shown(page, w) = items
    BY DEF Drawing!Shown
  <1> HIDE DEF first, n
  <1>3. items \in Seq(Lines) /\ Len(items) = n /\ \A k \in 0 .. n - 1 : items[k + 1].on = <<"item", first + k>>
    BY <1>1, ItemsAre
  <1> HIDE DEF items
  <1> QED
    BY <1>2, <1>3 DEF first, n

\* A page that is a list between empty rows and the hints.
LEMMA ListAnswers ==
  ASSUME Drawing!LayoutAssumption, DrawingInv, box # Drawing!NoDialog, NEW w \in Nat,
         NEW page \in {"Workspaces", "Agents", "NativeBrowser"},
         NEW top \in Seq(Lines), NEW first \in Nat, Len(top) = first,
         \A k \in 0 .. first - 1 : top[k + 1].on = <<"nothing", 0>>,
         \A k \in Nat : Drawing!Clicked(page, k) = Drawing!ListClick(page, k, first, 1),
         first + Drawing!Count(page) + 2 <= Drawing!Inner(page).h
  PROVE  Answers(top \o Drawing!Shown(page, w) \o <<Drawing!Blank, Drawing!Hints>>, page)
PROOF
  <1> DEFINE shown_ == Drawing!Shown(page, w)
             from == Drawing!Start(page)
             n == Drawing!Count(page)
             last == <<Drawing!Blank, Drawing!Hints>>
  <1>1. from \in Nat /\ n \in Nat
    BY ListIs
  <1>2. shown_ \in Seq(Lines) /\ Len(shown_) = n
    BY ShownIs
  <1>3. \A k \in 0 .. n - 1 : shown_[k + 1].on = <<"item", from + k>>
    <2>1. page \in {"Workspaces", "Agents", "NativeBrowser", "Sessions"}
      OBVIOUS
    <2> QED
      BY <2>1, ShownIs, Zenon
  <1>4. last \in Seq(Lines) /\ Len(last) = 2
    BY LinesAre
  <1>5. last[1].on = <<"nothing", 0>> /\ last[2].on = <<"hints", 0>>
    BY LinesAre
  <1>6. \A k \in Nat : Drawing!Clicked(page, k) =
                         IF k \in first .. first + n - 1 THEN <<"item", from + k - first>>
                         ELSE IF k = first + n + 1 THEN <<"hints", 0>> ELSE <<"nothing", 0>>
    BY LinesAre DEF Drawing!ListClick, Drawing!At
  <1> HIDE DEF shown_, from, n, last
  <1>7. ASSUME NEW k \in 0 .. first - 1
        PROVE  top[k + 1].on = Drawing!Clicked(page, k)
    <2>1. k \in Nat /\ ~(k \in first .. first + n - 1) /\ k # first + n + 1
      BY <1>1
    <2>2. Drawing!Clicked(page, k) = <<"nothing", 0>>
      BY <1>6, <2>1
    <2> QED
      BY <2>2
  <1>8. ASSUME NEW k \in 0 .. n - 1
        PROVE  shown_[k + 1].on = Drawing!Clicked(page, first + k)
    <2> DEFINE line == first + k
    <2>1. line \in Nat /\ line \in first .. first + n - 1 /\ from + line - first = from + k
      BY <1>1
    <2> HIDE DEF line
    <2>a. Drawing!Clicked(page, line) = <<"item", from + k>>
      BY <1>6, <2>1
    <2>2. Drawing!Clicked(page, first + k) = <<"item", from + k>>
      BY <2>a DEF line
    <2>3. shown_[k + 1].on = <<"item", from + k>>
      BY <1>3
    <2> QED
      BY <2>2, <2>3, Zenon
  <1>9. ASSUME NEW k \in 0 .. 2 - 1
        PROVE  last[k + 1].on = Drawing!Clicked(page, first + n + k)
    <2>1. CASE k = 0
      <3>1. first + n + k \in Nat /\ ~(first + n + k \in first .. first + n - 1) /\ first + n + k # first + n + 1
        BY <1>1, <2>1
      <3>2. Drawing!Clicked(page, first + n + k) = <<"nothing", 0>>
        BY <1>6, <3>1
      <3>3. k + 1 = 1
        BY <2>1
      <3> QED
        BY <1>5, <3>2, <3>3
    <2>2. CASE k = 1
      <3>1. first + n + k \in Nat /\ ~(first + n + k \in first .. first + n - 1) /\ first + n + k = first + n + 1
        BY <1>1, <2>2
      <3>2. Drawing!Clicked(page, first + n + k) = <<"hints", 0>>
        BY <1>6, <3>1
      <3>3. k + 1 = 2
        BY <2>2
      <3> QED
        BY <1>5, <3>2, <3>3
    <2> QED
      BY <2>1, <2>2
  <1>10. first + n + 2 <= Drawing!Inner(page).h
    BY DEF n
  <1>11. PartAnswers(top, first, 0, page)
    <2>1. \A k \in 0 .. first - 1 : 0 + k = k
      OBVIOUS
    <2> QED
      BY <1>7, <2>1 DEF PartAnswers
  <1>12. PartAnswers(shown_, n, first, page)
    BY <1>2, <1>8 DEF PartAnswers
  <1>13. PartAnswers(last, 2, first + n, page)
    BY <1>4, <1>9 DEF PartAnswers
  <1>14. 2 \in Nat /\ first \in Nat /\ n \in Nat
    BY <1>1
  <1>15. Answers(top \o shown_ \o last, page)
    BY ONLY <1>10, <1>11, <1>12, <1>13, <1>14, ThreePartsAnswer
  <1> QED
    BY <1>15 DEF shown_, last

LEMMA BlankIs ==
  /\ <<Drawing!Blank>> \in Seq(Lines) /\ Len(<<Drawing!Blank>>) = 1
  /\ \A k \in 0 .. 1 - 1 : <<Drawing!Blank>>[k + 1].on = <<"nothing", 0>>
PROOF
  <1>1. <<Drawing!Blank>> \in Seq(Lines) /\ Len(<<Drawing!Blank>>) = 1 /\ <<Drawing!Blank>>[1].on = <<"nothing", 0>>
    BY LinesAre
  <1>2. \A k \in 0 .. 1 - 1 : k + 1 = 1
    OBVIOUS
  <1> QED
    BY <1>1, <1>2

LEMMA WorkspacesAnswer ==
  ASSUME Drawing!LayoutAssumption, DrawingInv, box # Drawing!NoDialog, box.rows # 0
  PROVE  Answers(Drawing!WorkspaceRows, "Workspaces")
PROOF
  <1> DEFINE w == 17 + Drawing!Least(box.text, 32)
             top == <<Drawing!Blank>>
  <1>1. w \in Nat
    <2>1. Drawing!Least(box.text, 32) \in Nat
      BY TextIs
    <2> QED
      BY <2>1
  <1>2. \A k \in Nat : Drawing!Clicked("Workspaces", k) = Drawing!ListClick("Workspaces", k, 1, 1)
    BY DEF Drawing!Clicked, Drawing!NewAgentClick
  <1>3. 1 + Drawing!Count("Workspaces") + 2 <= Drawing!Inner("Workspaces").h
    <2>1. /\ Drawing!Count("Workspaces") \in Nat /\ Drawing!Visible("Workspaces") \in Nat
          /\ Drawing!Count("Workspaces") <= Drawing!Visible("Workspaces")
          /\ Drawing!Visible("Workspaces") = Drawing!Compact.h - 3
      BY ListIs
    <2>2. Drawing!Inner("Workspaces") = Drawing!Compact
      BY DEF Drawing!Inner
    <2>3. Drawing!Compact.h \in Nat
      BY RoomOf
    <2> QED
      BY <2>1, <2>2, <2>3
  <1>4. Drawing!WorkspaceRows = top \o Drawing!Shown("Workspaces", w) \o <<Drawing!Blank, Drawing!Hints>>
    BY DEF Drawing!WorkspaceRows
  <1>5. top \in Seq(Lines) /\ Len(top) = 1 /\ \A k \in 0 .. 1 - 1 : top[k + 1].on = <<"nothing", 0>>
    BY BlankIs
  <1> HIDE DEF w, top
  <1>6. Answers(top \o Drawing!Shown("Workspaces", w) \o <<Drawing!Blank, Drawing!Hints>>, "Workspaces")
    <2>1. 1 \in Nat
      OBVIOUS
    <2> QED
      BY <1>1, <1>2, <1>3, <1>5, <2>1, ListAnswers
  <1> QED
    BY <1>4, <1>6

LEMMA AgentsAnswer ==
  ASSUME Drawing!LayoutAssumption, DrawingInv, box # Drawing!NoDialog
  PROVE  Answers(Drawing!AgentRows, "Agents")
PROOF
  <1>1. CASE box.rows # 0
    <2> DEFINE w == 14
               top == <<Drawing!Blank>>
    <2>1. w \in Nat
      OBVIOUS
    <2>2. \A k \in Nat : Drawing!Clicked("Agents", k) = Drawing!ListClick("Agents", k, 1, 1)
      BY <1>1 DEF Drawing!Clicked, Drawing!NewAgentClick
    <2>3. 1 + Drawing!Count("Agents") + 2 <= Drawing!Inner("Agents").h
      <3>1. /\ Drawing!Count("Agents") \in Nat /\ Drawing!Visible("Agents") \in Nat
            /\ Drawing!Count("Agents") <= Drawing!Visible("Agents")
            /\ Drawing!Visible("Agents") = Drawing!Compact.h - 3
        BY ListIs
      <3>2. Drawing!Inner("Agents") = Drawing!Compact
        BY DEF Drawing!Inner
      <3>3. Drawing!Compact.h \in Nat
        BY RoomOf
      <3> QED
        BY <3>1, <3>2, <3>3
    <2>4. Drawing!AgentRows = top \o Drawing!Shown("Agents", w) \o <<Drawing!Blank, Drawing!Hints>>
      BY <1>1 DEF Drawing!AgentRows
    <2>5. top \in Seq(Lines) /\ Len(top) = 1 /\ \A k \in 0 .. 1 - 1 : top[k + 1].on = <<"nothing", 0>>
      BY BlankIs
    <2> HIDE DEF w, top
    <2>6. Answers(top \o Drawing!Shown("Agents", w) \o <<Drawing!Blank, Drawing!Hints>>, "Agents")
      <3>1. 1 \in Nat
        OBVIOUS
      <3> QED
        BY <2>1, <2>2, <2>3, <2>5, <3>1, ListAnswers
    <2> QED
      BY <2>4, <2>6
  <1>2. CASE box.rows = 0
    <2> DEFINE none_ == Drawing!Row(Drawing!Nothing, 32)
               top == <<Drawing!Blank, none_>>
               last == <<Drawing!Blank, Drawing!Hints>>
    <2>1. none_ \in Lines /\ none_.on = <<"nothing", 0>>
      BY LineIs DEF Drawing!Nothing
    <2>2. Drawing!AgentRows = top \o last
      BY <1>2 DEF Drawing!AgentRows
    <2> HIDE DEF none_
    <2>3. top \in Seq(Lines) /\ last \in Seq(Lines)
      BY <2>1, LinesAre
    <2>4. Len(top) = 2 /\ Len(last) = 2
      OBVIOUS
    <2>5. /\ top[1].on = <<"nothing", 0>> /\ top[2].on = <<"nothing", 0>>
          /\ last[1].on = <<"nothing", 0>> /\ last[2].on = <<"hints", 0>>
      BY <2>1, LinesAre
    <2>6. /\ Drawing!Clicked("Agents", 0) = <<"nothing", 0>> /\ Drawing!Clicked("Agents", 1) = <<"nothing", 0>>
          /\ Drawing!Clicked("Agents", 2) = <<"nothing", 0>> /\ Drawing!Clicked("Agents", 3) = <<"hints", 0>>
      BY <1>2, LinesAre DEF Drawing!Clicked, Drawing!NewAgentClick, Drawing!At
    <2> HIDE DEF top, last
    <2>7. \A k \in 0 .. 2 - 1 : top[k + 1].on = Drawing!Clicked("Agents", k)
      BY <2>5, <2>6
    <2>8. \A k \in 0 .. 2 - 1 : last[k + 1].on = Drawing!Clicked("Agents", 2 + k)
      BY <2>5, <2>6
    <2>9. 2 + 2 <= Drawing!Inner("Agents").h /\ 2 \in Nat
      <3>1. Drawing!Inner("Agents") = Drawing!Compact
        BY DEF Drawing!Inner
      <3> QED
        BY <3>1, RoomOf
    <2>10. Answers(top \o last, "Agents")
      BY <2>3, <2>4, <2>7, <2>8, <2>9, TwoPartsAnswer
    <2> QED
      BY <2>2, <2>10
  <1> QED
    BY <1>1, <1>2

LEMMA BrowserAnswers ==
  ASSUME Drawing!LayoutAssumption, DrawingInv, box # Drawing!NoDialog
  PROVE  Answers(Drawing!BrowserRows, "NativeBrowser")
PROOF
  <1> DEFINE w == Drawing!Large.w - 3
             two == 2
             top == Drawing!Padding(two)
  <1>1. w \in Nat
    <2>1. Drawing!Large.w \in Nat /\ Drawing!Large.w >= 74
      BY RoomOf
    <2> QED
      BY <2>1
  <1>2. \A k \in Nat : Drawing!Clicked("NativeBrowser", k) = Drawing!ListClick("NativeBrowser", k, 2, 1)
    BY DEF Drawing!Clicked, Drawing!NewAgentClick
  <1>3. 2 + Drawing!Count("NativeBrowser") + 2 <= Drawing!Inner("NativeBrowser").h
    <2>1. /\ Drawing!Count("NativeBrowser") \in Nat /\ Drawing!Visible("NativeBrowser") \in Nat
          /\ Drawing!Count("NativeBrowser") <= Drawing!Visible("NativeBrowser")
          /\ Drawing!Visible("NativeBrowser") = Drawing!Large.h - 4
      BY ListIs
    <2>2. Drawing!Inner("NativeBrowser") = Drawing!Large
      BY DEF Drawing!Inner
    <2>3. Drawing!Large.h \in Nat
      BY RoomOf
    <2> QED
      BY <2>1, <2>2, <2>3
  <1>4. Drawing!BrowserRows = top \o Drawing!Shown("NativeBrowser", w) \o <<Drawing!Blank, Drawing!Hints>>
    BY DEF Drawing!BrowserRows
  <1>5. two \in Nat
    OBVIOUS
  <1> HIDE DEF w, two
  <1>6. top \in Seq(Lines) /\ Len(top) = two /\ \A k \in 0 .. two - 1 : top[k + 1].on = <<"nothing", 0>>
    BY <1>5, PaddingIs
  <1>7. /\ \A k \in Nat : Drawing!Clicked("NativeBrowser", k) = Drawing!ListClick("NativeBrowser", k, two, 1)
        /\ two + Drawing!Count("NativeBrowser") + 2 <= Drawing!Inner("NativeBrowser").h
    BY <1>2, <1>3 DEF two
  <1> HIDE DEF top
  <1>8. Answers(top \o Drawing!Shown("NativeBrowser", w) \o <<Drawing!Blank, Drawing!Hints>>, "NativeBrowser")
    BY <1>1, <1>5, <1>6, <1>7, ListAnswers
  <1> QED
    BY <1>4, <1>8

LEMMA SessionsAnswer ==
  ASSUME Drawing!LayoutAssumption, DrawingInv, box # Drawing!NoDialog
  PROVE  Answers(Drawing!SessionRows, "Sessions")
PROOF
  <1> DEFINE page == "Sessions"
             w == 60
             shown_ == Drawing!Shown(page, w)
             from == Drawing!Start(page)
             n == Drawing!Count(page)
             h == Drawing!Screen.h
             empty == Drawing!Padding(h - 1 - n)
             last == <<Drawing!Hints>>
  <1>1. h \in Nat /\ h >= 22
    BY RoomOf
  <1>2. from \in Nat /\ n \in Nat /\ n <= h - 2
    BY ListIs
  <1>3. Drawing!SessionRows = shown_ \o empty \o last
    BY DEF Drawing!SessionRows
  <1>4. w \in Nat
    OBVIOUS
  <1> HIDE DEF w
  <1>5. shown_ \in Seq(Lines) /\ Len(shown_) = n
    BY <1>4, ShownIs
  <1>6. \A k \in 0 .. n - 1 : shown_[k + 1].on = <<"item", from + k>>
    BY <1>4, ShownIs
  <1> DEFINE m == h - 1 - n
  <1>7. m \in Nat /\ m >= 1
    BY <1>1, <1>2
  <1> HIDE DEF m, n
  <1>8. empty \in Seq(Lines) /\ Len(empty) = m /\ \A k \in 0 .. m - 1 : empty[k + 1].on = <<"nothing", 0>>
    BY <1>7, PaddingIs DEF m
  <1>9. last \in Seq(Lines) /\ Len(last) = 1 /\ last[1].on = <<"hints", 0>>
    BY HintsAre
  <1>10. \A k \in Nat : Drawing!Clicked(page, k) =
                          IF k >= h - 2 THEN (IF k = h - 1 THEN <<"hints", 0>> ELSE <<"nothing", 0>>)
                          ELSE IF k < n THEN <<"item", from + k>> ELSE <<"nothing", 0>>
    BY LinesAre DEF Drawing!Clicked, Drawing!SessionClick, Drawing!At, n
  <1>11. Drawing!Inner(page).h = h
    BY DEF Drawing!Inner
  <1> HIDE DEF shown_, from, h, empty, last, page
  <1>12. n + m + 1 = h
    BY <1>1, <1>2 DEF m
  <1>13. ASSUME NEW k \in 0 .. n - 1
         PROVE  shown_[k + 1].on = Drawing!Clicked(page, k)
    <2>1. k \in Nat /\ ~(k >= h - 2) /\ k < n
      BY <1>1, <1>2
    <2>2. Drawing!Clicked(page, k) = <<"item", from + k>>
      BY <1>10, <2>1
    <2> QED
      BY <1>6, <2>2
  <1>14. ASSUME NEW k \in 0 .. m - 1
         PROVE  empty[k + 1].on = Drawing!Clicked(page, n + k)
    <2> DEFINE line == n + k
    <2>1. line \in Nat /\ ~(line < n) /\ line # h - 1
      BY <1>1, <1>2, <1>7, <1>12
    <2> HIDE DEF line
    <2>2. Drawing!Clicked(page, line) = <<"nothing", 0>>
      BY <1>10, <2>1
    <2>3. empty[k + 1].on = <<"nothing", 0>>
      BY <1>8
    <2> QED
      BY <2>2, <2>3 DEF line
  <1>15. ASSUME NEW k \in 0 .. 1 - 1
         PROVE  last[k + 1].on = Drawing!Clicked(page, n + m + k)
    <2> DEFINE line == n + m + k
    <2>1. k + 1 = 1
      OBVIOUS
    <2>2. line \in Nat /\ line >= h - 2 /\ line = h - 1
      BY <1>1, <1>2, <1>7, <1>12
    <2> HIDE DEF line
    <2>3. Drawing!Clicked(page, line) = <<"hints", 0>>
      BY <1>10, <2>2
    <2>4. last[k + 1].on = <<"hints", 0>>
      BY <1>9, <2>1
    <2> QED
      BY <2>3, <2>4 DEF line
  <1>16. n + m + 1 <= Drawing!Inner(page).h
    BY <1>1, <1>11, <1>12
  <1>17. PartAnswers(shown_, n, 0, page)
    <2>1. \A k \in 0 .. n - 1 : 0 + k = k
      OBVIOUS
    <2> QED
      BY <1>5, <1>13, <2>1 DEF PartAnswers
  <1>18. PartAnswers(empty, m, n, page)
    BY <1>8, <1>14 DEF PartAnswers
  <1>19. PartAnswers(last, 1, n + m, page)
    BY <1>9, <1>15 DEF PartAnswers
  <1>20. 1 \in Nat /\ n \in Nat /\ m \in Nat
    BY <1>2, <1>7
  <1>21. Answers(shown_ \o empty \o last, page)
    BY ONLY <1>16, <1>17, <1>18, <1>19, <1>20, ThreePartsAnswer
  <1> QED
    BY <1>3, <1>21 DEF page

\* Each page is drawn by the rows of its name.
LEMMA PagesAnswer ==
  ASSUME Drawing!LayoutAssumption, DrawingInv, box # Drawing!NoDialog,
         ~(box.page = "Workspaces" /\ box.rows = 0)
  PROVE  Answers(Drawing!Drawn(box.page), box.page)
PROOF
  <1>1. box.page \in Drawing!Pages
    BY BoxIs
  <1>2. CASE box.page = "Form"
    <2>1. Drawing!Drawn("Form") = Drawing!FormRows
      BY DEF Drawing!Drawn
    <2> QED
      BY <1>2, <2>1, FormAnswers
  <1>3. CASE box.page = "Workspaces"
    <2>1. Drawing!Drawn("Workspaces") = Drawing!WorkspaceRows
      BY DEF Drawing!Drawn
    <2> QED
      BY <1>3, <2>1, WorkspacesAnswer
  <1>4. CASE box.page = "Locations"
    <2>1. Drawing!Drawn("Locations") = Drawing!LocationRows
      BY DEF Drawing!Drawn
    <2> QED
      BY <1>4, <2>1, LocationAnswers
  <1>5. CASE box.page = "Agents"
    <2>1. Drawing!Drawn("Agents") = Drawing!AgentRows
      BY DEF Drawing!Drawn
    <2> QED
      BY <1>5, <2>1, AgentsAnswer
  <1>6. CASE box.page = "CreatingWorktree"
    <2>1. Drawing!Drawn("CreatingWorktree") = Drawing!CreatingRows
      BY DEF Drawing!Drawn
    <2> QED
      BY <1>6, <2>1, CreatingAnswers
  <1>7. CASE box.page = "NativeBrowser"
    <2>1. Drawing!Drawn("NativeBrowser") = Drawing!BrowserRows
      BY DEF Drawing!Drawn
    <2> QED
      BY <1>7, <2>1, BrowserAnswers
  <1>8. CASE box.page \in {"ConfirmClose", "ConfirmArchive", "ArchiveUnavailable", "ConfirmResume"}
    <2> DEFINE w == CASE box.page = "ConfirmClose" -> 19
                      [] box.page = "ConfirmArchive" -> 54
                      [] box.page = "ArchiveUnavailable" -> 38
                      [] box.page = "ConfirmResume" -> 2 + Drawing!Least(box.text, 62)
    <2>1. Drawing!Least(box.text, 62) \in Nat
      BY TextIs
    <2>2. w \in Nat
      BY <1>8, <2>1
    <2>3. Drawing!Drawn(box.page) = Drawing!Prompt(w)
      BY <1>8 DEF Drawing!Drawn, Drawing!ResumeRows
    <2> HIDE DEF w
    <2> QED
      BY <1>8, <2>2, <2>3, PromptAnswers
  <1>9. CASE box.page = "ConfirmQuit"
    <2>1. Drawing!Drawn("ConfirmQuit") = Drawing!StopRows
      BY DEF Drawing!Drawn
    <2> QED
      BY <1>9, <2>1, StopAnswers
  <1>10. CASE box.page = "Keybinds"
    <2>1. Drawing!Drawn("Keybinds") = Drawing!KeybindRows
      BY DEF Drawing!Drawn
    <2> QED
      BY <1>10, <2>1, KeybindAnswers
  <1>11. CASE box.page = "Usage"
    <2>1. Drawing!Drawn("Usage") = Drawing!UsageRows
      BY DEF Drawing!Drawn
    <2> QED
      BY <1>11, <2>1, UsageAnswers
  <1>12. CASE box.page = "Appearance"
    <2>1. Drawing!Drawn("Appearance") = Drawing!AppearanceRows
      BY DEF Drawing!Drawn
    <2> QED
      BY <1>12, <2>1, AppearanceAnswers
  <1>13. CASE box.page = "Harnesses"
    <2>1. Drawing!Drawn("Harnesses") = Drawing!HarnessRows
      BY DEF Drawing!Drawn
    <2> QED
      BY <1>13, <2>1, HarnessAnswers
  <1>14. CASE box.page = "Sessions"
    <2>1. Drawing!Drawn("Sessions") = Drawing!SessionRows
      BY DEF Drawing!Drawn
    <2> QED
      BY <1>14, <2>1, SessionsAnswer
  <1> QED
    BY <1>1, <1>2, <1>3, <1>4, <1>5, <1>6, <1>7, <1>8, <1>9, <1>10, <1>11, <1>12, <1>13, <1>14
    DEF Drawing!Pages

LEMMA InnerIs ==
  ASSUME Drawing!LayoutAssumption, DrawingInv, NEW page
  PROVE  Drawing!Inner(page).w \in Nat /\ Drawing!Inner(page).h \in Nat
PROOF
  <1>1. Drawing!Inner(page) \in {Drawing!Compact, Drawing!Large, Drawing!Screen, Drawing!Standard}
    BY DEF Drawing!Inner
  <1> QED
    BY <1>1, RoomOf

LEMMA DialogIsClicked ==
  ASSUME Drawing!LayoutAssumption, DrawingInv
  PROVE  Drawing!ClicksFollowTheDialog
PROOF
  <1>1. ASSUME box # Drawing!NoDialog, Drawing!Fits(box.page), ~(box.page = "Workspaces" /\ box.rows = 0)
        PROVE  Drawing!Agree(box.page) /\ Len(Drawing!Drawn(box.page)) <= Drawing!Inner(box.page).h
    <2>1. Answers(Drawing!Drawn(box.page), box.page)
      BY <1>1, PagesAnswer
    <2>2. Drawing!Inner(box.page).w \in Nat /\ Drawing!Inner(box.page).h \in Nat
      BY InnerIs
    <2> QED
      BY <1>1, <2>1, <2>2, PageAgrees
  <1> QED
    BY <1>1 DEF Drawing!ClicksFollowTheDialog

-----------------------------------------------------------------------------
\* The states of the client's drawing
LEMMA DrawingStarts ==
  ASSUME Drawing!LayoutAssumption, Drawing!Init
  PROVE  DrawingInv
PROOF
  <1>1. /\ terminal \in Terminals /\ box = Drawing!NoDialog /\ cards = 0 /\ rows \in 0 .. MaxArchived
        /\ chosen = 0 /\ scroll = Drawing!Follow /\ wide = TRUE /\ menu = FALSE
    BY DEF Drawing!Init
  <1>2. MaxCards \in Nat
    BY DEF Drawing!LayoutAssumption
  <1>3. Drawing!TypeOK
    <2>1. 0 \in 0 .. Drawing!Minus(MaxCards, 1)
      BY <1>2 DEF Drawing!Minus
    <2>2. 0 \in 0 .. MaxCards
      BY <1>2
    <2> QED
      BY <1>1, <2>1, <2>2 DEF Drawing!TypeOK
  <1>4. box.page = "none"
    BY <1>1 DEF Drawing!NoDialog
  <1> QED
    BY <1>1, <1>3, <1>4 DEF DrawingInv

\* Whatever the user does to the sidebar, the selected card is one of it.
LEMMA SidebarSteps ==
  ASSUME Drawing!LayoutAssumption, DrawingInv, Drawing!SidebarChanges, box = Drawing!NoDialog
  PROVE  DrawingInv'
PROOF
  <1>1. MaxCards \in Nat /\ MaxArchived \in Nat
    BY DEF Drawing!LayoutAssumption
  <1>2. /\ cards \in Nat /\ rows \in Nat /\ chosen \in Nat /\ wide \in BOOLEAN /\ menu \in BOOLEAN
        /\ scroll \in Nat \/ scroll = -1
        /\ Drawing!CardHeight = (IF wide THEN 3 ELSE 1)
        /\ terminal \in Nat \X Nat /\ terminal[1] >= 80 /\ terminal[2] >= 24
        /\ Drawing!ListHeight = terminal[2] - 3 - (IF menu /\ wide THEN 7 ELSE 0)
        /\ cards = 0 => chosen = 0
        /\ chosen < cards \/ chosen = 0
    BY SidebarIs
  <1>3. /\ terminal \in Terminals /\ cards \in 0 .. MaxCards /\ rows \in 0 .. MaxArchived
        /\ chosen \in 0 .. Drawing!Minus(MaxCards, 1) /\ scroll \in Nat \cup {-1}
        /\ wide \in BOOLEAN /\ menu \in BOOLEAN /\ box \in Drawing!Dialogs \cup {Drawing!NoDialog}
    BY DEF DrawingInv, Drawing!TypeOK, Drawing!Follow
  <1> DEFINE Fine ==
        /\ terminal' = terminal /\ box' = box /\ cards' \in 0 .. MaxCards /\ rows' \in 0 .. MaxArchived
        /\ chosen' \in Nat /\ (chosen' < cards' \/ chosen' = 0) /\ scroll' \in Nat \cup {-1}
        /\ wide' \in BOOLEAN /\ menu' \in BOOLEAN
  <1>4. ASSUME Fine
        PROVE  DrawingInv'
    <2>1. chosen' \in 0 .. Drawing!Minus(MaxCards, 1)
      BY <1>1, <1>4 DEF Drawing!Minus
    <2>2. box' = Drawing!NoDialog /\ box'.page = "none"
      BY <1>4 DEF Drawing!NoDialog
    <2>3. Drawing!TypeOK'
      BY <1>3, <1>4, <2>1, <2>2 DEF Drawing!TypeOK, Drawing!Follow
    <2>4. ~(box'.page \in {"NativeBrowser", "Sessions"})
      BY <2>2
    <2> QED
      BY <1>4, <2>3, <2>4 DEF DrawingInv
  <1>5. ASSUME NEW steps \in {-1, 1}, Drawing!Wheel(steps)
        PROVE  Fine
    <2> DEFINE h == Drawing!CardHeight
               most == Drawing!Minus(Drawing!ContentHeight, Drawing!ListHeight)
               from == Drawing!FollowingStart
               current == IF scroll = Drawing!Follow THEN Drawing!Least(from, most) ELSE scroll
               ahead_ == current + steps * h
               back == -steps * h
    <2>1. h \in Nat
      BY <1>2
    <2>2. most \in Nat
      <3>1. Drawing!ContentHeight \in Nat
        <4>1. CASE wide
          BY <1>2, <4>1 DEF Drawing!ContentHeight
        <4>2. CASE ~wide
          BY <1>2, <4>2 DEF Drawing!ContentHeight
        <4> QED
          BY <4>1, <4>2
      <3>2. Drawing!ListHeight \in Nat
        BY <1>2
      <3> QED
        BY <3>1, <3>2, LeastIs
    <2>3. from \in Nat
      <3>1. chosen * h \in Nat /\ Drawing!Minus(Drawing!ListHeight, h) \in Nat
        <4>1. Drawing!ListHeight \in Nat /\ chosen * h \in Nat
          <5>1. CASE wide
            BY <1>2, <5>1
          <5>2. CASE ~wide
            BY <1>2, <5>2
          <5> QED
            BY <5>1, <5>2
        <4> QED
          BY <2>1, <4>1, LeastIs
      <3> QED
        BY <3>1, LeastIs DEF Drawing!FollowingStart
    <2>4. current \in Nat
      <3>1. Drawing!Least(from, most) \in Nat
        BY <2>2, <2>3, LeastIs
      <3> QED
        BY <1>2, <3>1 DEF Drawing!Follow
    <2>5. /\ scroll' = IF steps >= 0 THEN Drawing!Least(ahead_, most) ELSE Drawing!Minus(current, back)
          /\ terminal' = terminal /\ cards' = cards /\ rows' = rows /\ chosen' = chosen
          /\ wide' = wide /\ menu' = menu /\ box' = box
      BY <1>5 DEF Drawing!Wheel
    <2>6. steps = 1 => steps >= 0 /\ ahead_ \in Nat
      BY <2>1, <2>4
    <2>7. steps = -1 => ~(steps >= 0) /\ back \in Nat
      BY <2>1
    <2> HIDE DEF h, most, from, current, ahead_, back
    <2>8. scroll' \in Nat
      BY <1>5, <2>2, <2>4, <2>5, <2>6, <2>7, LeastIs
    <2> QED
      BY <1>2, <1>3, <2>5, <2>8
  <1>6. ASSUME NEW i \in 0 .. MaxCards - 1, Drawing!Select(i)
        PROVE  Fine
    BY <1>2, <1>3, <1>6 DEF Drawing!Select, Drawing!Follow
  <1>7. ASSUME NEW n \in 0 .. 1, Drawing!AddAgent(n)
        PROVE  Fine
    <2>1. /\ cards < MaxCards /\ n <= rows /\ cards' = cards + 1 /\ rows' = rows - n /\ chosen' = cards
          /\ scroll' = -1 /\ menu' = FALSE
      BY <1>7 DEF Drawing!AddAgent, Drawing!Follow
    <2>2. terminal' = terminal /\ wide' = wide /\ box' = box
      BY <1>7 DEF Drawing!AddAgent
    <2>3. cards' \in 0 .. MaxCards /\ rows' \in 0 .. MaxArchived /\ chosen' \in Nat /\ chosen' < cards'
      BY <1>1, <1>2, <1>3, <2>1
    <2>4. scroll' \in Nat \cup {-1} /\ menu' \in BOOLEAN /\ wide' \in BOOLEAN
      BY <1>2, <2>1, <2>2, Zenon
    <2> QED
      BY <2>2, <2>3, <2>4, Zenon
  <1>8. ASSUME NEW n \in 0 .. 1, Drawing!RemoveAgent(n)
        PROVE  Fine
    <2>1. /\ cards > 0 /\ rows + n <= MaxArchived /\ cards' = cards - 1 /\ rows' = rows + n
          /\ chosen' = Drawing!Least(chosen, Drawing!Minus(cards', 1))
          /\ scroll' = -1 /\ menu' = FALSE
      BY <1>8 DEF Drawing!RemoveAgent, Drawing!Follow
    <2>2. terminal' = terminal /\ wide' = wide /\ box' = box
      BY <1>8 DEF Drawing!RemoveAgent
    <2>3. cards' \in 0 .. MaxCards /\ rows' \in 0 .. MaxArchived
      BY <1>1, <1>2, <1>3, <2>1
    <2>4. chosen' \in Nat /\ (chosen' < cards' \/ chosen' = 0)
      BY <1>1, <1>2, <1>3, <2>1 DEF Drawing!Least, Drawing!Minus
    <2>5. scroll' \in Nat \cup {-1} /\ menu' \in BOOLEAN /\ wide' \in BOOLEAN
      BY <1>2, <2>1, <2>2, Zenon
    <2> QED
      BY <2>2, <2>3, <2>4, <2>5, Zenon
  <1>9. ASSUME NEW n \in 0 .. MaxArchived, Drawing!Switch(n)
        PROVE  Fine
    BY <1>2, <1>3, <1>9 DEF Drawing!Switch, Drawing!Follow
  <1>10. ASSUME Drawing!ResizeSidebar
         PROVE  Fine
    BY <1>2, <1>3, <1>10 DEF Drawing!ResizeSidebar
  <1>11. ASSUME Drawing!ToggleMenu
         PROVE  Fine
    BY <1>2, <1>3, <1>11 DEF Drawing!ToggleMenu
  <1> HIDE DEF Fine
  <1> QED
    BY <1>4, <1>5, <1>6, <1>7, <1>8, <1>9, <1>10, <1>11 DEF Drawing!SidebarChanges

\* A dialog that is opened shows a row that is selected, and so does a selection.
LEMMA DialogSteps ==
  ASSUME Drawing!LayoutAssumption, DrawingInv,
         \/ \E d \in Drawing!Dialogs : Drawing!OpenDialog(d)
         \/ \E i \in 0 .. MaxRows - 1 : Drawing!SelectRow(i)
         \/ Drawing!CloseDialog
  PROVE  DrawingInv'
PROOF
  <1>1. MaxRows \in Nat
    BY DEF Drawing!LayoutAssumption
  <1>2. Drawing!TypeOK /\ (chosen < cards \/ chosen = 0)
        /\ (box.page \in {"NativeBrowser", "Sessions"} => box.rows > 0)
    BY DEF DrawingInv
  <1>3. ASSUME /\ terminal' = terminal /\ cards' = cards /\ rows' = rows /\ chosen' = chosen
               /\ scroll' = scroll /\ wide' = wide /\ menu' = menu,
               box' \in Drawing!Dialogs \cup {Drawing!NoDialog},
               box'.page \in {"NativeBrowser", "Sessions"} => box'.rows > 0
        PROVE  DrawingInv'
    <2>1. Drawing!TypeOK'
      BY <1>2, <1>3 DEF Drawing!TypeOK
    <2> QED
      BY <1>2, <1>3, <2>1 DEF DrawingInv
  <1>4. ASSUME NEW d \in Drawing!Dialogs, Drawing!OpenDialog(d)
        PROVE  DrawingInv'
    BY <1>3, <1>4 DEF Drawing!OpenDialog, Drawing!sidebar
  <1>5. ASSUME NEW i \in 0 .. MaxRows - 1, Drawing!SelectRow(i)
        PROVE  DrawingInv'
    <2>1. box # Drawing!NoDialog /\ i < box.rows /\ box' = [box EXCEPT !.at = i]
      BY <1>5 DEF Drawing!SelectRow
    <2>2. box \in Drawing!Dialogs
      BY <1>2, <2>1 DEF Drawing!TypeOK
    <2>3. box \in [page : Drawing!Pages, rows : 0 .. MaxRows, at : 0 .. MaxRows, text : Texts]
      BY <2>2 DEF Drawing!Dialogs
    <2>4. i \in 0 .. MaxRows
      BY <1>1
    <2>5. /\ box' \in [page : Drawing!Pages, rows : 0 .. MaxRows, at : 0 .. MaxRows, text : Texts]
          /\ box'.at = i /\ box'.rows = box.rows /\ box'.page = box.page
      BY <2>1, <2>3, <2>4
    <2>6. box'.at < box'.rows
      BY <2>1, <2>5
    <2>7. box' \in Drawing!Dialogs
      BY <2>5, <2>6 DEF Drawing!Dialogs
    <2> QED
      BY <1>2, <1>3, <1>5, <2>5, <2>7 DEF Drawing!SelectRow, Drawing!sidebar
  <1>6. ASSUME Drawing!CloseDialog
        PROVE  DrawingInv'
    <2>1. box' = Drawing!NoDialog /\ box'.page = "none"
      BY <1>6 DEF Drawing!CloseDialog, Drawing!NoDialog
    <2>2. ~(box'.page \in {"NativeBrowser", "Sessions"})
      BY <2>1
    <2> QED
      BY <1>3, <1>6, <2>1, <2>2 DEF Drawing!CloseDialog, Drawing!sidebar
  <1> QED
    BY <1>4, <1>5, <1>6

LEMMA DrawingSteps ==
  ASSUME Drawing!LayoutAssumption, DrawingInv, Drawing!Next \/ UNCHANGED drawingVars
  PROVE  DrawingInv'
PROOF
  <1>1. CASE UNCHANGED drawingVars
    <2>1. /\ terminal' = terminal /\ cards' = cards /\ rows' = rows /\ chosen' = chosen
          /\ scroll' = scroll /\ wide' = wide /\ menu' = menu /\ box' = box
      BY <1>1 DEF drawingVars
    <2> QED
      BY <2>1 DEF DrawingInv, Drawing!TypeOK
  <1>2. CASE box = Drawing!NoDialog /\ Drawing!SidebarChanges
    BY <1>2, SidebarSteps
  <1>3. CASE \E s \in Terminals : Drawing!ResizeTerminal(s)
    <2>1. PICK s \in Terminals : Drawing!ResizeTerminal(s)
      BY <1>3
    <2>2. /\ terminal' \in Terminals /\ cards' = cards /\ rows' = rows /\ chosen' = chosen
          /\ scroll' = scroll /\ wide' = wide /\ menu' = menu /\ box' = box
      BY <2>1 DEF Drawing!ResizeTerminal, Drawing!sidebar
    <2> QED
      BY <2>2 DEF DrawingInv, Drawing!TypeOK
  <1>4. CASE \/ \E d \in Drawing!Dialogs : Drawing!OpenDialog(d)
             \/ \E i \in 0 .. MaxRows - 1 : Drawing!SelectRow(i)
             \/ Drawing!CloseDialog
    BY <1>4, DialogSteps
  <1> QED
    BY <1>1, <1>2, <1>3, <1>4 DEF Drawing!Next

-----------------------------------------------------------------------------
(* Screens.  The numbers of a finite set have an order: the n-th of them is  *)
(* the one with n up to it.                                                  *)

Below(S, i) == {j \in S : j <= i}

\* The count of the numbers up to one is in order, and names each of them.
LEMMA CountsAreInOrder ==
  ASSUME NEW S \in SUBSET Nat, IsFiniteSet(S)
  PROVE  /\ Cardinality(S) \in Nat
         /\ \A i \in S : Cardinality(Below(S, i)) \in 1 .. Cardinality(S)
         /\ \A i, k \in S : i < k => Cardinality(Below(S, i)) < Cardinality(Below(S, k))
PROOF
  <1>1. Cardinality(S) \in Nat
    BY FS_CardinalityType
  <1>2. ASSUME NEW i \in S
        PROVE  /\ IsFiniteSet(Below(S, i)) /\ Cardinality(Below(S, i)) \in 1 .. Cardinality(S)
    <2>1. Below(S, i) \in SUBSET S /\ i \in Below(S, i)
      BY DEF Below
    <2>2. IsFiniteSet(Below(S, i)) /\ Cardinality(Below(S, i)) <= Cardinality(S)
      BY <2>1, FS_Subset
    <2>3. Cardinality(Below(S, i)) \in Nat /\ Cardinality(Below(S, i)) # 0
      BY <2>1, <2>2, FS_CardinalityType, FS_EmptySet
    <2> QED
      BY <1>1, <2>2, <2>3
  <1>3. ASSUME NEW i \in S, NEW k \in S, i < k
        PROVE  Cardinality(Below(S, i)) < Cardinality(Below(S, k))
    <2>1. Below(S, i) \in SUBSET Below(S, k) /\ k \in Below(S, k) /\ k \notin Below(S, i)
      <3>1. i \in Nat /\ k \in Nat
        OBVIOUS
      <3>2. \A j \in S : j \in Nat /\ (j <= i => j <= k)
        BY <1>3, <3>1
      <3>3. k <= k /\ ~(k <= i)
        BY <1>3, <3>1
      <3> QED
        BY <3>2, <3>3, Zenon DEF Below
    <2>2. /\ Cardinality(Below(S, i)) <= Cardinality(Below(S, k))
          /\ Cardinality(Below(S, k)) # Cardinality(Below(S, i))
      BY <1>2, <2>1, FS_Subset
    <2> QED
      BY <1>2, <2>2
  <1> QED
    BY <1>1, <1>2, <1>3

LEMMA CountOfScreens ==
  ASSUME NEW S PROVE Screens!Cardinality(S) = Cardinality(S)
PROOF
  BY DEF Screens!Cardinality, Cardinality

LEMMA NthNumbers ==
  ASSUME NEW S \in SUBSET Nat, IsFiniteSet(S)
  PROVE  /\ Screens!Cardinality(S) \in Nat
         /\ \A n \in 1 .. Screens!Cardinality(S) : Screens!Nth(S, n) \in S
         /\ \A m, n \in 1 .. Screens!Cardinality(S) : m < n => Screens!Nth(S, m) < Screens!Nth(S, n)
         /\ \A i \in S : \E n \in 1 .. Screens!Cardinality(S) : Screens!Nth(S, n) = i
PROOF
  <1> DEFINE N == Screens!Cardinality(S)
             Count(i) == Screens!Cardinality(Below(S, i))
             f == [i \in S |-> Count(i)]
  <1>a. N = Cardinality(S) /\ \A i : Count(i) = Cardinality(Below(S, i))
    BY CountOfScreens
  <1>1. /\ N \in Nat
        /\ \A i \in S : Count(i) \in 1 .. N
        /\ \A i, k \in S : i < k => Count(i) < Count(k)
    BY <1>a, CountsAreInOrder
  <1> HIDE DEF Count
  <1>2. \A i, k \in S : Count(i) = Count(k) => i = k
    BY <1>1
  <1>3. f \in Injection(S, 1 .. N)
    <2>1. f \in [S -> 1 .. N]
      BY <1>1
    <2>2. \A i, k \in S : f[i] = f[k] => i = k
      BY <1>2
    <2> QED
      BY <2>1, <2>2, Fun_IsInj
  <1>4. IsFiniteSet(1 .. N) /\ Cardinality(1 .. N) = N
    BY <1>1, FS_Interval
  <1>5. f \in Surjection(S, 1 .. N)
    BY <1>a, <1>3, <1>4, FS_Injection
  <1>6. \A n \in 1 .. N : \E i \in S : Count(i) = n
    BY <1>5 DEF Surjection
  <1>7. \A n : Screens!Nth(S, n) = CHOOSE i \in S : Count(i) = n
    BY Zenon DEF Screens!Nth, Count, Below
  <1>8. \A n \in 1 .. N : Screens!Nth(S, n) \in S /\ Count(Screens!Nth(S, n)) = n
    BY <1>6, <1>7
  <1>9. ASSUME NEW m \in 1 .. N, NEW n \in 1 .. N, m < n
        PROVE  Screens!Nth(S, m) < Screens!Nth(S, n)
    <2>1. PICK a \in S, b \in S : a = Screens!Nth(S, m) /\ b = Screens!Nth(S, n)
      BY <1>8
    <2>2. Count(a) = m /\ Count(b) = n
      BY <1>8, <2>1
    <2>3. ~(b < a) /\ b # a
      BY <1>1, <1>9, <2>2
    <2> QED
      BY <2>1, <2>3
  <1>10. ASSUME NEW i \in S
         PROVE  \E n \in 1 .. N : Screens!Nth(S, n) = i
    <2>1. Count(i) \in 1 .. N
      BY <1>1
    <2>2. Screens!Nth(S, Count(i)) = i
      BY <1>2, <1>8, <2>1
    <2> QED
      BY <2>1, <2>2
  <1> QED
    BY <1>1, <1>8, <1>9, <1>10

\* Every element of a sequence, at the positions looked at, has its place among
\* the first seen.
LEMMA EveryElementIsSeen ==
  ASSUME NEW s, NEW at \in SUBSET Nat, IsFiniteSet(at)
  PROVE  LET seen == Screens!FirstSeen(s, at)
         IN  /\ \E n \in Nat : DOMAIN seen = 1 .. n
             /\ \A i \in at : /\ Screens!IndexIn(seen, s[i]) \in DOMAIN seen
                              /\ seen[Screens!IndexIn(seen, s[i])] = s[i]
PROOF
  <1> DEFINE first == {i \in at : \A j \in at : s[j] = s[i] => i <= j}
             seen == Screens!FirstSeen(s, at)
  <1>1. first \in SUBSET Nat /\ IsFiniteSet(first)
    BY FS_Subset
  <1>2. seen = [n \in 1 .. Screens!Cardinality(first) |-> s[Screens!Nth(first, n)]]
    BY Zenon DEF Screens!FirstSeen
  <1>3. /\ Screens!Cardinality(first) \in Nat
        /\ \A i \in first : \E n \in 1 .. Screens!Cardinality(first) : Screens!Nth(first, n) = i
    <2> HIDE DEF first
    <2> QED
      BY <1>1, NthNumbers
  <1>4. ASSUME NEW i \in at
        PROVE  Screens!IndexIn(seen, s[i]) \in DOMAIN seen /\ seen[Screens!IndexIn(seen, s[i])] = s[i]
    <2> DEFINE same == {j \in at : s[j] = s[i]}
    <2>1. same \in SUBSET Nat /\ same # {}
      OBVIOUS
    <2>2. PICK k \in same : \A j \in same : k <= j
      <3> HIDE DEF same
      <3> QED
        BY <2>1, LeastNatural
    <2>3. k \in first /\ s[k] = s[i]
      BY <2>2
    <2> HIDE DEF first, seen
    <2>4. PICK n \in 1 .. Screens!Cardinality(first) : Screens!Nth(first, n) = k
      BY <1>3, <2>3
    <2>5. n \in DOMAIN seen /\ seen[n] = s[i]
      BY <1>2, <2>3, <2>4
    <2>6. Screens!IndexIn(seen, s[i]) = CHOOSE m \in DOMAIN seen : seen[m] = s[i]
      BY DEF Screens!IndexIn
    <2> QED
      BY <2>5, <2>6
  <1> HIDE DEF seen
  <1> QED
    BY <1>2, <1>3, <1>4 DEF seen

\* The part of a sequence after one place up to another, and the whole of it.
Piece(whole, from, to) == [k \in 1 .. to - from |-> whole[from + k]]
IsWhole(s, n) == s = [i \in 1 .. n |-> s[i]]

\* A function on 1 .. n is a sequence of length n.
LEMMA LengthOfFunction ==
  ASSUME NEW n \in Nat, NEW s, IsWhole(s, n)
  PROVE  Len(s) = n /\ DOMAIN s = 1 .. n
PROOF
  <1> USE DEF IsWhole
  <1> DEFINE S == {s[i] : i \in 1 .. n}
  <1>1. s \in [1 .. n -> S]
    OBVIOUS
  <1> HIDE DEF S
  <1>2. s \in Seq(S)
    BY <1>1, SeqDef
  <1> QED
    BY <1>1, <1>2

LEMMA PieceIsASequence ==
  ASSUME NEW whole, NEW from \in Nat, NEW to \in Nat, from <= to, NEW S,
         \A i \in 1 .. to : whole[i] \in S
  PROVE  /\ Piece(whole, from, to) \in Seq(S) /\ Len(Piece(whole, from, to)) = to - from
         /\ \A k \in 1 .. to - from : Piece(whole, from, to)[k] = whole[from + k]
PROOF
  <1> DEFINE s == Piece(whole, from, to)
  <1>1. to - from \in Nat /\ \A k \in 1 .. to - from : from + k \in 1 .. to
    OBVIOUS
  <1>2. s \in [1 .. to - from -> S] /\ \A k \in 1 .. to - from : s[k] = whole[from + k]
    BY <1>1 DEF Piece
  <1> HIDE DEF s
  <1>3. s \in Seq(S)
    BY <1>1, <1>2, SeqDef
  <1>4. Len(s) = to - from
    BY <1>1, <1>2, <1>3
  <1> QED
    BY <1>2, <1>3, <1>4 DEF s

\* Two pieces of one whole, the second where the first ends, are one piece of it.
LEMMA PiecesMeet ==
  ASSUME NEW whole, NEW a \in Nat, NEW b \in Nat, a <= b
  PROVE  Piece(whole, 0, a) \o Piece(whole, a, b) = Piece(whole, 0, b)
PROOF
  <1>1. PICK S : \A i \in Nat : whole[i] \in S
    <2>1. \A i \in Nat : whole[i] \in {whole[k] : k \in Nat}
      OBVIOUS
    <2> QED
      BY <2>1
  <1>2. PICK s : s = Piece(whole, 0, a)
    OBVIOUS
  <1>3. PICK t : t = Piece(whole, a, b)
    OBVIOUS
  <1>4. PICK all : all = Piece(whole, 0, b)
    OBVIOUS
  <1>5. /\ \A i \in 1 .. a : whole[i] \in S
        /\ \A i \in 1 .. b : whole[i] \in S
    BY <1>1
  <1>6. /\ s \in Seq(S) /\ Len(s) = a - 0 /\ \A i \in 1 .. a - 0 : s[i] = whole[0 + i]
        /\ t \in Seq(S) /\ Len(t) = b - a /\ \A i \in 1 .. b - a : t[i] = whole[a + i]
        /\ all \in Seq(S) /\ Len(all) = b - 0 /\ \A i \in 1 .. b - 0 : all[i] = whole[0 + i]
    <2>1. 0 \in Nat /\ 0 <= a /\ 0 <= b
      OBVIOUS
    <2>2. s \in Seq(S) /\ Len(s) = a - 0 /\ \A i \in 1 .. a - 0 : s[i] = whole[0 + i]
      BY ONLY <2>1, <1>2, <1>5, PieceIsASequence, a \in Nat
    <2>3. t \in Seq(S) /\ Len(t) = b - a /\ \A i \in 1 .. b - a : t[i] = whole[a + i]
      BY ONLY <1>3, <1>5, PieceIsASequence, a \in Nat, b \in Nat, a <= b
    <2>4. all \in Seq(S) /\ Len(all) = b - 0 /\ \A i \in 1 .. b - 0 : all[i] = whole[0 + i]
      BY ONLY <2>1, <1>4, <1>5, PieceIsASequence, b \in Nat
    <2> QED
      BY <2>2, <2>3, <2>4
  <1>7. /\ Len(s) = a /\ Len(t) = b - a /\ Len(all) = b /\ Len(s) + Len(t) = b
        /\ \A i \in 1 .. a : s[i] = whole[i]
        /\ \A i \in 1 .. b : all[i] = whole[i]
    <2>1. a - 0 = a /\ b - 0 = b /\ a + (b - a) = b /\ \A i \in Nat : 0 + i = i
      OBVIOUS
    <2>2. Len(s) = a /\ Len(t) = b - a /\ Len(all) = b /\ Len(s) + Len(t) = b
      BY <1>6, <2>1, Zenon
    <2>3. \A i \in 1 .. a : s[i] = whole[i]
      <3>1. \A i \in 1 .. a : i \in Nat /\ s[i] = whole[0 + i]
        BY <1>6, <2>1
      <3> QED
        BY <2>1, <3>1, Zenon
    <2>4. \A i \in 1 .. b : all[i] = whole[i]
      <3>1. \A i \in 1 .. b : i \in Nat /\ all[i] = whole[0 + i]
        BY <1>6, <2>1
      <3> QED
        BY <2>1, <3>1, Zenon
    <2> QED
      BY <2>2, <2>3, <2>4
  <1>8. PICK both : both = Joined(s, t)
    OBVIOUS
  <1>9. /\ both \in Seq(S) /\ Len(both) = b
        /\ \A i \in 1 .. b : both[i] = IF i <= a THEN s[i] ELSE t[i - a]
    <2>1. s \in Seq(S) /\ t \in Seq(S)
      BY <1>6
    <2>2. /\ Joined(s, t) \in Seq(S) /\ Len(Joined(s, t)) = Len(s) + Len(t)
          /\ \A i \in 1 .. Len(s) + Len(t) : Joined(s, t)[i] = IF i <= Len(s) THEN s[i] ELSE t[i - Len(s)]
      BY ONLY <2>1, JoinedParts
    <2> QED
      BY <1>7, <1>8, <2>2
  <1>10. ASSUME NEW i \in 1 .. b PROVE both[i] = all[i]
    <2>1. CASE i <= a
      <3>1. i \in 1 .. a
        BY <2>1
      <3> QED
        BY <1>7, <1>9, <2>1, <3>1
    <2>2. CASE ~(i <= a)
      <3>1. i - a \in 1 .. b - a /\ a + (i - a) = i
        BY <2>2
      <3>2. t[i - a] = whole[a + (i - a)]
        BY <1>6, <3>1
      <3> QED
        BY <1>7, <1>9, <2>2, <3>1, <3>2
    <2> QED
      BY <2>1, <2>2
  <1>11. both = all
    BY <1>6, <1>7, <1>9, <1>10, SeqEqual
  <1> QED
    BY <1>2, <1>3, <1>4, <1>8, <1>11, Zenon DEF Joined

\* Pieces of one whole that follow each other are the whole, up to where the
\* last of them ends.
LEMMA PiecesAreTheWhole ==
  ASSUME NEW N \in Nat, NEW whole, NEW ends \in [0 .. N -> Nat], NEW pieces,
         ends[0] = 0, IsWhole(pieces, N), IsWhole(whole, ends[N]),
         \A n \in 1 .. N :
           ends[n - 1] <= ends[n] /\ pieces[n] = Piece(whole, ends[n - 1], ends[n])
  PROVE  Screens!FlattenSeq(pieces) = whole
PROOF
  <1> DEFINE flat == Screens!FlattenSeq(pieces)
  <1>1. Len(pieces) = N
    BY LengthOfFunction
  <1>2. CASE N = 0
    <2>1. flat = pieces
      BY <1>1, <1>2 DEF Screens!FlattenSeq
    <2> HIDE DEF flat
    <2>2. 1 .. N = {} /\ 1 .. ends[N] = {}
      BY <1>2
    <2>3. pieces = [n \in {} |-> pieces[n]]
      BY <2>2 DEF IsWhole
    <2>4. whole = [i \in {} |-> whole[i]]
      BY <2>2 DEF IsWhole
    <2>5. [n \in {} |-> pieces[n]] = [i \in {} |-> whole[i]]
      OBVIOUS
    <2> QED
      BY <2>1, <2>3, <2>4, <2>5 DEF flat
  <1>3. CASE N # 0
    <2> DEFINE f == CHOOSE f : Grown(pieces, N, f)
               Good(m) == f[m] = Piece(whole, 0, ends[m])
               T == {m \in 1 .. N : ~Good(m)}
    <2>1. Grown(pieces, N, f)
      <3>1. \E g : Grown(pieces, N, g)
        BY <1>3, AllGrow
      <3> QED
        BY <3>1
    <2>2. flat = f[N]
      BY <1>1, <1>3 DEF Screens!FlattenSeq, Grown
    <2> HIDE DEF f, flat
    <2>3. \A m \in 1 .. N : f[m] = IF m = 1 THEN pieces[m] ELSE f[m - 1] \o pieces[m]
      BY <2>1 DEF Grown
    <2>4. ASSUME T # {} PROVE FALSE
      <3>1. T \in SUBSET Nat
        OBVIOUS
      <3>2. PICK m \in T : \A k \in T : m <= k
        <4> HIDE DEF T
        <4> QED
          BY <2>4, <3>1, LeastNatural
      <3>3. m \in 1 .. N /\ ~Good(m)
        BY <3>2
      <3>4. PICK a \in Nat, b \in Nat : a = ends[m - 1] /\ b = ends[m] /\ a <= b
        <4>1. m - 1 \in 0 .. N /\ m \in 0 .. N
          BY <3>3
        <4>2. ends[m - 1] \in Nat /\ ends[m] \in Nat /\ ends[m - 1] <= ends[m]
          BY <3>3, <4>1
        <4> QED
          BY <4>2
      <3>5. pieces[m] = Piece(whole, a, b)
        BY <3>3, <3>4
      <3>6. CASE m = 1
        <4>1. m - 1 = 0 /\ a = 0
          BY <3>4, <3>6
        <4>2. f[m] = Piece(whole, 0, b)
          BY <2>3, <3>3, <3>5, <3>6, <4>1
        <4> QED
          BY <3>3, <3>4, <4>2
      <3>7. CASE m # 1
        <4>1. m - 1 \in 1 .. N /\ ~(m <= m - 1)
          BY <3>3, <3>7
        <4>2. Good(m - 1)
          BY <3>2, <4>1
        <4>3. f[m] = Piece(whole, 0, a) \o Piece(whole, a, b)
          BY <2>3, <3>3, <3>4, <3>5, <3>7, <4>2
        <4>4. Piece(whole, 0, a) \o Piece(whole, a, b) = Piece(whole, 0, b)
          BY <3>4, PiecesMeet
        <4> QED
          BY <3>3, <3>4, <4>3, <4>4
      <3> QED
        BY <3>6, <3>7
    <2>5. N \in 1 .. N
      BY <1>3
    <2>6. flat = Piece(whole, 0, ends[N])
      BY <2>2, <2>4, <2>5
    <2>7. Piece(whole, 0, ends[N]) = whole
      <3>1. PICK n \in Nat : n = ends[N]
        BY <2>5
      <3>2. n - 0 = n /\ \A i \in 1 .. n : 0 + i = i
        OBVIOUS
      <3>3. Piece(whole, 0, n) = [i \in 1 .. n |-> whole[i]]
        BY <3>2 DEF Piece
      <3> QED
        BY <3>1, <3>3 DEF IsWhole
    <2> QED
      BY <2>6, <2>7 DEF flat
  <1> QED
    BY <1>2, <1>3

\* The runs of a row: where they start, how many they are, where each ends.
Starts(row) == {c \in DOMAIN row : c = 1 \/ Screens!Common(row[c]) # Screens!Common(row[c - 1])}
RunCount(row) == Screens!Cardinality(Starts(row))
StartOf(row, n) == Screens!Nth(Starts(row), n)
EndOf(row, w, n) == IF n = RunCount(row) THEN w ELSE StartOf(row, n + 1) - 1

\* No run starts after this cell and up to that.
NoneStarts(row, first, last) == \A c \in Starts(row) : ~(first < c /\ c <= last)

\* The first run starts with the row, and each where the one before it ends.
LEMMA RunsFollowEachOther ==
  ASSUME NEW w \in Nat, NEW row, DOMAIN row = 1 .. w
  PROVE  /\ RunCount(row) \in Nat /\ EndOf(row, w, 0) = 0
         /\ \A n \in 0 .. RunCount(row) : EndOf(row, w, n) \in 0 .. w
         /\ \A n \in 1 .. RunCount(row) :
              /\ StartOf(row, n) \in 1 .. w /\ StartOf(row, n) <= EndOf(row, w, n)
              /\ EndOf(row, w, n - 1) = StartOf(row, n) - 1
              /\ NoneStarts(row, StartOf(row, n), EndOf(row, w, n))
PROOF
  <1> DEFINE S == Starts(row)
             N == RunCount(row)
  <1>1. S \in SUBSET Nat /\ S \subseteq 1 .. w /\ IsFiniteSet(S) /\ (w # 0 => 1 \in S)
    <2>1. S \in SUBSET (1 .. w) /\ IsFiniteSet(1 .. w)
      BY FS_Interval DEF Starts
    <2>2. IsFiniteSet(S)
      BY <2>1, FS_Subset
    <2> QED
      BY <2>1, <2>2 DEF Starts
  <1> HIDE DEF S
  <1>2. /\ N \in Nat
        /\ \A n \in 1 .. N : StartOf(row, n) \in S
        /\ \A m, n \in 1 .. N : m < n => StartOf(row, m) < StartOf(row, n)
        /\ \A i \in S : \E n \in 1 .. N : StartOf(row, n) = i
    BY <1>1, NthNumbers DEF StartOf, RunCount, S
  <1> HIDE DEF N
  <1>3. \A n : EndOf(row, w, n) = IF n = N THEN w ELSE StartOf(row, n + 1) - 1
    BY DEF EndOf, N
  <1>4. \A n \in 1 .. N : StartOf(row, n) \in 1 .. w
    BY <1>1, <1>2
  <1>5. ASSUME NEW n \in 0 .. N
        PROVE  EndOf(row, w, n) \in 0 .. w
    <2>1. CASE n = N
      BY <1>3, <2>1
    <2>2. CASE n # N
      <3>1. n + 1 \in 1 .. N
        BY <1>2, <2>2
      <3>2. StartOf(row, n + 1) \in 1 .. w
        BY <1>4, <3>1
      <3>3. StartOf(row, n + 1) - 1 \in 0 .. w
        BY <3>2
      <3> QED
        BY <1>3, <2>2, <3>3
    <2> QED
      BY <2>1, <2>2
  <1>6. EndOf(row, w, 0) = 0
    <2>1. CASE w = 0
      <3>1. 0 \in 0 .. N
        BY <1>2
      <3>2. EndOf(row, w, 0) \in 0 .. w
        BY <1>5, <3>1
      <3> QED
        BY <2>1, <3>2
    <2>2. CASE w # 0
      <3>1. PICK n \in 1 .. N : StartOf(row, n) = 1
        BY <1>1, <1>2, <2>2
      <3>2. 1 \in 1 .. N /\ 0 # N
        BY <1>2, <3>1
      <3>3. StartOf(row, 1) = 1
        <4>1. CASE n = 1
          BY <3>1, <4>1
        <4>2. CASE n # 1
          <5>1. 1 < n
            BY <4>2
          <5>2. StartOf(row, 1) < StartOf(row, n) /\ StartOf(row, 1) \in 1 .. w
            BY <1>2, <1>4, <3>2, <5>1
          <5> QED
            BY <3>1, <5>2
        <4> QED
          BY <4>1, <4>2
      <3>4. EndOf(row, w, 0) = StartOf(row, 0 + 1) - 1
        BY <1>3, <3>2
      <3> QED
        BY <3>3, <3>4
    <2> QED
      BY <2>1, <2>2
  <1>7. ASSUME NEW n \in 1 .. N
        PROVE  /\ StartOf(row, n) <= EndOf(row, w, n)
               /\ EndOf(row, w, n - 1) = StartOf(row, n) - 1
               /\ \A c \in S : ~(StartOf(row, n) < c /\ c <= EndOf(row, w, n))
    <2>1. n - 1 # N /\ (n - 1) + 1 = n
      BY <1>2
    <2>2. EndOf(row, w, n - 1) = StartOf(row, n) - 1
      BY <1>3, <2>1
    <2>3. StartOf(row, n) \in Nat /\ StartOf(row, n) <= w
      BY <1>4
    <2>4. n # N => /\ n + 1 \in 1 .. N /\ StartOf(row, n + 1) \in Nat
                   /\ StartOf(row, n) < StartOf(row, n + 1)
                   /\ EndOf(row, w, n) = StartOf(row, n + 1) - 1
      <3> SUFFICES ASSUME n # N
                   PROVE  /\ n + 1 \in 1 .. N /\ StartOf(row, n + 1) \in Nat
                          /\ StartOf(row, n) < StartOf(row, n + 1)
                          /\ EndOf(row, w, n) = StartOf(row, n + 1) - 1
        OBVIOUS
      <3>1. n + 1 \in 1 .. N /\ n < n + 1
        BY <1>2
      <3>2. StartOf(row, n + 1) \in 1 .. w
        BY <1>4, <3>1
      <3>3. StartOf(row, n) < StartOf(row, n + 1)
        BY <1>2, <3>1
      <3>4. EndOf(row, w, n) = StartOf(row, n + 1) - 1
        BY <1>3
      <3> QED
        BY <3>1, <3>2, <3>3, <3>4
    <2>5. StartOf(row, n) <= EndOf(row, w, n)
      BY <1>3, <2>3, <2>4
    <2>6. ASSUME NEW c \in S, StartOf(row, n) < c, c <= EndOf(row, w, n)
          PROVE  FALSE
      <3>1. PICK m \in 1 .. N : StartOf(row, m) = c
        BY <1>2
      <3>2. m \in Nat /\ n \in Nat /\ c \in Nat /\ m <= N
        BY <1>1, <1>2
      <3>3. ~(m < n) /\ m # n
        BY <1>2, <2>3, <2>6, <3>1, <3>2
      <3>4. n < m /\ n # N
        BY <1>2, <3>2, <3>3
      <3>5. m = n + 1 \/ n + 1 < m
        BY <3>2, <3>4
      <3>6. StartOf(row, n + 1) <= StartOf(row, m)
        BY <1>2, <2>4, <3>1, <3>2, <3>4, <3>5
      <3> QED
        BY <2>4, <2>6, <3>1, <3>2, <3>4, <3>6
    <2> QED
      BY <2>2, <2>5, <2>6
  <1> QED
    BY <1>2, <1>4, <1>5, <1>6, <1>7 DEF N, S, NoneStarts

\* From the start of a run to its end the cells have their style in common.
LEMMA RunsAreUniform ==
  ASSUME NEW w \in Nat, NEW row, DOMAIN row = 1 .. w,
         NEW first \in 1 .. w, NEW last \in 0 .. w,
         NoneStarts(row, first, last), NEW d \in first .. last
  PROVE  Screens!Common(row[d]) = Screens!Common(row[first])
PROOF
  <1> DEFINE T == {c \in first .. last : Screens!Common(row[c]) # Screens!Common(row[first])}
  <1>1. ASSUME T # {} PROVE FALSE
    <2>1. T \in SUBSET Nat
      OBVIOUS
    <2>2. PICK c \in T : \A b \in T : c <= b
      <3> HIDE DEF T
      <3> QED
        BY <1>1, <2>1, LeastNatural
    <2>3. c \in first .. last /\ Screens!Common(row[c]) # Screens!Common(row[first])
      BY <2>2
    <2>4. c # first
      BY <2>3
    <2>5. first < c /\ c <= last /\ c - 1 \in first .. last /\ ~(c <= c - 1) /\ c \in 1 .. w
      BY <2>3, <2>4
    <2>6. Screens!Common(row[c - 1]) = Screens!Common(row[first])
      <3>1. c - 1 \notin T
        BY <2>2, <2>5
      <3> QED
        BY <2>5, <3>1
    <2>7. c \notin Starts(row)
      BY <2>5 DEF NoneStarts
    <2>8. Screens!Common(row[c]) = Screens!Common(row[c - 1])
      BY <2>5, <2>7, Zenon DEF Starts
    <2> QED
      BY <2>3, <2>6, <2>8
  <1> QED
    BY <1>1

\* A cell has a text, a width and a style, and its style is in the table.
IsCell(cell) == cell = [text |-> cell.text, width |-> cell.width, style |-> cell.style]
IsListed(style, styles) ==
  /\ Screens!IndexIn(styles, style) \in DOMAIN styles
  /\ styles[Screens!IndexIn(styles, style)] = style

CellsAreListed(row, w, styles) == \A c \in 1 .. w : IsCell(row[c]) /\ IsListed(row[c].style, styles)

\* The texts of the cells from one after a place up to another.
RunTexts(row, from, to) == [k \in 1 .. to - (from + 1) + 1 |-> row[(from + 1) + k - 1].text]

\* A run stands for the cells from its start to its end.
LEMMA RunExpands ==
  ASSUME NEW w \in Nat, NEW row, DOMAIN row = 1 .. w, NEW styles,
         NEW before \in 0 .. w, NEW last \in 0 .. w, before < last,
         NoneStarts(row, before + 1, last),
         CellsAreListed(row, w, styles),
         NEW run, run.style = Screens!IndexIn(styles, row[before + 1].style),
         run.width = row[before + 1].width,
         run.texts = RunTexts(row, before, last)
  PROVE  Screens!Expanded(run, styles) = Piece(row, before, last)
PROOF
  <1> USE DEF RunTexts, Piece
  <1>1. before + 1 \in 1 .. w /\ last - (before + 1) + 1 = last - before
    OBVIOUS
  <1>2. ASSUME NEW k \in 1 .. last - before
        PROVE  [text |-> run.texts[k], width |-> run.width, style |-> styles[run.style]] = row[before + k]
    <2>1. before + k \in before + 1 .. last /\ before + k \in 1 .. w /\ (before + 1) + k - 1 = before + k
      OBVIOUS
    <2>2. run.texts[k] = row[before + k].text
      BY <1>1, <2>1
    <2>3. Screens!Common(row[before + k]) = Screens!Common(row[before + 1])
      <3>a. PICK first \in 1 .. w : first = before + 1
        BY <1>1
      <3>1. PICK d \in first .. last : d = before + k
        BY <2>1, <3>a
      <3>2. NoneStarts(row, first, last)
        BY <3>a
      <3>3. Screens!Common(row[d]) = Screens!Common(row[first])
        <4>1. w \in Nat /\ DOMAIN row = 1 .. w /\ first \in 1 .. w /\ last \in 0 .. w /\ d \in first .. last
          OBVIOUS
        <4> QED
          BY ONLY <3>2, <4>1, RunsAreUniform
      <3> QED
        BY <3>a, <3>1, <3>3
    <2>4. row[before + k].style = row[before + 1].style /\ row[before + k].width = row[before + 1].width
      BY <2>3 DEF Screens!Common
    <2>5. styles[run.style] = row[before + 1].style
      BY <1>1, Zenon DEF CellsAreListed, IsListed
    <2>6. IsCell(row[before + k])
      BY <2>1 DEF CellsAreListed
    <2> QED
      BY <2>2, <2>4, <2>5, <2>6 DEF IsCell
  <1>3. DOMAIN run.texts = 1 .. last - before
    BY <1>1
  <1> QED
    BY <1>2, <1>3 DEF Screens!Expanded

\* The runs of a row, expanded one after the other, are the row.
LEMMA RunsAreTheRow ==
  ASSUME NEW w \in Nat, NEW row, IsWhole(row, w), NEW styles,
         CellsAreListed(row, w, styles)
  PROVE  LET runs == Screens!Runs(row, styles)
         IN  /\ \A n \in DOMAIN runs : runs[n].style \in DOMAIN styles
             /\ Screens!FlattenSeq([n \in DOMAIN runs |-> Screens!Expanded(runs[n], styles)]) = row
PROOF
  <1> DEFINE runs == Screens!Runs(row, styles)
             N == RunCount(row)
             ends == [n \in 0 .. N |-> EndOf(row, w, n)]
             pieces == [n \in 1 .. N |-> Screens!Expanded(runs[n], styles)]
  <1>1. DOMAIN row = 1 .. w /\ Len(row) = w
    BY LengthOfFunction
  <1>2. /\ N \in Nat /\ EndOf(row, w, 0) = 0
        /\ \A n \in 0 .. N : EndOf(row, w, n) \in 0 .. w
        /\ \A n \in 1 .. N :
             /\ StartOf(row, n) \in 1 .. w /\ StartOf(row, n) <= EndOf(row, w, n)
             /\ EndOf(row, w, n - 1) = StartOf(row, n) - 1
             /\ NoneStarts(row, StartOf(row, n), EndOf(row, w, n))
    BY <1>1, RunsFollowEachOther
  <1>3. runs = [n \in 1 .. N |->
                 [style |-> Screens!IndexIn(styles, row[StartOf(row, n)].style),
                  width |-> row[StartOf(row, n)].width,
                  texts |-> [k \in 1 .. EndOf(row, w, n) - StartOf(row, n) + 1 |->
                              row[StartOf(row, n) + k - 1].text]]]
    BY <1>1, Zenon DEF Screens!Runs, Starts, RunCount, StartOf, EndOf
  <1> HIDE DEF runs, N
  <1>4. ASSUME NEW n \in 1 .. N
        PROVE  /\ runs[n].style \in DOMAIN styles
               /\ ends[n - 1] <= ends[n]
               /\ pieces[n] = Piece(row, ends[n - 1], ends[n])
    <2>1. n \in 0 .. N /\ n - 1 \in 0 .. N
      BY <1>2
    <2>2. PICK before \in 0 .. w, last \in 0 .. w :
            before = EndOf(row, w, n - 1) /\ last = EndOf(row, w, n)
      BY <1>2, <2>1
    <2>3. StartOf(row, n) = before + 1 /\ before + 1 <= last /\ before + 1 \in 1 .. w
      <3>1. StartOf(row, n) \in 1 .. w /\ before = StartOf(row, n) - 1 /\ StartOf(row, n) <= last
        BY <1>2, <2>2
      <3> QED
        BY <3>1
    <2>4. PICK run : run = runs[n]
      OBVIOUS
    <2>5. /\ run.style = Screens!IndexIn(styles, row[before + 1].style)
          /\ run.width = row[before + 1].width
          /\ run.texts = RunTexts(row, before, last)
      BY <1>3, <2>2, <2>3, <2>4 DEF RunTexts
    <2>6. NoneStarts(row, before + 1, last)
      BY <1>2, <2>2, <2>3
    <2>7. before < last
      BY <2>3
    <2>8. Screens!Expanded(run, styles) = Piece(row, before, last)
      <3>1. w \in Nat /\ before \in 0 .. w /\ last \in 0 .. w /\ CellsAreListed(row, w, styles)
        OBVIOUS
      <3> QED
        BY ONLY <1>1, <2>5, <2>6, <2>7, <3>1, RunExpands
    <2>9. run.style \in DOMAIN styles
      BY <2>3, <2>5, Zenon DEF CellsAreListed, IsListed
    <2>10. ends[n] = last /\ ends[n - 1] = before /\ pieces[n] = Screens!Expanded(run, styles)
      BY <2>1, <2>2, <2>4
    <2> HIDE DEF ends, pieces
    <2> QED
      BY <2>4, <2>7, <2>8, <2>9, <2>10
  <1>5. ends[N] = w
    <2>1. N \in 0 .. N
      BY <1>2
    <2>2. ends[N] = EndOf(row, w, N)
      BY <2>1
    <2> QED
      BY <2>2 DEF EndOf, N
  <1>6. Screens!FlattenSeq(pieces) = row
    <2>1. ends \in [0 .. N -> Nat] /\ ends[0] = 0 /\ IsWhole(pieces, N)
      BY <1>2 DEF IsWhole
    <2> HIDE DEF ends, pieces
    <2>2. IsWhole(row, ends[N])
      BY <1>5
    <2> QED
      BY <1>2, <1>4, <2>1, <2>2, PiecesAreTheWhole
  <1>7. DOMAIN runs = 1 .. N
    BY <1>3
  <1>8. pieces = [n \in DOMAIN runs |-> Screens!Expanded(runs[n], styles)]
    BY <1>7
  <1> HIDE DEF pieces, ends
  <1> QED
    BY <1>4, <1>6, <1>7, <1>8 DEF runs

\* A snapshot that can be sent: whole rows of cells, and links that are there.
IsSnapshot(s) ==
  /\ s = [size |-> s.size, wraps |-> s.wraps, links |-> s.links, cells |-> s.cells]
  /\ s.size \in Nat \X Nat
  /\ IsWhole(s.wraps, s.size[1]) /\ IsWhole(s.cells, s.size[1] * s.size[2])
  /\ \A i \in 1 .. s.size[1] * s.size[2] : IsCell(s.cells[i]) /\ Screens!LinkIsValid(s.cells[i], s.links)

LEMMA SnapshotsAreValid ==
  ASSUME NEW s, IsSnapshot(s)
  PROVE  /\ s.size[1] \in Nat /\ s.size[2] \in Nat /\ s.size[1] * s.size[2] \in Nat
         /\ Len(s.cells) = s.size[1] * s.size[2] /\ DOMAIN s.cells = 1 .. s.size[1] * s.size[2]
         /\ Len(s.wraps) = s.size[1] /\ DOMAIN s.wraps = 1 .. s.size[1]
         /\ Screens!Valid(s)
PROOF
  <1>1. s.size[1] \in Nat /\ s.size[2] \in Nat
    BY DEF IsSnapshot
  <1>2. PICK n \in Nat : n = s.size[1] * s.size[2]
    BY <1>1
  <1>3. IsWhole(s.cells, n) /\ IsWhole(s.wraps, s.size[1])
    BY <1>2, Zenon DEF IsSnapshot
  <1>4. Len(s.cells) = n /\ DOMAIN s.cells = 1 .. n /\ Len(s.wraps) = s.size[1] /\ DOMAIN s.wraps = 1 .. s.size[1]
    BY <1>1, <1>3, LengthOfFunction
  <1>5. \A i \in DOMAIN s.cells : Screens!LinkIsValid(s.cells[i], s.links)
    BY <1>2, <1>4, Zenon DEF IsSnapshot
  <1>6. Screens!Valid(s)
    BY <1>2, <1>4, <1>5, Zenon DEF Screens!Valid
  <1> QED
    BY <1>1, <1>2, <1>4, <1>6

\* Where a row of so many cells starts and ends.
LEMMA RowsMeet ==
  ASSUME NEW h \in Nat, NEW w \in Nat, NEW r \in 1 .. h
  PROVE  /\ (r - 1) * w \in Nat /\ r * w = (r - 1) * w + w /\ r * w <= h * w
PROOF
  <1>1. /\ (r - 1) \in Nat /\ (h - r) \in Nat
    OBVIOUS
  <1>2. (r - 1) * w \in Nat /\ (h - r) * w \in Nat
    BY <1>1
  <1>3. r * w = (r - 1) * w + w
    OBVIOUS
  <1>4. h * w = (h - r) * w + r * w
    OBVIOUS
  <1> QED
    BY <1>2, <1>3, <1>4

\* A row of a snapshot is a part of its cells, and all rows are all of them.
LEMMA RowsAreTheCells ==
  ASSUME NEW s, IsSnapshot(s), NEW lines, lines = [r \in 1 .. s.size[1] |-> Screens!Row(s, r)]
  PROVE  /\ \A r \in 1 .. s.size[1] : /\ IsWhole(lines[r], s.size[2])
                                      /\ \A c \in 1 .. s.size[2] : \E i \in DOMAIN s.cells : lines[r][c] = s.cells[i]
         /\ Screens!FlattenSeq(lines) = s.cells
PROOF
  <1>1. PICK h \in Nat, w \in Nat : h = s.size[1] /\ w = s.size[2]
    BY SnapshotsAreValid
  <1>2. /\ h * w \in Nat /\ DOMAIN s.cells = 1 .. h * w /\ IsWhole(s.cells, h * w)
    BY <1>1, SnapshotsAreValid DEF IsSnapshot
  <1>3. ASSUME NEW r \in 1 .. h
        PROVE  lines[r] = [c \in 1 .. w |-> s.cells[(r - 1) * w + c]]
    BY <1>1 DEF Screens!Row
  <1>4. ASSUME NEW r \in 1 .. h
        PROVE  IsWhole(lines[r], w)
    <2>1. lines[r] = [c \in 1 .. w |-> s.cells[(r - 1) * w + c]]
      BY <1>3
    <2> QED
      BY ONLY <2>1 DEF IsWhole
  <1>5. ASSUME NEW r \in 1 .. h, NEW c \in 1 .. w
        PROVE  \E i \in DOMAIN s.cells : lines[r][c] = s.cells[i]
    <2>1. PICK a \in Nat : a = (r - 1) * w /\ a + w <= h * w
      BY RowsMeet
    <2>2. a + c \in 1 .. h * w
      BY <1>2, <2>1
    <2>a. lines[r] = [k \in 1 .. w |-> s.cells[a + k]]
      BY <1>3, <2>1
    <2>3. lines[r][c] = s.cells[a + c]
      BY <2>a
    <2> QED
      BY <1>2, <2>2, <2>3
  <1> DEFINE ends == [r \in 0 .. h |-> r * w]
  <1>6. ASSUME NEW r \in 1 .. h
        PROVE  ends[r - 1] <= ends[r] /\ lines[r] = Piece(s.cells, ends[r - 1], ends[r])
    <2>1. PICK a \in Nat : a = (r - 1) * w /\ r * w = a + w
      BY RowsMeet
    <2>2. r \in 0 .. h /\ r - 1 \in 0 .. h
      OBVIOUS
    <2>3. ends[r - 1] = a /\ ends[r] = a + w
      BY <2>1, <2>2
    <2>4. a <= a + w /\ (a + w) - a = w
      OBVIOUS
    <2>5. lines[r] = [c \in 1 .. w |-> s.cells[a + c]]
      BY <1>3, <2>1
    <2>6. lines[r] = Piece(s.cells, a, a + w)
      BY <2>4, <2>5 DEF Piece
    <2> HIDE DEF ends
    <2> QED
      BY <2>3, <2>4, <2>6
  <1>7. ends \in [0 .. h -> Nat] /\ ends[0] = 0 /\ ends[h] = h * w
    <2>1. 0 \in 0 .. h /\ h \in 0 .. h /\ 0 * w = 0 /\ \A r \in 0 .. h : r * w \in Nat
      OBVIOUS
    <2> QED
      BY <2>1
  <1>8. IsWhole(lines, h)
    BY <1>1 DEF IsWhole
  <1> HIDE DEF ends
  <1>9. IsWhole(s.cells, ends[h])
    BY <1>2, <1>7
  <1>10. Screens!FlattenSeq(lines) = s.cells
    BY <1>6, <1>7, <1>8, <1>9, PiecesAreTheWhole
  <1> QED
    BY <1>1, <1>4, <1>5, <1>10

\* The styles of the cells are all in the table, which is never empty.
LEMMA StylesAreListed ==
  ASSUME NEW s, IsSnapshot(s)
  PROVE  /\ Screens!Encode(s).styles # <<>>
         /\ \A i \in DOMAIN s.cells : IsListed(s.cells[i].style, Screens!Encode(s).styles)
PROOF
  <1> DEFINE all == [i \in 0 .. Len(s.cells) |-> IF i = 0 THEN Screens!DefaultStyle ELSE s.cells[i].style]
             styles == Screens!FirstSeen(all, DOMAIN all)
  <1>1. Screens!Encode(s).styles = styles
    BY DEF Screens!Encode
  <1>2. PICK n \in Nat : n = Len(s.cells) /\ DOMAIN s.cells = 1 .. n
    BY SnapshotsAreValid
  <1>3. /\ DOMAIN all = 0 .. n /\ DOMAIN all \in SUBSET Nat /\ IsFiniteSet(DOMAIN all)
        /\ \A i \in 1 .. n : all[i] = s.cells[i].style
    <2>1. DOMAIN all = 0 .. n /\ \A i \in 1 .. n : all[i] = s.cells[i].style
      BY <1>2
    <2>2. IsFiniteSet(0 .. n) /\ 0 .. n \in SUBSET Nat
      BY FS_Interval
    <2> QED
      BY <2>1, <2>2
  <1> HIDE DEF all
  <1>4. /\ \E m \in Nat : DOMAIN styles = 1 .. m
        /\ \A i \in DOMAIN all : /\ Screens!IndexIn(styles, all[i]) \in DOMAIN styles
                                 /\ styles[Screens!IndexIn(styles, all[i])] = all[i]
    BY <1>3, EveryElementIsSeen
  <1> HIDE DEF styles
  <1>5. \A i \in 1 .. n : IsListed(s.cells[i].style, styles)
    <2> SUFFICES ASSUME NEW i \in 1 .. n PROVE IsListed(s.cells[i].style, styles)
      OBVIOUS
    <2>1. i \in DOMAIN all /\ all[i] = s.cells[i].style
      BY <1>3
    <2> QED
      BY <1>4, <2>1 DEF IsListed
  <1>6. styles # <<>>
    <2>1. 0 \in DOMAIN all
      BY <1>3
    <2>2. DOMAIN styles # {}
      BY <1>4, <2>1
    <2>3. DOMAIN <<>> = {}
      OBVIOUS
    <2> QED
      BY <2>2, <2>3
  <1> QED
    BY <1>1, <1>2, <1>5, <1>6

\* A full frame brings the client the snapshot it was made of.
LEMMA FramesAreDecoded ==
  ASSUME NEW s, IsSnapshot(s)
  PROVE  Screens!Decode(Screens!Encode(s)) = s
PROOF
  <1> DEFINE wire == Screens!Encode(s)
             lines == [r \in DOMAIN wire.rows |->
                        Screens!FlattenSeq([n \in DOMAIN wire.rows[r] |->
                                             Screens!Expanded(wire.rows[r][n], wire.styles)])]
             decoded == [size |-> wire.size, wraps |-> wire.wraps, links |-> wire.links,
                         cells |-> Screens!FlattenSeq(lines)]
  <1>1. PICK h \in Nat, w \in Nat : h = s.size[1] /\ w = s.size[2]
    BY SnapshotsAreValid
  <1>2. PICK styles : styles = wire.styles
    OBVIOUS
  <1>3. /\ wire.size = s.size /\ wire.wraps = s.wraps /\ wire.links = s.links
        /\ wire.rows = [r \in 1 .. h |-> Screens!Runs(Screens!Row(s, r), styles)]
    BY <1>1, <1>2 DEF Screens!Encode
  <1> DEFINE all == [r \in 1 .. s.size[1] |-> Screens!Row(s, r)]
  <1>4. /\ \A r \in 1 .. h : /\ IsWhole(all[r], w)
                             /\ \A c \in 1 .. w : \E i \in DOMAIN s.cells : all[r][c] = s.cells[i]
        /\ Screens!FlattenSeq(all) = s.cells
    <2> HIDE DEF wire
    <2>1. PICK some : some = all
      OBVIOUS
    <2>2. some = [r \in 1 .. s.size[1] |-> Screens!Row(s, r)]
      BY <2>1
    <2> HIDE DEF all
    <2> QED
      BY <1>1, <2>1, <2>2, RowsAreTheCells
  <1>5. DOMAIN all = 1 .. h /\ \A r \in 1 .. h : all[r] = Screens!Row(s, r)
    BY <1>1
  <1>6. styles # <<>> /\ \A i \in DOMAIN s.cells : IsListed(s.cells[i].style, styles)
    BY <1>2, StylesAreListed
  <1>7. \A i \in DOMAIN s.cells : IsCell(s.cells[i])
    BY SnapshotsAreValid, Zenon DEF IsSnapshot
  <1> HIDE DEF wire, all
  <1>8. ASSUME NEW r \in 1 .. h
        PROVE  /\ \A n \in DOMAIN wire.rows[r] : wire.rows[r][n].style \in DOMAIN styles
               /\ Screens!FlattenSeq([n \in DOMAIN wire.rows[r] |->
                                       Screens!Expanded(wire.rows[r][n], styles)]) = all[r]
               /\ Len(all[r]) = w
    <2>1. PICK row : row = all[r]
      OBVIOUS
    <2>2. IsWhole(row, w)
      BY <1>4, <2>1
    <2>3. CellsAreListed(row, w, styles)
      BY <1>4, <1>6, <1>7, <2>1 DEF CellsAreListed
    <2>4. PICK runs : runs = Screens!Runs(row, styles)
      OBVIOUS
    <2>5. wire.rows[r] = runs
      BY <1>3, <1>5, <2>1, <2>4
    <2>6. /\ \A n \in DOMAIN runs : runs[n].style \in DOMAIN styles
          /\ Screens!FlattenSeq([n \in DOMAIN runs |-> Screens!Expanded(runs[n], styles)]) = row
      BY <2>2, <2>3, <2>4, RunsAreTheRow, Zenon
    <2>7. Len(row) = w
      BY <2>2, LengthOfFunction
    <2> QED
      BY <2>1, <2>5, <2>6, <2>7, Zenon
  <1>9. lines = all
    <2>1. DOMAIN wire.rows = 1 .. h
      BY <1>3
    <2>2. \A r \in 1 .. h : lines[r] = all[r]
      BY <1>2, <1>8, <2>1
    <2>3. lines = [r \in 1 .. h |-> lines[r]]
      BY <2>1
    <2>4. all = [r \in 1 .. h |-> all[r]]
      BY <1>1 DEF all
    <2> HIDE DEF lines
    <2> QED
      BY <2>2, <2>3, <2>4
  <1>10. Len(wire.rows) = h /\ DOMAIN wire.rows = 1 .. h
    <2>1. IsWhole(wire.rows, h)
      BY <1>3 DEF IsWhole
    <2> QED
      BY <2>1, LengthOfFunction
  <1>11. decoded = s
    <2> HIDE DEF lines
    <2> QED
      BY <1>3, <1>4, <1>9, Zenon DEF IsSnapshot
  <1>12. /\ Len(wire.rows) = wire.size[1] /\ wire.styles # <<>>
         /\ \A r \in DOMAIN wire.rows :
              /\ Len(lines[r]) = wire.size[2]
              /\ \A n \in DOMAIN wire.rows[r] : wire.rows[r][n].style \in DOMAIN wire.styles
         /\ Screens!Valid(decoded)
    <2> HIDE DEF lines, decoded
    <2> QED
      BY <1>1, <1>2, <1>3, <1>6, <1>8, <1>9, <1>10, <1>11, SnapshotsAreValid
  <1>13. Screens!Decode(wire) = decoded
    BY <1>12, Zenon DEF Screens!Decode
  <1> HIDE DEF decoded
  <1> QED
    BY <1>11, <1>13 DEF wire

\* A diff between two snapshots of one size, applied to the one, makes the other.
LEMMA DiffsAreApplied ==
  ASSUME NEW s, IsSnapshot(s), NEW t, IsSnapshot(t), s.size = t.size
  PROVE  Screens!Apply(s, Screens!Diff(s, t)) = t
PROOF
  <1> DEFINE diff == Screens!Diff(s, t)
  <1>1. /\ diff.size = t.size /\ diff.links = t.links
        /\ diff.cells = [i \in {j \in DOMAIN s.cells : s.cells[j] # t.cells[j]} |-> t.cells[i]]
        /\ diff.wraps = [r \in {j \in DOMAIN s.wraps : s.wraps[j] # t.wraps[j]} |-> t.wraps[r]]
    BY DEF Screens!Diff
  <1> HIDE DEF diff
  <1>2. /\ DOMAIN s.cells = DOMAIN t.cells /\ DOMAIN s.wraps = DOMAIN t.wraps
        /\ t.cells = [i \in DOMAIN t.cells |-> t.cells[i]]
        /\ t.wraps = [i \in DOMAIN t.wraps |-> t.wraps[i]]
    <2>1. /\ DOMAIN s.cells = DOMAIN t.cells /\ DOMAIN s.wraps = DOMAIN t.wraps
          /\ DOMAIN t.cells = 1 .. t.size[1] * t.size[2] /\ DOMAIN t.wraps = 1 .. t.size[1]
      BY SnapshotsAreValid
    <2>2. IsWhole(t.cells, t.size[1] * t.size[2]) /\ IsWhole(t.wraps, t.size[1])
      BY DEF IsSnapshot
    <2> QED
      BY <2>1, <2>2, Zenon DEF IsWhole
  <1>3. Screens!Patched(s.cells, diff.cells) = t.cells
    <2>1. \A i \in DOMAIN s.cells :
            (IF i \in DOMAIN diff.cells THEN diff.cells[i] ELSE s.cells[i]) = t.cells[i]
      BY <1>1
    <2> QED
      BY <1>2, <2>1 DEF Screens!Patched
  <1>4. Screens!Patched(s.wraps, diff.wraps) = t.wraps
    <2>1. \A i \in DOMAIN s.wraps :
            (IF i \in DOMAIN diff.wraps THEN diff.wraps[i] ELSE s.wraps[i]) = t.wraps[i]
      BY <1>1
    <2> QED
      BY <1>2, <2>1 DEF Screens!Patched
  <1>5. \A i \in DOMAIN s.cells : Screens!LinkIsValid(t.cells[i], diff.links)
    BY <1>1, <1>2, SnapshotsAreValid DEF Screens!Valid
  <1>6. DOMAIN diff.cells \subseteq DOMAIN s.cells /\ DOMAIN diff.wraps \subseteq DOMAIN s.wraps
    BY <1>1
  <1>7. Screens!Accepts(s, diff)
    BY <1>1, <1>3, <1>5, <1>6, Zenon DEF Screens!Accepts
  <1>8. Screens!Apply(s, diff) = [size |-> t.size, links |-> t.links, wraps |-> t.wraps, cells |-> t.cells]
    BY <1>1, <1>3, <1>4, <1>7, Zenon DEF Screens!Apply
  <1>9. t = [size |-> t.size, wraps |-> t.wraps, links |-> t.links, cells |-> t.cells]
    BY DEF IsSnapshot
  <1> QED
    BY <1>8, <1>9 DEF diff

\* The client has the snapshot of the last frame, which has been one of the screen.
ScreensInv ==
  /\ size \in Nat \X Nat
  /\ IsWhole(screen, size[1] * size[2]) /\ IsWhole(wraps, size[1])
  /\ IsSnapshot(sent) /\ copy = sent

\* The snapshot of the screen has its cells, and a table with all their links.
LEMMA ScreensAreSnapshots ==
  ASSUME size \in Nat \X Nat, IsWhole(screen, size[1] * size[2]), IsWhole(wraps, size[1])
  PROVE  IsSnapshot(Screens!Snapshot) /\ Screens!Snapshot.size = size
PROOF
  <1> DEFINE uris == [i \in DOMAIN screen |-> screen[i].uri]
             at == {i \in DOMAIN screen : screen[i].uri # None}
             links == Screens!FirstSeen(uris, at)
             cells == [i \in DOMAIN screen |->
                        [text |-> screen[i].text, width |-> screen[i].width,
                         style |-> [face |-> screen[i].face,
                                    link |-> IF screen[i].uri = None THEN 0
                                             ELSE Screens!IndexIn(links, screen[i].uri)]]]
  <1>1. Screens!Snapshot = [size |-> size, wraps |-> wraps, links |-> links, cells |-> cells]
    BY Zenon DEF Screens!Snapshot
  <1>2. PICK n \in Nat : n = size[1] * size[2]
    OBVIOUS
  <1>3. DOMAIN screen = 1 .. n
    BY <1>2 DEF IsWhole
  <1>4. at \in SUBSET Nat /\ IsFiniteSet(at)
    <2>1. at \in SUBSET (1 .. n) /\ IsFiniteSet(1 .. n)
      BY <1>3, FS_Interval
    <2>2. PICK set \in SUBSET (1 .. n) : set = at
      BY <2>1
    <2>3. set \in SUBSET Nat
      BY <2>2
    <2>4. IsFiniteSet(set)
      BY ONLY <2>1, <2>2, FS_Subset
    <2> HIDE DEF at
    <2> QED
      BY <2>2, <2>3, <2>4
  <1>5. \A i \in at : uris[i] = screen[i].uri
    OBVIOUS
  <1>6. \A i \in at : Screens!IndexIn(links, uris[i]) \in DOMAIN links
    <2> HIDE DEF uris, at
    <2> QED
      BY <1>4, EveryElementIsSeen
  <1>7. \A i \in DOMAIN screen : screen[i].uri # None => Screens!IndexIn(links, screen[i].uri) \in DOMAIN links
    <2> SUFFICES ASSUME NEW i \in DOMAIN screen, screen[i].uri # None
                 PROVE  Screens!IndexIn(links, screen[i].uri) \in DOMAIN links
      OBVIOUS
    <2>1. i \in at
      OBVIOUS
    <2> HIDE DEF uris, at, links
    <2> QED
      BY <1>5, <1>6, <2>1
  <1> HIDE DEF links
  <1>8. ASSUME NEW i \in 1 .. n
        PROVE  IsCell(cells[i]) /\ Screens!LinkIsValid(cells[i], links)
    <2>1. cells[i] = [text |-> screen[i].text, width |-> screen[i].width,
                      style |-> [face |-> screen[i].face,
                                 link |-> IF screen[i].uri = None THEN 0
                                          ELSE Screens!IndexIn(links, screen[i].uri)]]
      BY <1>3
    <2>2. IsCell(cells[i])
      BY ONLY <2>1 DEF IsCell
    <2>3. cells[i].style.link = IF screen[i].uri = None THEN 0 ELSE Screens!IndexIn(links, screen[i].uri)
      BY <2>1
    <2>4. cells[i].style.link \in {0} \cup DOMAIN links
      BY <1>3, <1>7, <2>3
    <2> QED
      BY <2>2, <2>4 DEF Screens!LinkIsValid
  <1>9. IsWhole(cells, n)
    BY <1>3 DEF IsWhole
  <1> HIDE DEF cells
  <1>10. PICK s : s = [size |-> size, wraps |-> wraps, links |-> links, cells |-> cells]
    OBVIOUS
  <1>11. s.size = size /\ s.wraps = wraps /\ s.links = links /\ s.cells = cells
    BY <1>10
  <1>12. IsSnapshot(s)
    <2>1. s = [size |-> s.size, wraps |-> s.wraps, links |-> s.links, cells |-> s.cells]
      BY <1>10, <1>11, Zenon
    <2>2. IsWhole(s.wraps, s.size[1]) /\ IsWhole(s.cells, s.size[1] * s.size[2])
      BY <1>2, <1>9, <1>11
    <2> QED
      BY <1>2, <1>8, <1>11, <2>1, <2>2 DEF IsSnapshot
  <1> QED
    BY <1>1, <1>10, <1>11, <1>12

\* So is a blank one of any size.
LEMMA BlankIsASnapshot ==
  ASSUME NEW z \in Nat \X Nat
  PROVE  IsSnapshot(Screens!BlankSnapshot(z)) /\ Screens!BlankSnapshot(z).size = z
PROOF
  <1>1. PICK n \in Nat : n = z[1] * z[2]
    OBVIOUS
  <1>2. PICK blank : blank = [text |-> Screens!Empty, width |-> "narrow",
                              style |-> [face |-> "default", link |-> 0]]
    OBVIOUS
  <1>3. PICK s : s = Screens!BlankSnapshot(z)
    OBVIOUS
  <1>4. s = [size |-> z, wraps |-> [r \in 1 .. z[1] |-> FALSE], links |-> <<>>,
             cells |-> [i \in 1 .. n |-> blank]]
    BY <1>1, <1>2, <1>3, Zenon DEF Screens!BlankSnapshot
  <1>5. /\ s.size = z /\ s.wraps = [r \in 1 .. z[1] |-> FALSE] /\ s.links = <<>>
        /\ s.cells = [i \in 1 .. n |-> blank]
    BY <1>4
  <1>6. IsCell(blank) /\ \A links : Screens!LinkIsValid(blank, links)
    BY <1>2 DEF IsCell, Screens!LinkIsValid
  <1>7. \A i \in 1 .. n : s.cells[i] = blank
    BY <1>5
  <1>8. IsWhole(s.wraps, z[1]) /\ IsWhole(s.cells, n)
    BY <1>5 DEF IsWhole
  <1>9. s = [size |-> s.size, wraps |-> s.wraps, links |-> s.links, cells |-> s.cells]
    BY <1>4, <1>5, Zenon
  <1> QED
    BY <1>1, <1>3, <1>5, <1>6, <1>7, <1>8, <1>9 DEF IsSnapshot

\* A patch that is accepted leaves a snapshot valid.
LEMMA AcceptedPatches ==
  ASSUME NEW s, IsSnapshot(s), NEW diff, Screens!Accepts(s, diff)
  PROVE  Screens!Valid(Screens!Apply(s, diff))
PROOF
  <1>1. PICK cells, marks : /\ cells = Screens!Patched(s.cells, diff.cells)
                            /\ marks = Screens!Patched(s.wraps, diff.wraps)
    OBVIOUS
  <1>2. PICK n \in Nat, h \in Nat : n = s.size[1] * s.size[2] /\ h = s.size[1]
    BY SnapshotsAreValid
  <1>3. DOMAIN s.cells = 1 .. n /\ DOMAIN s.wraps = 1 .. h
    BY <1>2, SnapshotsAreValid
  <1>4. IsWhole(cells, n) /\ IsWhole(marks, h)
    BY <1>1, <1>3 DEF IsWhole, Screens!Patched
  <1>5. Len(cells) = n /\ DOMAIN cells = 1 .. n /\ Len(marks) = h
    BY <1>4, LengthOfFunction
  <1>6. /\ s.size = diff.size
        /\ \A i \in DOMAIN s.cells : Screens!LinkIsValid(cells[i], diff.links)
    BY <1>1, Zenon DEF Screens!Accepts
  <1>7. Screens!Apply(s, diff) = [size |-> diff.size, links |-> diff.links, wraps |-> marks, cells |-> cells]
    BY <1>1, Zenon DEF Screens!Apply
  <1> QED
    BY <1>2, <1>3, <1>5, <1>6, <1>7 DEF Screens!Valid

LEMMA ScreensAreCopied ==
  ASSUME ScreensInv
  PROVE  Screens!TypeOK /\ Screens!CopyIsWhatWasSent /\ Screens!PatchesLeaveItValid
PROOF
  <1>1. /\ size \in Nat \X Nat /\ IsWhole(screen, size[1] * size[2]) /\ IsWhole(wraps, size[1])
        /\ IsSnapshot(sent) /\ copy = sent
    BY DEF ScreensInv
  <1>2. IsSnapshot(Screens!Snapshot)
    BY <1>1, ScreensAreSnapshots
  <1>3. Len(screen) = size[1] * size[2]
    <2>1. PICK n \in Nat : n = size[1] * size[2]
      BY <1>1
    <2> QED
      BY <1>1, <2>1, LengthOfFunction
  <1>4. Screens!TypeOK
    BY <1>1, <1>2, <1>3, SnapshotsAreValid DEF Screens!TypeOK
  <1>5. Screens!PatchesLeaveItValid
    BY <1>1, AcceptedPatches DEF Screens!PatchesLeaveItValid
  <1> QED
    BY <1>1, <1>4, <1>5 DEF Screens!CopyIsWhatWasSent

LEMMA ScreensStart ==
  ASSUME Screens!SnapshotsAssumption, Screens!Init
  PROVE  ScreensInv
PROOF
  <1>1. size \in Nat \X Nat
    BY DEF Screens!SnapshotsAssumption, Screens!Init
  <1>2. IsWhole(screen, size[1] * size[2])
    <2>1. PICK n \in Nat : n = size[1] * size[2]
      BY <1>1
    <2>2. screen = [i \in 1 .. n |-> Screens!Blank]
      BY <2>1 DEF Screens!Init
    <2> QED
      BY <2>1, <2>2 DEF IsWhole
  <1>3. IsWhole(wraps, size[1])
    <2>1. wraps = [r \in 1 .. size[1] |-> FALSE]
      BY DEF Screens!Init
    <2> QED
      BY <2>1 DEF IsWhole
  <1>4. IsSnapshot(sent) /\ copy = sent
    BY <1>1, BlankIsASnapshot DEF Screens!Init
  <1> QED
    BY <1>1, <1>2, <1>3, <1>4 DEF ScreensInv

LEMMA ScreensSteps ==
  ASSUME Screens!SnapshotsAssumption, ScreensInv, Screens!Next \/ UNCHANGED screensVars
  PROVE  ScreensInv'
PROOF
  <1>1. /\ size \in Nat \X Nat /\ IsWhole(screen, size[1] * size[2]) /\ IsWhole(wraps, size[1])
        /\ IsSnapshot(sent) /\ copy = sent
    BY DEF ScreensInv
  <1>2. CASE UNCHANGED screensVars
    BY <1>1, <1>2 DEF screensVars, ScreensInv
  <1>3. ASSUME NEW i \in DOMAIN screen, NEW cell \in Glyphs, Screens!Draw(i, cell)
        PROVE  ScreensInv'
    <2>1. screen' = [screen EXCEPT ![i] = cell] /\ UNCHANGED <<size, wraps, sent, copy>>
      BY <1>3 DEF Screens!Draw
    <2>2. PICK n : n = size[1] * size[2]
      OBVIOUS
    <2>3. IsWhole(screen', n)
      BY <1>1, <2>1, <2>2 DEF IsWhole
    <2> QED
      BY <1>1, <2>1, <2>2, <2>3 DEF ScreensInv
  <1>4. ASSUME NEW r \in DOMAIN wraps, Screens!Wrap(r)
        PROVE  ScreensInv'
    <2>1. wraps' = [wraps EXCEPT ![r] = ~@] /\ UNCHANGED <<size, screen, sent, copy>>
      BY <1>4 DEF Screens!Wrap
    <2>2. IsWhole(wraps', size[1])
      BY <1>1, <2>1 DEF IsWhole
    <2> QED
      BY <1>1, <2>1, <2>2 DEF ScreensInv
  <1>5. ASSUME NEW z \in Sizes, Screens!Resize(z)
        PROVE  ScreensInv'
    <2>1. /\ z \in Nat \X Nat /\ size' = z /\ sent' = sent /\ copy' = copy
          /\ wraps' = [r \in 1 .. z[1] |-> FALSE]
          /\ screen' = [i \in 1 .. (z[1] * z[2]) |-> IF i \in DOMAIN screen THEN screen[i] ELSE Screens!Blank]
      BY <1>5 DEF Screens!Resize, Screens!SnapshotsAssumption
    <2>2. IsWhole(wraps', z[1])
      BY <2>1 DEF IsWhole
    <2>3. PICK n : n = z[1] * z[2]
      OBVIOUS
    <2>4. IsWhole(screen', n)
      BY <2>1, <2>3 DEF IsWhole
    <2> QED
      BY <1>1, <2>1, <2>2, <2>3, <2>4 DEF ScreensInv
  <1>6. IsSnapshot(Screens!Snapshot) /\ Screens!Snapshot.size = size
    BY <1>1, ScreensAreSnapshots
  <1>7. ASSUME Screens!SendFull
        PROVE  ScreensInv'
    <2>1. /\ sent' = Screens!Snapshot /\ copy' = Screens!Decode(Screens!Encode(Screens!Snapshot))
          /\ UNCHANGED <<size, screen, wraps>>
      BY <1>7 DEF Screens!SendFull
    <2>2. copy' = sent' /\ IsSnapshot(sent')
      BY <1>6, <2>1, FramesAreDecoded
    <2> QED
      BY <1>1, <2>1, <2>2 DEF ScreensInv
  <1>8. ASSUME Screens!SendDiff
        PROVE  ScreensInv'
    <2>1. /\ Screens!Diff(sent, Screens!Snapshot) # None
          /\ sent' = Screens!Snapshot /\ copy' = Screens!Apply(copy, Screens!Diff(sent, Screens!Snapshot))
          /\ UNCHANGED <<size, screen, wraps>>
      BY <1>8 DEF Screens!SendDiff
    <2>2. sent.size = Screens!Snapshot.size
      BY <2>1 DEF Screens!Diff
    <2>3. copy' = sent' /\ IsSnapshot(sent')
      BY <1>1, <1>6, <2>1, <2>2, DiffsAreApplied
    <2> QED
      BY <1>1, <2>1, <2>3 DEF ScreensInv
  <1> QED
    BY <1>2, <1>3, <1>4, <1>5, <1>7, <1>8 DEF Screens!Next

-----------------------------------------------------------------------------
(* What a client has of a screen is of one state of it: the text of a mouse  *)
(* selection that began on the live screen is a part of one state, however    *)
(* the user scrolled and the agent wrote meanwhile, or the frame that cancels  *)
(* the selection is still to come (TerminalSelection and the order of frames  *)
(* and viewports); and after any frames and patches the client's copy is the   *)
(* very snapshot the last one was made of, its rows of runs, styles, widths   *)
(* and links included (WireSnapshot, TerminalSnapshot::diff and apply).       *)
THEOREM ScreensStayOfOneState == Spec => []ScreensAreOfOneState
PROOF
  <1> USE DisplayAssumption DEF DisplayAssumption
  <1>1. Init => MouseInv /\ ScreensInv
    BY MouseStarts, ScreensStart DEF Init
  <1>2. MouseInv /\ ScreensInv /\ [Next]_vars => MouseInv' /\ ScreensInv'
    <2> SUFFICES ASSUME MouseInv, ScreensInv, [Next]_vars PROVE MouseInv' /\ ScreensInv'
      OBVIOUS
    <2>1. [Mouse!Next]_(Mouse!vars)
      BY DEF Next, vars, mouseVars, Mouse!vars
    <2>2. Screens!Next \/ UNCHANGED screensVars
      BY DEF Next, vars
    <2> QED
      BY <2>1, <2>2, MouseSteps, ScreensSteps
  <1>3. MouseInv /\ ScreensInv => ScreensAreOfOneState
    BY MouseKeepsItsPromises, ScreensAreCopied DEF ScreensAreOfOneState
  <1> QED
    BY <1>1, <1>2, <1>3, PTL DEF Spec

(* A click picks what is drawn under it, in the sidebar and in the dialogs,  *)
(* at any size of the terminal, with any number of agents, conversations and *)
(* rows, and whatever was scrolled, selected, added or removed before; and   *)
(* from what a harness is sent it can tell the modified keys and the cells of *)
(* the mouse (render_* and click_action, encode_key and encode_mouse).        *)
THEOREM InputStaysUnderstood == Spec => []InputIsUnderstood
PROOF
  <1> USE DisplayAssumption DEF DisplayAssumption
  <1>1. Init => DrawingInv /\ InputInv
    BY DrawingStarts, InputStarts DEF Init
  <1>2. DrawingInv /\ InputInv /\ [Next]_vars => DrawingInv' /\ InputInv'
    <2> SUFFICES ASSUME DrawingInv, InputInv, [Next]_vars PROVE DrawingInv' /\ InputInv'
      OBVIOUS
    <2>1. Drawing!Next \/ UNCHANGED drawingVars
      BY DEF Next, vars
    <2>2. Input!Next \/ UNCHANGED inputVars
      BY DEF Next, vars
    <2> QED
      BY <2>1, <2>2, DrawingSteps, InputSteps
  <1>3. DrawingInv /\ InputInv => InputIsUnderstood
    <2> SUFFICES ASSUME DrawingInv, InputInv PROVE InputIsUnderstood
      OBVIOUS
    <2>1. Drawing!TypeOK
      BY DEF DrawingInv
    <2>2. Drawing!SidebarClicksFollowTheRows /\ Drawing!SelectionIsVisible /\ Drawing!ClicksFollowTheDialog
      BY SidebarIsClicked, DialogIsClicked
    <2>3. Input!TypeOK /\ Input!KeysAreToldApart /\ Input!CellsAreToldApart
      BY InputIsToldApart
    <2> QED
      BY <2>1, <2>2, <2>3 DEF InputIsUnderstood
  <1> QED
    BY <1>1, <1>2, <1>3, PTL DEF Spec
=============================================================================
