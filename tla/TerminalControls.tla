-------------------------- MODULE TerminalControls --------------------------
(***************************************************************************)
(* What Svarm itself recognises in an agent's output (terminal.rs,         *)
(* recognition.rs 405-507) and the reader thread that acts on it            *)
(* (terminal_process.rs 384-478): questions to the terminal are answered,   *)
(* keyboard modes and cursor styles followed, conversation titles reported, *)
(* and all of it is passed on to the emulator.  Reads cut the output         *)
(* anywhere, and the client's palette comes and goes meanwhile.              *)
(*                                                                         *)
(* Output is made of fragments; a fragment says which bytes the harness     *)
(* writes and what it means by them.  A byte is a character's name; "a" is  *)
(* any visible one.  A title's text is two bytes, "T" and an identity.      *)
(***************************************************************************)
EXTENDS Integers, Sequences, FiniteSets

CONSTANTS Outputs,    \* what a harness may write: sequences of fragments,
                      \* [bytes, means, value]
          MaxStack,   \* keyboard modes kept (KeyboardState: 32)
          MaxPartial, \* bytes a colour query may already have: 7
          Palettes,   \* the clients' palettes
          None        \* Option::None

VARIABLES output,   \* what the harness writes, in the end
          ahead,    \* bytes of it not read yet
          chunk,    \* the read being handled
          found,    \* what it holds: <<offset, item>>, not acted upon
          consumed, \* bytes of the chunk the emulator has
          scan,     \* ControlDetector
          pending,  \* ColorQueryDetector.pending
          title,    \* ConversationIdDetector.pending
          identity, \* the conversation reported last
          palette,  \* terminal_palette
          column,   \* the emulator's cursor
          modes,    \* [stack, flags, style, scroll]
          replies,  \* answers to queries, as written to the harness
          colors,   \* answers to colour queries, None where there is no palette
          closed    \* output_closed

vars == <<output, ahead, chunk, found, consumed, scan, pending, title, identity,
          palette, column, modes, replies, colors, closed>>

Digits == <<"0", "1", "2", "3", "4", "5", "6", "7", "8", "9">>
Limited(m, n) == IF n < m THEN n ELSE m
From(s, i) == SubSeq(s, i, Len(s))
Occurs(pattern, s, i) == i - 1 + Len(pattern) <= Len(s) /\ SubSeq(s, i, i - 1 + Len(pattern)) = pattern

-----------------------------------------------------------------------------
(* ControlDetector: one byte moves the candidate on and may complete it.   *)

Idle == [at |-> "idle"]
Csi(prefix, first, second) == [at |-> "csi", prefix |-> prefix, first |-> first, second |-> second]
Item(kind, value) == [kind |-> kind, value |-> value]

(* A u16 parameter: saturating_mul saturates, the addition does not. *)
WithDigit(n, b) ==
  LET digit == (CHOOSE i \in DOMAIN Digits : Digits[i] = b) - 1
  IN (Limited(65535, n * 10) + digit) % 65536

(* What the sequence s is when the byte b ends it: one item, or none. *)
Completed(s, b) ==
  LET plain(first) == s.prefix = None /\ s.second = None /\ s.first = first
  IN CASE s.at = "space" /\ b = "q" ->
            {Item("style", IF s.first \in 1..6 THEN s.first ELSE 0)}
       [] s.at = "csi" /\ b = "n" ->
            (IF plain(5) THEN {Item("status", 0)} ELSE {})
            \cup (IF plain(6) THEN {Item("cursor", 0)} ELSE {})
            \cup (IF s.prefix = "?" /\ s.second = None /\ s.first = 6 THEN {Item("extended", 0)} ELSE {})
       [] s.at = "csi" /\ b = "c" -> IF plain(0) THEN {Item("attributes", 0)} ELSE {}
       [] s.at = "csi" /\ b = "u" ->
            CASE s.prefix = "?" -> IF s.first = 0 /\ s.second = None THEN {Item("flags", 0)} ELSE {}
              [] s.prefix = ">" -> {Item("push", s.first % 256)}
              [] s.prefix = "<" -> {Item("pop", s.first)}
              [] s.prefix = "=" ->
                   {Item(CASE s.second \in {None, 0, 1} -> "set" [] s.second % 256 = 2 -> "add"
                           [] s.second % 256 = 3 -> "clear" [] OTHER -> "other", s.first % 256)}
              [] OTHER -> {}
       [] s.at = "csi" /\ b \in {"h", "l"} ->
            IF s.prefix = "?" /\ s.first = 1007 /\ s.second = None THEN {Item("scroll", b = "h")} ELSE {}
       [] OTHER -> {}

Advanced(s, b) ==
  CASE b = "esc" -> [at |-> "escape"]
    [] s.at = "escape" /\ b = "[" -> Csi(None, 0, None)
    [] s = Csi(None, 0, None) /\ b \in {"?", ">", "<", "="} -> Csi(b, 0, None)
    [] s.at = "csi" /\ b \in {Digits[i] : i \in DOMAIN Digits} ->
         IF s.second = None THEN [s EXCEPT !.first = WithDigit(@, b)]
         ELSE [s EXCEPT !.second = WithDigit(@, b)]
    [] s.at = "csi" /\ b = ";" /\ s.second = None -> [s EXCEPT !.second = 0]
    [] s.at = "csi" /\ b = "sp" /\ s.prefix = None /\ s.second = None ->
         [at |-> "space", first |-> s.first]
    [] OTHER -> Idle

(* process: every item with the offset just past it. *)
Scanned(start, bytes) ==
  LET upTo[n \in 0..Len(bytes)] ==
        IF n = 0 THEN [scan |-> start, items |-> <<>>]
        ELSE LET before == upTo[n - 1]
                 done == Completed(before.scan, bytes[n])
             IN [scan  |-> Advanced(before.scan, bytes[n]),
                 items |-> IF done = {} THEN before.items
                           ELSE Append(before.items, <<n, CHOOSE i \in done : TRUE>>)]
  IN upTo[Len(bytes)]

(* A detector that forgets what an earlier read left unfinished. *)
ScannedAlone(start, bytes) == Scanned(Idle, bytes)
Detected(start, bytes) == Scanned(start, bytes)

-----------------------------------------------------------------------------
(* ColorQueryDetector: the queries in what is pending, and the tail that   *)
(* could be the beginning of one.                                           *)

ColorQuery(slot, end) == <<"esc", "]", "1", slot, ";", "?">> \o end
Terminators == {<<"bel">>, <<"esc", "\\">>}

ColorsIn(bytes) ==
  LET slotAt(i) == {slot \in {"0", "1"} : \E end \in Terminators : Occurs(ColorQuery(slot, end), bytes, i)}
      at == {i \in DOMAIN bytes : slotAt(i) # {}}
  IN [n \in 1..Cardinality(at) |->
       CHOOSE slot \in {"0", "1"} : \E i \in at : Cardinality({j \in at : j <= i}) = n /\ slot \in slotAt(i)]

AfterColors(bytes) ==
  LET whole == {t \in (DOMAIN bytes) \X {"0", "1"} \X Terminators : Occurs(ColorQuery(t[2], t[3]), bytes, t[1])}
      ends == {t[1] + Len(ColorQuery(t[2], t[3])) : t \in whole}
  IN From(bytes, IF ends = {} THEN 1 ELSE CHOOSE e \in ends : \A f \in ends : f <= e)

LastOf(n, bytes) == From(bytes, Len(bytes) - Limited(n, Len(bytes)) + 1)
OneLess(n, bytes) == From(bytes, Len(bytes) - Limited(n - 1, Len(bytes)) + 1)
Kept(n, bytes) == LastOf(n, bytes)

-----------------------------------------------------------------------------
(* ConversationIdDetector: titles up to their ends; the last identity       *)
(* counts.  An unfinished title is kept whole.                              *)

TitlesIn(bytes) ==
  LET ends(i) == {j \in i..Len(bytes) : bytes[j] = "bel" \/ Occurs(<<"esc", "\\">>, bytes, j)}
      next(i) == {j \in i..Len(bytes) : Occurs(<<"esc", "]">>, bytes, j)}
      Least(s) == CHOOSE i \in s : \A j \in s : i <= j
      from[i \in 1..(Len(bytes) + 2)] ==
        IF i > Len(bytes) \/ next(i) = {} THEN [last |-> None, rest |-> From(bytes, i)]
        ELSE LET start == Least(next(i)) IN
             IF ends(start + 2) = {} THEN [last |-> None, rest |-> From(bytes, start)]
             ELSE LET end == Least(ends(start + 2))
                      later == from[end + (IF bytes[end] = "bel" THEN 1 ELSE 2)]
                      body == SubSeq(bytes, start + 2, end - 1)
                  IN IF later.last = None /\ Len(body) = 2 /\ body[1] = "T"
                     THEN [later EXCEPT !.last = body[2]] ELSE later
  IN from[1]

-----------------------------------------------------------------------------
(* KeyboardState.apply and the other items' effects *)

Popped(m, n) ==
  LET k == Len(m.stack)
  IN IF n = 0 THEN m
     ELSE [m EXCEPT !.stack = SubSeq(@, 1, k - n), !.flags = IF n <= k THEN m.stack[k - n + 1] ELSE 0]

Bits(n) == {b \in 0..7 : (n \div 2^b) % 2 = 1}
Number(bits) == LET upTo[b \in 0..8] == IF b = 0 THEN 0 ELSE upTo[b - 1] + (IF b - 1 \in bits THEN 2^(b - 1) ELSE 0)
                IN upTo[8]

Applied(m, item) ==
  CASE item.kind = "push" ->
         [m EXCEPT !.stack = IF Len(@) < MaxStack THEN Append(@, m.flags) ELSE @, !.flags = item.value]
    [] item.kind = "pop" -> Popped(m, IF item.value = 0 THEN 1 ELSE item.value)
    [] item.kind = "set" -> [m EXCEPT !.flags = item.value]
    [] item.kind = "add" -> [m EXCEPT !.flags = Number(Bits(@) \cup Bits(item.value))]
    [] item.kind = "clear" -> [m EXCEPT !.flags = Number(Bits(@) \ Bits(item.value))]
    [] item.kind = "style" -> [m EXCEPT !.style = item.value]
    [] item.kind = "scroll" -> [m EXCEPT !.scroll = item.value]
    [] OTHER -> m

Queries == {"status", "cursor", "extended", "attributes", "flags"}
Answer(kind, at, flags) ==
  <<kind, CASE kind \in {"cursor", "extended"} -> at + 1 [] kind = "flags" -> flags [] OTHER -> 0>>

(* terminal_backend.process: only visible characters move the cursor here. *)
Moved(bytes) == Cardinality({i \in DOMAIN bytes : bytes[i] = "a"})

-----------------------------------------------------------------------------
(* The reader thread *)

Bytes(fragments) ==
  LET upTo[n \in 0..Len(fragments)] ==
        IF n = 0 THEN <<>> ELSE upTo[n - 1] \o fragments[n].bytes
  IN upTo[Len(fragments)]

(* reader.read, the observer, and the colours asked for. *)
Read(n) ==
  /\ ~closed /\ chunk = <<>> /\ n \in 1..Len(ahead)
  /\ chunk' = SubSeq(ahead, 1, n) /\ ahead' = From(ahead, n + 1) /\ consumed' = 0
  /\ \E titles \in {TitlesIn(title \o chunk')} :
       /\ title' = (IF Occurs(<<"esc", "]">>, titles.rest, 1) THEN titles.rest ELSE LastOf(512, titles.rest))
       /\ identity' = IF titles.last = None THEN identity ELSE titles.last
  /\ pending' = Kept(MaxPartial, AfterColors(pending \o chunk'))
  /\ colors' = colors \o [i \in DOMAIN ColorsIn(pending \o chunk') |-> <<ColorsIn(pending \o chunk')[i], palette>>]
  /\ \E detected \in {Detected(scan, chunk')} : scan' = detected.scan /\ found' = detected.items
  /\ UNCHANGED <<output, palette, column, modes, replies, closed>>

(* The next item: the emulator is brought up to it first. *)
Recognize ==
  /\ found # <<>>
  /\ \E offset \in {found[1][1]}, item \in {found[1][2]} :
       /\ column' = column + Moved(SubSeq(chunk, consumed + 1, offset)) /\ consumed' = offset
       /\ modes' = Applied(modes, item)
       /\ replies' = IF item.kind \in Queries THEN Append(replies, Answer(item.kind, column', modes.flags)) ELSE replies
  /\ found' = From(found, 2)
  /\ UNCHANGED <<output, ahead, chunk, scan, pending, title, identity, palette, colors, closed>>

Finish ==
  /\ chunk # <<>> /\ found = <<>>
  /\ column' = column + Moved(From(chunk, consumed + 1))
  /\ chunk' = <<>> /\ consumed' = 0
  /\ UNCHANGED <<output, ahead, found, scan, pending, title, identity, palette, modes, replies, colors, closed>>

(* The end of the output, or an error of the read. *)
Close ==
  /\ ~closed /\ chunk = <<>> /\ ahead = <<>> /\ closed' = TRUE
  /\ UNCHANGED <<output, ahead, chunk, found, consumed, scan, pending, title, identity,
                 palette, column, modes, replies, colors>>

SetTerminalPalette(p) ==
  /\ ~closed /\ p # palette /\ palette' = p
  /\ UNCHANGED <<output, ahead, chunk, found, consumed, scan, pending, title, identity,
                 column, modes, replies, colors, closed>>

Init ==
  /\ output \in Outputs /\ ahead = Bytes(output)
  /\ chunk = <<>> /\ found = <<>> /\ consumed = 0
  /\ scan = Idle /\ pending = <<>> /\ title = <<>> /\ identity = None
  /\ palette \in Palettes \cup {None} /\ column = 0
  /\ modes = [stack |-> <<>>, flags |-> 0, style |-> 0, scroll |-> FALSE]
  /\ replies = <<>> /\ colors = <<>> /\ closed = FALSE

Next ==
  \/ \E n \in 1..Len(ahead) : Read(n)
  \/ Recognize \/ Finish \/ Close
  \/ \E p \in Palettes \cup {None} : SetTerminalPalette(p)

Spec == Init /\ [][Next]_vars

-----------------------------------------------------------------------------
(* What the harness means by its output, fragment by fragment. *)
Meant ==
  LET upTo[n \in 0..Len(output)] ==
        IF n = 0 THEN [column |-> 0, modes |-> [stack |-> <<>>, flags |-> 0, style |-> 0, scroll |-> FALSE],
                       replies |-> <<>>, colors |-> <<>>, identity |-> None]
        ELSE LET m == upTo[n - 1]
                 f == output[n]
             IN CASE f.means = "text"  -> [m EXCEPT !.column = @ + 1]
                  [] f.means = "color" -> [m EXCEPT !.colors = Append(@, f.value)]
                  [] f.means = "title" -> [m EXCEPT !.identity = f.value]
                  [] f.means \in Queries ->
                       [m EXCEPT !.replies = Append(@, Answer(f.means, m.column, m.modes.flags))]
                  [] OTHER -> [m EXCEPT !.modes = Applied(@, Item(f.means, f.value))]
  IN upTo[Len(output)]

(* Values of the variables. *)
TypeOK ==
  /\ modes.flags \in 0..255 /\ modes.style \in 0..6 /\ Len(modes.stack) <= MaxStack
  /\ consumed <= Len(chunk) /\ Len(pending) <= MaxPartial
  /\ \A i \in DOMAIN found : found[i][1] \in (consumed + 1)..Len(chunk)

(* "the reply must describe the screen as of the query, not as of whatever *)
(* the agent wrote later in the same read" (terminal.rs 183-185): however   *)
(* the output is cut, every question is answered once, in order, with the   *)
(* cursor and the modes of its place in the output.                         *)
AnswersAreOfTheQuery ==
  \E meant \in {Meant} :
    /\ Len(replies) <= Len(meant.replies) /\ replies = SubSeq(meant.replies, 1, Len(replies))
    /\ closed => replies = meant.replies /\ modes = meant.modes /\ column = meant.column

(* However the output is cut, each colour query is found once and the last  *)
(* title names the conversation.                                            *)
CutsLoseNothing ==
  closed => \E meant \in {Meant} :
    [i \in DOMAIN colors |-> colors[i][1]] = meant.colors /\ identity = meant.identity
=============================================================================
