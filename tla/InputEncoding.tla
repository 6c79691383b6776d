--------------------------- MODULE InputEncoding ---------------------------
(***************************************************************************)
(* What a harness is sent for the user's keys, clicks and pastes            *)
(* (agent/input.rs 6-224; tui/input.rs 164-226 on the client's side), in    *)
(* the modes its output has set meanwhile.  Bytes are one item each; a      *)
(* number in text counts as one.                                            *)
(***************************************************************************)
EXTENDS Integers, Sequences, FiniteSets

CONSTANTS Columns,    \* columns and rows of mouse events
          None        \* Option::None: nothing is sent

VARIABLES modes,  \* TerminalModes of the harness
          event,  \* the last event sent to it
          bytes   \* and what that was

vars == <<modes, event, bytes>>

Characters == {"a", "A", "i", "m", "[", " ", "?", "1"}
Cursor == [Up |-> "A", Down |-> "B", Right |-> "C", Left |-> "D", Home |-> "H", End |-> "F"]
Tilde == [Insert |-> "2", Delete |-> "3", PageUp |-> "5", PageDown |-> "6",
          F5 |-> "15", F6 |-> "17", F12 |-> "24"]
Function == [F1 |-> "P", F2 |-> "Q", F3 |-> "R", F4 |-> "S"]
Single == [Enter |-> <<"cr">>, Tab |-> <<"tab">>, BackTab |-> <<"esc", "[", "Z">>,
           Backspace |-> <<"del">>, Escape |-> <<"esc">>]
Codepoint == [Escape |-> "27", Enter |-> "13", Tab |-> "9", Backspace |-> "127"]

Keys == [code : Characters \cup DOMAIN Cursor \cup DOMAIN Tilde \cup DOMAIN Function \cup DOMAIN Single \cup {"F13"},
         shift : BOOLEAN, alt : BOOLEAN, control : BOOLEAN]
Buttons == {"Left", "Middle", "Right"}
Mice == [kind : {"Down", "Up", "Drag"}, button : Buttons, column : Columns, row : Columns, shift : BOOLEAN]
        \cup [kind : {"Moved", "ScrollUp", "ScrollDown", "ScrollLeft", "ScrollRight"}, button : {None},
              column : Columns, row : Columns, shift : BOOLEAN]
Modes == [disambiguate : BOOLEAN, application : BOOLEAN, paste : BOOLEAN,
          protocol : {"None", "Press", "PressRelease", "ButtonMotion", "AnyMotion"},
          encoding : {"Default", "Utf8", "Sgr"}]

(* No screen has 2 ^ 15 columns or rows: smaller numbers are characters in   *)
(* UTF-8 and do not overflow a u16.  And nothing is neither a button nor what *)
(* a key is sent as.                                                         *)
InputAssumption ==
  /\ Columns \subseteq Nat /\ \A number \in Columns : number < 2 ^ 15
  /\ None \notin Buttons
  /\ \A code \in DOMAIN Codepoint :
       /\ None # <<"esc", "[", Codepoint[code], "u">>
       /\ \A number \in 2 .. 8 : None # <<"esc", "[", Codepoint[code], ";", number, "u">>

-----------------------------------------------------------------------------
(* encode_key *)

Bit(b, weight) == IF b THEN weight ELSE 0
Parameter(key) == 1 + Bit(key.shift, 1) + Bit(key.alt, 2) + Bit(key.control, 4)

(* encode_control: letters of either case, and a few others. *)
ControlByte(character) ==
  CASE character \in {"a", "A"} -> <<"soh">>
    [] character = "i" -> <<"tab">>
    [] character = "m" -> <<"cr">>
    [] character = " " -> <<"nul">>
    [] character = "[" -> <<"esc">>
    [] character = "?" -> <<"del">>
    [] OTHER -> None

CursorKey(final, key, application) ==
  IF Parameter(key) = 1 THEN <<"esc", IF application THEN "O" ELSE "[", final>>
  ELSE <<"esc", "[", "1", ";", Parameter(key), final>>
FunctionKey(final, key) ==
  IF Parameter(key) = 1 THEN <<"esc", "O", final>>
  ELSE <<"esc", "[", "1", ";", Parameter(key), final>>
TildeKey(number, key) ==
  <<"esc", "[", number>> \o (IF Parameter(key) = 1 THEN <<>> ELSE <<";", Parameter(key)>>) \o <<"~">>

Legacy(key, application) ==
  CASE key.code \in Characters -> IF key.control THEN ControlByte(key.code) ELSE <<key.code>>
    [] key.code \in DOMAIN Single -> Single[key.code]
    [] key.code \in DOMAIN Cursor -> CursorKey(Cursor[key.code], key, application)
    [] key.code \in DOMAIN Function -> FunctionKey(Function[key.code], key)
    [] key.code \in DOMAIN Tilde -> TildeKey(Tilde[key.code], key)
    [] OTHER -> None

AlwaysLegacy(key) == None
(* Escape, and Enter, Tab and Backspace with a modifier. *)
Disambiguated(key) ==
  IF key.code \in DOMAIN Codepoint /\ (key.code = "Escape" \/ Parameter(key) > 1)
  THEN <<"esc", "[", Codepoint[key.code]>> \o (IF Parameter(key) = 1 THEN <<>> ELSE <<";", Parameter(key)>>) \o <<"u">>
  ELSE None

EncodeKey(key, m) ==
  LET legacy == Legacy(key, m.application) IN
  IF m.disambiguate /\ Disambiguated(key) # None THEN Disambiguated(key)
  ELSE IF legacy # None /\ key.alt /\ key.code # "Escape" THEN <<"esc">> \o legacy ELSE legacy

-----------------------------------------------------------------------------
(* encode_mouse: u8 bytes in the default encoding, characters in UTF-8's. *)

Reported(mouse, protocol) ==
  CASE protocol = "None" -> FALSE
    [] protocol = "Press" -> mouse.kind \in {"Down", "ScrollUp", "ScrollDown"}
    [] protocol = "PressRelease" -> mouse.kind \notin {"Moved", "Drag"}
    [] protocol = "ButtonMotion" -> mouse.kind # "Moved"
    [] OTHER -> TRUE

ButtonCode(mouse) ==
  LET base == [Left |-> 0, Middle |-> 1, Right |-> 2]
      wheel == [Moved |-> 3, ScrollUp |-> 64, ScrollDown |-> 65, ScrollLeft |-> 66, ScrollRight |-> 67]
  IN (IF mouse.button = None THEN wheel[mouse.kind] ELSE base[mouse.button])
     + Bit(mouse.kind \in {"Drag", "Moved"}, 32) + Bit(mouse.shift, 4)

AnyCell(column, row) == TRUE
FitsAByte(column, row) == column <= 223 /\ row <= 223

EncodeMouse(mouse, m) ==
  LET column == mouse.column + 1
      row == mouse.row + 1
      up == mouse.kind = "Up"
      code == IF up THEN 3 ELSE ButtonCode(mouse)
  IN IF ~Reported(mouse, m.protocol) THEN None
     ELSE CASE m.encoding = "Sgr" -> <<"esc", "[", "<", ButtonCode(mouse), column, row, IF up THEN "m" ELSE "M">>
            [] m.encoding = "Utf8" -> <<"esc", "[", "M", code + 32, column + 32, row + 32>>
            [] m.encoding = "Default" ->
                 IF FitsAByte(column, row)
                 THEN <<"esc", "[", "M", (code + 32) % 256, (column + 32) % 256, (row + 32) % 256>>
                 ELSE None

(* encode_paste: the text is one item. *)
EncodePaste(text, m) ==
  IF m.paste THEN <<"esc", "[", "200", "~", text, "esc", "[", "201", "~">> ELSE <<text>>

-----------------------------------------------------------------------------

Send(e, encoded) ==
  /\ event = None /\ event' = e /\ bytes' = encoded /\ UNCHANGED modes
Key(key) == Send(key, EncodeKey(key, modes))
Mouse(mouse) == Send(mouse, EncodeMouse(mouse, modes))
Paste == Send([text |-> "text"], EncodePaste("text", modes))

(* The harness reads it, and its output sets modes. *)
Take == /\ event # None /\ event' = None /\ bytes' = None /\ UNCHANGED modes
SetModes(m) == /\ event = None /\ modes' = m /\ UNCHANGED <<event, bytes>>

Init ==
  /\ modes = [disambiguate |-> FALSE, application |-> FALSE, paste |-> FALSE, protocol |-> "None", encoding |-> "Default"]
  /\ event = None /\ bytes = None

Next ==
  \/ \E key \in Keys : Key(key)
  \/ \E mouse \in Mice : Mouse(mouse)
  \/ Paste \/ Take
  \/ \E m \in Modes : SetModes(m)

Spec == Init /\ [][Next]_vars

-----------------------------------------------------------------------------
IsKey == event # None /\ "code" \in DOMAIN event
IsMouse == event # None /\ "row" \in DOMAIN event

(* Values of the variables. *)
TypeOK == modes \in Modes /\ (IsKey \/ IsMouse \/ event \in {None, [text |-> "text"]})

(* "an agent that binds the two differently cannot tell them apart"         *)
(* (input.rs 43-46): in the mode that is there for it, Escape and every     *)
(* modified Enter, Tab and Backspace are sent like no other key.            *)
KeysAreToldApart ==
  IsKey /\ modes.disambiguate /\ bytes # None
        /\ (event.code = "Escape" \/ (event.code \in {"Enter", "Tab", "Backspace"} /\ Parameter(event) > 1))
  => \A other \in Keys : EncodeKey(other, modes) = bytes => other = event

(* What a click is sent as is sent for that cell alone, and in the SGR     *)
(* encoding for that button and kind of event alone.                        *)
CellsAreToldApart ==
  IsMouse /\ bytes # None =>
    \A other \in Mice : EncodeMouse(other, modes) = bytes =>
      /\ other.column = event.column /\ other.row = event.row
      /\ modes.encoding = "Sgr" => other = event
=============================================================================
