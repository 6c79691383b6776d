---------------------------- MODULE Recognition ----------------------------
(***************************************************************************)
(* What an agent is doing, read off its screen and its window title        *)
(* (recognition.rs 1-434 and 509-596, server.rs 771-864).                  *)
(*                                                                         *)
(* The phrases the rules look for are labels: all phrases of one           *)
(* alternative are one label.  A screen places each label in the status    *)
(* rows at its bottom, higher up in the dialog rows, or nowhere.  The      *)
(* harness redraws at any time, and what it draws follows from what it is  *)
(* really doing, which the server never sees.                              *)
(***************************************************************************)
EXTENDS Naturals, Sequences, FiniteSets

CONSTANTS MaxGeneration,   \* bound: redraws
          None             \* Option::None

RecognitionAssumption == MaxGeneration \in Nat /\ None \notin {"Working", "Blocked", "Idle"}

VARIABLES kind,         \* the harness
          doing,        \* what the agent is really doing
          screen,       \* the label each part of the screen shows
          title,        \* the claim of the window title, or None
          generation,   \* output_generation
          observed      \* ObservedAgent: generation seen, evidence and completion

vars == <<kind, doing, screen, title, generation, observed>>

Kinds == {"Codex", "Claude", "Grok", "Pi", "OpenCode"}
Activities == {"Working", "Blocked", "Idle"}
Labels == {"approval", "permission", "question", "menu", "active", "ready", "you",
           "history", "closing"}
Places == {"status", "dialog", "nowhere"}

-----------------------------------------------------------------------------
(* Rules.  The first that matches decides. *)

Rule(activity, required, any, excluded) ==
  [activity |-> activity, required |-> required, any |-> any, excluded |-> excluded,
   rows |-> IF activity = "Blocked" THEN {"status", "dialog"} ELSE {"status"}]

CodexRules ==
  <<Rule("Blocked", {}, {"approval"}, {"active"}),
    Rule("Blocked", {"question"}, {}, {"menu"}),
    Rule("Working", {"active"}, {}, {}),
    Rule("Idle", {}, {"ready"}, {"active"})>>

ClaudeRules ==
  <<Rule("Blocked", {}, {"approval"}, {"active"}),
    Rule("Blocked", {"permission"}, {}, {"active", "menu", "history"}),
    Rule("Blocked", {"question", "closing"}, {}, {"menu", "history"}),
    Rule("Working", {"active"}, {}, {}),
    Rule("Idle", {"ready"}, {}, {})>>

GrokRules ==
  <<Rule("Blocked", {}, {"approval"}, {}),
    Rule("Blocked", {"question"}, {}, {}),
    Rule("Working", {"active"}, {}, {})>>

PiRules ==
  <<Rule("Working", {"active"}, {}, {"you"}),
    Rule("Idle", {}, {"ready"}, {"active"})>>

OpenCodeRules ==
  <<Rule("Blocked", {"permission"}, {"approval"}, {"active"}),
    Rule("Blocked", {"question"}, {}, {}),
    Rule("Working", {"active"}, {}, {}),
    Rule("Idle", {"ready"}, {}, {"active", "permission", "question"})>>

Rules ==
  [Codex |-> CodexRules, Claude |-> ClaudeRules, Grok |-> GrokRules, Pi |-> PiRules,
   OpenCode |-> OpenCodeRules]

MatchesRequired(rule) ==
  LET shown == {l \in Labels : screen[l] \in rule.rows} IN
  /\ rule.required \subseteq shown
  /\ rule.any = {} \/ rule.any \cap shown # {}
Matches(rule) ==
  LET shown == {l \in Labels : screen[l] \in rule.rows} IN
  /\ rule.required \subseteq shown
  /\ rule.any = {} \/ rule.any \cap shown # {}
  /\ rule.excluded \cap shown = {}

NoOverlay == FALSE
HistoryOverlay == screen["history"] # "nowhere" /\ screen["closing"] = "status"

(* recognize: a claim, "Preserve" under an overlay, or "Unknown". *)
Recognized ==
  LET rules == Rules[kind]
      matching == {i \in DOMAIN rules : Matches(rules[i])}
  IN IF HistoryOverlay THEN "Preserve"
     ELSE IF matching = {} THEN "Unknown"
     ELSE rules[CHOOSE i \in matching : \A j \in matching : i <= j].activity

(* recognize_title: Grok's title never claims Idle, and only these two     *)
(* harnesses put their state in it.                                         *)
GrokClaimsIdle == IF kind \in {"Codex", "Grok"} THEN title ELSE None
RecognizedTitle ==
  IF kind = "Codex" \/ (kind = "Grok" /\ title # "Idle") THEN title ELSE None

-----------------------------------------------------------------------------
(* observe_with_terminal *)

Evidence ==
  LET seen == CASE Recognized = "Preserve" -> observed.evidence
                [] Recognized = "Unknown" -> None
                [] OTHER -> Recognized
  IN IF RecognizedTitle = "Blocked" THEN "Blocked"
     ELSE IF seen # None THEN seen ELSE RecognizedTitle

Completes(claim) == claim = "Idle" /\ observed.affirmative = "Working"

Observe ==
  LET claim == IF generation # observed.generation THEN Evidence ELSE observed.evidence IN
  /\ observed' = [generation |-> generation, evidence |-> claim,
                  affirmative |-> IF claim = None THEN observed.affirmative ELSE claim,
                  completed |-> IF Completes(claim) THEN generation ELSE observed.completed]
  /\ UNCHANGED <<kind, doing, screen, title, generation>>

-----------------------------------------------------------------------------
(* The harness *)

Blank == [l \in Labels |-> "nowhere"]
Showing(labels) == [l \in Labels |-> IF l \in labels THEN "status" ELSE "nowhere"]
Quoting(s, l) == [s EXCEPT ![l] = IF @ = "nowhere" THEN "dialog" ELSE @]

(* What is drawn of each activity: its own marks, or, halfway through a    *)
(* redraw, nothing.  Claude and Pi keep their prompt while they work.       *)
Marks(activity) ==
  CASE activity = "Working" -> {{"active"}} \cup (IF kind \in {"Claude", "Pi"} THEN {{"active", "ready"}} ELSE {})
                               \cup (IF kind = "Pi" THEN {{"active", "you", "ready"}} ELSE {})
    [] activity = "Blocked" -> {{"approval", "permission"}, {"question", "closing"}}
    [] OTHER -> IF kind = "Grok" THEN {{}} ELSE {{"ready"}}

(* The transcript above may quote a label, and an overlay over a running   *)
(* turn shows any.  An idle agent, or Grok, that quotes an approval is taken *)
(* for one that asks: the rules cannot tell, and neither does this model.    *)
Quotable ==
  {"ready", "active"} \cup IF doing = "Working" /\ kind # "Grok" THEN {"approval"} ELSE {}

Screens ==
  {Showing(marks) : marks \in Marks(doing) \cup {{}}}
  \cup {Quoting(Showing(marks), l) : marks \in Marks(doing), l \in Quotable}
  \cup {Showing({"history", "closing", l}) : l \in {"ready", "active"}}

(* A title says what is going on, or not; Grok's may drop its activity in  *)
(* the middle of a turn.                                                    *)
Titles == {None, doing} \cup IF kind = "Grok" THEN {"Idle"} ELSE {}

Redraw ==
  /\ generation < MaxGeneration /\ generation' = generation + 1
  /\ screen' \in Screens /\ title' \in Titles
  /\ UNCHANGED <<kind, doing, observed>>

(* The new activity is drawn in the same write. *)
Turn(activity) ==
  /\ generation < MaxGeneration /\ generation' = generation + 1
  /\ doing # activity /\ doing' = activity
  /\ \E marks \in Marks(activity) : screen' = Showing(marks)
  /\ title' \in {None, activity}
  /\ UNCHANGED <<kind, observed>>

Init ==
  /\ kind \in Kinds /\ doing = "Idle" /\ screen = Blank /\ title = None /\ generation = 0
  /\ observed = [generation |-> 0, evidence |-> None, affirmative |-> None, completed |-> 0]

Next == Observe \/ Redraw \/ (\E activity \in Activities : Turn(activity))

Spec == Init /\ [][Next]_vars

-----------------------------------------------------------------------------
(* Values of the variables. *)
TypeOK ==
  /\ screen \in [Labels -> Places] /\ title \in Activities \cup {None}
  /\ observed.evidence \in Activities \cup {None}
  /\ observed.completed <= observed.generation /\ observed.generation <= generation

(* recognition.rs 325-327: "Claiming Idle here stamps a false completion". *)
(* A turn is recorded as completed only while the agent really is idle,     *)
(* whatever overlays, half-drawn screens and quoted text were seen.         *)
NoFalseCompletion ==
  [][observed'.completed # observed.completed => doing = "Idle"]_vars

(* An agent is reported blocked only if a screen or title seen since it    *)
(* last was, or the last one under an overlay, really asked for something.  *)
BlockedIsReal ==
  [][observed'.evidence = "Blocked" /\ observed.evidence # "Blocked" => doing = "Blocked"]_vars
=============================================================================
