--------------------------- MODULE HarnessUpdates ---------------------------
(***************************************************************************)
(* Checks for, and installations of, new harness releases                  *)
(* (harness_updates.rs, app.rs 79-118 and 632-808, runtime.rs 695-752 and   *)
(* 2159-2199, svarm-agent's harness_update.rs): the client's loop asks one  *)
(* worker thread through an unbounded channel, and follows in each           *)
(* harness's status what it asked.  A release is a number.                  *)
(***************************************************************************)
EXTENDS Naturals, Sequences, FiniteSets

CONSTANTS Kinds,       \* AgentKind::ALL
          MaxRelease,  \* bound: releases of a harness
          MaxTicks     \* bound: times the interval passes or the user asks for a check

HarnessAssumption == MaxRelease \in Nat /\ MaxTicks \in Nat

VARIABLES available,  \* available_harnesses, found when the client starts
          asserting,  \* debug assertions are compiled in
          installed,  \* release of each harness on the machine
          latest,     \* its latest release
          status,     \* App.harness_updates
          known,      \* known_harness_update_releases: 0 is none
          due,        \* next_check_at has passed
          ticks,      \* checks asked for, by the clock or the user
          checking,   \* HarnessUpdateRuntime
          updating,
          requests,   \* the worker's channels
          results,
          announced   \* releases announced: a bag, at most two of each

world == <<available, asserting, installed, latest>>
shown == <<status, known, announced>>
vars == <<world, shown, due, ticks, checking, updating, requests, results>>

Plain(state) == [state |-> state, current |-> 0, latest |-> 0]
Versions(state, current, newest) == [state |-> state, current |-> current, latest |-> newest]

-----------------------------------------------------------------------------
(* The worker thread *)

Failed == [ok |-> FALSE]

(* check: what a harness says of itself or its release metadata, or an error. *)
CheckAnswers(k) ==
  {Failed, [ok |-> TRUE, current |-> installed[k], latest |-> latest[k]]}

Checks(kinds) == {f \in [kinds -> UNION {CheckAnswers(k) : k \in kinds}] :
                    \A k \in kinds : f[k] \in CheckAnswers(k)}
ChecksThatAnswered(kinds) == UNION {Checks(some) : some \in SUBSET kinds}
CheckedKinds(kinds) == Checks(kinds)

Check ==
  /\ requests # <<>> /\ Head(requests).kind = "check"
  /\ \E answers \in CheckedKinds(Head(requests).kinds) :
       results' = Append(results, [kind |-> "checked", answers |-> answers])
  /\ requests' = Tail(requests)
  /\ UNCHANGED <<world, shown, due, ticks, checking, updating>>

(* update: an updater that leaves the version as it was has failed. *)
Update ==
  /\ requests # <<>> /\ Head(requests).kind = "update"
  /\ \E k \in {Head(requests).harness}, release \in 0..MaxRelease, failure \in BOOLEAN :
       /\ release \in {installed[k], latest[k]}
       /\ installed' = [installed EXCEPT ![k] = release]
       /\ release = installed[k] => failure
       /\ results' = Append(results, [kind |-> "updated", harness |-> k, answer |->
            IF failure THEN Failed ELSE [ok |-> TRUE, current |-> release]])
  /\ requests' = Tail(requests)
  /\ UNCHANGED <<available, asserting, latest, shown, due, ticks, checking, updating>>

-----------------------------------------------------------------------------
(* The client's loop *)

MayCheck == ~checking /\ updating = {} /\ available # {}

(* request_check, and begin_harness_check if it sent one. *)
RequestCheck ==
  IF MayCheck
    THEN /\ requests' = Append(requests, [kind |-> "check", kinds |-> available])
         /\ checking' = TRUE
         /\ status' = [k \in Kinds |->
              IF k \in available /\ status[k].state # "Updating" THEN Plain("Checking")
              ELSE status[k]]
    ELSE UNCHANGED <<requests, checking, status>>

Tick ==
  /\ due /\ due' = FALSE
  /\ RequestCheck
  /\ UNCHANGED <<world, known, announced, ticks, updating, results>>

(* c in the settings; set_interval starts a new interval as well. *)
AskForCheck ==
  /\ ticks < MaxTicks /\ ticks' = ticks + 1
  /\ RequestCheck /\ due' = (due /\ ~MayCheck)
  /\ UNCHANGED <<world, known, announced, updating, results>>

Elapse ==
  /\ ~due /\ ticks < MaxTicks /\ ticks' = ticks + 1 /\ due' = TRUE
  /\ UNCHANGED <<world, shown, checking, updating, requests, results>>

(* request_harness_update: the status is set within debug_assert!, which a *)
(* release build does not evaluate.                                         *)
AskForUpdate(k) ==
  /\ status[k].state \in {"UpdateAvailable", "UpdateFailed"}
  /\ ~checking /\ k \notin updating
  /\ updating' = updating \cup {k}
  /\ requests' = Append(requests, [kind |-> "update", harness |-> k])
  /\ status' = IF asserting THEN [status EXCEPT ![k].state = "Updating"] ELSE status
  /\ UNCHANGED <<world, known, announced, due, ticks, checking, results>>

AlreadyShown(k, release) == status[k].state = "UpdateAvailable"
AlreadyKnown(k, release) == known[k] = release

StatusChecked(answer) ==
  IF ~answer.ok THEN Plain("CheckFailed")
  ELSE IF answer.latest > answer.current
    THEN Versions("UpdateAvailable", answer.current, answer.latest)
  ELSE Versions("UpToDate", answer.current, 0)

StatusUpdated(k, answer) ==
  IF answer.ok THEN Versions("UpToDate", answer.current, 0)
  ELSE IF status[k].state = "Updating" THEN [status[k] EXCEPT !.state = "UpdateFailed"]
  ELSE Plain("CheckFailed")

(* apply_harness_check: a release observed for the first time is announced. *)
ApplyCheck(answers) ==
  LET new == {k \in DOMAIN answers :
                /\ answers[k].ok /\ answers[k].latest > answers[k].current
                /\ ~AlreadyKnown(k, answers[k].latest)}
  IN /\ status' = [k \in Kinds |->
          IF k \in DOMAIN answers THEN StatusChecked(answers[k]) ELSE status[k]]
     /\ known' = [k \in Kinds |-> IF k \in new THEN answers[k].latest ELSE known[k]]
     /\ announced' = [k \in Kinds |->
          IF k \in new THEN [announced[k] EXCEPT ![answers[k].latest] = @ + 1] ELSE announced[k]]

(* finish *)
Finish(event) ==
  IF event.kind = "checked" THEN checking' = FALSE /\ UNCHANGED updating
  ELSE updating' = updating \ {event.harness} /\ UNCHANGED checking

(* drain_harness_updates, for one of the results that are there. *)
Drain ==
  /\ results # <<>> /\ results' = Tail(results)
  /\ \E event \in {Head(results)} :
       /\ Finish(event)
       /\ \/ event.kind = "checked" /\ ApplyCheck(event.answers)
          \/ /\ event.kind = "updated"
             /\ status' = [status EXCEPT ![event.harness] = StatusUpdated(event.harness, event.answer)]
             /\ UNCHANGED <<known, announced>>
  /\ UNCHANGED <<world, due, ticks, requests>>

(* Outside the program: somebody releases a new version. *)
Release(k) ==
  /\ latest[k] < MaxRelease /\ latest' = [latest EXCEPT ![k] = @ + 1]
  /\ UNCHANGED <<available, asserting, installed, shown, due, ticks, checking, updating,
                 requests, results>>

Init ==
  /\ available \in SUBSET Kinds /\ asserting \in BOOLEAN
  /\ installed = [k \in Kinds |-> 0] /\ latest = installed
  /\ status = [k \in Kinds |-> Plain(IF k \in available THEN "NotChecked" ELSE "NotInstalled")]
  /\ known = installed /\ due = FALSE /\ ticks = 0
  /\ checking = FALSE /\ updating = {}
  /\ requests = <<>> /\ results = <<>>
  /\ announced = [k \in Kinds |-> [r \in 1..MaxRelease |-> 0]]

Next ==
  \/ Check \/ Update \/ Tick \/ AskForCheck \/ Elapse \/ Drain
  \/ \E k \in Kinds : AskForUpdate(k) \/ Release(k)

Spec == Init /\ [][Next]_vars

-----------------------------------------------------------------------------
States == {"NotInstalled", "NotChecked", "Checking", "UpToDate", "UpdateAvailable", "Updating",
           "CheckFailed", "UpdateFailed"}

(* Values of the variables. *)
TypeOK ==
  /\ status \in [Kinds -> [state: States, current: 0..MaxRelease, latest: 0..MaxRelease]]
  /\ known \in [Kinds -> 0..MaxRelease] /\ updating \in SUBSET available
  /\ announced \in [Kinds -> [1..MaxRelease -> 0..2]]

(* A status that says something is going on (HarnessUpdateStatus) is of     *)
(* something the runtime waits for, whatever failed meanwhile; and a check   *)
(* and an installation never run together (request_check, request_update).   *)
BusyIsReal ==
  /\ \A k \in Kinds : /\ status[k].state = "Checking" => checking
                      /\ status[k].state = "Updating" => k \in updating
  /\ ~(checking /\ updating # {})

(* apply_harness_check "returns harnesses whose available release is newly *)
(* observed" (app.rs 710): no release is announced twice.                   *)
AnnouncedOnce == \A k \in Kinds, r \in 1..MaxRelease : announced[k][r] <= 1
=============================================================================
