-------------------------- MODULE Services_proofs --------------------------
(***************************************************************************)
(* Proofs about the parts of Services, each for every value of its          *)
(* constants.  A part moves on alone: whatever step Services takes is a     *)
(* step of the part or leaves its variables as they are, so the invariant   *)
(* of each part is one of Services.                                          *)
(***************************************************************************)
EXTENDS Services, FiniteSetTheorems, SequenceTheorems, WellFoundedInduction, TLAPS

-----------------------------------------------------------------------------
(* Updates of harnesses: what is shown to be under way is, checks and       *)
(* installations exclude each other, and no release is announced twice,     *)
(* because the releases that checks report never fall.                       *)

Releases == 0..MaxRelease
Statuses == [state: Updates!States, current: Releases, latest: Releases]

(* What is in the channels of the worker. *)
Answers == [ok: {FALSE}] \cup [ok: {TRUE}, current: Releases, latest: Releases]
Outcomes == [ok: {FALSE}] \cup [ok: {TRUE}, current: Releases]
Requests == [kind: {"check"}, kinds: {available}] \cup [kind: {"update"}, harness: available]
CheckResults == [kind: {"checked"}, answers: [available -> Answers]]
UpdateResults == [kind: {"updated"}, harness: available, answer: Outcomes]
Results == CheckResults \cup UpdateResults

WorldInv ==
  /\ available \subseteq Harnesses
  /\ installed \in [Harnesses -> Releases] /\ latest \in [Harnesses -> Releases]
ChannelInv == requests \in Seq(Requests) /\ results \in Seq(Results)

(* A status other than of a harness that is not installed. *)
Active == {"Checking", "UpdateAvailable", "Updating", "UpdateFailed"}
StatusInv ==
  /\ status \in [Harnesses -> Statuses] /\ checking \in BOOLEAN /\ updating \subseteq available
  /\ \A k \in Harnesses : status[k].state \in Active => k \in available
  /\ Updates!BusyIsReal

(* The releases that checks report of a harness, in the order of the        *)
(* results: none below the last one announced, none above the newest.       *)
Reported(e, k) == e.kind = "checked" /\ k \in DOMAIN e.answers /\ e.answers[k].ok
Newest(e, k) == e.answers[k].latest
ReportsInv ==
  \A k \in Harnesses, i \in DOMAIN results : Reported(results[i], k) =>
    /\ known[k] <= Newest(results[i], k) /\ Newest(results[i], k) <= latest[k]
    /\ \A j \in DOMAIN results :
         i < j /\ Reported(results[j], k) => Newest(results[i], k) <= Newest(results[j], k)
AnnouncedInv ==
  /\ known \in [Harnesses -> Releases]
  /\ \A k \in Harnesses : known[k] <= latest[k]
  /\ announced \in [Harnesses -> [1..MaxRelease -> {0, 1}]]
  /\ \A k \in Harnesses, r \in 1..MaxRelease : announced[k][r] = 1 => r <= known[k]
UpdatesInv == WorldInv /\ ChannelInv /\ StatusInv /\ ReportsInv /\ AnnouncedInv

-----------------------------------------------------------------------------
\* Channels

\* Elements of a channel after its first one left.
LEMMA Received ==
  ASSUME NEW S, NEW s \in Seq(S), s # <<>>
  PROVE  /\ Head(s) \in S /\ Tail(s) \in Seq(S)
         /\ 1 \in DOMAIN s /\ Head(s) = s[1]
         /\ \A i \in DOMAIN Tail(s) : i \in Nat /\ i >= 1 /\ i + 1 \in DOMAIN s /\ Tail(s)[i] = s[i + 1]
PROOF
  <1>1. Len(s) \in Nat \ {0} /\ DOMAIN s = 1..Len(s) /\ Head(s) = s[1]
    BY EmptySeq, LenProperties
  <1>2. Tail(s) \in Seq(S) /\ Len(Tail(s)) = Len(s) - 1
        /\ \A i \in 1..Len(Tail(s)) : Tail(s)[i] = s[i + 1]
    BY HeadTailProperties
  <1>3. DOMAIN Tail(s) = 1..Len(Tail(s))
    BY <1>2, LenProperties
  <1>4. Head(s) \in S
    BY <1>1, ElementOfSeq
  <1> QED
    BY <1>1, <1>2, <1>3, <1>4

\* Elements of a channel after one was sent.
LEMMA Sent ==
  ASSUME NEW S, NEW s \in Seq(S), NEW e \in S
  PROVE  /\ Append(s, e) \in Seq(S) /\ DOMAIN s \subseteq Nat
         /\ \A i \in DOMAIN Append(s, e) :
              \/ i \in DOMAIN s /\ Append(s, e)[i] = s[i]
              \/ Append(s, e)[i] = e /\ i \in Nat /\ \A j \in DOMAIN Append(s, e) : j <= i
PROOF
  <1>1. Append(s, e) \in Seq(S) /\ Len(s) \in Nat /\ Len(Append(s, e)) = Len(s) + 1
    BY AppendProperties, LenProperties
  <1>2. DOMAIN s = 1..Len(s) /\ DOMAIN Append(s, e) = 1..(Len(s) + 1)
    BY <1>1, LenProperties
  <1>3. /\ \A i \in 1..Len(s) : Append(s, e)[i] = s[i]
        /\ Append(s, e)[Len(s) + 1] = e
    BY AppendProperties
  <1> QED
    BY <1>1, <1>2, <1>3

\* A result that reports nothing newer than the newest release, and nothing
\* older than what was announced or reported before it, may join the others.
LEMMA ReportSent ==
  ASSUME UpdatesInv, NEW e \in Results, results' = Append(results, e), UNCHANGED <<known, latest>>,
         \A k \in Harnesses : Reported(e, k) => Newest(e, k) = latest[k]
  PROVE  ReportsInv'
PROOF
  <1> SUFFICES ASSUME NEW k \in Harnesses, NEW i \in DOMAIN results', Reported(results'[i], k)
               PROVE  /\ known[k] <= Newest(results'[i], k) /\ Newest(results'[i], k) <= latest[k]
                      /\ \A j \in DOMAIN results' : i < j /\ Reported(results'[j], k)
                           => Newest(results'[i], k) <= Newest(results'[j], k)
    BY DEF ReportsInv, Reported, Newest
  <1>1. latest[k] \in Nat /\ known[k] \in Nat /\ known[k] <= latest[k]
    BY DEF UpdatesInv, WorldInv, AnnouncedInv, Releases
  <1>2. /\ DOMAIN results \subseteq Nat
        /\ \A n \in DOMAIN results' :
             \/ n \in DOMAIN results /\ results'[n] = results[n]
             \/ results'[n] = e /\ n \in Nat /\ \A j \in DOMAIN results' : j <= n
    BY Sent DEF UpdatesInv, ChannelInv
  <1>3. ASSUME NEW n \in DOMAIN results', Reported(results'[n], k)
        PROVE  known[k] <= Newest(results'[n], k) /\ Newest(results'[n], k) <= latest[k]
    <2>1. CASE n \in DOMAIN results /\ results'[n] = results[n]
      BY <1>3, <2>1 DEF UpdatesInv, ReportsInv
    <2>2. CASE results'[n] = e
      BY <1>1, <1>3, <2>2
    <2> QED
      BY <1>2, <2>1, <2>2
  <1>4. ASSUME NEW j \in DOMAIN results', i < j, Reported(results'[j], k)
        PROVE  Newest(results'[i], k) <= Newest(results'[j], k)
    <2>1. i \in DOMAIN results /\ results'[i] = results[i]
      BY <1>2, <1>4
    <2>2. CASE j \in DOMAIN results /\ results'[j] = results[j]
      BY <1>4, <2>1, <2>2 DEF UpdatesInv, ReportsInv
    <2>3. CASE results'[j] = e
      BY <1>3, <1>4, <2>3
    <2> QED
      BY <1>2, <2>2, <2>3
  <1> QED
    BY <1>3, <1>4

-----------------------------------------------------------------------------
\* Steps

LEMMA InitIsReal ==
  ASSUME Updates!HarnessAssumption, Updates!Init PROVE UpdatesInv
PROOF
  <1>1. 0 \in Releases
    BY DEF Updates!HarnessAssumption, Releases
  <1>2. WorldInv
    BY <1>1 DEF Updates!Init, WorldInv
  <1>3. ChannelInv /\ ReportsInv
    BY EmptySeq DEF Updates!Init, ChannelInv, ReportsInv
  <1>4. StatusInv
    BY <1>1 DEF Updates!Init, StatusInv, Statuses, Updates!States, Updates!Plain, Active,
                Updates!BusyIsReal
  <1>5. AnnouncedInv
    BY <1>1 DEF Updates!Init, AnnouncedInv
  <1> QED
    BY <1>2, <1>3, <1>4, <1>5 DEF UpdatesInv

\* Asking for a check, by the clock or the user.
LEMMA RequestStep ==
  ASSUME Updates!HarnessAssumption, UpdatesInv, Updates!RequestCheck,
         UNCHANGED <<Updates!world, known, announced, updating, results>>
  PROVE  UpdatesInv'
PROOF
  <1>1. WorldInv' /\ ReportsInv' /\ AnnouncedInv'
    BY DEF Updates!world, UpdatesInv, WorldInv, ReportsInv, AnnouncedInv
  <1>2. CASE ~Updates!MayCheck
    BY <1>1, <1>2 DEF Updates!RequestCheck, Updates!world, UpdatesInv, ChannelInv, StatusInv,
                      Updates!BusyIsReal,
                      Requests, Results, CheckResults, UpdateResults
  <1>3. CASE Updates!MayCheck
    <2> DEFINE request == [kind |-> "check", kinds |-> available]
    <2>1. request \in Requests /\ requests' = Append(requests, request)
      BY <1>3 DEF Updates!RequestCheck, Requests
    <2>2. requests' \in Seq(Requests)
      BY <2>1, Sent DEF UpdatesInv, ChannelInv
    <2>3. ChannelInv'
      BY <2>2 DEF Updates!world, UpdatesInv, ChannelInv, Requests, Results, CheckResults,
                  UpdateResults
    <2>4. Updates!Plain("Checking") \in Statuses /\ Updates!Plain("Checking").state = "Checking"
      BY DEF Updates!HarnessAssumption, Updates!Plain, Statuses, Updates!States, Releases
    <2>5. status' = [k \in Harnesses |-> IF k \in available /\ status[k].state # "Updating"
                                     THEN Updates!Plain("Checking") ELSE status[k]]
          /\ checking' = TRUE /\ updating = {}
      BY <1>3 DEF Updates!RequestCheck, Updates!MayCheck
    <2>6. StatusInv'
      BY <2>4, <2>5 DEF Updates!world, UpdatesInv, StatusInv, Updates!BusyIsReal, Active
    <2> QED
      BY <1>1, <2>3, <2>6 DEF UpdatesInv
  <1> QED
    BY <1>2, <1>3

\* Asking for an installation.
LEMMA UpdateStep ==
  ASSUME UpdatesInv, NEW k \in Harnesses, Updates!AskForUpdate(k) PROVE UpdatesInv'
PROOF
  <1>1. WorldInv' /\ ReportsInv' /\ AnnouncedInv'
    BY DEF Updates!AskForUpdate, Updates!world, UpdatesInv, WorldInv, ReportsInv, AnnouncedInv
  <1> DEFINE request == [kind |-> "update", harness |-> k]
  <1>2. k \in available
    BY DEF Updates!AskForUpdate, UpdatesInv, StatusInv, Active
  <1>3. requests' \in Seq(Requests)
    <2>1. request \in Requests /\ requests' = Append(requests, request)
      BY <1>2 DEF Updates!AskForUpdate, Requests
    <2> QED
      BY <2>1, Sent DEF UpdatesInv, ChannelInv
  <1>4. ChannelInv'
    BY <1>3 DEF Updates!AskForUpdate, Updates!world, UpdatesInv, ChannelInv, Requests, Results,
                CheckResults, UpdateResults
  <1>5. StatusInv'
    <2>1. /\ ~checking /\ checking' = checking /\ updating' = updating \cup {k} /\ available' = available
          /\ status' = [status EXCEPT ![k].state = "Updating"] \/ status' = status
      BY DEF Updates!AskForUpdate, Updates!world
    <2>2. status' \in [Harnesses -> Statuses]
          /\ \A n \in Harnesses : status'[n].state = status[n].state
                              \/ (n = k /\ status'[n].state = "Updating")
      BY <2>1 DEF UpdatesInv, StatusInv, Statuses, Updates!States
    <2> QED
      BY <1>2, <2>1, <2>2 DEF UpdatesInv, StatusInv, Updates!BusyIsReal, Active
  <1> QED
    BY <1>1, <1>4, <1>5 DEF UpdatesInv

\* The worker answers a check with the releases of that moment.
LEMMA CheckStep ==
  ASSUME UpdatesInv, Updates!Check PROVE UpdatesInv'
PROOF
  <1>1. Head(requests) \in Requests /\ Tail(requests) \in Seq(Requests)
    BY Received DEF Updates!Check, UpdatesInv, ChannelInv
  <1>2. Head(requests).kinds = available
    BY <1>1 DEF Updates!Check, Requests
  <1>3. PICK answers \in Updates!Checks(available) :
          results' = Append(results, [kind |-> "checked", answers |-> answers])
    BY <1>2 DEF Updates!Check, Updates!CheckedKinds
  <1> DEFINE event == [kind |-> "checked", answers |-> answers]
  <1>4. /\ DOMAIN answers = available
        /\ \A k \in available : answers[k] \in Updates!CheckAnswers(k)
        /\ answers \in [available -> Answers]
    <2>1. ASSUME NEW k \in available PROVE Updates!CheckAnswers(k) \subseteq Answers
      <3>1. installed[k] \in Releases /\ latest[k] \in Releases
        BY DEF UpdatesInv, WorldInv
      <3>2. [ok |-> TRUE, current |-> installed[k], latest |-> latest[k]] \in Answers
        BY <3>1 DEF Answers
      <3>3. Updates!Failed \in Answers
        BY DEF Updates!Failed, Answers
      <3> QED
        BY <3>2, <3>3 DEF Updates!CheckAnswers
    <2> QED
      BY <2>1 DEF Updates!Checks
  <1>5. event \in Results
    BY <1>4 DEF Results, CheckResults
  <1>6. \A k \in Harnesses : Reported(event, k) => Newest(event, k) = latest[k]
    BY <1>4 DEF Reported, Newest, Updates!CheckAnswers, Updates!Failed
  <1>7. ReportsInv'
    BY <1>3, <1>5, <1>6, ReportSent DEF Updates!Check, Updates!shown, Updates!world
  <1>8. ChannelInv'
    <2>1. results' \in Seq(Results)
      BY <1>3, <1>5, Sent DEF UpdatesInv, ChannelInv
    <2> QED
      BY <1>1, <2>1 DEF Updates!Check, Updates!world, ChannelInv, Requests, Results,
                        CheckResults, UpdateResults
  <1>9. WorldInv' /\ StatusInv' /\ AnnouncedInv'
    BY DEF Updates!Check, Updates!world, Updates!shown, UpdatesInv, WorldInv, StatusInv,
           Updates!BusyIsReal, AnnouncedInv
  <1> QED
    BY <1>7, <1>8, <1>9 DEF UpdatesInv

\* The worker installs a release, or fails to.
LEMMA InstallStep ==
  ASSUME UpdatesInv, Updates!Update PROVE UpdatesInv'
PROOF
  <1>1. Head(requests) \in Requests /\ Tail(requests) \in Seq(Requests)
    BY Received DEF Updates!Update, UpdatesInv, ChannelInv
  <1>2. Head(requests).harness \in available
    BY <1>1 DEF Updates!Update, Requests
  <1>3. PICK k \in {Head(requests).harness}, release \in 0..MaxRelease, failure \in BOOLEAN :
          /\ installed' = [installed EXCEPT ![k] = release]
          /\ results' = Append(results, [kind |-> "updated", harness |-> k, answer |->
               IF failure THEN Updates!Failed ELSE [ok |-> TRUE, current |-> release]])
    BY DEF Updates!Update
  <1> DEFINE event == [kind |-> "updated", harness |-> k, answer |->
                         IF failure THEN Updates!Failed ELSE [ok |-> TRUE, current |-> release]]
  <1>4. event \in Results /\ event.kind = "updated"
    BY <1>2 DEF Results, UpdateResults, Outcomes, Updates!Failed, Releases
  <1>5. ReportsInv'
    BY <1>3, <1>4, ReportSent DEF Updates!Update, Updates!shown, Reported
  <1>6. results' \in Seq(Results)
    BY <1>3, <1>4, Sent DEF UpdatesInv, ChannelInv
  <1>7. ChannelInv'
    BY <1>1, <1>6 DEF Updates!Update, ChannelInv, Requests, Results, CheckResults, UpdateResults
  <1>8. WorldInv' /\ StatusInv' /\ AnnouncedInv'
    BY <1>3 DEF Updates!Update, Updates!shown, UpdatesInv, WorldInv, StatusInv,
                Updates!BusyIsReal, AnnouncedInv, Releases
  <1> QED
    BY <1>5, <1>7, <1>8 DEF UpdatesInv

-----------------------------------------------------------------------------
\* The client takes a result

\* What a check says becomes the status, and nothing is checked any longer.
LEMMA StatusAfterCheck ==
  ASSUME Updates!HarnessAssumption, NEW answer \in Answers
  PROVE  /\ Updates!StatusChecked(answer) \in Statuses
         /\ Updates!StatusChecked(answer).state \in {"CheckFailed", "UpdateAvailable", "UpToDate"}
PROOF
  <1>1. 0 \in Releases
    BY DEF Updates!HarnessAssumption, Releases
  <1>2. CASE ~answer.ok
    BY <1>1, <1>2 DEF Updates!StatusChecked, Updates!Plain, Statuses, Updates!States
  <1>3. CASE answer.ok
    <2>1. answer.current \in Releases /\ answer.latest \in Releases
      BY <1>3 DEF Answers
    <2> QED
      BY <1>1, <1>3, <2>1 DEF Updates!StatusChecked, Updates!Versions, Statuses, Updates!States
  <1> QED
    BY <1>2, <1>3

\* What an installation ends with is neither being checked nor installed.
LEMMA StatusAfterUpdate ==
  ASSUME Updates!HarnessAssumption, UpdatesInv, NEW k \in available, NEW answer \in Outcomes
  PROVE  /\ Updates!StatusUpdated(k, answer) \in Statuses
         /\ Updates!StatusUpdated(k, answer).state \in {"CheckFailed", "UpdateFailed", "UpToDate"}
PROOF
  <1>1. 0 \in Releases
    BY DEF Updates!HarnessAssumption, Releases
  <1>2. status[k] \in Statuses
    BY DEF UpdatesInv, WorldInv, StatusInv
  <1>3. CASE answer.ok
    <2>1. answer.current \in Releases
      BY <1>3 DEF Outcomes
    <2> QED
      BY <1>1, <1>3, <2>1 DEF Updates!StatusUpdated, Updates!Versions, Statuses, Updates!States
  <1>4. CASE ~answer.ok
    BY <1>1, <1>2, <1>4 DEF Updates!StatusUpdated, Updates!Plain, Statuses, Updates!States
  <1> QED
    BY <1>3, <1>4

\* A result leaves the channel; what is announced may have grown to it.
LEMMA ReportTaken ==
  ASSUME UpdatesInv, results # <<>>, results' = Tail(results), UNCHANGED latest,
         \A k \in Harnesses : \/ known'[k] = known[k]
                              \/ Reported(results[1], k) /\ known'[k] = Newest(results[1], k)
  PROVE  ReportsInv'
PROOF
  <1>1. /\ 1 \in DOMAIN results
        /\ \A i \in DOMAIN results' : i \in Nat /\ i >= 1 /\ i + 1 \in DOMAIN results
                                      /\ results'[i] = results[i + 1]
    BY Received DEF UpdatesInv, ChannelInv
  <1> SUFFICES ASSUME NEW k \in Harnesses, NEW i \in DOMAIN results', Reported(results'[i], k)
               PROVE  /\ known'[k] <= Newest(results'[i], k) /\ Newest(results'[i], k) <= latest[k]
                      /\ \A j \in DOMAIN results' : i < j /\ Reported(results'[j], k)
                           => Newest(results'[i], k) <= Newest(results'[j], k)
    BY DEF ReportsInv, Reported, Newest
  <1>2. i + 1 \in DOMAIN results /\ results'[i] = results[i + 1] /\ 1 < i + 1
        /\ Reported(results[i + 1], k)
    BY <1>1
  <1>3. known[k] <= Newest(results[i + 1], k) /\ Newest(results[i + 1], k) <= latest[k]
    BY <1>2 DEF UpdatesInv, ReportsInv
  <1>4. known'[k] <= Newest(results'[i], k)
    <2>1. CASE known'[k] = known[k]
      BY <1>2, <1>3, <2>1
    <2>2. CASE Reported(results[1], k) /\ known'[k] = Newest(results[1], k)
      <3>1. Newest(results[1], k) <= Newest(results[i + 1], k)
        BY <1>1, <1>2, <2>2 DEF UpdatesInv, ReportsInv
      <3> QED
        BY <1>2, <2>2, <3>1
    <2> QED
      BY <2>1, <2>2
  <1>5. ASSUME NEW j \in DOMAIN results', i < j, Reported(results'[j], k)
        PROVE  Newest(results'[i], k) <= Newest(results'[j], k)
    <2>1. j + 1 \in DOMAIN results /\ results'[j] = results[j + 1] /\ i + 1 < j + 1
      BY <1>1, <1>5
    <2> QED
      BY <1>2, <1>5, <2>1 DEF UpdatesInv, ReportsInv
  <1> QED
    BY <1>2, <1>3, <1>4, <1>5

LEMMA CheckedStep ==
  ASSUME Updates!HarnessAssumption, UpdatesInv, Updates!Drain, Head(results).kind = "checked"
  PROVE  UpdatesInv'
PROOF
  <1> DEFINE event == Head(results)
             answers == Head(results).answers
  <1>1. /\ event \in Results /\ Tail(results) \in Seq(Results) /\ 1 \in DOMAIN results
        /\ event = results[1]
    BY Received DEF Updates!Drain, UpdatesInv, ChannelInv
  <1>2. answers \in [available -> Answers] /\ DOMAIN answers = available
    BY <1>1 DEF Results, CheckResults, UpdateResults
  <1>3. /\ results' = Tail(results) /\ UNCHANGED <<Updates!world, due, ticks, requests>>
        /\ checking' = FALSE /\ updating' = updating /\ Updates!ApplyCheck(answers)
    BY DEF Updates!Drain, Updates!Finish
  <1> DEFINE new == {k \in DOMAIN answers : /\ answers[k].ok /\ answers[k].latest > answers[k].current
                                            /\ ~Updates!AlreadyKnown(k, answers[k].latest)}
  <1>4. /\ status' = [k \in Harnesses |-> IF k \in DOMAIN answers THEN Updates!StatusChecked(answers[k]) ELSE status[k]]
        /\ known' = [k \in Harnesses |-> IF k \in new THEN answers[k].latest ELSE known[k]]
        /\ announced' = [k \in Harnesses |-> IF k \in new THEN [announced[k] EXCEPT ![answers[k].latest] = @ + 1]
                                         ELSE announced[k]]
    BY <1>3 DEF Updates!ApplyCheck
  <1>5. WorldInv' /\ ChannelInv'
    BY <1>1, <1>3 DEF Updates!world, UpdatesInv, WorldInv, ChannelInv, Requests, Results,
                      CheckResults, UpdateResults
  <1>6. StatusInv'
    <2>1. available \subseteq Harnesses /\ available' = available
      BY <1>3 DEF Updates!world, UpdatesInv, WorldInv
    <2>2. \A k \in available : /\ status'[k] \in Statuses
                               /\ status'[k].state \in {"CheckFailed", "UpdateAvailable", "UpToDate"}
      BY <1>2, <1>4, <2>1, StatusAfterCheck
    <2>3. \A k \in Harnesses \ available : status'[k] = status[k] /\ status[k].state \notin Active
      BY <1>2, <1>4 DEF UpdatesInv, StatusInv
    <2>4. status' \in [Harnesses -> Statuses]
      BY <1>4, <2>2, <2>3 DEF UpdatesInv, StatusInv
    <2> QED
      BY <1>3, <2>1, <2>2, <2>3, <2>4 DEF UpdatesInv, StatusInv, Updates!BusyIsReal, Active
  <1>7. ASSUME NEW k \in new
        PROVE  /\ k \in Harnesses /\ Reported(results[1], k) /\ answers[k].latest = Newest(results[1], k)
               /\ answers[k].latest \in 1..MaxRelease
               /\ known[k] < answers[k].latest /\ answers[k].latest <= latest[k]
    <2>1. k \in available /\ k \in Harnesses /\ answers[k] \in Answers /\ answers[k].ok
          /\ answers[k].latest > answers[k].current /\ known[k] # answers[k].latest
      BY <1>2 DEF UpdatesInv, WorldInv, Updates!AlreadyKnown
    <2>2. answers[k].latest \in 0..MaxRelease /\ answers[k].current \in 0..MaxRelease
      BY <2>1 DEF Answers, Releases
    <2>3. answers[k].latest \in 1..MaxRelease
      BY <2>1, <2>2 DEF Updates!HarnessAssumption
    <2>4. Reported(results[1], k) /\ answers[k].latest = Newest(results[1], k)
      BY <1>1, <1>2, <2>1 DEF Reported, Newest
    <2>5. known[k] <= Newest(results[1], k) /\ Newest(results[1], k) <= latest[k]
      BY <1>1, <2>1, <2>4 DEF UpdatesInv, ReportsInv
    <2>6. known[k] \in Nat
      BY <2>1 DEF UpdatesInv, AnnouncedInv, Releases
    <2> QED
      BY <2>1, <2>3, <2>4, <2>5, <2>6
  <1>8. ReportsInv'
    <2>1. \A k \in Harnesses : \/ known'[k] = known[k]
                               \/ Reported(results[1], k) /\ known'[k] = Newest(results[1], k)
      BY <1>4, <1>7
    <2> QED
      BY <1>3, <2>1, ReportTaken DEF Updates!Drain, Updates!world
  <1>9. AnnouncedInv'
    <2>1. known' \in [Harnesses -> Releases] /\ \A k \in Harnesses : known'[k] <= latest'[k]
      <3>1. ASSUME NEW k \in Harnesses PROVE known'[k] \in Releases /\ known'[k] <= latest[k]
        <4>1. CASE k \in new
          BY <1>4, <1>7, <4>1 DEF Updates!HarnessAssumption, Releases
        <4>2. CASE k \notin new
          BY <1>4, <4>2 DEF UpdatesInv, AnnouncedInv
        <4> QED
          BY <4>1, <4>2
      <3> QED
        BY <1>3, <1>4, <3>1 DEF Updates!world
    <2>2. ASSUME NEW k \in Harnesses
          PROVE  /\ announced'[k] \in [1..MaxRelease -> {0, 1}]
                 /\ \A r \in 1..MaxRelease : announced'[k][r] = 1 => r <= known'[k]
      <3>1. /\ announced[k] \in [1..MaxRelease -> {0, 1}]
            /\ \A r \in 1..MaxRelease : announced[k][r] = 1 => r <= known[k]
            /\ known[k] \in Nat
        BY DEF UpdatesInv, AnnouncedInv, Releases
      <3>2. CASE k \notin new
        BY <1>4, <3>1, <3>2
      <3>3. CASE k \in new
        <4> DEFINE release == answers[k].latest
        <4>1. release \in 1..MaxRelease /\ known[k] < release
          BY <1>7, <3>3
        <4>2. announced[k][release] = 0
          <5>1. release \in Nat /\ ~(release <= known[k])
            BY <3>1, <4>1 DEF Updates!HarnessAssumption
          <5>2. announced[k][release] \in {0, 1}
            BY <3>1, <4>1
          <5> QED
            BY <3>1, <4>1, <5>1, <5>2
        <4>3. known'[k] = release /\ announced'[k] = [announced[k] EXCEPT ![release] = 1]
          BY <1>4, <3>3, <4>2
        <4> HIDE DEF release
        <4> QED
          BY <3>1, <4>1, <4>3
      <3> QED
        BY <3>2, <3>3
    <2>3. announced' \in [Harnesses -> [1..MaxRelease -> {0, 1}]]
      BY <1>4, <2>2
    <2> QED
      BY <2>1, <2>2, <2>3 DEF AnnouncedInv
  <1> QED
    BY <1>5, <1>6, <1>8, <1>9 DEF UpdatesInv

LEMMA UpdatedStep ==
  ASSUME Updates!HarnessAssumption, UpdatesInv, Updates!Drain, Head(results).kind = "updated"
  PROVE  UpdatesInv'
PROOF
  <1> DEFINE event == Head(results)
             k == Head(results).harness
  <1>1. event \in Results /\ Tail(results) \in Seq(Results) /\ event = results[1]
    BY Received DEF Updates!Drain, UpdatesInv, ChannelInv
  <1>2. k \in available /\ event.answer \in Outcomes
    BY <1>1 DEF Results, CheckResults, UpdateResults
  <1>3. /\ results' = Tail(results) /\ UNCHANGED <<Updates!world, due, ticks, requests, known, announced>>
        /\ checking' = checking /\ updating' = updating \ {k}
        /\ status' = [status EXCEPT ![k] = Updates!StatusUpdated(k, event.answer)]
    BY DEF Updates!Drain, Updates!Finish
  <1>4. WorldInv' /\ ChannelInv' /\ AnnouncedInv'
    BY <1>1, <1>3 DEF Updates!world, UpdatesInv, WorldInv, ChannelInv, AnnouncedInv, Requests,
                      Results,
                      CheckResults, UpdateResults
  <1>5. ReportsInv'
    BY <1>3, ReportTaken DEF Updates!Drain, Updates!world
  <1>6. StatusInv'
    <2>1. /\ Updates!StatusUpdated(k, event.answer) \in Statuses
          /\ Updates!StatusUpdated(k, event.answer).state \in {"CheckFailed", "UpdateFailed", "UpToDate"}
      BY <1>2, StatusAfterUpdate
    <2>2. k \in Harnesses /\ available' = available
      BY <1>2, <1>3 DEF Updates!world, UpdatesInv, WorldInv
    <2> DEFINE after == Updates!StatusUpdated(k, event.answer)
    <2>3. /\ status' \in [Harnesses -> Statuses] /\ status'[k] = after
          /\ \A n \in Harnesses : n # k => status'[n] = status[n]
      BY <1>3, <2>1, <2>2 DEF UpdatesInv, StatusInv
    <2> HIDE DEF after, k
    <2> QED
      BY <1>2, <1>3, <2>1, <2>2, <2>3 DEF UpdatesInv, StatusInv, Updates!BusyIsReal, Active, after
  <1> QED
    BY <1>4, <1>5, <1>6 DEF UpdatesInv

\* Somebody releases a version, or time passes.
LEMMA OutsideStep ==
  ASSUME Updates!HarnessAssumption, UpdatesInv, Updates!Elapse \/ \E k \in Harnesses : Updates!Release(k)
  PROVE  UpdatesInv'
PROOF
  <1>1. CASE Updates!Elapse
    BY <1>1 DEF Updates!Elapse, Updates!world, Updates!shown, UpdatesInv, WorldInv, ChannelInv,
                StatusInv, Updates!BusyIsReal, ReportsInv,
                AnnouncedInv, Requests, Results, CheckResults, UpdateResults
  <1>2. ASSUME NEW k \in Harnesses, Updates!Release(k) PROVE UpdatesInv'
    <2>1. /\ latest' \in [Harnesses -> Releases]
          /\ \A n \in Harnesses : latest[n] \in Nat /\ latest'[n] \in Nat /\ latest[n] <= latest'[n]
      BY <1>2 DEF Updates!HarnessAssumption, Updates!Release, UpdatesInv, WorldInv, Releases
    <2>2. WorldInv' /\ ChannelInv' /\ StatusInv'
      BY <1>2, <2>1 DEF Updates!Release, Updates!shown, UpdatesInv, WorldInv, ChannelInv,
                        StatusInv, Updates!BusyIsReal,
                        Requests, Results, CheckResults, UpdateResults
    <2>3. AnnouncedInv'
      BY <1>2, <2>1 DEF Updates!Release, Updates!shown, UpdatesInv, AnnouncedInv, Releases
    <2>4. ReportsInv'
      <3> SUFFICES ASSUME NEW n \in Harnesses, NEW i \in DOMAIN results, Reported(results[i], n)
                   PROVE  Newest(results[i], n) <= latest'[n]
        BY <1>2 DEF Updates!Release, Updates!shown, UpdatesInv, ReportsInv, Reported, Newest
      <3>1. results[i] \in Results
        BY ElementOfSeq, LenProperties DEF UpdatesInv, ChannelInv
      <3>2. Newest(results[i], n) \in Nat
        <4>1. results[i].answers \in [available -> Answers] /\ n \in available
          BY <3>1 DEF Reported, Results, CheckResults, UpdateResults
        <4>2. results[i].answers[n] \in Answers /\ results[i].answers[n].ok
          BY <4>1 DEF Reported
        <4>3. results[i].answers[n].latest \in Releases
          BY <4>2 DEF Answers
        <4> QED
          BY <4>3 DEF Updates!HarnessAssumption, Newest, Releases
      <3>3. Newest(results[i], n) <= latest[n]
        BY DEF UpdatesInv, ReportsInv
      <3> QED
        BY <2>1, <3>2, <3>3
    <2> QED
      BY <2>2, <2>3, <2>4 DEF UpdatesInv
  <1> QED
    BY <1>1, <1>2

-----------------------------------------------------------------------------
\* The invariant, and what follows from it

LEMMA StepIsReal ==
  ASSUME Updates!HarnessAssumption PROVE UpdatesInv /\ [Updates!Next]_(Updates!vars) => UpdatesInv'
PROOF
  <1> SUFFICES ASSUME UpdatesInv, [Updates!Next]_(Updates!vars) PROVE UpdatesInv'
    OBVIOUS
  <1>1. CASE Updates!Check \/ Updates!Update
    BY <1>1, CheckStep, InstallStep
  <1>2. CASE Updates!Tick \/ Updates!AskForCheck
    BY <1>2, RequestStep DEF Updates!Tick, Updates!AskForCheck
  <1>3. CASE Updates!Elapse \/ \E k \in Harnesses : Updates!Release(k)
    BY <1>3, OutsideStep
  <1>4. CASE Updates!Drain
    <2>1. Head(results).kind \in {"checked", "updated"}
      BY <1>4 DEF Updates!Drain
    <2> QED
      BY <1>4, <2>1, CheckedStep, UpdatedStep
  <1>5. CASE \E k \in Harnesses : Updates!AskForUpdate(k)
    BY <1>5, UpdateStep
  <1>6. CASE UNCHANGED Updates!vars
    BY <1>6 DEF Updates!vars, Updates!world, Updates!shown, UpdatesInv, WorldInv, ChannelInv,
                StatusInv, Updates!BusyIsReal, ReportsInv,
                AnnouncedInv, Requests, Results, CheckResults, UpdateResults
  <1> QED
    BY <1>1, <1>2, <1>3, <1>4, <1>5, <1>6 DEF Updates!Next

\* The invariant says more than the properties.
LEMMA UpdatesInvShows ==
  ASSUME UpdatesInv PROVE Updates!TypeOK /\ Updates!BusyIsReal /\ Updates!AnnouncedOnce
PROOF
  <1>1. Updates!TypeOK
    <2>1. status \in [Harnesses -> [state: Updates!States, current: 0..MaxRelease,
                                   latest: 0..MaxRelease]]
          /\ known \in [Harnesses -> 0..MaxRelease] /\ updating \in SUBSET available
      BY DEF UpdatesInv, StatusInv, AnnouncedInv, Statuses, Releases
    <2>2. {0, 1} \subseteq 0..2
      OBVIOUS
    <2>3. announced \in [Harnesses -> [1..MaxRelease -> 0..2]]
      BY <2>2 DEF UpdatesInv, AnnouncedInv
    <2> QED
      BY <2>1, <2>3 DEF Updates!TypeOK
  <1>2. Updates!AnnouncedOnce
    <2>1. \A k \in Harnesses, r \in 1..MaxRelease : announced[k][r] \in {0, 1}
      BY DEF UpdatesInv, AnnouncedInv
    <2> QED
      BY <2>1 DEF Updates!AnnouncedOnce
  <1> QED
    BY <1>1, <1>2 DEF UpdatesInv, StatusInv

\* Every status that says something is going on is of a check or an
\* installation that runs, never both, and no release is announced twice,
\* whatever fails, is released or is asked for meanwhile (app.rs 632-808,
\* harness_updates.rs).
THEOREM UpdatesHold == Spec => []UpdatesAreReal
PROOF
  <1>1. Init => UpdatesInv
    BY ServicesAssumption, InitIsReal DEF Init
  <1>2. UpdatesInv /\ [Next]_vars => UpdatesInv'
    <2>1. [Next]_vars => [Updates!Next]_(Updates!vars)
      BY DEF Next, vars, updatesVars, Updates!vars, Updates!world, Updates!shown
    <2> QED
      BY <2>1, ServicesAssumption, StepIsReal
  <1>3. UpdatesInv => UpdatesAreReal
    BY UpdatesInvShows DEF UpdatesAreReal
  <1> QED
    BY <1>1, <1>2, <1>3, PTL DEF Spec

-----------------------------------------------------------------------------
(* Git contexts: what is shown of an agent is of the directory it is shown *)
(* in, because what the cache, a request and a result hold is of the        *)
(* directory they are kept under.                                            *)

Directory == Directories \cup {Nowhere}
Context == Git!Contexts \cup {Nowhere}
Shown == [Agents -> [directory: Directory, git: Context]]
Checked == [Agents -> Git!Ages \cup {Nowhere}]
Entry == [context: Context, age: Git!Ages]
Cache == [Directories -> Entry \cup {Nowhere}]
Probe == [agent: Agents, working: Directory, directory: Directories]
Worker ==
  [state: {"idle"}] \cup [state: {"request"}, directory: Directories]
    \cup [state: {"result"}, context: Context]

\* The agents, each there once and launched somewhere.
AgentsInv ==
  /\ order \in Seq(Agents) /\ \A i, j \in DOMAIN order : order[i] = order[j] => i = j
  /\ launch \in [Agents -> Directory] /\ directory \in [Agents -> Directory]
  /\ \A a \in Git!Alive : launch[a] # Nowhere
  /\ selected \in Git!Alive \cup {Nowhere}
  /\ head \in [Directories -> 0 .. MaxRevision]

\* What Git may have reported of a directory.
ContextsOf(d) == {c \in Context : c # Nowhere => c.directory = d}

\* What is shown of agents and cached of directories is of where they are, also halfway
\* through a poll.
ShownInv(seen) ==
  /\ seen \in Shown
  /\ \A a \in Git!Alive : seen[a].git \in ContextsOf(Git!Where(a, seen[a].directory))
  /\ \A a \in Agents \ Git!Alive : seen[a] = Git!Unobserved
CacheInv(kept) ==
  /\ kept \in Cache
  /\ \A d \in Directories : kept[d] # Nowhere => kept[d].context \in ContextsOf(d)

\* A probe is of the directory its agent was in, and so is what the worker holds of it.
ProbeInv(task, held) ==
  /\ task \in Probe \cup {Nowhere} /\ held \in Worker
  /\ (task = Nowhere) = (held.state = "idle")
  /\ task # Nowhere =>
       launch[task.agent] # Nowhere /\ task.directory = Git!Where(task.agent, task.working)
  /\ held.state = "request" => held.directory = task.directory
  /\ held.state = "result" => held.context \in ContextsOf(task.directory)

GitInv ==
  /\ AgentsInv /\ ShownInv(shown) /\ checked \in Checked /\ CacheInv(cache)
  /\ ProbeInv(probe, worker) /\ told = shown

-----------------------------------------------------------------------------
\* Places and orders

LEMMA LeastNatural ==
  ASSUME NEW T \in SUBSET Nat, T # {}
  PROVE  \E n \in T : \A m \in T : n <= m
PROOF
  <1>1. PICK n \in T : \A m \in T : <<m, n>> \notin OpToRel(<, Nat)
    BY NatLessThanWellFounded, WFMin, Zenon
  <1>2. \A m \in T : ~(m < n)
    BY <1>1, Zenon DEF OpToRel
  <1> QED
    BY <1>2

\* Who is alive is an agent.
LEMMA AliveAreAgents ==
  ASSUME AgentsInv
  PROVE  /\ Git!Alive \subseteq Agents /\ Len(order) \in Nat /\ DOMAIN order = 1 .. Len(order)
         /\ \A i \in DOMAIN order : order[i] \in Git!Alive
PROOF
  <1>1. Len(order) \in Nat /\ DOMAIN order = 1 .. Len(order)
    BY LenProperties DEF AgentsInv
  <1>2. \A i \in DOMAIN order : order[i] \in Agents
    BY <1>1, ElementOfSeq DEF AgentsInv
  <1> QED
    BY <1>1, <1>2 DEF Git!Alive, Git!InOrder

\* An agent that is alive, or was, is somewhere.
LEMMA SomewhereIsADirectory ==
  ASSUME Git!GitAssumption, AgentsInv, NEW a \in Agents, launch[a] # Nowhere, NEW d \in Directory
  PROVE  Git!Where(a, d) \in Directories
PROOF
  BY DEF AgentsInv, Git!Where, Directory

-----------------------------------------------------------------------------
\* Rounds of a poll

Rounds ==
  [shown: Shown, checked: Checked, cache: Cache, probe: Probe \cup {Nowhere}, worker: Worker,
   changed: SUBSET Agents]

\* Halfway through a poll everything holds of the round, and who is shown something else
\* than before is about to be announced.
RoundInv(r) ==
  /\ r \in Rounds
  /\ ShownInv(r.shown) /\ CacheInv(r.cache) /\ ProbeInv(r.probe, r.worker)
  /\ \A a \in Agents : r.shown[a] # shown[a] => a \in r.changed

\* What is observed of some agents fits where they are observed to be.
LEMMA ObserveHolds ==
  ASSUME AgentsInv, NEW r, RoundInv(r), NEW who \in SUBSET Git!Alive, NEW at, NEW cached,
         \A a \in who : /\ at[a] \in Directory /\ cached[a] \in Entry
                        /\ cached[a].context \in ContextsOf(Git!Where(a, at[a]))
  PROVE  /\ RoundInv(Git!Observe(r, who, at, cached))
         /\ Git!Observe(r, who, at, cached).cache = r.cache
         /\ Git!Observe(r, who, at, cached).probe = r.probe
         /\ Git!Observe(r, who, at, cached).worker = r.worker
         /\ \A a \in Agents \ who : /\ Git!Observe(r, who, at, cached).shown[a] = r.shown[a]
PROOF
  <1> DEFINE seen == [a \in Agents |-> IF a \in who
                        THEN [directory |-> at[a], git |-> cached[a].context] ELSE r.shown[a]]
             read == [a \in Agents |-> IF a \in who THEN cached[a].age ELSE r.checked[a]]
             new == r.changed \cup {a \in who : seen[a] # r.shown[a]}
             after == Git!Observe(r, who, at, cached)
  <1>1. r \in Rounds /\ who \subseteq Agents
    BY AliveAreAgents DEF RoundInv
  <1>2. after = [r EXCEPT !.shown = seen, !.checked = read, !.changed = new]
    BY DEF Git!Observe
  <1>3. /\ after.shown = seen /\ after.checked = read /\ after.changed = new
        /\ after.cache = r.cache /\ after.probe = r.probe /\ after.worker = r.worker
        /\ after = [shown |-> seen, checked |-> read, cache |-> r.cache, probe |-> r.probe,
                    worker |-> r.worker, changed |-> new]
    <2> HIDE DEF seen, read, new, after
    <2> QED
      BY <1>1, <1>2 DEF Rounds
  <1>4. seen \in Shown
    <2>1. \A a \in who : cached[a].context \in Context
      BY DEF Entry
    <2> QED
      BY <1>1, <2>1 DEF Rounds, Shown
  <1>5. read \in Checked
    BY <1>1 DEF Rounds, Checked, Entry
  <1>6. new \in SUBSET Agents
    BY <1>1 DEF Rounds
  <1>7. after \in Rounds
    <2> HIDE DEF seen, read, new, after
    <2> QED
      BY <1>1, <1>3, <1>4, <1>5, <1>6 DEF Rounds
  <1>8. ShownInv(seen)
    <2>1. \A a \in Git!Alive : seen[a].git \in ContextsOf(Git!Where(a, seen[a].directory))
      <3> SUFFICES ASSUME NEW a \in Git!Alive
                   PROVE  seen[a].git \in ContextsOf(Git!Where(a, seen[a].directory))
        OBVIOUS
      <3>1. a \in Agents
        BY AliveAreAgents
      <3>2. CASE a \in who
        BY <3>1, <3>2
      <3>3. CASE a \notin who
        <4>1. seen[a] = r.shown[a]
          BY <3>1, <3>3
        <4> HIDE DEF seen
        <4> QED
          BY <4>1 DEF RoundInv, ShownInv
      <3> QED
        BY <3>2, <3>3
    <2>2. \A a \in Agents \ Git!Alive : seen[a] = Git!Unobserved
      BY DEF RoundInv, ShownInv
    <2> HIDE DEF seen
    <2> QED
      BY <1>4, <2>1, <2>2 DEF ShownInv
  <1>9. \A a \in Agents : seen[a] # shown[a] => a \in new
    <2>1. \A a \in Agents : r.shown[a] # shown[a] => a \in r.changed
      BY DEF RoundInv
    <2>2. \A a \in Agents : a \notin who => seen[a] = r.shown[a]
      OBVIOUS
    <2> HIDE DEF seen
    <2> QED
      BY <2>1, <2>2
  <1>10. \A a \in Agents \ who : seen[a] = r.shown[a]
    OBVIOUS
  <1> HIDE DEF seen, read, new, after
  <1>11. RoundInv(after)
    BY <1>3, <1>7, <1>8, <1>9 DEF RoundInv
  <1> QED
    BY <1>3, <1>10, <1>11 DEF after

\* The round a poll begins with.
LEMMA RoundBegins ==
  ASSUME GitInv PROVE RoundInv(Git!Round) /\ Git!Round.worker = worker
PROOF
  <1>1. Git!Round \in Rounds
    BY DEF GitInv, ShownInv, CacheInv, ProbeInv, Git!Round, Rounds
  <1> QED
    BY <1>1 DEF GitInv, RoundInv, Git!Round

\* The result of a probe is shown of the agent probed if it is where it was, and of the
\* others in that directory.
LEMMA ResultHolds ==
  ASSUME Git!GitAssumption, GitInv, worker.state = "result"
  PROVE  RoundInv(Git!ApplyResult(Git!Round))
PROOF
  <1> DEFINE answer == [context |-> worker.context, age |-> 0]
             who == Git!Probed \cup Git!Others
             at == [a \in Agents |-> IF a = probe.agent THEN directory[a] ELSE shown[a].directory]
             cached == [a \in Agents |-> answer]
             r == Git!Observe(Git!Round, who, at, cached)
             moved == Git!Moved \cap Git!Alive
             after == [a \in Agents |-> IF a \in moved THEN Git!MovedTo ELSE r.shown[a]]
             read == [a \in Agents |-> IF a \in Git!Moved THEN Nowhere ELSE r.checked[a]]
             new == r.changed \cup Git!Retracted
             idle == [state |-> "idle"]
             settled == [r EXCEPT !.shown = after, !.checked = read, !.changed = new,
                                  !.probe = Nowhere, !.worker = idle]
  <1>1. /\ probe \in Probe /\ launch[probe.agent] # Nowhere
        /\ probe.directory = Git!Where(probe.agent, probe.working)
        /\ worker.context \in Context /\ worker.context \in ContextsOf(probe.directory)
    <2>1. ProbeInv(probe, worker)
      BY DEF GitInv
    <2>2. worker.context \in Context
      BY <2>1 DEF ProbeInv, Worker
    <2> QED
      BY <2>1, <2>2 DEF ProbeInv
  <1>2. probe.agent \in Agents /\ probe.directory \in Directories
    BY <1>1 DEF Probe
  <1>3. answer \in Entry
    BY <1>1 DEF Git!GitAssumption, Entry, Git!Ages
  <1>4. who \in SUBSET Git!Alive /\ Git!Alive \subseteq Agents
    BY AliveAreAgents DEF GitInv, Git!Probed, Git!Others
  <1>5. \A a \in who : /\ at[a] \in Directory /\ cached[a] \in Entry
                       /\ cached[a].context \in ContextsOf(Git!Where(a, at[a]))
    <2> SUFFICES ASSUME NEW a \in who
                 PROVE  at[a] \in Directory /\ Git!Where(a, at[a]) = probe.directory
      BY <1>1, <1>3, <1>4
    <2>1. a \in Agents
      BY <1>4
    <2>2. CASE a = probe.agent
      <3>1. a \in Git!Probed
        BY <2>2 DEF Git!Others
      <3> QED
        BY <1>1, <2>1, <2>2, <3>1 DEF GitInv, AgentsInv, Git!Probed
    <2>3. CASE a # probe.agent
      <3>1. a \in Git!Others
        BY <2>3 DEF Git!Probed
      <3>2. shown[a].directory \in Directory
        BY <2>1 DEF GitInv, ShownInv, Shown
      <3> QED
        BY <2>1, <2>3, <3>1, <3>2 DEF Git!Others, Git!Standing
    <2> QED
      BY <2>2, <2>3
  <1>6. /\ RoundInv(r) /\ r.cache = cache /\ \A a \in Agents \ who : r.shown[a] = shown[a]
    <2>1. RoundInv(Git!Round) /\ Git!Round.cache = cache /\ Git!Round.shown = shown
      BY RoundBegins DEF Git!Round
    <2>2. AgentsInv
      BY DEF GitInv
    <2> HIDE DEF who, at, cached
    <2> QED
      BY <1>4, <1>5, <2>1, <2>2, ObserveHolds
  <1> HIDE DEF r, who
  <1>7. r \in Rounds
    BY <1>6 DEF RoundInv
  <1>8. /\ settled.shown = after /\ settled.cache = cache /\ settled.probe = Nowhere
        /\ settled.worker = idle /\ settled.changed = new
        /\ settled = [shown |-> after, checked |-> read, cache |-> cache, probe |-> Nowhere,
                      worker |-> idle, changed |-> new]
    <2> HIDE DEF after, read, new, idle
    <2>1. DOMAIN r = {"shown", "checked", "cache", "probe", "worker", "changed"}
      BY <1>7 DEF Rounds
    <2>2. DOMAIN settled = DOMAIN r
      OBVIOUS
    <2>3. /\ settled.shown = after /\ settled.checked = read /\ settled.cache = r.cache
          /\ settled.probe = Nowhere /\ settled.worker = idle /\ settled.changed = new
      BY <2>1
    <2>4. settled = [f \in DOMAIN settled |-> settled[f]]
      OBVIOUS
    <2> HIDE DEF settled
    <2> QED
      BY <1>6, <2>1, <2>2, <2>3, <2>4
  <1>9. ShownInv(after)
    <2>1. Git!MovedTo.git = Nowhere /\ Git!MovedTo \in [directory: Directory, git: Context]
      BY <1>2 DEF Git!MovedTo, GitInv, AgentsInv, Context
    <2>2. after \in Shown
      BY <1>7, <2>1 DEF Rounds, Shown
    <2>3. \A a \in Git!Alive : after[a].git \in ContextsOf(Git!Where(a, after[a].directory))
      <3> SUFFICES ASSUME NEW a \in Git!Alive
                   PROVE  after[a].git \in ContextsOf(Git!Where(a, after[a].directory))
        OBVIOUS
      <3>1. a \in Agents
        BY <1>4
      <3>2. CASE a \in moved
        <4>1. after[a].git = Nowhere
          BY <2>1, <3>1, <3>2
        <4> HIDE DEF after
        <4> QED
          BY <4>1 DEF ContextsOf, Context
      <3>3. CASE a \notin moved
        <4>1. after[a] = r.shown[a]
          BY <3>1, <3>3
        <4> HIDE DEF after
        <4> QED
          BY <1>6, <4>1 DEF RoundInv, ShownInv
      <3> QED
        BY <3>2, <3>3
    <2>4. \A a \in Agents \ Git!Alive : after[a] = Git!Unobserved
      BY <1>6 DEF RoundInv, ShownInv
    <2> HIDE DEF after
    <2> QED
      BY <2>2, <2>3, <2>4 DEF ShownInv
  <1>10. \A a \in Agents : after[a] # shown[a] => a \in new
    <2> SUFFICES ASSUME NEW a \in Agents, after[a] # shown[a] PROVE a \in new
      OBVIOUS
    <2>1. CASE a \in moved
      <3>1. a = probe.agent /\ a \notin who /\ after[a] = Git!MovedTo
        BY <2>1 DEF Git!Moved, who, Git!Probed, Git!Others
      <3>2. shown[a] \in [directory: Directory, git: Context]
        BY DEF GitInv, ShownInv, Shown
      <3>3. shown[a].git # Nowhere \/ shown[a].directory # directory[a]
        BY <3>1, <3>2 DEF Git!MovedTo
      <3>4. a \in Git!Retracted
        BY <2>1, <3>3 DEF Git!Retracted
      <3> QED
        BY <3>4
    <2>2. CASE a \notin moved
      <3>1. r.shown[a] # shown[a]
        BY <2>2
      <3> QED
        BY <1>6, <3>1 DEF RoundInv
    <2> QED
      BY <2>1, <2>2
  <1> DEFINE kept == [d \in Directories |->
               IF ~\E a \in Git!Alive : Git!Where(a, after[a].directory) = d THEN Nowhere
               ELSE IF d = probe.directory THEN answer ELSE cache[d]]
             result == [settled EXCEPT !.cache = kept]
  <1>11. Git!ApplyResult(Git!Round) = result
    <2>1. Git!ApplyResult(Git!Round) = Git!Cached(settled)
      BY DEF Git!ApplyResult, r, who, Git!Round
    <2>2. Git!Cached(settled) = [settled EXCEPT !.cache = [d \in Directories |->
               IF ~\E a \in Git!Alive : Git!Where(a, settled.shown[a].directory) = d THEN Nowhere
               ELSE IF d = probe.directory THEN answer ELSE settled.cache[d]]]
      BY DEF Git!Cached
    <2> HIDE DEF settled, after
    <2> QED
      BY <1>8, <2>1, <2>2
  <1>12. CacheInv(kept)
    <2>1. cache \in Cache /\ \A d \in Directories : cache[d] # Nowhere => cache[d].context \in ContextsOf(d)
      BY DEF GitInv, CacheInv
    <2>2. \A d \in Directories : \/ kept[d] = Nowhere
                                 \/ d = probe.directory /\ kept[d] = answer
                                 \/ kept[d] = cache[d]
      OBVIOUS
    <2>3. kept \in Cache
      <3>1. \A d \in Directories : kept[d] \in Entry \cup {Nowhere}
        BY <1>3, <2>1, <2>2 DEF Cache
      <3> QED
        BY <3>1 DEF Cache
    <2>4. answer.context \in ContextsOf(probe.directory)
      BY <1>1
    <2> HIDE DEF kept, answer
    <2>5. \A d \in Directories : kept[d] # Nowhere => kept[d].context \in ContextsOf(d)
      BY <2>1, <2>2, <2>4
    <2> QED
      BY <2>3, <2>5 DEF CacheInv
  <1>13. /\ result.shown = after /\ result.cache = kept /\ result.probe = Nowhere
         /\ result.worker = idle /\ result.changed = new
         /\ result = [shown |-> after, checked |-> read, cache |-> kept, probe |-> Nowhere,
                      worker |-> idle, changed |-> new]
    <2> HIDE DEF settled, after, kept, read, new, idle
    <2> QED
      BY <1>8
  <1>14. read \in Checked
    BY <1>7 DEF Rounds, Checked
  <1>15. new \in SUBSET Agents
    BY <1>4, <1>7 DEF Rounds, Git!Retracted
  <1>16. ProbeInv(Nowhere, idle)
    BY DEF ProbeInv, Worker
  <1> HIDE DEF result, after, kept, read, new, idle
  <1>17. result \in Rounds
    BY <1>9, <1>12, <1>13, <1>14, <1>15, <1>16 DEF Rounds, ShownInv, CacheInv, ProbeInv
  <1> QED
    BY <1>9, <1>10, <1>11, <1>12, <1>13, <1>16, <1>17 DEF RoundInv

-----------------------------------------------------------------------------
\* The next probe

LEMMA CandidatesAreAlive ==
  ASSUME AgentsInv, NEW i \in DOMAIN order PROVE Git!Candidates[i] \in Git!Alive
PROOF
  <1>1. /\ \A j \in DOMAIN order : order[j] \in Git!Alive
        /\ DOMAIN order = 1 .. Len(order) /\ Len(order) \in Nat
    BY AliveAreAgents
  <1>2. CASE selected \notin Git!Alive
    BY <1>1, <1>2 DEF Git!Candidates
  <1>3. CASE selected \in Git!Alive
    <2> DEFINE at == CHOOSE j \in DOMAIN order : order[j] = selected
    <2>1. Git!Candidates = [order EXCEPT ![1] = selected, ![at] = order[1]]
      BY <1>3 DEF Git!Candidates
    <2>2. 1 \in DOMAIN order
      BY <1>1
    <2> HIDE DEF at
    <2> QED
      BY <1>1, <1>3, <2>1, <2>2
  <1> QED
    BY <1>2, <1>3

\* What is taken from the cache for an agent is of where it is.
LEMMA CachedContextFits ==
  ASSUME Git!GitAssumption, AgentsInv, NEW r, RoundInv(r), NEW a \in Git!Alive,
         Git!CachedContext(r, a) # Nowhere
  PROVE  /\ directory[a] \in Directory /\ Git!CachedContext(r, a) \in Entry
         /\ Git!CachedContext(r, a).context \in ContextsOf(Git!Where(a, directory[a]))
PROOF
  <1> DEFINE d == Git!Where(a, directory[a])
  <1>1. directory[a] \in Directory /\ d \in Directories
    BY AliveAreAgents, SomewhereIsADirectory DEF AgentsInv
  <1>2. Git!CachedContext(r, a) = r.cache[d] /\ r.cache[d] # Nowhere
    BY DEF Git!CachedContext
  <1> HIDE DEF d
  <1>3. r.cache[d] \in Entry /\ r.cache[d].context \in ContextsOf(d)
    BY <1>1, <1>2 DEF RoundInv, CacheInv, Cache
  <1> QED
    BY <1>1, <1>2, <1>3 DEF d

\* What the cache answers is shown, and who has to be asked for is probed where it is.
LEMMA ScheduleHolds ==
  ASSUME Git!GitAssumption, AgentsInv, NEW r, RoundInv(r)
  PROVE  RoundInv(Git!Schedule(r))
PROOF
  <1> DEFINE late == {i \in DOMAIN order : Git!Due(r, Git!Candidates[i])}
             asking == {i \in late : Git!CachedContext(r, Git!Candidates[i]) = Nowhere}
             first == CHOOSE i \in asking : \A j \in asking : i <= j
             ahead == {i \in late : \A k \in asking : i < k}
             served == {Git!Candidates[i] : i \in ahead}
             next == Git!Candidates[first]
             cached == [a \in served |-> Git!CachedContext(r, a)]
             seen == Git!Observe(r, served, directory, cached)
             where == Git!Where(next, directory[next])
             task == [agent |-> next, working |-> directory[next], directory |-> where]
             request == [state |-> "request", directory |-> where]
             sent == [seen EXCEPT !.probe = task, !.worker = request]
  <1>1. Git!Schedule(r) = IF r.probe # Nowhere THEN r ELSE IF asking = {} THEN seen ELSE sent
    BY DEF Git!Schedule
  <1>2. DOMAIN order \subseteq Nat /\ \A i \in DOMAIN order : Git!Candidates[i] \in Git!Alive
    BY AliveAreAgents, CandidatesAreAlive
  <1>3. \A i \in ahead : Git!CachedContext(r, Git!Candidates[i]) # Nowhere
    <2> SUFFICES ASSUME NEW i \in ahead, Git!CachedContext(r, Git!Candidates[i]) = Nowhere
                 PROVE  FALSE
      OBVIOUS
    <2>1. i \in asking /\ i \in Nat /\ i < i
      BY <1>2
    <2> QED
      BY <2>1
  <1>4. served \in SUBSET Git!Alive
    BY <1>2
  <1>5. \A a \in served : /\ directory[a] \in Directory /\ cached[a] \in Entry
                            /\ cached[a].context \in ContextsOf(Git!Where(a, directory[a]))
    <2> SUFFICES ASSUME NEW a \in served
                 PROVE  /\ directory[a] \in Directory /\ cached[a] \in Entry
                        /\ cached[a].context \in ContextsOf(Git!Where(a, directory[a]))
      OBVIOUS
    <2>1. a \in Git!Alive /\ Git!CachedContext(r, a) # Nowhere
      BY <1>3, <1>4
    <2>2. cached[a] = Git!CachedContext(r, a)
      OBVIOUS
    <2> HIDE DEF cached, served
    <2> QED
      BY <2>1, <2>2, CachedContextFits
  <1> HIDE DEF served, cached
  <1>6. RoundInv(seen) /\ seen.probe = r.probe /\ seen.worker = r.worker
    <2> HIDE DEF late, asking, ahead, first, next, where, task, request, sent
    <2>1. \A a \in served : directory[a] \in Directory
      BY <1>5
    <2>2. \A a \in served : cached[a] \in Entry
      BY <1>5
    <2>3. \A a \in served : cached[a].context \in ContextsOf(Git!Where(a, directory[a]))
      BY <1>5
    <2> QED
      BY <1>4, <1>5, <2>1, <2>2, <2>3, ObserveHolds
  <1>7. ASSUME r.probe = Nowhere, asking # {} PROVE RoundInv(sent)
    <2>1. first \in asking
      <3>1. asking \in SUBSET Nat
        BY <1>2
      <3>2. \E i \in asking : \A j \in asking : i <= j
        <4> HIDE DEF asking
        <4> QED
          BY <1>7, <3>1, LeastNatural
      <3> QED
        BY <3>2
    <2>2. next \in Git!Alive
      BY <1>2, <2>1
    <2> HIDE DEF first, next
    <2>3. next \in Agents /\ directory[next] \in Directory /\ launch[next] # Nowhere
      BY <2>2, AliveAreAgents DEF AgentsInv
    <2>4. where \in Directories
      BY <2>3, SomewhereIsADirectory
    <2>5. /\ task \in Probe /\ task # Nowhere /\ task.agent = next
          /\ task.working = directory[next] /\ task.directory = where
      <3> HIDE DEF where
      <3>1. task \in Probe
        BY <2>3, <2>4 DEF Probe
      <3> QED
        BY <3>1 DEF Probe, Directory, Git!GitAssumption
    <2>6. request \in Worker /\ request.state = "request" /\ request.directory = where
      <3> HIDE DEF where
      <3> QED
        BY <2>4 DEF Worker
    <2>7. ProbeInv(task, request)
      <3>1. task.directory = Git!Where(task.agent, task.working)
        BY <2>5
      <3> HIDE DEF task, request, where
      <3> QED
        BY <2>3, <2>5, <2>6, <3>1 DEF ProbeInv
    <2>8. seen \in Rounds
      BY <1>6 DEF RoundInv
    <2>9. /\ sent.shown = seen.shown /\ sent.cache = seen.cache /\ sent.changed = seen.changed
          /\ sent.probe = task /\ sent.worker = request /\ sent \in Rounds
      <3> HIDE DEF seen, task, request
      <3> QED
        BY <2>5, <2>6, <2>8 DEF Rounds
    <2> HIDE DEF seen, task, request, sent
    <2> QED
      BY <1>6, <2>7, <2>9 DEF RoundInv
  <1> HIDE DEF asking, seen, sent
  <1> QED
    BY <1>1, <1>6, <1>7

\* A poll announces whatever it changed.
LEMMA GitPollStep ==
  ASSUME Git!GitAssumption, GitInv, Git!Poll PROVE GitInv'
PROOF
  <1> DEFINE round == IF worker.state = "result" THEN Git!ApplyResult(Git!Round) ELSE Git!Round
             s == Git!Schedule(round)
  <1>1. /\ shown' = s.shown /\ checked' = s.checked /\ cache' = s.cache
        /\ probe' = s.probe /\ worker' = s.worker
        /\ told' = [a \in Agents |-> IF a \in s.changed \cap Git!Alive THEN s.shown[a] ELSE told[a]]
        /\ UNCHANGED <<order, launch, directory, selected, head>>
    BY DEF Git!Poll, Git!agents
  <1>2. RoundInv(round)
    BY RoundBegins, ResultHolds
  <1> HIDE DEF round
  <1>3. RoundInv(s)
    BY <1>2, ScheduleHolds DEF GitInv
  <1> HIDE DEF s
  <1>4. AgentsInv' /\ Git!Alive' = Git!Alive
    BY <1>1 DEF GitInv, AgentsInv, Git!Alive, Git!InOrder
  <1>5. ShownInv(shown)' /\ CacheInv(cache)' /\ ProbeInv(probe, worker)' /\ checked' \in Checked
    BY <1>1, <1>3, <1>4 DEF RoundInv, Rounds, ShownInv, CacheInv, ProbeInv, Git!Where,
                            Git!Unobserved
  <1>6. told' = shown'
    <2>1. s.shown \in Shown /\ told = shown /\ shown \in Shown
      BY <1>3 DEF RoundInv, ShownInv, GitInv
    <2>2. \A a \in Agents : a \notin s.changed \cap Git!Alive => s.shown[a] = shown[a]
      BY <1>3 DEF RoundInv, GitInv, ShownInv
    <2>3. \A a \in Agents : told'[a] = s.shown[a]
      BY <1>1, <2>1, <2>2
    <2>4. told' = [a \in Agents |-> s.shown[a]]
      BY <1>1, <2>3
    <2> QED
      BY <1>1, <2>1, <2>4 DEF Shown
  <1> QED
    BY <1>4, <1>5, <1>6 DEF GitInv

-----------------------------------------------------------------------------
\* Git, the clock and the user

\* An element is removed, and the others stay in their order.
LEMMA RemovedAt ==
  ASSUME NEW S, NEW s \in Seq(S), NEW i \in DOMAIN s
  PROVE  /\ Git!RemoveAt(s, i) \in Seq(S) /\ Len(Git!RemoveAt(s, i)) = Len(s) - 1
         /\ \A j \in 1 .. Len(s) - 1 :
              Git!RemoveAt(s, i)[j] = IF j < i THEN s[j] ELSE s[j + 1]
PROOF
  <1> DEFINE before == SubSeq(s, 1, i - 1)
             behind == SubSeq(s, i + 1, Len(s))
  <1>1. Len(s) \in Nat /\ i \in 1 .. Len(s) /\ i \in Int /\ \A j \in 1 .. Len(s) : s[j] \in S
    BY LenProperties, ElementOfSeq
  <1>2. /\ before \in Seq(S) /\ Len(before) = i - 1
        /\ \A j \in 1 .. i - 1 : before[j] = s[j]
    <2>1. 1 \in Int /\ i - 1 \in Int /\ \A j \in 1 .. i - 1 : s[j] \in S
      BY <1>1
    <2>2. before \in Seq(S) /\ Len(before) = IF 1 <= i - 1 THEN i - 1 - 1 + 1 ELSE 0
      BY <2>1, SubSeqProperties
    <2>3. \A j \in 1 .. i - 1 : before[j] = s[1 + j - 1]
      BY <1>1, <2>1, SubSeqProperties
    <2> QED
      BY <1>1, <2>2, <2>3
  <1>3. /\ behind \in Seq(S) /\ Len(behind) = Len(s) - i
        /\ \A j \in 1 .. Len(s) - i : behind[j] = s[i + j]
    <2> DEFINE m == i + 1
               n == Len(s)
    <2>1. m \in Int /\ n \in Int /\ \A j \in m .. n : s[j] \in S
      BY <1>1
    <2> HIDE DEF m, n
    <2>2. /\ SubSeq(s, m, n) \in Seq(S)
          /\ Len(SubSeq(s, m, n)) = IF m <= n THEN n - m + 1 ELSE 0
          /\ \A j \in 1 .. n - m + 1 : SubSeq(s, m, n)[j] = s[m + j - 1]
      BY <2>1, SubSeqProperties
    <2>3. /\ behind \in Seq(S)
          /\ Len(behind) = IF i + 1 <= Len(s) THEN Len(s) - (i + 1) + 1 ELSE 0
          /\ \A j \in 1 .. Len(s) - (i + 1) + 1 : behind[j] = s[i + 1 + j - 1]
      BY <2>2 DEF m, n
    <2>4. Len(behind) = Len(s) - i /\ Len(s) - (i + 1) + 1 = Len(s) - i
      BY <1>1, <2>3
    <2>5. ASSUME NEW j \in 1 .. Len(s) - i
          PROVE  behind[j] = s[i + j]
      <3>1. i + 1 + j - 1 = i + j
        BY <1>1
      <3> QED
        BY <2>3, <2>4, <3>1
    <2> QED
      BY <2>3, <2>4, <2>5
  <1>4. Git!RemoveAt(s, i) = before \o behind
    BY DEF Git!RemoveAt
  <1> HIDE DEF before, behind
  <1>5. /\ before \o behind \in Seq(S) /\ Len(before \o behind) = Len(s) - 1
        /\ \A j \in 1 .. Len(s) - 1 :
             (before \o behind)[j] = IF j <= i - 1 THEN before[j] ELSE behind[j - (i - 1)]
    <2>1. /\ before \o behind \in Seq(S)
          /\ Len(before \o behind) = Len(before) + Len(behind)
          /\ \A j \in 1 .. Len(before) + Len(behind) : (before \o behind)[j] =
               IF j <= Len(before) THEN before[j] ELSE behind[j - Len(before)]
      BY <1>2, <1>3, ConcatProperties
    <2>2. Len(before) + Len(behind) = Len(s) - 1
      BY <1>1, <1>2, <1>3
    <2> QED
      BY <1>2, <2>1, <2>2
  <1>6. \A j \in 1 .. Len(s) - 1 : (before \o behind)[j] = IF j < i THEN s[j] ELSE s[j + 1]
    <2> SUFFICES ASSUME NEW j \in 1 .. Len(s) - 1
                 PROVE  (before \o behind)[j] = IF j < i THEN s[j] ELSE s[j + 1]
      OBVIOUS
    <2>1. CASE j < i
      BY <1>1, <1>2, <1>5, <2>1
    <2>2. CASE ~(j < i)
      <3>1. j - (i - 1) \in 1 .. Len(s) - i /\ i + (j - (i - 1)) = j + 1 /\ ~(j <= i - 1)
        BY <1>1, <2>2
      <3> QED
        BY <1>3, <1>5, <2>2, <3>1
    <2> QED
      BY <2>1, <2>2
  <1> QED
    BY <1>4, <1>5, <1>6

\* Of different agents all but one stay.
LEMMA OthersStay ==
  ASSUME AgentsInv, NEW i \in DOMAIN order, order' = Git!RemoveAt(order, i)
  PROVE  /\ order' \in Seq(Agents) /\ Git!Alive' = Git!Alive \ {order[i]}
         /\ \A j, k \in DOMAIN order' : order'[j] = order'[k] => j = k
PROOF
  <1>1. /\ Len(order) \in Nat /\ DOMAIN order = 1 .. Len(order) /\ order \in Seq(Agents)
        /\ \A j, k \in DOMAIN order : order[j] = order[k] => j = k
    BY AliveAreAgents DEF AgentsInv
  <1>2. /\ order' \in Seq(Agents) /\ Len(order') = Len(order) - 1
        /\ \A j \in 1 .. Len(order) - 1 : order'[j] = IF j < i THEN order[j] ELSE order[j + 1]
    BY <1>1, RemovedAt
  <1>3. DOMAIN order' = 1 .. Len(order) - 1
    BY <1>2, LenProperties
  <1>4. \A j, k \in DOMAIN order' : order'[j] = order'[k] => j = k
    <2> SUFFICES ASSUME NEW j \in 1 .. Len(order) - 1, NEW k \in 1 .. Len(order) - 1,
                        order'[j] = order'[k]
                 PROVE  j = k
      BY <1>3
    <2> DEFINE from(n) == IF n < i THEN n ELSE n + 1
    <2>1. order'[j] = order[from(j)] /\ order'[k] = order[from(k)]
      BY <1>2
    <2>2. from(j) \in DOMAIN order /\ from(k) \in DOMAIN order
      BY <1>1
    <2>3. from(j) = from(k)
      <3> HIDE DEF from
      <3> QED
        BY <1>1, <2>1, <2>2
    <2> QED
      BY <1>1, <2>3
  <1>5. Git!Alive' = Git!Alive \ {order[i]}
    <2>1. ASSUME NEW j \in DOMAIN order' PROVE order'[j] \in Git!Alive \ {order[i]}
      <3>1. PICK k \in DOMAIN order : k # i /\ order'[j] = order[k]
        BY <1>1, <1>2, <1>3, <2>1
      <3> QED
        BY <1>1, <3>1 DEF Git!Alive, Git!InOrder
    <2>2. ASSUME NEW k \in DOMAIN order, order[k] # order[i]
          PROVE  \E j \in DOMAIN order' : order'[j] = order[k]
      <3>1. k # i /\ k \in Nat /\ i \in Nat
        BY <1>1, <2>2
      <3>2. CASE k < i
        BY <1>1, <1>2, <1>3, <3>1, <3>2
      <3>3. CASE k > i
        <4>1. k - 1 \in 1 .. Len(order) - 1 /\ ~(k - 1 < i) /\ (k - 1) + 1 = k
          BY <1>1, <3>1, <3>3
        <4> QED
          BY <1>2, <1>3, <4>1
      <3> QED
        BY <3>1, <3>2, <3>3
    <2> QED
      BY <2>1, <2>2 DEF Git!Alive, Git!InOrder
  <1> QED
    BY <1>2, <1>4, <1>5

\* What is shown stays true while nobody comes or goes.
LEMMA ShownStays ==
  ASSUME ShownInv(shown), UNCHANGED <<order, launch, shown>>
  PROVE  ShownInv(shown)'
PROOF
  BY DEF ShownInv, Git!Alive, Git!InOrder, Git!Where, Git!Unobserved

LEMMA RunGitStep ==
  ASSUME GitInv, NEW repository \in BOOLEAN, Git!RunGit(repository) PROVE GitInv'
PROOF
  <1> DEFINE d == worker.directory
             c == IF repository THEN [directory |-> d, revision |-> head[d]] ELSE Nowhere
  <1>1. /\ worker.state = "request" /\ worker' = [state |-> "result", context |-> c]
        /\ UNCHANGED <<order, launch, directory, selected, head, shown, checked, cache, probe,
                        told>>
    BY DEF Git!RunGit, Git!agents
  <1>2. ProbeInv(probe, worker) /\ probe # Nowhere /\ d = probe.directory /\ d \in Directories
    BY <1>1 DEF GitInv, ProbeInv, Probe
  <1>3. c \in Context /\ c \in ContextsOf(d)
    <2>1. [directory |-> d, revision |-> head[d]] \in Git!Contexts
      BY <1>2 DEF GitInv, AgentsInv, Git!Contexts
    <2> QED
      BY <2>1 DEF Context, ContextsOf
  <1> HIDE DEF c, d
  <1>4. worker' \in Worker /\ worker'.state = "result" /\ worker'.context = c
    BY <1>1, <1>3 DEF Worker
  <1>5. ProbeInv(probe, worker)'
    BY <1>1, <1>2, <1>3, <1>4 DEF ProbeInv, Git!Where
  <1>6. AgentsInv' /\ CacheInv(cache)'
    BY <1>1 DEF GitInv, AgentsInv, CacheInv, Git!Alive, Git!InOrder
  <1> QED
    BY <1>1, <1>5, <1>6, ShownStays DEF GitInv

LEMMA GitTickStep ==
  ASSUME Git!GitAssumption, GitInv, Git!Tick PROVE GitInv'
PROOF
  <1> DEFINE Older(age) == IF age = Background THEN age ELSE age + 1
  <1>1. /\ checked' = [a \in Agents |-> IF checked[a] = Nowhere THEN Nowhere ELSE Older(checked[a])]
        /\ cache' = [d \in Directories |->
             IF cache[d] = Nowhere THEN Nowhere ELSE [cache[d] EXCEPT !.age = Older(@)]]
        /\ UNCHANGED <<order, launch, directory, selected, head, shown, probe, worker, told>>
    BY DEF Git!Tick, Git!agents
  <1>2. \A age \in Git!Ages : Older(age) \in Git!Ages
    BY DEF Git!GitAssumption, Git!Ages
  <1> HIDE DEF Older
  <1>3. checked' \in Checked
    BY <1>1, <1>2 DEF GitInv, Checked
  <1>4. CacheInv(cache)'
    <2>1. cache \in Cache /\ \A d \in Directories : cache[d] # Nowhere => cache[d].context \in ContextsOf(d)
      BY DEF GitInv, CacheInv
    <2>2. ASSUME NEW d \in Directories
          PROVE  \/ cache'[d] = Nowhere
                 \/ cache'[d] \in Entry /\ cache'[d].context = cache[d].context /\ cache[d] # Nowhere
      <3>1. CASE cache[d] = Nowhere
        BY <1>1, <3>1
      <3>2. CASE cache[d] # Nowhere
        <4>1. cache[d] \in Entry /\ cache'[d] = [cache[d] EXCEPT !.age = Older(cache[d].age)]
          BY <1>1, <2>1, <3>2 DEF Cache
        <4> QED
          BY <1>2, <3>2, <4>1 DEF Entry
      <3> QED
        BY <3>1, <3>2
    <2>3. cache' = [d \in Directories |-> cache'[d]]
      BY <1>1
    <2>4. cache' \in Cache
      BY <2>2, <2>3 DEF Cache
    <2> QED
      BY <2>1, <2>2, <2>4 DEF CacheInv
  <1>5. AgentsInv' /\ ProbeInv(probe, worker)'
    BY <1>1 DEF GitInv, AgentsInv, ProbeInv, Git!Alive, Git!InOrder, Git!Where
  <1> QED
    BY <1>1, <1>3, <1>4, <1>5, ShownStays DEF GitInv

LEMMA ChangeStep ==
  ASSUME Git!GitAssumption, GitInv, NEW d \in Directories, Git!Change(d) PROVE GitInv'
PROOF
  <1>1. /\ head[d] < MaxRevision /\ head' = [head EXCEPT ![d] = @ + 1]
        /\ UNCHANGED <<order, launch, directory, selected, shown, checked, cache, probe, worker, told>>
    BY DEF Git!Change, Git!agents
  <1>2. head' \in [Directories -> 0 .. MaxRevision]
    BY <1>1 DEF Git!GitAssumption, GitInv, AgentsInv
  <1>3. AgentsInv' /\ CacheInv(cache)' /\ ProbeInv(probe, worker)' /\ checked' \in Checked
    BY <1>1, <1>2 DEF GitInv, AgentsInv, CacheInv, ProbeInv, Git!Alive, Git!InOrder, Git!Where
  <1> QED
    BY <1>1, <1>3, ShownStays DEF GitInv

LEMMA MoveStep ==
  ASSUME Git!GitAssumption, GitInv, NEW a \in Agents, NEW d \in Directory, Git!Move(a, d)
  PROVE  GitInv'
PROOF
  <1>1. /\ directory' = [directory EXCEPT ![a] = d]
        /\ \/ head' = head
           \/ d \in Directories /\ head[d] < MaxRevision /\ head' = [head EXCEPT ![d] = @ + 1]
        /\ UNCHANGED <<order, launch, selected, shown, checked, cache, probe, worker, told>>
    BY DEF Git!Move, Directory
  <1>2. head' \in [Directories -> 0 .. MaxRevision]
    BY <1>1 DEF Git!GitAssumption, GitInv, AgentsInv
  <1>3. directory' \in [Agents -> Directory]
    BY <1>1 DEF GitInv, AgentsInv
  <1>4. AgentsInv' /\ CacheInv(cache)' /\ ProbeInv(probe, worker)' /\ checked' \in Checked
    BY <1>1, <1>2, <1>3
    DEF GitInv, AgentsInv, CacheInv, ProbeInv, Git!Alive, Git!InOrder, Git!Where
  <1> QED
    BY <1>1, <1>4, ShownStays DEF GitInv

\* Identifiers are not used again: who is spawned was never seen.
LEMMA GitSpawnStep ==
  ASSUME Git!GitAssumption, GitInv, NEW a \in Agents, NEW d \in Directories, Git!Spawn(a, d)
  PROVE  GitInv'
PROOF
  <1>1. /\ \A b \in Agents : launch[b] # Nowhere <=> b < a
        /\ order' = Append(order, a) /\ launch' = [launch EXCEPT ![a] = d]
        /\ directory' = [directory EXCEPT ![a] = d]
        /\ selected' = IF selected = Nowhere THEN a ELSE selected
        /\ UNCHANGED <<head, shown, checked, cache, probe, worker, told>>
    BY DEF Git!Spawn
  <1>2. launch[a] = Nowhere /\ a \notin Git!Alive
    <2>1. Agents \subseteq Nat
      BY DEF Git!GitAssumption
    <2>2. ~(a < a)
      BY <2>1
    <2> QED
      BY <1>1, <2>2 DEF GitInv, AgentsInv
  <1>3. d \in Directory /\ d # Nowhere
    BY DEF Directory, Git!GitAssumption
  <1>4. /\ order \in Seq(Agents) /\ Len(order) \in Nat /\ DOMAIN order = 1 .. Len(order)
        /\ \A i \in DOMAIN order : order[i] \in Git!Alive
        /\ \A i, j \in DOMAIN order : order[i] = order[j] => i = j
    BY AliveAreAgents DEF GitInv, AgentsInv
  <1>5. /\ order' \in Seq(Agents) /\ DOMAIN order' = 1 .. Len(order) + 1
        /\ \A i \in 1 .. Len(order) : order'[i] = order[i]
        /\ order'[Len(order) + 1] = a
    BY <1>1, <1>4, AppendProperties, LenProperties
  <1>6. Git!Alive' = Git!Alive \cup {a}
    BY <1>4, <1>5 DEF Git!Alive, Git!InOrder
  <1>7. \A i, j \in DOMAIN order' : order'[i] = order'[j] => i = j
    <2> SUFFICES ASSUME NEW i \in DOMAIN order', NEW j \in DOMAIN order', order'[i] = order'[j]
                 PROVE  i = j
      OBVIOUS
    <2>1. \A k \in DOMAIN order' : k \in DOMAIN order \/ k = Len(order) + 1
      BY <1>4, <1>5
    <2>2. CASE i \in DOMAIN order /\ j \in DOMAIN order
      BY <1>4, <1>5, <2>2
    <2>3. CASE i \in DOMAIN order /\ j = Len(order) + 1
      BY <1>2, <1>4, <1>5, <2>3
    <2>4. CASE i = Len(order) + 1 /\ j \in DOMAIN order
      BY <1>2, <1>4, <1>5, <2>4
    <2> QED
      BY <2>1, <2>2, <2>3, <2>4
  <1>8. /\ launch' \in [Agents -> Directory] /\ directory' \in [Agents -> Directory]
        /\ launch'[a] = d /\ \A b \in Agents : b # a => launch'[b] = launch[b]
    BY <1>1, <1>3 DEF GitInv, AgentsInv
  <1>9. Git!Alive \subseteq Agents
    BY AliveAreAgents DEF GitInv
  <1>10. AgentsInv'
    BY <1>1, <1>3, <1>5, <1>6, <1>7, <1>8, <1>9 DEF GitInv, AgentsInv
  <1>11. ShownInv(shown)'
    <2>1. shown \in Shown /\ shown[a] = Git!Unobserved
      BY <1>2 DEF GitInv, ShownInv
    <2>2. shown[a].git = Nowhere
      BY <2>1 DEF Git!Unobserved
    <2>3. Nowhere \in ContextsOf(Git!Where(a, shown[a].directory)')
      BY DEF ContextsOf, Context
    <2>4. \A b \in Git!Alive : Git!Where(b, shown[b].directory)' = Git!Where(b, shown[b].directory)
      BY <1>1, <1>2, <1>8, <1>9 DEF Git!Where
    <2>5. \A b \in Git!Alive : shown'[b].git \in ContextsOf(Git!Where(b, shown[b].directory)')
      BY <1>1, <2>4 DEF GitInv, ShownInv
    <2>6. \A b \in Git!Alive' : shown'[b].git \in ContextsOf(Git!Where(b, shown[b].directory)')
      BY <1>1, <1>6, <2>2, <2>3, <2>5
    <2>7. \A b \in Agents \ Git!Alive' : shown'[b] = Git!Unobserved'
      BY <1>1, <1>6 DEF GitInv, ShownInv, Git!Unobserved
    <2> QED
      BY <1>1, <2>1, <2>6, <2>7 DEF ShownInv
  <1>12. ProbeInv(probe, worker)'
    <2>1. probe # Nowhere => probe.agent \in Agents /\ probe.agent # a
      BY <1>2 DEF GitInv, ProbeInv, Probe
    <2> QED
      BY <1>1, <1>8, <2>1 DEF GitInv, ProbeInv, Git!Where
  <1>13. CacheInv(cache)' /\ checked' \in Checked
    BY <1>1 DEF GitInv, CacheInv
  <1> QED
    BY <1>1, <1>10, <1>11, <1>12, <1>13 DEF GitInv

LEMMA GitCloseStep ==
  ASSUME GitInv, NEW a \in Agents, Git!Close(a) PROVE GitInv'
PROOF
  <1>1. /\ \E i \in DOMAIN order : order[i] = a /\ order' = Git!RemoveAt(order, i)
        /\ directory' = [directory EXCEPT ![a] = Nowhere]
        /\ checked' = [checked EXCEPT ![a] = Nowhere]
        /\ \/ selected # a /\ UNCHANGED selected
           \/ selected' \in (Git!InOrder(order') \cup {Nowhere})
        /\ shown' = [shown EXCEPT ![a] = Git!Unobserved]
        /\ told' = [told EXCEPT ![a] = Git!Unobserved]
        /\ UNCHANGED <<launch, head, cache, probe, worker>>
    BY DEF Git!Close
  <1>2. /\ order' \in Seq(Agents) /\ Git!Alive' = Git!Alive \ {a}
        /\ \A j, k \in DOMAIN order' : order'[j] = order'[k] => j = k
    BY <1>1, OthersStay DEF GitInv
  <1>3. selected' \in Git!Alive' \cup {Nowhere}
    BY <1>1, <1>2 DEF GitInv, AgentsInv, Git!Alive
  <1>4. directory' \in [Agents -> Directory] /\ checked' \in Checked
    BY <1>1 DEF GitInv, AgentsInv, Directory, Checked
  <1>5. AgentsInv'
    BY <1>1, <1>2, <1>3, <1>4 DEF GitInv, AgentsInv
  <1>6. Git!Unobserved \in [directory: Directory, git: Context]
    BY DEF Git!Unobserved, Directory, Context
  <1>7. /\ shown' \in Shown /\ told' = shown' /\ shown'[a] = Git!Unobserved
        /\ \A b \in Agents : b # a => shown'[b] = shown[b]
    BY <1>1, <1>6 DEF GitInv, ShownInv, Shown
  <1>8. ShownInv(shown)'
    <2>1. Git!Alive \subseteq Agents
      BY AliveAreAgents DEF GitInv
    <2>2. \A b \in Git!Alive' : shown'[b].git \in ContextsOf(Git!Where(b, shown[b].directory)')
      BY <1>1, <1>2, <1>7, <2>1 DEF GitInv, ShownInv, Git!Where
    <2>3. \A b \in Agents \ Git!Alive' : shown'[b] = Git!Unobserved
      BY <1>2, <1>7 DEF GitInv, ShownInv
    <2> QED
      BY <1>7, <2>2, <2>3 DEF ShownInv, Git!Unobserved
  <1>9. CacheInv(cache)' /\ ProbeInv(probe, worker)'
    BY <1>1 DEF GitInv, CacheInv, ProbeInv, Git!Where
  <1> QED
    BY <1>4, <1>5, <1>7, <1>8, <1>9 DEF GitInv

LEMMA GitSelectStep ==
  ASSUME GitInv, NEW a \in Agents, Git!Select(a) PROVE GitInv'
PROOF
  <1>1. /\ a \in Git!Alive /\ selected' = a /\ checked' = [checked EXCEPT ![a] = Nowhere]
        /\ UNCHANGED <<order, launch, directory, head, shown, cache, probe, worker, told>>
    BY DEF Git!Select
  <1>2. AgentsInv' /\ CacheInv(cache)' /\ ProbeInv(probe, worker)' /\ checked' \in Checked
    BY <1>1 DEF GitInv, AgentsInv, CacheInv, ProbeInv, Checked, Git!Alive, Git!InOrder, Git!Where
  <1> QED
    BY <1>1, <1>2, ShownStays DEF GitInv

-----------------------------------------------------------------------------
\* The invariant, and what follows from it

LEMMA GitInit ==
  ASSUME Git!GitAssumption, Git!Init PROVE GitInv
PROOF
  <1>1. order = <<>> /\ order \in Seq(Agents) /\ Git!Alive = {}
    BY EmptySeq DEF Git!Init, Git!Alive, Git!InOrder
  <1>2. AgentsInv
    BY <1>1 DEF Git!Init, Git!GitAssumption, AgentsInv, Directory
  <1>3. ShownInv(shown) /\ checked \in Checked /\ told = shown
    BY <1>1 DEF Git!Init, ShownInv, Shown, Checked, Git!Unobserved, Directory, Context
  <1>4. CacheInv(cache) /\ ProbeInv(probe, worker)
    BY DEF Git!Init, CacheInv, Cache, ProbeInv, Worker
  <1> QED
    BY <1>2, <1>3, <1>4 DEF GitInv

LEMMA GitStep ==
  ASSUME Git!GitAssumption, GitInv, [Git!Next]_(Git!vars) PROVE GitInv'
PROOF
  <1>1. CASE Git!Poll \/ Git!Tick
    BY <1>1, GitPollStep, GitTickStep
  <1>2. CASE \E repository \in BOOLEAN : Git!RunGit(repository)
    BY <1>2, RunGitStep
  <1>3. CASE \E d \in Directories : Git!Change(d)
    BY <1>3, ChangeStep
  <1>4. CASE \E a \in Agents, d \in Directories \cup {Nowhere} : Git!Move(a, d)
    BY <1>4, MoveStep DEF Directory
  <1>5. CASE \E a \in Agents, d \in Directories : Git!Spawn(a, d)
    BY <1>5, GitSpawnStep
  <1>6. CASE \E a \in Agents : Git!Close(a) \/ Git!Select(a)
    BY <1>6, GitCloseStep, GitSelectStep
  <1>7. CASE UNCHANGED Git!vars
    <2>1. UNCHANGED <<order, launch, directory, selected, head, shown, checked, cache, probe, worker, told>>
      BY <1>7 DEF Git!vars, Git!agents
    <2>2. AgentsInv' /\ CacheInv(cache)' /\ ProbeInv(probe, worker)' /\ checked' \in Checked
      BY <2>1 DEF GitInv, AgentsInv, CacheInv, ProbeInv, Git!Alive, Git!InOrder, Git!Where
    <2> QED
      BY <2>1, <2>2, ShownStays DEF GitInv
  <1> QED
    BY <1>1, <1>2, <1>3, <1>4, <1>5, <1>6, <1>7 DEF Git!Next

LEMMA GitInvShows ==
  ASSUME GitInv
  PROVE  Git!TypeOK /\ Git!ContextIsOfTheDirectory /\ Git!ClientKnowsTheContext
PROOF
  <1>2. Git!Alive \subseteq Agents
    BY AliveAreAgents DEF GitInv
  <1>3. Git!TypeOK
    BY <1>2
    DEF GitInv, AgentsInv, ShownInv, CacheInv, ProbeInv, Git!TypeOK, Shown, Checked, Cache, Entry,
        Context, Directory
  <1>4. Git!ContextIsOfTheDirectory
    BY DEF GitInv, ShownInv, Git!ContextIsOfTheDirectory, Git!Standing, ContextsOf
  <1> QED
    BY <1>3, <1>4 DEF GitInv, Git!ClientKnowsTheContext

\* The Git context a client shows of an agent is the one the server holds, and of the
\* directory the agent is shown to be in, however agents move, share directories, are
\* closed and spawned while a probe runs (apply_git_result and schedule_git_refresh,
\* server.rs 866-1031).
THEOREM ContextsStayCurrent == Spec => []ContextsAreCurrent
PROOF
  <1>1. Init => GitInv
    BY ServicesAssumption, GitInit DEF Init
  <1>2. GitInv /\ [Next]_vars => GitInv'
    <2>1. [Next]_vars => [Git!Next]_(Git!vars)
      BY DEF Next, vars, gitVars, Git!vars, Git!agents
    <2> QED
      BY <2>1, ServicesAssumption, GitStep
  <1>3. GitInv => ContextsAreCurrent
    BY GitInvShows DEF ContextsAreCurrent
  <1> QED
    BY <1>1, <1>2, <1>3, PTL DEF Spec

-----------------------------------------------------------------------------
(* The start of the server: there is one, because the lock is held from     *)
(* before the socket is looked at until after the PID file is gone, and a   *)
(* command that starts one fails only if a server was ended.                 *)

(* From the lock to the end, and how a process is over. *)
Locked == {"locked", "clearing", "binding", "bound", "serving", "stopping", "unbound", "leaving"}
Ended == {"crashed", "stopping", "unbound", "leaving", "stopped"}
OnItsWay == Starting!Starting \cup {"serving"}
Steps == {"unborn", "exited", "starting"} \cup Locked \cup Ended

CommandSteps ==
  {"idle", "waiting", "listing", "choosing", "targeted", "asking", "dying", "done", "failed"}
CommandRecords ==
  [purpose: {"launch", "attach", "stop", "server stop"}, at: CommandSteps,
   list: Seq(Starting!Ids(MaxSessions)), selected: Nat \ {0},
   target: {None, 0} \cup Starting!Ids(MaxSessions), pid: Servers \cup {None}]

\* The files and what the process that each belongs to is at.
FilesInv ==
  /\ {lock, socket, pidfile} \subseteq Servers \cup {None}
  /\ server \in [Servers -> Steps] /\ sessions \subseteq Starting!Ids(MaxSessions)
  /\ \A s \in Servers :
       /\ server[s] \in Locked <=> lock = s
       /\ server[s] \in {"bound", "serving", "stopping"} => socket = s
       /\ server[s] \in {"serving", "stopping"} => pidfile = s
       /\ server[s] = "binding" => socket = None
  /\ socket # None => server[socket] \in Starting!Bound \cup {"exited", "crashed"}

\* A server was ended, or is of another build.
Over ==
  \E s \in Servers : server[s] \in Ended \cup (IF s \in Foreign THEN {"serving"} ELSE {})
Started == Over \/ \E s \in Servers : server[s] \in OnItsWay
Found == Over \/ \E s \in Servers \ Foreign : server[s] = "serving"

\* What a command knows, and what it waits for.
Knows(x) ==
  /\ x.at \in {"asking", "dying"} => x.purpose = "server stop"
  /\ x.at = "choosing" => x.selected <= Len(x.list) + 1
  /\ x.at = "targeted" => x.target # None
  /\ x.target = 0 => x.purpose = "launch"
Expects(x) ==
  /\ x.at = "waiting" => Started
  /\ x.at = "listing" => Found
  /\ x.at = "failed" /\ x.purpose = "launch" /\ x.target = None => Over
CommandInv ==
  /\ command \in [Commands -> CommandRecords]
  /\ \A c \in Commands : Knows(command[c]) /\ Expects(command[c])

StartInv == FilesInv /\ CommandInv

-----------------------------------------------------------------------------
\* Processes

\* Identifiers are numbers, and no number is None.
LEMMA IdsAreNatural ==
  ASSUME Starting!StartupAssumption
  PROVE  /\ MaxSessions \in Nat /\ Starting!Ids(MaxSessions) \subseteq Nat
         /\ None \notin Nat /\ 0 \notin Starting!Ids(MaxSessions)
PROOF
  <1>1. MaxSessions \in Nat /\ None \notin Nat
    BY DEF Starting!StartupAssumption
  <1>2. Starting!Ids(MaxSessions) \subseteq Nat /\ 0 \notin Starting!Ids(MaxSessions)
    BY <1>1 DEF Starting!Ids
  <1> QED
    BY <1>1, <1>2

\* One process moves on: the others keep the files, because none of them
\* holds the lock while this one does.
LEMMA Alone ==
  ASSUME FilesInv, NEW s \in Servers, server[s] \in Locked, NEW t \in Servers, t # s
  PROVE  server[t] \notin Locked
PROOF
  BY DEF FilesInv

\* What a server's process does, and what a server makes of another's end.
Progress ==
  \A s \in Servers :
    /\ server[s] \in Ended => server'[s] \in Ended
    /\ server[s] = "serving" => server'[s] \in {"serving"} \cup Ended
    /\ server[s] \in OnItsWay =>
         \E t \in Servers : server'[t] \in OnItsWay \cup Ended

LEMMA ProgressKeeps ==
  ASSUME Progress
  PROVE  (Over => Over') /\ (Started => Started') /\ (Found => Found')
PROOF
  <1>1. Over => Over'
    BY DEF Progress, Over
  <1>2. Started => Started'
    <2>1. ASSUME NEW s \in Servers, server[s] \in OnItsWay PROVE Started'
      BY <2>1 DEF Progress, Started, Over
    <2> QED
      BY <1>1, <2>1 DEF Started
  <1>3. Found => Found'
    BY <1>1 DEF Progress, Found, Over
  <1> QED
    BY <1>1, <1>2, <1>3

\* A server from its start to its end.
ServerActs(s) ==
  \/ Starting!TryLock(s) \/ Starting!ProbeFirst(s) \/ Starting!RemoveStale(s) \/ Starting!Bind(s)
  \/ Starting!Ready(s) \/ Starting!Fail(s) \/ Starting!Shutdown(s) \/ Starting!Unbind(s)
  \/ Starting!RemovePid(s) \/ Starting!Exit(s) \/ Starting!Crash(s)

LEMMA ServerKeepsFiles ==
  ASSUME Starting!StartupAssumption, FilesInv, NEW s \in Servers, ServerActs(s)
  PROVE  FilesInv' /\ Progress /\ command' = command
PROOF
  <1> USE DEF Starting!Become, FilesInv, Locked, Ended, OnItsWay, Steps, Progress,
              Starting!Starting, Starting!Bound, Starting!Dead
  <1>1. CASE Starting!TryLock(s)
    <2>1. server[s] = "starting" /\ UNCHANGED <<socket, pidfile, sessions, command, keys>>
      BY <1>1 DEF Starting!TryLock
    <2>2. CASE lock = None
      <3>1. lock' = s /\ server' = [server EXCEPT ![s] = "locked"]
        BY <1>1, <2>2 DEF Starting!TryLock, Starting!TakesLock
      <3>2. \A t \in Servers : server[t] \notin Locked
        BY <2>2 DEF Starting!StartupAssumption
      <3>3. server' \in [Servers -> Steps] /\ server'[s] = "locked"
            /\ \A t \in Servers \ {s} : server'[t] = server[t]
        BY <3>1
      <3>4. FilesInv'
        BY <2>1, <3>1, <3>2, <3>3
      <3>5. Progress
        BY <2>1, <3>3
      <3> QED
        BY <2>1, <3>4, <3>5
    <2>3. CASE lock # None
      <3>1. lock \in Servers /\ server[lock] \in Locked /\ lock # s
        BY <2>1, <2>3
      <3>2. lock' = lock /\ server' = [server EXCEPT ![s] = "exited"]
        BY <1>1, <2>3 DEF Starting!TryLock, Starting!TakesLock
      <3>3. FilesInv' /\ server'[lock] = server[lock]
        BY <2>1, <3>1, <3>2
      <3> QED
        BY <2>1, <3>1, <3>2, <3>3
    <2> QED
      BY <2>2, <2>3
  <1>2. CASE Starting!ProbeFirst(s)
    <2>1. server[s] = "locked" /\ UNCHANGED <<socket, pidfile, sessions, command, keys>> /\ lock = s
      BY <1>2 DEF Starting!ProbeFirst
    <2>2. Starting!Probed = "none"
      BY <2>1 DEF Starting!Probed, Starting!Silent
    <2> QED
      BY <1>2, <2>1, <2>2 DEF Starting!ProbeFirst
  <1>3. CASE Starting!RemoveStale(s)
    BY <1>3, Alone DEF Starting!RemoveStale
  <1>4. CASE Starting!Bind(s)
    <2>1. server[s] = "binding" /\ UNCHANGED <<pidfile, sessions, command, keys>>
      BY <1>4 DEF Starting!Bind
    <2>2. lock = s /\ socket = None /\ \A t \in Servers \ {s} : server[t] \notin Locked
      BY <2>1
    <2>3. socket' = s /\ lock' = lock /\ server' = [server EXCEPT ![s] = "bound"]
      BY <1>4, <2>2 DEF Starting!Bind
    <2>4. server' \in [Servers -> Steps] /\ server'[s] = "bound"
          /\ \A t \in Servers \ {s} : server'[t] = server[t]
      BY <2>3
    <2>5. FilesInv'
      BY <2>1, <2>2, <2>3, <2>4
    <2>6. Progress
      BY <2>1, <2>4
    <2> QED
      BY <2>1, <2>5, <2>6
  <1>5. CASE Starting!Ready(s)
    <2>0. PICK n \in 0..MaxSessions : sessions' = Starting!Ids(n)
      BY <1>5, Zenon DEF Starting!Ready
    <2>1. sessions' \subseteq Starting!Ids(MaxSessions)
      <3>1. MaxSessions \in Nat
        BY DEF Starting!StartupAssumption
      <3> HIDE DEF FilesInv, Progress
      <3>2. \A i \in 1..n : i \in 1..MaxSessions
        BY <2>0, <3>1
      <3> QED
        BY <2>0, <3>2 DEF Starting!Ids
    <2> QED
      BY <1>5, <2>1, Alone DEF Starting!Ready
  <1>6. CASE Starting!Fail(s)
    BY <1>6, Alone DEF Starting!Fail, Starting!StartupAssumption
  <1>7. CASE Starting!Shutdown(s)
    BY <1>7, Alone DEF Starting!Shutdown, Starting!files
  <1>8. CASE Starting!Unbind(s)
    BY <1>8, Alone DEF Starting!Unbind, Starting!StartupAssumption
  <1>9. CASE Starting!RemovePid(s)
    BY <1>9, Alone DEF Starting!RemovePid, Starting!StartupAssumption
  <1>10. CASE Starting!Exit(s)
    <2>1. server[s] = "leaving" /\ UNCHANGED <<socket, pidfile, sessions, command, keys>>
      BY <1>10 DEF Starting!Exit
    <2>2. lock = s /\ \A t \in Servers \ {s} : server[t] \notin Locked
      BY <2>1, Alone
    <2>3. lock' = None /\ server' = [server EXCEPT ![s] = "stopped"]
      BY <1>10, <2>2 DEF Starting!Exit
    <2>4. server' \in [Servers -> Steps] /\ server'[s] = "stopped"
          /\ \A t \in Servers \ {s} : server'[t] = server[t]
      BY <2>3
    <2>5. FilesInv'
      BY <2>1, <2>2, <2>3, <2>4 DEF Starting!StartupAssumption
    <2>6. Progress
      BY <2>1, <2>4
    <2> QED
      BY <2>1, <2>5, <2>6
  <1>11. CASE Starting!Crash(s)
    BY <1>11 DEF Starting!Crash, Starting!StartupAssumption
  <1> QED
    BY <1>1, <1>2, <1>3, <1>4, <1>5, <1>6, <1>7, <1>8, <1>9, <1>10, <1>11 DEF ServerActs


-----------------------------------------------------------------------------
\* The rows of a chooser

\* s lists the identifiers of set that are at most k.
Lists(s, set, k) ==
  /\ \A i, j \in DOMAIN s : i < j => s[i] < s[j]
  /\ \A id \in set : id <= k => \E i \in DOMAIN s : s[i] = id
  /\ \A i \in DOMAIN s : s[i] <= k

LEMMA ListsGrow ==
  ASSUME NEW k \in Nat, NEW set \in SUBSET (Nat \ {0}), NEW n \in Nat, n <= k,
         NEW s \in [1..n -> set], Lists(s, set, k)
  PROVE  \E m \in 0..(k + 1) : \E t \in [1..m -> set] : Lists(t, set, k + 1)
PROOF
  <1>1. CASE k + 1 \in set
    <2> DEFINE t == [i \in 1..(n + 1) |-> IF i = n + 1 THEN k + 1 ELSE s[i]]
    <2>1. t \in [1..(n + 1) -> set] /\ t[n + 1] = k + 1 /\ \A i \in 1..n : t[i] = s[i]
      BY <1>1
    <2> HIDE DEF t
    <2>2. \A i \in 1..n : s[i] \in set /\ s[i] \in Nat /\ s[i] <= k
      BY DEF Lists
    <2>a. \A i \in 1..n : s[i] < k + 1 /\ s[i] <= k + 1
      BY <2>2
    <2>3. \A i, j \in DOMAIN t : i < j => t[i] < t[j]
      <3> SUFFICES ASSUME NEW i \in 1..(n + 1), NEW j \in 1..(n + 1), i < j PROVE t[i] < t[j]
        BY <2>1
      <3>1. i \in 1..n
        OBVIOUS
      <3>2. CASE j = n + 1
        BY <2>1, <2>a, <3>1, <3>2
      <3>3. CASE j # n + 1
        BY <2>1, <3>1, <3>3 DEF Lists
      <3> QED
        BY <3>2, <3>3
    <2>4. ASSUME NEW id \in set, id <= k + 1 PROVE \E i \in DOMAIN t : t[i] = id
      <3>1. CASE id = k + 1
        BY <2>1, <3>1
      <3>2. CASE id # k + 1
        <4>1. PICK i \in 1..n : s[i] = id
          BY <2>4, <3>2 DEF Lists
        <4> QED
          BY <2>1, <4>1
      <3> QED
        BY <3>1, <3>2
    <2>5. ASSUME NEW i \in DOMAIN t PROVE t[i] <= k + 1
      <3>1. CASE i = n + 1
        BY <2>1, <3>1
      <3>2. CASE i # n + 1
        <4>1. i \in 1..n
          BY <2>1, <3>2
        <4> QED
          BY <2>1, <2>a, <4>1
      <3> QED
        BY <3>1, <3>2
    <2>6. Lists(t, set, k + 1) /\ n + 1 \in 0..(k + 1)
      BY <2>3, <2>4, <2>5 DEF Lists
    <2> QED
      BY <2>1, <2>6
  <1>2. CASE k + 1 \notin set
    <2>1. \A id \in set : id <= k + 1 => id <= k
      BY <1>2
    <2>2. \A i \in 1..n : s[i] \in set /\ s[i] \in Nat /\ s[i] <= k
      BY DEF Lists
    <2>3. \A i \in 1..n : s[i] <= k + 1
      BY <2>2
    <2>4. Lists(s, set, k + 1)
      BY <2>1, <2>3 DEF Lists
    <2>5. n \in 0..(k + 1)
      OBVIOUS
    <2> QED
      BY <2>4, <2>5
  <1> QED
    BY <1>1, <1>2

\* Every set of identifiers can be listed, in their order.
LEMMA ListsExist ==
  ASSUME NEW set \in SUBSET (Nat \ {0}), NEW last \in Nat
  PROVE  \E n \in 0..last : \E s \in [1..n -> set] : Lists(s, set, last)
PROOF
  <1> DEFINE Listed(k) == \E n \in 0..k : \E s \in [1..n -> set] : Lists(s, set, k)
             T == {k \in Nat : ~Listed(k)}
  <1>1. SUFFICES ASSUME T # {} PROVE FALSE
    OBVIOUS
  <1>2. PICK k \in T : \A m \in T : k <= m
    BY <1>1, LeastNatural
  <1>a. ~Listed(k) /\ k \in Nat
    BY <1>2
  <1>3. CASE k = 0
    <2> DEFINE s == [i \in 1..0 |-> 1]
    <2>1. s \in [1..0 -> set] /\ DOMAIN s = {}
      OBVIOUS
    <2>2. Lists(s, set, 0)
      BY <2>1 DEF Lists
    <2> HIDE DEF s
    <2>3. \E r \in [1..0 -> set] : Lists(r, set, 0)
      BY <2>1, <2>2
    <2>4. 0 \in 0..0
      OBVIOUS
    <2>5. Listed(0)
      BY <2>3, <2>4, Zenon
    <2> QED
      BY <1>a, <1>3, <2>5
  <1>4. CASE k # 0
    <2>1. k - 1 \in Nat /\ k - 1 \notin T /\ (k - 1) + 1 = k
      BY <1>2, <1>4
    <2>2. PICK n \in 0..(k - 1) : \E s \in [1..n -> set] : Lists(s, set, k - 1)
      BY <2>1
    <2>3. PICK s \in [1..n -> set] : Lists(s, set, k - 1)
      BY <2>2
    <2>4. n \in Nat /\ n <= k - 1
      BY <2>1, <2>2
    <2>5. \E m \in 0..((k - 1) + 1) : \E t \in [1..m -> set] : Lists(t, set, (k - 1) + 1)
      <3> HIDE DEF T, Listed
      <3> QED
        BY <2>1, <2>3, <2>4, ListsGrow
    <2> QED
      BY <1>a, <2>1, <2>5
  <1> QED
    BY <1>3, <1>4

LEMMA RowsAreSessions ==
  ASSUME MaxSessions \in Nat, NEW set \in SUBSET Starting!Ids(MaxSessions)
  PROVE  Starting!InOrder(set) \in Seq(set)
PROOF
  <1>1. PICK n \in 0..MaxSessions : \E s \in [1..n -> set] : Lists(s, set, MaxSessions)
    <2>1. set \in SUBSET (Nat \ {0})
      BY DEF Starting!Ids
    <2> QED
      BY <2>1, ListsExist
  <1>2. PICK s \in [1..n -> set] : Lists(s, set, MaxSessions)
    BY <1>1
  <1>3. (\A i, j \in DOMAIN s : i < j => s[i] < s[j])
        /\ \A id \in set : \E i \in DOMAIN s : s[i] = id
    BY <1>2 DEF Lists, Starting!Ids
  <1>4. s \in UNION {[Starting!Ids(m) -> set] : m \in 0..MaxSessions}
    BY <1>1, <1>2 DEF Starting!Ids
  <1>5. Starting!InOrder(set) \in UNION {[Starting!Ids(m) -> set] : m \in 0..MaxSessions}
    BY <1>3, <1>4, Zenon DEF Starting!InOrder
  <1>6. PICK m \in 0..MaxSessions : Starting!InOrder(set) \in [Starting!Ids(m) -> set]
    BY <1>5, Zenon
  <1> QED
    BY <1>6 DEF Starting!Ids

-----------------------------------------------------------------------------
\* Commands

CommandActs(c) ==
  \/ Starting!Begin(c) \/ Starting!Wait(c) \/ Starting!List(c) \/ Starting!ChooserKey(c)
  \/ Starting!Use(c) \/ Starting!StopServer(c) \/ Starting!Decline(c) \/ Starting!AwaitEnd(c)

\* A command touches no file.  It may create a server process, or ask one
\* that serves to stop.
LEMMA CommandKeepsFiles ==
  ASSUME Starting!StartupAssumption, FilesInv, CommandInv, NEW c \in Commands, CommandActs(c)
  PROVE  FilesInv' /\ Progress
PROOF
  <1> DEFINE Creates == \E s \in Servers : server[s] = "unborn" /\ Starting!Become(s, "starting")
             Stops == \E p \in Servers : server[p] = "serving" /\ Starting!Become(p, "stopping")
  <1>1. UNCHANGED <<lock, socket, pidfile>>
    BY DEF CommandActs, Starting!Begin, Starting!Wait, Starting!WaitPolls, Starting!List,
           Starting!ChooserKey, Starting!Use, Starting!StopServer, Starting!Decline,
           Starting!AwaitEnd, Starting!files
  <1>2. sessions' \subseteq Starting!Ids(MaxSessions)
    <2>1. CASE Starting!Use(c)
      BY <2>1 DEF Starting!Use, FilesInv
    <2>2. CASE ~Starting!Use(c)
      BY <2>2 DEF FilesInv, CommandActs, Starting!Begin, Starting!Wait, Starting!WaitPolls,
                  Starting!List, Starting!ChooserKey, Starting!StopServer, Starting!Decline,
                  Starting!AwaitEnd
    <2> QED
      BY <2>1, <2>2
  <1>3. server' = server \/ Creates \/ Stops
    <2>1. CASE Starting!Begin(c)
      BY <2>1 DEF Starting!Begin
    <2>2. CASE Starting!StopServer(c)
      <3>1. command[c].pid \in Servers \cup {None} /\ socket \in Servers \cup {None}
        BY DEF CommandInv, CommandRecords, FilesInv
      <3>2. CASE command[c].pid = None
        <4>1. server' = server \/ (Starting!Answers /\ Starting!Become(socket, "stopping"))
          BY <2>2, <3>2 DEF Starting!StopServer
        <4> QED
          BY <3>1, <4>1 DEF Starting!Answers
      <3>3. CASE command[c].pid # None
        <4>1. server' = server
              \/ (server[command[c].pid] = "serving" /\ Starting!Become(command[c].pid, "stopping"))
          BY <2>2, <3>3 DEF Starting!StopServer
        <4> QED
          BY <3>1, <3>3, <4>1
      <3> QED
        BY <3>2, <3>3
    <2>3. CASE ~Starting!Begin(c) /\ ~Starting!StopServer(c)
      BY <2>3 DEF CommandActs, Starting!Wait, Starting!WaitPolls, Starting!List,
                  Starting!ChooserKey, Starting!Use, Starting!Decline, Starting!AwaitEnd
    <2> QED
      BY <2>1, <2>2, <2>3
  <1> USE DEF FilesInv, Progress, Starting!Become, Locked, Ended, OnItsWay, Steps,
              Starting!Starting, Starting!Bound, Starting!Dead
  <1>4. CASE server' = server
    BY <1>1, <1>2, <1>4
  <1>5. CASE Creates
    <2>1. PICK s \in Servers : server[s] = "unborn" /\ server' = [server EXCEPT ![s] = "starting"]
      BY <1>5
    <2>2. server' \in [Servers -> Steps] /\ server'[s] = "starting"
          /\ \A t \in Servers \ {s} : server'[t] = server[t]
      BY <2>1
    <2>3. FilesInv'
      BY <1>1, <1>2, <2>1, <2>2
    <2>4. Progress
      BY <2>1, <2>2
    <2> QED
      BY <2>3, <2>4
  <1>6. CASE Stops
    <2>1. PICK s \in Servers : server[s] = "serving" /\ server' = [server EXCEPT ![s] = "stopping"]
      BY <1>6
    <2>2. server' \in [Servers -> Steps] /\ server'[s] = "stopping"
          /\ \A t \in Servers \ {s} : server'[t] = server[t]
      BY <2>1
    <2>3. FilesInv'
      BY <1>1, <1>2, <2>1, <2>2
    <2>4. Progress
      BY <2>1, <2>2
    <2> QED
      BY <2>3, <2>4
  <1> QED
    BY <1>3, <1>4, <1>5, <1>6

\* What the other commands know and expect stays true.
LEMMA BecomesKeeps ==
  ASSUME CommandInv, Progress, NEW c \in Commands, NEW r \in CommandRecords,
         Starting!To(c, r), Knows(r), Expects(r)'
  PROVE  CommandInv'
PROOF
  <1>1. command' \in [Commands -> CommandRecords] /\ command'[c] = r
        /\ \A d \in Commands \ {c} : command'[d] = command[d]
    BY DEF CommandInv, Starting!To
  <1>2. Knows(command'[c]) /\ Expects(command[c])'
    BY <1>1 DEF Knows, Expects
  <1>3. ASSUME NEW d \in Commands \ {c} PROVE Knows(command'[d]) /\ Expects(command[d])'
    <2>1. Knows(command[d]) /\ Expects(command[d]) /\ command'[d] = command[d]
      BY <1>1, <1>3 DEF CommandInv
    <2>2. (Over => Over') /\ (Started => Started') /\ (Found => Found')
      BY ProgressKeeps
    <2> QED
      BY <2>1, <2>2 DEF Knows, Expects
  <1> QED
    BY <1>1, <1>2, <1>3 DEF CommandInv, Knows

LEMMA AtKeeps ==
  ASSUME CommandInv, Progress, NEW c \in Commands,
         NEW step \in CommandSteps \ {"choosing", "targeted"},
         Starting!At(c, step), step \in {"asking", "dying"} => command[c].purpose = "server stop",
         step = "waiting" => Started', step = "listing" => Found',
         step = "failed" /\ command[c].purpose = "launch" /\ command[c].target = None => Over'
  PROVE  CommandInv'
PROOF
  <1>r. PICK r : r = [command[c] EXCEPT !.at = step]
    OBVIOUS
  <1>1. command[c] \in CommandRecords /\ Knows(command[c])
    BY DEF CommandInv
  <1>2. r \in CommandRecords /\ r.at = step /\ r.purpose = command[c].purpose
        /\ r.target = command[c].target
    BY <1>1, <1>r DEF CommandRecords
  <1>3. Starting!To(c, r)
    BY <1>r DEF Starting!At
  <1>4. Knows(r)
    BY <1>1, <1>2 DEF Knows
  <1>5. Expects(r)'
    BY <1>2 DEF Expects
  <1> QED
    BY <1>2, <1>3, <1>4, <1>5, BecomesKeeps

\* A session, or a new one, is chosen.
LEMMA TargetKeeps ==
  ASSUME Starting!StartupAssumption, CommandInv, Progress, NEW c \in Commands,
         NEW target \in {0} \cup Starting!Ids(MaxSessions),
         target = 0 => command[c].purpose = "launch",
         Starting!To(c, [command[c] EXCEPT !.at = "targeted", !.target = target])
         \/ \E i \in Nat \ {0} :
              Starting!To(c, [command[c] EXCEPT !.at = "targeted", !.target = target, !.selected = i])
  PROVE  CommandInv'
PROOF
  <1>1. PICK r : Starting!To(c, r)
           /\ (r = [command[c] EXCEPT !.at = "targeted", !.target = target]
               \/ \E i \in Nat \ {0} :
                    r = [command[c] EXCEPT !.at = "targeted", !.target = target, !.selected = i])
    OBVIOUS
  <1>2. command[c] \in CommandRecords /\ Knows(command[c])
    BY DEF CommandInv
  <1>3. r \in CommandRecords /\ r.at = "targeted" /\ r.purpose = command[c].purpose
        /\ r.target = target
    BY <1>1, <1>2 DEF CommandRecords, CommandSteps
  <1>4. target # None
    <2>1. None \notin Nat /\ Starting!Ids(MaxSessions) \subseteq Nat /\ 0 \in Nat
      BY IdsAreNatural
    <2> QED
      BY <2>1
  <1>5. Knows(r)
    BY <1>3, <1>4 DEF Knows
  <1>6. Expects(r)'
    BY <1>3 DEF Expects
  <1> QED
    BY <1>1, <1>3, <1>5, <1>6, BecomesKeeps

\* What a probe tells of the processes.
LEMMA ProbesTell ==
  ASSUME Starting!StartupAssumption, FilesInv
  PROVE  /\ Starting!Probed = "running" => Found
         /\ Starting!Probed = "incompatible" => Over
         /\ Starting!Answers => (IF socket \in Foreign THEN Over ELSE Found)
         /\ Starting!Probed = "none" => \A s \in Servers : server[s] # "serving"
PROOF
  <1>1. Starting!Answers => socket \in Servers /\ server[socket] = "serving"
    BY DEF FilesInv, Starting!Answers
  <1>2. Starting!Probed \in {"running", "incompatible"} => Starting!Answers
    BY DEF Starting!Probed
  <1>3. Starting!Probed = "running" => socket \notin Foreign
    BY DEF Starting!Probed
  <1>4. Starting!Probed = "incompatible" => socket \in Foreign
    BY DEF Starting!Probed
  <1>5. ASSUME Starting!Probed = "none", NEW s \in Servers, server[s] = "serving" PROVE FALSE
    <2>1. socket = s /\ s # None
      BY <1>5 DEF FilesInv, Starting!StartupAssumption
    <2>2. Starting!Silent
      BY <1>5 DEF Starting!Probed
    <2> QED
      BY <1>5, <2>1, <2>2 DEF Starting!Silent, Starting!Dead, FilesInv
  <1> QED
    BY <1>1, <1>2, <1>3, <1>4, <1>5 DEF Found, Over

LEMMA BeginKeeps ==
  ASSUME Starting!StartupAssumption, FilesInv, CommandInv, Progress, NEW c \in Commands,
         Starting!Begin(c)
  PROVE  CommandInv'
PROOF
  <1>1. command[c] \in CommandRecords /\ Knows(command[c])
    BY DEF CommandInv
  <1>2. (Over => Over') /\ (Found => Found')
    BY ProgressKeeps
  <1>3. CASE Starting!Probed = "running"
    <2>1. Starting!At(c, IF command[c].purpose = "server stop" THEN "asking" ELSE "listing")
      BY <1>3 DEF Starting!Begin
    <2>2. Found'
      BY <1>2, <1>3, ProbesTell
    <2>3. CASE command[c].purpose = "server stop"
      <3>1. Starting!At(c, "asking")
        BY <2>1, <2>3
      <3> QED
        BY <2>3, <3>1, AtKeeps DEF CommandSteps
    <2>4. CASE command[c].purpose # "server stop"
      <3>1. Starting!At(c, "listing")
        BY <2>1, <2>4
      <3> QED
        BY <2>2, <3>1, AtKeeps DEF CommandSteps
    <2> QED
      BY <2>3, <2>4
  <1>4. CASE Starting!Probed = "incompatible"
    <2>1. Starting!To(c, IF command[c].purpose = "server stop" /\ pidfile # None
                          THEN [command[c] EXCEPT !.at = "asking", !.pid = pidfile]
                          ELSE [command[c] EXCEPT !.at = "failed"])
      BY <1>4 DEF Starting!Begin
    <2>2. Over'
      BY <1>2, <1>4, ProbesTell
    <2>3. CASE command[c].purpose = "server stop" /\ pidfile # None
      <3>1. PICK r : r = [command[c] EXCEPT !.at = "asking", !.pid = pidfile]
        OBVIOUS
      <3>2. pidfile \in Servers \cup {None}
        BY DEF FilesInv
      <3>3. r \in CommandRecords /\ r.at = "asking" /\ r.purpose = command[c].purpose
            /\ r.target = command[c].target
        BY <1>1, <3>1, <3>2 DEF CommandRecords, CommandSteps
      <3>4. Starting!To(c, r)
        BY <2>1, <2>3, <3>1
      <3>5. Knows(r)
        BY <1>1, <2>3, <3>3 DEF Knows
      <3>6. Expects(r)'
        BY <3>3 DEF Expects
      <3> QED
        BY <3>3, <3>4, <3>5, <3>6, BecomesKeeps
    <2>4. CASE ~(command[c].purpose = "server stop" /\ pidfile # None)
      <3>1. Starting!At(c, "failed")
        BY <2>1, <2>4 DEF Starting!At
      <3> QED
        BY <2>2, <3>1, AtKeeps DEF CommandSteps
    <2> QED
      BY <2>3, <2>4
  <1>5. CASE Starting!Probed = "none" /\ command[c].purpose \in {"launch", "attach"}
    <2>1. PICK s \in Servers : server[s] = "unborn" /\ Starting!Become(s, "starting")
                               /\ Starting!At(c, "waiting")
      BY <1>5 DEF Starting!Begin
    <2>2. server'[s] = "starting"
      BY <2>1 DEF FilesInv, Starting!Become
    <2>3. Started'
      BY <2>2 DEF Started, OnItsWay, Starting!Starting
    <2> QED
      BY <2>1, <2>3, AtKeeps DEF CommandSteps
  <1>6. CASE Starting!Probed = "none" /\ command[c].purpose \notin {"launch", "attach"}
    <2>1. Starting!At(c, "done")
      BY <1>6 DEF Starting!Begin
    <2> QED
      BY <2>1, AtKeeps DEF CommandSteps
  <1>7. CASE Starting!Probed \notin {"running", "incompatible", "none"}
    <2>1. server[socket] = "stopping" /\ Starting!At(c, "failed")
      BY <1>7 DEF Starting!Begin
    <2>2. socket # None /\ socket \in Servers
      BY <1>7 DEF Starting!Probed, Starting!Silent, FilesInv
    <2>3. Over
      BY <2>1, <2>2 DEF Over, Ended
    <2> QED
      BY <1>2, <2>1, <2>3, AtKeeps DEF CommandSteps
  <1> QED
    BY <1>3, <1>4, <1>5, <1>6, <1>7

LEMMA WaitKeeps ==
  ASSUME Starting!StartupAssumption, FilesInv, CommandInv, Progress, NEW c \in Commands,
         Starting!Wait(c)
  PROVE  CommandInv'
PROOF
  <1>1. command[c].at = "waiting" /\ Started
    BY DEF CommandInv, Expects, Starting!Wait, Starting!WaitPolls
  <1>2. (Over => Over') /\ (Found => Found')
    BY ProgressKeeps
  <1>3. CASE Starting!Probed = "running" /\ Starting!At(c, "listing")
    <2>1. Found'
      BY <1>2, <1>3, ProbesTell
    <2> QED
      BY <1>3, <2>1, AtKeeps DEF CommandSteps
  <1>4. CASE Starting!Probed \in {"none", "incompatible"}
             /\ (\A s \in Servers : server[s] \notin Starting!Starting) /\ Starting!At(c, "failed")
    <2>1. Over
      <3>1. CASE Starting!Probed = "incompatible"
        BY <3>1, ProbesTell
      <3>2. CASE Starting!Probed = "none"
        <4>1. \A s \in Servers : server[s] \notin OnItsWay
          BY <1>4, <3>2, ProbesTell DEF OnItsWay
        <4> QED
          BY <1>1, <4>1 DEF Started
      <3> QED
        BY <1>4, <3>1, <3>2
    <2> QED
      BY <1>2, <1>4, <2>1, AtKeeps DEF CommandSteps
  <1> QED
    BY <1>3, <1>4 DEF Starting!Wait, Starting!WaitPolls

LEMMA ListKeeps ==
  ASSUME Starting!StartupAssumption, FilesInv, CommandInv, Progress, NEW c \in Commands,
         Starting!List(c)
  PROVE  CommandInv'
PROOF
  <1>1. command[c] \in CommandRecords /\ Knows(command[c]) /\ command[c].at = "listing" /\ Found
    BY DEF CommandInv, Expects, Starting!List
  <1>2. (Over => Over') /\ sessions \subseteq Starting!Ids(MaxSessions) /\ MaxSessions \in Nat
    BY ProgressKeeps DEF FilesInv, Starting!StartupAssumption
  <1>3. CASE ~Starting!Answers \/ socket \in Foreign
    <2>1. Starting!At(c, "failed")
      BY <1>3 DEF Starting!List
    <2>2. Over
      <3> SUFFICES ASSUME ~Over PROVE FALSE
        OBVIOUS
      <3>1. PICK s \in Servers \ Foreign : server[s] = "serving"
        BY <1>1 DEF Found
      <3>2. socket = s
        BY <3>1 DEF FilesInv
      <3>3. s # None
        BY DEF Starting!StartupAssumption
      <3> QED
        BY <1>3, <3>1, <3>2, <3>3 DEF Starting!Answers
    <2> QED
      BY <1>2, <2>1, <2>2, AtKeeps DEF CommandSteps
  <1>4. CASE Starting!Answers /\ socket \notin Foreign
    <2>1. CASE sessions = {} /\ Starting!AllowNew(c)
      <3>1. Starting!To(c, [command[c] EXCEPT !.at = "targeted", !.target = 0])
        BY <1>4, <2>1 DEF Starting!List, Starting!Targeted, Starting!NewSession
      <3>2. command[c].purpose = "launch"
        BY <2>1 DEF Starting!AllowNew
      <3> QED
        BY <3>1, <3>2, TargetKeeps
    <2>2. CASE sessions = {} /\ ~Starting!AllowNew(c) /\ command[c].purpose = "attach"
      <3>1. Starting!At(c, "failed")
        BY <1>4, <2>2 DEF Starting!List
      <3> QED
        BY <2>2, <3>1, AtKeeps DEF CommandSteps
    <2>3. CASE (\E id \in sessions : sessions = {id}) /\ command[c].purpose = "attach"
      <3>1. Starting!To(c, Starting!Targeted(c, CHOOSE id \in sessions : TRUE))
        BY <1>4, <2>3 DEF Starting!List
      <3>2. PICK id \in sessions : id = CHOOSE i \in sessions : TRUE
        BY <2>3
      <3>3. Starting!To(c, [command[c] EXCEPT !.at = "targeted", !.target = id])
        BY <3>1, <3>2 DEF Starting!Targeted
      <3>4. id \in Starting!Ids(MaxSessions)
        BY <1>2, <3>2
      <3>5. id # 0
        BY <1>2, <3>4 DEF Starting!Ids
      <3>6. id \in {0} \cup Starting!Ids(MaxSessions)
        BY <3>4
      <3>7. id = 0 => command[c].purpose = "launch"
        BY <3>5
      <3> QED
        BY <3>3, <3>6, <3>7, TargetKeeps
    <2>4. CASE ~(sessions = {} /\ Starting!AllowNew(c))
               /\ ~(sessions = {} /\ ~Starting!AllowNew(c) /\ command[c].purpose = "attach")
               /\ ~((\E id \in sessions : sessions = {id}) /\ command[c].purpose = "attach")
      <3>1. Starting!To(c, Starting!Chooser(c, Starting!InOrder(sessions)))
        BY <1>4, <2>4 DEF Starting!List
      <3>2. PICK r : r = Starting!Chooser(c, Starting!InOrder(sessions))
        OBVIOUS
      <3>3. Starting!InOrder(sessions) \in Seq(Starting!Ids(MaxSessions))
        <4>1. Starting!InOrder(sessions) \in Seq(sessions)
          BY <1>2, RowsAreSessions
        <4> QED
          BY <1>2, <4>1
      <3>4. r = [command[c] EXCEPT !.at = "choosing", !.list = Starting!InOrder(sessions),
                              !.selected = 1]
        BY <3>2 DEF Starting!Chooser
      <3>5. r \in CommandRecords /\ r.at = "choosing" /\ r.purpose = command[c].purpose
            /\ r.target = command[c].target /\ r.selected = 1
        <4>1. 1 \in Nat \ {0}
          OBVIOUS
        <4> QED
          BY <1>1, <3>3, <3>4, <4>1 DEF CommandRecords, CommandSteps
      <3>6. Len(r.list) \in Nat
        <4>1. r.list \in Seq(Starting!Ids(MaxSessions))
          BY <3>5 DEF CommandRecords
        <4> QED
          BY <4>1, LenProperties
      <3>7. Knows(r)
        BY <1>1, <3>5, <3>6 DEF Knows
      <3>8. Expects(r)'
        BY <3>5 DEF Expects
      <3>9. Starting!To(c, r)
        BY <3>1, <3>2
      <3> QED
        BY <3>5, <3>7, <3>8, <3>9, BecomesKeeps
    <2> QED
      BY <2>1, <2>2, <2>3, <2>4
  <1> QED
    BY <1>3, <1>4

\* The row that is selected moves, within the rows.
LEMMA SelectKeeps ==
  ASSUME CommandInv, Progress, NEW c \in Commands, command[c].at = "choosing", NEW i \in Nat \ {0},
         i <= Len(command[c].list) + 1, Starting!To(c, [command[c] EXCEPT !.selected = i])
  PROVE  CommandInv'
PROOF
  <1>1. command[c] \in CommandRecords /\ Knows(command[c])
    BY DEF CommandInv
  <1>2. PICK r : r = [command[c] EXCEPT !.selected = i]
    OBVIOUS
  <1>3. r \in CommandRecords /\ r.at = "choosing" /\ r.purpose = command[c].purpose
        /\ r.target = command[c].target /\ r.selected = i /\ r.list = command[c].list
    BY <1>1, <1>2 DEF CommandRecords
  <1>4. Knows(r)
    BY <1>1, <1>3 DEF Knows
  <1>5. Expects(r)'
    BY <1>3 DEF Expects
  <1> QED
    BY <1>2, <1>3, <1>4, <1>5, BecomesKeeps

LEMMA ChooserKeyKeeps ==
  ASSUME Starting!StartupAssumption, CommandInv, Progress, NEW c \in Commands,
         Starting!ChooserKey(c)
  PROVE  CommandInv'
PROOF
  <1> DEFINE rows == command[c].list
             place == command[c].selected
             count == Starting!RowCount(c)
  <1>1. command[c] \in CommandRecords /\ Knows(command[c]) /\ command[c].at = "choosing"
    BY DEF CommandInv, Starting!ChooserKey
  <1>2. rows \in Seq(Starting!Ids(MaxSessions)) /\ place \in Nat \ {0}
        /\ command[c].target \in {None, 0} \cup Starting!Ids(MaxSessions)
    BY <1>1 DEF CommandRecords
  <1>3. Len(rows) \in Nat /\ DOMAIN rows = 1..Len(rows)
    BY <1>2, LenProperties
  <1>4. place <= Len(rows) + 1
    BY <1>1 DEF Knows
  <1>5. /\ command[c].purpose = "launch" => count = Len(rows) + 1
        /\ command[c].purpose # "launch" => count = Len(rows)
    <2>1. command[c].purpose = "launch" => count = Len(rows) + 1
      BY DEF Starting!RowCount, Starting!AllowNew
    <2>2. command[c].purpose # "launch" => count = Len(rows) + 0
      BY DEF Starting!RowCount, Starting!AllowNew
    <2> HIDE DEF count, rows
    <2>3. Len(rows) + 0 = Len(rows)
      BY <1>3
    <2> QED
      BY <2>1, <2>2, <2>3
  <1>6. count \in Nat /\ count <= Len(rows) + 1
    BY <1>3, <1>5
  <1>7. \A i \in DOMAIN rows : rows[i] \in Starting!Ids(MaxSessions) /\ rows[i] # 0
    <2>1. \A i \in DOMAIN rows : rows[i] \in Starting!Ids(MaxSessions)
      BY <1>2, <1>3, ElementOfSeq
    <2>2. 0 \notin Starting!Ids(MaxSessions)
      BY IdsAreNatural
    <2> QED
      BY <2>1, <2>2
  <1>8. \A i \in 1..count : i \notin DOMAIN rows => command[c].purpose = "launch"
    BY <1>3, <1>5
  <1> DEFINE row(i) == IF i \in DOMAIN rows THEN rows[i] ELSE 0
  <1>9. \A i \in 1..count : /\ row(i) \in {0} \cup Starting!Ids(MaxSessions)
                            /\ row(i) = 0 => command[c].purpose = "launch"
    BY <1>7, <1>8
  <1>10. CASE count > 0 /\ Starting!To(c, [command[c] EXCEPT !.selected = (place % count) + 1])
    <2>1. PICK i : i = (place % count) + 1
      OBVIOUS
    <2>2. i \in Nat \ {0} /\ i <= Len(rows) + 1
      <3>1. place % count \in 0..(count - 1)
        <4> HIDE DEF place, count
        <4> QED
          BY <1>2, <1>6, <1>10
      <3> HIDE DEF place, count
      <3> QED
        BY <1>3, <1>6, <2>1, <3>1
    <2> QED
      BY <1>1, <1>10, <2>1, <2>2, SelectKeeps
  <1>11. CASE count > 0 /\ Starting!To(c, [command[c] EXCEPT !.selected =
                                             IF place = 1 THEN count ELSE place - 1])
    <2>1. PICK i : i = IF place = 1 THEN count ELSE place - 1
      OBVIOUS
    <2>2. i \in Nat \ {0} /\ i <= Len(rows) + 1
      <3> HIDE DEF place, count
      <3> QED
        BY <1>2, <1>3, <1>4, <1>6, <1>11, <2>1
    <2> QED
      BY <1>1, <1>11, <2>1, <2>2, SelectKeeps
  <1>12. CASE \E i \in 1..count :
                Starting!To(c, [Starting!Targeted(c, command[c].target) EXCEPT
                                  !.selected = i, !.target = row(i)])
    <2>1. PICK i \in 1..count : Starting!To(c, [Starting!Targeted(c, command[c].target) EXCEPT
                                                  !.selected = i, !.target = row(i)])
      BY <1>12
    <2>2. PICK r : r = [Starting!Targeted(c, command[c].target) EXCEPT
                          !.selected = i, !.target = row(i)]
      OBVIOUS
    <2>3. i \in Nat \ {0} /\ row(i) \in {0} \cup Starting!Ids(MaxSessions)
          /\ (row(i) = 0 => command[c].purpose = "launch")
      BY <1>6, <1>9
    <2>4. PICK target : target = row(i)
      OBVIOUS
    <2> HIDE DEF row
    <2>5. r = [command[c] EXCEPT !.at = "targeted", !.target = target, !.selected = i]
      BY <1>1, <2>2, <2>4 DEF Starting!Targeted, CommandRecords
    <2>6. Starting!To(c, [command[c] EXCEPT !.at = "targeted", !.target = target, !.selected = i])
      BY <2>1, <2>2, <2>5
    <2> QED
      BY <2>3, <2>4, <2>6, TargetKeeps
  <1>13. CASE place \in 1..count /\ Starting!To(c, Starting!Targeted(c, Starting!Chosen(c)))
    <2>1. Starting!Chosen(c) = row(place)
      BY DEF Starting!Chosen, Starting!NewSession
    <2>2. PICK target : target = row(place)
      OBVIOUS
    <2>3. target \in {0} \cup Starting!Ids(MaxSessions)
          /\ (target = 0 => command[c].purpose = "launch")
      BY <1>9, <1>13, <2>2
    <2>4. Starting!To(c, [command[c] EXCEPT !.at = "targeted", !.target = target])
      BY <1>13, <2>1, <2>2 DEF Starting!Targeted
    <2> QED
      BY <2>3, <2>4, TargetKeeps
  <1>14. CASE Starting!AllowNew(c) /\ Starting!To(c, Starting!Targeted(c, Starting!NewSession))
    <2>1. Starting!To(c, [command[c] EXCEPT !.at = "targeted", !.target = 0])
      BY <1>14 DEF Starting!Targeted, Starting!NewSession
    <2>2. command[c].purpose = "launch"
      BY <1>14 DEF Starting!AllowNew
    <2> QED
      BY <2>1, <2>2, TargetKeeps
  <1>15. CASE Starting!At(c, "done")
    BY <1>15, AtKeeps DEF CommandSteps
  <1> QED
    BY <1>10, <1>11, <1>12, <1>13, <1>14, <1>15 DEF Starting!ChooserKey, Starting!NewSession

LEMMA UseKeeps ==
  ASSUME FilesInv, CommandInv, Progress, NEW c \in Commands, Starting!Use(c)
  PROVE  CommandInv'
PROOF
  <1>1. command[c].at = "targeted" /\ command[c].target # None
    BY DEF CommandInv, Knows, Starting!Use
  <1>2. Starting!At(c, "failed") \/ Starting!At(c, "done")
    BY DEF Starting!Use
  <1> QED
    BY <1>1, <1>2, AtKeeps DEF CommandSteps

LEMMA StopServerKeeps ==
  ASSUME FilesInv, CommandInv, Progress, NEW c \in Commands, Starting!StopServer(c)
  PROVE  CommandInv'
PROOF
  <1>1. command[c].purpose = "server stop"
    BY DEF CommandInv, Knows, Starting!StopServer
  <1>2. Starting!At(c, "failed") \/ Starting!At(c, "done") \/ Starting!At(c, "dying")
    BY DEF Starting!StopServer
  <1> QED
    BY <1>1, <1>2, AtKeeps DEF CommandSteps

LEMMA CommandStep ==
  ASSUME Starting!StartupAssumption, StartInv, NEW c \in Commands, CommandActs(c)
  PROVE  StartInv'
PROOF
  <1>1. FilesInv' /\ Progress /\ CommandInv /\ FilesInv
    BY CommandKeepsFiles DEF StartInv
  <1>2. CASE Starting!Decline(c) \/ Starting!AwaitEnd(c)
    <2>1. Starting!At(c, "done")
      BY <1>2 DEF Starting!Decline, Starting!AwaitEnd
    <2>2. CommandInv'
      BY <1>1, <2>1, AtKeeps DEF CommandSteps
    <2> QED
      BY <1>1, <2>2 DEF StartInv
  <1> QED
    BY <1>1, <1>2, BeginKeeps, WaitKeeps, ListKeeps, ChooserKeyKeeps, UseKeeps, StopServerKeeps
    DEF CommandActs, StartInv

LEMMA ServerStep ==
  ASSUME Starting!StartupAssumption, StartInv, NEW s \in Servers, ServerActs(s)
  PROVE  StartInv'
PROOF
  <1>1. FilesInv' /\ Progress /\ command' = command
    BY ServerKeepsFiles DEF StartInv
  <1>2. (Over => Over') /\ (Started => Started') /\ (Found => Found')
    BY <1>1, ProgressKeeps
  <1>3. ASSUME NEW c \in Commands PROVE Knows(command'[c]) /\ Expects(command[c])'
    BY <1>1, <1>2 DEF StartInv, CommandInv, Knows, Expects
  <1> QED
    BY <1>1, <1>3 DEF StartInv, CommandInv, Knows

-----------------------------------------------------------------------------

LEMMA StartBegins ==
  ASSUME Starting!StartupAssumption, Starting!Init
  PROVE  StartInv
PROOF
  <1>1. FilesInv
    <2>1. sessions \subseteq Starting!Ids(MaxSessions)
      BY DEF Starting!Init
    <2>2. CASE /\ lock = None /\ socket = None /\ pidfile = None
               /\ server = [s \in Servers |-> IF s \in Foreign THEN "exited" ELSE "unborn"]
      <3>1. server \in [Servers -> Steps] /\ \A s \in Servers : server[s] \in {"exited", "unborn"}
        BY <2>2 DEF Steps
      <3>2. \A s \in Servers : s # None
        BY DEF Starting!StartupAssumption
      <3> QED
        BY <2>1, <2>2, <3>1, <3>2 DEF FilesInv, Locked
    <2>3. ASSUME NEW s \in Foreign, NEW state \in {"serving", "exited"},
                 lock = (IF state = "serving" THEN s ELSE None), socket = s, pidfile = s,
                 server = [p \in Servers |-> IF p = s THEN state
                                              ELSE IF p \in Foreign THEN "exited" ELSE "unborn"]
          PROVE  FilesInv
      <3>1. s \in Servers /\ s # None
        BY DEF Starting!StartupAssumption
      <3>2. server \in [Servers -> Steps] /\ server[s] = state
            /\ \A p \in Servers \ {s} : server[p] \in {"exited", "unborn"}
        BY <2>3, <3>1 DEF Steps, Locked
      <3>3. \A p \in Servers : p # None
        BY DEF Starting!StartupAssumption
      <3> QED
        BY <2>1, <2>3, <3>1, <3>2, <3>3 DEF FilesInv, Locked, Starting!Bound
    <2> QED
      BY <2>2, <2>3 DEF Starting!Init
  <1>2. PICK purpose \in Purposes :
          command = [c \in Commands |-> [purpose |-> purpose[c], at |-> "idle", list |-> <<>>,
                                          selected |-> 1, target |-> None, pid |-> None]]
    BY DEF Starting!Init
  <1>3. ASSUME NEW c \in Commands
        PROVE  command[c] \in CommandRecords /\ Knows(command[c]) /\ Expects(command[c])
    <2>1. purpose[c] \in {"launch", "attach", "stop", "server stop"}
      BY DEF Starting!StartupAssumption
    <2>2. << >> \in Seq(Starting!Ids(MaxSessions))
      BY EmptySeq
    <2>3. None # 0 /\ 1 \in Nat \ {0}
      BY IdsAreNatural
    <2>4. command[c] = [purpose |-> purpose[c], at |-> "idle", list |-> <<>>,
                        selected |-> 1, target |-> None, pid |-> None]
      BY <1>2
    <2>5. command[c] \in CommandRecords
      <3>1. "idle" \in CommandSteps
        BY DEF CommandSteps
      <3>2. None \in {None, 0} \cup Starting!Ids(MaxSessions) /\ None \in Servers \cup {None}
        OBVIOUS
      <3>3. \A p, rows : p = purpose[c] /\ rows \in Seq(Starting!Ids(MaxSessions)) =>
              [purpose |-> p, at |-> "idle", list |-> rows, selected |-> 1,
               target |-> None, pid |-> None]
              \in CommandRecords
        BY <2>1, <2>3, <3>1, <3>2 DEF CommandRecords
      <3> QED
        BY <2>2, <2>4, <3>3
    <2> QED
      BY <2>3, <2>4, <2>5 DEF Knows, Expects
  <1>4. command \in [Commands -> CommandRecords]
    BY <1>2, <1>3
  <1> QED
    BY <1>1, <1>3, <1>4 DEF StartInv, CommandInv

LEMMA StartStep ==
  ASSUME Starting!StartupAssumption, StartInv, [Starting!Next]_(Starting!vars)
  PROVE  StartInv'
PROOF
  <1>1. ASSUME NEW s \in Servers, ServerActs(s) PROVE StartInv'
    BY <1>1, ServerStep
  <1>2. ASSUME NEW c \in Commands, CommandActs(c) PROVE StartInv'
    BY <1>2, CommandStep
  <1>3. CASE UNCHANGED Starting!vars
    BY <1>3 DEF Starting!vars, StartInv, FilesInv, CommandInv, Knows, Expects, Over, Started,
                Found
  <1> QED
    BY <1>1, <1>2, <1>3 DEF Starting!Next, ServerActs, CommandActs

LEMMA StartInvIsFound ==
  ASSUME Starting!StartupAssumption, StartInv
  PROVE  OneServerIsFound
PROOF
  <1>1. Starting!TypeOK
    BY DEF Starting!TypeOK, StartInv, FilesInv, CommandInv, Knows
  <1>2. Starting!ServingIsKnown
    BY DEF Starting!ServingIsKnown, StartInv, FilesInv, Locked
  <1>3. Starting!LaunchesSucceed
    <2>1. ASSUME NEW c \in Commands, command[c].at = "failed", command[c].purpose = "launch",
                 command[c].target = None
          PROVE  Over
      BY <2>1 DEF StartInv, CommandInv, Expects
    <2> QED
      BY <2>1 DEF Starting!LaunchesSucceed, Over, Ended
  <1>4. Starting!OnlyLaunchesCreate
    BY DEF Starting!OnlyLaunchesCreate, Starting!NewSession, StartInv, CommandInv, Knows
  <1> QED
    BY <1>1, <1>2, <1>3, <1>4 DEF OneServerIsFound

LEMMA NextIsStarting ==
  ASSUME [Next]_vars
  PROVE  [Starting!Next]_(Starting!vars)
PROOF
  BY DEF Next, vars, startingVars, Starting!vars

\* A server that serves is the one at the socket, the one the PID file names
\* and the one that holds the lock; a launch fails only if a server was ended
\* or is of another build; only launches make sessions (server_start.rs 73-118,
\* paths.rs 65-106, ipc/unix.rs 16-50, client.rs, main.rs 199).
THEOREM OneServerIsAlwaysFound == Spec => []OneServerIsFound
PROOF
  <1>1. Init => StartInv
    BY ServicesAssumption, StartBegins DEF Init
  <1>2. StartInv /\ [Next]_vars => StartInv'
    BY ServicesAssumption, StartStep, NextIsStarting
  <1>3. StartInv => OneServerIsFound
    BY ServicesAssumption, StartInvIsFound
  <1> QED
    BY <1>1, <1>2, <1>3, PTL DEF Spec

-----------------------------------------------------------------------------
(* Activity: an agent is reported finished or blocked only when it is,      *)
(* because the rules for either match no screen that is drawn of anything    *)
(* else, and an overlay or a redraw keeps the claim that was made before.    *)

(* What tells the screens of the activities apart. *)
Telling(s) ==
  /\ s \in [Activity!Labels -> Activity!Places]
  /\ doing # "Blocked" =>
       /\ s["permission"] = "nowhere" /\ s["question"] = "nowhere"
       /\ s["approval"] # "nowhere" => kind # "Grok" /\ s["active"] = "status"
  /\ doing # "Idle" => (s["ready"] = "status" => s["active"] = "status")
Overlaid(s) == s["history"] # "nowhere" /\ s["closing"] = "status"

ActivityInv ==
  /\ kind \in Activity!Kinds /\ doing \in Activity!Activities /\ redraws \in Nat
  /\ labels \in [Activity!Labels -> Activity!Places] /\ (Overlaid(labels) \/ Telling(labels))
  /\ claim \in Activity!Titles
  /\ observed \in [generation: Nat, evidence: Activity!Activities \cup {None},
                   affirmative: Activity!Activities \cup {None}, completed: Nat]
  /\ observed.completed <= observed.generation /\ observed.generation <= redraws
  /\ observed.evidence # None => observed.affirmative = observed.evidence

\* Every screen the harness may draw tells what it is doing, or is an overlay.
LEMMA ScreensTell ==
  ASSUME kind \in Activity!Kinds, doing \in Activity!Activities,
         NEW s \in Activity!Screens
  PROVE  s \in [Activity!Labels -> Activity!Places] /\ (Overlaid(s) \/ Telling(s))
PROOF
  <1> USE DEF Activity!Labels, Activity!Places
  <1>1. ASSUME NEW marks \in Activity!Marks(doing) \cup {{}}, s = Activity!Showing(marks)
        PROVE  Telling(s)
    BY <1>1 DEF Activity!Marks, Activity!Showing, Telling, Activity!Activities
  <1>2. ASSUME NEW marks \in Activity!Marks(doing), NEW l \in Activity!Quotable,
               s = Activity!Quoting(Activity!Showing(marks), l)
        PROVE  Telling(s)
    <2>1. PICK r : r = Activity!Showing(marks)
      OBVIOUS
    <2>2. Telling(r)
      BY <2>1 DEF Activity!Marks, Activity!Showing, Telling, Activity!Activities
    <2>3. doing = "Working" => r["active"] = "status"
      BY <2>1 DEF Activity!Marks, Activity!Showing
    <2>4. s = [r EXCEPT ![l] = IF r[l] = "nowhere" THEN "dialog" ELSE r[l]]
      BY <1>2, <2>1 DEF Activity!Quoting
    <2> QED
      BY <1>2, <2>2, <2>3, <2>4 DEF Activity!Quotable, Telling
  <1>3. ASSUME NEW l \in {"ready", "active"}, s = Activity!Showing({"history", "closing", l})
        PROVE  s \in [Activity!Labels -> Activity!Places] /\ Overlaid(s)
    BY <1>3 DEF Activity!Showing, Overlaid
  <1> QED
    BY <1>1, <1>2, <1>3 DEF Activity!Screens, Telling

DrawnTells ==
  kind \in Activity!Kinds /\ doing \in Activity!Activities =>
    \A s \in Activity!Screens :
      s \in [Activity!Labels -> Activity!Places] /\ (Overlaid(s) \/ Telling(s))
LEMMA AllScreensTell == DrawnTells
PROOF
  BY ScreensTell DEF DrawnTells
LEMMA NextScreensTell == DrawnTells'
PROOF
  BY AllScreensTell, PTL

-----------------------------------------------------------------------------
\* What is recognised is the activity of the first rule that matches.
LEMMA FirstRule ==
  ASSUME Activity!Recognized \in {"Blocked", "Idle"}, kind \in Activity!Kinds
  PROVE  /\ ~Activity!HistoryOverlay
         /\ \E i \in DOMAIN Activity!Rules[kind] :
              /\ Activity!Matches(Activity!Rules[kind][i])
              /\ Activity!Rules[kind][i].activity = Activity!Recognized
              /\ \A j \in DOMAIN Activity!Rules[kind] :
                   Activity!Matches(Activity!Rules[kind][j]) => i <= j
PROOF
  <1> DEFINE rules == Activity!Rules[kind]
             matching == {i \in DOMAIN rules : Activity!Matches(rules[i])}
             first == CHOOSE i \in matching : \A j \in matching : i <= j
  <1>1. Activity!Recognized = IF Activity!HistoryOverlay THEN "Preserve"
                              ELSE IF matching = {} THEN "Unknown" ELSE rules[first].activity
    BY DEF Activity!Recognized
  <1>2. ~Activity!HistoryOverlay /\ matching # {} /\ rules[first].activity = Activity!Recognized
    BY <1>1
  <1>3. DOMAIN rules \subseteq Nat
    BY DEF Activity!Kinds, Activity!Rules, Activity!CodexRules, Activity!ClaudeRules,
           Activity!GrokRules, Activity!PiRules, Activity!OpenCodeRules
  <1>4. \E i \in matching : \A j \in matching : i <= j
    <2> HIDE DEF rules
    <2>1. matching \in SUBSET Nat
      BY <1>3
    <2> HIDE DEF matching
    <2> QED
      BY <1>2, <2>1, LeastNatural
  <1>5. first \in matching /\ \A j \in matching : first <= j
    <2> HIDE DEF matching
    <2> QED
      BY <1>4
  <1> QED
    BY <1>2, <1>5


\* No rule takes anything for a question but what a blocked agent shows.
LEMMA BlockedRules ==
  ASSUME kind \in Activity!Kinds, Telling(labels), doing # "Blocked",
         NEW i \in DOMAIN Activity!Rules[kind], Activity!Matches(Activity!Rules[kind][i]),
         Activity!Rules[kind][i].activity = "Blocked"
  PROVE  FALSE
PROOF
  <1> DEFINE rule == Activity!Rules[kind][i]
  <1> USE DEF Activity!Rule, Telling, Activity!Labels, Activity!Places
  <1>1. CASE kind = "Codex"
    <2>1. rule = Activity!CodexRules[i] /\ i \in 1..4
      BY <1>1 DEF Activity!Rules, Activity!CodexRules
    <2>2. i = 1 \/ i = 2
      BY <2>1 DEF Activity!CodexRules
    <2> QED
      BY <1>1, <2>1, <2>2 DEF Activity!CodexRules, Activity!Matches
  <1>2. CASE kind = "Claude"
    <2>1. rule = Activity!ClaudeRules[i] /\ i \in 1..5
      BY <1>2 DEF Activity!Rules, Activity!ClaudeRules
    <2>2. i = 1 \/ i = 2 \/ i = 3
      BY <2>1 DEF Activity!ClaudeRules
    <2> QED
      BY <1>2, <2>1, <2>2 DEF Activity!ClaudeRules, Activity!Matches
  <1>3. CASE kind = "Grok"
    <2>1. rule = Activity!GrokRules[i] /\ i \in 1..3
      BY <1>3 DEF Activity!Rules, Activity!GrokRules
    <2>2. i = 1 \/ i = 2
      BY <2>1 DEF Activity!GrokRules
    <2> QED
      BY <1>3, <2>1, <2>2 DEF Activity!GrokRules, Activity!Matches
  <1>4. CASE kind = "Pi"
    <2>1. rule = Activity!PiRules[i] /\ i \in 1..2
      BY <1>4 DEF Activity!Rules, Activity!PiRules
    <2> QED
      BY <2>1 DEF Activity!PiRules
  <1>5. CASE kind = "OpenCode"
    <2>1. rule = Activity!OpenCodeRules[i] /\ i \in 1..4
      BY <1>5 DEF Activity!Rules, Activity!OpenCodeRules
    <2>2. i = 1 \/ i = 2
      BY <2>1 DEF Activity!OpenCodeRules
    <2> QED
      BY <1>5, <2>1, <2>2 DEF Activity!OpenCodeRules, Activity!Matches
  <1> QED
    BY <1>1, <1>2, <1>3, <1>4, <1>5 DEF Activity!Kinds

\* The prompt is taken for the end of a turn only if no earlier rule finds
\* the turn still going on.
LEMMA IdleRules ==
  ASSUME kind \in Activity!Kinds, Telling(labels), doing # "Idle",
         NEW i \in DOMAIN Activity!Rules[kind], Activity!Matches(Activity!Rules[kind][i]),
         Activity!Rules[kind][i].activity = "Idle",
         \A j \in DOMAIN Activity!Rules[kind] :
           Activity!Matches(Activity!Rules[kind][j]) => i <= j
  PROVE  FALSE
PROOF
  <1> DEFINE rule == Activity!Rules[kind][i]
  <1> USE DEF Activity!Rule, Telling, Activity!Labels, Activity!Places
  <1>1. CASE kind = "Codex"
    <2>1. rule = Activity!CodexRules[i] /\ i \in 1..4
      BY <1>1 DEF Activity!Rules, Activity!CodexRules
    <2>2. i = 4
      BY <2>1 DEF Activity!CodexRules
    <2> QED
      BY <1>1, <2>1, <2>2 DEF Activity!CodexRules, Activity!Matches
  <1>2. CASE kind = "Claude"
    <2>1. rule = Activity!ClaudeRules[i] /\ i \in 1..5
      BY <1>2 DEF Activity!Rules, Activity!ClaudeRules
    <2>2. i = 5
      BY <2>1 DEF Activity!ClaudeRules
    <2>3. labels["active"] = "status"
      BY <1>2, <2>1, <2>2 DEF Activity!ClaudeRules, Activity!Matches
    <2>4. 4 \in DOMAIN Activity!Rules[kind] /\ Activity!Rules[kind][4] = Activity!ClaudeRules[4]
      BY <1>2 DEF Activity!Rules, Activity!ClaudeRules
    <2>5. Activity!Matches(Activity!Rules[kind][4])
      BY <2>3, <2>4 DEF Activity!ClaudeRules, Activity!Matches
    <2> QED
      BY <2>2, <2>4, <2>5
  <1>3. CASE kind = "Grok"
    <2>1. rule = Activity!GrokRules[i] /\ i \in 1..3
      BY <1>3 DEF Activity!Rules, Activity!GrokRules
    <2> QED
      BY <2>1 DEF Activity!GrokRules
  <1>4. CASE kind = "Pi"
    <2>1. rule = Activity!PiRules[i] /\ i \in 1..2
      BY <1>4 DEF Activity!Rules, Activity!PiRules
    <2>2. i = 2
      BY <2>1 DEF Activity!PiRules
    <2> QED
      BY <1>4, <2>1, <2>2 DEF Activity!PiRules, Activity!Matches
  <1>5. CASE kind = "OpenCode"
    <2>1. rule = Activity!OpenCodeRules[i] /\ i \in 1..4
      BY <1>5 DEF Activity!Rules, Activity!OpenCodeRules
    <2>2. i = 4
      BY <2>1 DEF Activity!OpenCodeRules
    <2> QED
      BY <1>5, <2>1, <2>2 DEF Activity!OpenCodeRules, Activity!Matches
  <1> QED
    BY <1>1, <1>2, <1>3, <1>4, <1>5 DEF Activity!Kinds

LEMMA RecognizedIsReal ==
  ASSUME ActivityInv, Activity!Recognized \in {"Blocked", "Idle"}
  PROVE  doing = Activity!Recognized
PROOF
  <1>1. kind \in Activity!Kinds /\ Telling(labels)
    BY FirstRule DEF ActivityInv, Overlaid, Activity!HistoryOverlay
  <1>2. PICK i \in DOMAIN Activity!Rules[kind] :
          /\ Activity!Matches(Activity!Rules[kind][i])
          /\ Activity!Rules[kind][i].activity = Activity!Recognized
          /\ \A j \in DOMAIN Activity!Rules[kind] :
               Activity!Matches(Activity!Rules[kind][j]) => i <= j
    BY <1>1, FirstRule
  <1>3. CASE Activity!Recognized = "Blocked"
    BY <1>1, <1>2, <1>3, BlockedRules
  <1>4. CASE Activity!Recognized = "Idle"
    BY <1>1, <1>2, <1>4, IdleRules
  <1> QED
    BY <1>3, <1>4

-----------------------------------------------------------------------------
\* What the server makes of evidence, and what it keeps.
LEMMA EvidenceIsReal ==
  ASSUME Activity!RecognitionAssumption, ActivityInv
  PROVE  /\ Activity!Evidence \in Activity!Activities \cup {None}
         /\ Activity!Evidence = "Blocked" => doing = "Blocked" \/ observed.evidence = "Blocked"
         /\ Activity!Evidence = "Idle" => doing = "Idle" \/ observed.evidence = "Idle"
PROOF
  <1>1. /\ claim \in {None, doing} \cup (IF kind = "Grok" THEN {"Idle"} ELSE {})
        /\ None \notin Activity!Activities /\ doing \in Activity!Activities
        /\ observed.evidence \in Activity!Activities \cup {None}
    BY DEF ActivityInv, Activity!Titles, Activity!RecognitionAssumption, Activity!Activities
  <1>2. Activity!RecognizedTitle \in {None, doing}
    BY <1>1 DEF Activity!RecognizedTitle
  <1>3. Activity!Recognized \in {"Preserve", "Unknown"} \cup Activity!Activities
    <2> DEFINE rules == Activity!Rules[kind]
               matching == {i \in DOMAIN rules : Activity!Matches(rules[i])}
               first == CHOOSE i \in matching : \A j \in matching : i <= j
    <2>1. \A i \in DOMAIN rules : rules[i].activity \in Activity!Activities
      BY DEF ActivityInv, Activity!Activities, Activity!Kinds, Activity!Rules, Activity!Rule,
             Activity!CodexRules, Activity!ClaudeRules, Activity!GrokRules, Activity!PiRules,
             Activity!OpenCodeRules
    <2>2. Activity!Recognized = IF Activity!HistoryOverlay THEN "Preserve"
                                ELSE IF matching = {} THEN "Unknown" ELSE rules[first].activity
      BY DEF Activity!Recognized
    <2>3. DOMAIN rules \subseteq Nat
      BY DEF ActivityInv, Activity!Kinds, Activity!Rules, Activity!CodexRules,
             Activity!ClaudeRules, Activity!GrokRules, Activity!PiRules, Activity!OpenCodeRules
    <2>4. matching # {} => first \in matching
      <3> HIDE DEF rules
      <3>1. matching \in SUBSET Nat
        BY <2>3
      <3> HIDE DEF matching
      <3>2. matching # {} => \E i \in matching : \A j \in matching : i <= j
        BY <3>1, LeastNatural
      <3> QED
        BY <3>2
    <2>5. matching # {} => rules[first].activity \in Activity!Activities
      <3> HIDE DEF first
      <3> QED
        BY <2>1, <2>4
    <2> HIDE DEF rules, matching, first
    <2> QED
      BY <2>2, <2>5
  <1>4. Activity!Recognized \in {"Blocked", "Idle"} => doing = Activity!Recognized
    BY RecognizedIsReal
  <1> DEFINE seen == CASE Activity!Recognized = "Preserve" -> observed.evidence
                       [] Activity!Recognized = "Unknown" -> None
                       [] OTHER -> Activity!Recognized
  <1>5. /\ seen \in Activity!Activities \cup {None}
        /\ seen \in {"Blocked", "Idle"} => doing = seen \/ observed.evidence = seen
    BY <1>1, <1>3, <1>4 DEF Activity!Activities
  <1>6. Activity!Evidence = IF Activity!RecognizedTitle = "Blocked" THEN "Blocked"
                            ELSE IF seen # None THEN seen ELSE Activity!RecognizedTitle
    BY DEF Activity!Evidence
  <1> HIDE DEF seen
  <1> QED
    BY <1>1, <1>2, <1>5, <1>6 DEF Activity!Activities

\* An observation completes a turn, or begins to report a question, only
\* where there is one.
LEMMA ObservationIsReal ==
  ASSUME Activity!RecognitionAssumption, ActivityInv, Activity!Observe
  PROVE  /\ ActivityInv'
         /\ observed'.completed # observed.completed => doing = "Idle"
         /\ observed'.evidence = "Blocked" /\ observed.evidence # "Blocked" => doing = "Blocked"
PROOF
  <1> DEFINE found == IF redraws # observed.generation THEN Activity!Evidence
                      ELSE observed.evidence
             strong == IF found = None THEN observed.affirmative ELSE found
             done == IF Activity!Completes(found) THEN redraws ELSE observed.completed
  <1>1. /\ observed' = [generation |-> redraws, evidence |-> found, affirmative |-> strong,
                        completed |-> done]
        /\ UNCHANGED <<kind, doing, labels, claim, redraws>>
    BY DEF Activity!Observe
  <1>2. /\ observed.evidence \in Activity!Activities \cup {None}
        /\ observed.affirmative \in Activity!Activities \cup {None}
        /\ observed.completed \in Nat /\ redraws \in Nat /\ observed.generation \in Nat
        /\ observed.completed <= observed.generation /\ observed.generation <= redraws
        /\ observed.evidence # None => observed.affirmative = observed.evidence
        /\ None \notin Activity!Activities
    BY DEF ActivityInv, Activity!RecognitionAssumption, Activity!Activities
  <1>3. /\ found \in Activity!Activities \cup {None}
        /\ found = "Blocked" => doing = "Blocked" \/ observed.evidence = "Blocked"
        /\ found = "Idle" => doing = "Idle" \/ observed.evidence = "Idle"
    BY <1>2, EvidenceIsReal
  <1>4. strong \in Activity!Activities \cup {None} /\ (found # None => strong = found)
    BY <1>2, <1>3
  <1>5. done \in {redraws, observed.completed} /\ done <= redraws
    BY <1>2
  <1>6. done # observed.completed => found = "Idle" /\ observed.affirmative = "Working"
    BY DEF Activity!Completes
  <1> HIDE DEF found, strong, done
  <1>7. /\ observed'.generation = redraws /\ observed'.evidence = found
        /\ observed'.affirmative = strong /\ observed'.completed = done
        /\ observed' \in [generation: Nat, evidence: Activity!Activities \cup {None},
                          affirmative: Activity!Activities \cup {None}, completed: Nat]
    BY <1>1, <1>2, <1>3, <1>4, <1>5
  <1>8. ActivityInv'
    BY <1>1, <1>2, <1>4, <1>5, <1>7
    DEF ActivityInv, Telling, Overlaid, Activity!Titles
  <1>9. done # observed.completed => doing = "Idle"
    <2>1. observed.evidence = "Idle" => observed.affirmative = "Idle"
      BY <1>2 DEF Activity!Activities
    <2> QED
      BY <1>3, <1>6, <2>1
  <1> QED
    BY <1>3, <1>7, <1>8, <1>9

\* The harness draws.
LEMMA DrawingTells ==
  ASSUME Activity!RecognitionAssumption, ActivityInv,
         Activity!Redraw \/ \E a \in Activity!Activities : Activity!Turn(a)
  PROVE  ActivityInv' /\ observed' = observed
PROOF
  <1>1. /\ redraws' = redraws + 1 /\ kind' = kind /\ observed' = observed
        /\ doing' \in Activity!Activities /\ labels' \in Activity!Screens'
        /\ claim' \in Activity!Titles'
    <2>1. CASE Activity!Redraw
      BY <2>1 DEF Activity!Redraw, ActivityInv, Activity!Screens, Activity!Titles,
                  Activity!Marks, Activity!Quotable
    <2>2. ASSUME NEW a \in Activity!Activities, Activity!Turn(a)
          PROVE  /\ doing' = a /\ labels' \in Activity!Screens' /\ claim' \in Activity!Titles'
      <3>1. doing' = a /\ kind' = kind /\ claim' \in {None, a}
            /\ \E marks \in Activity!Marks(a) : labels' = Activity!Showing(marks)
        BY <2>2 DEF Activity!Turn
      <3>2. PICK marks \in Activity!Marks(a) : labels' = Activity!Showing(marks)
        BY <3>1
      <3>3. marks \in Activity!Marks(doing)'
        BY <3>1, <3>2 DEF Activity!Marks
      <3> QED
        BY <3>1, <3>2, <3>3 DEF Activity!Screens, Activity!Titles
    <2> QED
      BY <2>1, <2>2 DEF Activity!Turn
  <1>2. /\ labels' \in [Activity!Labels -> Activity!Places]
        /\ Overlaid(labels') \/ Telling(labels)'
    <2>1. (kind \in Activity!Kinds)' /\ (doing \in Activity!Activities)'
      BY <1>1 DEF ActivityInv
    <2> QED
      BY <1>1, <2>1, NextScreensTell DEF DrawnTells
  <1> QED
    BY <1>1, <1>2 DEF ActivityInv, Overlaid

LEMMA ActivityStep ==
  ASSUME Activity!RecognitionAssumption, ActivityInv, [Activity!Next]_(Activity!vars)
  PROVE  /\ ActivityInv'
         /\ [observed'.completed # observed.completed => doing = "Idle"]_(Activity!vars)
         /\ [observed'.evidence = "Blocked" /\ observed.evidence # "Blocked"
               => doing = "Blocked"]_(Activity!vars)
PROOF
  <1>1. CASE Activity!Observe
    BY <1>1, ObservationIsReal
  <1>2. CASE Activity!Redraw \/ \E a \in Activity!Activities : Activity!Turn(a)
    BY <1>2, DrawingTells
  <1>3. CASE UNCHANGED Activity!vars
    BY <1>3 DEF Activity!vars, ActivityInv, Telling, Overlaid, Activity!Titles
  <1> QED
    BY <1>1, <1>2, <1>3 DEF Activity!Next

LEMMA ActivityBegins ==
  ASSUME Activity!Init
  PROVE  ActivityInv
PROOF
  <1>1. labels = Activity!Showing({}) /\ {} \in Activity!Marks(doing) \cup {{}}
    BY DEF Activity!Init, Activity!Blank, Activity!Showing
  <1>2. labels \in Activity!Screens
    BY <1>1 DEF Activity!Screens
  <1>3. kind \in Activity!Kinds /\ doing \in Activity!Activities
    BY DEF Activity!Init, Activity!Activities
  <1>4. labels \in [Activity!Labels -> Activity!Places] /\ (Overlaid(labels) \/ Telling(labels))
    BY <1>2, <1>3, AllScreensTell DEF DrawnTells
  <1> QED
    BY <1>3, <1>4 DEF Activity!Init, ActivityInv, Activity!Titles

\* A turn is recorded as completed only while the agent really is idle, and a
\* question is reported only while one is asked, whatever overlays, half-drawn
\* screens and quoted text are seen (recognition.rs 1-434, server.rs 771-864).
THEOREM ActivityStaysReal == Spec => ActivityIsReal
PROOF
  <1>1. Init => ActivityInv
    BY ActivityBegins DEF Init
  <1>2. ActivityInv /\ [Next]_vars =>
          /\ ActivityInv'
          /\ [observed'.completed # observed.completed => doing = "Idle"]_(Activity!vars)
          /\ [observed'.evidence = "Blocked" /\ observed.evidence # "Blocked"
                => doing = "Blocked"]_(Activity!vars)
    <2>1. [Next]_vars => [Activity!Next]_(Activity!vars)
      BY DEF Next, vars, activityVars, Activity!vars
    <2> QED
      BY <2>1, ServicesAssumption, ActivityStep
  <1>3. ActivityInv => (part = "Activity" => Activity!TypeOK)
    <2>1. ActivityInv => claim \in Activity!Activities \cup {None}
      BY DEF ActivityInv, Activity!Titles, Activity!Activities
    <2> QED
      BY <2>1 DEF ActivityInv, Activity!TypeOK
  <1> QED
    BY <1>1, <1>2, <1>3, PTL
    DEF Spec, ActivityIsReal, Activity!NoFalseCompletion, Activity!BlockedIsReal

-----------------------------------------------------------------------------
(* The usage of providers: a provider in flight is asked once, because what *)
(* is asked for is put in flight with the question and lands with the        *)
(* answer, and the last overview sent to a client is fresh, because every    *)
(* client is sent another when an answer lands.                              *)

ProbeReports == {answer.report : answer \in UNION {Reporting!Answers(k) : k \in Reporting!Providers}}
UsageReports == ProbeReports \cup {Reporting!NotProbed, Reporting!Without("Unsupported")}
Observations == [report: ProbeReports, at: Nat]
ProbeResults == [kind: Reporting!Providers, report: ProbeReports]
Limits == [report: UsageReports, refreshing: BOOLEAN, at: Nat \cup {None}]
Overviews == UNION {[some -> Limits] : some \in SUBSET Reporting!Providers}
Interfaces == [attached: BOOLEAN, inbox: Seq(Overviews), shown: Overviews,
               tab: Reporting!Providers \cup {None}, missed: BOOLEAN]

ObservedInv ==
  /\ enabled \in BOOLEAN /\ usable \in SUBSET Reporting!Providers /\ time \in Nat /\ time <= MaxTime
  /\ observations \in [Reporting!Providers -> {None} \cup Observations]
  /\ \A k \in Reporting!Providers : observations[k] # None => observations[k].at \in 0..time

\* A provider in flight is in one channel, at one place.
FlightInv ==
  /\ inFlight \in SUBSET Reporting!Providers
  /\ asked \in Seq(Reporting!Providers) /\ answered \in Seq(ProbeResults)
  /\ \A i \in DOMAIN asked : asked[i] \in inFlight
  /\ \A i, j \in DOMAIN asked : asked[i] = asked[j] => i = j
  /\ \A i \in DOMAIN answered : answered[i].kind \in inFlight
  /\ \A i, j \in DOMAIN answered : answered[i].kind = answered[j].kind => i = j
  /\ \A i \in DOMAIN asked, j \in DOMAIN answered : asked[i] # answered[j].kind
  /\ \A k \in inFlight : \/ \E i \in DOMAIN asked : asked[i] = k
                         \/ \E i \in DOMAIN answered : answered[i].kind = k

Fresh(overview) ==
  \A k \in DOMAIN overview :
    /\ overview[k].report = Reporting!ReportOf(k, observations)
    /\ overview[k].refreshing => k \in inFlight

\* The overview a client shows once it received everything, unless it dropped it.
Told(v) ==
  IF v.inbox = <<>> THEN v.missed \/ Fresh(v.shown) ELSE Fresh(v.inbox[Len(v.inbox)])
ViewerInv(v) ==
  /\ v \in Interfaces /\ Len(v.inbox) <= MaxInbox
  /\ v.tab \in DOMAIN v.shown \/ DOMAIN v.shown = {}
  /\ v.attached => Told(v)
ViewersInv == viewers \in [Viewers -> Interfaces] /\ \A c \in Viewers : ViewerInv(viewers[c])

UsageInv == ObservedInv /\ FlightInv /\ ViewersInv

-----------------------------------------------------------------------------
\* Providers in the order they are shown and asked

LEMMA OrderedLists ==
  ASSUME Reporting!UsageAssumption, NEW kinds \in SUBSET Reporting!Providers
  PROVE  /\ Reporting!Ordered(kinds) \in Seq(kinds)
         /\ \A i, j \in DOMAIN Reporting!Ordered(kinds) :
              Reporting!Ordered(kinds)[i] = Reporting!Ordered(kinds)[j] => i = j
         /\ \A k \in kinds : \E i \in DOMAIN Reporting!Ordered(kinds) : Reporting!Ordered(kinds)[i] = k
PROOF
  <1> DEFINE places == {i \in DOMAIN Order : Order[i] \in kinds}
             Rows == UNION {[1..n -> places] : n \in 0..Len(Order)}
             Fits(s) == /\ \A i, j \in DOMAIN s : i < j => s[i] < s[j]
                        /\ \A place \in places : \E i \in DOMAIN s : s[i] = place
             listed == CHOOSE s \in Rows : Fits(s)
  <1>1. /\ Len(Order) \in Nat /\ DOMAIN Order = 1..Len(Order)
        /\ \A i, j \in DOMAIN Order : Order[i] = Order[j] => i = j
        /\ \A k \in Reporting!Providers : \E i \in DOMAIN Order : Order[i] = k
    <2>1. Order \in Seq(Reporting!In(Order))
          /\ \A i, j \in DOMAIN Order : Order[i] = Order[j] => i = j
      BY DEF Reporting!UsageAssumption
    <2>2. Len(Order) \in Nat /\ DOMAIN Order = 1..Len(Order)
      BY <2>1, LenProperties
    <2> QED
      BY <2>1, <2>2 DEF Reporting!Providers, Reporting!In
  <1>2. places \in SUBSET (Nat \ {0}) /\ \A i \in places : i <= Len(Order)
    BY <1>1
  <1>3. \E s \in Rows : Fits(s)
    <2>1. PICK n \in 0..Len(Order) : \E s \in [1..n -> places] : Lists(s, places, Len(Order))
      <3> HIDE DEF places
      <3> QED
        BY <1>1, <1>2, ListsExist
    <2>2. PICK s \in [1..n -> places] : Lists(s, places, Len(Order))
      BY <2>1
    <2>3. s \in Rows
      BY <2>1, <2>2
    <2>4. Fits(s)
      <3> HIDE DEF places
      <3> QED
        BY <1>2, <2>2 DEF Lists
    <2> QED
      BY <2>3, <2>4
  <1>4. listed \in Rows /\ Fits(listed)
    <2> HIDE DEF Rows, Fits
    <2> QED
      BY <1>3
  <1>5. Reporting!Ordered(kinds) = [i \in DOMAIN listed |-> Order[listed[i]]]
    BY DEF Reporting!Ordered
  <1> HIDE DEF listed
  <1>6. PICK n \in 0..Len(Order) : listed \in [1..n -> places]
    BY <1>4
  <1>7. n \in Nat /\ DOMAIN listed = 1..n /\ \A i \in 1..n : listed[i] \in places
    <2> HIDE DEF places
    <2> QED
      BY <1>1, <1>6
  <1> DEFINE r == Reporting!Ordered(kinds)
  <1>8. DOMAIN r = 1..n /\ \A i \in 1..n : r[i] = Order[listed[i]] /\ r[i] \in kinds
    BY <1>5, <1>7
  <1>9. r \in Seq(kinds)
    <2>1. r \in [1..n -> kinds]
      BY <1>5, <1>7, <1>8
    <2> HIDE DEF r
    <2> QED
      BY <1>7, <2>1, SeqDef
  <1>10. ASSUME NEW i \in DOMAIN r, NEW j \in DOMAIN r, r[i] = r[j] PROVE i = j
    <2>1. listed[i] = listed[j] /\ listed[i] \in Nat
      BY <1>1, <1>2, <1>7, <1>8, <1>10
    <2>2. ~(i < j) /\ ~(j < i)
      BY <1>4, <1>7, <1>8, <2>1
    <2> QED
      BY <1>7, <1>8, <2>2
  <1>11. ASSUME NEW k \in kinds PROVE \E i \in DOMAIN r : r[i] = k
    <2>1. PICK place \in places : Order[place] = k
      BY <1>1
    <2>2. PICK i \in DOMAIN listed : listed[i] = place
      BY <1>4
    <2> QED
      BY <1>7, <1>8, <2>1, <2>2
  <1> QED
    BY <1>9, <1>10, <1>11

-----------------------------------------------------------------------------
\* What is asked for

LEMMA RefreshKeeps ==
  ASSUME Reporting!UsageAssumption, FlightInv, NEW kinds \in SUBSET Reporting!Providers,
         Reporting!Refresh(kinds), answered' = answered
  PROVE  FlightInv' /\ inFlight \subseteq inFlight'
PROOF
  <1> DEFINE new == IF enabled THEN kinds \ inFlight ELSE {}
  <1>1. inFlight' = inFlight \cup new /\ asked' = asked \o Reporting!Ordered(new)
    BY DEF Reporting!Refresh
  <1>2. new \in SUBSET Reporting!Providers /\ new \cap inFlight = {}
    OBVIOUS
  <1>3. PICK s : s = Reporting!Ordered(new)
    OBVIOUS
  <1> HIDE DEF new
  <1>4. /\ s \in Seq(new)
        /\ \A i, j \in DOMAIN s : s[i] = s[j] => i = j
        /\ \A k \in new : \E i \in DOMAIN s : s[i] = k
    BY <1>2, <1>3, OrderedLists
  <1>5. Len(s) \in Nat /\ DOMAIN s = 1..Len(s) /\ (\A i \in DOMAIN s : s[i] \in new)
        /\ s \in Seq(Reporting!Providers)
    <2>1. s \in Seq(Reporting!Providers)
      BY <1>2, <1>4
    <2> QED
      BY <1>4, <2>1, LenProperties, ElementOfSeq
  <1>6. asked \in Seq(Reporting!Providers) /\ Len(asked) \in Nat /\ DOMAIN asked = 1..Len(asked)
    BY LenProperties DEF FlightInv
  <1>7. /\ asked' \in Seq(Reporting!Providers)
        /\ DOMAIN asked' = 1..(Len(asked) + Len(s))
        /\ \A i \in 1..Len(asked) : asked'[i] = asked[i]
        /\ \A i \in 1..Len(s) : asked'[Len(asked) + i] = s[i]
    <2>1. asked' \in Seq(Reporting!Providers) /\ Len(asked') = Len(asked) + Len(s)
          /\ \A i \in 1..(Len(asked) + Len(s)) :
               asked'[i] = IF i <= Len(asked) THEN asked[i] ELSE s[i - Len(asked)]
      BY <1>1, <1>3, <1>5, <1>6, ConcatProperties
    <2>2. DOMAIN asked' = 1..(Len(asked) + Len(s))
      BY <2>1, LenProperties
    <2>3. ASSUME NEW i \in 1..Len(asked) PROVE asked'[i] = asked[i]
      BY <1>5, <1>6, <2>1
    <2>4. ASSUME NEW i \in 1..Len(s) PROVE asked'[Len(asked) + i] = s[i]
      <3>1. /\ Len(asked) + i \in 1..(Len(asked) + Len(s)) /\ ~(Len(asked) + i <= Len(asked))
            /\ (Len(asked) + i) - Len(asked) = i
        BY <1>5, <1>6
      <3> QED
        BY <2>1, <3>1
    <2> QED
      BY <2>1, <2>2, <2>3, <2>4
  <1>8. \A i \in DOMAIN asked' :
          \/ i \in DOMAIN asked /\ asked'[i] = asked[i] /\ asked[i] \in inFlight
          \/ i - Len(asked) \in DOMAIN s /\ asked'[i] = s[i - Len(asked)] /\ s[i - Len(asked)] \in new
    <2> SUFFICES ASSUME NEW i \in DOMAIN asked'
                 PROVE  \/ i \in DOMAIN asked /\ asked'[i] = asked[i] /\ asked[i] \in inFlight
                        \/ i - Len(asked) \in DOMAIN s /\ asked'[i] = s[i - Len(asked)] /\ s[i - Len(asked)] \in new
      OBVIOUS
    <2>1. CASE i <= Len(asked)
      BY <1>6, <1>7, <2>1 DEF FlightInv
    <2>2. CASE ~(i <= Len(asked))
      <3>1. i - Len(asked) \in 1..Len(s) /\ Len(asked) + (i - Len(asked)) = i
        BY <1>5, <1>6, <1>7, <2>2
      <3> QED
        BY <1>5, <1>7, <3>1
    <2> QED
      BY <2>1, <2>2
  <1>9. \A i, j \in DOMAIN asked' : asked'[i] = asked'[j] => i = j
    <2> SUFFICES ASSUME NEW i \in DOMAIN asked', NEW j \in DOMAIN asked', asked'[i] = asked'[j]
                 PROVE  i = j
      OBVIOUS
    <2>1. i \in Int /\ j \in Int
      BY <1>5, <1>6, <1>7
    <2>2. CASE i \in DOMAIN asked /\ asked'[i] = asked[i] /\ asked[i] \in inFlight
      <3>1. j \in DOMAIN asked /\ asked'[j] = asked[j]
        BY <1>2, <1>8, <2>2
      <3> QED
        BY <2>2, <3>1 DEF FlightInv
    <2>3. CASE i - Len(asked) \in DOMAIN s /\ asked'[i] = s[i - Len(asked)] /\ s[i - Len(asked)] \in new
      <3>1. j - Len(asked) \in DOMAIN s /\ asked'[j] = s[j - Len(asked)]
        BY <1>2, <1>8, <2>3
      <3>2. i - Len(asked) = j - Len(asked)
        BY <1>4, <2>3, <3>1
      <3> QED
        BY <1>6, <2>1, <3>2
    <2> QED
      BY <1>8, <2>2, <2>3
  <1>10. \A i \in DOMAIN asked' : asked'[i] \in inFlight'
    BY <1>1, <1>8
  <1>11. \A i \in DOMAIN asked', j \in DOMAIN answered : asked'[i] # answered[j].kind
    <2> SUFFICES ASSUME NEW i \in DOMAIN asked', NEW j \in DOMAIN answered
                 PROVE  asked'[i] # answered[j].kind
      OBVIOUS
    <2>1. answered[j].kind \in inFlight
      BY DEF FlightInv
    <2> QED
      BY <1>2, <1>8, <2>1 DEF FlightInv
  <1>12. ASSUME NEW k \in inFlight'
         PROVE  \/ \E i \in DOMAIN asked' : asked'[i] = k
                \/ \E i \in DOMAIN answered : answered[i].kind = k
    <2>1. CASE k \in new
      <3>1. PICK i \in DOMAIN s : s[i] = k
        BY <1>4, <2>1
      <3>2. Len(asked) + i \in DOMAIN asked' /\ asked'[Len(asked) + i] = k
        BY <1>5, <1>6, <1>7, <3>1
      <3> QED
        BY <3>2
    <2>2. CASE k \in inFlight
      <3>1. \A i \in DOMAIN asked : i \in DOMAIN asked' /\ asked'[i] = asked[i]
        BY <1>5, <1>6, <1>7
      <3> QED
        BY <2>2, <3>1 DEF FlightInv
    <2> QED
      BY <1>1, <2>1, <2>2
  <1>13. inFlight' \in SUBSET Reporting!Providers /\ answered \in Seq(ProbeResults)
         /\ (\A i \in DOMAIN answered : answered[i].kind \in inFlight')
         /\ (\A i, j \in DOMAIN answered : answered[i].kind = answered[j].kind => i = j)
    BY <1>1, <1>2 DEF FlightInv
  <1>14. ProbeResults' = ProbeResults
    OBVIOUS
  <1> QED
    BY <1>1, <1>7, <1>9, <1>10, <1>11, <1>12, <1>13 DEF FlightInv

-----------------------------------------------------------------------------
\* Overviews

SentIsFresh ==
  ObservedInv => \A sent : sent = Reporting!Overview(observations, inFlight) => sent \in Overviews /\ Fresh(sent)

LEMMA OverviewIsFresh == SentIsFresh
PROOF
  <1> SUFFICES ASSUME ObservedInv
               PROVE  /\ Reporting!Overview(observations, inFlight) \in Overviews
                      /\ Fresh(Reporting!Overview(observations, inFlight))
    BY DEF SentIsFresh
  <1> DEFINE o == Reporting!Overview(observations, inFlight)
             at(k) == IF observations[k] = None THEN None ELSE observations[k].at
             Limit(k) == [report |-> Reporting!ReportOf(k, observations),
                          refreshing |-> k \in inFlight, at |-> at(k)]
  <1>1. o = [k \in usable |-> Limit(k)]
    BY DEF Reporting!Overview
  <1>2. ASSUME NEW k \in usable PROVE Limit(k) \in Limits
    <2>1. k \in Reporting!Providers
      BY DEF ObservedInv
    <2>2. observations[k] = None \/ (observations[k] \in Observations)
      BY <2>1 DEF ObservedInv
    <2>3. Reporting!ReportOf(k, observations) \in UsageReports
      BY <2>2 DEF Reporting!ReportOf, UsageReports, Observations
    <2>4. at(k) \in Nat \cup {None}
      BY <2>2 DEF Observations
    <2>5. (k \in inFlight) \in BOOLEAN
      OBVIOUS
    <2> HIDE DEF at
    <2> QED
      BY <2>3, <2>4, <2>5 DEF Limits
  <1>3. o \in [usable -> Limits]
    <2> HIDE DEF Limit
    <2> QED
      BY <1>1, <1>2
  <1>4. o \in Overviews
    <2> HIDE DEF o
    <2> QED
      BY <1>3 DEF Overviews, ObservedInv
  <1>5. Fresh(o)
    <2>1. ASSUME NEW k \in usable
          PROVE  o[k].report = Reporting!ReportOf(k, observations) /\ (o[k].refreshing => k \in inFlight)
      <3>1. o[k] = Limit(k)
        BY <1>1
      <3>2. Limit(k).report = Reporting!ReportOf(k, observations) /\ Limit(k).refreshing = (k \in inFlight)
        OBVIOUS
      <3> QED
        BY <3>1, <3>2
    <2>2. DOMAIN o = usable
      BY <1>3
    <2> HIDE DEF o
    <2> QED
      BY <2>1, <2>2 DEF Fresh
  <1> QED
    BY <1>4, <1>5

LEMMA NextOverviewIsFresh == SentIsFresh'
PROOF
  BY OverviewIsFresh, PTL

\* What is fresh stays so while no answer lands.
LEMMA FreshStays ==
  ASSUME NEW overview, Fresh(overview), UNCHANGED <<enabled, observations>>, inFlight \subseteq inFlight'
  PROVE  Fresh(overview)'
PROOF
  <1>1. \A k : Reporting!ReportOf(k, observations)' = Reporting!ReportOf(k, observations)
    BY DEF Reporting!ReportOf
  <1> QED
    BY <1>1 DEF Fresh

-----------------------------------------------------------------------------
\* Viewers

\* The elements of a record that is an interface.
LEMMA InterfaceParts ==
  ASSUME NEW v \in Interfaces
  PROVE  /\ v.attached \in BOOLEAN /\ v.inbox \in Seq(Overviews) /\ v.shown \in Overviews
         /\ v.tab \in Reporting!Providers \cup {None} /\ v.missed \in BOOLEAN
         /\ Len(v.inbox) \in Nat /\ DOMAIN v.inbox = 1..Len(v.inbox)
         /\ v = [attached |-> v.attached, inbox |-> v.inbox, shown |-> v.shown,
                 tab |-> v.tab, missed |-> v.missed]
PROOF
  <1>1. v.inbox \in Seq(Overviews)
    BY DEF Interfaces
  <1>2. Len(v.inbox) \in Nat /\ DOMAIN v.inbox = 1..Len(v.inbox)
    BY <1>1, LenProperties
  <1> QED
    BY <1>1, <1>2 DEF Interfaces

LEMMA ViewerStays ==
  ASSUME NEW v, ViewerInv(v), UNCHANGED <<enabled, observations>>, inFlight \subseteq inFlight'
  PROVE  ViewerInv(v)'
PROOF
  <1>1. v.attached => Told(v)'
    BY FreshStays DEF ViewerInv, Told
  <1> QED
    BY <1>1 DEF ViewerInv

LEMMA ViewersStay ==
  ASSUME ViewersInv, UNCHANGED <<enabled, observations, viewers>>, inFlight \subseteq inFlight'
  PROVE  ViewersInv'
PROOF
  <1>1. \A c \in Viewers : ViewerInv(viewers[c])'
    BY ViewerStays DEF ViewersInv
  <1>2. viewers' \in [Viewers -> Interfaces]
    BY DEF ViewersInv
  <1> QED
    BY <1>1, <1>2 DEF ViewersInv

\* A step of one viewer, while no answer lands.
LEMMA OneViewer ==
  ASSUME ViewersInv, UNCHANGED <<enabled, observations>>, inFlight \subseteq inFlight',
         NEW c \in Viewers, NEW v, ViewerInv(v)', viewers' = [viewers EXCEPT ![c] = v]
  PROVE  ViewersInv'
PROOF
  <1>1. v \in Interfaces
    BY DEF ViewerInv
  <1>2. viewers' \in [Viewers -> Interfaces]
    BY <1>1 DEF ViewersInv
  <1>3. ASSUME NEW d \in Viewers PROVE ViewerInv(viewers[d])'
    <2>1. CASE d = c
      <3>1. viewers'[d] = v
        BY <2>1 DEF ViewersInv
      <3> QED
        BY <3>1 DEF ViewerInv, Told, Fresh
    <2>2. CASE d # c
      <3>1. viewers'[d] = viewers[d]
        BY <2>2 DEF ViewersInv
      <3>2. PICK w : w = viewers[d]
        OBVIOUS
      <3>3. ViewerInv(w)'
        BY <3>2, ViewerStays DEF ViewersInv
      <3> QED
        BY <3>1, <3>2, <3>3 DEF ViewerInv, Told, Fresh
    <2> QED
      BY <2>1, <2>2
  <1> QED
    BY <1>2, <1>3 DEF ViewersInv

\* Nothing is shown before anything is received.
LEMMA NothingShown ==
  <<>> \in Overviews /\ DOMAIN <<>> = {} /\ <<>> \in Seq(Overviews) /\ Len(<<>>) = 0
PROOF
  <1>1. \A s \in Seq(Limits) : s = <<>> => DOMAIN s = {} /\ s \in Overviews /\ Len(s) = 0
    <2> SUFFICES ASSUME NEW s \in Seq(Limits), s = <<>>
                 PROVE  DOMAIN s = {} /\ s \in Overviews /\ Len(s) = 0
      OBVIOUS
    <2>1. Len(s) = 0 /\ s \in [1..Len(s) -> Limits]
      BY EmptySeq, LenProperties
    <2>2. s \in [{} -> Limits]
      BY <2>1
    <2> QED
      BY <2>1, <2>2 DEF Overviews
  <1>2. <<>> \in Seq(Limits) /\ <<>> \in Seq(Overviews)
    BY EmptySeq
  <1> QED
    BY <1>1, <1>2

\* A viewer without a connection shows nothing.
LEMMA NoViewer ==
  ASSUME Reporting!UsageAssumption PROVE ViewerInv(Reporting!NoClient) /\ ViewerInv(Reporting!NoClient)'
PROOF
  <1>1. \A none \in Seq(Overviews) : none = <<>> =>
          LET v == [attached |-> FALSE, inbox |-> none, shown |-> none, tab |-> None, missed |-> FALSE]
          IN v \in Interfaces /\ Len(v.inbox) <= MaxInbox /\ DOMAIN v.shown = {} /\ ~v.attached
    BY NothingShown DEF Interfaces, Reporting!UsageAssumption
  <1>2. LET v == Reporting!NoClient
        IN v \in Interfaces /\ Len(v.inbox) <= MaxInbox /\ DOMAIN v.shown = {} /\ ~v.attached
    BY <1>1, NothingShown DEF Reporting!NoClient
  <1> QED
    BY <1>2 DEF ViewerInv

\* A viewer that is sent a fresh overview was told the latest.
LEMMA ViewerTold ==
  ASSUME NEW v \in Interfaces, NEW o \in Overviews, Fresh(o)', Len(v.inbox) < MaxInbox,
         Reporting!UsageAssumption, v.tab \in DOMAIN v.shown \/ DOMAIN v.shown = {}
  PROVE  ViewerInv([v EXCEPT !.inbox = Append(@, o)])'
PROOF
  <1> DEFINE w == [v EXCEPT !.inbox = Append(@, o)]
  <1>1. /\ Append(v.inbox, o) \in Seq(Overviews) /\ Len(Append(v.inbox, o)) = Len(v.inbox) + 1
        /\ Append(v.inbox, o)[Len(v.inbox) + 1] = o
    BY InterfaceParts, AppendProperties
  <1>2. w.inbox = Append(v.inbox, o) /\ w.tab = v.tab /\ w.shown = v.shown
        /\ w.attached = v.attached /\ w.missed = v.missed
    BY InterfaceParts DEF Interfaces
  <1>3. w \in Interfaces
    BY <1>1 DEF Interfaces
  <1> HIDE DEF w
  <1>4. Len(w.inbox) <= MaxInbox
    BY <1>1, <1>2, InterfaceParts DEF Reporting!UsageAssumption
  <1>5. w.inbox # <<>> /\ w.inbox[Len(w.inbox)] = o
    <2>1. Len(w.inbox) # 0
      BY <1>1, <1>2, InterfaceParts
    <2> QED
      BY <1>1, <1>2, <2>1, NothingShown
  <1>6. Told(w)'
    BY <1>5 DEF Told
  <1>7. ViewerInv(w)'
    BY <1>2, <1>3, <1>4, <1>6 DEF ViewerInv
  <1> QED
    BY <1>7 DEF w

-----------------------------------------------------------------------------
\* Steps of the server

LEMMA ProbeStep ==
  ASSUME Reporting!UsageAssumption, UsageInv, Reporting!Probe PROVE UsageInv'
PROOF
  <1>1. /\ asked # <<>> /\ asked' = Tail(asked)
        /\ UNCHANGED <<enabled, usable, time, observations, inFlight, viewers>>
    BY DEF Reporting!Probe, Reporting!cache
  <1>2. PICK answer \in Reporting!Answers(Head(asked)) :
          answered' = Append(answered, [kind |-> Head(asked), report |-> answer.report])
    BY DEF Reporting!Probe
  <1>3. asked \in Seq(Reporting!Providers) /\ answered \in Seq(ProbeResults)
    BY DEF UsageInv, FlightInv
  <1>4. /\ Head(asked) \in Reporting!Providers /\ Tail(asked) \in Seq(Reporting!Providers)
        /\ 1 \in DOMAIN asked /\ Head(asked) = asked[1]
        /\ \A i \in DOMAIN Tail(asked) : i \in Nat /\ i >= 1 /\ i + 1 \in DOMAIN asked
                                         /\ Tail(asked)[i] = asked[i + 1]
    BY <1>1, <1>3, Received
  <1>5. PICK k \in Reporting!Providers : k = Head(asked) /\ k = asked[1]
    BY <1>4
  <1>6. answer.report \in ProbeReports
    BY <1>2, <1>5 DEF ProbeReports
  <1>7. PICK e \in ProbeResults : e.kind = k /\ e = [kind |-> k, report |-> answer.report]
    BY <1>5, <1>6 DEF ProbeResults
  <1>8. answered' = Append(answered, e)
    BY <1>2, <1>5, <1>7
  <1>9. /\ answered' \in Seq(ProbeResults) /\ DOMAIN answered \subseteq Nat
        /\ \A i \in DOMAIN answered' :
             \/ i \in DOMAIN answered /\ answered'[i] = answered[i]
             \/ answered'[i] = e /\ i \in Nat /\ \A j \in DOMAIN answered' : j <= i
    BY <1>3, <1>8, Sent
  <1>10. /\ \A i \in DOMAIN answered : i \in DOMAIN answered' /\ answered'[i] = answered[i]
         /\ \E i \in DOMAIN answered' : answered'[i] = e
    <2>1. Len(answered) \in Nat /\ DOMAIN answered = 1..Len(answered)
          /\ DOMAIN answered' = 1..(Len(answered) + 1)
          /\ (\A i \in 1..Len(answered) : answered'[i] = answered[i])
          /\ answered'[Len(answered) + 1] = e
      BY <1>3, <1>8, <1>9, LenProperties, AppendProperties
    <2>2. Len(answered) + 1 \in DOMAIN answered'
      BY <2>1
    <2> QED
      BY <2>1, <2>2
  <1>11. k \in inFlight /\ \A i \in DOMAIN answered : answered[i].kind # k
    BY <1>4, <1>5 DEF UsageInv, FlightInv
  <1>12. FlightInv'
    <2>1. asked' \in Seq(Reporting!Providers) /\ answered' \in Seq(ProbeResults) /\ ProbeResults' = ProbeResults
          /\ inFlight' \in SUBSET Reporting!Providers
      BY <1>1, <1>4, <1>9 DEF UsageInv, FlightInv
    <2>2. ASSUME NEW i \in DOMAIN asked' PROVE asked'[i] \in inFlight' /\ asked'[i] # k
      <3>1. i + 1 \in DOMAIN asked /\ asked'[i] = asked[i + 1] /\ i + 1 # 1
        BY <1>1, <1>4
      <3> QED
        BY <1>1, <1>4, <1>5, <3>1 DEF UsageInv, FlightInv
    <2>3. ASSUME NEW i \in DOMAIN asked', NEW j \in DOMAIN asked', asked'[i] = asked'[j] PROVE i = j
      <3>1. i + 1 \in DOMAIN asked /\ asked'[i] = asked[i + 1] /\ i \in Nat
        BY <1>1, <1>4
      <3>2. j + 1 \in DOMAIN asked /\ asked'[j] = asked[j + 1] /\ j \in Nat
        BY <1>1, <1>4
      <3>3. i + 1 = j + 1
        BY <2>3, <3>1, <3>2 DEF UsageInv, FlightInv
      <3> QED
        BY <3>1, <3>2, <3>3
    <2>4. ASSUME NEW i \in DOMAIN answered' PROVE answered'[i].kind \in inFlight'
      BY <1>1, <1>7, <1>9, <1>11 DEF UsageInv, FlightInv
    <2>5. ASSUME NEW i \in DOMAIN answered', NEW j \in DOMAIN answered', answered'[i].kind = answered'[j].kind
          PROVE  i = j
      <3>1. CASE i \in DOMAIN answered /\ answered'[i] = answered[i]
        <4>1. j \in DOMAIN answered /\ answered'[j] = answered[j]
          BY <1>7, <1>9, <1>11, <2>5, <3>1
        <4> QED
          BY <2>5, <3>1, <4>1 DEF UsageInv, FlightInv
      <3>2. CASE answered'[i] = e /\ i \in Nat /\ \A n \in DOMAIN answered' : n <= i
        <4>1. answered'[j] = e /\ j \in Nat /\ \A n \in DOMAIN answered' : n <= j
          BY <1>7, <1>9, <1>11, <2>5, <3>2
        <4>2. i <= j /\ j <= i
          BY <3>2, <4>1
        <4> QED
          BY <3>2, <4>1, <4>2
      <3> QED
        BY <1>9, <3>1, <3>2
    <2>6. ASSUME NEW i \in DOMAIN asked', NEW j \in DOMAIN answered' PROVE asked'[i] # answered'[j].kind
      <3>1. i + 1 \in DOMAIN asked /\ asked'[i] = asked[i + 1] /\ asked'[i] # k
        BY <1>1, <1>4, <2>2
      <3>2. CASE j \in DOMAIN answered /\ answered'[j] = answered[j]
        BY <3>1, <3>2 DEF UsageInv, FlightInv
      <3>3. CASE answered'[j] = e
        BY <1>7, <3>1, <3>3
      <3> QED
        BY <1>9, <3>2, <3>3
    <2>7. ASSUME NEW l \in inFlight'
          PROVE  (\E i \in DOMAIN asked' : asked'[i] = l) \/ (\E i \in DOMAIN answered' : answered'[i].kind = l)
      <3>1. CASE l = k
        BY <1>7, <1>10, <3>1
      <3>2. CASE \E i \in DOMAIN answered : answered[i].kind = l
        BY <1>10, <3>2
      <3>3. CASE l # k /\ \E i \in DOMAIN asked : asked[i] = l
        <4>1. PICK i \in DOMAIN asked : asked[i] = l
          BY <3>3
        <4>2. i # 1 /\ Len(asked) \in Nat /\ DOMAIN asked = 1..Len(asked)
              /\ DOMAIN Tail(asked) = 1..(Len(asked) - 1)
          BY <1>1, <1>3, <1>5, <3>3, <4>1, HeadTailProperties, LenProperties
        <4>3. i - 1 \in DOMAIN asked' /\ (i - 1) + 1 = i
          BY <1>1, <4>2
        <4>4. asked'[i - 1] = asked[i]
          BY <1>1, <1>4, <4>3
        <4> QED
          BY <4>1, <4>3, <4>4
      <3> QED
        BY <1>1, <3>1, <3>2, <3>3 DEF UsageInv, FlightInv
    <2> QED
      BY <2>1, <2>2, <2>3, <2>4, <2>5, <2>6, <2>7 DEF FlightInv
  <1>13. ViewersInv' /\ ObservedInv'
    <2>1. inFlight \subseteq inFlight'
      BY <1>1
    <2>2. ViewersInv'
      BY <1>1, <2>1, ViewersStay DEF UsageInv
    <2> QED
      BY <1>1, <2>2 DEF UsageInv, ObservedInv
  <1> QED
    BY <1>12, <1>13 DEF UsageInv

LEMMA PollStep ==
  ASSUME Reporting!UsageAssumption, UsageInv, Reporting!Poll PROVE UsageInv'
PROOF
  <1> DEFINE of(k) == {i \in DOMAIN answered : answered[i].kind = k}
             landed == {r.kind : r \in Reporting!In(answered)}
  <1>1. /\ answered # <<>> /\ answered' = <<>> /\ UNCHANGED <<enabled, usable, time, asked, probes>>
        /\ \A c \in Viewers : Len(viewers[c].inbox) < MaxInbox
        /\ inFlight' = inFlight \ landed
    BY DEF Reporting!Poll, Reporting!Landed
  <1>2. observations' = [k \in Reporting!Providers |->
          IF of(k) = {} THEN observations[k]
          ELSE Reporting!Observed(answered[CHOOSE i \in of(k) : \A j \in of(k) : j <= i])]
    BY DEF Reporting!Poll
  <1>a. PICK o : o = Reporting!Overview(observations', inFlight')
    OBVIOUS
  <1>3. viewers' = [c \in Viewers |->
          IF viewers[c].attached THEN [viewers[c] EXCEPT !.inbox = Append(@, o)] ELSE viewers[c]]
    BY <1>a DEF Reporting!Poll, Reporting!Interactive
  <1>4. answered \in Seq(ProbeResults) /\ Len(answered) \in Nat /\ DOMAIN answered = 1..Len(answered)
        /\ \A i \in DOMAIN answered : answered[i] \in ProbeResults
    BY LenProperties, ElementOfSeq DEF UsageInv, FlightInv
  <1>5. ASSUME NEW k \in Reporting!Providers
        PROVE  \/ of(k) = {} /\ observations'[k] = observations[k]
               \/ observations'[k] \in Observations /\ observations'[k].at = time
    <2>1. CASE of(k) = {}
      BY <1>2, <2>1
    <2>2. CASE of(k) # {}
      <3>1. PICK i \in of(k) : \A j \in of(k) : i = j
        BY <2>2 DEF UsageInv, FlightInv
      <3>2. \A j \in of(k) : j <= i
        BY <1>4, <3>1
      <3>3. PICK n : n = CHOOSE m \in of(k) : \A j \in of(k) : j <= m
        OBVIOUS
      <3>4. n \in of(k)
        BY <3>2, <3>3
      <3>5. observations'[k] = Reporting!Observed(answered[n])
        BY <1>2, <2>2, <3>3
      <3>6. answered[n] \in ProbeResults
        BY <1>4, <3>4
      <3>7. time \in Nat
        BY DEF UsageInv, ObservedInv
      <3> QED
        BY <3>5, <3>6, <3>7 DEF Reporting!Observed, ProbeResults, Observations
    <2> QED
      BY <2>1, <2>2
  <1>6. ObservedInv'
    <2>1. observations' \in [Reporting!Providers -> {None} \cup Observations]
      <3>1. ASSUME NEW k \in Reporting!Providers PROVE observations'[k] \in {None} \cup Observations
        BY <1>5 DEF UsageInv, ObservedInv
      <3>2. observations' = [k \in Reporting!Providers |-> observations'[k]]
        BY <1>2
      <3> QED
        BY <3>1, <3>2
    <2>2. ASSUME NEW k \in Reporting!Providers, observations'[k] # None PROVE observations'[k].at \in 0..time
      BY <1>5, <2>2 DEF UsageInv, ObservedInv
    <2> QED
      BY <1>1, <2>1, <2>2 DEF UsageInv, ObservedInv
  <1>7. o \in Overviews /\ Fresh(o)'
    <2>1. SentIsFresh'
      BY NextOverviewIsFresh
    <2>2. (o = Reporting!Overview(observations, inFlight))'
      BY <1>1, <1>a DEF Reporting!Overview, Reporting!ReportOf
    <2> QED
      BY <1>6, <2>1, <2>2 DEF SentIsFresh
  <1> HIDE DEF of
  <1>8. ViewersInv'
    <2>1. ASSUME NEW c \in Viewers PROVE ViewerInv(viewers[c])' /\ viewers'[c] \in Interfaces
      <3>1. viewers[c] \in Interfaces /\ ViewerInv(viewers[c])
        BY DEF UsageInv, ViewersInv
      <3>2. PICK v : v = viewers[c]
        OBVIOUS
      <3>5. CASE v.attached
        <4>1. viewers'[c] = [v EXCEPT !.inbox = Append(@, o)]
          BY <1>3, <3>2, <3>5
        <4>2. ViewerInv([v EXCEPT !.inbox = Append(@, o)])'
          BY <1>1, <1>7, <3>1, <3>2, ViewerTold DEF ViewerInv
        <4> QED
          BY <4>1, <4>2 DEF ViewerInv, Told, Fresh
      <3>6. CASE ~v.attached
        <4>1. viewers'[c] = v
          BY <1>3, <3>2, <3>6
        <4> QED
          BY <3>1, <3>2, <3>6, <4>1 DEF ViewerInv
      <3> QED
        BY <3>5, <3>6
    <2>2. viewers' \in [Viewers -> Interfaces]
      BY <1>3, <2>1
    <2> QED
      BY <2>1, <2>2 DEF ViewersInv
  <1>9. FlightInv'
    <2>1. \A i \in DOMAIN asked : asked[i] \in inFlight'
      BY <1>1 DEF UsageInv, FlightInv, Reporting!In
    <2>2. \A k \in inFlight' : \E i \in DOMAIN asked : asked[i] = k
      BY <1>1 DEF UsageInv, FlightInv, Reporting!In
    <2>3. \A s \in Seq(ProbeResults) : s = <<>> => DOMAIN s = {}
      <3> SUFFICES ASSUME NEW s \in Seq(ProbeResults), s = <<>> PROVE DOMAIN s = {}
        OBVIOUS
      <3>1. Len(s) = 0 /\ DOMAIN s = 1..Len(s)
        BY EmptySeq, LenProperties
      <3> QED
        BY <3>1
    <2>4. answered' \in Seq(ProbeResults) /\ DOMAIN answered' = {} /\ ProbeResults' = ProbeResults
      BY <1>1, <2>3, EmptySeq
    <2>5. inFlight' \in SUBSET Reporting!Providers
      BY <1>1 DEF UsageInv, FlightInv
    <2> QED
      BY <1>1, <2>1, <2>2, <2>4, <2>5 DEF UsageInv, FlightInv
  <1> QED
    BY <1>6, <1>8, <1>9 DEF UsageInv

\* What is read and asked for is fresh for who asked.
LEMMA AskedIsFresh ==
  ASSUME Reporting!UsageAssumption, UsageInv, NEW kinds \in SUBSET Reporting!Providers,
         Reporting!Refresh(kinds), UNCHANGED <<enabled, usable, time, observations, answered>>
  PROVE  /\ ObservedInv' /\ FlightInv' /\ inFlight \subseteq inFlight'
         /\ \A sent : sent = Reporting!Overview(observations, inFlight')
              => sent \in Overviews /\ Fresh(sent)'
PROOF
  <1>1. FlightInv' /\ inFlight \subseteq inFlight'
    BY RefreshKeeps DEF UsageInv
  <1>2. ObservedInv'
    BY DEF UsageInv, ObservedInv
  <1>3. SUFFICES ASSUME NEW sent, sent = Reporting!Overview(observations, inFlight')
                 PROVE  sent \in Overviews /\ Fresh(sent)'
    BY <1>1, <1>2
  <1>4. (sent = Reporting!Overview(observations, inFlight))'
    BY <1>3 DEF Reporting!Overview, Reporting!ReportOf
  <1>5. SentIsFresh'
    BY NextOverviewIsFresh
  <1> QED
    BY <1>2, <1>4, <1>5 DEF SentIsFresh

LEMMA AttachStep ==
  ASSUME Reporting!UsageAssumption, UsageInv, NEW c \in Viewers, Reporting!Attach(c) PROVE UsageInv'
PROOF
  <1>1. /\ UNCHANGED <<enabled, usable, time, observations, answered>>
        /\ Reporting!Refresh(Reporting!Stale)
    BY DEF Reporting!Attach
  <1>2. Reporting!Stale \in SUBSET Reporting!Providers
    BY DEF UsageInv, ObservedInv, Reporting!Stale
  <1>3. PICK o : o = Reporting!Overview(observations, inFlight')
    OBVIOUS
  <1>4. ObservedInv' /\ FlightInv' /\ inFlight \subseteq inFlight' /\ o \in Overviews /\ Fresh(o)'
    BY <1>1, <1>2, <1>3, AskedIsFresh
  <1>5. viewers' = [viewers EXCEPT ![c] = [Reporting!NoClient EXCEPT !.attached = TRUE, !.inbox = <<o>>]]
    BY <1>3 DEF Reporting!Attach
  <1>6. <<o>> \in Seq(Overviews) /\ Len(<<o>>) = 1 /\ <<o>>[1] = o /\ <<o>> # <<>>
    BY <1>4
  <1>7. PICK v \in Interfaces : v = Reporting!NoClient /\ v.shown = <<>>
    BY NoViewer DEF ViewerInv, Reporting!NoClient
  <1>8. PICK sent \in Seq(Overviews) : sent = <<o>>
    BY <1>6
  <1>9. PICK w : w = [v EXCEPT !.attached = TRUE, !.inbox = sent]
    OBVIOUS
  <1>10. /\ w.attached = TRUE /\ w.inbox = sent /\ w.shown = v.shown /\ w.tab = v.tab /\ w.missed = v.missed
         /\ w = [attached |-> TRUE, inbox |-> sent, shown |-> v.shown, tab |-> v.tab, missed |-> v.missed]
    BY <1>9 DEF Interfaces
  <1>a. w \in Interfaces
    BY <1>10, InterfaceParts DEF Interfaces
  <1>11. ViewerInv(w)'
    <2>1. Told(w)'
      BY <1>4, <1>6, <1>8, <1>10 DEF Told
    <2>2. Len(w.inbox) <= MaxInbox
      BY <1>6, <1>8, <1>10 DEF Reporting!UsageAssumption
    <2>3. DOMAIN w.shown = {}
      BY <1>7, <1>10, NothingShown
    <2> QED
      BY <1>a, <2>1, <2>2, <2>3 DEF ViewerInv
  <1>12. ViewersInv'
    <2>1. viewers' = [viewers EXCEPT ![c] = w]
      BY <1>5, <1>7, <1>8, <1>9
    <2> QED
      BY <1>1, <1>4, <1>11, <2>1, OneViewer DEF UsageInv
  <1> QED
    BY <1>4, <1>12 DEF UsageInv

LEMMA ReadUsageStep ==
  ASSUME Reporting!UsageAssumption, UsageInv, NEW c \in Viewers, Reporting!ReadUsage(c) PROVE UsageInv'
PROOF
  <1>1. /\ UNCHANGED <<enabled, usable, time, observations, answered>>
        /\ Reporting!Refresh(usable) /\ Len(viewers[c].inbox) < MaxInbox
    BY DEF Reporting!ReadUsage
  <1>2. usable \in SUBSET Reporting!Providers
    BY DEF UsageInv, ObservedInv
  <1>3. PICK o : o = Reporting!Overview(observations, inFlight')
    OBVIOUS
  <1>4. ObservedInv' /\ FlightInv' /\ inFlight \subseteq inFlight' /\ o \in Overviews /\ Fresh(o)'
    BY <1>1, <1>2, <1>3, AskedIsFresh
  <1>5. PICK v : v = viewers[c]
    OBVIOUS
  <1>6. v \in Interfaces /\ ViewerInv(v) /\ Len(v.inbox) < MaxInbox
    BY <1>1, <1>5 DEF UsageInv, ViewersInv
  <1>7. viewers' = [viewers EXCEPT ![c] = [v EXCEPT !.inbox = Append(@, o)]]
    BY <1>3, <1>5 DEF Reporting!ReadUsage
  <1>8. ViewerInv([v EXCEPT !.inbox = Append(@, o)])'
    BY <1>4, <1>6, ViewerTold DEF ViewerInv
  <1>9. PICK w : w = [v EXCEPT !.inbox = Append(@, o)]
    OBVIOUS
  <1>10. ViewersInv'
    <2>1. ViewerInv(w)' /\ viewers' = [viewers EXCEPT ![c] = w]
      BY <1>7, <1>8, <1>9
    <2> QED
      BY <1>1, <1>4, <2>1, OneViewer DEF UsageInv
  <1> QED
    BY <1>4, <1>10 DEF UsageInv

-----------------------------------------------------------------------------
\* Steps of a viewer

\* A step of a viewer leaves what the server knows as it is.
LEMMA ViewerActs ==
  ASSUME UsageInv, NEW c \in Viewers, NEW w, ViewerInv(w)', viewers' = [viewers EXCEPT ![c] = w],
         UNCHANGED <<enabled, usable, time, observations, inFlight, asked, answered>>
  PROVE  UsageInv'
PROOF
  <1>1. ObservedInv' /\ FlightInv' /\ inFlight \subseteq inFlight'
    BY DEF UsageInv, ObservedInv, FlightInv
  <1>2. ViewersInv'
    BY <1>1, OneViewer DEF UsageInv
  <1> QED
    BY <1>1, <1>2 DEF UsageInv

LEMMA LeaveStep ==
  ASSUME Reporting!UsageAssumption, UsageInv, NEW c \in Viewers, Reporting!Leave(c) PROVE UsageInv'
PROOF
  <1>1. viewers' = [viewers EXCEPT ![c] = Reporting!NoClient]
        /\ UNCHANGED <<enabled, usable, time, observations, inFlight, asked, answered>>
    BY DEF Reporting!Leave, Reporting!cache, Reporting!channels
  <1>2. ViewerInv(Reporting!NoClient)'
    BY NoViewer
  <1>3. PICK w : w = Reporting!NoClient
    OBVIOUS
  <1>4. ViewerInv(w)'
    BY <1>2, <1>3 DEF ViewerInv, Told, Fresh
  <1> QED
    BY <1>1, <1>3, <1>4, ViewerActs

\* What is left of an inbox ends as it did.
LEMMA InboxTail ==
  ASSUME NEW s \in Seq(Overviews), s # <<>>
  PROVE  /\ Head(s) \in Overviews /\ Tail(s) \in Seq(Overviews) /\ Len(Tail(s)) = Len(s) - 1
         /\ Len(s) \in Nat \ {0}
         /\ Tail(s) = <<>> => Head(s) = s[Len(s)]
         /\ Tail(s) # <<>> => Tail(s)[Len(Tail(s))] = s[Len(s)]
PROOF
  <1>1. Len(s) \in Nat \ {0} /\ Tail(s) \in Seq(Overviews) /\ Len(Tail(s)) = Len(s) - 1
        /\ \A i \in 1..Len(Tail(s)) : Tail(s)[i] = s[i + 1]
    BY EmptySeq, LenProperties, HeadTailProperties
  <1>2. Head(s) \in Overviews /\ Head(s) = s[1]
    BY <1>1, Received
  <1>3. Tail(s) = <<>> => Len(s) = 1
    <2> SUFFICES ASSUME Tail(s) = <<>> PROVE Len(s) = 1
      OBVIOUS
    <2>1. Len(Tail(s)) = 0
      BY NothingShown
    <2> QED
      BY <1>1, <2>1
  <1>4. Tail(s) # <<>> => Tail(s)[Len(Tail(s))] = s[Len(s)]
    <2> SUFFICES ASSUME Tail(s) # <<>> PROVE Tail(s)[Len(Tail(s))] = s[Len(s)]
      OBVIOUS
    <2>1. Len(Tail(s)) # 0
      BY <1>1, EmptySeq
    <2>2. Len(Tail(s)) \in 1..Len(Tail(s)) /\ Len(Tail(s)) + 1 = Len(s)
      BY <1>1, <2>1
    <2> QED
      BY <1>1, <2>2
  <1> QED
    BY <1>1, <1>2, <1>3, <1>4

LEMMA TabsFit ==
  ASSUME Reporting!UsageAssumption, NEW overview \in Overviews
  PROVE  /\ Reporting!Tabs(overview) \in Seq(DOMAIN overview)
         /\ Reporting!Tabs(overview) = <<>> => DOMAIN overview = {}
         /\ DOMAIN overview \in SUBSET Reporting!Providers
PROOF
  <1>1. DOMAIN overview \in SUBSET Reporting!Providers
    BY DEF Overviews
  <1>2. /\ Reporting!Tabs(overview) \in Seq(DOMAIN overview)
        /\ \A k \in DOMAIN overview :
             \E i \in DOMAIN Reporting!Tabs(overview) : Reporting!Tabs(overview)[i] = k
    BY <1>1, OrderedLists DEF Reporting!Tabs
  <1>3. ASSUME Reporting!Tabs(overview) = <<>> PROVE DOMAIN overview = {}
    BY <1>2, <1>3, NothingShown
  <1> QED
    BY <1>1, <1>2, <1>3

LEMMA ReceiveStep ==
  ASSUME Reporting!UsageAssumption, UsageInv, NEW c \in Viewers, Reporting!Receive(c) PROVE UsageInv'
PROOF
  <1>1. PICK v : v = viewers[c]
    OBVIOUS
  <1> DEFINE overview == Head(v.inbox)
             tab == Reporting!Clamped(v.tab, overview)
  <1>2. v.inbox # <<>> /\ UNCHANGED <<enabled, usable, time, observations, inFlight, asked, answered>>
        /\ viewers' = [viewers EXCEPT ![c] =
             [v EXCEPT !.inbox = Tail(v.inbox), !.shown = overview, !.missed = FALSE, !.tab = tab]]
    BY <1>1 DEF Reporting!Receive, Reporting!cache, Reporting!channels
  <1>3. v \in Interfaces /\ ViewerInv(v)
    BY <1>1 DEF UsageInv, ViewersInv
  <1>4. /\ overview \in Overviews /\ Tail(v.inbox) \in Seq(Overviews)
        /\ Len(Tail(v.inbox)) <= MaxInbox
        /\ Tail(v.inbox) = <<>> => overview = v.inbox[Len(v.inbox)]
        /\ Tail(v.inbox) # <<>> => Tail(v.inbox)[Len(Tail(v.inbox))] = v.inbox[Len(v.inbox)]
    <2>1. v.inbox \in Seq(Overviews) /\ Len(v.inbox) <= MaxInbox
      BY <1>3, InterfaceParts DEF ViewerInv
    <2>2. MaxInbox \in Nat
      BY DEF Reporting!UsageAssumption
    <2>3. PICK s \in Seq(Overviews) : s = v.inbox /\ s # <<>> /\ Len(s) <= MaxInbox
      BY <1>2, <2>1
    <2>4. /\ Head(s) \in Overviews /\ Tail(s) \in Seq(Overviews) /\ Len(Tail(s)) = Len(s) - 1
          /\ Len(s) \in Nat \ {0}
          /\ Tail(s) = <<>> => Head(s) = s[Len(s)]
          /\ Tail(s) # <<>> => Tail(s)[Len(Tail(s))] = s[Len(s)]
      BY <2>3, InboxTail
    <2>5. Len(Tail(s)) <= MaxInbox
      BY <2>2, <2>3, <2>4
    <2> QED
      BY <2>3, <2>4, <2>5
  <1>5. tab \in Reporting!Providers \cup {None} /\ (tab \in DOMAIN overview \/ DOMAIN overview = {})
    <2>1. v.tab \in Reporting!Providers \cup {None}
      BY <1>3, InterfaceParts
    <2>2. PICK p \in Overviews : p = overview
      BY <1>4
    <2>3. PICK tabs : tabs = Reporting!Tabs(p)
      OBVIOUS
    <2>4. tabs \in Seq(DOMAIN p) /\ (tabs = <<>> => DOMAIN p = {}) /\ DOMAIN p \in SUBSET Reporting!Providers
      BY <2>3, TabsFit
    <2>5. tabs # <<>> => tabs[1] \in DOMAIN p
      BY <2>4, EmptySeq, LenProperties, ElementOfSeq
    <2>6. tab = IF v.tab \in DOMAIN p THEN v.tab ELSE IF tabs = <<>> THEN None ELSE tabs[1]
      BY <2>2, <2>3 DEF Reporting!Clamped
    <2> QED
      BY <2>1, <2>2, <2>4, <2>5, <2>6
  <1>6. PICK w : w = [v EXCEPT !.inbox = Tail(v.inbox), !.shown = overview, !.missed = FALSE, !.tab = tab]
    OBVIOUS
  <1>7. /\ w.inbox = Tail(v.inbox) /\ w.shown = overview /\ w.missed = FALSE /\ w.tab = tab
        /\ w.attached = v.attached
        /\ w = [attached |-> v.attached, inbox |-> Tail(v.inbox), shown |-> overview, tab |-> tab, missed |-> FALSE]
    <2> HIDE DEF overview, tab
    <2> QED
      BY <1>3, <1>6 DEF Interfaces
  <1> HIDE DEF overview, tab
  <1>8. w \in Interfaces
    BY <1>3, <1>4, <1>5, <1>7, InterfaceParts DEF Interfaces
  <1>9. v.attached => Fresh(v.inbox[Len(v.inbox)])'
    <2>1. v.attached => Fresh(v.inbox[Len(v.inbox)])
      BY <1>2, <1>3 DEF ViewerInv, Told
    <2> QED
      BY <1>2, <2>1, FreshStays
  <1>10. w.attached => Told(w)'
    BY <1>4, <1>7, <1>9 DEF Told
  <1>11. ViewerInv(w)'
    BY <1>4, <1>5, <1>7, <1>8, <1>10 DEF ViewerInv
  <1>12. viewers' = [viewers EXCEPT ![c] = w]
    BY <1>2, <1>6
  <1> QED
    BY <1>2, <1>11, <1>12, ViewerActs

LEMMA WaitingStep ==
  ASSUME Reporting!UsageAssumption, UsageInv, NEW c \in Viewers, Reporting!ReceiveWhileWaiting(c)
  PROVE  UsageInv'
PROOF
  <1>1. PICK v : v = viewers[c]
    OBVIOUS
  <1>2. v.inbox # <<>> /\ UNCHANGED <<enabled, usable, time, observations, inFlight, asked, answered>>
        /\ viewers' = [viewers EXCEPT ![c] = [v EXCEPT !.inbox = Tail(v.inbox), !.missed = TRUE]]
    BY <1>1 DEF Reporting!ReceiveWhileWaiting, Reporting!cache, Reporting!channels
  <1>3. v \in Interfaces /\ ViewerInv(v)
    BY <1>1 DEF UsageInv, ViewersInv
  <1>4. /\ Tail(v.inbox) \in Seq(Overviews) /\ Len(Tail(v.inbox)) <= MaxInbox
        /\ Tail(v.inbox) # <<>> => Tail(v.inbox)[Len(Tail(v.inbox))] = v.inbox[Len(v.inbox)]
    <2>1. v.inbox \in Seq(Overviews) /\ Len(v.inbox) <= MaxInbox
      BY <1>3, InterfaceParts DEF ViewerInv
    <2>2. MaxInbox \in Nat
      BY DEF Reporting!UsageAssumption
    <2>3. PICK s \in Seq(Overviews) : s = v.inbox /\ s # <<>> /\ Len(s) <= MaxInbox
      BY <1>2, <2>1
    <2>4. /\ Head(s) \in Overviews /\ Tail(s) \in Seq(Overviews) /\ Len(Tail(s)) = Len(s) - 1
          /\ Len(s) \in Nat \ {0}
          /\ Tail(s) = <<>> => Head(s) = s[Len(s)]
          /\ Tail(s) # <<>> => Tail(s)[Len(Tail(s))] = s[Len(s)]
      BY <2>3, InboxTail
    <2>5. Len(Tail(s)) <= MaxInbox
      BY <2>2, <2>3, <2>4
    <2> QED
      BY <2>3, <2>4, <2>5
  <1>5. PICK w : w = [v EXCEPT !.inbox = Tail(v.inbox), !.missed = TRUE]
    OBVIOUS
  <1>6. /\ w.inbox = Tail(v.inbox) /\ w.shown = v.shown /\ w.missed = TRUE /\ w.tab = v.tab
        /\ w.attached = v.attached
        /\ w = [attached |-> v.attached, inbox |-> Tail(v.inbox), shown |-> v.shown, tab |-> v.tab, missed |-> TRUE]
    BY <1>3, <1>5 DEF Interfaces
  <1>7. w \in Interfaces
    BY <1>3, <1>4, <1>6, InterfaceParts DEF Interfaces
  <1>8. v.attached => Fresh(v.inbox[Len(v.inbox)])'
    <2>1. v.attached => Fresh(v.inbox[Len(v.inbox)])
      BY <1>2, <1>3 DEF ViewerInv, Told
    <2> QED
      BY <1>2, <2>1, FreshStays
  <1>9. w.attached => Told(w)'
    BY <1>4, <1>6, <1>8 DEF Told
  <1>10. ViewerInv(w)'
    BY <1>3, <1>4, <1>6, <1>7, <1>9 DEF ViewerInv
  <1>11. viewers' = [viewers EXCEPT ![c] = w]
    BY <1>2, <1>5
  <1> QED
    BY <1>2, <1>10, <1>11, ViewerActs

LEMMA MoveTabStep ==
  ASSUME Reporting!UsageAssumption, UsageInv, NEW c \in Viewers, NEW delta \in {1, -1},
         Reporting!MoveTab(c, delta)
  PROVE  UsageInv'
PROOF
  <1>1. PICK v : v = viewers[c]
    OBVIOUS
  <1>2. PICK tabs : tabs = Reporting!Tabs(v.shown)
    OBVIOUS
  <1> DEFINE places == {j \in DOMAIN tabs : tabs[j] = v.tab} \cup {1}
             Fits(i) == v.tab \in Reporting!In(tabs) => tabs[i] = v.tab
             at == CHOOSE i \in places : Fits(i)
             tab == IF tabs = <<>> THEN None ELSE tabs[1 + ((at - 1 + delta) % Len(tabs))]
  <1>3. UNCHANGED <<enabled, usable, time, observations, inFlight, asked, answered>>
        /\ viewers' = [viewers EXCEPT ![c].tab = tab]
    BY <1>1, <1>2 DEF Reporting!MoveTab, Reporting!cache, Reporting!channels
  <1>4. v \in Interfaces /\ ViewerInv(v)
    BY <1>1 DEF UsageInv, ViewersInv
  <1>5. v.shown \in Overviews
    BY <1>4, InterfaceParts
  <1>6. tabs \in Seq(DOMAIN v.shown) /\ (tabs = <<>> => DOMAIN v.shown = {})
        /\ DOMAIN v.shown \in SUBSET Reporting!Providers
    BY <1>2, <1>5, TabsFit
  <1>7. Len(tabs) \in Nat /\ DOMAIN tabs = 1..Len(tabs) /\ \A i \in DOMAIN tabs : tabs[i] \in DOMAIN v.shown
    BY <1>6, LenProperties, ElementOfSeq
  <1>8. at \in Nat
    <2>1. \E i \in places : Fits(i)
      BY <1>7 DEF Reporting!In
    <2>2. at \in places
      <3> HIDE DEF places, Fits
      <3> QED
        BY <2>1
    <2> HIDE DEF at
    <2> QED
      BY <1>7, <2>2
  <1> HIDE DEF at, places, Fits
  <1>9. tab \in Reporting!Providers \cup {None} /\ (tab \in DOMAIN v.shown \/ DOMAIN v.shown = {})
    <2>1. CASE tabs = <<>>
      BY <1>6, <2>1
    <2>2. CASE tabs # <<>>
      <3>1. Len(tabs) # 0
        BY <1>6, <2>2, EmptySeq
      <3>2. 1 + ((at - 1 + delta) % Len(tabs)) \in 1..Len(tabs)
        BY <1>7, <1>8, <3>1
      <3>3. tab \in DOMAIN v.shown
        BY <1>7, <2>2, <3>2
      <3> HIDE DEF tab
      <3> QED
        BY <1>6, <3>3
    <2> QED
      BY <2>1, <2>2
  <1> HIDE DEF tab
  <1>10. PICK w : w = [v EXCEPT !.tab = tab]
    OBVIOUS
  <1>11. /\ w.inbox = v.inbox /\ w.shown = v.shown /\ w.missed = v.missed /\ w.tab = tab
         /\ w.attached = v.attached
         /\ w = [attached |-> v.attached, inbox |-> v.inbox, shown |-> v.shown, tab |-> tab, missed |-> v.missed]
    BY <1>4, <1>10 DEF Interfaces
  <1>12. w \in Interfaces
    BY <1>4, <1>9, <1>11, InterfaceParts DEF Interfaces
  <1>13. w.attached => Told(w)'
    <2>1. inFlight \subseteq inFlight'
      BY <1>3
    <2>2. ViewerInv(v)'
      BY <1>3, <1>4, <2>1, ViewerStays
    <2> QED
      BY <1>11, <2>2 DEF ViewerInv, Told, Fresh
  <1>14. ViewerInv(w)'
    BY <1>4, <1>9, <1>11, <1>12, <1>13 DEF ViewerInv
  <1>15. viewers' = [viewers EXCEPT ![c] = w]
    BY <1>1, <1>3, <1>10
  <1> QED
    BY <1>3, <1>14, <1>15, ViewerActs

-----------------------------------------------------------------------------
\* What answers are reported as

\* A report keeps to what an answer names.
KeepsTo(report, named) ==
  /\ report \in Reporting!Reports
  /\ report.windows \subseteq named
  /\ report.state = "Unsupported" => named = {}

LEMMA OtherReports ==
  ASSUME NEW named, NEW reason \in {"NotSignedIn", "Expired", "ProbeFailed"}
  PROVE  KeepsTo(Reporting!Without(reason), named)
PROOF
  BY DEF KeepsTo, Reporting!Reports, Reporting!Without

LEMMA AvailableReports ==
  ASSUME NEW windows \in SUBSET (Percents \cup {0}), NEW named, windows \subseteq named,
         windows = {} => named = {}
  PROVE  KeepsTo(Reporting!Available(windows), named)
PROOF
  BY DEF KeepsTo, Reporting!Reports, Reporting!Without, Reporting!Available

\* Claude and Grok answer one request.
LEMMA FetchedReports ==
  ASSUME NEW credentials, NEW outcome \in Reporting!Failures \cup {"unauthorized", "ok"},
         NEW windows \in SUBSET (Percents \cup {0}), NEW named,
         outcome = "ok" => windows \subseteq named /\ (windows = {} => named = {})
  PROVE  KeepsTo(Reporting!Fetched(credentials, outcome, windows), named)
PROOF
  <1>1. Reporting!Refusal(credentials) \in
          {Reporting!Without(reason) : reason \in {"NotSignedIn", "Expired", "ProbeFailed"}}
    BY DEF Reporting!Refusal
  <1>2. Reporting!Without("NotSignedIn") \in
          {Reporting!Without(reason) : reason \in {"NotSignedIn", "Expired", "ProbeFailed"}}
    OBVIOUS
  <1>3. Reporting!Without("ProbeFailed") \in
          {Reporting!Without(reason) : reason \in {"NotSignedIn", "Expired", "ProbeFailed"}}
    OBVIOUS
  <1>4. \/ Reporting!Fetched(credentials, outcome, windows) \in
             {Reporting!Without(reason) : reason \in {"NotSignedIn", "Expired", "ProbeFailed"}}
        \/ outcome = "ok" /\ Reporting!Fetched(credentials, outcome, windows) = Reporting!Available(windows)
    BY <1>1, <1>2, <1>3 DEF Reporting!Fetched
  <1>5. CASE outcome = "ok" /\ Reporting!Fetched(credentials, outcome, windows) = Reporting!Available(windows)
    BY <1>5, AvailableReports
  <1> QED
    BY <1>4, <1>5, OtherReports

LEMMA ClaudeReports ==
  ASSUME NEW a \in Reporting!ClaudeAnswers
  PROVE  KeepsTo(Reporting!Fetched(a.credentials, a.outcome, a.windows), Reporting!NamedByClaude(a))
PROOF
  <1>1. /\ a.outcome \in Reporting!Failures \cup {"unauthorized", "ok"}
        /\ a.windows \in SUBSET (Percents \cup {0})
    BY DEF Reporting!ClaudeAnswers
  <1>2. a.outcome = "ok" => Reporting!NamedByClaude(a) = a.windows
    BY DEF Reporting!NamedByClaude
  <1> QED
    BY <1>1, <1>2, FetchedReports

LEMMA GrokReports ==
  ASSUME NEW a \in Reporting!GrokAnswers
  PROVE  KeepsTo(Reporting!GrokReport(a), Reporting!NamedByGrok(a))
PROOF
  <1> DEFINE windows == Reporting!GrokWindows(a.config)
             named == Reporting!NamedByGrok(a)
  <1>1. a.outcome \in Reporting!Failures \cup {"unauthorized", "ok"}
    BY DEF Reporting!GrokAnswers
  <1>2. /\ a.config.percent \in Reporting!Optional /\ a.config.ratio \in Reporting!Optional
        /\ a.config.described \in BOOLEAN /\ a.config.products \in SUBSET Reporting!Optional
    <2> DEFINE configs == [percent: Reporting!Optional, ratio: Reporting!Optional, described: BOOLEAN,
                           products: SUBSET Reporting!Optional]
    <2>1. Reporting!Empty \in configs
      BY DEF Reporting!Empty, Reporting!Optional
    <2> HIDE DEF configs
    <2>2. a.config \in configs
      BY <2>1 DEF Reporting!GrokAnswers, configs
    <2> QED
      BY <2>2 DEF configs
  <1>3. Reporting!PeriodPercent(a.config) =
          IF a.config.percent # None THEN {a.config.percent}
          ELSE IF a.config.ratio # None THEN {a.config.ratio}
          ELSE IF a.config.described THEN {0} ELSE {}
    BY DEF Reporting!PeriodPercent
  <1>4. windows = Reporting!PeriodPercent(a.config)
                    \cup {IF product = None THEN 0 ELSE product : product \in a.config.products}
    BY DEF Reporting!GrokWindows
  <1>5. windows \in SUBSET (Percents \cup {0})
    BY <1>2, <1>3, <1>4 DEF Reporting!Optional
  <1>6. ASSUME a.outcome = "ok" PROVE windows \subseteq named /\ (windows = {} => named = {})
    <2>1. a.store \in {<<"valid", "absent">>, <<"web login", "expired">>}
      BY <1>6 DEF Reporting!GrokAnswers, Reporting!Failures
    <2>2. {"valid", "expired"} \cap Reporting!In(a.store) # {}
      <3>1. DOMAIN <<"valid", "absent">> = 1..2 /\ <<"valid", "absent">>[1] = "valid"
        OBVIOUS
      <3>2. DOMAIN <<"web login", "expired">> = 1..2 /\ <<"web login", "expired">>[2] = "expired"
        OBVIOUS
      <3>3. 1 \in 1..2 /\ 2 \in 1..2
        OBVIOUS
      <3>4. CASE a.store = <<"valid", "absent">>
        BY <3>1, <3>3, <3>4 DEF Reporting!In
      <3>5. CASE a.store = <<"web login", "expired">>
        BY <3>2, <3>3, <3>5 DEF Reporting!In
      <3> QED
        BY <2>1, <3>4, <3>5
    <2>3. named = (({a.config.percent, a.config.ratio} \cup a.config.products) \ {None})
                    \cup (IF a.config.described \/ None \in a.config.products THEN {0} ELSE {})
      BY <1>6, <2>2 DEF Reporting!NamedByGrok
    <2>4. windows \subseteq named
      BY <1>2, <1>3, <1>4, <2>3
    <2>5. ASSUME windows = {} PROVE named = {}
      <3>1. a.config.products = {} /\ Reporting!PeriodPercent(a.config) = {}
        BY <1>4, <2>5
      <3> QED
        BY <1>3, <2>3, <3>1
    <2> QED
      BY <2>4, <2>5
  <1> HIDE DEF windows, named
  <1> QED
    BY <1>1, <1>5, <1>6, FetchedReports DEF Reporting!GrokReport, windows, named

\* The lines of Codex: an exchange holds what the lines so far answered.
LEMMA LinesOfAnswers ==
  ASSUME NEW lines \in Reporting!CodexAnswers
  PROVE  /\ Len(lines) \in Nat /\ DOMAIN lines = 1..Len(lines)
         /\ \A i \in DOMAIN lines : lines[i] \in Reporting!Lines \cup {Reporting!Initialized}
         /\ \A i, j \in DOMAIN lines : i < j /\ lines[i].id = lines[j].id => lines[i].is = "notice"
PROOF
  <1>1. CASE lines = <<>>
    <2>1. Len(lines) = 0 /\ DOMAIN lines = 1..0
      BY <1>1
    <2> QED
      BY <2>1
  <1>2. CASE lines # <<>>
    <2>1. PICK rest \in UNION {[1 .. n -> Reporting!Lines] : n \in 0 .. 3} :
            /\ lines = <<Reporting!Initialized>> \o rest
            /\ \A i, j \in DOMAIN rest : i < j /\ rest[i].id = rest[j].id => rest[i].is = "notice"
      BY <1>2 DEF Reporting!CodexAnswers
    <2> DEFINE All == Reporting!Lines \cup {Reporting!Initialized}
    <2>a. Reporting!Initialized \in All /\ Reporting!Lines \subseteq All
      OBVIOUS
    <2>b. PICK m \in Nat : rest \in [1..m -> Reporting!Lines]
      <3>1. \A S : \A s \in UNION {[1 .. n -> S] : n \in 0 .. 3} : \E m \in 0 .. 3 : s \in [1 .. m -> S]
        OBVIOUS
      <3>2. PICK m \in 0..3 : rest \in [1..m -> Reporting!Lines]
        BY <3>1, Zenon
      <3>3. m \in Nat
        OBVIOUS
      <3> QED
        BY <3>2, <3>3, Zenon
    <2> HIDE DEF All
    <2>2. rest \in Seq(All)
      <3>1. rest \in [1..m -> All]
        BY <2>a, <2>b
      <3> QED
        BY <3>1, SeqDef
    <2>3. Len(rest) \in Nat /\ DOMAIN rest = 1..Len(rest) /\ \A i \in DOMAIN rest : rest[i] \in Reporting!Lines
      BY <2>2, <2>b, LenProperties
    <2>4. PICK first \in Seq(All) : first = <<Reporting!Initialized>>
      <3>1. PICK e \in All : e = Reporting!Initialized
        BY <2>a
      <3>2. <<e>> \in Seq(All)
        OBVIOUS
      <3> QED
        BY <3>1, <3>2
    <2>5. Len(first) = 1 /\ first[1] = Reporting!Initialized
      BY <2>4
    <2>6. lines \in Seq(All) /\ Len(lines) = 1 + Len(rest)
          /\ \A i \in 1..(1 + Len(rest)) :
               lines[i] = IF i <= 1 THEN first[i] ELSE rest[i - 1]
      BY <2>1, <2>2, <2>4, <2>5, ConcatProperties
    <2>7. DOMAIN lines = 1..(1 + Len(rest))
      BY <2>6, LenProperties
    <2>8. \A i \in DOMAIN lines : \/ i = 1 /\ lines[i] = Reporting!Initialized
                                  \/ i - 1 \in DOMAIN rest /\ lines[i] = rest[i - 1]
      BY <2>3, <2>5, <2>6, <2>7
    <2>9. \A line \in Reporting!Lines : line.id # Reporting!Initialized.id
      BY DEF Reporting!Lines, Reporting!Line, Reporting!Initialized
    <2>10. ASSUME NEW i \in DOMAIN lines, NEW j \in DOMAIN lines, i < j, lines[i].id = lines[j].id
           PROVE  lines[i].is = "notice"
      <3>1. i \in Int /\ j \in Int /\ 1 <= i /\ j # 1
        BY <2>3, <2>7, <2>10
      <3>2. j - 1 \in DOMAIN rest /\ lines[j] = rest[j - 1] /\ rest[j - 1] \in Reporting!Lines
        BY <2>3, <2>8, <3>1
      <3>3. i - 1 \in DOMAIN rest /\ lines[i] = rest[i - 1]
        BY <2>8, <2>9, <2>10, <3>2
      <3>4. i - 1 < j - 1
        BY <2>10, <3>1
      <3> QED
        BY <2>1, <2>10, <3>2, <3>3, <3>4
    <2>11. \A i \in DOMAIN lines : lines[i] \in Reporting!Lines \cup {Reporting!Initialized}
      BY <2>3, <2>8
    <2> QED
      BY <2>3, <2>6, <2>7, <2>10, <2>11
  <1> QED
    BY <1>1, <1>2

\* run[m] is the exchange after the first m lines.
Runs(lines, n, run) == run = [m \in 0..n |->
  IF m = 0 THEN Reporting!Exchange ELSE Reporting!Absorb(run[m - 1], lines[m])]

LEMMA RunsExist ==
  ASSUME NEW lines, NEW last \in Nat PROVE \E run : Runs(lines, last, run)
PROOF
  <1> DEFINE T == {n \in Nat : ~\E run : Runs(lines, n, run)}
  <1>1. SUFFICES ASSUME T # {} PROVE FALSE
    OBVIOUS
  <1>2. PICK n \in T : \A m \in T : n <= m
    BY <1>1, LeastNatural
  <1>3. CASE n = 0
    <2> DEFINE run == [m \in 0..0 |-> Reporting!Exchange]
    <2>1. Runs(lines, 0, run)
      BY DEF Runs
    <2> QED
      BY <1>2, <1>3, <2>1
  <1>4. CASE n # 0
    <2>1. n - 1 \in Nat /\ n - 1 \notin T
      BY <1>2, <1>4
    <2>2. PICK run : Runs(lines, n - 1, run)
      BY <2>1
    <2> DEFINE more == [m \in 0..n |-> IF m = n THEN Reporting!Absorb(run[n - 1], lines[n]) ELSE run[m]]
    <2>3. \A m \in 0..(n - 1) : run[m] = IF m = 0 THEN Reporting!Exchange ELSE Reporting!Absorb(run[m - 1], lines[m])
      BY <2>2, Zenon DEF Runs
    <2>4. \A m \in 0..(n - 1) : more[m] = run[m] /\ m \in 0..n
      BY <2>1
    <2>5. ASSUME NEW m \in 0..n
          PROVE  more[m] = IF m = 0 THEN Reporting!Exchange ELSE Reporting!Absorb(more[m - 1], lines[m])
      <3>1. CASE m = n
        <4>1. n - 1 \in 0..(n - 1)
          BY <2>1
        <4>2. more[n - 1] = run[n - 1]
          BY <2>4, <4>1
        <4>3. more[n] = Reporting!Absorb(run[n - 1], lines[n])
          BY <1>2
        <4> HIDE DEF more
        <4> QED
          BY <1>4, <3>1, <4>2, <4>3
      <3>2. CASE m # n
        <4>1. m \in 0..(n - 1)
          BY <1>2, <3>2
        <4>2. m # 0 => m - 1 \in 0..(n - 1)
          BY <2>1, <4>1
        <4> HIDE DEF more
        <4> QED
          BY <2>3, <2>4, <4>1, <4>2
      <3> QED
        BY <3>1, <3>2
    <2>6. DOMAIN more = 0..n /\ more = [m \in 0..n |-> more[m]]
      OBVIOUS
    <2> HIDE DEF more
    <2>7. Runs(lines, n, more)
      BY <2>5, <2>6 DEF Runs
    <2> QED
      BY <1>2, <2>7
  <1> QED
    BY <1>3, <1>4

LEMMA DrivenRuns ==
  ASSUME NEW lines, Len(lines) \in Nat
  PROVE  \E run : Runs(lines, Len(lines), run) /\ Reporting!Driven(lines) = run[Len(lines)]
PROOF
  <1> DEFINE run == CHOOSE r : Runs(lines, Len(lines), r)
  <1>1. Runs(lines, Len(lines), run)
    BY RunsExist
  <1>2. run = CHOOSE r : r = [m \in 0..Len(lines) |->
          IF m = 0 THEN Reporting!Exchange ELSE Reporting!Absorb(r[m - 1], lines[m])]
    BY DEF Runs
  <1>3. Reporting!Driven(lines) = run[Len(lines)]
    BY <1>2 DEF Reporting!Driven
  <1> QED
    BY <1>1, <1>3

\* What an exchange holds was answered by lines.
Holds(lines, n, e) ==
  /\ e.error \in BOOLEAN
  /\ e.account = <<>> \/ \E i \in 1..n :
       lines[i].id = "account" /\ lines[i].is = "result" /\ e.account = <<lines[i].value>>
  /\ e.limits = <<>> \/ \E i \in 1..n :
       lines[i].id = "limits" /\ lines[i].is = "result" /\ e.limits = <<lines[i].value>>
Exchanges == [error: BOOLEAN, account: {<<>>} \cup {<<v>> : v \in {None, {}}},
              limits: {<<>>} \cup {<<v>> : v \in {None} \cup SUBSET Percents}]

LEMMA AbsorbedHolds ==
  ASSUME NEW lines, NEW n \in Nat \ {0}, NEW e \in Exchanges, Holds(lines, n - 1, e),
         lines[n] \in Reporting!Lines \cup {Reporting!Initialized}
  PROVE  Reporting!Absorb(e, lines[n]) \in Exchanges /\ Holds(lines, n, Reporting!Absorb(e, lines[n]))
PROOF
  <1>1. PICK line : line = lines[n]
    OBVIOUS
  <1>2. /\ line.id = "account" /\ line.is = "result" => line.value \in {None, {}}
        /\ line.id = "limits" /\ line.is = "result" => line.value \in {None} \cup SUBSET Percents
    BY <1>1 DEF Reporting!Lines, Reporting!Line, Reporting!Initialized
  <1>3. \A i \in 1..(n - 1) : i \in 1..n
    OBVIOUS
  <1>4. n \in 1..n
    OBVIOUS
  <1>5. Holds(lines, n, e)
    BY <1>3 DEF Holds
  <1>6. PICK r : r = Reporting!Absorb(e, line)
    OBVIOUS
  <1>7. \/ r = e
        \/ r = [e EXCEPT !.error = TRUE]
        \/ /\ line.id = "account" /\ line.is = "result"
           /\ r = [e EXCEPT !.account = <<line.value>>]
        \/ /\ line.id = "limits" /\ line.is = "result"
           /\ r = [e EXCEPT !.limits = <<line.value>>]
    BY <1>6 DEF Reporting!Absorb
  <1>8. CASE r = e
    BY <1>1, <1>5, <1>6, <1>8
  <1>9. CASE r = [e EXCEPT !.error = TRUE]
    <2>1. r \in Exchanges /\ r.error = TRUE /\ r.account = e.account /\ r.limits = e.limits
      BY <1>9 DEF Exchanges
    <2> QED
      BY <1>1, <1>5, <1>6, <2>1 DEF Holds
  <1>10. CASE line.id = "account" /\ line.is = "result" /\ r = [e EXCEPT !.account = <<line.value>>]
    <2>1. PICK v \in {<<w>> : w \in {None, {}}} : v = <<line.value>>
      BY <1>2, <1>10
    <2>2. r = [e EXCEPT !.account = v]
      BY <1>10, <2>1
    <2>3. r \in Exchanges /\ r.error = e.error /\ r.account = v /\ r.limits = e.limits
      BY <2>2 DEF Exchanges
    <2> QED
      BY <1>1, <1>4, <1>5, <1>6, <1>10, <2>1, <2>3 DEF Holds
  <1>11. CASE line.id = "limits" /\ line.is = "result" /\ r = [e EXCEPT !.limits = <<line.value>>]
    <2>1. PICK v \in {<<w>> : w \in {None} \cup SUBSET Percents} : v = <<line.value>>
      BY <1>2, <1>11
    <2>2. r = [e EXCEPT !.limits = v]
      BY <1>11, <2>1
    <2>3. r \in Exchanges /\ r.error = e.error /\ r.account = e.account /\ r.limits = v
      BY <2>2 DEF Exchanges
    <2> QED
      BY <1>1, <1>4, <1>5, <1>6, <1>11, <2>1, <2>3 DEF Holds
  <1> QED
    BY <1>7, <1>8, <1>9, <1>10, <1>11

LEMMA DrivenHolds ==
  ASSUME NEW lines \in Reporting!CodexAnswers
  PROVE  Reporting!Driven(lines) \in Exchanges /\ Holds(lines, Len(lines), Reporting!Driven(lines))
PROOF
  <1>1. /\ Len(lines) \in Nat /\ DOMAIN lines = 1..Len(lines)
        /\ \A i \in DOMAIN lines : lines[i] \in Reporting!Lines \cup {Reporting!Initialized}
    BY LinesOfAnswers
  <1>2. PICK run : Runs(lines, Len(lines), run) /\ Reporting!Driven(lines) = run[Len(lines)]
    BY <1>1, DrivenRuns
  <1>3. \A m \in 0..Len(lines) :
          run[m] = IF m = 0 THEN Reporting!Exchange ELSE Reporting!Absorb(run[m - 1], lines[m])
    BY <1>2, Zenon DEF Runs
  <1> DEFINE Good(n) == run[n] \in Exchanges /\ Holds(lines, n, run[n])
             T == {n \in 0..Len(lines) : ~Good(n)}
  <1>4. T = {}
    <2> SUFFICES ASSUME T # {} PROVE FALSE
      OBVIOUS
    <2>1. PICK n \in T : \A m \in T : n <= m
      <3>1. T \in SUBSET Nat
        OBVIOUS
      <3> HIDE DEF T
      <3> QED
        BY <3>1, LeastNatural
    <2>2. n \in 0..Len(lines) /\ ~Good(n)
      BY <2>1
    <2>3. CASE n = 0
      <3>1. run[0] = Reporting!Exchange
        BY <1>1, <1>3
      <3>2. Reporting!Exchange \in Exchanges /\ Holds(lines, 0, Reporting!Exchange)
        BY DEF Reporting!Exchange, Exchanges, Holds
      <3> QED
        BY <2>2, <2>3, <3>1, <3>2
    <2>4. CASE n # 0
      <3>1. n \in Nat \ {0} /\ n \in DOMAIN lines /\ n - 1 \in 0..Len(lines) /\ ~(n <= n - 1)
        BY <1>1, <2>2, <2>4
      <3>2. Good(n - 1)
        BY <2>1, <3>1
      <3>3. run[n] = Reporting!Absorb(run[n - 1], lines[n])
        BY <1>3, <2>2, <2>4
      <3> QED
        BY <1>1, <2>2, <3>1, <3>2, <3>3, AbsorbedHolds
    <2> QED
      BY <2>3, <2>4
  <1>5. Good(Len(lines))
    BY <1>1, <1>4
  <1> QED
    BY <1>2, <1>5

LEMMA CodexReports ==
  ASSUME NEW lines \in Reporting!CodexAnswers
  PROVE  KeepsTo(Reporting!CodexReport(Reporting!Driven(lines)), Reporting!NamedByCodex(lines))
PROOF
  <1> DEFINE named == Reporting!NamedByCodex(lines)
             others == {Reporting!Without(reason) : reason \in {"NotSignedIn", "Expired", "ProbeFailed"}}
  <1>1. /\ Len(lines) \in Nat /\ DOMAIN lines = 1..Len(lines)
        /\ \A i \in DOMAIN lines : lines[i] \in Reporting!Lines \cup {Reporting!Initialized}
        /\ \A i, j \in DOMAIN lines : i < j /\ lines[i].id = lines[j].id => lines[i].is = "notice"
    BY LinesOfAnswers
  <1>2. PICK e \in Exchanges : e = Reporting!Driven(lines) /\ Holds(lines, Len(lines), e)
    BY DrivenHolds
  <1>3. \/ Reporting!CodexReport(e) \in others
        \/ /\ e.account # <<>> /\ e.limits # <<>> /\ e.account # <<None>>
           /\ Reporting!CodexReport(e) =
                IF e.limits = <<None>> THEN Reporting!Without("Unsupported") ELSE Reporting!Available(e.limits[1])
    BY DEF Reporting!CodexReport, Reporting!Complete
  <1>4. CASE /\ e.account # <<>> /\ e.limits # <<>> /\ e.account # <<None>>
             /\ Reporting!CodexReport(e) =
                  IF e.limits = <<None>> THEN Reporting!Without("Unsupported") ELSE Reporting!Available(e.limits[1])
    <2>1. PICK i \in DOMAIN lines : lines[i].id = "account" /\ lines[i].value # None
      BY <1>1, <1>2, <1>4 DEF Holds
    <2>2. PICK j \in DOMAIN lines :
            lines[j].id = "limits" /\ lines[j].is = "result" /\ e.limits = <<lines[j].value>>
      BY <1>1, <1>2, <1>4 DEF Holds
    <2>3. lines[j].value \in {None} \cup SUBSET Percents
      BY <1>1, <2>2 DEF Reporting!Lines, Reporting!Line, Reporting!Initialized
    <2>4. named = UNION {l.value : l \in {m \in Reporting!In(lines) : m.id = "limits" /\ m.value # None}}
      BY <2>1 DEF Reporting!NamedByCodex, Reporting!In
    <2>5. ASSUME NEW m \in Reporting!In(lines), m.id = "limits", m.value # None
          PROVE  m.value = lines[j].value
      <3>1. PICK p \in DOMAIN lines : m = lines[p]
        BY DEF Reporting!In
      <3>2. m.is # "notice"
        BY <1>1, <2>5, <3>1 DEF Reporting!Lines, Reporting!Line, Reporting!Initialized
      <3>3. ~(p < j) /\ ~(j < p)
        BY <1>1, <2>2, <2>5, <3>1, <3>2
      <3>4. p = j
        BY <1>1, <3>3
      <3> QED
        BY <3>1, <3>4
    <2>6. lines[j] \in Reporting!In(lines)
      BY DEF Reporting!In
    <2>7. CASE lines[j].value = None
      <3>1. named = {}
        BY <2>4, <2>5, <2>7
      <3>2. Reporting!CodexReport(e) = Reporting!Without("Unsupported")
        BY <1>4, <2>2, <2>7
      <3>3. Reporting!Without("Unsupported") = Reporting!Available({})
        BY DEF Reporting!Available
      <3> QED
        BY <1>2, <3>1, <3>2, <3>3, AvailableReports
    <2>8. CASE lines[j].value # None
      <3>1. e.limits # <<None>> /\ e.limits[1] = lines[j].value
        BY <2>2, <2>8
      <3>2. named = lines[j].value
        BY <2>2, <2>4, <2>5, <2>6, <2>8
      <3>3. lines[j].value \in SUBSET (Percents \cup {0})
        BY <2>3, <2>8
      <3>4. Reporting!CodexReport(e) = Reporting!Available(lines[j].value)
        BY <1>4, <3>1
      <3> QED
        BY <1>2, <3>2, <3>3, <3>4, AvailableReports
    <2> QED
      BY <2>7, <2>8
  <1>5. CASE Reporting!CodexReport(e) \in others
    BY <1>2, <1>5, OtherReports
  <1> QED
    BY <1>3, <1>4, <1>5

LEMMA AnswersAreKept ==
  ASSUME Reporting!UsageAssumption, NEW k \in Reporting!Providers, NEW answer \in Reporting!Answers(k)
  PROVE  KeepsTo(answer.report, answer.named)
PROOF
  <1>1. k \in {"claude", "codex", "grok"}
    BY DEF Reporting!UsageAssumption, Reporting!Providers
  <1>2. CASE k = "claude"
    <2>1. Reporting!Answers(k) =
            {Reporting!Answer(Reporting!Fetched(a.credentials, a.outcome, a.windows), Reporting!NamedByClaude(a)) :
               a \in Reporting!ClaudeAnswers}
      BY <1>2 DEF Reporting!Answers
    <2> QED
      BY <2>1, ClaudeReports DEF Reporting!Answer
  <1>3. CASE k = "grok"
    <2>1. Reporting!Answers(k) =
            {Reporting!Answer(Reporting!GrokReport(a), Reporting!NamedByGrok(a)) : a \in Reporting!GrokAnswers}
      BY <1>3 DEF Reporting!Answers
    <2> QED
      BY <2>1, GrokReports DEF Reporting!Answer
  <1>4. CASE k = "codex"
    <2>1. Reporting!Answers(k) =
            {Reporting!Answer(Reporting!CodexReport(Reporting!Driven(lines)), Reporting!NamedByCodex(lines)) :
               lines \in Reporting!CodexAnswers}
      BY <1>4 DEF Reporting!Answers
    <2> QED
      BY <2>1, CodexReports DEF Reporting!Answer
  <1> QED
    BY <1>1, <1>2, <1>3, <1>4

-----------------------------------------------------------------------------
\* All steps

LEMMA UsageOutside ==
  ASSUME Reporting!UsageAssumption, UsageInv, Reporting!Tick \/ Reporting!Install \/ UNCHANGED Reporting!vars
  PROVE  UsageInv'
PROOF
  <1>1. UNCHANGED <<enabled, observations, inFlight, asked, answered, viewers>>
    BY DEF Reporting!Tick, Reporting!Install, Reporting!vars, Reporting!cache, Reporting!channels
  <1>2. time' \in Nat /\ time <= time' /\ time' <= MaxTime /\ usable' \in SUBSET Reporting!Providers
    <2>1. time \in Nat /\ time <= MaxTime /\ MaxTime \in Nat /\ usable \in SUBSET Reporting!Providers
          /\ \A some \in Installations : some \in SUBSET Reporting!Providers
      BY DEF UsageInv, ObservedInv, Reporting!UsageAssumption, Reporting!Providers
    <2> QED
      BY <2>1 DEF Reporting!Tick, Reporting!Install, Reporting!vars
  <1>3. ObservedInv'
    <2>1. ASSUME NEW k \in Reporting!Providers, observations[k] # None PROVE observations[k].at \in 0..time'
      <3>1. observations[k].at \in 0..time /\ time \in Nat
        BY <2>1 DEF UsageInv, ObservedInv
      <3> QED
        BY <1>2, <3>1
    <2> QED
      BY <1>1, <1>2, <2>1 DEF UsageInv, ObservedInv
  <1>4. FlightInv' /\ inFlight \subseteq inFlight'
    BY <1>1 DEF UsageInv, FlightInv
  <1>5. ViewersInv'
    BY <1>1, <1>4, ViewersStay DEF UsageInv
  <1> QED
    BY <1>3, <1>4, <1>5 DEF UsageInv

LEMMA UsageStep ==
  ASSUME Reporting!UsageAssumption, UsageInv, [Reporting!Next]_(Reporting!vars) PROVE UsageInv'
PROOF
  <1>1. CASE Reporting!Tick \/ Reporting!Install \/ UNCHANGED Reporting!vars
    BY <1>1, UsageOutside
  <1>2. CASE Reporting!Probe
    BY <1>2, ProbeStep
  <1>3. CASE Reporting!Poll
    BY <1>3, PollStep
  <1>4. ASSUME NEW c \in Viewers,
               \/ Reporting!Attach(c) \/ Reporting!Leave(c) \/ Reporting!ReadUsage(c) \/ Reporting!Receive(c)
               \/ Reporting!ReceiveWhileWaiting(c)
        PROVE  UsageInv'
    BY <1>4, AttachStep, LeaveStep, ReadUsageStep, ReceiveStep, WaitingStep
  <1>5. ASSUME NEW c \in Viewers, NEW delta \in {1, -1}, Reporting!MoveTab(c, delta) PROVE UsageInv'
    BY <1>5, MoveTabStep
  <1> QED
    BY <1>1, <1>2, <1>3, <1>4, <1>5 DEF Reporting!Next

LEMMA UsageBegins ==
  ASSUME Reporting!UsageAssumption, Reporting!Init PROVE UsageInv
PROOF
  <1>1. /\ enabled \in BOOLEAN /\ usable \in SUBSET Reporting!Providers /\ time = 0 /\ MaxTime \in Nat
        /\ observations = [k \in Reporting!Providers |-> None]
        /\ inFlight = (IF enabled THEN usable ELSE {}) /\ asked = Reporting!Ordered(inFlight)
        /\ answered = <<>> /\ viewers = [c \in Viewers |-> Reporting!NoClient]
    BY DEF Reporting!Init, Reporting!UsageAssumption, Reporting!Providers
  <1>2. ObservedInv
    <2>1. observations \in [Reporting!Providers -> {None} \cup Observations]
      BY <1>1
    <2> QED
      BY <1>1, <2>1 DEF ObservedInv
  <1>3. ViewersInv
    <2>1. ViewerInv(Reporting!NoClient)
      BY NoViewer
    <2>2. Reporting!NoClient \in Interfaces
      BY <2>1 DEF ViewerInv
    <2> QED
      BY <1>1, <2>1, <2>2 DEF ViewersInv
  <1>4. FlightInv
    <2>1. inFlight \in SUBSET Reporting!Providers
      BY <1>1
    <2>2. PICK s : s = Reporting!Ordered(inFlight)
      OBVIOUS
    <2>3. /\ s \in Seq(inFlight)
          /\ \A i, j \in DOMAIN s : s[i] = s[j] => i = j
          /\ \A k \in inFlight : \E i \in DOMAIN s : s[i] = k
      BY <2>1, <2>2, OrderedLists
    <2>4. (\A i \in DOMAIN s : s[i] \in inFlight) /\ s \in Seq(Reporting!Providers)
      BY <2>1, <2>3, LenProperties, ElementOfSeq
    <2>5. answered \in Seq(ProbeResults) /\ DOMAIN answered = {}
      <3>1. \A r \in Seq(ProbeResults) : r = <<>> => DOMAIN r = {}
        <4> SUFFICES ASSUME NEW r \in Seq(ProbeResults), r = <<>> PROVE DOMAIN r = {}
          OBVIOUS
        <4>1. Len(r) = 0 /\ DOMAIN r = 1..Len(r)
          BY EmptySeq, LenProperties
        <4> QED
          BY <4>1
      <3> QED
        BY <1>1, <3>1, EmptySeq
    <2> QED
      BY <1>1, <2>1, <2>2, <2>3, <2>4, <2>5 DEF FlightInv
  <1> QED
    BY <1>2, <1>3, <1>4 DEF UsageInv

LEMMA UsageInvShows ==
  ASSUME Reporting!UsageAssumption, UsageInv PROVE UsageIsReal
PROOF
  <1>1. Reporting!TypeOK
    <2>1. \A c \in Viewers : viewers[c].tab \in Reporting!Providers \cup {None} /\ Len(viewers[c].inbox) <= MaxInbox
      BY InterfaceParts DEF UsageInv, ViewersInv, ViewerInv
    <2> QED
      BY <2>1 DEF Reporting!TypeOK, UsageInv, ObservedInv, FlightInv
  <1>2. ASSUME NEW c \in Viewers, Reporting!UpToDate(c)
        PROVE  Fresh(viewers[c].shown) /\ (viewers[c].tab \in DOMAIN viewers[c].shown \/ DOMAIN viewers[c].shown = {})
    BY <1>2 DEF UsageInv, ViewersInv, ViewerInv, Told, Reporting!UpToDate
  <1>3. Reporting!ShownIsTheLastReport
    BY <1>2 DEF Reporting!ShownIsTheLastReport, Fresh
  <1>4. Reporting!RefreshingIsReal
    <2>1. ASSUME NEW k \in Reporting!Providers
          PROVE  LET open == {i \in DOMAIN asked : asked[i] = k}
                     done == {i \in DOMAIN answered : answered[i].kind = k}
                 IN IF k \in inFlight
                    THEN \E i \in DOMAIN asked \cup DOMAIN answered : {open, done} = {{i}, {}}
                    ELSE open = {} /\ done = {}
      <3> DEFINE open == {i \in DOMAIN asked : asked[i] = k}
                 done == {i \in DOMAIN answered : answered[i].kind = k}
      <3>1. k \notin inFlight => open = {} /\ done = {}
        BY DEF UsageInv, FlightInv
      <3>2. ASSUME NEW i \in DOMAIN asked, asked[i] = k PROVE open = {i} /\ done = {}
        BY <3>2 DEF UsageInv, FlightInv
      <3>3. ASSUME NEW i \in DOMAIN answered, answered[i].kind = k PROVE open = {} /\ done = {i}
        BY <3>3 DEF UsageInv, FlightInv
      <3>4. k \in inFlight => \E i \in DOMAIN asked \cup DOMAIN answered :
                                \/ open = {i} /\ done = {}
                                \/ open = {} /\ done = {i}
        BY <3>2, <3>3 DEF UsageInv, FlightInv
      <3> HIDE DEF open, done
      <3>5. k \in inFlight => \E i \in DOMAIN asked \cup DOMAIN answered : {open, done} = {{i}, {}}
        BY <3>4
      <3> QED
        BY <3>1, <3>5 DEF open, done
    <2>2. ASSUME NEW c \in Viewers, Reporting!UpToDate(c), NEW k \in DOMAIN viewers[c].shown,
                 viewers[c].shown[k].refreshing
          PROVE  k \in inFlight
      BY <1>2, <2>2 DEF Fresh
    <2> QED
      BY <2>1, <2>2 DEF Reporting!RefreshingIsReal
  <1>5. Reporting!PercentagesAreReported
    <2>1. \A k \in Reporting!In(asked) : k \in Reporting!Providers
      BY LenProperties, ElementOfSeq DEF UsageInv, FlightInv, Reporting!In
    <2>2. ASSUME NEW k \in Reporting!In(asked), NEW answer \in Reporting!Answers(k)
          PROVE  KeepsTo(answer.report, answer.named)
      BY <2>1, AnswersAreKept
    <2> QED
      BY <2>2 DEF Reporting!PercentagesAreReported, KeepsTo
  <1> QED
    BY <1>1, <1>3, <1>4, <1>5 DEF UsageIsReal

\* What an interface that received everything shows of a provider is the last
\* report, as "Every interactive client sees the same overview" (server.rs
\* 1485) says, a refresh it shows is under way and was asked for once, and a
\* report names no percentage that the provider did not.
THEOREM UsageStaysReal == Spec => []UsageIsReal
PROOF
  <1>1. Init => UsageInv
    BY ServicesAssumption, UsageBegins DEF Init
  <1>2. UsageInv /\ [Next]_vars => UsageInv'
    <2>1. [Next]_vars => [Reporting!Next]_(Reporting!vars)
      BY DEF Next, vars, reportingVars, Reporting!vars, Reporting!cache, Reporting!channels
    <2> QED
      BY <2>1, ServicesAssumption, UsageStep
  <1>3. UsageInv => UsageIsReal
    BY ServicesAssumption, UsageInvShows
  <1> QED
    BY <1>1, <1>2, <1>3, PTL DEF Spec

-----------------------------------------------------------------------------
(* The identity of agents.                                                  *)

(* Two agents that write session files do not run at the same time: the     *)
(* files of a directory are all that a probe sees of them.                   *)
OneWriter ==
  MaxAgents = 1 \/ \A a, b \in Agents : "files" \in Ways[a] /\ "files" \in Ways[b] => a = b

Items == [id: Conversations, title: Conversations, on: {Ways[a] : a \in Agents}]
Asked == [agent: Agents, for: Identity!Known, of: Conversations, done: BOOLEAN]

ItemsInv(items) ==
  /\ items \in Seq(Items)
  /\ \A i, j \in DOMAIN items : items[i].id = items[j].id => i = j
Ids(items) == {items[i].id : i \in DOMAIN items}
SessionFilesInv ==
  /\ files \in Seq(Conversations)
  /\ \A i, j \in DOMAIN files : files[i] = files[j] => i = j

(* The files up to the k-th were there when the agent started, and it wrote *)
(* the others; the one its probe shows is of the others.                     *)
Wrote(x, went, k) ==
  /\ \A i \in 1..k : files[i] \in x.known
  /\ \A i \in (k + 1)..Len(files) : files[i] \in Identity!In(went)
  /\ x.current # None => \E i \in (k + 1)..Len(files) : files[i] = x.current

(* What is known of an agent that was started for a new conversation is     *)
(* one it was in, if no other agent writes files.                            *)
Own(a, x, went) ==
  OneWriter /\ went[1] = None =>
    /\ {x.reported, x.observed, x.current, x.signal} \subseteq Identity!In(went) \cup {None}
    /\ "files" \in Ways[a] => \E k \in 0..Len(files) : Wrote(x, went, k)

(* The draft is named after the conversation c that is shown. *)
DraftInv(d, c) ==
  /\ d \in Identity!Drafts
  /\ d.naming => d.generated = None
  /\ d.generated # None => d.generated.for \in {c, None}

Sound(a, x, went) ==
  /\ x \in Identity!Sessions /\ went \in Seq(Identity!Known) /\ went # <<>>
  /\ x.real = went[Len(went)]
  /\ x.observed # None => x.reported # None
  /\ DraftInv(x.draft, x.observed)
  /\ Own(a, x, went)

IdentityInv ==
  /\ agents \in [Agents -> Identity!Sessions \cup {None}]
  /\ been \in [Agents -> Seq(Identity!Known)]
  /\ SessionFilesInv /\ ItemsInv(archived)
  /\ generators \subseteq Asked
  /\ \A a \in Identity!Alive : Sound(a, agents[a], been[a])
  /\ OneWriter => \A a, b \in Identity!Alive : "files" \in Ways[a] /\ "files" \in Ways[b] => a = b

-----------------------------------------------------------------------------
\* Archived conversations and session files

\* An element is removed, and the others stay in their order.
LEMMA IdentityRemovedAt ==
  ASSUME NEW S, NEW s \in Seq(S), NEW i \in DOMAIN s
  PROVE  /\ Identity!RemoveAt(s, i) \in Seq(S) /\ Len(Identity!RemoveAt(s, i)) = Len(s) - 1
         /\ \A j \in 1 .. Len(s) - 1 :
              Identity!RemoveAt(s, i)[j] = IF j < i THEN s[j] ELSE s[j + 1]
PROOF
  <1>1. Identity!RemoveAt(s, i) = Git!RemoveAt(s, i)
    BY DEF Identity!RemoveAt, Git!RemoveAt
  <1> QED
    BY <1>1, RemovedAt

\* Without the item of a place, the others are there, and no identifier twice.
LEMMA ItemRemoved ==
  ASSUME NEW items, ItemsInv(items), NEW i \in DOMAIN items
  PROVE  /\ ItemsInv(Identity!RemoveAt(items, i))
         /\ Ids(Identity!RemoveAt(items, i)) = Ids(items) \ {items[i].id}
PROOF
  <1>1. items \in Seq(Items) /\ \A m, n \in DOMAIN items : items[m].id = items[n].id => m = n
    BY DEF ItemsInv
  <1>2. Len(items) \in Nat /\ DOMAIN items = 1..Len(items) /\ i \in 1..Len(items)
    BY <1>1, LenProperties
  <1>3. PICK rest : rest = Identity!RemoveAt(items, i)
    OBVIOUS
  <1>4. /\ rest \in Seq(Items) /\ Len(rest) = Len(items) - 1
        /\ \A j \in 1 .. Len(items) - 1 : rest[j] = IF j < i THEN items[j] ELSE items[j + 1]
    BY <1>1, <1>3, IdentityRemovedAt
  <1>5. DOMAIN rest = 1 .. Len(items) - 1
    BY <1>4, LenProperties
  <1>6. \A j \in DOMAIN rest : \E m \in DOMAIN items :
          m # i /\ rest[j] = items[m] /\ m = IF j < i THEN j ELSE j + 1
    BY <1>2, <1>4, <1>5
  <1>7. \A j, k \in DOMAIN rest : rest[j].id = rest[k].id => j = k
    BY <1>1, <1>2, <1>5, <1>6
  <1>8. ASSUME NEW m \in DOMAIN items, m # i
        PROVE  \E j \in DOMAIN rest : rest[j] = items[m]
    <2>1. CASE m < i
      BY <1>2, <1>4, <1>5, <2>1
    <2>2. CASE m > i
      <3>1. m - 1 \in DOMAIN rest /\ ~(m - 1 < i) /\ m - 1 + 1 = m
        BY <1>2, <1>5, <2>2
      <3> QED
        BY <1>4, <1>5, <3>1
    <2> QED
      BY <1>2, <1>8, <2>1, <2>2
  <1>9. Ids(rest) = Ids(items) \ {items[i].id}
    <2>1. ASSUME NEW c \in Ids(rest) PROVE c \in Ids(items) \ {items[i].id}
      BY <1>1, <1>6, <2>1 DEF Ids
    <2>2. ASSUME NEW c \in Ids(items) \ {items[i].id} PROVE c \in Ids(rest)
      BY <1>8, <2>2 DEF Ids
    <2> QED
      BY <2>1, <2>2
  <1> QED
    BY <1>3, <1>4, <1>7, <1>9 DEF ItemsInv

LEMMA ItemsWithout ==
  ASSUME NEW items, ItemsInv(items), NEW c
  PROVE  /\ ItemsInv(Identity!Without(items, c))
         /\ Ids(Identity!Without(items, c)) = Ids(items) \ {c}
PROOF
  <1>1. CASE \E i \in DOMAIN items : items[i].id = c
    <2>1. PICK i : i = CHOOSE n \in DOMAIN items : items[n].id = c
      OBVIOUS
    <2>2. i \in DOMAIN items /\ items[i].id = c
      BY <1>1, <2>1
    <2>3. Identity!Without(items, c) = Identity!RemoveAt(items, i)
      BY <1>1, <2>1 DEF Identity!Without
    <2> QED
      BY <2>2, <2>3, ItemRemoved
  <1>2. CASE ~\E i \in DOMAIN items : items[i].id = c
    BY <1>2 DEF Identity!Without, Ids
  <1> QED
    BY <1>1, <1>2

LEMMA ItemsToFront ==
  ASSUME NEW items, ItemsInv(items), NEW item \in Items
  PROVE  /\ ItemsInv(Identity!ToFront(item, items))
         /\ Ids(Identity!ToFront(item, items)) = Ids(items) \cup {item.id}
PROOF
  <1>1. PICK rest : rest = Identity!Without(items, item.id)
    OBVIOUS
  <1>2. ItemsInv(rest) /\ Ids(rest) = Ids(items) \ {item.id}
    BY <1>1, ItemsWithout
  <1>3. rest \in Seq(Items) /\ <<item>> \in Seq(Items) /\ Len(<<item>>) = 1 /\ <<item>>[1] = item
    BY <1>2 DEF ItemsInv
  <1>4. PICK all : all = <<item>> \o rest
    OBVIOUS
  <1>5. /\ all \in Seq(Items) /\ Len(all) = 1 + Len(rest)
        /\ \A i \in 1 .. 1 + Len(rest) : all[i] = IF i <= 1 THEN <<item>>[i] ELSE rest[i - 1]
    BY <1>3, <1>4, ConcatProperties
  <1>6. /\ Len(rest) \in Nat /\ DOMAIN rest = 1..Len(rest) /\ DOMAIN all = 1 .. 1 + Len(rest)
    BY <1>3, <1>5, LenProperties
  <1>7. all[1] = item /\ \A i \in 2 .. 1 + Len(rest) : i - 1 \in DOMAIN rest /\ all[i] = rest[i - 1]
    BY <1>3, <1>5, <1>6
  <1>8. \A i \in DOMAIN rest : i + 1 \in DOMAIN all /\ all[i + 1] = rest[i]
    <2> TAKE i \in DOMAIN rest
    <2>1. i + 1 \in 2 .. 1 + Len(rest) /\ i + 1 - 1 = i /\ i + 1 \in DOMAIN all
      BY <1>6
    <2> QED
      BY <1>7, <2>1
  <1>9. \A i \in DOMAIN rest : rest[i].id # item.id
    BY <1>2 DEF Ids
  <1>10. \A i, j \in DOMAIN all : all[i].id = all[j].id => i = j
    <2> SUFFICES ASSUME NEW i \in DOMAIN all, NEW j \in DOMAIN all, all[i].id = all[j].id
                 PROVE  i = j
      OBVIOUS
    <2>1. CASE i = 1 \/ j = 1
      BY <1>6, <1>7, <1>9, <2>1
    <2>2. CASE i # 1 /\ j # 1
      <3>1. i \in 2 .. 1 + Len(rest) /\ j \in 2 .. 1 + Len(rest)
        BY <1>6, <2>2
      <3>2. i - 1 = j - 1
        BY <1>2, <1>7, <3>1 DEF ItemsInv
      <3> QED
        BY <3>1, <3>2
    <2> QED
      BY <2>1, <2>2
  <1>11. Ids(all) = Ids(items) \cup {item.id}
    <2>1. 1 \in DOMAIN all /\ \A i \in DOMAIN all : i = 1 \/ i \in 2 .. 1 + Len(rest)
      BY <1>6
    <2>2. Ids(all) = Ids(rest) \cup {item.id}
      BY <1>7, <1>8, <2>1 DEF Ids
    <2> QED
      BY <1>2, <2>2
  <1> QED
    BY <1>1, <1>4, <1>5, <1>10, <1>11 DEF Identity!ToFront, ItemsInv

(* The files as they are when that of c was written. *)
Rewritten(new, c) ==
  \/ Len(new) = Len(files) + 1 /\ \A j \in 1 .. Len(files) : new[j] = files[j]
  \/ \E i \in DOMAIN files :
       /\ files[i] = c /\ Len(new) = Len(files)
       /\ \A j \in 1 .. Len(files) - 1 : new[j] = files[IF j < i THEN j ELSE j + 1]

\* The file written is the last one, and the others stay in their order.
LEMMA FileWritten ==
  ASSUME SessionFilesInv, NEW c \in Conversations, NEW new, new = Identity!LastWritten(c)
  PROVE  /\ new \in Seq(Conversations) /\ \A i, j \in DOMAIN new : new[i] = new[j] => i = j
         /\ Len(new) \in Nat \ {0} /\ new[Len(new)] = c
         /\ Rewritten(new, c)
PROOF
  <1>1. Len(files) \in Nat /\ DOMAIN files = 1..Len(files)
    BY LenProperties DEF SessionFilesInv
  <1>2. new = Identity!LastWritten(c)
    OBVIOUS
  <1>3. CASE c \notin Identity!In(files)
    <2>1. new = Append(files, c)
      BY <1>2, <1>3 DEF Identity!LastWritten
    <2>2. /\ new \in Seq(Conversations) /\ Len(new) = Len(files) + 1
          /\ \A i \in 1..Len(files) : new[i] = files[i]
          /\ new[Len(files) + 1] = c
      BY <2>1, AppendProperties DEF SessionFilesInv
    <2>3. DOMAIN new = 1..(Len(files) + 1)
      BY <2>2, LenProperties
    <2>4. \A i \in 1..Len(files) : files[i] # c
      BY <1>1, <1>3 DEF Identity!In
    <2>5. \A i, j \in DOMAIN new : new[i] = new[j] => i = j
      <3> SUFFICES ASSUME NEW i \in DOMAIN new, NEW j \in DOMAIN new, new[i] = new[j] PROVE i = j
        OBVIOUS
      <3>1. \A m \in DOMAIN new : m = Len(files) + 1 \/ m \in 1..Len(files)
        BY <1>1, <2>3
      <3> QED
        BY <1>1, <2>2, <2>4, <3>1 DEF SessionFilesInv
    <2>6. Len(new) \in Nat \ {0} /\ new[Len(new)] = c
      BY <1>1, <2>2
    <2> HIDE DEF SessionFilesInv
    <2> QED
      BY <1>2, <1>3, <2>2, <2>5, <2>6 DEF Rewritten
  <1>4. CASE c \in Identity!In(files)
    <2>1. \E i \in DOMAIN files : files[i] = c
      BY <1>4 DEF Identity!In
    <2>2. PICK i : i = Identity!At(c)
      OBVIOUS
    <2>3. i \in DOMAIN files /\ files[i] = c
      BY <2>1, <2>2 DEF Identity!At
    <2>4. PICK rest : rest = Identity!RemoveAt(files, i)
      OBVIOUS
    <2>5. /\ rest \in Seq(Conversations) /\ Len(rest) = Len(files) - 1
          /\ \A j \in 1 .. Len(files) - 1 : rest[j] = IF j < i THEN files[j] ELSE files[j + 1]
      BY <2>3, <2>4, IdentityRemovedAt DEF SessionFilesInv
    <2>6. new = Append(rest, c)
      BY <1>2, <1>4, <2>2, <2>4 DEF Identity!LastWritten
    <2>7. /\ new \in Seq(Conversations) /\ Len(new) = Len(rest) + 1
          /\ \A j \in 1..Len(rest) : new[j] = rest[j]
          /\ new[Len(rest) + 1] = c
      BY <2>5, <2>6, AppendProperties
    <2>8. Len(new) = Len(files) /\ DOMAIN new = 1..Len(files)
      BY <1>1, <2>5, <2>7, LenProperties
    <2>9. \A j \in 1 .. Len(files) - 1 : new[j] = IF j < i THEN files[j] ELSE files[j + 1]
      BY <2>5, <2>7
    <2>10. Len(files) \in Nat \ {0} /\ i \in 1..Len(files) /\ new[Len(files)] = c
      BY <1>1, <2>3, <2>5, <2>7
    <2>11. \A m, n \in DOMAIN files : files[m] = files[n] => m = n
      BY DEF SessionFilesInv
    <2>12. ASSUME NEW m \in 1 .. Len(files) - 1
           PROVE  \E k \in DOMAIN files : k # i /\ new[m] = files[k] /\ k = IF m < i THEN m ELSE m + 1
      BY <1>1, <2>9, <2>10
    <2>13. \A m \in 1 .. Len(files) - 1 : new[m] # c
      BY <2>3, <2>11, <2>12
    <2>14. \A m, n \in 1 .. Len(files) - 1 : new[m] = new[n] => m = n
      BY <2>10, <2>11, <2>12
    <2>15. \A m \in DOMAIN new : m = Len(files) \/ m \in 1 .. Len(files) - 1
      BY <1>1, <2>8
    <2>16. \A m, n \in DOMAIN new : new[m] = new[n] => m = n
      BY <2>10, <2>13, <2>14, <2>15
    <2> QED
      BY <1>2, <2>3, <2>7, <2>8, <2>9, <2>10, <2>16 DEF Rewritten
  <1> QED
    BY <1>3, <1>4
-----------------------------------------------------------------------------
\* What an agent reports

\* Of some files the last one written is one of them.
LEMMA NewestFile ==
  ASSUME SessionFilesInv, NEW newer \in SUBSET Identity!In(files), newer # {}
  PROVE  \E c \in newer : \A d \in newer : Identity!At(d) <= Identity!At(c)
PROOF
  <1>1. Len(files) \in Nat /\ DOMAIN files = 1..Len(files)
    BY LenProperties DEF SessionFilesInv
  <1>2. ASSUME NEW c \in newer PROVE Identity!At(c) \in DOMAIN files
    <2>1. \E i \in DOMAIN files : files[i] = c
      BY <1>2 DEF Identity!In
    <2> QED
      BY <2>1 DEF Identity!At
  <1> DEFINE T == {Len(files) - Identity!At(c) : c \in newer}
  <1>3. T \in SUBSET Nat /\ T # {}
    BY <1>1, <1>2
  <1> HIDE DEF T
  <1>4. PICK n \in T : \A m \in T : n <= m
    BY <1>3, LeastNatural
  <1> USE DEF T
  <1>5. PICK c \in newer : n = Len(files) - Identity!At(c)
    BY <1>4
  <1>6. \A d \in newer : Len(files) - Identity!At(c) <= Len(files) - Identity!At(d)
    BY <1>4, <1>5
  <1>7. \A d \in newer : Identity!At(d) \in Int /\ Identity!At(c) \in Int /\ Len(files) \in Int
    BY <1>1, <1>2
  <1> HIDE DEF T
  <1> QED
    BY <1>6, <1>7

LEMMA ProbeIsAFile ==
  ASSUME SessionFilesInv, NEW x
  PROVE  Identity!Probe(x) = x.current \/ Identity!Probe(x) \in Identity!NewerSessions(x)
PROOF
  <1>1. Identity!NewerSessions(x) \in SUBSET Identity!In(files)
    BY DEF Identity!NewerSessions
  <1>2. PICK newer : newer = Identity!NewerSessions(x)
    OBVIOUS
  <1>3. newer # {} => (CHOOSE c \in newer : \A d \in newer : Identity!At(d) <= Identity!At(c)) \in newer
    BY <1>1, <1>2, NewestFile
  <1> QED
    BY <1>2, <1>3 DEF Identity!Probe

\* The file of a conversation is where it is.
LEMMA FileIsAt ==
  ASSUME SessionFilesInv, NEW i \in DOMAIN files
  PROVE  Identity!At(files[i]) = i
PROOF
  BY DEF SessionFilesInv, Identity!At

LEMMA ProbeIsOwn ==
  ASSUME SessionFilesInv, NEW x, NEW went, NEW k \in 0..Len(files), Wrote(x, went, k)
  PROVE  Identity!Probe(x) # None =>
           \E i \in (k + 1)..Len(files) : files[i] = Identity!Probe(x)
PROOF
  <1>1. Len(files) \in Nat /\ DOMAIN files = 1..Len(files)
    BY LenProperties DEF SessionFilesInv
  <1>2. SUFFICES ASSUME NEW c \in Identity!NewerSessions(x)
                 PROVE  \E i \in (k + 1)..Len(files) : files[i] = c
    BY ProbeIsAFile DEF Wrote
  <1>3. c \in Identity!In(files)
    BY DEF Identity!NewerSessions
  <1>4. PICK i \in DOMAIN files : files[i] = c
    BY <1>3 DEF Identity!In
  <1>5. CASE x.current = None
    <2>1. c \notin x.known
      BY <1>5 DEF Identity!NewerSessions
    <2>2. i \notin 1..k
      BY <1>4, <2>1 DEF Wrote
    <2>3. i \in (k + 1)..Len(files)
      BY <1>1, <1>4, <2>2
    <2> QED
      BY <1>4, <2>3
  <1>6. CASE x.current # None
    <2>1. PICK j \in (k + 1)..Len(files) : files[j] = x.current
      BY <1>6 DEF Wrote
    <2>2. j \in DOMAIN files /\ x.current \in Identity!In(files)
      BY <1>1, <2>1 DEF Identity!In
    <2>3. Identity!At(c) > Identity!At(x.current)
      BY <1>6, <2>2 DEF Identity!NewerSessions
    <2>4. i > j
      BY <1>4, <2>1, <2>2, <2>3, FileIsAt
    <2>5. i \in (k + 1)..Len(files)
      BY <1>1, <1>4, <2>1, <2>4
    <2> QED
      BY <1>4, <2>5
  <1> QED
    BY <1>5, <1>6

\* A snapshot of an agent changes what it reports, and to what is its own.
LEMMA SnapshotKeeps ==
  ASSUME SessionFilesInv, NEW a \in Agents, NEW x, NEW went, Sound(a, x, went),
         NEW y, y = Identity!Snapshot(a, x)
  PROVE  /\ Sound(a, y, went)
         /\ y.observed = x.observed /\ y.draft = x.draft /\ y.exited = x.exited /\ y.title = x.title
         /\ x.reported # None => y.reported # None
PROOF
  <1>1. x \in Identity!Sessions
    BY DEF Sound
  <1>2. PICK current : current = IF "files" \in Ways[a] THEN Identity!Probe(x) ELSE None
    OBVIOUS
  <1>3. PICK reported : reported = IF x.signal # None THEN x.signal
                                    ELSE IF current # None THEN current ELSE x.reported
    OBVIOUS
  <1>4. y = [x EXCEPT !.current = current, !.signal = None, !.reported = reported]
    BY <1>2, <1>3, Zenon DEF Identity!Snapshot
  <1>5. /\ x.current \in Identity!Known /\ x.signal \in Identity!Known /\ x.reported \in Identity!Known
        /\ None \in Identity!Known
    BY <1>1 DEF Identity!Sessions, Identity!Known
  <1>6. current \in Identity!Known
    <2>1. \A c \in Identity!NewerSessions(x) : c \in Identity!Known
      <3>1. Identity!In(files) \subseteq Conversations
        BY LenProperties, ElementOfSeq DEF SessionFilesInv, Identity!In
      <3> QED
        BY <3>1 DEF Identity!NewerSessions, Identity!Known
    <2> QED
      BY <1>2, <1>5, <2>1, ProbeIsAFile
  <1>7. reported \in Identity!Known
    BY <1>3, <1>5, <1>6
  <1>8. /\ y \in Identity!Sessions /\ y.current = current /\ y.signal = None /\ y.reported = reported
        /\ y.real = x.real /\ y.observed = x.observed /\ y.draft = x.draft /\ y.exited = x.exited
        /\ y.title = x.title /\ y.known = x.known
    BY <1>1, <1>4, <1>5, <1>6, <1>7 DEF Identity!Sessions
  <1>9. x.reported # None => reported # None
    BY <1>3
  <1>10. Own(a, y, went)
    <2> SUFFICES ASSUME OneWriter, went[1] = None
                 PROVE  /\ {y.reported, y.observed, y.current, y.signal} \subseteq Identity!In(went) \cup {None}
                        /\ "files" \in Ways[a] => \E k \in 0..Len(files) : Wrote(y, went, k)
      BY DEF Own
    <2>1. /\ {x.reported, x.observed, x.current, x.signal} \subseteq Identity!In(went) \cup {None}
          /\ "files" \in Ways[a] => \E k \in 0..Len(files) : Wrote(x, went, k)
      BY DEF Sound, Own
    <2>2. CASE "files" \in Ways[a]
      <3>1. PICK k \in 0..Len(files) : Wrote(x, went, k)
        BY <2>1, <2>2
      <3>2. current # None => \E i \in (k + 1)..Len(files) : files[i] = current
        BY <1>2, <2>2, <3>1, ProbeIsOwn
      <3>3. Wrote(y, went, k)
        BY <1>8, <3>1, <3>2 DEF Wrote
      <3>4. current \in Identity!In(went) \cup {None}
        BY <3>1, <3>2 DEF Wrote
      <3> QED
        BY <1>3, <1>8, <2>1, <3>3, <3>4
    <2>3. CASE "files" \notin Ways[a]
      BY <1>2, <1>3, <1>8, <2>1, <2>3
    <2> QED
      BY <2>2, <2>3
  <1> QED
    BY <1>8, <1>9, <1>10 DEF Sound

-----------------------------------------------------------------------------
\* Names

LEMMA TitleIsKnown ==
  ASSUME NEW d \in Identity!Drafts
  PROVE  Identity!Title(d) \in Identity!Known
PROOF
  BY DEF Identity!Drafts, Identity!Titles, Identity!Title, Identity!Known

LEMMA NewDraftFits ==
  ASSUME NEW c \in Identity!Known
  PROVE  DraftInv(Identity!NewDraft, c)
PROOF
  BY DEF DraftInv, Identity!NewDraft, Identity!Drafts, Identity!Known

LEMMA NamedFits ==
  ASSUME NEW c \in Identity!Known, NEW title \in Conversations
  PROVE  DraftInv(Identity!Named([of |-> title, for |-> c]), c)
PROOF
  <1>1. PICK t : t = [of |-> title, for |-> c]
    OBVIOUS
  <1>2. t \in Identity!Titles /\ t.for = c
    BY <1>1 DEF Identity!Titles
  <1>3. PICK d : d = [title |-> None, generated |-> None, naming |-> FALSE, quit |-> FALSE]
    OBVIOUS
  <1>4. DraftInv([d EXCEPT !.generated = t], c)
    <2>1. d \in Identity!Drafts /\ d.naming = FALSE
      BY <1>3 DEF Identity!Drafts, Identity!Known
    <2>2. PICK e : e = [d EXCEPT !.generated = t]
      OBVIOUS
    <2>3. e \in Identity!Drafts /\ e.naming = FALSE /\ e.generated = t
      BY <1>2, <2>1, <2>2 DEF Identity!Drafts
    <2> QED
      BY <1>2, <2>2, <2>3 DEF DraftInv
  <1>5. Identity!Named(t) = [d EXCEPT !.generated = t]
    BY <1>3 DEF Identity!Named, Identity!NewDraft
  <1> QED
    BY <1>1, <1>4, <1>5

LEMMA DraftFits ==
  ASSUME NEW items, ItemsInv(items), NEW c \in Conversations,
         NEW prompted \in BOOLEAN, NEW started \in BOOLEAN
  PROVE  DraftInv(Identity!DraftOf(c, items, prompted, started), c)
PROOF
  <1>1. c \in Identity!Known
    BY DEF Identity!Known
  <1> DEFINE had == {item \in Identity!In(items) : item.id = c}
  <1>2. CASE had # {}
    <2>1. PICK item : item = CHOOSE i \in had : TRUE
      OBVIOUS
    <2>2. item \in Identity!In(items)
      BY <1>2, <2>1
    <2>3. item.title \in Conversations
      <3>1. \A i \in DOMAIN items : items[i] \in Items
        BY LenProperties, ElementOfSeq DEF ItemsInv
      <3> QED
        BY <2>2, <3>1 DEF Identity!In, Items
    <2>4. Identity!DraftOf(c, items, prompted, started) = Identity!Named([of |-> item.title, for |-> c])
      BY <1>2, <2>1 DEF Identity!DraftOf
    <2> QED
      BY <1>1, <2>3, <2>4, NamedFits
  <1>3. CASE had = {} /\ prompted
    <2>1. Identity!DraftOf(c, items, prompted, started)
            = [title |-> c, generated |-> None, naming |-> started, quit |-> FALSE]
      BY <1>3 DEF Identity!DraftOf, Identity!FromPrompt, Identity!NewDraft
    <2> QED
      BY <1>1, <2>1 DEF DraftInv, Identity!Drafts
  <1>4. CASE had = {} /\ ~prompted
    BY <1>1, <1>4, NewDraftFits DEF Identity!DraftOf
  <1> QED
    BY <1>2, <1>3, <1>4

\* What a poll observes of an agent.
LEMMA ObservedIsSound ==
  ASSUME NEW a \in Agents, NEW went, NEW x, NEW y, Sound(a, y, went),
         x.observed = y.observed, NEW draft,
         Identity!Switched(x, y) => DraftInv(draft, y.reported),
         NEW seen, seen = Identity!Observed(x, y, draft)
  PROVE  Sound(a, seen, went) /\ seen.observed = y.reported
PROOF
  <1>1. PICK d : d = IF Identity!Switched(x, y) THEN draft ELSE y.draft
    OBVIOUS
  <1>2. seen = [y EXCEPT !.observed = y.reported, !.draft = d, !.title = Identity!Title(d)]
    BY <1>1 DEF Identity!Observed
  <1>3. y \in Identity!Sessions /\ (y.observed # None => y.reported # None) /\ DraftInv(y.draft, y.observed)
    BY DEF Sound
  <1>4. DraftInv(d, y.reported)
    <2>1. CASE Identity!Switched(x, y)
      BY <1>1, <2>1
    <2>2. CASE ~Identity!Switched(x, y)
      <3>1. y.observed = None \/ y.observed = y.reported
        BY <1>3, <2>2 DEF Identity!Switched
      <3> QED
        BY <1>1, <1>3, <2>2, <3>1 DEF DraftInv
    <2> QED
      BY <2>1, <2>2
  <1>5. PICK title \in Identity!Known : title = Identity!Title(d)
    BY <1>4, TitleIsKnown DEF DraftInv
  <1>6. /\ y.reported \in Identity!Known /\ d \in Identity!Drafts
        /\ seen = [y EXCEPT !.observed = y.reported, !.draft = d, !.title = title]
    BY <1>2, <1>3, <1>4, <1>5 DEF Identity!Sessions, DraftInv
  <1>7. /\ seen \in Identity!Sessions /\ seen.observed = y.reported /\ seen.draft = d
        /\ seen.real = y.real /\ seen.reported = y.reported /\ seen.current = y.current
        /\ seen.signal = y.signal /\ seen.known = y.known
    BY <1>3, <1>6 DEF Identity!Sessions
  <1>8. Own(a, seen, went)
    BY <1>7 DEF Sound, Own, Wrote
  <1> QED
    BY <1>4, <1>7, <1>8 DEF Sound
-----------------------------------------------------------------------------
\* Steps of one agent

\* A conversation with a name that an agent is no longer shown in is kept.
Leaves ==
  \A a \in Identity!Alive :
    LET x == agents[a] y == agents'[a] IN
    y # None /\ Identity!Archivable(x) /\ y.observed # x.observed =>
      \/ \E item \in {archived'[i] : i \in DOMAIN archived'} : item.id = x.observed
      \/ \E b \in Agents : agents'[b] # None /\ agents'[b].observed = x.observed

LEMMA AliveIsSound ==
  ASSUME IdentityInv, NEW a \in Identity!Alive
  PROVE  a \in Agents /\ Sound(a, agents[a], been[a])
PROOF
  BY DEF IdentityInv, Identity!Alive

\* One agent changes, and what it is shown in does not.
LEMMA AgentStep ==
  ASSUME IdentityInv, NEW a \in Agents, NEW w, NEW went,
         agents' = [agents EXCEPT ![a] = w], been' = [been EXCEPT ![a] = went], files' = files,
         (w = None /\ went \in Seq(Identity!Known)) \/ Sound(a, w, went),
         w # None /\ a \in Identity!Alive => w.observed = agents[a].observed,
         w # None /\ a \notin Identity!Alive /\ OneWriter =>
           \A b \in Identity!Alive : ~("files" \in Ways[a] /\ "files" \in Ways[b]),
         ItemsInv(archived'), generators' \subseteq Asked
  PROVE  IdentityInv' /\ Leaves
PROOF
  <1>1. /\ agents \in [Agents -> Identity!Sessions \cup {None}]
        /\ been \in [Agents -> Seq(Identity!Known)]
    BY DEF IdentityInv
  <1>2. w \in Identity!Sessions \cup {None} /\ went \in Seq(Identity!Known)
    BY DEF Sound
  <1>3. /\ agents' \in [Agents -> Identity!Sessions \cup {None}]
        /\ been' \in [Agents -> Seq(Identity!Known)]
        /\ agents'[a] = w /\ been'[a] = went
        /\ \A b \in Agents : b # a => agents'[b] = agents[b] /\ been'[b] = been[b]
    BY <1>1, <1>2
  <1>4. SessionFilesInv'
    BY DEF IdentityInv, SessionFilesInv
  <1>5. (\A b \in Identity!Alive : Sound(b, agents[b], been[b]))'
    <2> SUFFICES ASSUME NEW b \in Agents, agents'[b] # None
                 PROVE  Sound(b, agents[b], been[b])'
      BY DEF Identity!Alive
    <2>1. Sound(b, agents'[b], been'[b])
      <3>1. CASE b = a
        BY <1>3, <3>1
      <3>2. CASE b # a
        BY <1>3, <3>2, AliveIsSound DEF Identity!Alive
      <3> QED
        BY <3>1, <3>2
    <2> QED
      BY <2>1 DEF Sound, Own, Wrote
  <1>6. (OneWriter => \A b, c \in Identity!Alive : "files" \in Ways[b] /\ "files" \in Ways[c] => b = c)'
    <2> SUFFICES ASSUME OneWriter, NEW b \in Agents, NEW c \in Agents, agents'[b] # None, agents'[c] # None,
                        "files" \in Ways[b], "files" \in Ways[c]
                 PROVE  b = c
      BY DEF Identity!Alive, OneWriter
    <2>1. \A d \in Agents : d # a /\ agents'[d] # None => d \in Identity!Alive
      BY <1>3 DEF Identity!Alive
    <2> QED
      BY <1>3, <2>1 DEF IdentityInv
  <1>7. IdentityInv'
    BY <1>3, <1>4, <1>5, <1>6 DEF IdentityInv, ItemsInv, Asked
  <1>8. Leaves
    <2>1. \A b \in Identity!Alive : agents'[b] # None => agents'[b].observed = agents[b].observed
      BY <1>3 DEF Identity!Alive
    <2> QED
      BY <2>1 DEF Leaves
  <1> QED
    BY <1>7, <1>8

\* The same, where the history of the agent does not change either.
LEMMA AgentChange ==
  ASSUME IdentityInv, NEW a \in Identity!Alive, NEW w,
         agents' = [agents EXCEPT ![a] = w], UNCHANGED <<been, files>>,
         w = None \/ (Sound(a, w, been[a]) /\ w.observed = agents[a].observed),
         ItemsInv(archived'), generators' \subseteq Asked
  PROVE  IdentityInv' /\ Leaves
PROOF
  <1>1. a \in Agents /\ been \in [Agents -> Seq(Identity!Known)]
    BY DEF IdentityInv, Identity!Alive
  <1>2. been' = [been EXCEPT ![a] = been[a]] /\ been[a] \in Seq(Identity!Known)
    BY <1>1
  <1> QED
    BY <1>1, <1>2, AgentStep

\* An agent that was never started is not running, and may write files next.
LEMMA Startable ==
  ASSUME Identity!ConversationsAssumption, IdentityInv, NEW a \in Agents, Identity!CanStart(a)
  PROVE  /\ a \notin Identity!Alive
         /\ OneWriter => \A b \in Identity!Alive : ~("files" \in Ways[a] /\ "files" \in Ways[b])
PROOF
  <1>1. a \notin Identity!Alive
    BY AliveIsSound DEF Identity!CanStart, Sound
  <1>2. CASE MaxAgents = 1
    <2>1. IsFiniteSet(Agents)
      BY DEF Identity!ConversationsAssumption, IsFiniteSet, Identity!IsFiniteSet
    <2>2. IsFiniteSet(Identity!Alive)
      BY <2>1, FS_Subset DEF Identity!Alive
    <2>3. Identity!Cardinality(Identity!Alive) = Cardinality(Identity!Alive)
      BY DEF Cardinality, Identity!Cardinality
    <2>4. Cardinality(Identity!Alive) \in Nat /\ Cardinality(Identity!Alive) < 1
      BY <1>2, <2>2, <2>3, FS_CardinalityType DEF Identity!CanStart
    <2>5. Identity!Alive = {}
      BY <2>2, <2>4, FS_EmptySet
    <2> QED
      BY <1>1, <2>5
  <1>3. CASE \A b, c \in Agents : "files" \in Ways[b] /\ "files" \in Ways[c] => b = c
    BY <1>1, <1>3 DEF Identity!Alive
  <1> QED
    BY <1>1, <1>2, <1>3 DEF OneWriter

\* An agent that has just been started.
LEMMA SessionIsSound ==
  ASSUME SessionFilesInv, NEW a \in Agents, NEW c \in Identity!Known, NEW w, w = Identity!Session(a, c)
  PROVE  Sound(a, w, <<c>>)
PROOF
  <1>1. Len(files) \in Nat /\ DOMAIN files = 1..Len(files) /\ \A i \in DOMAIN files : files[i] \in Conversations
    BY LenProperties, ElementOfSeq DEF SessionFilesInv
  <1>2. Identity!In(files) \in SUBSET Conversations
    BY <1>1 DEF Identity!In
  <1>3. DraftInv(Identity!NewDraft, c)
    BY NewDraftFits
  <1>4. /\ w \in Identity!Sessions /\ w.real = c /\ w.reported = c /\ w.observed = c /\ w.current = c
        /\ w.signal = None /\ w.known = Identity!In(files) /\ w.draft = Identity!NewDraft
    BY <1>2, <1>3 DEF Identity!Session, Identity!Sessions, Identity!Known, DraftInv
  <1>5. <<c>> \in Seq(Identity!Known) /\ <<c>> # <<>> /\ Len(<<c>>) = 1 /\ <<c>>[1] = c
    OBVIOUS
  <1>6. Own(a, w, <<c>>)
    <2> SUFFICES ASSUME c = None
                 PROVE  /\ {w.reported, w.observed, w.current, w.signal} \subseteq Identity!In(<<c>>) \cup {None}
                        /\ Len(files) \in 0..Len(files) /\ Wrote(w, <<c>>, Len(files))
      BY <1>5 DEF Own
    <2>1. \A i \in 1..Len(files) : files[i] \in w.known
      BY <1>1, <1>4 DEF Identity!In
    <2>2. \A i \in (Len(files) + 1)..Len(files) : FALSE
      BY <1>1
    <2>3. Wrote(w, <<c>>, Len(files))
      BY <1>4, <2>1, <2>2 DEF Wrote
    <2> QED
      BY <1>1, <1>4, <2>3
  <1> QED
    BY <1>3, <1>4, <1>5, <1>6 DEF Sound

LEMMA SpawnIdentity ==
  ASSUME Identity!ConversationsAssumption, IdentityInv, NEW a \in Agents, Identity!Spawn(a)
  PROVE  IdentityInv' /\ Leaves
PROOF
  <1>1. PICK c \in Identity!Assigned(a) :
          /\ agents' = [agents EXCEPT ![a] = Identity!Session(a, c)]
          /\ been' = [been EXCEPT ![a] = <<c>>]
    BY DEF Identity!Spawn
  <1>2. Identity!CanStart(a) /\ files' = files /\ archived' = archived /\ generators' = generators
    BY DEF Identity!Spawn
  <1>3. c \in Identity!Known
    BY DEF Identity!Assigned, Identity!Known
  <1>4. Sound(a, Identity!Session(a, c), <<c>>)
    BY <1>3, SessionIsSound DEF IdentityInv
  <1>5. ItemsInv(archived') /\ generators' \subseteq Asked
    BY <1>2 DEF IdentityInv
  <1> HIDE DEF IdentityInv
  <1> QED
    BY <1>1, <1>2, <1>4, <1>5, Startable, AgentStep

LEMMA ResumeIdentity ==
  ASSUME Identity!ConversationsAssumption, IdentityInv, NEW a \in Agents,
         NEW i \in DOMAIN archived, Identity!ResumeArchived(a, i)
  PROVE  IdentityInv' /\ Leaves
PROOF
  <1>1. PICK item : item = archived[i]
    OBVIOUS
  <1>2. ItemsInv(archived) /\ SessionFilesInv
    BY DEF IdentityInv
  <1>3. item.id \in Conversations /\ item.title \in Conversations
    <2>1. archived \in Seq(Items)
      BY <1>2 DEF ItemsInv
    <2>2. item \in Items
      BY <1>1, <2>1, LenProperties, ElementOfSeq
    <2> QED
      BY <2>2 DEF Items
  <1>4. PICK draft : draft = Identity!Named([of |-> item.title, for |-> item.id])
    OBVIOUS
  <1>5. item.id \in Identity!Known /\ item.title \in Identity!Known
    BY <1>3 DEF Identity!Known
  <1>6. DraftInv(draft, item.id)
    BY <1>3, <1>4, <1>5, NamedFits
  <1>7. PICK s : s = Identity!Session(a, item.id)
    OBVIOUS
  <1>8. Sound(a, s, <<item.id>>) /\ s.observed = item.id
    BY <1>2, <1>5, <1>7, SessionIsSound DEF Identity!Session
  <1>9. PICK w : w = [s EXCEPT !.draft = draft, !.title = item.title]
    OBVIOUS
  <1>10. s \in Identity!Sessions /\ draft \in Identity!Drafts
    BY <1>6, <1>8 DEF Sound, DraftInv
  <1>11. /\ w \in Identity!Sessions /\ w.real = s.real /\ w.observed = s.observed
         /\ w.reported = s.reported /\ w.draft = draft /\ w.signal = s.signal
    BY <1>5, <1>9, <1>10 DEF Identity!Sessions
  <1>12. <<item.id>>[1] # None
    BY <1>3 DEF Identity!ConversationsAssumption
  <1>13. Sound(a, w, <<item.id>>)
    BY <1>6, <1>8, <1>11, <1>12 DEF Sound, Own
  <1>14. /\ agents' = [agents EXCEPT ![a] = w] /\ been' = [been EXCEPT ![a] = <<item.id>>]
         /\ files' = files /\ generators' = generators /\ Identity!CanStart(a)
         /\ archived' = Identity!RemoveAt(archived, i)
    BY <1>1, <1>4, <1>7, <1>9, Zenon DEF Identity!ResumeArchived
  <1>15. ItemsInv(archived')
    BY <1>2, <1>14, ItemRemoved
  <1>16. generators' \subseteq Asked
    BY <1>14 DEF IdentityInv
  <1> HIDE DEF IdentityInv
  <1> QED
    BY <1>13, <1>14, <1>15, <1>16, Startable, AgentStep

\* What is asked of a generator.
LEMMA RequestIsAsked ==
  ASSUME NEW a \in Agents, NEW for \in Identity!Known, NEW of \in Conversations
  PROVE  Identity!Requested(a, for, of) \in Asked
PROOF
  BY DEF Identity!Requested, Asked

LEMMA SubmitIdentity ==
  ASSUME IdentityInv, NEW a \in Agents, NEW line \in Identity!Lines, Identity!Submit(a, line)
  PROVE  IdentityInv' /\ Leaves
PROOF
  <1>1. PICK x : x = agents[a]
    OBVIOUS
  <1>2. PICK d : d = x.draft
    OBVIOUS
  <1>3. PICK asks \in BOOLEAN : asks = (line = "prompt" /\ d.generated = None)
    OBVIOUS
  <1>4. PICK title : title = IF asks /\ d.title = None THEN x.real ELSE d.title
    OBVIOUS
  <1>5. PICK started \in IF asks /\ ~d.naming /\ Identity!Free THEN BOOLEAN ELSE {FALSE} :
          /\ agents' = [agents EXCEPT ![a].draft =
               [d EXCEPT !.quit = (line = "quit"), !.naming = d.naming \/ started, !.title = title]]
          /\ generators' = IF started
               THEN generators \cup {Identity!Requested(a, x.observed, x.real)}
               ELSE generators
    BY <1>1, <1>2, <1>3, <1>4, Zenon DEF Identity!Submit
  <1>6. /\ a \in Identity!Alive /\ (line = "prompt" => x.real # None)
        /\ files' = files /\ archived' = archived /\ been' = been
    BY <1>1 DEF Identity!Submit
  <1>7. /\ Sound(a, x, been[a]) /\ x \in Identity!Sessions /\ d \in Identity!Drafts
        /\ DraftInv(d, x.observed) /\ x.real \in Identity!Known /\ x.observed \in Identity!Known
    BY <1>1, <1>2, <1>6, AliveIsSound DEF Sound, DraftInv, Identity!Sessions
  <1>8. PICK naming \in BOOLEAN : naming = (d.naming \/ started)
    BY <1>7 DEF Identity!Drafts
  <1>9. PICK quit \in BOOLEAN : quit = (line = "quit")
    OBVIOUS
  <1>10. PICK e : e = [d EXCEPT !.quit = quit, !.naming = naming, !.title = title]
    OBVIOUS
  <1>11. title \in Identity!Known
    BY <1>4, <1>7 DEF Identity!Drafts
  <1>12. /\ e \in Identity!Drafts /\ e.generated = d.generated /\ e.naming = naming
    BY <1>7, <1>10, <1>11 DEF Identity!Drafts
  <1>13. naming => d.generated = None
    BY <1>3, <1>5, <1>7, <1>8 DEF DraftInv
  <1>14. DraftInv(e, x.observed)
    BY <1>7, <1>12, <1>13 DEF DraftInv
  <1>15. PICK w : w = [x EXCEPT !.draft = e]
    OBVIOUS
  <1>16. /\ w \in Identity!Sessions /\ w.draft = e /\ w.real = x.real /\ w.observed = x.observed
         /\ w.reported = x.reported /\ w.current = x.current /\ w.signal = x.signal /\ w.known = x.known
    BY <1>7, <1>12, <1>15 DEF Identity!Sessions
  <1>17. Sound(a, w, been[a])
    BY <1>7, <1>14, <1>16 DEF Sound, Own, Wrote
  <1>18. agents' = [agents EXCEPT ![a] = w]
    BY <1>1, <1>5, <1>8, <1>9, <1>10, <1>15
  <1>19. generators \subseteq Asked /\ ItemsInv(archived)
    BY DEF IdentityInv
  <1>20. generators' \subseteq Asked
    <2>1. CASE started
      <3>1. x.real \in Conversations
        BY <1>3, <1>5, <1>6, <1>7, <2>1 DEF Identity!Known
      <3> QED
        BY <1>5, <1>7, <1>19, <2>1, <3>1, RequestIsAsked
    <2>2. CASE ~started
      BY <1>5, <1>19, <2>2
    <2> QED
      BY <2>1, <2>2
  <1> HIDE DEF IdentityInv
  <1> QED
    BY <1>1, <1>6, <1>16, <1>17, <1>18, <1>19, <1>20, AgentChange

\* The conversations an agent was in, and one more.
LEMMA WentOn ==
  ASSUME NEW went \in Seq(Identity!Known), went # <<>>, NEW c \in Identity!Known
  PROVE  /\ Append(went, c) \in Seq(Identity!Known) /\ Append(went, c) # <<>>
         /\ Append(went, c)[1] = went[1] /\ Append(went, c)[Len(Append(went, c))] = c
         /\ Identity!In(went) \cup {c} \subseteq Identity!In(Append(went, c))
PROOF
  <1>1. PICK more : more = Append(went, c)
    OBVIOUS
  <1>2. /\ more \in Seq(Identity!Known) /\ more # <<>> /\ Len(more) = Len(went) + 1
        /\ \A i \in 1..Len(went) : more[i] = went[i]
        /\ more[Len(went) + 1] = c
    BY <1>1, AppendProperties
  <1>3. /\ Len(went) \in Nat \ {0} /\ DOMAIN went = 1..Len(went)
        /\ DOMAIN more = 1..(Len(went) + 1)
    BY <1>2, EmptySeq, LenProperties
  <1>4. 1 \in 1..Len(went) /\ Len(went) + 1 \in DOMAIN more /\ \A i \in DOMAIN went : i \in DOMAIN more
    BY <1>3
  <1>5. Identity!In(went) \cup {c} \subseteq Identity!In(more)
    BY <1>2, <1>3, <1>4 DEF Identity!In
  <1> QED
    BY <1>1, <1>2, <1>4, <1>5

LEMMA EnterIdentity ==
  ASSUME IdentityInv, NEW a \in Agents, NEW c \in Conversations, Identity!Enter(a, c),
         None \notin Conversations
  PROVE  IdentityInv' /\ Leaves
PROOF
  <1>1. PICK x : x = agents[a]
    OBVIOUS
  <1>2. PICK signal : signal = IF "hook" \in Ways[a] THEN c ELSE x.signal
    OBVIOUS
  <1>3. PICK reported : reported = IF "output" \in Ways[a] THEN c ELSE x.reported
    OBVIOUS
  <1>4. PICK w : w = [x EXCEPT !.real = c, !.signal = signal, !.reported = reported]
    OBVIOUS
  <1>5. PICK went : went = Append(been[a], c)
    OBVIOUS
  <1>6. /\ a \in Identity!Alive /\ agents' = [agents EXCEPT ![a] = w]
        /\ been' = [been EXCEPT ![a] = went]
        /\ files' = files /\ archived' = archived /\ generators' = generators
    BY <1>1, <1>2, <1>3, <1>4, <1>5, Zenon DEF Identity!Enter
  <1>7. Sound(a, x, been[a]) /\ x \in Identity!Sessions /\ c \in Identity!Known
    BY <1>1, <1>6, AliveIsSound DEF Sound, Identity!Known
  <1>8. signal \in Identity!Known /\ reported \in Identity!Known
    BY <1>2, <1>3, <1>7 DEF Identity!Sessions
  <1>9. /\ w \in Identity!Sessions /\ w.real = c /\ w.signal = signal /\ w.reported = reported
        /\ w.draft = x.draft /\ w.observed = x.observed /\ w.current = x.current /\ w.known = x.known
    BY <1>4, <1>7, <1>8 DEF Identity!Sessions
  <1>10. /\ went \in Seq(Identity!Known) /\ went # <<>> /\ went[1] = been[a][1] /\ went[Len(went)] = c
         /\ Identity!In(been[a]) \cup {c} \subseteq Identity!In(went)
    BY <1>5, <1>7, WentOn DEF Sound
  <1>11. Own(a, w, went)
    <2> SUFFICES ASSUME OneWriter, been[a][1] = None
                 PROVE  /\ {w.reported, w.observed, w.current, w.signal} \subseteq Identity!In(went) \cup {None}
                        /\ "files" \in Ways[a] => \E k \in 0..Len(files) : Wrote(w, went, k)
      BY <1>10 DEF Own
    <2>1. /\ {x.reported, x.observed, x.current, x.signal} \subseteq Identity!In(been[a]) \cup {None}
          /\ "files" \in Ways[a] => \E k \in 0..Len(files) : Wrote(x, been[a], k)
      BY <1>7 DEF Sound, Own
    <2>2. \A k \in 0..Len(files) : Wrote(x, been[a], k) => Wrote(w, went, k)
      BY <1>9, <1>10 DEF Wrote
    <2> QED
      BY <1>2, <1>3, <1>9, <1>10, <2>1, <2>2
  <1>12. w.reported # None \/ w.reported = x.reported
    BY <1>3, <1>9
  <1>13. Sound(a, w, went)
    BY <1>7, <1>9, <1>10, <1>11, <1>12 DEF Sound
  <1>14. ItemsInv(archived') /\ generators' \subseteq Asked
    BY <1>6 DEF IdentityInv
  <1> HIDE DEF IdentityInv
  <1> QED
    BY <1>1, <1>6, <1>9, <1>13, <1>14, AgentStep

LEMMA ExitIdentity ==
  ASSUME IdentityInv, NEW a \in Agents, Identity!Exit(a)
  PROVE  IdentityInv' /\ Leaves
PROOF
  <1>1. PICK x : x = agents[a]
    OBVIOUS
  <1>2. PICK w : w = [x EXCEPT !.exited = TRUE]
    OBVIOUS
  <1>3. /\ a \in Identity!Alive /\ agents' = [agents EXCEPT ![a] = w]
        /\ files' = files /\ archived' = archived /\ generators' = generators /\ been' = been
    BY <1>1, <1>2 DEF Identity!Exit
  <1>4. Sound(a, x, been[a]) /\ x \in Identity!Sessions
    BY <1>1, <1>3, AliveIsSound DEF Sound
  <1>5. /\ w \in Identity!Sessions /\ w.draft = x.draft /\ w.real = x.real /\ w.observed = x.observed
        /\ w.reported = x.reported /\ w.current = x.current /\ w.signal = x.signal /\ w.known = x.known
    BY <1>2, <1>4 DEF Identity!Sessions
  <1>6. Sound(a, w, been[a])
    BY <1>4, <1>5 DEF Sound, Own, Wrote
  <1>7. ItemsInv(archived') /\ generators' \subseteq Asked
    BY <1>3 DEF IdentityInv
  <1> HIDE DEF IdentityInv
  <1> QED
    BY <1>1, <1>3, <1>5, <1>6, <1>7, AgentChange

LEMMA TakeSnapshotIdentity ==
  ASSUME IdentityInv, NEW a \in Agents, Identity!TakeSnapshot(a)
  PROVE  IdentityInv' /\ Leaves
PROOF
  <1>1. PICK w : w = Identity!Snapshot(a, agents[a])
    OBVIOUS
  <1>2. /\ a \in Identity!Alive /\ agents' = [agents EXCEPT ![a] = w]
        /\ files' = files /\ archived' = archived /\ generators' = generators /\ been' = been
    BY <1>1 DEF Identity!TakeSnapshot
  <1>3. Sound(a, w, been[a]) /\ w.observed = agents[a].observed
    BY <1>1, <1>2, AliveIsSound, SnapshotKeeps DEF IdentityInv
  <1>4. ItemsInv(archived') /\ generators' \subseteq Asked
    BY <1>2 DEF IdentityInv
  <1> HIDE DEF IdentityInv
  <1> QED
    BY <1>2, <1>3, <1>4, AgentChange

\* What an agent leaves can be archived.
LEMMA ItemIsArchived ==
  ASSUME NEW a \in Agents, NEW x \in Identity!Sessions, Identity!Archivable(x)
  PROVE  Identity!Item(a, x) \in Items /\ Identity!Item(a, x).id = x.observed
PROOF
  BY DEF Identity!Archivable, Identity!Item, Items, Identity!Sessions, Identity!Known

LEMMA ArchiveIdentity ==
  ASSUME IdentityInv, NEW a \in Agents, Identity!ArchiveAgent(a)
  PROVE  IdentityInv' /\ Leaves
PROOF
  <1>1. /\ a \in Identity!Alive /\ Identity!Archivable(agents[a])
        /\ archived' = Identity!ToFront(Identity!Item(a, agents[a]), archived)
        /\ agents' = [agents EXCEPT ![a] = None]
        /\ files' = files /\ generators' = generators /\ been' = been
    BY DEF Identity!ArchiveAgent
  <1>2. agents[a] \in Identity!Sessions
    BY <1>1, AliveIsSound DEF Sound
  <1>3. ItemsInv(archived')
    BY <1>1, <1>2, ItemIsArchived, ItemsToFront DEF IdentityInv
  <1>4. generators' \subseteq Asked
    BY <1>1 DEF IdentityInv
  <1> HIDE DEF IdentityInv
  <1> QED
    BY <1>1, <1>3, <1>4, AgentChange

LEMMA CloseIdentity ==
  ASSUME IdentityInv, NEW a \in Agents, Identity!CloseAgent(a)
  PROVE  IdentityInv' /\ Leaves
PROOF
  <1>1. /\ a \in Identity!Alive /\ agents' = [agents EXCEPT ![a] = None]
        /\ files' = files /\ archived' = archived /\ generators' = generators /\ been' = been
    BY DEF Identity!CloseAgent
  <1>2. ItemsInv(archived') /\ generators' \subseteq Asked
    BY <1>1 DEF IdentityInv
  <1> HIDE DEF IdentityInv
  <1> QED
    BY <1>1, <1>2, AgentChange

\* Steps that start, end and change no agent.
LEMMA OthersKeep ==
  ASSUME IdentityInv, UNCHANGED <<agents, been, files, archived>>, generators' \subseteq Asked
  PROVE  IdentityInv' /\ Leaves
PROOF
  BY DEF IdentityInv, Identity!Alive, SessionFilesInv, ItemsInv, Sound, Own, Wrote, Asked, Leaves, OneWriter

LEMMA GenerateIdentity ==
  ASSUME IdentityInv, NEW g \in generators, NEW ok \in BOOLEAN, Identity!Generate(g, ok)
  PROVE  IdentityInv' /\ Leaves
PROOF
  <1>1. g \in Asked /\ generators \subseteq Asked
    BY DEF IdentityInv
  <1>2. [g EXCEPT !.done = TRUE] \in Asked
    BY <1>1 DEF Asked
  <1>3. generators' \subseteq Asked
    BY <1>1, <1>2 DEF Identity!Generate
  <1>4. UNCHANGED <<agents, been, files, archived>>
    BY DEF Identity!Generate
  <1> QED
    BY <1>3, <1>4, OthersKeep

\* An agent writes a file: it is its own last one.
LEMMA WrittenIsOwn ==
  ASSUME SessionFilesInv, NEW x, NEW went, NEW k \in 0..Len(files), Wrote(x, went, k),
         NEW c \in Conversations \cap Identity!In(went), NEW new, new = Identity!LastWritten(c)
  PROVE  \E m \in 0..Len(new) : new = files' => Wrote(x, went, m)'
PROOF
  <1>1. Len(files) \in Nat /\ DOMAIN files = 1..Len(files)
    BY LenProperties DEF SessionFilesInv
  <1>2. new \in Seq(Conversations) /\ Len(new) \in Nat \ {0} /\ new[Len(new)] = c /\ Rewritten(new, c)
    <2>1. c \in Conversations
      OBVIOUS
    <2> QED
      BY <2>1, FileWritten
  <1>3. /\ \A i \in 1..k : files[i] \in x.known
        /\ \A i \in (k + 1)..Len(files) : files[i] \in Identity!In(went)
        /\ x.current # None => \E i \in (k + 1)..Len(files) : files[i] = x.current
    BY DEF Wrote
  <1>4. CASE Len(new) = Len(files) + 1 /\ \A j \in 1 .. Len(files) : new[j] = files[j]
    <2>1. k \in 0..Len(new) /\ \A i \in 1..k : new[i] \in x.known
      BY <1>1, <1>3, <1>4
    <2>2. ASSUME NEW i \in (k + 1)..Len(new) PROVE new[i] \in Identity!In(went)
      <3>1. CASE i = Len(new)
        BY <1>2, <3>1
      <3>2. CASE i # Len(new)
        <4>1. i \in (k + 1)..Len(files) /\ i \in 1..Len(files)
          BY <1>1, <1>4, <3>2
        <4> QED
          BY <1>3, <1>4, <4>1
      <3> QED
        BY <3>1, <3>2
    <2>3. x.current # None => \E i \in (k + 1)..Len(new) : new[i] = x.current
      BY <1>1, <1>3, <1>4
    <2> QED
      BY <2>1, <2>2, <2>3 DEF Wrote, Identity!In
  <1>5. ASSUME NEW i \in DOMAIN files, files[i] = c, Len(new) = Len(files),
               \A j \in 1 .. Len(files) - 1 : new[j] = files[IF j < i THEN j ELSE j + 1]
        PROVE  \E m \in 0..Len(new) : new = files' => Wrote(x, went, m)'
    <2>1. PICK m : m = IF i <= k THEN k - 1 ELSE k
      OBVIOUS
    <2>2. m \in 0..Len(new) /\ m \in Int
      BY <1>1, <1>5, <2>1
    <2>3. ASSUME NEW j \in 1..m PROVE new[j] \in x.known
      <3>1. j \in 1 .. Len(files) - 1
        BY <1>1, <2>1
      <3>2. CASE j < i
        <4>1. j \in 1..k
          BY <1>1, <2>1
        <4> QED
          BY <1>3, <1>5, <3>1, <3>2, <4>1
      <3>3. CASE ~(j < i)
        <4>1. j + 1 \in 1..k
          BY <1>1, <2>1, <3>3
        <4> QED
          BY <1>3, <1>5, <3>1, <3>3, <4>1
      <3> QED
        BY <3>2, <3>3
    <2>4. ASSUME NEW j \in (m + 1)..Len(new) PROVE new[j] \in Identity!In(went)
      <3>1. CASE j = Len(new)
        BY <1>2, <3>1
      <3> PICK last \in Nat : last = Len(files) /\ last = Len(new)
        BY <1>1, <1>5
      <3>4. i \in 1..last /\ k \in 0..last /\ j \in (m + 1)..last
        BY <1>1
      <3>2. CASE j # Len(new) /\ j < i
        <4>1. j \in 1 .. last - 1 /\ j \in (k + 1)..last
          BY <2>1, <3>2, <3>4
        <4> QED
          BY <1>3, <1>5, <3>2, <4>1
      <3>3. CASE j # Len(new) /\ ~(j < i)
        <4>1. j \in 1 .. last - 1 /\ j + 1 \in (k + 1)..last
          BY <2>1, <3>3, <3>4
        <4> QED
          BY <1>3, <1>5, <3>3, <4>1
      <3> QED
        BY <3>1, <3>2, <3>3
    <2>5. ASSUME x.current # None PROVE \E j \in (m + 1)..Len(new) : new[j] = x.current
      <3>1. PICK n \in (k + 1)..Len(files) : files[n] = x.current
        BY <1>3, <2>5
      <3>2. CASE n = i
        <4>1. Len(new) \in (m + 1)..Len(new)
          BY <1>1, <1>5, <2>1, <3>2
        <4> QED
          BY <1>2, <1>5, <3>1, <3>2, <4>1
      <3>3. CASE n < i
        <4>1. n \in (m + 1)..Len(new) /\ n \in 1 .. Len(files) - 1
          BY <1>1, <1>5, <2>1, <3>3
        <4> QED
          BY <1>5, <3>1, <3>3, <4>1
      <3>4. CASE n > i
        <4>1. /\ n - 1 \in (m + 1)..Len(new) /\ n - 1 \in 1 .. Len(files) - 1
              /\ ~(n - 1 < i) /\ n - 1 + 1 = n
          BY <1>1, <1>5, <2>1, <3>4
        <4> QED
          BY <1>5, <3>1, <4>1
      <3> QED
        BY <1>1, <3>2, <3>3, <3>4
    <2> QED
      BY <2>2, <2>3, <2>4, <2>5 DEF Wrote, Identity!In
  <1> QED
    BY <1>2, <1>4, <1>5 DEF Rewritten

LEMMA WriteFileIdentity ==
  ASSUME IdentityInv, NEW a \in Agents, Identity!WriteFile(a)
  PROVE  IdentityInv' /\ Leaves
PROOF
  <1>1. PICK c : c = agents[a].real
    OBVIOUS
  <1>2. /\ a \in Identity!Alive /\ "files" \in Ways[a] /\ c # None /\ files' = Identity!LastWritten(c)
        /\ agents' = agents /\ archived' = archived /\ generators' = generators /\ been' = been
    BY <1>1 DEF Identity!WriteFile
  <1>3. Sound(a, agents[a], been[a])
    BY <1>2, AliveIsSound
  <1>4. c \in Conversations /\ c \in Identity!In(been[a])
    <2>1. agents[a].real \in Identity!Known
      BY <1>3 DEF Sound, Identity!Sessions
    <2>2. Len(been[a]) \in DOMAIN been[a]
      <3>1. been[a] \in Seq(Identity!Known) /\ been[a] # <<>>
        BY <1>3 DEF Sound
      <3> QED
        BY <3>1, EmptySeq, LenProperties
    <2>3. c = been[a][Len(been[a])]
      BY <1>1, <1>3 DEF Sound
    <2> QED
      BY <1>1, <1>2, <2>1, <2>2, <2>3 DEF Identity!Known, Identity!In
  <1>5. SessionFilesInv
    BY DEF IdentityInv
  <1>6. SessionFilesInv'
    BY <1>2, <1>4, <1>5, FileWritten DEF SessionFilesInv
  <1>7. ASSUME NEW b \in Identity!Alive
        PROVE  Sound(b, agents[b], been[b])'
    <2>1. Sound(b, agents[b], been[b]) /\ b \in Agents
      BY AliveIsSound
    <2>2. ASSUME OneWriter, been[b][1] = None, "files" \in Ways[b]
          PROVE  \E k \in 0..Len(files') : Wrote(agents[b], been[b], k)'
      <3>1. b = a
        BY <1>2, <2>2 DEF IdentityInv
      <3>2. PICK k \in 0..Len(files) : Wrote(agents[b], been[b], k)
        BY <2>1, <2>2 DEF Sound, Own
      <3>3. PICK x : x = agents[b]
        OBVIOUS
      <3>4. PICK went : went = been[b]
        OBVIOUS
      <3>5. PICK new : new = files'
        OBVIOUS
      <3>6. c \in Identity!In(went) /\ Wrote(x, went, k)
        BY <1>4, <3>1, <3>2, <3>3, <3>4
      <3>7. \E m \in 0..Len(new) : new = files' => Wrote(x, went, m)'
        BY <1>2, <1>4, <1>5, <3>5, <3>6, WrittenIsOwn
      <3> QED
        BY <1>2, <3>3, <3>4, <3>5, <3>7 DEF Wrote, Identity!In
    <2>3. Own(b, agents[b], been[b])'
      BY <1>2, <2>1, <2>2 DEF Sound, Own, OneWriter, Identity!In
    <2> QED
      BY <1>2, <2>1, <2>3 DEF Sound
  <1>8. IdentityInv'
    BY <1>2, <1>6, <1>7 DEF IdentityInv, ItemsInv, Asked, Identity!Alive, OneWriter
  <1>9. Leaves
    BY <1>2 DEF Leaves
  <1> QED
    BY <1>8, <1>9

-----------------------------------------------------------------------------
\* A poll of the session

\* A name that was generated is given to the conversation it was asked for.
LEMMA WithNameKeeps ==
  ASSUME generators \subseteq Asked, NEW a \in Agents, NEW x, NEW went, Sound(a, x, went),
         NEW w, w = Identity!WithName(a, x)
  PROVE  Sound(a, w, went) /\ w.observed = x.observed /\ w.title = x.title
PROOF
  <1> DEFINE names == {g \in generators : g.done /\ g.agent = a /\ Identity!Applies(g, x)}
  <1>1. CASE names = {}
    <2>1. w = x
      BY <1>1 DEF Identity!WithName
    <2> QED
      BY <2>1
  <1>2. CASE names # {}
    <2>1. PICK g : g = CHOOSE name \in names : TRUE
      OBVIOUS
    <2>2. g \in names
      BY <1>2, <2>1
    <2>3. g \in Asked /\ g.for = x.observed
      BY <2>2 DEF Identity!Applies
    <2>4. PICK title : title = [of |-> g.of, for |-> g.for]
      OBVIOUS
    <2>5. title \in Identity!Titles /\ title.for = x.observed
      BY <2>3, <2>4 DEF Asked, Identity!Titles
    <2>6. PICK d : d = x.draft
      OBVIOUS
    <2>7. PICK e : e = [d EXCEPT !.generated = title, !.naming = FALSE]
      OBVIOUS
    <2>8. w = [x EXCEPT !.draft = e]
      <3>1. w = [x EXCEPT !.draft = [x.draft EXCEPT !.generated = [of |-> g.of, for |-> g.for],
                                                    !.naming = FALSE]]
        BY <1>2, <2>1, Zenon DEF Identity!WithName
      <3> QED
        BY <2>4, <2>6, <2>7, <3>1
    <2>9. x \in Identity!Sessions /\ d \in Identity!Drafts
      BY <2>6 DEF Sound, DraftInv
    <2>10. e \in Identity!Drafts /\ e.generated = title /\ e.naming = FALSE
      BY <2>5, <2>7, <2>9 DEF Identity!Drafts
    <2>11. /\ w \in Identity!Sessions /\ w.draft = e /\ w.observed = x.observed /\ w.title = x.title
           /\ w.real = x.real /\ w.reported = x.reported /\ w.current = x.current
           /\ w.signal = x.signal /\ w.known = x.known
      BY <2>8, <2>9, <2>10 DEF Identity!Sessions
    <2>12. DraftInv(e, x.observed)
      BY <2>5, <2>10 DEF DraftInv
    <2> QED
      BY <2>11, <2>12 DEF Sound, Own, Wrote
  <1> QED
    BY <1>1, <1>2

\* After the first n agents were polled: those behind them are as named, and
\* a conversation that one of them is no longer shown in is kept.
Kept(s, named, a, n) ==
  s.agents[a] # None /\ Identity!Archivable(named[a]) /\ s.agents[a].observed # named[a].observed =>
    \/ named[a].observed \in Ids(s.archived)
    \/ \E b \in 1..n : s.agents[b] # None /\ s.agents[b].observed = named[a].observed
PollInv(s, named, n) ==
  /\ s.agents \in [Agents -> Identity!Sessions \cup {None}]
  /\ ItemsInv(s.archived) /\ s.generators \subseteq Asked
  /\ \A b \in Agents : s.agents[b] # None => Sound(b, s.agents[b], been[b]) /\ named[b] # None
  /\ \A b \in Agents : b > n => s.agents[b] = named[b]
  /\ \A a \in 1..n : Kept(s, named, a, n)

LEMMA PollChange ==
  ASSUME NEW last \in Nat, Agents = 1..last, NEW n \in 1..last, NEW s, NEW named, NEW t, NEW w,
         PollInv(s, named, n - 1), s.agents[n] # None, None \notin Identity!Sessions,
         t.agents = [s.agents EXCEPT ![n] = w], w = None \/ Sound(n, w, been[n]),
         ItemsInv(t.archived), t.generators \subseteq Asked,
         \A c \in Ids(s.archived) : c \in Ids(t.archived) \/ (w # None /\ w.observed = c),
         w # None /\ Identity!Archivable(s.agents[n]) /\ w.observed # s.agents[n].observed
           => s.agents[n].observed \in Ids(t.archived)
  PROVE  PollInv(t, named, n)
PROOF
  <1>1. /\ s.agents \in [Agents -> Identity!Sessions \cup {None}]
        /\ \A b \in Agents : s.agents[b] # None => Sound(b, s.agents[b], been[b]) /\ named[b] # None
        /\ \A b \in Agents : b > n - 1 => s.agents[b] = named[b]
        /\ \A a \in 1..(n - 1) : Kept(s, named, a, n - 1)
    BY DEF PollInv
  <1>2. w \in Identity!Sessions \cup {None} /\ n \in Agents /\ n > n - 1
    BY DEF Sound
  <1>3. /\ t.agents \in [Agents -> Identity!Sessions \cup {None}]
        /\ t.agents[n] = w /\ \A b \in Agents : b # n => t.agents[b] = s.agents[b]
    BY <1>1, <1>2
  <1>4. s.agents[n] = named[n]
    BY <1>1, <1>2
  <1>5. \A b \in Agents : t.agents[b] # None => Sound(b, t.agents[b], been[b]) /\ named[b] # None
    BY <1>1, <1>2, <1>3
  <1>6. \A b \in Agents : b > n => t.agents[b] = named[b]
    BY <1>1, <1>3
  <1>7. Kept(t, named, n, n)
    BY <1>3, <1>4 DEF Kept
  <1>8. ASSUME NEW a \in 1..(n - 1) PROVE Kept(t, named, a, n)
    <2>1. a \in Agents /\ a # n
      OBVIOUS
    <2>2. t.agents[a] = s.agents[a] /\ Kept(s, named, a, n - 1)
      BY <1>1, <1>3, <2>1
    <2> SUFFICES ASSUME t.agents[a] # None, Identity!Archivable(named[a]),
                        t.agents[a].observed # named[a].observed
                 PROVE  \/ named[a].observed \in Ids(t.archived)
                        \/ \E b \in 1..n : t.agents[b] # None /\ t.agents[b].observed = named[a].observed
      BY DEF Kept
    <2>3. CASE named[a].observed \in Ids(s.archived)
      <3>1. n \in 1..n
        OBVIOUS
      <3> QED
        BY <1>3, <2>3, <3>1
    <2>4. CASE \E b \in 1..(n - 1) : s.agents[b] # None /\ s.agents[b].observed = named[a].observed
      <3>1. PICK b \in 1..(n - 1) : s.agents[b] # None /\ s.agents[b].observed = named[a].observed
        BY <2>4
      <3>2. b \in 1..n /\ b \in Agents /\ b # n
        OBVIOUS
      <3> QED
        BY <1>3, <3>1, <3>2
    <2> QED
      BY <2>2, <2>3, <2>4 DEF Kept
  <1>9. \A a \in 1..n : a = n \/ a \in 1..(n - 1)
    OBVIOUS
  <1>10. \A a \in 1..n : Kept(t, named, a, n)
    BY <1>7, <1>8, <1>9
  <1> QED
    BY <1>3, <1>5, <1>6, <1>10 DEF PollInv

\* What an agent leaves behind is archived, and nothing else is removed.
LEMMA LeavingKeeps ==
  ASSUME NEW a \in Agents, NEW x \in Identity!Sessions, NEW items, ItemsInv(items),
         NEW new, new = Identity!Leaving(a, x, items)
  PROVE  /\ ItemsInv(new) /\ Ids(items) \subseteq Ids(new)
         /\ Identity!Archivable(x) => x.observed \in Ids(new)
PROOF
  <1>1. CASE Identity!Archivable(x)
    BY <1>1, ItemIsArchived, ItemsToFront DEF Identity!Leaving
  <1>2. CASE ~Identity!Archivable(x)
    BY <1>2 DEF Identity!Leaving
  <1> QED
    BY <1>1, <1>2

LEMMA PollAgentKeeps ==
  ASSUME Identity!ConversationsAssumption, SessionFilesInv,
         NEW last \in Nat, Agents = 1..last, NEW n \in 1..last, NEW s, NEW named,
         PollInv(s, named, n - 1), NEW prompted \in BOOLEAN, NEW started \in BOOLEAN,
         NEW t, t = Identity!PollAgent(s, n, prompted, started)
  PROVE  PollInv(t, named, n)
PROOF
  <1>1. PICK x : x = s.agents[n]
    OBVIOUS
  <1>2. n \in Agents /\ None \notin Identity!Sessions /\ None \notin Conversations
    BY DEF Identity!ConversationsAssumption
  <1>3. ItemsInv(s.archived) /\ s.generators \subseteq Asked
    BY DEF PollInv
  <1>4. CASE x = None
    <2>1. t = s
      BY <1>1, <1>4 DEF Identity!PollAgent
    <2>2. \A b \in Agents : b > n => b > n - 1
      OBVIOUS
    <2>3. \A a \in 1..n : Kept(s, named, a, n)
      <3>1. \A b \in 1..(n - 1) : b \in 1..n
        OBVIOUS
      <3>2. \A a \in 1..(n - 1) : Kept(s, named, a, n)
        BY <3>1 DEF PollInv, Kept
      <3>3. Kept(s, named, n, n)
        BY <1>1, <1>4 DEF Kept
      <3>4. \A a \in 1..n : a = n \/ a \in 1..(n - 1)
        OBVIOUS
      <3> QED
        BY <3>2, <3>3, <3>4
    <2> QED
      BY <2>1, <2>2, <2>3 DEF PollInv
  <1>5. CASE x # None /\ x.exited /\ x.draft.quit
    <2>1. Sound(n, x, been[n]) /\ x \in Identity!Sessions
      BY <1>1, <1>2, <1>5 DEF PollInv, Sound
    <2>2. PICK items : items = Identity!Leaving(n, x, s.archived)
      OBVIOUS
    <2>3. t = [agents |-> [s.agents EXCEPT ![n] = None], archived |-> items, generators |-> s.generators]
      BY <1>1, <1>5, <2>2, Zenon DEF Identity!PollAgent
    <2>4. t.agents = [s.agents EXCEPT ![n] = None] /\ t.archived = items /\ t.generators = s.generators
      BY <2>3
    <2>5. ItemsInv(items) /\ Ids(s.archived) \subseteq Ids(items)
      BY <1>2, <1>3, <2>1, <2>2, LeavingKeeps
    <2> QED
      BY <1>1, <1>2, <1>3, <1>5, <2>4, <2>5, PollChange
  <1>6. CASE x # None /\ ~(x.exited /\ x.draft.quit)
    <2>1. Sound(n, x, been[n]) /\ x \in Identity!Sessions
      BY <1>1, <1>2, <1>6 DEF PollInv, Sound
    <2>2. PICK y : y = Identity!Snapshot(n, x)
      OBVIOUS
    <2>3. /\ Sound(n, y, been[n]) /\ y.observed = x.observed
          /\ y.reported \in Identity!Known /\ (x.observed # None => y.reported # None)
      <3>1. Sound(n, y, been[n]) /\ y.observed = x.observed /\ (x.reported # None => y.reported # None)
        BY <1>2, <2>1, <2>2, SnapshotKeeps
      <3> QED
        BY <2>1, <3>1 DEF Sound, Identity!Sessions
    <2>4. PICK draft : draft = Identity!DraftOf(y.reported, s.archived, prompted, started)
      OBVIOUS
    <2>5. PICK rest : rest = Identity!Without(s.archived, y.reported)
      OBVIOUS
    <2>6. PICK w : w = Identity!Observed(x, y, draft)
      OBVIOUS
    <2>7. PICK items : items = IF Identity!Switched(x, y) THEN Identity!Leaving(n, x, rest) ELSE s.archived
      OBVIOUS
    <2>8. PICK waiting : waiting = IF Identity!Switched(x, y) /\ draft.naming
                             THEN s.generators \cup {Identity!Requested(n, y.reported, y.reported)}
                             ELSE s.generators
      OBVIOUS
    <2>9. t = [agents |-> [s.agents EXCEPT ![n] = w], archived |-> items, generators |-> waiting]
      BY <1>1, <1>6, <2>2, <2>4, <2>5, <2>6, <2>7, <2>8, Zenon DEF Identity!PollAgent
    <2>10. t.agents = [s.agents EXCEPT ![n] = w] /\ t.archived = items /\ t.generators = waiting
      BY <2>9
    <2>11. Identity!Switched(x, y) => y.reported \in Conversations
      BY <2>3 DEF Identity!Switched, Identity!Known
    <2>12. Identity!Switched(x, y) => DraftInv(draft, y.reported)
      BY <1>3, <2>4, <2>11, DraftFits
    <2>13. Sound(n, w, been[n]) /\ w.observed = y.reported
      BY <1>2, <2>3, <2>6, <2>12, ObservedIsSound
    <2>14. ItemsInv(rest) /\ Ids(rest) = Ids(s.archived) \ {y.reported}
      BY <1>3, <2>5, ItemsWithout
    <2>15. waiting \subseteq Asked
      BY <1>2, <1>3, <2>3, <2>8, <2>11, RequestIsAsked
    <2>16. /\ ItemsInv(items)
           /\ \A c \in Ids(s.archived) : c \in Ids(items) \/ w.observed = c
           /\ Identity!Archivable(x) /\ w.observed # x.observed => x.observed \in Ids(items)
      <3>1. CASE Identity!Switched(x, y)
        <4>1. /\ ItemsInv(items) /\ Ids(rest) \subseteq Ids(items)
              /\ Identity!Archivable(x) => x.observed \in Ids(items)
          BY <1>2, <2>1, <2>7, <2>14, <3>1, LeavingKeeps
        <4> QED
          BY <2>13, <2>14, <4>1
      <3>2. CASE ~Identity!Switched(x, y)
        <4>1. Identity!Archivable(x) => w.observed = x.observed
          BY <2>3, <2>13, <3>2 DEF Identity!Switched, Identity!Archivable
        <4> QED
          BY <1>3, <2>7, <3>2, <4>1
      <3> QED
        BY <3>1, <3>2
    <2>17. w # None
      BY <1>2, <2>13 DEF Sound
    <2> QED
      BY <1>1, <1>2, <1>6, <2>10, <2>13, <2>15, <2>16, <2>17, PollChange
  <1> QED
    BY <1>4, <1>5, <1>6

\* polled[m] is the state after the first m agents were polled.
Polls(start, prompted, started, n, polled) == polled = [m \in 0..n |->
  IF m = 0 THEN start ELSE Identity!PollAgent(polled[m - 1], m, prompted[m], started)]

LEMMA PollsExist ==
  ASSUME NEW start, NEW prompted, NEW started, NEW last \in Nat
  PROVE  \E polled : Polls(start, prompted, started, last, polled)
PROOF
  <1> DEFINE T == {n \in Nat : ~\E polled : Polls(start, prompted, started, n, polled)}
  <1>1. SUFFICES ASSUME T # {} PROVE FALSE
    OBVIOUS
  <1>2. PICK n \in T : \A m \in T : n <= m
    BY <1>1, LeastNatural
  <1>3. CASE n = 0
    <2> DEFINE polled == [m \in 0..0 |-> start]
    <2>1. Polls(start, prompted, started, 0, polled)
      BY DEF Polls
    <2> QED
      BY <1>2, <1>3, <2>1
  <1>4. CASE n # 0
    <2>1. n - 1 \in Nat /\ n - 1 \notin T
      BY <1>2, <1>4
    <2>2. PICK polled : Polls(start, prompted, started, n - 1, polled)
      BY <2>1
    <2> DEFINE next == Identity!PollAgent(polled[n - 1], n, prompted[n], started)
               more == [m \in 0..n |-> IF m = n THEN next ELSE polled[m]]
    <2>3. \A m \in 0..(n - 1) : polled[m] =
            IF m = 0 THEN start ELSE Identity!PollAgent(polled[m - 1], m, prompted[m], started)
      BY <2>2, Zenon DEF Polls
    <2>4. \A m \in 0..(n - 1) : more[m] = polled[m] /\ m \in 0..n
      BY <2>1
    <2>5. ASSUME NEW m \in 0..n
          PROVE  more[m] = IF m = 0 THEN start ELSE Identity!PollAgent(more[m - 1], m, prompted[m], started)
      <3>1. CASE m = n
        <4>1. n - 1 \in 0..(n - 1)
          BY <2>1
        <4>2. more[n - 1] = polled[n - 1]
          BY <2>4, <4>1
        <4>3. more[n] = Identity!PollAgent(polled[n - 1], n, prompted[n], started)
          BY <1>2
        <4> HIDE DEF more
        <4> QED
          BY <1>4, <3>1, <4>2, <4>3
      <3>2. CASE m # n
        <4>1. m \in 0..(n - 1)
          BY <1>2, <3>2
        <4>2. m # 0 => m - 1 \in 0..(n - 1)
          BY <2>1, <4>1
        <4> HIDE DEF more
        <4> QED
          BY <2>3, <2>4, <4>1, <4>2
      <3> QED
        BY <3>1, <3>2
    <2>6. DOMAIN more = 0..n /\ more = [m \in 0..n |-> more[m]]
      OBVIOUS
    <2> HIDE DEF more
    <2>7. Polls(start, prompted, started, n, more)
      BY <2>5, <2>6 DEF Polls
    <2> QED
      BY <1>2, <2>7
  <1> QED
    BY <1>3, <1>4

LEMMA PollsKeep ==
  ASSUME Identity!ConversationsAssumption, SessionFilesInv, NEW last \in Nat, Agents = 1..last,
         NEW start, NEW named, PollInv(start, named, 0),
         NEW prompted \in Identity!Histories, NEW started \in BOOLEAN,
         NEW polled, Polls(start, prompted, started, last, polled)
  PROVE  PollInv(polled[last], named, last)
PROOF
  <1>1. \A m \in 0..last : polled[m] =
          IF m = 0 THEN start ELSE Identity!PollAgent(polled[m - 1], m, prompted[m], started)
    BY Zenon DEF Polls
  <1> DEFINE T == {n \in 0..last : ~PollInv(polled[n], named, n)}
  <1>2. T = {}
    <2> SUFFICES ASSUME T # {} PROVE FALSE
      OBVIOUS
    <2>1. PICK n \in T : \A m \in T : n <= m
      <3>1. T \in SUBSET Nat
        OBVIOUS
      <3> HIDE DEF T
      <3> QED
        BY <3>1, LeastNatural
    <2>2. n \in 0..last /\ ~PollInv(polled[n], named, n)
      BY <2>1
    <2>3. CASE n = 0
      <3>1. polled[0] = start
        BY <1>1, <2>2, <2>3
      <3> QED
        BY <2>2, <2>3, <3>1
    <2>4. CASE n # 0
      <3>1. n \in 1..last /\ n - 1 \in 0..last /\ ~(n <= n - 1)
        BY <2>2, <2>4
      <3>2. PollInv(polled[n - 1], named, n - 1)
        BY <2>1, <3>1
      <3>3. polled[n] = Identity!PollAgent(polled[n - 1], n, prompted[n], started)
        BY <1>1, <2>2, <2>4
      <3>4. prompted[n] \in BOOLEAN
        BY <3>1 DEF Identity!Histories
      <3> HIDE DEF T
      <3> QED
        BY <2>2, <3>1, <3>2, <3>3, <3>4, PollAgentKeeps
    <2> QED
      BY <2>3, <2>4
  <1> QED
    BY <1>2

LEMMA PollIdentity ==
  ASSUME Identity!ConversationsAssumption, IdentityInv, Identity!Poll
  PROVE  IdentityInv' /\ Leaves
PROOF
  <1> DEFINE named == [a \in Agents |-> IF a \in Identity!Alive THEN Identity!WithName(a, agents[a]) ELSE None]
             start == [agents |-> named, archived |-> archived,
                       generators |-> {g \in generators : ~g.done}]
             count == Identity!Cardinality(Agents)
             loop(prompted, started) == CHOOSE polled : polled = [n \in 0..count |->
               IF n = 0 THEN start ELSE Identity!PollAgent(polled[n - 1], n, prompted[n], started)]
  <1>1. start.agents = named /\ start.archived = archived /\ start.generators \subseteq generators
    OBVIOUS
  <1>2. \E prompted \in Identity!Histories, started \in IF Identity!Free THEN BOOLEAN ELSE {FALSE} :
          \E s \in {loop(prompted, started)[count]} :
            /\ agents' = s.agents /\ archived' = s.archived /\ generators' = s.generators
            /\ UNCHANGED <<files, been>>
    BY Zenon DEF Identity!Poll
  <1> HIDE DEF start
  <1>3. PICK last \in Nat : last = Identity!Cardinality(Agents) /\ Agents = 1..last
    <2>1. Identity!IsFiniteSet(Agents) /\ Agents = 1..Identity!Cardinality(Agents)
      BY DEF Identity!ConversationsAssumption
    <2>2. IsFiniteSet(Agents) /\ Identity!Cardinality(Agents) = Cardinality(Agents)
      BY <2>1 DEF IsFiniteSet, Identity!IsFiniteSet, Cardinality, Identity!Cardinality
    <2>3. Cardinality(Agents) \in Nat
      BY <2>2, FS_CardinalityType
    <2> QED
      BY <2>1, <2>2, <2>3
  <1>4. PICK prompted \in Identity!Histories, started \in BOOLEAN : \E polled :
          /\ Polls(start, prompted, started, last, polled)
          /\ agents' = polled[last].agents /\ archived' = polled[last].archived
          /\ generators' = polled[last].generators /\ files' = files /\ been' = been
    <2>1. PICK prompted \in Identity!Histories, started \in BOOLEAN :
            /\ agents' = loop(prompted, started)[count].agents
            /\ archived' = loop(prompted, started)[count].archived
            /\ generators' = loop(prompted, started)[count].generators
            /\ files' = files /\ been' = been
      <3> HIDE DEF loop
      <3> QED
        BY <1>2
    <2>2. loop(prompted, started) = CHOOSE polled : Polls(start, prompted, started, count, polled)
      BY DEF Polls
    <2>3. Polls(start, prompted, started, count, loop(prompted, started))
      <3> HIDE DEF loop
      <3> QED
        BY <1>3, <2>2, PollsExist
    <2> HIDE DEF loop
    <2> QED
      BY <1>3, <2>1, <2>3
  <1> HIDE DEF loop
  <1>5. generators \subseteq Asked /\ SessionFilesInv /\ ItemsInv(archived)
    BY DEF IdentityInv
  <1>6. ASSUME NEW a \in Identity!Alive
        PROVE  /\ a \in Agents /\ Sound(a, named[a], been[a])
               /\ named[a].observed = agents[a].observed /\ named[a].title = agents[a].title
    <2>1. a \in Agents /\ Sound(a, agents[a], been[a])
      BY AliveIsSound
    <2>2. named[a] = Identity!WithName(a, agents[a])
      BY <2>1
    <2> HIDE DEF named
    <2> HIDE DEF IdentityInv
    <2> QED
      BY <1>5, <2>1, <2>2, WithNameKeeps
  <1>7. \A a \in Agents : a \notin Identity!Alive => named[a] = None
    OBVIOUS
  <1>8. PollInv(start, named, 0)
    <2>2. \A a \in Agents : named[a] \in Identity!Sessions \cup {None}
      BY <1>6, <1>7 DEF Sound
    <2>3. named \in [Agents -> Identity!Sessions \cup {None}]
      BY <2>2
    <2> HIDE DEF named
    <2> QED
      BY <1>1, <1>5, <1>6, <1>7, <2>3 DEF PollInv
  <1> HIDE DEF named
  <1>9. PICK polled, s :
          /\ Polls(start, prompted, started, last, polled) /\ s = polled[last]
          /\ agents' = s.agents /\ archived' = s.archived /\ generators' = s.generators
          /\ files' = files /\ been' = been
    BY <1>4
  <1>10. PollInv(s, named, last)
    BY <1>3, <1>5, <1>8, <1>9, PollsKeep
  <1>11. /\ agents' = s.agents /\ archived' = s.archived /\ generators' = s.generators
         /\ files' = files /\ been' = been
    BY <1>9
  <1>12. \A a \in Agents : agents'[a] # None => a \in Identity!Alive /\ Sound(a, agents'[a], been[a])
    BY <1>7, <1>10, <1>11 DEF PollInv
  <1>13. IdentityInv'
    <2>1. agents' \in [Agents -> Identity!Sessions \cup {None}] /\ ItemsInv(archived') /\ generators' \subseteq Asked
      BY <1>10, <1>11 DEF PollInv
    <2>2. SessionFilesInv' /\ been' \in [Agents -> Seq(Identity!Known)]
      BY <1>11 DEF IdentityInv, SessionFilesInv
    <2>3. (\A a \in Identity!Alive : Sound(a, agents[a], been[a]))'
      BY <1>11, <1>12 DEF Identity!Alive, Sound, Own, Wrote
    <2>4. (OneWriter => \A a, b \in Identity!Alive : "files" \in Ways[a] /\ "files" \in Ways[b] => a = b)'
      <3>1. OneWriter => \A a, b \in Identity!Alive : "files" \in Ways[a] /\ "files" \in Ways[b] => a = b
        BY DEF IdentityInv
      <3>2. Identity!Alive' \subseteq Identity!Alive
        BY <1>12 DEF Identity!Alive
      <3> QED
        BY <3>1, <3>2 DEF OneWriter
    <2> QED
      BY <2>1, <2>2, <2>3, <2>4 DEF IdentityInv, ItemsInv, Asked
  <1>14. Leaves
    <2> SUFFICES ASSUME NEW a \in Identity!Alive, agents'[a] # None, Identity!Archivable(agents[a]),
                        agents'[a].observed # agents[a].observed
                 PROVE  \/ \E item \in {archived'[i] : i \in DOMAIN archived'} : item.id = agents[a].observed
                        \/ \E b \in Agents : agents'[b] # None /\ agents'[b].observed = agents[a].observed
      BY DEF Leaves
    <2>1. /\ a \in 1..last /\ named[a].observed = agents[a].observed
          /\ Identity!Archivable(named[a])
      BY <1>3, <1>6 DEF Identity!Archivable
    <2>2. Kept(s, named, a, last)
      BY <1>10, <2>1 DEF PollInv
    <2>3. \/ agents[a].observed \in Ids(s.archived)
          \/ \E b \in 1..last : s.agents[b] # None /\ s.agents[b].observed = agents[a].observed
      BY <1>11, <2>1, <2>2 DEF Kept
    <2> QED
      BY <1>3, <1>11, <2>3 DEF Ids
  <1> QED
    BY <1>13, <1>14

-----------------------------------------------------------------------------
LEMMA IdentityBegins ==
  ASSUME Identity!Init
  PROVE  IdentityInv
PROOF
  <1>1. /\ agents = [a \in Agents |-> None] /\ archived = <<>> /\ generators = {}
        /\ been = [a \in Agents |-> <<>>]
        /\ files = <<>> \/ \E c \in Conversations : files = <<c>>
    BY DEF Identity!Init
  <1>2. SessionFilesInv
    <2>1. CASE files = <<>>
      BY <2>1 DEF SessionFilesInv
    <2>2. CASE \E c \in Conversations : files = <<c>>
      <3>1. PICK c \in Conversations : files = <<c>>
        BY <2>2
      <3>2. <<c>> \in Seq(Conversations) /\ DOMAIN <<c>> = 1..1
        OBVIOUS
      <3> QED
        BY <3>1, <3>2 DEF SessionFilesInv
    <2> QED
      BY <1>1, <2>1, <2>2
  <1>3. ItemsInv(archived)
    BY <1>1 DEF ItemsInv
  <1>4. been \in [Agents -> Seq(Identity!Known)] /\ Identity!Alive = {}
    BY <1>1 DEF Identity!Alive
  <1> QED
    BY <1>1, <1>2, <1>3, <1>4 DEF IdentityInv

LEMMA IdentityStep ==
  ASSUME Identity!ConversationsAssumption, IdentityInv, [Identity!Next]_(Identity!vars)
  PROVE  IdentityInv' /\ [Leaves]_(Identity!vars)
PROOF
  <1>1. CASE UNCHANGED Identity!vars
    <2>1. UNCHANGED <<agents, been, files, archived>> /\ generators' \subseteq Asked
      BY <1>1 DEF Identity!vars, IdentityInv
    <2> QED
      BY <1>1, <2>1, OthersKeep
  <1>2. CASE Identity!Poll
    BY <1>2, PollIdentity
  <1>3. ASSUME NEW a \in Agents, Identity!Spawn(a) PROVE IdentityInv' /\ Leaves
    BY <1>3, SpawnIdentity
  <1>4. ASSUME NEW a \in Agents, NEW i \in DOMAIN archived, Identity!ResumeArchived(a, i)
        PROVE  IdentityInv' /\ Leaves
    BY <1>4, ResumeIdentity
  <1>5. ASSUME NEW a \in Agents, NEW line \in Identity!Lines, Identity!Submit(a, line)
        PROVE  IdentityInv' /\ Leaves
    BY <1>5, SubmitIdentity
  <1>6. ASSUME NEW a \in Agents, NEW c \in Conversations, Identity!Enter(a, c)
        PROVE  IdentityInv' /\ Leaves
    BY <1>6, EnterIdentity DEF Identity!ConversationsAssumption
  <1>7. ASSUME NEW a \in Agents, \/ Identity!WriteFile(a) \/ Identity!Exit(a) \/ Identity!TakeSnapshot(a)
                                 \/ Identity!ArchiveAgent(a) \/ Identity!CloseAgent(a)
        PROVE  IdentityInv' /\ Leaves
    BY <1>7, WriteFileIdentity, ExitIdentity, TakeSnapshotIdentity, ArchiveIdentity, CloseIdentity
  <1>8. ASSUME NEW g \in generators, NEW ok \in BOOLEAN, Identity!Generate(g, ok)
        PROVE  IdentityInv' /\ Leaves
    BY <1>8, GenerateIdentity
  <1> HIDE DEF IdentityInv, Leaves
  <1> QED
    BY <1>1, <1>2, <1>3, <1>4, <1>5, <1>6, <1>7, <1>8 DEF Identity!Next

\* What the invariant says of the agents shown.
LEMMA IdentityInvShows ==
  ASSUME Identity!ConversationsAssumption, IdentityInv
  PROVE  /\ Identity!TypeOK /\ Identity!NamesFollowTheConversation
         /\ OneWriter => Identity!IdentityIsTheAgentsOwn
PROOF
  <1>1. \A a \in Identity!Alive : a \in Agents /\ Sound(a, agents[a], been[a])
    BY AliveIsSound
  <1>2. Identity!In(files) \subseteq Conversations
    <2>1. files \in Seq(Conversations)
      BY DEF IdentityInv, SessionFilesInv
    <2> QED
      BY <2>1, LenProperties, ElementOfSeq DEF Identity!In
  <1>3. \A g \in generators : g.agent \in Agents
    BY DEF IdentityInv, Asked
  <1>4. ASSUME NEW a \in Identity!Alive
        PROVE  /\ {agents[a].real, agents[a].reported, agents[a].observed,
                   agents[a].current, agents[a].signal} \subseteq Conversations \cup {None}
               /\ agents[a].draft.naming => agents[a].draft.generated = None
    <2>1. agents[a] \in Identity!Sessions /\ DraftInv(agents[a].draft, agents[a].observed)
      BY <1>1 DEF Sound
    <2> QED
      BY <2>1 DEF Identity!Sessions, Identity!Known, DraftInv
  <1>5. Identity!TypeOK
    BY <1>2, <1>3, <1>4 DEF Identity!TypeOK, IdentityInv, ItemsInv
  <1>6. Identity!NamesFollowTheConversation
    BY <1>1 DEF Identity!NamesFollowTheConversation, Sound, DraftInv
  <1>7. OneWriter => Identity!IdentityIsTheAgentsOwn
    BY <1>1 DEF Identity!IdentityIsTheAgentsOwn, Identity!Spawned, Sound, Own
  <1> QED
    BY <1>5, <1>6, <1>7

\* The step invariant, whatever the harnesses of the agents do.
LEMMA IdentityHolds ==
  Spec => []IdentityInv /\ [][Leaves]_(Identity!vars)
PROOF
  <1>1. Init => IdentityInv
    BY IdentityBegins DEF Init
  <1>2. IdentityInv /\ [Next]_vars => IdentityInv' /\ [Leaves]_(Identity!vars)
    <2>1. [Next]_vars => [Identity!Next]_(Identity!vars)
      BY DEF Next, vars, identityVars, Identity!vars
    <2> QED
      BY <2>1, ServicesAssumption, IdentityStep DEF ServicesAssumption
  <1> QED
    BY <1>1, <1>2, PTL DEF Spec

\* The name an agent is shown under was asked for its conversation, and a
\* conversation with a name that it leaves can be resumed, whatever files the
\* agents of a directory write at the same time (server.rs 1089-1295).
THEOREM NamesAndLeavesAreKept ==
  Spec => [](Identity!TypeOK /\ Identity!NamesFollowTheConversation) /\ Identity!LeavesAreArchived
PROOF
  <1>1. IdentityInv => Identity!TypeOK /\ Identity!NamesFollowTheConversation
    BY ServicesAssumption, IdentityInvShows DEF ServicesAssumption
  <1> QED
    BY <1>1, IdentityHolds, PTL DEF Identity!LeavesAreArchived, Leaves

\* While no two agents write session files of a directory at the same time, an
\* agent is shown in a conversation its own process was in; the name it is
\* shown under was asked for that conversation, and a conversation with a name
\* that it leaves can be resumed (session.rs 195-464, server.rs 1089-1295).
THEOREM ConversationsStayKept ==
  ASSUME OneWriter
  PROVE  Spec => ConversationsAreKept
PROOF
  <1>1. IdentityInv => (part = "Identity" =>
          /\ Identity!TypeOK
          /\ Identity!IdentityIsTheAgentsOwn /\ Identity!NamesFollowTheConversation)
    BY ServicesAssumption, IdentityInvShows DEF ServicesAssumption
  <1> QED
    BY <1>1, IdentityHolds, PTL DEF ConversationsAreKept, Identity!LeavesAreArchived, Leaves
=============================================================================
