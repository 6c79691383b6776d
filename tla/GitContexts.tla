---------------------------- MODULE GitContexts ----------------------------
(***************************************************************************)
(* The Git context the server shows beside every agent (server.rs          *)
(* 866-1031, git.rs): one probe at a time by a worker thread, a cache      *)
(* keyed by the directory probed, and the rounds in which the poll applies *)
(* a result and chooses the next probe.                                    *)
(*                                                                         *)
(* A context is its directory and the revision Git reported; ages stop     *)
(* growing at the longest interval.  A probe ends within one second: with  *)
(* slower ones the agents first in the order are due again before the last *)
(* was ever probed.                                                        *)
(***************************************************************************)
EXTENDS Naturals, Sequences, FiniteSets

CONSTANTS Agents,        \* agent identifiers, never used again
          Directories,   \* directories agents move to
          Launches,      \* those agents are launched in
          MaxRevision,   \* bound: commits, edits and switches of branch
          Selected,      \* SELECTED_GIT_REFRESH_INTERVAL, in ticks
          Background,    \* BACKGROUND_GIT_REFRESH_INTERVAL, in ticks
          Nowhere        \* Option::None of a directory, a context or a probe

GitAssumption ==
  /\ Launches \subseteq Directories
  /\ MaxRevision \in Nat /\ Selected \in Nat /\ Background \in Nat
  /\ 0 < Selected /\ Selected <= Background
  /\ Agents \subseteq Nat /\ Nowhere \notin Directories
  /\ Nowhere \notin [agent: Agents, working: Directories \cup {Nowhere}, directory: Directories]

VARIABLES order,      \* AgentManager.order
          launch,     \* AgentSession.launch_directory
          directory,  \* where the foreground process is now, if it can be read
          selected,   \* selected_agent_id
          head,       \* what Git would report of each directory
          shown,      \* ObservedAgent.working_directory and .git of each agent
          checked,    \* age of git_checked, Background once due, or Nowhere
          cache,      \* git_cache: context and age of each directory, or Nowhere
          probe,      \* git_in_flight
          worker,     \* what the worker thread holds: nothing, a request, a result
          told        \* what the attached client was last sent of each agent

agents == <<order, launch, directory, selected>>
vars == <<agents, head, shown, checked, cache, probe, worker, told>>

InOrder(s) == {s[i] : i \in DOMAIN s}
RemoveAt(s, i) == SubSeq(s, 1, i - 1) \o SubSeq(s, i + 1, Len(s))
Alive == InOrder(order)
Contexts == [directory: Directories, revision: 0..MaxRevision]
Ages == 0..Background
Where(a, d) == IF d = Nowhere THEN launch[a] ELSE d
Standing(a) == Where(a, shown[a].directory)

Interval(a) == IF selected = a THEN Selected ELSE Background

-----------------------------------------------------------------------------
(* The result of a probe.  A round of the poll is the state it changes:    *)
(* what is shown and was checked, the cache, the probe in flight, and the   *)
(* agents whose change is announced.                                        *)

Round == [shown |-> shown, checked |-> checked, cache |-> cache, probe |-> probe,
          worker |-> worker, changed |-> {}]

(* apply_git_observation for each agent of who, in the directory at[a]. *)
Observe(r, who, at, cached) ==
  LET seen == [a \in Agents |-> IF a \in who
                 THEN [directory |-> at[a], git |-> cached[a].context] ELSE r.shown[a]]
  IN [r EXCEPT !.shown = seen,
        !.checked = [a \in Agents |-> IF a \in who THEN cached[a].age ELSE @[a]],
        !.changed = @ \cup {a \in who : seen[a] # r.shown[a]}]

(* Keyed by the directory probed; only those agents stand in are kept. *)
Cached(r) ==
  [r EXCEPT !.cache = [d \in Directories |->
     IF ~\E a \in Alive : Where(a, r.shown[a].directory) = d THEN Nowhere
     ELSE IF d = probe.directory THEN [context |-> worker.context, age |-> 0] ELSE @[d]]]

(* The agent probed shows the result unless it moved while Git was running *)
(* (it is then probed again next), and so does every other agent standing   *)
(* in the same directory.                                                    *)
ProbedAnyway == {probe.agent} \cap Alive
Probed == IF directory[probe.agent] = probe.working THEN {probe.agent} \cap Alive ELSE {}
Others == {a \in Alive : a # probe.agent /\ Standing(a) = probe.directory}
Moved == {probe.agent} \ Probed
MovedTo == [directory |-> directory[probe.agent], git |-> Nowhere]
RetractedContexts == {a \in Moved \cap Alive : shown[a].git # Nowhere}
Retracted == {a \in Moved \cap Alive : shown[a].git # Nowhere \/ shown[a].directory # directory[a]}

ApplyResult(r) ==
  LET answer == [context |-> worker.context, age |-> 0]
      applied == Observe(r, Probed \cup Others,
                   [a \in Agents |-> IF a = probe.agent THEN directory[a] ELSE shown[a].directory],
                   [a \in Agents |-> answer])
      settled ==
        [applied EXCEPT
           !.shown = [a \in Agents |-> IF a \in Moved \cap Alive THEN MovedTo ELSE @[a]],
           !.checked = [a \in Agents |-> IF a \in Moved THEN Nowhere ELSE @[a]],
           !.changed = @ \cup Retracted,
           !.probe = Nowhere, !.worker = [state |-> "idle"]]
  IN Cached(settled)

-----------------------------------------------------------------------------
(* The next probe: the selected agent first, and until one has to be asked *)
(* for, whatever the cache can answer.                                      *)

Candidates ==
  IF selected \notin Alive THEN order
  ELSE LET i == CHOOSE i \in DOMAIN order : order[i] = selected
       IN [order EXCEPT ![1] = selected, ![i] = order[1]]

Due(r, a) ==
  \/ directory[a] # r.shown[a].directory
  \/ r.checked[a] = Nowhere
  \/ r.checked[a] >= Interval(a)

CachedContext(r, a) ==
  LET c == r.cache[Where(a, directory[a])]
  IN IF c # Nowhere /\ c.age < Interval(a) THEN c ELSE Nowhere

Schedule(r) ==
  LET due == {i \in DOMAIN order : Due(r, Candidates[i])}
      asking == {i \in due : CachedContext(r, Candidates[i]) = Nowhere}
      first == CHOOSE i \in asking : \A j \in asking : i <= j
      answered == {Candidates[i] : i \in {j \in due : \A k \in asking : j < k}}
      next == Candidates[first]
      seen == Observe(r, answered, directory, [a \in answered |-> CachedContext(r, a)])
  IN IF r.probe # Nowhere THEN r
     ELSE IF asking = {} THEN seen
     ELSE [seen EXCEPT
             !.probe = [agent |-> next, working |-> directory[next],
                        directory |-> Where(next, directory[next])],
             !.worker = [state |-> "request", directory |-> Where(next, directory[next])]]

(* A poll of the attached session; every changed agent goes to the client. *)
Poll ==
  \E r \in {IF worker.state = "result" THEN ApplyResult(Round) ELSE Round} :
  \E s \in {Schedule(r)} :
    /\ shown' = s.shown /\ checked' = s.checked /\ cache' = s.cache
    /\ probe' = s.probe /\ worker' = s.worker
    /\ told' = [a \in Agents |-> IF a \in s.changed \cap Alive THEN s.shown[a] ELSE told[a]]
    /\ UNCHANGED <<agents, head>>

-----------------------------------------------------------------------------
(* The worker thread, the clock, Git and the user *)

Unobserved == [directory |-> Nowhere, git |-> Nowhere]

(* A directory outside any repository has no context. *)
RunGit(repository) ==
  /\ worker.state = "request"
  /\ worker' = [state |-> "result",
                context |-> IF repository
                              THEN [directory |-> worker.directory, revision |-> head[worker.directory]]
                              ELSE Nowhere]
  /\ UNCHANGED <<agents, head, shown, checked, cache, probe, told>>

Tick ==
  LET Older(age) == IF age = Background THEN age ELSE age + 1 IN
  /\ worker.state = "idle" \/ worker.state = "result"
  /\ checked' = [a \in Agents |-> IF checked[a] = Nowhere THEN Nowhere ELSE Older(checked[a])]
  /\ cache' = [d \in Directories |->
       IF cache[d] = Nowhere THEN Nowhere ELSE [cache[d] EXCEPT !.age = Older(@)]]
  /\ <<checked', cache'>> # <<checked, cache>>
  /\ UNCHANGED <<agents, head, shown, probe, worker, told>>

Change(d) ==
  /\ head[d] < MaxRevision /\ head' = [head EXCEPT ![d] = @ + 1]
  /\ UNCHANGED <<agents, shown, checked, cache, probe, worker, told>>

(* The directory a process moves to changes with it, so that moves count  *)
(* against the same bound.                                                  *)
Move(a, d) ==
  /\ a \in Alive /\ directory[a] # d
  /\ IF d = Nowhere THEN UNCHANGED head
     ELSE head[d] < MaxRevision /\ head' = [head EXCEPT ![d] = @ + 1]
  /\ directory' = [directory EXCEPT ![a] = d]
  /\ UNCHANGED <<order, launch, selected, shown, checked, cache, probe, worker, told>>

Spawn(a, d) ==
  /\ d \in Launches
  /\ \A b \in Agents : launch[b] # Nowhere <=> b < a
  /\ order' = Append(order, a) /\ launch' = [launch EXCEPT ![a] = d]
  /\ directory' = [directory EXCEPT ![a] = d]
  /\ selected' = IF selected = Nowhere THEN a ELSE selected
  /\ UNCHANGED <<head, shown, checked, cache, probe, worker, told>>

Close(a) ==
  /\ \E i \in DOMAIN order : order[i] = a /\ order' = RemoveAt(order, i)
  /\ directory' = [directory EXCEPT ![a] = Nowhere]
  /\ checked' = [checked EXCEPT ![a] = Nowhere]
  /\ \/ selected # a /\ UNCHANGED selected
     \/ selected = a /\ selected' \in (InOrder(order') \cup {Nowhere})
                     /\ (selected' = Nowhere) = (order' = <<>>)
  /\ shown' = [shown EXCEPT ![a] = Unobserved] /\ told' = [told EXCEPT ![a] = Unobserved]
  /\ UNCHANGED <<launch, head, cache, probe, worker>>

(* SelectAgent also forces a refresh. *)
Select(a) ==
  /\ a \in Alive /\ selected' = a
  /\ checked' = [checked EXCEPT ![a] = Nowhere]
  /\ UNCHANGED <<order, launch, directory, head, shown, cache, probe, worker, told>>

Init ==
  /\ order = <<>> /\ launch = [a \in Agents |-> Nowhere]
  /\ directory = [a \in Agents |-> Nowhere] /\ selected = Nowhere
  /\ head = [d \in Directories |-> 0]
  /\ shown = [a \in Agents |-> Unobserved] /\ told = shown
  /\ checked = [a \in Agents |-> Nowhere] /\ cache = [d \in Directories |-> Nowhere]
  /\ probe = Nowhere /\ worker = [state |-> "idle"]

Next ==
  \/ Poll \/ (\E repository \in BOOLEAN : RunGit(repository)) \/ Tick
  \/ \E d \in Directories : Change(d)
  \/ \E a \in Agents, d \in Directories \cup {Nowhere} : Move(a, d)
  \/ \E a \in Agents, d \in Directories : Spawn(a, d)
  \/ \E a \in Agents : Close(a) \/ Select(a)

Spec == Init /\ [][Next]_vars

-----------------------------------------------------------------------------
(* Values of the variables: every agent shown something stands somewhere,  *)
(* and the worker is busy exactly while a probe is in flight.               *)
TypeOK ==
  /\ Alive \subseteq Agents /\ (\A i, j \in DOMAIN order : order[i] = order[j] => i = j)
  /\ selected \in Alive \cup {Nowhere}
  /\ head \in [Directories -> 0..MaxRevision]
  /\ shown \in [Agents -> [directory: Directories \cup {Nowhere}, git: Contexts \cup {Nowhere}]]
  /\ checked \in [Agents -> Ages \cup {Nowhere}]
  /\ cache \in [Directories -> [context: Contexts \cup {Nowhere}, age: Ages] \cup {Nowhere}]
  /\ (probe = Nowhere) = (worker.state = "idle")

(* "rather than showing stale worktree data" (server.rs 888): the context  *)
(* shown of an agent is of the directory it is shown to stand in, whatever *)
(* moved, was closed or shared a probe meanwhile.                          *)
ContextIsOfTheDirectory ==
  \A a \in Alive : shown[a].git # Nowhere => shown[a].git.directory = Standing(a)

(* poll_events: a client that is attached has been told what the server    *)
(* holds of every agent.                                                    *)
ClientKnowsTheContext == \A a \in Alive : told[a] = shown[a]
=============================================================================
